-------------------------------- MODULE HttpConn --------------------------------
(***************************************************************************)
(* One http_conn object of ch15/15_5_http_conn.cpp: how it reads a request *)
(* that arrives in pieces, parses it line by line, builds the response and *)
(* writes it to a socket that may take only part of it, over the           *)
(* connections that use the object one after the other.                    *)
(*                                                                         *)
(* Only one thread works on the object at a time (WebServer!OneOwner), so  *)
(* that pc is where that thread is: the main thread in read and write, a   *)
(* worker in process.  The pool is taken to accept what read() returns.    *)
(*                                                                         *)
(* A line of text is one character here, and so are its CR and its LF, a   *)
(* character of a body, and a page of a file.  parse_headers is declared   *)
(* and called but defined nowhere in the repository: ParseHeaders is what  *)
(* its callers expect of it.  The results of the add_* functions that the  *)
(* code looks at are never false: the write buffer holds every header.     *)
(***************************************************************************)
EXTENDS Integers, SequencesExt

CONSTANTS Requests,         \* what a client may ask, see RequestType
          Files,            \* the regular files all users may read
          Size,             \* the pages of each of them
          READ_BUFFER_SIZE, \* in characters
          HeaderLen,        \* length of a status line and headers
          FormLen,          \* length of the text that explains an error
          Pipelining,       \* whether a client asks before it is answered
          MaxAsked,         \* bound: requests of one connection
          MaxConns,         \* bound: connections that use the object
          MaxShorts         \* bound: short writes of one connection

RequestType ==
    [line : {"good", "malformed", "bare LF"},
     headers : Seq({"keep-alive", "length", "other"}),
     body : Nat,
     target : Files \cup {"absent", "forbidden", "directory"}]

ASSUME RequestAssumption ==
    /\ \A r \in Requests : r \in RequestType
    /\ \A r \in Requests : (r.body > 0) <=> ("length" \in ToSet(r.headers))
    /\ Size \in [Files -> Nat]
    /\ Files \cap {"absent", "forbidden", "directory"} = {}
ASSUME SizeAssumption ==
    /\ READ_BUFFER_SIZE \in Nat \ {0} /\ HeaderLen \in Nat \ {0} /\ FormLen \in Nat
    /\ Pipelining \in BOOLEAN
    /\ MaxAsked \in Nat /\ MaxConns \in Nat /\ MaxShorts \in Nat

VARIABLES
    \* the client and the kernel
    conns,          \* connections that have used the object, the current one too
    asked,          \* the requests of the current connection
    wire,           \* what the client has sent and has not arrived
    inbox,          \* what has arrived and recv has not returned
    hungUp,         \* the client has closed
    received,       \* what the client has received
    mapped,         \* the pages mmap has made and munmap has not undone
    \* the object
    m_read_buf,     \* its first m_read_idx characters
    m_checked_idx, m_start_line, m_check_state, m_url, m_content_length, m_linger,
    m_write_idx,
    m_iv,           \* what the m_iv_count vectors point to
    m_file_address, \* None, Failed, or the number of a mapping
    m_file_size,    \* m_file_stat.st_size
    \* the thread that works on it
    pc,             \* "closed", "in", "process", "do_request", "respond", "out", "write"
    line_status, ret, bytes_to_send, bytes_have_send,
    \* history
    answers,        \* responses built on the current connection
    shorts          \* its short writes

client == <<conns, asked, wire, inbox, hungUp, received>>
parser == <<m_read_buf, m_checked_idx, m_start_line, m_check_state, m_url,
            m_content_length, m_linger>>
writer == <<m_write_idx, m_iv>>
mapping == <<mapped, m_file_address, m_file_size>>
locals == <<line_status, ret, bytes_to_send, bytes_have_send>>
history == <<answers, shorts>>
vars == <<client, parser, writer, mapping, pc, locals, history>>

None == 0       \* a null m_file_address
Failed == -1    \* MAP_FAILED

(* Mutant of InitObject: m_check_state keeps its value. *)
InitObjectState ==
    /\ m_read_buf' = << >> /\ m_checked_idx' = 0 /\ m_start_line' = 0
    /\ m_url' = "absent" /\ m_content_length' = 0 /\ m_linger' = FALSE
    /\ m_write_idx' = 0
    /\ UNCHANGED <<m_check_state, m_iv>>

(* Mutant of InitObject: m_read_idx is not reset. *)
InitObjectBuffer ==
    /\ m_checked_idx' = 0 /\ m_start_line' = 0
    /\ m_check_state' = "requestline" /\ m_url' = "absent"
    /\ m_content_length' = 0 /\ m_linger' = FALSE
    /\ m_write_idx' = 0
    /\ UNCHANGED <<m_read_buf, m_iv>>

(* Mutant of InitObject: m_start_line is not reset. *)
InitObjectStart ==
    /\ m_read_buf' = << >> /\ m_checked_idx' = 0
    /\ m_check_state' = "requestline" /\ m_url' = "absent"
    /\ m_content_length' = 0 /\ m_linger' = FALSE
    /\ m_write_idx' = 0
    /\ UNCHANGED <<m_start_line, m_iv>>

(* Mutant of InitObject: m_checked_idx is not reset. *)
InitObjectChecked ==
    /\ m_read_buf' = << >> /\ m_start_line' = 0
    /\ m_check_state' = "requestline" /\ m_url' = "absent"
    /\ m_content_length' = 0 /\ m_linger' = FALSE
    /\ m_write_idx' = 0
    /\ UNCHANGED <<m_checked_idx, m_iv>>

(* http_conn::init(): the file members are not among those it resets. *)
InitObject ==
    /\ m_read_buf' = << >> /\ m_checked_idx' = 0 /\ m_start_line' = 0
    /\ m_check_state' = "requestline" /\ m_url' = "absent"
    /\ m_content_length' = 0 /\ m_linger' = FALSE
    /\ m_write_idx' = 0
    /\ UNCHANGED m_iv

Init ==
    /\ conns = 0 /\ asked = << >> /\ wire = << >> /\ inbox = << >>
    /\ hungUp = FALSE /\ received = << >> /\ mapped = {}
    /\ m_read_buf = << >> /\ m_checked_idx = 0 /\ m_start_line = 0
    /\ m_check_state = "requestline" /\ m_url = "absent"
    /\ m_content_length = 0 /\ m_linger = FALSE
    /\ m_write_idx = 0 /\ m_iv = << >>
    /\ m_file_address = None /\ m_file_size = 0
    /\ pc = "closed" /\ line_status = "ok" /\ ret = "NO_REQUEST"
    /\ bytes_to_send = 0 /\ bytes_have_send = 0
    /\ answers = << >> /\ shorts = 0

-------------------------------------------------------------------------------
(* The client. *)

CR == <<"CR">>
LF == <<"LF">>
LineOf(text) == <<text, CR, LF>>

(* The characters of a request's headers, three to a line. *)
HeaderLines(r) ==
    [i \in 1..3 * Len(r.headers) |->
        LineOf(<<"header", r.headers[(i - 1) \div 3 + 1], r.body>>)[((i - 1) % 3) + 1]]

(* A request as it is sent. *)
Message(r) ==
    (IF r.line = "bare LF" THEN <<<<"request", r>>, LF>> ELSE LineOf(<<"request", r>>))
    \o HeaderLines(r)
    \o <<CR, LF>>
    \o [i \in 1..r.body |-> <<"body">>]

(* A connection is accepted and takes the object: init(int, const sockaddr_in &). *)
Accept ==
    /\ pc = "closed" /\ conns < MaxConns
    /\ conns' = conns + 1
    /\ asked' = << >> /\ wire' = << >> /\ inbox' = << >> /\ hungUp' = FALSE
    /\ received' = << >> /\ answers' = << >> /\ shorts' = 0
    /\ InitObject
    /\ pc' = "in"
    /\ UNCHANGED <<mapping, locals>>

(* A client that does not pipeline waits for the answer to what it asked. *)
Ask(r) ==
    /\ pc # "closed" /\ ~hungUp
    /\ Len(asked) < MaxAsked
    /\ Pipelining \/ asked = << >> \/ \E i \in DOMAIN received : received[i].to = Len(asked)
    /\ asked' = Append(asked, r)
    /\ wire' = wire \o Message(r)
    /\ UNCHANGED <<conns, inbox, hungUp, received, parser, writer, mapping, pc, locals, history>>

(* The first n characters arrive. *)
Deliver(n) ==
    /\ pc # "closed" /\ n \in 1..Len(wire)
    /\ inbox' = inbox \o SubSeq(wire, 1, n)
    /\ wire' = SubSeq(wire, n + 1, Len(wire))
    /\ UNCHANGED <<conns, asked, hungUp, received, parser, writer, mapping, pc, locals, history>>

HangUp ==
    /\ pc # "closed" /\ ~hungUp
    /\ hungUp' = TRUE
    /\ UNCHANGED <<conns, asked, wire, inbox, received, parser, writer, mapping, pc, locals, history>>

-------------------------------------------------------------------------------
(* read(): recv until it would block.  With the buffer full it asks recv for 0
   characters: that returns 0 if there is more, and would block otherwise. *)

Room == READ_BUFFER_SIZE - Len(m_read_buf)

OnReadable ==
    /\ pc = "in" /\ ~hungUp
    /\ inbox # << >> /\ Room > 0 /\ Len(inbox) <= Room
    /\ m_read_buf' = m_read_buf \o inbox
    /\ inbox' = << >>
    /\ line_status' = "ok"
    /\ pc' = "process"
    /\ UNCHANGED <<conns, asked, wire, hungUp, received, m_checked_idx, m_start_line,
                   m_check_state, m_url, m_content_length, m_linger, writer, mapping,
                   ret, bytes_to_send, bytes_have_send, history>>

(* The peer has closed, or there is more than the buffer can take: close_conn. *)
OnReadFails ==
    /\ pc = "in"
    /\ hungUp \/ Len(inbox) > Room
    /\ pc' = "closed"
    /\ UNCHANGED <<client, parser, writer, mapping, locals, history>>

(* EPOLLRDHUP: close_conn, which unmaps nothing. *)
OnHangUp ==
    /\ pc \in {"in", "out"} /\ hungUp
    /\ pc' = "closed"
    /\ UNCHANGED <<client, parser, writer, mapping, locals, history>>

-------------------------------------------------------------------------------
(* process_read, one turn of its loop per step. *)

(* parse_line: the line from m_checked_idx on, and where m_checked_idx goes.
   Indices are those of the code, from 0. *)
Char(i) == m_read_buf[i + 1]
LineEnd(p) ==
    IF Char(p) = CR /\ p + 1 = Len(m_read_buf) THEN [status |-> "open", idx |-> p]
    ELSE IF Char(p) = CR /\ Char(p + 1) = LF THEN [status |-> "ok", idx |-> p + 2]
    ELSE IF Char(p) = LF /\ p > 1 /\ Char(p - 1) = CR THEN [status |-> "ok", idx |-> p + 1]
    ELSE [status |-> "bad", idx |-> p]
ParseLine ==
    LET read_idx == Len(m_read_buf)
        Ends == {i \in m_checked_idx..read_idx - 1 : Char(i) \in {CR, LF}}
    IN IF Ends = {} THEN [status |-> "open", idx |-> read_idx]
       ELSE LineEnd(CHOOSE i \in Ends : \A j \in Ends : i <= j)

(* get_line: the text from m_start_line to the CR that ends it, if any. *)
Line == IF m_start_line < Len(m_read_buf) THEN Char(m_start_line) ELSE CR

(* parse_request_line *)
ParseRequestLine ==
    IF Line[1] = "request" /\ Line[2].line # "malformed"
    THEN /\ m_url' = Line[2].target
         /\ m_check_state' = "header"
         /\ ret' = "NO_REQUEST"
    ELSE ret' = "BAD_REQUEST" /\ UNCHANGED <<m_url, m_check_state>>

(* parse_headers: an empty line ends the headers; what the body needs is known. *)
ParseHeaders ==
    /\ m_linger' = (m_linger \/ (Line[1] = "header" /\ Line[2] = "keep-alive"))
    /\ m_content_length' =
          IF Line[1] = "header" /\ Line[2] = "length" THEN Line[3] ELSE m_content_length
    /\ IF Line # CR THEN ret' = "NO_REQUEST" /\ UNCHANGED m_check_state
       ELSE IF m_content_length = 0 THEN ret' = "GET_REQUEST" /\ UNCHANGED m_check_state
       ELSE ret' = "NO_REQUEST" /\ m_check_state' = "content"

(* parse_content: the request is taken for complete when no more than the body
   has arrived. *)
ParseContent ==
    ret' = IF Len(m_read_buf) <= m_content_length + m_checked_idx'
           THEN "GET_REQUEST" ELSE "NO_REQUEST"

(* A turn whose condition holds: the body is looked at without parse_line the
   first time. *)
ParseTurn ==
    LET atBody == m_check_state = "content" /\ line_status = "ok" IN
    /\ pc = "process"
    /\ atBody \/ ParseLine.status = "ok"
    /\ m_checked_idx' = IF atBody THEN m_checked_idx ELSE ParseLine.idx
    /\ m_start_line' = m_checked_idx'
    /\ CASE m_check_state = "requestline" ->
              ParseRequestLine /\ UNCHANGED <<m_linger, m_content_length>>
         [] m_check_state = "header" -> ParseHeaders /\ UNCHANGED m_url
         [] m_check_state = "content" ->
              ParseContent /\ UNCHANGED <<m_url, m_check_state, m_linger, m_content_length>>
    /\ line_status' = IF m_check_state = "content" THEN "open" ELSE "ok"
    /\ pc' = CASE ret' = "NO_REQUEST" -> "process"
               [] ret' = "GET_REQUEST" -> "do_request"
               [] ret' = "BAD_REQUEST" -> "respond"
    /\ UNCHANGED <<client, m_read_buf, writer, mapping, bytes_to_send, bytes_have_send, history>>

(* The loop ends, with LINE_OPEN or LINE_BAD: NO_REQUEST either way, wait for more. *)
ParseEnds ==
    /\ pc = "process"
    /\ ~(m_check_state = "content" /\ line_status = "ok")
    /\ ParseLine.status # "ok"
    /\ m_checked_idx' = ParseLine.idx
    /\ line_status' = ParseLine.status
    /\ pc' = "in"
    /\ UNCHANGED <<client, m_read_buf, m_start_line, m_check_state, m_url, m_content_length,
                   m_linger, writer, mapping, ret, bytes_to_send, bytes_have_send, history>>

-------------------------------------------------------------------------------
(* do_request and process_write. *)

NewBase == CHOOSE b \in 1..(Cardinality(mapped) + 1) : \A m \in mapped : m[1] # b

(* stat, then mmap; a mapping of no length fails.  A failed stat leaves
   m_file_stat alone; that of a file that is not mapped is one page here. *)
DoRequest ==
    /\ pc = "do_request"
    /\ ret' = CASE m_url = "absent" -> "NO_RESOURCE"
                [] m_url = "forbidden" -> "FORBIDDEN_REQUEST"
                [] m_url = "directory" -> "BAD_REQUEST"
                [] OTHER -> "FILE_REQUEST"
    /\ IF m_url \in Files
       THEN /\ m_file_size' = Size[m_url]
            /\ mapped' = mapped \cup ({NewBase} \X (1..Size[m_url]))
            /\ m_file_address' = IF Size[m_url] = 0 THEN Failed ELSE NewBase
       ELSE /\ m_file_size' = IF m_url = "absent" THEN m_file_size ELSE 1
            /\ UNCHANGED <<mapped, m_file_address>>
    /\ pc' = "respond"
    /\ UNCHANGED <<client, parser, writer, line_status, bytes_to_send, bytes_have_send, history>>

(* The characters of the n-th response of the connection. *)
Response(code, file, n) ==
    [i \in 1..HeaderLen + (IF code = "FILE_REQUEST" THEN Size[file] ELSE FormLen) |->
        [code |-> code, file |-> IF code = "FILE_REQUEST" THEN file ELSE "form",
         part |-> i, to |-> n]]

(* Mutant of ProcessWrite: m_iv_count is 1 for a file. *)
ProcessWriteOneVector ==
    /\ pc = "respond" /\ ~(ret = "FILE_REQUEST" /\ m_file_size = 0)
    /\ m_write_idx' = IF ret = "FILE_REQUEST" THEN HeaderLen ELSE HeaderLen + FormLen
    /\ m_iv' = SubSeq(Response(ret, m_url, Len(answers) + 1), 1, m_write_idx')
    /\ answers' = Append(answers, ret)
    /\ pc' = "out"
    /\ UNCHANGED <<client, parser, mapping, locals, shorts>>

(* process_write: the headers of a file are in the write buffer and the file in
   its mapping; an error is in the write buffer as a whole. *)
ProcessWrite ==
    /\ pc = "respond" /\ ~(ret = "FILE_REQUEST" /\ m_file_size = 0)
    /\ m_iv' = Response(ret, m_url, Len(answers) + 1)
    /\ m_write_idx' = IF ret = "FILE_REQUEST" THEN HeaderLen ELSE HeaderLen + FormLen
    /\ answers' = Append(answers, ret)
    /\ pc' = "out"
    /\ UNCHANGED <<client, parser, mapping, locals, shorts>>

(* An empty file: the case falls through to the default one, which returns false. *)
ProcessWriteFails ==
    /\ pc = "respond" /\ ret = "FILE_REQUEST" /\ m_file_size = 0
    /\ m_write_idx' = HeaderLen + FormLen
    /\ pc' = "closed"
    /\ UNCHANGED <<client, parser, m_iv, mapping, locals, history>>

-------------------------------------------------------------------------------
(* write(). *)

(* unmap: munmap with the size of the last file that stat has seen. *)
Unmap ==
    /\ mapped' = mapped \ ({m_file_address} \X (1..m_file_size))
    /\ m_file_address' = None
    /\ UNCHANGED m_file_size

OnWritable ==
    /\ pc = "out"
    /\ bytes_to_send' = m_write_idx
    /\ bytes_have_send' = 0
    /\ pc' = "write"
    /\ UNCHANGED <<client, parser, writer, mapping, line_status, ret, history>>

(* writev takes k characters from the start of the vectors, always the start. *)
Writev(k) ==
    /\ pc = "write" /\ k \in 1..Len(m_iv)
    /\ k < Len(m_iv) => shorts < MaxShorts
    /\ shorts' = IF k < Len(m_iv) THEN shorts + 1 ELSE shorts
    /\ received' = received \o SubSeq(m_iv, 1, k)
    /\ bytes_to_send' = bytes_to_send - k
    /\ bytes_have_send' = bytes_have_send + k

(* The test for the end compares what is left with what has been sent. *)
WriteMore(k) ==
    /\ Writev(k)
    /\ bytes_to_send' > bytes_have_send'
    /\ UNCHANGED <<conns, asked, wire, inbox, hungUp, parser, writer, mapping, pc,
                   line_status, ret, answers>>

WriteDone(k) ==
    /\ Writev(k)
    /\ bytes_to_send' <= bytes_have_send'
    /\ Unmap
    /\ IF m_linger
       THEN InitObject /\ pc' = "in"
       ELSE pc' = "closed" /\ UNCHANGED <<parser, writer>>
    /\ UNCHANGED <<conns, asked, wire, inbox, hungUp, line_status, ret, answers>>

(* EAGAIN, after EPOLLOUT has been reported and at least one writev: wait for
   the next EPOLLOUT, which starts the response again. *)
WriteAgain ==
    /\ pc = "write" /\ bytes_have_send > 0
    /\ pc' = "out"
    /\ UNCHANGED <<client, parser, writer, mapping, locals, history>>

WriteFails ==
    /\ pc = "write" /\ hungUp
    /\ Unmap
    /\ pc' = "closed"
    /\ UNCHANGED <<client, parser, writer, locals, history>>

-------------------------------------------------------------------------------
ServerStep ==
    \/ OnReadable \/ OnReadFails \/ OnHangUp
    \/ ParseTurn \/ ParseEnds \/ DoRequest \/ ProcessWrite \/ ProcessWriteFails
    \/ OnWritable \/ WriteAgain \/ WriteFails
    \/ \E k \in 1..Len(m_iv) : WriteMore(k) \/ WriteDone(k)

Arrival == \E n \in 1..Len(wire) : Deliver(n)

Next ==
    \/ Accept \/ HangUp
    \/ \E r \in Requests : Ask(r)
    \/ Arrival
    \/ ServerStep

Spec == Init /\ [][Next]_vars

(* What has been sent arrives, and the threads are scheduled. *)
FairSpec == Spec /\ WF_vars(Arrival) /\ WF_vars(ServerStep)

-------------------------------------------------------------------------------
(* Properties. *)

(* What a request is to be answered with, however it arrived. *)
Answer(r) ==
    IF r.line # "good" THEN "BAD_REQUEST"
    ELSE CASE r.target = "absent" -> "NO_RESOURCE"
           [] r.target = "forbidden" -> "FORBIDDEN_REQUEST"
           [] r.target = "directory" -> "BAD_REQUEST"
           [] OTHER -> "FILE_REQUEST"

Codes == {"NO_REQUEST", "GET_REQUEST", "BAD_REQUEST", "NO_RESOURCE",
          "FORBIDDEN_REQUEST", "FILE_REQUEST"}

(* The type invariant, with the order of the three indices into the buffer. *)
TypeOK ==
    /\ conns \in 0..MaxConns /\ shorts \in 0..MaxShorts
    /\ asked \in Seq(Requests) /\ Len(asked) <= MaxAsked
    /\ hungUp \in BOOLEAN /\ m_linger \in BOOLEAN
    /\ pc \in {"closed", "in", "process", "do_request", "respond", "out", "write"}
    /\ m_check_state \in {"requestline", "header", "content"}
    /\ line_status \in {"ok", "open", "bad"} /\ ret \in Codes
    /\ m_start_line <= m_checked_idx /\ m_checked_idx <= Len(m_read_buf)
    /\ Len(m_read_buf) <= READ_BUFFER_SIZE
    /\ m_url \in Files \cup {"absent", "forbidden", "directory"}
    /\ m_content_length \in Nat /\ m_write_idx \in Nat /\ m_file_size \in Nat
    /\ m_file_address \in Nat \cup {Failed}

(* Wherever the characters of a request were split on their way, and whatever
   came before it on the connection and on earlier ones: what a client receives
   answers its requests, in their order, each with the status and the file that
   request asked for. *)
AnswersInOrder ==
    /\ \A i \in DOMAIN received :
          LET to == received[i].to IN
          /\ to \in DOMAIN asked
          /\ received[i].code = Answer(asked[to])
          /\ received[i].code = "FILE_REQUEST" => received[i].file = asked[to].target
    /\ \A i, j \in DOMAIN received : i < j => received[i].to <= received[j].to

(* Nothing is lost between the client and the parser: while a request is not
   answered, what is in the buffer, in the socket and on the wire is the whole
   of that request and nothing else. *)
BufferIsStream ==
    pc \in {"in", "process", "do_request", "respond"} =>
        m_read_buf \o inbox \o wire =
            IF Len(asked) > Len(answers) THEN Message(Last(asked)) ELSE << >>

(* What the client has received of the n-th response is the whole of it, in one
   piece. *)
Whole(n) ==
    LET response == Response(Answer(asked[n]), asked[n].target, n) IN
    \E k \in 0..Len(received) :
        /\ {i \in DOMAIN received : received[i].to = n} = k + 1..k + Len(response)
        /\ \A i \in DOMAIN response : received[k + i] = response[i]

(* As long as every writev takes all it is given: when a client is read again it
   has received the whole of each response, once, and, if it is the first client
   of this object, no file is mapped any more.  (For a later one that is not so:
   close_conn does not unmap what a client that hangs up before its response has
   left in the object.) *)
WholeUnlessShort ==
    pc = "in" /\ shorts = 0 =>
        /\ \A n \in DOMAIN answers : Whole(n)
        /\ conns = 1 => mapped = {}

(* A request that has been sent is answered in the end, or its connection closed,
   whatever is wrong with it, unless its request line ends in a bare LF: that is
   LINE_BAD, which process_read takes for a request that is not complete. *)
AnsweredOrClosed ==
    \A n \in 1..MaxAsked :
        (pc # "closed" /\ Len(asked) >= n /\ asked[n].line # "bare LF") ~>
            (pc = "closed" \/ \E i \in DOMAIN received : received[i].to = n)
===============================================================================
