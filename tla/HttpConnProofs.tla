----------------------------- MODULE HttpConnProofs -----------------------------
(***************************************************************************)
(* Machine-checked facts about HttpConn, for any requests, files, buffer   *)
(* size and number of connections.  The types hold of every client.  That  *)
(* the answers are right is shown for clients that do not pipeline and     *)
(* send no bodies, which the code does not handle (see the findings):      *)
(* wherever their characters were split on the way, the parser is at a     *)
(* line of the request that is being asked.                                *)
(***************************************************************************)
EXTENDS HttpConn, ContainerLemmas, SequenceTheorems

-------------------------------------------------------------------------------
(* The types. *)

Kinds == {"keep-alive", "length", "other"}
Targets == Files \cup {"absent", "forbidden", "directory"}
Characters ==
    {CR, LF, <<"body">>} \cup {<<"request", r>> : r \in Requests}
    \cup {<<"header", h, n>> : h \in Kinds, n \in Nat}

ClientTyped ==
    /\ conns \in 0..MaxConns /\ hungUp \in BOOLEAN
    /\ asked \in Seq(Requests) /\ Len(asked) <= MaxAsked
    /\ inbox \in Seq(Characters) /\ wire \in Seq(Characters)

ParserTyped ==
    /\ m_read_buf \in Seq(Characters) /\ Len(m_read_buf) <= READ_BUFFER_SIZE
    /\ m_start_line \in Nat /\ m_checked_idx \in Nat
    /\ m_start_line <= m_checked_idx /\ m_checked_idx <= Len(m_read_buf)
    /\ m_check_state \in {"requestline", "header", "content"}
    /\ m_url \in Targets /\ m_content_length \in Nat /\ m_linger \in BOOLEAN

WriterTyped ==
    /\ m_write_idx \in Nat /\ shorts \in 0..MaxShorts
    /\ m_file_size \in Nat /\ m_file_address \in Nat \cup {Failed}
    /\ mapped \subseteq Nat \X Nat /\ IsFiniteSet(mapped)

ThreadTyped ==
    /\ pc \in {"closed", "in", "process", "do_request", "respond", "out", "write"}
    /\ line_status \in {"ok", "open", "bad"} /\ ret \in Codes

Typed == ClientTyped /\ ParserTyped /\ WriterTyped /\ ThreadTyped

-------------------------------------------------------------------------------
(* The clients for which the answers are right. *)

Plain == ~Pipelining /\ \A r \in Requests : r.body = 0

Waiting == Len(asked) > Len(answers)
Outstanding == IF Waiting THEN Message(Last(asked)) ELSE << >>

Piece == [code : Codes, file : Targets \cup {"form"}, part : Nat, to : Nat]

(* Nothing is asked before the answer to the last request has begun to come. *)
Counted ==
    /\ answers \in Seq(Codes)
    /\ Len(answers) <= Len(asked) /\ Len(asked) <= Len(answers) + 1
    /\ pc \in {"process", "do_request", "respond"} => Waiting
    /\ pc \in {"out", "write"} => Len(answers) > 0

Received ==
    /\ received \in Seq(Piece)
    /\ \A i \in DOMAIN received : received[i].to \in 1..Len(answers)
    /\ AnswersInOrder

(* What is asked while a response is written waits for the parser to be ready. *)
Stream ==
    /\ BufferIsStream
    /\ pc \in {"out", "write"} /\ m_linger => inbox \o wire = Outstanding

(* The parser is at the start of a line of the request, and what it has looked
   at of that line does not end it. *)
Parsing ==
    pc \in {"in", "process"} =>
        /\ m_content_length = 0
        /\ \/ m_check_state = "requestline" /\ m_start_line = 0 /\ ~m_linger
           \/ /\ m_check_state = "header" /\ Waiting
              /\ Last(asked).line = "good" /\ m_url = Last(asked).target
              /\ \E k \in 1..Len(Last(asked).headers) + 1 : m_start_line = 3 * k
        /\ \A i \in m_start_line..m_checked_idx - 1 : Char(i) \notin {CR, LF}

Requested ==
    pc = "do_request" =>
        /\ Last(asked).line = "good" /\ m_url = Last(asked).target
        /\ inbox = << >> /\ wire = << >>

Responding ==
    pc = "respond" =>
        /\ ret = Answer(Last(asked))
        /\ m_linger => inbox = << >> /\ wire = << >>
        /\ ret = "FILE_REQUEST" =>
              m_url = Last(asked).target /\ m_url \in Files /\ m_file_size = Size[m_url]

Writing ==
    pc \in {"out", "write"} =>
        LET n == Len(answers) IN
        /\ m_iv = Response(Answer(asked[n]), asked[n].target, n)
        /\ m_write_idx <= Len(m_iv)

(* A file of the first connection is mapped only from do_request to unmap. *)
Mapped ==
    /\ conns = 0 => pc = "closed" /\ mapped = {}
    /\ conns = 1 /\ pc \in {"in", "process", "do_request"} => mapped = {}
    /\ conns = 1 /\ pc \in {"respond", "out", "write"} =>
          mapped \subseteq {m_file_address} \X (1..m_file_size)

(* While no writev has been short, there is all of the responses that have been
   written and nothing of one that has not. *)
Delivered ==
    pc # "closed" /\ shorts = 0 =>
        /\ \A m \in 1..Len(answers) : pc \notin {"out", "write"} \/ m < Len(answers) => Whole(m)
        /\ pc \in {"out", "write"} => \A i \in DOMAIN received : received[i].to < Len(answers)
        /\ pc = "write" => bytes_have_send = 0 /\ bytes_to_send = m_write_idx

Answers ==
    Counted /\ Received /\ Stream /\ Parsing /\ Requested /\ Responding /\ Writing

HInv == Typed /\ Answers

-------------------------------------------------------------------------------
(* Types. *)

LEMMA CharacterFacts ==
    /\ CR \in Characters /\ LF \in Characters /\ CR # LF
    /\ CR[1] = "CR" /\ LF[1] = "LF"
    /\ \A c \in Characters : /\ c[1] = "request" => c[2] \in Requests
                             /\ c[1] = "header" => c[2] \in Kinds /\ c[3] \in Nat
  BY DEF Characters, CR, LF

(* What parse_line finds: nothing that ends a line, or where one ends first. *)
LEMMA ParseLineFinds ==
    ASSUME m_read_buf \in Seq(Characters), m_checked_idx \in Nat,
           m_checked_idx <= Len(m_read_buf)
    PROVE  LET size == Len(m_read_buf) IN
           \/ /\ \A i \in m_checked_idx..size - 1 : Char(i) \notin {CR, LF}
              /\ ParseLine = [status |-> "open", idx |-> size]
           \/ \E p \in m_checked_idx..size - 1 :
                 /\ Char(p) \in {CR, LF}
                 /\ \A i \in m_checked_idx..p - 1 : Char(i) \notin {CR, LF}
                 /\ ParseLine = LineEnd(p)
  <1> DEFINE size == Len(m_read_buf)
             ends == {i \in m_checked_idx..size - 1 : Char(i) \in {CR, LF}}
             p == CHOOSE i \in ends : \A j \in ends : i <= j
  <1>1. size \in Nat
    OBVIOUS
  <1>2. CASE ends = {}
    BY <1>2 DEF ParseLine
  <1>3. CASE ends # {}
    <2>1. ends \in SUBSET Nat
      BY <1>1
    <2>2. \E i \in ends : \A j \in ends : i <= j
      BY <1>3, <2>1, LeastNatural
    <2>3. p \in ends /\ \A j \in ends : p <= j
      BY <2>2
    <2>4. p \in m_checked_idx..size - 1 /\ Char(p) \in {CR, LF}
      BY <2>3
    <2>5. ASSUME NEW i \in m_checked_idx..p - 1 PROVE Char(i) \notin {CR, LF}
      <3> HIDE DEF p
      <3>1. i \in m_checked_idx..size - 1 /\ ~(p <= i) /\ p \in Int
        BY <1>1, <2>4
      <3>2. i \notin ends
        BY <2>3, <3>1
      <3>3. QED
        BY <3>1, <3>2
    <2>6. ParseLine = LineEnd(p)
      BY <1>3 DEF ParseLine
    <2> HIDE DEF p
    <2>7. QED
      BY <2>4, <2>5, <2>6
  <1>4. QED
    BY <1>2, <1>3

LEMMA ParseLineTypes ==
    ASSUME Typed
    PROVE  /\ ParseLine.status \in {"ok", "open", "bad"}
           /\ ParseLine.idx \in Nat /\ m_checked_idx <= ParseLine.idx
           /\ ParseLine.idx <= Len(m_read_buf)
  <1> DEFINE size == Len(m_read_buf)
  <1>t. /\ m_read_buf \in Seq(Characters) /\ m_checked_idx \in Nat
        /\ m_checked_idx <= Len(m_read_buf) /\ size \in Nat
    BY DEF Typed, ParserTyped
  <1>1. CASE ParseLine = [status |-> "open", idx |-> size]
    BY <1>1, <1>t
  <1>2. ASSUME NEW p \in m_checked_idx..size - 1,
               ParseLine = LineEnd(p)
        PROVE  /\ ParseLine.status \in {"ok", "open", "bad"}
               /\ ParseLine.idx \in Nat /\ m_checked_idx <= ParseLine.idx
               /\ ParseLine.idx <= size
    <2>1. \/ LineEnd(p) = [status |-> "open", idx |-> p]
          \/ p + 1 # size /\ LineEnd(p) = [status |-> "ok", idx |-> p + 2]
          \/ LineEnd(p) = [status |-> "ok", idx |-> p + 1]
          \/ LineEnd(p) = [status |-> "bad", idx |-> p]
      BY DEF LineEnd
    <2>2. QED
      BY <1>2, <1>t, <2>1
  <1>3. QED
    BY <1>1, <1>2, <1>t, ParseLineFinds

LEMMA RequestFacts ==
    ASSUME NEW r \in Requests
    PROVE  /\ r.line \in {"good", "malformed", "bare LF"}
           /\ r.headers \in Seq(Kinds) /\ Len(r.headers) \in Nat
           /\ r.body \in Nat /\ r.target \in Targets
           /\ r.body = 0 => \A k \in 1..Len(r.headers) : r.headers[k] # "length"
  <1>1. r \in RequestType /\ ((r.body > 0) <=> ("length" \in ToSet(r.headers)))
    BY RequestAssumption
  <1>2. r.headers \in Seq(Kinds) /\ r.body \in Nat
    BY <1>1 DEF RequestType, Kinds
  <1>3. r.line \in {"good", "malformed", "bare LF"} /\ r.target \in Targets
    BY <1>1 DEF RequestType, Targets
  <1>4. ASSUME r.body = 0, NEW k \in 1..Len(r.headers) PROVE r.headers[k] # "length"
    <2>1. "length" \notin ToSet(r.headers)
      BY <1>1, <1>4
    <2>2. k \in DOMAIN r.headers
      BY <1>2
    <2>3. QED
      BY <2>1, <2>2 DEF ToSet
  <1>5. Len(r.headers) \in Nat
    BY <1>2
  <1>6. r.body = 0 => \A k \in 1..Len(r.headers) : r.headers[k] # "length"
    BY <1>4
  <1>7. QED
    BY <1>2, <1>3, <1>5, <1>6

(* The headers of a request, line by line. *)
LEMMA HeaderLinesShape ==
    ASSUME NEW r \in Requests
    PROVE  /\ HeaderLines(r) \in Seq(Characters) /\ Len(HeaderLines(r)) = 3 * Len(r.headers)
           /\ \A k \in 1..Len(r.headers) :
                 /\ HeaderLines(r)[3 * k - 2] = <<"header", r.headers[k], r.body>>
                 /\ HeaderLines(r)[3 * k - 1] = CR /\ HeaderLines(r)[3 * k] = LF
  <1> DEFINE h == Len(r.headers)
             Text(k) == <<"header", r.headers[k], r.body>>
  <1>1. h \in Nat /\ r.headers \in Seq(Kinds) /\ r.body \in Nat
    BY RequestFacts
  <1>2. ASSUME NEW k \in 1..h
        PROVE  /\ LineOf(Text(k))[1] = Text(k) /\ LineOf(Text(k))[2] = CR /\ LineOf(Text(k))[3] = LF
               /\ Text(k) \in Characters
    <2>1. r.headers[k] \in Kinds
      BY <1>1
    <2>2. Text(k) \in Characters
      BY <2>1, <1>1 DEF Characters
    <2>3. QED
      BY <2>2 DEF LineOf
  <1>3. ASSUME NEW i \in 1..3 * h
        PROVE  (i - 1) \div 3 + 1 \in 1..h /\ ((i - 1) % 3) + 1 \in {1, 2, 3}
    BY <1>1
  <1> HIDE DEF Text
  <1>4. HeaderLines(r) = [i \in 1..3 * h |->
            LineOf(Text((i - 1) \div 3 + 1))[((i - 1) % 3) + 1]]
    BY DEF HeaderLines, Text
  <1>5. ASSUME NEW i \in 1..3 * h PROVE HeaderLines(r)[i] \in Characters
    <2>1. PICK k \in 1..h, j \in {1, 2, 3} : k = (i - 1) \div 3 + 1 /\ j = ((i - 1) % 3) + 1
      BY <1>3
    <2>2. HeaderLines(r)[i] = LineOf(Text(k))[j]
      BY <1>4, <2>1
    <2>3. QED
      BY <1>2, <2>2, CharacterFacts
  <1>6. HeaderLines(r) \in Seq(Characters) /\ Len(HeaderLines(r)) = 3 * h
    <2>1. PICK n \in Nat : n = 3 * h
      BY <1>1
    <2>2. HeaderLines(r) \in [1..n -> Characters]
      <3>1. DOMAIN HeaderLines(r) = 1..n /\ HeaderLines(r) = [i \in 1..n |-> HeaderLines(r)[i]]
        BY <1>4, <2>1
      <3>2. QED
        BY <1>5, <2>1, <3>1
    <2>3. QED
      BY <2>1, <2>2
  <1>7. ASSUME NEW k \in 1..h, NEW j \in {1, 2, 3}
        PROVE  HeaderLines(r)[3 * k - 3 + j] = LineOf(Text(k))[j]
    <2>1. PICK i : i = 3 * k - 3 + j
      OBVIOUS
    <2>2. i \in 1..3 * h /\ (i - 1) \div 3 + 1 = k /\ ((i - 1) % 3) + 1 = j
      BY <1>1, <2>1
    <2>3. HeaderLines(r)[i] = LineOf(Text((i - 1) \div 3 + 1))[((i - 1) % 3) + 1]
      BY <1>4, <2>2
    <2>4. QED
      BY <2>1, <2>2, <2>3
  <1>8. ASSUME NEW k \in 1..h
        PROVE  /\ HeaderLines(r)[3 * k - 2] = Text(k)
               /\ HeaderLines(r)[3 * k - 1] = CR /\ HeaderLines(r)[3 * k] = LF
    <2>1. 3 * k - 3 + 1 = 3 * k - 2 /\ 3 * k - 3 + 2 = 3 * k - 1 /\ 3 * k - 3 + 3 = 3 * k
      OBVIOUS
    <2>2. /\ HeaderLines(r)[3 * k - 3 + 1] = LineOf(Text(k))[1]
          /\ HeaderLines(r)[3 * k - 3 + 2] = LineOf(Text(k))[2]
          /\ HeaderLines(r)[3 * k - 3 + 3] = LineOf(Text(k))[3]
      BY <1>7
    <2>3. QED
      BY <1>2, <2>1, <2>2
  <1>9. QED
    BY <1>6, <1>8 DEF Text

(* What is where in four queues put together. *)
LEMMA JoinedFour ==
    ASSUME NEW S, NEW s \in Seq(S), NEW t \in Seq(S), NEW u \in Seq(S), NEW v \in Seq(S),
           NEW w, w = s \o t \o u \o v
    PROVE  /\ w \in Seq(S) /\ Len(w) = Len(s) + Len(t) + Len(u) + Len(v)
           /\ \A i \in 1..Len(s) : w[i] = s[i]
           /\ \A i \in 1..Len(t) : w[Len(s) + i] = t[i]
           /\ \A i \in 1..Len(u) : w[Len(s) + Len(t) + i] = u[i]
  <1>1. PICK a : a = s \o t
    OBVIOUS
  <1>2. PICK b : b = a \o u
    OBVIOUS
  <1>3. w = b \o v
    BY <1>1, <1>2
  <1>4. Len(s) \in Nat /\ Len(t) \in Nat /\ Len(u) \in Nat /\ Len(v) \in Nat
    OBVIOUS
  <1>5. /\ a \in Seq(S) /\ Len(a) = Len(s) + Len(t)
        /\ \A i \in 1..Len(s) : a[i] = s[i]
        /\ \A i \in 1..Len(t) : a[Len(s) + i] = t[i]
    BY <1>1, Joined
  <1>6. /\ b \in Seq(S) /\ Len(b) = Len(a) + Len(u)
        /\ \A i \in 1..Len(a) : b[i] = a[i]
        /\ \A i \in 1..Len(u) : b[Len(a) + i] = u[i]
    <2>1. a \in Seq(S)
      BY <1>5
    <2>2. QED
      BY <1>2, <2>1, Joined
  <1>7. /\ w \in Seq(S) /\ Len(w) = Len(b) + Len(v)
        /\ \A i \in 1..Len(b) : w[i] = b[i]
    <2>1. b \in Seq(S)
      BY <1>6
    <2>2. QED
      BY <1>3, <2>1, Joined
  <1>8. Len(w) = Len(s) + Len(t) + Len(u) + Len(v)
    BY <1>4, <1>5, <1>6, <1>7
  <1>9. \A i \in 1..Len(s) : i \in 1..Len(a) /\ i \in 1..Len(b)
    BY <1>4, <1>5, <1>6
  <1>10. \A i \in 1..Len(t) : Len(s) + i \in 1..Len(a) /\ Len(s) + i \in 1..Len(b)
    BY <1>4, <1>5, <1>6
  <1>11. \A i \in 1..Len(u) : Len(a) + i \in 1..Len(b)
    BY <1>4, <1>5, <1>6
  <1>12. \A i \in 1..Len(s) : w[i] = s[i]
    BY <1>5, <1>6, <1>7, <1>9
  <1>13. \A i \in 1..Len(t) : w[Len(s) + i] = t[i]
    BY <1>5, <1>6, <1>7, <1>10
  <1>14. \A i \in 1..Len(u) : w[Len(s) + Len(t) + i] = u[i]
    BY <1>5, <1>6, <1>7, <1>11
  <1>15. QED
    BY <1>7, <1>8, <1>12, <1>13, <1>14

(* A request, line by line, of a client that sends no body. *)
LEMMA MessageShape ==
    ASSUME NEW r \in Requests
    PROVE  /\ Message(r) \in Seq(Characters) /\ Len(Message(r)) \in Nat \ {0}
           /\ Message(r)[1] = <<"request", r>>
           /\ r.line = "bare LF" => Message(r)[2] = LF /\ Len(Message(r)) >= 2
           /\ r.line # "bare LF" /\ r.body = 0 =>
                 /\ Len(Message(r)) = 3 * Len(r.headers) + 5
                 /\ Message(r)[2] = CR /\ Message(r)[3] = LF
                 /\ \A k \in 1..Len(r.headers) :
                       /\ Message(r)[3 * k + 1] = <<"header", r.headers[k], 0>>
                       /\ Message(r)[3 * k + 2] = CR /\ Message(r)[3 * k + 3] = LF
                 /\ Message(r)[3 * Len(r.headers) + 4] = CR
                 /\ Message(r)[3 * Len(r.headers) + 5] = LF
  <1>1. PICK h, n : h = Len(r.headers) /\ n = r.body
    OBVIOUS
  <1>2. h \in Nat /\ n \in Nat
    BY <1>1, RequestFacts
  <1>3. PICK req : req = <<"request", r>>
    OBVIOUS
  <1>4. req \in Characters /\ <<"body">> \in Characters /\ CR \in Characters /\ LF \in Characters
    BY <1>3 DEF Characters
  <1>5. PICK first : first = IF r.line = "bare LF" THEN <<req, LF>> ELSE LineOf(req)
    OBVIOUS
  <1>6. /\ r.line = "bare LF" => first = <<req, LF>>
        /\ r.line # "bare LF" => first = <<req, CR, LF>>
    BY <1>5 DEF LineOf
  <1>7. /\ first \in Seq(Characters) /\ Len(first) \in {2, 3} /\ first[1] = req
        /\ r.line = "bare LF" => Len(first) = 2 /\ first[2] = LF
        /\ r.line # "bare LF" => Len(first) = 3 /\ first[2] = CR /\ first[3] = LF
    <2>1. CASE r.line = "bare LF"
      <3>1. first = <<req, LF>>
        BY <1>6, <2>1
      <3>2. first \in Seq(Characters)
        BY <1>4, <3>1
      <3>3. Len(first) = 2 /\ first[1] = req /\ first[2] = LF
        BY <3>1
      <3>4. QED
        BY <2>1, <3>2, <3>3
    <2>2. CASE r.line # "bare LF"
      <3>1. first = <<req, CR, LF>>
        BY <1>6, <2>2
      <3>2. first \in Seq(Characters)
        BY <1>4, <3>1
      <3>3. Len(first) = 3 /\ first[1] = req /\ first[2] = CR /\ first[3] = LF
        BY <3>1
      <3>4. QED
        BY <2>2, <3>2, <3>3
    <2>3. QED
      BY <2>1, <2>2
  <1>8. PICK end : end = <<CR, LF>>
    OBVIOUS
  <1>9. end \in Seq(Characters) /\ Len(end) = 2 /\ end[1] = CR /\ end[2] = LF
    BY <1>4, <1>8
  <1>10. PICK body : body = [i \in 1..n |-> <<"body">>]
    OBVIOUS
  <1>11. body \in Seq(Characters) /\ Len(body) = n
    BY <1>2, <1>4, <1>10
  <1>12. PICK lines : lines = HeaderLines(r)
    OBVIOUS
  <1>13. /\ lines \in Seq(Characters) /\ Len(lines) = 3 * h
         /\ \A k \in 1..h : /\ lines[3 * k - 2] = <<"header", r.headers[k], n>>
                            /\ lines[3 * k - 1] = CR /\ lines[3 * k] = LF
    BY <1>1, <1>12, HeaderLinesShape
  <1>14. PICK m : m = Message(r)
    OBVIOUS
  <1>15. m = first \o lines \o end \o body
    BY <1>1, <1>3, <1>5, <1>8, <1>10, <1>12, <1>14 DEF Message
  <1>16. /\ m \in Seq(Characters) /\ Len(m) = Len(first) + Len(lines) + Len(end) + Len(body)
         /\ \A i \in 1..Len(first) : m[i] = first[i]
         /\ \A i \in 1..Len(lines) : m[Len(first) + i] = lines[i]
         /\ \A i \in 1..Len(end) : m[Len(first) + Len(lines) + i] = end[i]
    <2>1. /\ first \in Seq(Characters) /\ lines \in Seq(Characters)
          /\ end \in Seq(Characters) /\ body \in Seq(Characters)
      BY <1>7, <1>9, <1>11, <1>13
    <2>2. QED
      BY <1>15, <2>1, JoinedFour
  <1>17. m[1] = req /\ Len(m) \in Nat \ {0} /\ Len(m) >= 2
    <2>1. Len(m) = Len(first) + 3 * h + 2 + n
      BY <1>9, <1>11, <1>13, <1>16
    <2>2. PICK l \in {2, 3} : l = Len(first)
      BY <1>7
    <2>3. 1 \in 1..Len(first)
      BY <2>2
    <2>4. m[1] = first[1] /\ first[1] = req
      BY <1>7, <1>16, <2>3
    <2>5. l + 3 * h + 2 + n \in Nat \ {0} /\ l + 3 * h + 2 + n >= 2
      BY <1>2
    <2>6. QED
      BY <2>1, <2>2, <2>4, <2>5
  <1>18. r.line = "bare LF" => m[2] = LF
    <2>1. PICK l \in {2, 3} : l = Len(first)
      BY <1>7
    <2>2. 2 \in 1..Len(first)
      BY <2>1
    <2>3. m[2] = first[2]
      BY <1>16, <2>2
    <2>4. QED
      BY <1>7, <2>3
  <1>19. ASSUME r.line # "bare LF", n = 0
         PROVE  /\ Len(m) = 3 * h + 5
                /\ m[2] = CR /\ m[3] = LF
                /\ \A k \in 1..h : /\ m[3 * k + 1] = <<"header", r.headers[k], 0>>
                                   /\ m[3 * k + 2] = CR /\ m[3 * k + 3] = LF
                /\ m[3 * h + 4] = CR /\ m[3 * h + 5] = LF
    <2>1. Len(first) = 3 /\ first[2] = CR /\ first[3] = LF
      BY <1>7, <1>19
    <2>2. m[2] = CR /\ m[3] = LF
      BY <1>16, <2>1
    <2>3. Len(m) = 3 * h + 5
      <3>1. Len(m) = 3 + 3 * h + 2 + 0
        BY <1>9, <1>11, <1>13, <1>16, <1>19, <2>1
      <3>2. QED
        BY <1>2, <3>1
    <2>4. m[3 + 3 * h + 1] = CR /\ m[3 + 3 * h + 2] = LF
      BY <1>9, <1>13, <1>16, <2>1
    <2>5. 3 + 3 * h + 1 = 3 * h + 4 /\ 3 + 3 * h + 2 = 3 * h + 5
      BY <1>2
    <2>6. ASSUME NEW k \in 1..h
          PROVE  /\ m[3 * k + 1] = <<"header", r.headers[k], 0>>
                 /\ m[3 * k + 2] = CR /\ m[3 * k + 3] = LF
      <3>1. /\ 3 * k - 2 \in 1..3 * h /\ 3 * k - 1 \in 1..3 * h /\ 3 * k \in 1..3 * h
            /\ 3 + (3 * k - 2) = 3 * k + 1 /\ 3 + (3 * k - 1) = 3 * k + 2 /\ 3 + 3 * k = 3 * k + 3
        BY <1>2
      <3>2. /\ m[3 + (3 * k - 2)] = lines[3 * k - 2]
            /\ m[3 + (3 * k - 1)] = lines[3 * k - 1]
            /\ m[3 + 3 * k] = lines[3 * k]
        BY <1>13, <1>16, <2>1, <3>1
      <3>3. /\ lines[3 * k - 2] = <<"header", r.headers[k], 0>>
            /\ lines[3 * k - 1] = CR /\ lines[3 * k] = LF
        BY <1>13, <1>19
      <3>4. QED
        BY <3>1, <3>2, <3>3
    <2>7. QED
      BY <2>2, <2>3, <2>4, <2>5, <2>6
  <1>20. QED
    BY <1>1, <1>3, <1>14, <1>16, <1>17, <1>18, <1>19

(* mmap finds an address that is not in use. *)
LEMMA BaseIsFree ==
    ASSUME Typed
    PROVE  NewBase \in Nat /\ \A m \in mapped : m[1] # NewBase
  <1> DEFINE bases == {m[1] : m \in mapped}
             all == 1..Cardinality(mapped) + 1
  <1>1. IsFiniteSet(mapped) /\ Cardinality(mapped) \in Nat
    BY FS_CardinalityType DEF Typed, WriterTyped
  <1>2. IsFiniteSet(bases) /\ Cardinality(bases) <= Cardinality(mapped)
    <2>1. PICK f : f = [m \in mapped |-> m[1]]
      OBVIOUS
    <2>2. f \in Surjection(mapped, bases)
      BY <2>1 DEF Surjection
    <2>3. QED
      BY <1>1, <2>2, FS_Surjection
  <1>3. IsFiniteSet(all) /\ Cardinality(all) = Cardinality(mapped) + 1
    BY <1>1, FS_Interval
  <1>4. Cardinality(bases) \in Nat
    BY <1>2, FS_CardinalityType
  <1>5. ~(all \subseteq bases)
    <2> HIDE DEF all, bases
    <2>1. all \subseteq bases => Cardinality(all) <= Cardinality(bases)
      BY <1>2, FS_Subset
    <2>2. QED
      BY <1>1, <1>2, <1>3, <1>4, <2>1
  <1>6. \E b \in all : \A m \in mapped : m[1] # b
    BY <1>5
  <1>7. NewBase \in all /\ \A m \in mapped : m[1] # NewBase
    BY <1>6 DEF NewBase
  <1>8. QED
    BY <1>7

(* The constants. *)
LEMMA Constants ==
    /\ READ_BUFFER_SIZE \in Nat \ {0} /\ HeaderLen \in Nat \ {0} /\ FormLen \in Nat
    /\ MaxAsked \in Nat /\ MaxConns \in Nat /\ MaxShorts \in Nat
    /\ \A f \in Files : Size[f] \in Nat
  BY SizeAssumption, RequestAssumption

LEMMA TypedInit == Init => Typed
  <1> SUFFICES ASSUME Init PROVE Typed
    OBVIOUS
  <1>1. ClientTyped
    <2>1. asked \in Seq(Requests) /\ Len(asked) = 0
      BY DEF Init
    <2>2. inbox \in Seq(Characters) /\ wire \in Seq(Characters)
      BY DEF Init
    <2>3. conns = 0 /\ 0 \in 0..MaxConns /\ 0 <= MaxAsked
      BY Constants DEF Init
    <2>4. hungUp \in BOOLEAN
      BY DEF Init
    <2>5. QED
      BY <2>1, <2>2, <2>3, <2>4 DEF ClientTyped
  <1>2. ParserTyped
    <2>1. m_read_buf \in Seq(Characters) /\ Len(m_read_buf) = 0
      BY DEF Init
    <2>2. m_start_line = 0 /\ m_checked_idx = 0
      BY DEF Init
    <2>3. /\ m_check_state \in {"requestline", "header", "content"} /\ m_url \in Targets
          /\ m_content_length \in Nat /\ m_linger \in BOOLEAN
      BY DEF Init, Targets
    <2>4. QED
      BY <2>1, <2>2, <2>3, Constants DEF ParserTyped
  <1>3. WriterTyped
    BY Constants, FS_EmptySet DEF Init, WriterTyped, None
  <1>4. ThreadTyped
    BY DEF Init, ThreadTyped, Codes
  <1>5. QED
    BY <1>1, <1>2, <1>3, <1>4 DEF Typed

LEMMA TypedObject ==
    ASSUME InitObject
    PROVE  /\ m_read_buf' = << >> /\ m_read_buf' \in Seq(Characters) /\ Len(m_read_buf') = 0
           /\ m_checked_idx' = 0 /\ m_start_line' = 0
           /\ m_check_state' = "requestline" /\ m_url' = "absent"
           /\ m_content_length' = 0 /\ m_linger' = FALSE /\ m_write_idx' = 0
  BY DEF InitObject

(* The characters a turn of the parser looks at. *)
LEMMA LineTyped ==
    ASSUME Typed
    PROVE  Line \in Characters
  <1>1. m_read_buf \in Seq(Characters) /\ m_start_line \in Nat
    BY DEF Typed, ParserTyped
  <1>2. CASE m_start_line < Len(m_read_buf)
    <2>1. m_start_line + 1 \in 1..Len(m_read_buf)
      BY <1>1, <1>2
    <2>2. m_read_buf[m_start_line + 1] \in Characters
      BY <1>1, <2>1
    <2>3. QED
      BY <1>2, <2>2 DEF Line, Char
  <1>3. CASE ~(m_start_line < Len(m_read_buf))
    BY <1>3, CharacterFacts DEF Line
  <1>4. QED
    BY <1>2, <1>3

LEMMA ParseTurnTyped ==
    ASSUME Typed, ParseTurn
    PROVE  Typed'
  <1>t. ClientTyped /\ ParserTyped /\ WriterTyped /\ ThreadTyped
    BY DEF Typed
  <1>1. /\ m_checked_idx' \in Nat /\ m_checked_idx' >= m_checked_idx
        /\ m_checked_idx' <= Len(m_read_buf)
        /\ m_start_line' = m_checked_idx' /\ m_read_buf' = m_read_buf
    BY <1>t, ParseLineTypes DEF ParseTurn, ParserTyped
  <1>2. PICK c \in Characters : c = Line
    BY LineTyped
  <1>3. /\ c[1] = "request" => c[2] \in Requests
        /\ c[1] = "header" => c[2] \in Kinds /\ c[3] \in Nat
    BY CharacterFacts
  <1>4. /\ m_check_state' \in {"requestline", "header", "content"} /\ m_url' \in Targets
        /\ m_content_length' \in Nat /\ m_linger' \in BOOLEAN
        /\ ret' \in {"NO_REQUEST", "GET_REQUEST", "BAD_REQUEST"}
    <2>1. CASE m_check_state = "requestline"
      <3>1. ParseRequestLine /\ UNCHANGED <<m_linger, m_content_length>>
        BY <2>1 DEF ParseTurn
      <3>2. CASE c[1] = "request" /\ c[2].line # "malformed"
        <4>1. m_url' = c[2].target /\ m_check_state' = "header" /\ ret' = "NO_REQUEST"
          BY <1>2, <3>1, <3>2 DEF ParseRequestLine
        <4>2. c[2].target \in Targets
          BY <1>3, <3>2, RequestFacts
        <4>3. QED
          BY <1>t, <3>1, <4>1, <4>2 DEF ParserTyped
      <3>3. CASE ~(c[1] = "request" /\ c[2].line # "malformed")
        BY <1>2, <1>t, <3>1, <3>3 DEF ParseRequestLine, ParserTyped
      <3>4. QED
        BY <3>2, <3>3
    <2>2. CASE m_check_state = "header"
      <3>1. ParseHeaders /\ UNCHANGED m_url
        BY <2>2 DEF ParseTurn
      <3>2. m_linger' \in BOOLEAN
        BY <3>1 DEF ParseHeaders
      <3>3. m_content_length' \in Nat
        BY <1>2, <1>3, <1>t, <3>1 DEF ParseHeaders, ParserTyped
      <3>4. /\ m_check_state' \in {"header", "content"}
            /\ ret' \in {"NO_REQUEST", "GET_REQUEST"}
        BY <2>2, <3>1 DEF ParseHeaders
      <3>5. QED
        BY <1>t, <3>1, <3>2, <3>3, <3>4 DEF ParserTyped
    <2>3. CASE m_check_state = "content"
      <3>1. /\ ParseContent
            /\ UNCHANGED <<m_url, m_check_state, m_linger, m_content_length>>
        BY <2>3 DEF ParseTurn
      <3>2. QED
        BY <1>t, <3>1 DEF ParseContent, ParserTyped
    <2>4. QED
      BY <1>t, <2>1, <2>2, <2>3 DEF ParserTyped
  <1>5. ParserTyped'
    BY <1>1, <1>4, <1>t DEF ParserTyped
  <1>6. ClientTyped' /\ WriterTyped'
    BY <1>t DEF ParseTurn, ClientTyped, WriterTyped, client, writer, mapping, history
  <1>7. ThreadTyped'
    <2>1. pc' \in {"process", "do_request", "respond"} /\ line_status' \in {"ok", "open"}
      BY <1>4 DEF ParseTurn
    <2>2. ret' \in Codes
      BY <1>4 DEF Codes
    <2>3. QED
      BY <2>1, <2>2 DEF ThreadTyped
  <1>8. QED
    BY <1>5, <1>6, <1>7 DEF Typed

LEMMA DoRequestTyped ==
    ASSUME Typed, DoRequest
    PROVE  Typed'
  <1>t. ClientTyped /\ ParserTyped /\ WriterTyped /\ ThreadTyped
    BY DEF Typed
  <1>1. ClientTyped' /\ ParserTyped'
    BY <1>t DEF DoRequest, ClientTyped, ParserTyped, client, parser
  <1>2. PICK b \in Nat : b = NewBase
    BY BaseIsFree
  <1>3. m_write_idx' = m_write_idx /\ shorts' = shorts
    BY DEF DoRequest, writer, history
  <1>4. WriterTyped'
    <2>1. CASE m_url \in Files
      <3>1. PICK n \in Nat : n = Size[m_url]
        BY <2>1, Constants
      <3>2. /\ m_file_size' = n /\ mapped' = mapped \cup ({b} \X (1..n))
            /\ m_file_address' = IF n = 0 THEN Failed ELSE b
        BY <1>2, <2>1, <3>1 DEF DoRequest
      <3>3. IsFiniteSet({b}) /\ IsFiniteSet(1..n)
        <4>1. IsFiniteSet({b})
          BY FS_Singleton
        <4>2. IsFiniteSet(1..n)
          BY FS_Interval
        <4>3. QED
          BY <4>1, <4>2
      <3>4. IsFiniteSet({b} \X (1..n))
        BY <3>3, FS_Product
      <3>5. IsFiniteSet(mapped')
        BY <1>t, <3>2, <3>4, FS_Union DEF WriterTyped
      <3>6. mapped' \subseteq Nat \X Nat
        BY <1>t, <3>2 DEF WriterTyped
      <3>7. QED
        BY <1>3, <1>t, <3>2, <3>5, <3>6 DEF WriterTyped
    <2>2. CASE m_url \notin Files
      BY <1>3, <1>t, <2>2 DEF DoRequest, WriterTyped
    <2>3. QED
      BY <2>1, <2>2
  <1>5. ThreadTyped'
    <2>1. pc' = "respond" /\ line_status' = line_status
      BY DEF DoRequest
    <2>2. ret' \in {"NO_RESOURCE", "FORBIDDEN_REQUEST", "BAD_REQUEST", "FILE_REQUEST"}
      BY DEF DoRequest
    <2>3. QED
      BY <1>t, <2>1, <2>2 DEF ThreadTyped, Codes
  <1>6. QED
    BY <1>1, <1>4, <1>5 DEF Typed

LEMMA UnmapTyped ==
    ASSUME WriterTyped, Unmap
    PROVE  /\ m_file_size' \in Nat /\ m_file_address' \in Nat
           /\ mapped' \subseteq Nat \X Nat /\ IsFiniteSet(mapped')
  <1>1. mapped' \subseteq mapped
    BY DEF Unmap
  <1>2. IsFiniteSet(mapped')
    BY <1>1, FS_Subset DEF WriterTyped
  <1>3. QED
    BY <1>1, <1>2 DEF WriterTyped, Unmap, None

LEMMA TypedStep == Typed /\ [Next]_vars => Typed'
  <1> SUFFICES ASSUME Typed, [Next]_vars PROVE Typed'
    OBVIOUS
  <1>t. ClientTyped /\ ParserTyped /\ WriterTyped /\ ThreadTyped
    BY DEF Typed
  <1>a. ASSUME UNCHANGED client PROVE ClientTyped'
    BY <1>a, <1>t DEF ClientTyped, client
  <1>b. ASSUME UNCHANGED <<m_read_buf, parser>> PROVE ParserTyped'
    BY <1>b, <1>t DEF ParserTyped, parser
  <1>c. ASSUME UNCHANGED <<m_write_idx, shorts, mapping>> PROVE WriterTyped'
    BY <1>c, <1>t DEF WriterTyped, mapping
  <1>d. ASSUME UNCHANGED <<pc, locals>> PROVE ThreadTyped'
    BY <1>d, <1>t DEF ThreadTyped, locals
  <1>e. ASSUME InitObject PROVE ParserTyped'
    BY <1>e, TypedObject, Constants DEF ParserTyped, Targets
  <1>1. CASE Accept
    <2>1. ClientTyped'
      <3>1. /\ asked' = << >> /\ wire' = << >> /\ inbox' = << >> /\ hungUp' = FALSE
            /\ conns' = conns + 1 /\ conns < MaxConns
        BY <1>1 DEF Accept
      <3>2. asked' \in Seq(Requests) /\ Len(asked') = 0
        BY <3>1
      <3>3. inbox' \in Seq(Characters) /\ wire' \in Seq(Characters)
        BY <3>1
      <3>4. conns' \in 0..MaxConns
        BY <1>t, <3>1, Constants DEF ClientTyped
      <3>5. hungUp' \in BOOLEAN
        BY <3>1
      <3>6. Len(asked') <= MaxAsked
        BY <3>2, Constants
      <3>7. QED
        BY <3>2, <3>3, <3>4, <3>5, <3>6 DEF ClientTyped
    <2>2. WriterTyped'
      BY <1>1, <1>t, Constants DEF Accept, WriterTyped, mapping, InitObject
    <2>3. ThreadTyped'
      BY <1>1, <1>t DEF Accept, ThreadTyped, locals
    <2>4. QED
      BY <1>1, <1>e, <2>1, <2>2, <2>3 DEF Accept, Typed
  <1>2. CASE HangUp
    <2>1. ClientTyped'
      BY <1>2, <1>t DEF HangUp, ClientTyped
    <2>2. QED
      BY <1>2, <1>b, <1>c, <1>d, <2>1 DEF HangUp, Typed, parser, writer, history
  <1>3. ASSUME NEW r \in Requests, Ask(r) PROVE Typed'
    <2>1. wire' \in Seq(Characters)
      BY <1>3, <1>t, MessageShape, Joined DEF Ask, ClientTyped
    <2>2. asked' \in Seq(Requests) /\ Len(asked') <= MaxAsked
      BY <1>3, <1>t, Constants DEF Ask, ClientTyped
    <2>3. ClientTyped'
      BY <1>3, <1>t, <2>1, <2>2 DEF Ask, ClientTyped
    <2>4. QED
      BY <1>3, <1>b, <1>c, <1>d, <2>3 DEF Ask, Typed, parser, writer, history
  <1>4. ASSUME NEW n \in 1..Len(wire), Deliver(n) PROVE Typed'
    <2>1. wire' \in Seq(Characters) /\ inbox' \in Seq(Characters)
      <3>1. wire \in Seq(Characters) /\ inbox \in Seq(Characters)
        BY <1>t DEF ClientTyped
      <3>2. /\ SubSeq(wire, 1, n) \in Seq(Characters)
            /\ SubSeq(wire, n + 1, Len(wire)) \in Seq(Characters)
        BY <3>1, Cut
      <3>3. QED
        BY <1>4, <3>1, <3>2, Joined DEF Deliver
    <2>2. ClientTyped'
      BY <1>4, <1>t, <2>1 DEF Deliver, ClientTyped
    <2>3. QED
      BY <1>4, <1>b, <1>c, <1>d, <2>2 DEF Deliver, Typed, parser, writer, history
  <1>5. CASE OnReadable
    <2>1. m_read_buf' \in Seq(Characters) /\ Len(m_read_buf') = Len(m_read_buf) + Len(inbox)
      BY <1>5, <1>t, Joined DEF OnReadable, ClientTyped, ParserTyped
    <2>2. Len(m_read_buf) \in Nat /\ Len(inbox) \in Nat
      BY <1>t DEF ClientTyped, ParserTyped
    <2>3. ParserTyped'
      BY <1>5, <1>t, <2>1, <2>2, Constants DEF OnReadable, ParserTyped, Room
    <2>4. ClientTyped' /\ ThreadTyped'
      BY <1>5, <1>t DEF OnReadable, ClientTyped, ThreadTyped
    <2>5. QED
      BY <1>5, <1>c, <2>3, <2>4 DEF OnReadable, Typed, writer, history
  <1>6. CASE OnReadFails \/ OnHangUp
    <2>1. ThreadTyped'
      BY <1>6, <1>t DEF OnReadFails, OnHangUp, ThreadTyped, locals
    <2>2. QED
      BY <1>6, <1>a, <1>b, <1>c, <2>1
         DEF OnReadFails, OnHangUp, Typed, parser, writer, history
  <1>7. CASE ParseEnds
    <2>1. ParserTyped' /\ ThreadTyped'
      BY <1>7, <1>t, ParseLineTypes DEF ParseEnds, ParserTyped, ThreadTyped
    <2>2. QED
      BY <1>7, <1>a, <1>c, <2>1 DEF ParseEnds, Typed, writer, history
  <1>8. CASE ProcessWrite \/ ProcessWriteFails
    <2>1. WriterTyped'
      BY <1>8, <1>t, Constants DEF ProcessWrite, ProcessWriteFails, WriterTyped, mapping, history
    <2>2. ThreadTyped'
      BY <1>8, <1>t DEF ProcessWrite, ProcessWriteFails, ThreadTyped, locals
    <2>3. QED
      BY <1>8, <1>a, <1>b, <2>1, <2>2 DEF ProcessWrite, ProcessWriteFails, Typed, parser
  <1>9. CASE OnWritable \/ WriteAgain
    <2>1. ThreadTyped'
      BY <1>9, <1>t DEF OnWritable, WriteAgain, ThreadTyped, locals
    <2>2. QED
      BY <1>9, <1>a, <1>b, <1>c, <2>1 DEF OnWritable, WriteAgain, Typed, parser, writer, history
  <1>10. CASE WriteFails
    <2>1. WriterTyped'
      BY <1>10, <1>t, UnmapTyped DEF WriteFails, WriterTyped, writer, history
    <2>2. ThreadTyped'
      BY <1>10, <1>t DEF WriteFails, ThreadTyped, locals
    <2>3. QED
      BY <1>10, <1>a, <1>b, <2>1, <2>2 DEF WriteFails, Typed, parser
  <1>11. ASSUME NEW k \in 1..Len(m_iv), Writev(k) PROVE shorts' \in 0..MaxShorts
    BY <1>11, <1>t, Constants DEF Writev, WriterTyped
  <1>12. ASSUME NEW k \in 1..Len(m_iv), WriteMore(k) PROVE Typed'
    <2>1. WriterTyped'
      BY <1>11, <1>12, <1>t DEF WriteMore, WriterTyped, writer, mapping
    <2>2. ClientTyped' /\ ThreadTyped'
      BY <1>12, <1>t DEF WriteMore, ClientTyped, ThreadTyped
    <2>3. QED
      BY <1>12, <1>b, <2>1, <2>2 DEF WriteMore, Typed, parser
  <1>13. ASSUME NEW k \in 1..Len(m_iv), WriteDone(k) PROVE Typed'
    <2>1. ClientTyped'
      BY <1>13, <1>t DEF WriteDone, ClientTyped
    <2>2. ParserTyped' /\ m_write_idx' \in Nat
      <3>1. CASE m_linger
        BY <1>13, <1>e, <3>1, TypedObject DEF WriteDone
      <3>2. CASE ~m_linger
        BY <1>13, <1>b, <1>t, <3>2 DEF WriteDone, parser, writer, WriterTyped
      <3>3. QED
        BY <3>1, <3>2
    <2>3. WriterTyped'
      BY <1>11, <1>13, <1>t, <2>2, UnmapTyped DEF WriteDone, WriterTyped
    <2>4. ThreadTyped'
      BY <1>13, <1>t DEF WriteDone, ThreadTyped
    <2>5. QED
      BY <2>1, <2>2, <2>3, <2>4 DEF Typed
  <1>14. CASE UNCHANGED vars
    BY <1>14, <1>a, <1>b, <1>c, <1>d DEF vars, Typed, parser, writer, history
  <1>15. QED
    BY <1>1, <1>2, <1>3, <1>4, <1>5, <1>6, <1>7, <1>8, <1>9, <1>10, <1>12, <1>13, <1>14,
       ParseTurnTyped, DoRequestTyped DEF Next, ServerStep, Arrival

(* The variables keep their types and the three indices into the read buffer
   their order, whatever clients send (15_5_http_conn.cpp:81-127). *)
THEOREM HttpConnTypes == Spec => []TypeOK
  <1>1. Typed => TypeOK
    BY DEF Typed, ClientTyped, ParserTyped, WriterTyped, ThreadTyped, Targets, TypeOK
  <1>2. QED
    BY <1>1, TypedInit, TypedStep, PTL DEF Spec

-------------------------------------------------------------------------------
(* The parser. *)

(* The request a client waits for the answer to. *)
LEMMA WaitingFacts ==
    ASSUME Typed, Counted
    PROVE  /\ Len(answers) \in Nat /\ Len(asked) \in Nat
           /\ Waiting => /\ Len(asked) = Len(answers) + 1
                         /\ Last(asked) = asked[Len(asked)] /\ Last(asked) \in Requests
           /\ ~Waiting => Len(asked) = Len(answers)
           /\ \A n \in 1..Len(asked) : asked[n] \in Requests
  <1>1. asked \in Seq(Requests) /\ answers \in Seq(Codes)
    BY DEF Typed, ClientTyped, Counted
  <1>2. Len(asked) \in Nat /\ Len(answers) \in Nat
    BY <1>1
  <1>3. \A n \in 1..Len(asked) : asked[n] \in Requests
    BY <1>1
  <1>4. Last(asked) = asked[Len(asked)]
    BY DEF Last
  <1>5. Waiting => Len(asked) = Len(answers) + 1 /\ Len(asked) \in 1..Len(asked)
    BY <1>2 DEF Counted, Waiting
  <1>6. ~Waiting => Len(asked) = Len(answers)
    BY <1>2 DEF Counted, Waiting
  <1>7. QED
    BY <1>2, <1>3, <1>4, <1>5, <1>6

(* What three queues put together begin with. *)
LEMMA Beginning ==
    ASSUME NEW S, NEW s \in Seq(S), NEW t \in Seq(S), NEW u \in Seq(S), NEW w,
           w = s \o t \o u
    PROVE  /\ w \in Seq(S) /\ Len(w) = Len(s) + Len(t) + Len(u)
           /\ \A i \in 1..Len(s) : w[i] = s[i]
           /\ Len(w) = Len(s) => t = << >> /\ u = << >>
           /\ w = << >> => s = << >> /\ t = << >> /\ u = << >>
  <1>1. PICK a : a = s \o t
    OBVIOUS
  <1>2. Len(s) \in Nat /\ Len(t) \in Nat /\ Len(u) \in Nat
    OBVIOUS
  <1>3. a \in Seq(S) /\ Len(a) = Len(s) + Len(t) /\ \A i \in 1..Len(s) : a[i] = s[i]
    BY <1>1, Joined
  <1>4. w \in Seq(S) /\ Len(w) = Len(a) + Len(u) /\ \A i \in 1..Len(a) : w[i] = a[i]
    <2>1. a \in Seq(S)
      BY <1>3
    <2>2. QED
      BY <1>1, <2>1, Joined
  <1>5. Len(w) = Len(s) + Len(t) + Len(u)
    BY <1>3, <1>4
  <1>6. \A i \in 1..Len(s) : w[i] = s[i]
    BY <1>2, <1>3, <1>4
  <1>7. Len(s) = 0 => s = << >>
    OBVIOUS
  <1>8. Len(t) = 0 => t = << >>
    OBVIOUS
  <1>9. Len(u) = 0 => u = << >>
    OBVIOUS
  <1>10. w = << >> => Len(w) = 0
    OBVIOUS
  <1>11. Len(w) = Len(s) => Len(t) = 0 /\ Len(u) = 0
    BY <1>2, <1>5
  <1>12. Len(w) = 0 => Len(s) = 0 /\ Len(t) = 0 /\ Len(u) = 0
    BY <1>2, <1>5
  <1>13. w \in Seq(S)
    BY <1>4
  <1>14. QED
    BY <1>5, <1>6, <1>7, <1>8, <1>9, <1>10, <1>11, <1>12, <1>13

LEMMA StreamFacts ==
    ASSUME Typed, Counted, Stream, pc \in {"in", "process", "do_request", "respond"}
    PROVE  /\ Waiting =>
                 /\ Len(m_read_buf) <= Len(Message(Last(asked)))
                 /\ \A i \in 1..Len(m_read_buf) : m_read_buf[i] = Message(Last(asked))[i]
                 /\ Len(m_read_buf) = Len(Message(Last(asked))) => inbox = << >> /\ wire = << >>
           /\ ~Waiting => m_read_buf = << >> /\ inbox = << >> /\ wire = << >>
  <1>1. m_read_buf \o inbox \o wire = Outstanding
    BY DEF Stream, BufferIsStream, Outstanding, Waiting
  <1>2. m_read_buf \in Seq(Characters) /\ inbox \in Seq(Characters) /\ wire \in Seq(Characters)
    BY DEF Typed, ClientTyped, ParserTyped
  <1>3. PICK w : w = Outstanding
    OBVIOUS
  <1>4. w = m_read_buf \o inbox \o wire
    BY <1>1, <1>3
  <1>5. /\ w \in Seq(Characters) /\ Len(w) = Len(m_read_buf) + Len(inbox) + Len(wire)
        /\ \A i \in 1..Len(m_read_buf) : w[i] = m_read_buf[i]
        /\ Len(w) = Len(m_read_buf) => inbox = << >> /\ wire = << >>
        /\ w = << >> => m_read_buf = << >> /\ inbox = << >> /\ wire = << >>
    BY <1>2, <1>4, Beginning
  <1>6. Len(m_read_buf) \in Nat /\ Len(inbox) \in Nat /\ Len(wire) \in Nat
    BY <1>2
  <1>7. Len(m_read_buf) <= Len(w)
    BY <1>5, <1>6
  <1>8. /\ Waiting => w = Message(Last(asked))
        /\ ~Waiting => w = << >>
    BY <1>3 DEF Outstanding
  <1>9. CASE Waiting
    BY <1>5, <1>7, <1>8, <1>9
  <1>10. CASE ~Waiting
    BY <1>5, <1>8, <1>10
  <1>11. QED
    BY <1>9, <1>10

(* parse_line looks for the first end of a line of the request, wherever what
   has arrived of it was split. *)
LEMMA ParseLineFindsEnd ==
    ASSUME Typed, NEW m, NEW e \in Nat,
           Len(m_read_buf) <= Len(m), \A i \in 1..Len(m_read_buf) : m_read_buf[i] = m[i],
           \A i \in m_start_line..m_checked_idx - 1 : Char(i) \notin {CR, LF},
           m_start_line <= e, m[e + 1] \in {CR, LF}, m[e + 1] = CR \/ e = 1,
           \A i \in m_start_line..e - 1 : m[i + 1] \notin {CR, LF}
    PROVE  /\ ParseLine.status = "ok" =>
                 /\ ParseLine.idx = e + 2 /\ e + 2 <= Len(m_read_buf)
                 /\ m[e + 1] = CR /\ m[e + 2] = LF
           /\ ParseLine.status # "ok" =>
                 \A i \in m_start_line..ParseLine.idx - 1 : Char(i) \notin {CR, LF}
  <1>1. PICK size, start, checked : /\ size = Len(m_read_buf)
                                    /\ start = m_start_line /\ checked = m_checked_idx
    OBVIOUS
  <1>2. /\ m_read_buf \in Seq(Characters) /\ start \in Nat /\ checked \in Nat /\ size \in Nat
        /\ start <= checked /\ checked <= size
    BY <1>1 DEF Typed, ParserTyped
  <1>3. ASSUME NEW i \in 0..size - 1 PROVE Char(i) = m[i + 1]
    <2>1. i + 1 \in 1..size
      BY <1>2
    <2>2. QED
      BY <1>1, <2>1 DEF Char
  <1>4. ASSUME NEW n \in Nat, \A i \in checked..n - 1 : Char(i) \notin {CR, LF}
        PROVE  \A i \in start..n - 1 : Char(i) \notin {CR, LF}
    <2>1. SUFFICES ASSUME NEW i \in start..n - 1 PROVE Char(i) \notin {CR, LF}
      OBVIOUS
    <2>2. i \in start..checked - 1 \/ i \in checked..n - 1
      BY <1>2
    <2>3. QED
      BY <1>1, <1>4, <2>2
  <1>5. CASE /\ \A i \in checked..size - 1 : Char(i) \notin {CR, LF}
             /\ ParseLine = [status |-> "open", idx |-> size]
    <2>1. ParseLine.status = "open" /\ ParseLine.idx = size
      BY <1>5
    <2>2. \A i \in start..size - 1 : Char(i) \notin {CR, LF}
      BY <1>2, <1>4, <1>5
    <2>3. QED
      BY <1>1, <2>1, <2>2
  <1>6. ASSUME NEW p \in checked..size - 1,
               Char(p) \in {CR, LF},
               \A i \in checked..p - 1 : Char(i) \notin {CR, LF},
               ParseLine = LineEnd(p)
        PROVE  /\ ParseLine.status = "ok" =>
                     /\ ParseLine.idx = e + 2 /\ e + 2 <= size
                     /\ m[e + 1] = CR /\ m[e + 2] = LF
               /\ ParseLine.status # "ok" =>
                     \A i \in start..ParseLine.idx - 1 : Char(i) \notin {CR, LF}
    <2>1. p \in Nat /\ p \in 0..size - 1 /\ start <= p
      BY <1>2
    <2>2. \A i \in start..p - 1 : Char(i) \notin {CR, LF}
      BY <1>4, <1>6, <2>1
    <2>3. p = e
      <3>1. ~(p < e)
        <4>1. SUFFICES ASSUME p < e PROVE FALSE
          OBVIOUS
        <4>2. p \in start..e - 1
          BY <1>2, <2>1, <4>1
        <4>3. m[p + 1] \notin {CR, LF}
          BY <1>1, <4>2
        <4>4. QED
          BY <1>3, <1>6, <2>1, <4>3
      <3>2. ~(e < p)
        <4>1. SUFFICES ASSUME e < p PROVE FALSE
          OBVIOUS
        <4>2. e \in start..p - 1 /\ e \in 0..size - 1
          BY <1>1, <1>2, <2>1, <4>1
        <4>3. QED
          BY <1>3, <2>2, <4>2
      <3>3. QED
        BY <2>1, <3>1, <3>2
    <2>4. m[e + 1] = Char(e)
      BY <1>3, <2>1, <2>3
    <2>5. CASE Char(p) = CR /\ p + 1 = size
      <3>1. ParseLine.status = "open" /\ ParseLine.idx = p
        BY <1>1, <1>6, <2>5 DEF LineEnd
      <3>2. QED
        BY <2>2, <3>1
    <2>6. CASE ~(Char(p) = CR /\ p + 1 = size) /\ Char(p) = CR /\ Char(p + 1) = LF
      <3>1. ParseLine.status = "ok" /\ ParseLine.idx = e + 2
        BY <1>1, <1>6, <2>3, <2>6 DEF LineEnd
      <3>2. e + 1 \in 0..size - 1 /\ e + 2 <= size
        BY <1>2, <2>1, <2>3, <2>6
      <3>3. m[e + 1] = CR
        BY <2>3, <2>4, <2>6
      <3>4. m[e + 1 + 1] = LF
        BY <1>3, <2>3, <2>6, <3>2
      <3>5. e + 1 + 1 = e + 2
        OBVIOUS
      <3>6. QED
        BY <3>1, <3>2, <3>3, <3>4, <3>5
    <2>7. CASE ~(Char(p) = CR /\ p + 1 = size) /\ ~(Char(p) = CR /\ Char(p + 1) = LF)
      <3>1. ~(Char(p) = LF /\ p > 1)
        BY <2>1, <2>3, <2>4, CharacterFacts
      <3>2. ParseLine.status = "bad" /\ ParseLine.idx = p
        BY <1>1, <1>6, <2>7, <3>1 DEF LineEnd
      <3>3. QED
        BY <2>2, <3>2
    <2>8. QED
      BY <2>5, <2>6, <2>7
  <1>7. \/ /\ \A i \in checked..size - 1 : Char(i) \notin {CR, LF}
           /\ ParseLine = [status |-> "open", idx |-> size]
        \/ \E p \in checked..size - 1 :
              /\ Char(p) \in {CR, LF}
              /\ \A i \in checked..p - 1 : Char(i) \notin {CR, LF}
              /\ ParseLine = LineEnd(p)
    BY <1>1, <1>2, ParseLineFinds
  <1>8. QED
    BY <1>1, <1>5, <1>6, <1>7

(* Where a turn of the parser leads: to the next line, to the file that is
   asked for when the whole request has been read, or to an error. *)
TurnGood(r) ==
    /\ r.line = "good" /\ m_url' = r.target
    /\ \/ /\ pc' = "process" /\ m_check_state' = "header" /\ m_content_length' = 0
          /\ \E k \in 1..Len(r.headers) + 1 : m_start_line' = 3 * k
       \/ /\ pc' = "do_request" /\ inbox = << >> /\ wire = << >>

TurnBad(r) ==
    pc' = "respond" /\ r.line = "malformed" /\ ret' = "BAD_REQUEST" /\ m_linger' = FALSE

(* Text joins in any order. *)
LEMMA TextAssociative ==
    ASSUME NEW s \in Seq(Characters), NEW t \in Seq(Characters), NEW u \in Seq(Characters)
    PROVE  (s \o t) \o u = s \o (t \o u)
  <1>1. PICK S : S = Characters
    OBVIOUS
  <1>2. s \in Seq(S) /\ t \in Seq(S) /\ u \in Seq(S)
    BY <1>1
  <1>3. QED
    BY <1>2, ConcatAssociative

(* What m is when it is the message of a request with h headers that sends no
   body and ends its lines well. *)
GoodLayout(m, r, h) ==
    /\ Len(m) = 3 * h + 5
    /\ \A j \in 1..h : /\ m[3 * j + 1] = <<"header", r.headers[j], 0>>
                       /\ m[3 * j + 2] = CR /\ m[3 * j + 3] = LF
    /\ m[3 * h + 4] = CR /\ m[3 * h + 5] = LF

LEMMA GoodMessage ==
    ASSUME NEW r \in Requests, r.line # "bare LF", r.body = 0
    PROVE  GoodLayout(Message(r), r, Len(r.headers))
  BY MessageShape, Zenon DEF GoodLayout

(* What a turn of the parser needs to know. *)
LEMMA TurnFacts ==
    ASSUME Plain, Typed, Counted, Stream, Parsing, ParseTurn
    PROVE  /\ Waiting /\ Last(asked) \in Requests
           /\ m_check_state \in {"requestline", "header"} /\ m_content_length = 0
           /\ ParseLine.status = "ok"
           /\ m_checked_idx' = ParseLine.idx /\ m_start_line' = m_checked_idx'
           /\ Len(m_read_buf) <= Len(Message(Last(asked)))
           /\ \A i \in 1..Len(m_read_buf) : m_read_buf[i] = Message(Last(asked))[i]
           /\ Len(m_read_buf) = Len(Message(Last(asked))) => inbox = << >> /\ wire = << >>
           /\ \A i \in m_start_line..m_checked_idx - 1 : Char(i) \notin {CR, LF}
           /\ \A i \in 0..Len(m_read_buf) - 1 :
                 m_start_line = i => Line = Message(Last(asked))[i + 1]
  <1>1. pc = "process"
    BY DEF ParseTurn
  <1>2. Waiting
    BY <1>1 DEF Counted
  <1>3. Last(asked) \in Requests
    BY <1>2, WaitingFacts
  <1>4. /\ m_check_state \in {"requestline", "header"} /\ m_content_length = 0
        /\ \A i \in m_start_line..m_checked_idx - 1 : Char(i) \notin {CR, LF}
    BY <1>1 DEF Parsing
  <1>5. /\ ParseLine.status = "ok"
        /\ m_checked_idx' = ParseLine.idx /\ m_start_line' = m_checked_idx'
    BY <1>4 DEF ParseTurn
  <1>6. /\ Len(m_read_buf) <= Len(Message(Last(asked)))
        /\ \A i \in 1..Len(m_read_buf) : m_read_buf[i] = Message(Last(asked))[i]
        /\ Len(m_read_buf) = Len(Message(Last(asked))) => inbox = << >> /\ wire = << >>
    BY <1>1, <1>2, StreamFacts
  <1>7. ASSUME NEW i \in 0..Len(m_read_buf) - 1, m_start_line = i
        PROVE  Line = Message(Last(asked))[i + 1]
    <2>1. m_read_buf \in Seq(Characters)
      BY DEF Typed, ParserTyped
    <2>2. i < Len(m_read_buf) /\ i + 1 \in 1..Len(m_read_buf)
      BY <2>1
    <2>3. Line = m_read_buf[i + 1]
      BY <1>7, <2>2 DEF Line, Char
    <2>4. QED
      BY <1>6, <2>2, <2>3
  <1>8. QED
    BY <1>2, <1>3, <1>4, <1>5, <1>6, <1>7

LEMMA RequestLineTurn ==
    ASSUME Plain, Typed, Counted, Stream, Parsing, ParseTurn, m_check_state = "requestline"
    PROVE  TurnGood(Last(asked)) \/ TurnBad(Last(asked))
  <1>1. PICK r, m : r = Last(asked) /\ m = Message(r)
    OBVIOUS
  <1>2. /\ r \in Requests /\ m_content_length = 0 /\ ParseLine.status = "ok"
        /\ m_checked_idx' = ParseLine.idx /\ m_start_line' = m_checked_idx'
        /\ Len(m_read_buf) <= Len(m) /\ \A i \in 1..Len(m_read_buf) : m_read_buf[i] = m[i]
        /\ \A i \in m_start_line..m_checked_idx - 1 : Char(i) \notin {CR, LF}
        /\ \A i \in 0..Len(m_read_buf) - 1 : m_start_line = i => Line = m[i + 1]
    BY <1>1, TurnFacts
  <1>3. m_start_line = 0 /\ ~m_linger
    BY DEF Parsing, ParseTurn
  <1>4. r.body = 0
    BY <1>2 DEF Plain
  <1>5. /\ m[1] = <<"request", r>>
        /\ r.line = "bare LF" => m[2] = LF
        /\ r.line # "bare LF" => m[2] = CR
    BY <1>1, <1>2, <1>4, MessageShape
  <1>6. m[1] = <<"request", r>> /\ m[1] \notin {CR, LF}
    <2>1. PICK req : req = <<"request", r>>
      OBVIOUS
    <2>2. m[1] = req
      BY <1>5, <2>1
    <2>3. req[1] = "request"
      BY <2>1
    <2>4. req # CR /\ req # LF
      BY <2>3, CharacterFacts
    <2>5. QED
      BY <2>1, <2>2, <2>4
  <1>7. \A i \in m_start_line..1 - 1 : m[i + 1] \notin {CR, LF}
    BY <1>3, <1>6
  <1>8. 1 \in Nat /\ m[1 + 1] \in {CR, LF} /\ m_start_line <= 1
    <2>1. 1 + 1 = 2
      OBVIOUS
    <2>2. m[2] \in {CR, LF}
      BY <1>5
    <2>3. QED
      BY <1>3, <2>1, <2>2
  <1>9. ParseLine.idx = 1 + 2 /\ 1 + 2 <= Len(m_read_buf) /\ m[1 + 1] = CR
    BY <1>2, <1>7, <1>8, ParseLineFindsEnd
  <1>10. r.line # "bare LF"
    <2>1. 1 + 1 = 2
      OBVIOUS
    <2>2. QED
      BY <1>5, <1>9, <2>1, CharacterFacts
  <1>11. m_read_buf \in Seq(Characters)
    BY DEF Typed, ParserTyped
  <1>12. 0 \in 0..Len(m_read_buf) - 1
    BY <1>9, <1>11
  <1>13. Line = m[0 + 1]
    BY <1>2, <1>3, <1>12
  <1>14. Line = <<"request", r>>
    BY <1>6, <1>13
  <1>15. ParseRequestLine /\ UNCHANGED <<m_linger, m_content_length>>
    BY DEF ParseTurn
  <1>16. Line[1] = "request" /\ Line[2] = r
    BY <1>14
  <1>17. CASE r.line = "malformed"
    <2>1. ret' = "BAD_REQUEST"
      BY <1>15, <1>16, <1>17 DEF ParseRequestLine
    <2>2. pc' = "respond"
      BY <2>1 DEF ParseTurn
    <2>3. m_linger' = FALSE
      BY <1>3, <1>15 DEF Typed, ParserTyped
    <2>4. QED
      BY <1>1, <1>17, <2>1, <2>2, <2>3 DEF TurnBad
  <1>18. CASE r.line # "malformed"
    <2>1. m_url' = r.target /\ m_check_state' = "header" /\ ret' = "NO_REQUEST"
      BY <1>15, <1>16, <1>18 DEF ParseRequestLine
    <2>2. pc' = "process"
      BY <2>1 DEF ParseTurn
    <2>3. r.line = "good" /\ Len(r.headers) \in Nat
      BY <1>2, <1>10, <1>18, RequestFacts
    <2>4. m_start_line' = 3 * 1 /\ 1 \in 1..Len(r.headers) + 1
      BY <1>2, <1>9, <2>3
    <2>5. m_content_length' = 0
      BY <1>2, <1>15
    <2>6. QED
      BY <1>1, <2>1, <2>2, <2>3, <2>4, <2>5 DEF TurnGood
  <1>19. QED
    BY <1>17, <1>18

LEMMA HeaderTurn ==
    ASSUME Plain, Typed, Counted, Stream, Parsing, ParseTurn, m_check_state = "header"
    PROVE  TurnGood(Last(asked))
  <1>1. PICK r, m : r = Last(asked) /\ m = Message(r)
    OBVIOUS
  <1>2. /\ r \in Requests /\ m_content_length = 0 /\ ParseLine.status = "ok"
        /\ m_checked_idx' = ParseLine.idx /\ m_start_line' = m_checked_idx'
        /\ Len(m_read_buf) <= Len(m) /\ \A i \in 1..Len(m_read_buf) : m_read_buf[i] = m[i]
        /\ Len(m_read_buf) = Len(m) => inbox = << >> /\ wire = << >>
        /\ \A i \in m_start_line..m_checked_idx - 1 : Char(i) \notin {CR, LF}
        /\ \A i \in 0..Len(m_read_buf) - 1 : m_start_line = i => Line = m[i + 1]
    BY <1>1, TurnFacts
  <1>3. /\ r.line = "good" /\ m_url = r.target
        /\ \E k \in 1..Len(r.headers) + 1 : m_start_line = 3 * k
    BY <1>1 DEF Parsing, ParseTurn
  <1>4. PICK k \in 1..Len(r.headers) + 1 : m_start_line = 3 * k
    BY <1>3
  <1>5. r.body = 0
    BY <1>2 DEF Plain
  <1>6. PICK h : h = Len(r.headers)
    OBVIOUS
  <1>7. /\ Len(m) = 3 * h + 5
        /\ \A j \in 1..h : /\ m[3 * j + 1] = <<"header", r.headers[j], 0>>
                           /\ m[3 * j + 2] = CR /\ m[3 * j + 3] = LF
        /\ m[3 * h + 4] = CR /\ m[3 * h + 5] = LF
    <2>1. r.line # "bare LF"
      BY <1>3
    <2>2. GoodLayout(Message(r), r, Len(r.headers))
      BY <1>2, <1>5, <2>1, GoodMessage
    <2>3. GoodLayout(m, r, h)
      BY <1>1, <1>6, <2>2, Zenon
    <2>4. QED
      BY <2>3 DEF GoodLayout
  <1>8. h \in Nat /\ \A j \in 1..h : r.headers[j] # "length"
    BY <1>2, <1>5, <1>6, RequestFacts
  <1>9. m_read_buf \in Seq(Characters) /\ Len(m_read_buf) \in Nat
    BY DEF Typed, ParserTyped
  <1>10. ParseHeaders /\ UNCHANGED m_url
    BY DEF ParseTurn
  <1>11. CASE k \in 1..h
    <2>1. m[3 * k + 1] \notin {CR, LF}
      BY <1>7, <1>11 DEF CR, LF
    <2>2. PICK e \in Nat : e = 3 * k + 1
      BY <1>8
    <2>3. m_start_line <= e /\ e + 1 = 3 * k + 2
      BY <1>4, <1>8, <2>2
    <2>4. m[e + 1] \in {CR, LF} /\ m[e + 1] = CR
      BY <1>7, <1>11, <2>3
    <2>5. \A i \in m_start_line..e - 1 : m[i + 1] \notin {CR, LF}
      <3>1. \A i \in m_start_line..e - 1 : i + 1 = 3 * k + 1
        BY <1>4, <1>8, <2>2
      <3>2. QED
        BY <2>1, <3>1
    <2>6. ParseLine.idx = e + 2 /\ e + 2 <= Len(m_read_buf)
      BY <1>2, <2>3, <2>4, <2>5, ParseLineFindsEnd
    <2>7. 3 * k \in 0..Len(m_read_buf) - 1
      BY <1>8, <1>9, <2>2, <2>6
    <2>8. Line = m[3 * k + 1]
      BY <1>2, <1>4, <2>7
    <2>9. Line = <<"header", r.headers[k], 0>>
      BY <1>7, <1>11, <2>8
    <2>10. Line # CR /\ Line[1] = "header" /\ Line[2] # "length"
      BY <1>8, <1>11, <2>9 DEF CR
    <2>11. m_content_length' = 0 /\ ret' = "NO_REQUEST" /\ m_check_state' = "header"
      BY <1>2, <1>10, <2>10 DEF ParseHeaders
    <2>12. pc' = "process"
      BY <2>11 DEF ParseTurn
    <2>13. m_start_line' = 3 * (k + 1) /\ k + 1 \in 1..h + 1
      BY <1>2, <1>8, <1>11, <2>2, <2>6
    <2>14. QED
      BY <1>1, <1>3, <1>6, <1>10, <2>11, <2>12, <2>13 DEF TurnGood
  <1>12. CASE k = h + 1
    <2>1. PICK e \in Nat : e = 3 * h + 3
      BY <1>8
    <2>2. m_start_line = e /\ e + 1 = 3 * h + 4 /\ e + 2 = 3 * h + 5
      BY <1>4, <1>8, <1>12, <2>1
    <2>3. m_start_line <= e /\ m[e + 1] = CR /\ m[e + 1] \in {CR, LF}
      BY <1>7, <2>2
    <2>4. \A i \in m_start_line..e - 1 : m[i + 1] \notin {CR, LF}
      BY <2>2
    <2>5. ParseLine.idx = e + 2 /\ e + 2 <= Len(m_read_buf)
      BY <1>2, <2>3, <2>4, ParseLineFindsEnd
    <2>6. Len(m_read_buf) = Len(m)
      BY <1>2, <1>7, <1>8, <1>9, <2>2, <2>5
    <2>7. inbox = << >> /\ wire = << >>
      BY <1>2, <2>6
    <2>8. e \in 0..Len(m_read_buf) - 1
      BY <1>9, <2>5
    <2>9. Line = m[e + 1]
      BY <1>2, <2>2, <2>8
    <2>10. Line = CR
      BY <2>3, <2>9
    <2>11. ret' = "GET_REQUEST"
      BY <1>2, <1>10, <2>10 DEF ParseHeaders
    <2>12. pc' = "do_request"
      BY <2>11 DEF ParseTurn
    <2>13. QED
      BY <1>1, <1>3, <1>10, <2>7, <2>12 DEF TurnGood
  <1>13. QED
    BY <1>4, <1>6, <1>8, <1>11, <1>12

-------------------------------------------------------------------------------
(* The answers. *)

LEMMA AnswerFacts ==
    ASSUME NEW r \in Requests
    PROVE  /\ Answer(r) \in Codes /\ r.target \in Targets
           /\ Answer(r) = "FILE_REQUEST" => r.target \in Files
           /\ r.line = "malformed" => Answer(r) = "BAD_REQUEST"
  <1>1. r.target \in Targets
    BY RequestFacts
  <1>2. CASE r.line # "good"
    BY <1>1, <1>2 DEF Answer, Codes
  <1>3. CASE r.line = "good"
    BY <1>1, <1>3 DEF Answer, Codes, Targets
  <1>4. QED
    BY <1>2, <1>3

LEMMA ResponseShape ==
    ASSUME NEW code \in Codes, NEW file \in Targets, NEW n \in Nat,
           code = "FILE_REQUEST" => file \in Files
    PROVE  /\ Response(code, file, n) \in Seq(Piece)
           /\ Len(Response(code, file, n)) \in Nat \ {0}
           /\ Len(Response(code, file, n)) =
                 HeaderLen + IF code = "FILE_REQUEST" THEN Size[file] ELSE FormLen
           /\ \A i \in 1..Len(Response(code, file, n)) :
                 /\ Response(code, file, n)[i].to = n
                 /\ Response(code, file, n)[i].code = code
                 /\ code = "FILE_REQUEST" => Response(code, file, n)[i].file = file
  <1>1. PICK l : l = HeaderLen + IF code = "FILE_REQUEST" THEN Size[file] ELSE FormLen
    OBVIOUS
  <1>2. l \in Nat \ {0}
    BY <1>1, Constants
  <1>3. PICK name : name = IF code = "FILE_REQUEST" THEN file ELSE "form"
    OBVIOUS
  <1>4. name \in Targets \cup {"form"} /\ (code = "FILE_REQUEST" => name = file)
    BY <1>3
  <1>5. PICK w : w = Response(code, file, n)
    OBVIOUS
  <1>6. w = [i \in 1..l |-> [code |-> code, file |-> name, part |-> i, to |-> n]]
    BY <1>1, <1>3, <1>5 DEF Response
  <1>7. \A i \in 1..l : [code |-> code, file |-> name, part |-> i, to |-> n] \in Piece
    BY <1>4 DEF Piece
  <1>8. w \in [1..l -> Piece]
    BY <1>6, <1>7
  <1>9. w \in Seq(Piece) /\ Len(w) = l
    BY <1>2, <1>8
  <1>10. \A i \in 1..l : w[i].to = n /\ w[i].code = code /\ w[i].file = name
    BY <1>6
  <1>11. QED
    BY <1>1, <1>2, <1>4, <1>5, <1>9, <1>10

(* An error is answered in the same way whatever was asked for. *)
LEMMA ErrorShape ==
    ASSUME NEW code, code # "FILE_REQUEST", NEW file, NEW other, NEW n
    PROVE  Response(code, file, n) = Response(code, other, n)
  BY DEF Response

LEMMA SameReceived ==
    ASSUME Received, UNCHANGED <<asked, answers, received>>
    PROVE  Received'
  BY DEF Received, AnswersInOrder

(* Once the connection is closed only what has been received matters. *)
LEMMA ClosedAnswers ==
    ASSUME HInv, pc' = "closed", UNCHANGED <<asked, answers>>, Received'
    PROVE  Answers'
  <1>1. Counted'
    BY DEF HInv, Answers, Counted, Waiting
  <1>2. Stream' /\ Parsing' /\ Requested' /\ Responding' /\ Writing'
    BY DEF Stream, BufferIsStream, Parsing, Requested, Responding, Writing
  <1>3. QED
    BY <1>1, <1>2 DEF Answers

(* Nothing that the answers depend on. *)
LEMMA SameAnswers ==
    ASSUME HInv, UNCHANGED <<pc, asked, answers, received, m_read_buf, inbox, wire,
                             m_checked_idx, m_start_line, m_check_state, m_url,
                             m_content_length, m_linger, m_write_idx, m_iv, m_file_size, ret>>
    PROVE  Answers'
  <1>1. Received'
    BY SameReceived DEF HInv, Answers
  <1>2. Outstanding' = Outstanding /\ Waiting' = Waiting
    BY DEF Outstanding, Waiting
  <1>3. Counted' /\ Stream'
    BY <1>2 DEF HInv, Answers, Counted, Stream, BufferIsStream
  <1>4. Parsing'
    BY <1>2 DEF HInv, Answers, Parsing, Char
  <1>5. Requested' /\ Responding' /\ Writing'
    BY DEF HInv, Answers, Requested, Responding, Writing
  <1>6. QED
    BY <1>1, <1>3, <1>4, <1>5 DEF Answers

LEMMA AcceptAnswers ==
    ASSUME HInv, Accept
    PROVE  Answers'
  <1>1. /\ pc' = "in" /\ asked' = << >> /\ wire' = << >> /\ inbox' = << >>
        /\ received' = << >> /\ answers' = << >>
    BY DEF Accept
  <1>2. /\ m_read_buf' = << >> /\ m_checked_idx' = 0 /\ m_start_line' = 0
        /\ m_check_state' = "requestline" /\ m_content_length' = 0 /\ m_linger' = FALSE
    BY TypedObject DEF Accept
  <1>3. Counted' /\ ~Waiting'
    BY <1>1 DEF Counted, Waiting
  <1>4. Received'
    BY <1>1 DEF Received, AnswersInOrder
  <1>5. Stream'
    <2>1. << >> \o << >> = << >>
      BY EmptySeq, ConcatEmptySeq
    <2>2. BufferIsStream'
      BY <1>1, <1>2, <2>1 DEF BufferIsStream
    <2>3. QED
      BY <1>1, <2>2 DEF Stream
  <1>6. Parsing'
    BY <1>1, <1>2 DEF Parsing
  <1>7. Requested' /\ Responding' /\ Writing'
    BY <1>1 DEF Requested, Responding, Writing
  <1>8. QED
    BY <1>3, <1>4, <1>5, <1>6, <1>7 DEF Answers

(* Nothing put together is nothing. *)
LEMMA NothingJoined ==
    ASSUME NEW S, NEW s \in Seq(S), NEW t \in Seq(S)
    PROVE  /\ s \o t = << >> => s = << >> /\ t = << >>
           /\ << >> \o t = t /\ s \o << >> = s
  <1>1. Len(s \o t) = Len(s) + Len(t) /\ Len(s) \in Nat /\ Len(t) \in Nat
    OBVIOUS
  <1>2. ASSUME s \o t = << >> PROVE s = << >> /\ t = << >>
    <2>1. Len(s \o t) = 0
      BY <1>2
    <2>2. Len(s) = 0 /\ Len(t) = 0
      BY <1>1, <2>1
    <2>3. QED
      BY <2>2, EmptySeq
  <1>3. << >> \o t = t /\ s \o << >> = s
    BY ConcatEmptySeq
  <1>4. QED
    BY <1>2, <1>3

LEMMA AskAnswers ==
    ASSUME Plain, HInv, NEW r \in Requests, Ask(r)
    PROVE  Answers'
  <1>t. Typed /\ Answers
    BY DEF HInv
  <1>1. /\ asked' = Append(asked, r) /\ wire' = wire \o Message(r) /\ pc # "closed"
        /\ asked = << >> \/ \E i \in DOMAIN received : received[i].to = Len(asked)
        /\ UNCHANGED <<inbox, received, answers, parser, writer, mapping, pc, locals>>
    BY DEF Ask, Plain, history
  <1>2. /\ asked \in Seq(Requests) /\ inbox \in Seq(Characters) /\ wire \in Seq(Characters)
        /\ pc \in {"in", "process", "do_request", "respond", "out", "write"}
    BY <1>t, <1>1 DEF Typed, ClientTyped, ThreadTyped
  <1>3. /\ Len(answers) \in Nat /\ Len(asked) \in Nat
        /\ ~Waiting => Len(asked) = Len(answers)
    BY <1>t, WaitingFacts DEF Answers
  <1>4. ~Waiting
    <2>1. CASE asked = << >>
      <3>1. Len(asked) = 0
        BY <2>1
      <3>2. QED
        BY <1>3, <3>1 DEF Waiting
    <2>2. ASSUME NEW i \in DOMAIN received, received[i].to = Len(asked) PROVE ~Waiting
      <3>1. Len(asked) \in 1..Len(answers)
        BY <1>t, <2>2 DEF Answers, Received
      <3>2. QED
        BY <1>3, <3>1 DEF Waiting
    <2>3. QED
      BY <1>1, <2>1, <2>2
  <1>5. Len(asked) = Len(answers)
    BY <1>3, <1>4
  <1>6. /\ Len(asked') = Len(asked) + 1 /\ Last(asked') = r
        /\ \A n \in 1..Len(asked) : asked'[n] = asked[n]
    BY <1>1, <1>2 DEF Last
  <1>7. Waiting' /\ Outstanding' = Message(r)
    <2>1. Waiting'
      BY <1>1, <1>3, <1>5, <1>6 DEF Waiting
    <2>2. QED
      BY <1>6, <2>1 DEF Outstanding
  <1>8. Counted'
    BY <1>t, <1>1, <1>3, <1>5, <1>6, <1>7 DEF Answers, Counted
  <1>9. Received'
    <2>1. received \in Seq(Piece) /\ \A i \in DOMAIN received : received[i].to \in 1..Len(answers)
      BY <1>t DEF Answers, Received
    <2>2. AnswersInOrder
      BY <1>t DEF Answers, Received
    <2>3. ASSUME NEW i \in DOMAIN received, NEW to, to = received[i].to
          PROVE  /\ to \in DOMAIN asked'
                 /\ received[i].code = Answer(asked'[to])
                 /\ received[i].code = "FILE_REQUEST" => received[i].file = asked'[to].target
      <3>1. to \in 1..Len(asked)
        BY <1>5, <2>1, <2>3
      <3>2. asked'[to] = asked[to]
        BY <1>6, <3>1
      <3>3. to \in DOMAIN asked'
        BY <1>1, <1>2, <3>1
      <3>4. /\ received[i].code = Answer(asked[to])
            /\ received[i].code = "FILE_REQUEST" => received[i].file = asked[to].target
        BY <2>2, <2>3 DEF AnswersInOrder
      <3>5. QED
        BY <3>2, <3>3, <3>4
    <2>4. AnswersInOrder'
      BY <1>1, <2>2, <2>3 DEF AnswersInOrder
    <2>5. QED
      BY <1>1, <2>1, <2>4 DEF Received
  <1>10. Message(r) \in Seq(Characters)
    BY MessageShape
  <1>11. Stream'
    <2>1. CASE pc = "in"
      <3>1. m_read_buf = << >> /\ inbox = << >> /\ wire = << >>
        BY <1>t, <1>4, <2>1, StreamFacts DEF Answers
      <3>2. wire' = Message(r) /\ inbox' = << >> /\ m_read_buf' = << >>
        BY <1>1, <1>10, <3>1, NothingJoined DEF parser
      <3>3. << >> \o << >> = << >>
        BY <1>2, <3>1, NothingJoined
      <3>4. << >> \o << >> \o wire' = wire'
        BY <1>10, <3>2, <3>3, NothingJoined
      <3>5. m_read_buf' \o inbox' \o wire' = Outstanding'
        BY <1>7, <3>2, <3>4
      <3>6. BufferIsStream'
        BY <3>5 DEF BufferIsStream, Outstanding, Waiting
      <3>7. QED
        BY <1>1, <2>1, <3>6 DEF Stream
    <2>2. CASE pc \in {"out", "write"}
      <3>1. m_linger => inbox \o wire = << >>
        BY <1>t, <1>4, <2>2 DEF Answers, Stream, Outstanding
      <3>2. m_linger => inbox = << >> /\ wire = << >>
        BY <1>2, <3>1, NothingJoined
      <3>3. m_linger => inbox' = << >> /\ wire' = Message(r)
        BY <1>1, <1>10, <3>2, NothingJoined
      <3>4. m_linger => inbox' \o wire' = Outstanding'
        BY <1>7, <1>10, <3>3, NothingJoined
      <3>5. QED
        BY <1>1, <2>2, <3>4 DEF Stream, BufferIsStream, parser
    <2>3. QED
      BY <1>t, <1>2, <1>4, <2>1, <2>2 DEF Answers, Counted
  <1>12. Parsing'
    BY <1>t, <1>1, <1>4 DEF Answers, Parsing, parser, Char, Counted
  <1>13. Requested' /\ Responding'
    BY <1>t, <1>1, <1>4 DEF Answers, Counted, Requested, Responding
  <1>14. Writing'
    <2>1. CASE pc \in {"out", "write"}
      <3>1. PICK n : n = Len(answers)
        OBVIOUS
      <3>2. n \in 1..Len(asked)
        BY <1>t, <1>3, <1>5, <2>1, <3>1 DEF Answers, Counted
      <3>3. asked'[n] = asked[n]
        BY <1>6, <3>2
      <3>4. QED
        BY <1>t, <1>1, <3>1, <3>3 DEF Answers, Writing, writer
    <2>2. QED
      BY <1>1, <2>1 DEF Writing
  <1>15. QED
    BY <1>8, <1>9, <1>11, <1>12, <1>13, <1>14 DEF Answers

LEMMA DeliverAnswers ==
    ASSUME HInv, NEW n \in 1..Len(wire), Deliver(n)
    PROVE  Answers'
  <1>t. Typed /\ Answers
    BY DEF HInv
  <1>1. /\ inbox' = inbox \o SubSeq(wire, 1, n) /\ wire' = SubSeq(wire, n + 1, Len(wire))
        /\ UNCHANGED <<pc, asked, answers, received, m_read_buf, m_checked_idx, m_start_line,
                       m_check_state, m_url, m_content_length, m_linger, m_write_idx, m_iv,
                       m_file_size, ret>>
    BY DEF Deliver, parser, writer, mapping, locals, history
  <1>2. inbox \in Seq(Characters) /\ wire \in Seq(Characters) /\ m_read_buf \in Seq(Characters)
    BY <1>t DEF Typed, ClientTyped, ParserTyped
  <1>3. wire # << >>
    BY <1>2
  <1>4. PICK s, t : s = SubSeq(wire, 1, n) /\ t = SubSeq(wire, n + 1, Len(wire))
    OBVIOUS
  <1>5. s \in Seq(Characters) /\ t \in Seq(Characters) /\ s \o t = wire
    <2>1. n \in 0..Len(wire)
      OBVIOUS
    <2>2. s \in Seq(Characters) /\ t \in Seq(Characters)
      BY <1>2, <1>4, <2>1, Cut
    <2>3. SubSeq(wire, 1, Len(wire)) = wire
      BY <1>2, SubSeqFull
    <2>4. 1 \in 1..Len(wire) + 1 /\ n \in 1 - 1..Len(wire) /\ Len(wire) \in n..Len(wire)
      BY <1>2
    <2>5. SubSeq(wire, 1, n) \o SubSeq(wire, n + 1, Len(wire)) = SubSeq(wire, 1, Len(wire))
      BY <1>2, <2>4, ConcatAdjacentSubSeq
    <2>6. QED
      BY <1>4, <2>2, <2>3, <2>5
  <1>6. inbox' \o wire' = inbox \o wire /\ inbox' \in Seq(Characters)
    <2>1. (inbox \o s) \o t = inbox \o (s \o t)
      <3>1. inbox \in Seq(Characters) /\ s \in Seq(Characters) /\ t \in Seq(Characters)
        BY <1>2, <1>5
      <3>2. QED
        BY <3>1, TextAssociative
    <2>2. inbox \o s \in Seq(Characters)
      BY <1>2, <1>5, Joined
    <2>3. QED
      BY <1>1, <1>4, <1>5, <2>1, <2>2
  <1>7. m_read_buf \o inbox' \o wire' = m_read_buf \o inbox \o wire
    <2>1. wire' \in Seq(Characters)
      BY <1>1, <1>4, <1>5
    <2>2. (m_read_buf \o inbox') \o wire' = m_read_buf \o (inbox' \o wire')
      <3>1. m_read_buf \in Seq(Characters) /\ inbox' \in Seq(Characters)
        BY <1>2, <1>6
      <3>2. QED
        BY <2>1, <3>1, TextAssociative
    <2>3. (m_read_buf \o inbox) \o wire = m_read_buf \o (inbox \o wire)
      BY <1>2, TextAssociative
    <2>4. QED
      BY <1>6, <2>2, <2>3
  <1>8. Received'
    BY <1>t, <1>1, SameReceived DEF Answers
  <1>9. Outstanding' = Outstanding /\ Waiting' = Waiting
    BY <1>1 DEF Outstanding, Waiting
  <1>10. Counted'
    BY <1>t, <1>1, <1>9 DEF Answers, Counted
  <1>11. Stream'
    BY <1>t, <1>1, <1>6, <1>7, <1>9 DEF Answers, Stream, BufferIsStream
  <1>12. Parsing'
    BY <1>t, <1>1, <1>9 DEF Answers, Parsing, Char
  <1>13. Requested' /\ Responding' /\ Writing'
    BY <1>t, <1>1, <1>3 DEF Answers, Requested, Responding, Writing
  <1>14. QED
    BY <1>8, <1>10, <1>11, <1>12, <1>13 DEF Answers

LEMMA OnReadableAnswers ==
    ASSUME HInv, OnReadable
    PROVE  Answers'
  <1>t. Typed /\ Answers
    BY DEF HInv
  <1>1. /\ pc = "in" /\ pc' = "process" /\ inbox # << >> /\ inbox' = << >>
        /\ m_read_buf' = m_read_buf \o inbox
        /\ UNCHANGED <<wire, asked, answers, received, m_checked_idx, m_start_line,
                       m_check_state, m_url, m_content_length, m_linger>>
    BY DEF OnReadable, history
  <1>2. inbox \in Seq(Characters) /\ wire \in Seq(Characters) /\ m_read_buf \in Seq(Characters)
    BY <1>t DEF Typed, ClientTyped, ParserTyped
  <1>3. Waiting
    BY <1>t, <1>1, StreamFacts DEF Answers
  <1>4. Outstanding' = Outstanding /\ Waiting' = Waiting
    BY <1>1 DEF Outstanding, Waiting
  <1>5. Received'
    BY <1>t, <1>1, SameReceived DEF Answers
  <1>6. Counted'
    BY <1>t, <1>1, <1>3, <1>4 DEF Answers, Counted
  <1>7. m_read_buf' \in Seq(Characters)
    BY <1>1, <1>2, Joined
  <1>8. Stream'
    <2>1. m_read_buf' \o << >> = m_read_buf'
      BY <1>7, NothingJoined
    <2>2. m_read_buf' \o inbox' \o wire' = m_read_buf \o inbox \o wire
      BY <1>1, <2>1
    <2>3. m_read_buf \o inbox \o wire = Outstanding
      BY <1>t, <1>1 DEF Answers, Stream, BufferIsStream, Outstanding, Waiting
    <2>4. BufferIsStream'
      BY <1>4, <2>2, <2>3 DEF BufferIsStream, Outstanding, Waiting
    <2>5. QED
      BY <1>1, <2>4 DEF Stream
  <1>9. Parsing'
    <2>1. /\ m_start_line \in Nat /\ m_checked_idx \in Nat
          /\ m_checked_idx <= Len(m_read_buf) /\ Len(m_read_buf) \in Nat
      BY <1>t, <1>2 DEF Typed, ParserTyped
    <2>2. \A i \in 1..Len(m_read_buf) : m_read_buf'[i] = m_read_buf[i]
      BY <1>1, <1>2, Joined
    <2>3. ASSUME NEW i \in m_start_line..m_checked_idx - 1
          PROVE  m_read_buf'[i + 1] \notin {CR, LF}
      <3>1. i + 1 \in 1..Len(m_read_buf)
        BY <2>1
      <3>2. m_read_buf[i + 1] \notin {CR, LF}
        BY <1>t, <1>1 DEF Answers, Parsing, Char
      <3>3. QED
        BY <2>2, <3>1, <3>2
    <2>4. \A i \in (m_start_line..m_checked_idx - 1)' : Char(i)' \notin {CR, LF}
      BY <1>1, <2>3 DEF Char
    <2>5. QED
      BY <1>t, <1>1, <1>4, <2>4 DEF Answers, Parsing
  <1>10. Requested' /\ Responding' /\ Writing'
    BY <1>1 DEF Requested, Responding, Writing
  <1>11. QED
    BY <1>5, <1>6, <1>8, <1>9, <1>10 DEF Answers

(* write() begins, or waits to begin again. *)
LEMMA WriteBegins ==
    ASSUME HInv, pc \in {"out", "write"}, pc' \in {"out", "write"},
           UNCHANGED <<asked, answers, received, inbox, wire, m_linger, m_write_idx, m_iv>>
    PROVE  Answers'
  <1>t. Typed /\ Answers
    BY DEF HInv
  <1>1. Outstanding' = Outstanding /\ Waiting' = Waiting
    BY DEF Outstanding, Waiting
  <1>2. Received'
    BY <1>t, SameReceived DEF Answers
  <1>3. Counted' /\ Stream'
    BY <1>t, <1>1 DEF Answers, Counted, Stream, BufferIsStream
  <1>4. Parsing' /\ Requested' /\ Responding' /\ Writing'
    BY <1>t DEF Answers, Parsing, Requested, Responding, Writing
  <1>5. QED
    BY <1>2, <1>3, <1>4 DEF Answers

(* There is an end of the line the parser is at. *)
LEMMA LineHasEnd ==
    ASSUME Plain, Typed, Counted, Parsing, pc = "process"
    PROVE  \E e \in Nat :
              /\ m_start_line <= e /\ Message(Last(asked))[e + 1] \in {CR, LF}
              /\ Message(Last(asked))[e + 1] = CR \/ e = 1
              /\ \A i \in m_start_line..e - 1 : Message(Last(asked))[i + 1] \notin {CR, LF}
  <1>1. PICK r, m : r = Last(asked) /\ m = Message(r)
    OBVIOUS
  <1>2. r \in Requests
    BY <1>1, WaitingFacts DEF Counted
  <1>3. r.body = 0 /\ Len(r.headers) \in Nat
    BY <1>2, RequestFacts DEF Plain
  <1>4. PICK h \in Nat : h = Len(r.headers)
    BY <1>3
  <1>5. CASE m_check_state = "requestline"
    <2>1. m_start_line = 0
      BY <1>5 DEF Parsing
    <2>2. /\ m[1] = <<"request", r>>
          /\ r.line = "bare LF" => m[2] = LF
          /\ r.line # "bare LF" => m[2] = CR
      BY <1>1, <1>2, <1>3, MessageShape
    <2>3. m[1] \notin {CR, LF}
      <3>1. PICK req : req = <<"request", r>>
        OBVIOUS
      <3>2. m[1] = req
        BY <2>2, <3>1
      <3>3. req[1] = "request"
        BY <3>1
      <3>4. req # CR /\ req # LF
        BY <3>3, CharacterFacts
      <3>5. QED
        BY <3>2, <3>4
    <2>4. m[2] \in {CR, LF}
      BY <2>2
    <2>5. PICK e \in Nat : e = 1
      OBVIOUS
    <2>6. m[e + 1] \in {CR, LF} /\ m_start_line <= e
      BY <2>1, <2>4, <2>5
    <2>7. \A i \in m_start_line..e - 1 : m[i + 1] \notin {CR, LF}
      BY <2>1, <2>3, <2>5
    <2>8. QED
      BY <1>1, <2>5, <2>6, <2>7
  <1>6. CASE m_check_state # "requestline"
    <2>1. /\ r.line = "good"
          /\ \E k \in 1..Len(r.headers) + 1 : m_start_line = 3 * k
      BY <1>1, <1>6 DEF Parsing
    <2>2. PICK k \in 1..h + 1 : m_start_line = 3 * k
      BY <1>4, <2>1
    <2>3. /\ \A j \in 1..h : /\ m[3 * j + 1] = <<"header", r.headers[j], 0>>
                             /\ m[3 * j + 2] = CR
          /\ m[3 * h + 4] = CR
      <3>1. r.line # "bare LF"
        BY <2>1
      <3>2. GoodLayout(Message(r), r, Len(r.headers))
        BY <1>2, <1>3, <3>1, GoodMessage
      <3>3. GoodLayout(m, r, h)
        BY <1>1, <1>4, <3>2, Zenon
      <3>4. QED
        BY <3>3 DEF GoodLayout
    <2>4. CASE k \in 1..h
      <3>1. PICK e \in Nat : e = 3 * k + 1
        BY <1>4
      <3>2. m_start_line <= e /\ e + 1 = 3 * k + 2
        BY <2>2, <2>4, <3>1
      <3>3. m[e + 1] = CR /\ m[e + 1] \in {CR, LF}
        BY <2>3, <2>4, <3>2
      <3>4. m[3 * k + 1] \notin {CR, LF}
        BY <2>3, <2>4 DEF CR, LF
      <3>5. \A i \in m_start_line..e - 1 : i + 1 = 3 * k + 1
        BY <2>2, <2>4, <3>1
      <3>6. \A i \in m_start_line..e - 1 : m[i + 1] \notin {CR, LF}
        BY <3>4, <3>5
      <3>7. QED
        BY <1>1, <3>2, <3>3, <3>6
    <2>5. CASE k = h + 1
      <3>1. PICK e \in Nat : e = 3 * h + 3
        BY <1>4
      <3>2. m_start_line = e /\ e + 1 = 3 * h + 4
        BY <1>4, <2>2, <2>5, <3>1
      <3>3. m_start_line <= e /\ m[e + 1] = CR /\ m[e + 1] \in {CR, LF}
        BY <2>3, <3>2
      <3>4. \A i \in m_start_line..e - 1 : m[i + 1] \notin {CR, LF}
        BY <3>2
      <3>5. QED
        BY <1>1, <3>3, <3>4
    <2>6. QED
      BY <1>4, <2>2, <2>4, <2>5
  <1>7. QED
    BY <1>5, <1>6

LEMMA ParseTurnAnswers ==
    ASSUME Plain, HInv, ParseTurn
    PROVE  Answers'
  <1>t. Typed /\ Answers
    BY DEF HInv
  <1>1. /\ pc = "process" /\ pc' \in {"process", "do_request", "respond"}
        /\ UNCHANGED <<asked, answers, received, m_read_buf, inbox, wire>>
    <2>1. TurnGood(Last(asked)) \/ TurnBad(Last(asked))
      BY <1>t, TurnFacts, RequestLineTurn, HeaderTurn DEF Answers
    <2>2. QED
      BY <2>1 DEF ParseTurn, client, history, TurnGood, TurnBad
  <1>2. PICK r : r = Last(asked)
    OBVIOUS
  <1>3. TurnGood(r) \/ TurnBad(r)
    BY <1>t, <1>2, TurnFacts, RequestLineTurn, HeaderTurn DEF Answers
  <1>4. Waiting /\ r \in Requests /\ m_start_line' = m_checked_idx'
    BY <1>t, <1>2, TurnFacts DEF Answers
  <1>5. Outstanding' = Outstanding /\ Waiting' = Waiting /\ Last(asked)' = r
    BY <1>1, <1>2 DEF Outstanding, Waiting
  <1>6. Received'
    BY <1>t, <1>1, SameReceived DEF Answers
  <1>7. Counted'
    BY <1>t, <1>1, <1>4, <1>5 DEF Answers, Counted
  <1>8. Stream'
    BY <1>t, <1>1, <1>5 DEF Answers, Stream, BufferIsStream
  <1>9. Parsing'
    <2>1. CASE pc' = "process"
      <3>1. /\ r.line = "good" /\ m_url' = r.target /\ m_check_state' = "header"
            /\ m_content_length' = 0
            /\ \E k \in 1..Len(r.headers) + 1 : m_start_line' = 3 * k
        BY <1>3, <2>1 DEF TurnGood, TurnBad
      <3>2. m_checked_idx' \in Nat
        BY <1>t, <1>4, TurnFacts, ParseLineTypes DEF Answers
      <3>3. (m_start_line..m_checked_idx - 1)' = {}
        <4>1. PICK n \in Nat : n = m_checked_idx'
          BY <3>2
        <4>2. n..n - 1 = {}
          OBVIOUS
        <4>3. QED
          BY <1>4, <4>1, <4>2
      <3>4. \A i \in (m_start_line..m_checked_idx - 1)' : Char(i)' \notin {CR, LF}
        BY <3>3
      <3>5. Waiting'
        BY <1>4, <1>5
      <3>6. QED
        BY <1>5, <3>1, <3>4, <3>5 DEF Parsing
    <2>2. QED
      BY <1>1, <2>1 DEF Parsing
  <1>10. Requested'
    BY <1>1, <1>3, <1>5 DEF TurnGood, TurnBad, Requested
  <1>11. Responding'
    <2>1. CASE pc' = "respond"
      <3>1. r.line = "malformed" /\ ret' = "BAD_REQUEST" /\ m_linger' = FALSE
        BY <1>3, <2>1 DEF TurnGood, TurnBad
      <3>2. ret' = Answer(r)
        BY <1>4, <3>1, AnswerFacts
      <3>3. QED
        BY <1>5, <3>1, <3>2 DEF Responding
    <2>2. QED
      BY <2>1 DEF Responding
  <1>12. Writing'
    BY <1>1 DEF Writing
  <1>13. QED
    BY <1>6, <1>7, <1>8, <1>9, <1>10, <1>11, <1>12 DEF Answers

LEMMA ParseEndsAnswers ==
    ASSUME Plain, HInv, ParseEnds
    PROVE  Answers'
  <1>t. Typed /\ Answers
    BY DEF HInv
  <1>1. /\ pc = "process" /\ pc' = "in" /\ ParseLine.status # "ok"
        /\ m_checked_idx' = ParseLine.idx
        /\ UNCHANGED <<asked, answers, received, inbox, wire, m_read_buf, m_start_line,
                       m_check_state, m_url, m_content_length, m_linger>>
    BY DEF ParseEnds, client, history
  <1>2. Waiting
    BY <1>t, <1>1 DEF Answers, Counted
  <1>3. Outstanding' = Outstanding /\ Waiting' = Waiting
    BY <1>1 DEF Outstanding, Waiting
  <1>4. Received'
    BY <1>t, <1>1, SameReceived DEF Answers
  <1>5. Counted'
    BY <1>t, <1>1, <1>3 DEF Answers, Counted
  <1>6. Stream'
    BY <1>t, <1>1, <1>3 DEF Answers, Stream, BufferIsStream
  <1>7. \A i \in m_start_line..ParseLine.idx - 1 : Char(i) \notin {CR, LF}
    <2>1. PICK m : m = Message(Last(asked))
      OBVIOUS
    <2>2. PICK e \in Nat :
              /\ m_start_line <= e /\ m[e + 1] \in {CR, LF}
              /\ m[e + 1] = CR \/ e = 1
              /\ \A i \in m_start_line..e - 1 : m[i + 1] \notin {CR, LF}
      BY <1>t, <1>1, <2>1, LineHasEnd DEF Answers
    <2>3. Len(m_read_buf) <= Len(m) /\ \A i \in 1..Len(m_read_buf) : m_read_buf[i] = m[i]
      BY <1>t, <1>1, <1>2, <2>1, StreamFacts DEF Answers
    <2>4. \A i \in m_start_line..m_checked_idx - 1 : Char(i) \notin {CR, LF}
      BY <1>t, <1>1 DEF Answers, Parsing
    <2>5. QED
      BY <1>t, <1>1, <2>2, <2>3, <2>4, ParseLineFindsEnd
  <1>8. \A i \in (m_start_line..m_checked_idx - 1)' : Char(i)' \notin {CR, LF}
    BY <1>1, <1>7 DEF Char
  <1>9. Parsing'
    BY <1>t, <1>1, <1>3, <1>8 DEF Answers, Parsing
  <1>10. Requested' /\ Responding' /\ Writing'
    BY <1>1 DEF Requested, Responding, Writing
  <1>11. QED
    BY <1>4, <1>5, <1>6, <1>9, <1>10 DEF Answers

LEMMA DoRequestAnswers ==
    ASSUME Plain, HInv, DoRequest
    PROVE  Answers'
  <1>t. Typed /\ Answers
    BY DEF HInv
  <1>1. /\ pc = "do_request" /\ pc' = "respond"
        /\ ret' = CASE m_url = "absent" -> "NO_RESOURCE"
                    [] m_url = "forbidden" -> "FORBIDDEN_REQUEST"
                    [] m_url = "directory" -> "BAD_REQUEST"
                    [] OTHER -> "FILE_REQUEST"
        /\ m_url \in Files => m_file_size' = Size[m_url]
        /\ UNCHANGED <<asked, answers, received, inbox, wire, m_read_buf, m_url, m_linger>>
    BY DEF DoRequest, client, history, parser
  <1>2. Waiting
    BY <1>t, <1>1 DEF Answers, Counted
  <1>3. PICK r : r = Last(asked)
    OBVIOUS
  <1>4. r \in Requests /\ r.line = "good" /\ m_url = r.target /\ inbox = << >> /\ wire = << >>
    BY <1>t, <1>1, <1>2, <1>3, WaitingFacts DEF Answers, Requested
  <1>5. Outstanding' = Outstanding /\ Waiting' = Waiting /\ Last(asked)' = r
    BY <1>1, <1>3 DEF Outstanding, Waiting
  <1>6. Received'
    BY <1>t, <1>1, SameReceived DEF Answers
  <1>7. Counted'
    BY <1>t, <1>1, <1>2, <1>5 DEF Answers, Counted
  <1>8. Stream'
    BY <1>t, <1>1, <1>5 DEF Answers, Stream, BufferIsStream
  <1>9. Parsing' /\ Requested' /\ Writing'
    BY <1>1 DEF Parsing, Requested, Writing
  <1>10. ret' = Answer(r)
    BY <1>1, <1>4 DEF Answer
  <1>11. Responding'
    <2>1. ret' = "FILE_REQUEST" => m_url \in Files
      BY <1>4, <1>10, AnswerFacts
    <2>2. QED
      BY <1>1, <1>4, <1>5, <1>10, <2>1 DEF Responding
  <1>12. QED
    BY <1>6, <1>7, <1>8, <1>9, <1>11 DEF Answers

LEMMA ProcessWriteAnswers ==
    ASSUME Plain, HInv, ProcessWrite
    PROVE  Answers'
  <1>t. Typed /\ Answers
    BY DEF HInv
  <1>1. /\ pc = "respond" /\ pc' = "out"
        /\ m_iv' = Response(ret, m_url, Len(answers) + 1)
        /\ m_write_idx' = IF ret = "FILE_REQUEST" THEN HeaderLen ELSE HeaderLen + FormLen
        /\ answers' = Append(answers, ret)
        /\ UNCHANGED <<asked, received, inbox, wire, m_linger>>
    BY DEF ProcessWrite, client, parser
  <1>2. PICK n : n = Len(answers) + 1
    OBVIOUS
  <1>3. PICK r : r = asked[n]
    OBVIOUS
  <1>4. Waiting
    BY <1>t, <1>1 DEF Answers, Counted
  <1>5. /\ n \in Nat \ {0} /\ Len(asked) = n /\ Last(asked) = r /\ r \in Requests
        /\ Len(answers) \in Nat
    BY <1>t, <1>2, <1>3, <1>4, WaitingFacts DEF Answers
  <1>6. /\ ret = Answer(r)
        /\ m_linger => inbox = << >> /\ wire = << >>
        /\ ret = "FILE_REQUEST" => m_url = r.target
    BY <1>t, <1>1, <1>5 DEF Answers, Responding
  <1>7. ret \in Codes /\ answers \in Seq(Codes) /\ received \in Seq(Piece)
    BY <1>t DEF Typed, ThreadTyped, Answers, Counted, Received
  <1>8. answers' \in Seq(Codes) /\ Len(answers') = n
    BY <1>1, <1>2, <1>7
  <1>9. ~Waiting' /\ Outstanding' = << >>
    BY <1>1, <1>5, <1>8 DEF Waiting, Outstanding
  <1>10. Counted'
    <2>1. Len(answers') <= Len(asked') /\ Len(asked') <= Len(answers') + 1 /\ Len(answers') > 0
      BY <1>1, <1>5, <1>8
    <2>2. QED
      BY <1>1, <1>8, <2>1 DEF Counted
  <1>11. Received'
    <2>1. \A i \in DOMAIN received : received[i].to \in 1..Len(answers)
      BY <1>t DEF Answers, Received
    <2>2. \A i \in DOMAIN received : received[i].to \in 1..n
      BY <1>2, <1>5, <2>1
    <2>3. AnswersInOrder'
      BY <1>t, <1>1 DEF Answers, Received, AnswersInOrder
    <2>4. QED
      BY <1>1, <1>7, <1>8, <2>2, <2>3 DEF Received
  <1>12. Stream'
    <2>1. << >> \o << >> = << >>
      BY <1>7, EmptySeq, NothingJoined
    <2>2. m_linger' => inbox' \o wire' = Outstanding'
      BY <1>1, <1>6, <1>9, <2>1
    <2>3. QED
      BY <1>1, <2>2 DEF Stream, BufferIsStream
  <1>13. Parsing' /\ Requested' /\ Responding'
    BY <1>1 DEF Parsing, Requested, Responding
  <1>14. m_iv' = Response(Answer(r), r.target, n)
    <2>1. CASE ret = "FILE_REQUEST"
      BY <1>1, <1>2, <1>6, <2>1
    <2>2. CASE ret # "FILE_REQUEST"
      <3>1. Response(ret, m_url, n) = Response(ret, r.target, n)
        BY <2>2, ErrorShape
      <3>2. QED
        BY <1>1, <1>2, <1>6, <3>1
    <2>3. QED
      BY <2>1, <2>2
  <1>15. m_write_idx' <= Len(m_iv')
    <2>1. PICK l : l = Len(m_iv')
      OBVIOUS
    <2>2. l = HeaderLen + IF ret = "FILE_REQUEST" THEN Size[r.target] ELSE FormLen
      <3>1. /\ Answer(r) \in Codes /\ r.target \in Targets /\ n \in Nat
            /\ Answer(r) = "FILE_REQUEST" => r.target \in Files
        BY <1>5, AnswerFacts
      <3>2. Len(Response(Answer(r), r.target, n)) =
                HeaderLen + IF Answer(r) = "FILE_REQUEST" THEN Size[r.target] ELSE FormLen
        BY <3>1, ResponseShape
      <3>3. QED
        BY <1>6, <1>14, <2>1, <3>2
    <2>3. ret = "FILE_REQUEST" => Size[r.target] \in Nat
      BY <1>5, <1>6, AnswerFacts, Constants
    <2>4. HeaderLen \in Nat /\ FormLen \in Nat
      BY Constants
    <2>5. CASE ret = "FILE_REQUEST"
      BY <1>1, <2>1, <2>2, <2>3, <2>4, <2>5
    <2>6. CASE ret # "FILE_REQUEST"
      BY <1>1, <2>1, <2>2, <2>4, <2>6
    <2>7. QED
      BY <2>5, <2>6
  <1>16. Writing'
    <2>1. r = asked'[n]
      BY <1>1, <1>3
    <2>2. QED
      BY <1>8, <1>14, <1>15, <2>1 DEF Writing
  <1>17. QED
    BY <1>10, <1>11, <1>12, <1>13, <1>16 DEF Answers

(* What is being written, and what the client has of it. *)
LEMMA WritingFacts ==
    ASSUME Typed, Counted, Writing, pc \in {"out", "write"}
    PROVE  /\ Len(answers) \in 1..Len(asked) /\ asked[Len(answers)] \in Requests
           /\ m_iv \in Seq(Piece) /\ Len(m_iv) \in Nat \ {0} /\ m_write_idx <= Len(m_iv)
           /\ \A i \in 1..Len(m_iv) :
                 /\ m_iv[i].to = Len(answers)
                 /\ m_iv[i].code = Answer(asked[Len(answers)])
                 /\ m_iv[i].code = "FILE_REQUEST" =>
                       m_iv[i].file = asked[Len(answers)].target
  <1>1. PICK n : n = Len(answers)
    OBVIOUS
  <1>2. PICK r : r = asked[n]
    OBVIOUS
  <1>3. Len(asked) \in Nat /\ n \in Nat /\ n > 0 /\ n <= Len(asked)
    BY <1>1, WaitingFacts DEF Counted
  <1>4. n \in 1..Len(asked)
    BY <1>3
  <1>5. r \in Requests
    BY <1>2, <1>4, WaitingFacts
  <1>6. m_iv = Response(Answer(r), r.target, n) /\ m_write_idx <= Len(m_iv)
    BY <1>1, <1>2 DEF Writing
  <1>7. /\ Answer(r) \in Codes /\ r.target \in Targets
        /\ Answer(r) = "FILE_REQUEST" => r.target \in Files
    BY <1>5, AnswerFacts
  <1>8. /\ m_iv \in Seq(Piece) /\ Len(m_iv) \in Nat \ {0}
        /\ \A i \in 1..Len(m_iv) :
              /\ m_iv[i].to = n /\ m_iv[i].code = Answer(r)
              /\ Answer(r) = "FILE_REQUEST" => m_iv[i].file = r.target
    BY <1>3, <1>6, <1>7, ResponseShape
  <1>9. QED
    BY <1>1, <1>2, <1>4, <1>5, <1>6, <1>8

LEMMA WritevReceived ==
    ASSUME HInv, NEW k \in 1..Len(m_iv), Writev(k), UNCHANGED <<asked, answers>>
    PROVE  Received'
  <1>t. Typed /\ Answers
    BY DEF HInv
  <1>1. pc = "write" /\ received' = received \o SubSeq(m_iv, 1, k)
    BY DEF Writev
  <1>2. PICK n, r, s : n = Len(answers) /\ r = asked[n] /\ s = SubSeq(m_iv, 1, k)
    OBVIOUS
  <1>3. /\ n \in 1..Len(asked) /\ m_iv \in Seq(Piece)
        /\ \A i \in 1..Len(m_iv) :
              /\ m_iv[i].to = n /\ m_iv[i].code = Answer(r)
              /\ m_iv[i].code = "FILE_REQUEST" => m_iv[i].file = r.target
    BY <1>t, <1>1, <1>2, WritingFacts DEF Answers
  <1>4. /\ s \in Seq(Piece) /\ Len(s) = k
        /\ \A i \in 1..k : s[i] = m_iv[i]
    <2>1. k \in 0..Len(m_iv) /\ m_iv \in Seq(Piece)
      BY <1>3
    <2>2. QED
      BY <1>2, <2>1, Cut
  <1>5. \A i \in 1..k : /\ s[i].to = n /\ s[i].code = Answer(r)
                        /\ s[i].code = "FILE_REQUEST" => s[i].file = r.target
    <2>1. \A i \in 1..k : i \in 1..Len(m_iv)
      BY <1>3
    <2>2. QED
      BY <1>3, <1>4, <2>1
  <1>6. PICK l : l = Len(received)
    OBVIOUS
  <1>7. received \in Seq(Piece) /\ AnswersInOrder
        /\ \A i \in DOMAIN received : received[i].to \in 1..n
    BY <1>t, <1>2 DEF Answers, Received
  <1>8. received \in Seq(Piece) /\ l \in Nat /\ DOMAIN received = 1..l
    BY <1>6, <1>7
  <1>9. PICK w : w = received'
    OBVIOUS
  <1>10. w = received \o s
    BY <1>1, <1>2, <1>9
  <1>11. /\ w \in Seq(Piece) /\ Len(w) = l + k
         /\ \A i \in 1..l : w[i] = received[i]
         /\ \A i \in 1..l + k : i \in 1..l \/ (i - l \in 1..k /\ w[i] = s[i - l])
    <2>1. received \in Seq(Piece) /\ s \in Seq(Piece)
      BY <1>4, <1>8
    <2>2. /\ received \o s \in Seq(Piece) /\ Len(received \o s) = Len(received) + Len(s)
          /\ \A i \in 1..Len(received) : (received \o s)[i] = received[i]
          /\ \A i \in 1..Len(received) + Len(s) :
                \/ i \in 1..Len(received)
                \/ /\ i - Len(received) \in 1..Len(s)
                   /\ (received \o s)[i] = s[i - Len(received)]
      BY <2>1, Joined
    <2>3. QED
      BY <1>4, <1>6, <1>10, <2>2
  <1>12. DOMAIN w = 1..l + k
    BY <1>11
  <1>13. asked \in Seq(Requests) /\ DOMAIN asked = 1..Len(asked)
    BY <1>t DEF Typed, ClientTyped
  <1>14. ASSUME NEW i \in 1..l + k
         PROVE  /\ w[i].to \in 1..n /\ w[i].to \in DOMAIN asked
                /\ w[i].code = Answer(asked[w[i].to])
                /\ w[i].code = "FILE_REQUEST" => w[i].file = asked[w[i].to].target
                /\ i \notin 1..l => w[i].to = n
    <2>1. CASE i \in 1..l
      <3>1. w[i] = received[i] /\ i \in DOMAIN received
        BY <1>8, <1>11, <2>1
      <3>2. /\ received[i].to \in DOMAIN asked
            /\ received[i].code = Answer(asked[received[i].to])
            /\ received[i].code = "FILE_REQUEST" =>
                  received[i].file = asked[received[i].to].target
        BY <1>7, <3>1 DEF AnswersInOrder
      <3>3. QED
        BY <1>7, <2>1, <3>1, <3>2
    <2>2. CASE i \notin 1..l
      <3>1. PICK j \in 1..k : w[i] = s[j]
        BY <1>11, <2>2
      <3>2. /\ w[i].to = n /\ w[i].code = Answer(r)
            /\ w[i].code = "FILE_REQUEST" => w[i].file = r.target
        BY <1>5, <3>1
      <3>3. n \in 1..n /\ n \in DOMAIN asked
        BY <1>3, <1>13
      <3>4. QED
        BY <1>2, <3>2, <3>3
    <2>3. QED
      BY <2>1, <2>2
  <1>15. ASSUME NEW i \in 1..l + k, NEW j \in 1..l + k, i < j PROVE w[i].to <= w[j].to
    <2>1. CASE j \in 1..l
      <3>1. i \in 1..l /\ w[i] = received[i] /\ w[j] = received[j]
        BY <1>8, <1>11, <1>15, <2>1
      <3>2. i \in DOMAIN received /\ j \in DOMAIN received
        BY <1>8, <2>1, <3>1
      <3>3. received[i].to <= received[j].to
        BY <1>7, <1>15, <3>2 DEF AnswersInOrder
      <3>4. QED
        BY <3>1, <3>3
    <2>2. CASE j \notin 1..l
      <3>1. w[j].to = n /\ w[i].to \in 1..n
        BY <1>14, <2>2
      <3>2. QED
        BY <1>3, <3>1
    <2>3. QED
      BY <2>1, <2>2
  <1>16. AnswersInOrder'
    <2>1. \A i \in DOMAIN w :
              LET to == w[i].to IN
              /\ to \in DOMAIN asked
              /\ w[i].code = Answer(asked[to])
              /\ w[i].code = "FILE_REQUEST" => w[i].file = asked[to].target
      BY <1>12, <1>14
    <2>2. \A i, j \in DOMAIN w : i < j => w[i].to <= w[j].to
      BY <1>12, <1>15
    <2>3. QED
      BY <1>9, <2>1, <2>2 DEF AnswersInOrder
  <1>17. \A i \in DOMAIN w : w[i].to \in 1..n
    BY <1>12, <1>14
  <1>18. QED
    BY <1>2, <1>9, <1>11, <1>16, <1>17 DEF Received

LEMMA WriteMoreAnswers ==
    ASSUME HInv, NEW k \in 1..Len(m_iv), WriteMore(k)
    PROVE  Answers'
  <1>t. Typed /\ Answers
    BY DEF HInv
  <1>1. /\ pc = "write" /\ Writev(k)
        /\ UNCHANGED <<pc, asked, answers, inbox, wire, m_linger, m_write_idx, m_iv>>
    BY DEF WriteMore, Writev, parser, writer
  <1>2. Received'
    BY <1>1, WritevReceived
  <1>3. Outstanding' = Outstanding /\ Waiting' = Waiting
    BY <1>1 DEF Outstanding, Waiting
  <1>4. Counted' /\ Stream'
    BY <1>t, <1>1, <1>3 DEF Answers, Counted, Stream, BufferIsStream
  <1>5. Parsing' /\ Requested' /\ Responding' /\ Writing'
    BY <1>t, <1>1 DEF Answers, Parsing, Requested, Responding, Writing
  <1>6. QED
    BY <1>2, <1>4, <1>5 DEF Answers

LEMMA WriteDoneAnswers ==
    ASSUME HInv, NEW k \in 1..Len(m_iv), WriteDone(k)
    PROVE  Answers'
  <1>t. Typed /\ Answers
    BY DEF HInv
  <1>1. /\ pc = "write" /\ Writev(k) /\ UNCHANGED <<asked, answers, inbox, wire>>
        /\ IF m_linger THEN InitObject /\ pc' = "in" ELSE pc' = "closed"
    BY DEF WriteDone, Writev
  <1>2. Received'
    BY <1>1, WritevReceived
  <1>3. CASE ~m_linger
    BY <1>1, <1>2, <1>3, ClosedAnswers
  <1>4. CASE m_linger
    <2>1. pc' = "in" /\ InitObject
      BY <1>1, <1>4
    <2>2. /\ m_read_buf' = << >> /\ m_checked_idx' = 0 /\ m_start_line' = 0
          /\ m_check_state' = "requestline" /\ m_content_length' = 0 /\ m_linger' = FALSE
      BY <2>1, TypedObject
    <2>3. Outstanding' = Outstanding /\ Waiting' = Waiting
      BY <1>1 DEF Outstanding, Waiting
    <2>4. Counted'
      BY <1>t, <1>1, <2>1, <2>3 DEF Answers, Counted
    <2>5. Stream'
      <3>1. inbox \o wire = Outstanding
        BY <1>t, <1>1, <1>4 DEF Answers, Stream
      <3>2. inbox \in Seq(Characters) /\ wire \in Seq(Characters)
        BY <1>t DEF Typed, ClientTyped
      <3>3. << >> \o inbox = inbox
        BY <3>2, NothingJoined
      <3>4. m_read_buf' \o inbox' \o wire' = Outstanding'
        BY <1>1, <2>2, <2>3, <3>1, <3>3
      <3>5. BufferIsStream'
        BY <3>4 DEF BufferIsStream, Outstanding, Waiting
      <3>6. QED
        BY <2>1, <3>5 DEF Stream
    <2>6. Parsing'
      BY <2>2 DEF Parsing
    <2>7. Requested' /\ Responding' /\ Writing'
      BY <2>1 DEF Requested, Responding, Writing
    <2>8. QED
      BY <1>2, <2>4, <2>5, <2>6, <2>7 DEF Answers
  <1>5. QED
    BY <1>3, <1>4

LEMMA AnswersInit == Init => Answers
  <1> SUFFICES ASSUME Init PROVE Answers
    OBVIOUS
  <1>1. /\ pc = "closed" /\ asked = << >> /\ answers = << >> /\ received = << >>
    BY DEF Init
  <1>2. Counted
    BY <1>1 DEF Counted
  <1>3. Received
    BY <1>1 DEF Received, AnswersInOrder
  <1>4. Stream /\ Parsing /\ Requested /\ Responding /\ Writing
    BY <1>1 DEF Stream, BufferIsStream, Parsing, Requested, Responding, Writing
  <1>5. QED
    BY <1>2, <1>3, <1>4 DEF Answers

LEMMA HInvStep ==
    ASSUME Plain, HInv, [Next]_vars
    PROVE  HInv'
  <1>t. Typed'
    BY TypedStep DEF HInv
  <1>s. SUFFICES Answers'
    BY <1>t DEF HInv
  <1>1. CASE Accept
    BY <1>1, AcceptAnswers
  <1>2. CASE HangUp
    BY <1>2, SameAnswers DEF HangUp, parser, writer, mapping, locals, history
  <1>3. ASSUME NEW r \in Requests, Ask(r) PROVE Answers'
    BY <1>3, AskAnswers
  <1>4. ASSUME NEW n \in 1..Len(wire), Deliver(n) PROVE Answers'
    BY <1>4, DeliverAnswers
  <1>5. CASE OnReadable
    BY <1>5, OnReadableAnswers
  <1>6. CASE OnReadFails \/ OnHangUp
    <2>1. pc' = "closed" /\ UNCHANGED <<asked, answers, received>>
      BY <1>6 DEF OnReadFails, OnHangUp, client, history
    <2>2. Received'
      BY <2>1, SameReceived DEF HInv, Answers
    <2>3. QED
      BY <2>1, <2>2, ClosedAnswers
  <1>7. CASE ParseTurn
    BY <1>7, ParseTurnAnswers
  <1>8. CASE ParseEnds
    BY <1>8, ParseEndsAnswers
  <1>9. CASE DoRequest
    BY <1>9, DoRequestAnswers
  <1>10. CASE ProcessWrite
    BY <1>10, ProcessWriteAnswers
  <1>11. CASE ProcessWriteFails \/ WriteFails
    <2>1. pc' = "closed" /\ UNCHANGED <<asked, answers, received>>
      BY <1>11 DEF ProcessWriteFails, WriteFails, client, history
    <2>2. Received'
      BY <2>1, SameReceived DEF HInv, Answers
    <2>3. QED
      BY <2>1, <2>2, ClosedAnswers
  <1>12. CASE OnWritable \/ WriteAgain
    BY <1>12, WriteBegins DEF OnWritable, WriteAgain, client, parser, writer, history
  <1>13. ASSUME NEW k \in 1..Len(m_iv), WriteMore(k) PROVE Answers'
    BY <1>13, WriteMoreAnswers
  <1>14. ASSUME NEW k \in 1..Len(m_iv), WriteDone(k) PROVE Answers'
    BY <1>14, WriteDoneAnswers
  <1>15. CASE UNCHANGED vars
    BY <1>15, SameAnswers DEF vars, client, parser, writer, mapping, locals, history
  <1>16. QED
    BY <1>1, <1>2, <1>3, <1>4, <1>5, <1>6, <1>7, <1>8, <1>9, <1>10, <1>11, <1>12, <1>13,
       <1>14, <1>15 DEF Next, Arrival, ServerStep

(* For clients that wait for their answers and send no bodies: wherever the
   characters of a request were split, each answer is the one its request asked
   for, and they come in the order of the requests. *)
THEOREM HttpConnAnswers == ASSUME Plain PROVE Spec => []AnswersInOrder
  <1>1. Init => HInv
    BY TypedInit, AnswersInit DEF HInv
  <1>2. HInv /\ [Next]_vars => HInv'
    BY HInvStep
  <1>3. HInv => AnswersInOrder
    BY DEF HInv, Answers, Received
  <1>4. QED
    BY <1>1, <1>2, <1>3, PTL DEF Spec

(* Nothing of a request is lost between such a client and the parser, and
   nothing else is in the buffer. *)
THEOREM HttpConnStream == ASSUME Plain PROVE Spec => []BufferIsStream
  <1>1. Init => HInv
    BY TypedInit, AnswersInit DEF HInv
  <1>2. HInv /\ [Next]_vars => HInv'
    BY HInvStep
  <1>3. HInv => BufferIsStream
    BY DEF HInv, Answers, Stream
  <1>4. QED
    BY <1>1, <1>2, <1>3, PTL DEF Spec

-------------------------------------------------------------------------------
(* Whole responses. *)

(* Unmap undoes the mapping of the first connection. *)
LEMMA MappedStep ==
    ASSUME Typed, Mapped, [Next]_vars
    PROVE  Mapped'
  <1>t. conns \in Nat
    <2>1. conns \in 0..MaxConns
      BY DEF Typed, ClientTyped
    <2>2. QED
      BY <2>1, Constants
  <1>1. CASE Accept
    <2>1. conns' = conns + 1 /\ pc' = "in" /\ UNCHANGED mapped
      BY <1>1 DEF Accept, mapping
    <2>2. conns' # 0 /\ (conns' = 1 => conns = 0)
      BY <1>t, <2>1
    <2>3. QED
      BY <2>1, <2>2 DEF Mapped
  <1>2. ASSUME pc # "closed", UNCHANGED <<conns, mapped, m_file_address, m_file_size>>,
               pc' = "in" => pc \in {"in", "process"},
               pc' \in {"process", "do_request"} => pc \in {"in", "process", "do_request"}
        PROVE  Mapped'
    <2>1. pc \in {"in", "process", "do_request", "respond", "out", "write"}
      BY <1>2 DEF Typed, ThreadTyped
    <2>2. conns # 0
      BY <1>2 DEF Mapped
    <2>3. CASE pc \in {"in", "process", "do_request"}
      BY <1>2, <2>2, <2>3 DEF Mapped
    <2>4. CASE pc \in {"respond", "out", "write"}
      <3>1. pc' \notin {"in", "process", "do_request"}
        BY <1>2, <2>4
      <3>2. QED
        BY <1>2, <2>2, <2>4, <3>1 DEF Mapped
    <2>5. QED
      BY <2>1, <2>3, <2>4
  <1>3. CASE \/ HangUp \/ Arrival \/ OnReadable \/ ParseTurn \/ ParseEnds
             \/ \E r \in Requests : Ask(r)
    <2>1. pc # "closed" /\ UNCHANGED <<conns, mapped, m_file_address, m_file_size>>
      BY <1>3 DEF HangUp, Arrival, Deliver, OnReadable, ParseTurn, ParseEnds, Ask, client, mapping
    <2>2. /\ pc' = "in" => pc \in {"in", "process"}
          /\ pc' \in {"process", "do_request"} => pc \in {"in", "process", "do_request"}
      BY <1>3 DEF HangUp, Arrival, Deliver, OnReadable, ParseTurn, ParseEnds, Ask
    <2>3. QED
      BY <1>2, <2>1, <2>2
  <1>4. CASE DoRequest
    <2>1. pc = "do_request" /\ pc' = "respond" /\ UNCHANGED conns
      BY <1>4 DEF DoRequest, client
    <2>2. conns # 0
      BY <2>1 DEF Mapped
    <2>3. ASSUME conns = 1 PROVE mapped' \subseteq {m_file_address'} \X (1..m_file_size')
      <3>1. mapped = {}
        BY <2>1, <2>3 DEF Mapped
      <3>2. CASE m_url \in Files
        <4>1. /\ m_file_size' = Size[m_url] /\ mapped' = {NewBase} \X (1..Size[m_url])
              /\ m_file_address' = IF Size[m_url] = 0 THEN Failed ELSE NewBase
          BY <1>4, <3>1, <3>2 DEF DoRequest
        <4>2. CASE Size[m_url] = 0
          <5>1. mapped' = {}
            BY <4>1, <4>2
          <5>2. QED
            BY <5>1
        <4>3. CASE Size[m_url] # 0
          BY <4>1, <4>3
        <4>4. QED
          BY <4>2, <4>3
      <3>3. CASE m_url \notin Files
        BY <1>4, <3>1, <3>3 DEF DoRequest
      <3>4. QED
        BY <3>2, <3>3
    <2>4. QED
      BY <2>1, <2>2, <2>3 DEF Mapped
  <1>5. CASE ProcessWrite \/ OnWritable \/ WriteAgain \/ \E k \in 1..Len(m_iv) : WriteMore(k)
    <2>1. /\ pc \in {"respond", "out", "write"} /\ pc' \in {"respond", "out", "write"}
          /\ UNCHANGED <<conns, mapped, m_file_address, m_file_size>>
      BY <1>5 DEF ProcessWrite, OnWritable, WriteAgain, WriteMore, Writev, client, mapping
    <2>2. QED
      BY <1>2, <2>1
  <1>6. CASE OnReadFails \/ OnHangUp \/ ProcessWriteFails \/ WriteFails
    <2>1. pc # "closed" /\ pc' = "closed" /\ UNCHANGED conns
      BY <1>6 DEF OnReadFails, OnHangUp, ProcessWriteFails, WriteFails, client
    <2>2. QED
      BY <2>1 DEF Mapped
  <1>7. ASSUME NEW k \in 1..Len(m_iv), WriteDone(k) PROVE Mapped'
    <2>1. /\ pc = "write" /\ pc' \in {"in", "closed"} /\ UNCHANGED conns
          /\ mapped' = mapped \ ({m_file_address} \X (1..m_file_size))
      BY <1>7 DEF WriteDone, Writev, Unmap
    <2>2. conns # 0
      BY <2>1 DEF Mapped
    <2>3. conns = 1 => mapped \subseteq {m_file_address} \X (1..m_file_size)
      BY <2>1 DEF Mapped
    <2>4. conns = 1 => mapped' = {}
      BY <2>1, <2>3
    <2>5. QED
      BY <2>1, <2>2, <2>4 DEF Mapped
  <1>8. CASE UNCHANGED vars
    BY <1>8 DEF Mapped, vars, client, mapping
  <1>9. QED
    BY <1>1, <1>3, <1>4, <1>5, <1>6, <1>7, <1>8 DEF Next, ServerStep

(* A response that the client has whole stays so. *)
LEMMA SameWhole ==
    ASSUME NEW m, Whole(m), UNCHANGED received, asked'[m] = asked[m]
    PROVE  Whole(m)'
  BY DEF Whole

(* Nothing is written of a response. *)
LEMMA SameDelivered ==
    ASSUME Delivered, pc # "closed", UNCHANGED <<received, answers, shorts>>,
           \A m \in 1..Len(answers) : asked'[m] = asked[m],
           pc' \in {"out", "write"} <=> pc \in {"out", "write"},
           pc' = "write" =>
               \/ pc = "write" /\ UNCHANGED <<bytes_have_send, bytes_to_send, m_write_idx>>
               \/ bytes_have_send' = 0 /\ bytes_to_send' = m_write_idx'
    PROVE  Delivered'
  <1> SUFFICES ASSUME pc' # "closed", shorts' = 0
               PROVE  /\ \A m \in 1..Len(answers') :
                             pc' \notin {"out", "write"} \/ m < Len(answers') => Whole(m)'
                      /\ pc' \in {"out", "write"} =>
                             \A i \in DOMAIN received' : received'[i].to < Len(answers')
                      /\ pc' = "write" => bytes_have_send' = 0 /\ bytes_to_send' = m_write_idx'
    BY DEF Delivered
  <1>1. /\ \A m \in 1..Len(answers) : pc \notin {"out", "write"} \/ m < Len(answers) => Whole(m)
        /\ pc \in {"out", "write"} => \A i \in DOMAIN received : received[i].to < Len(answers)
        /\ pc = "write" => bytes_have_send = 0 /\ bytes_to_send = m_write_idx
    BY DEF Delivered
  <1>2. ASSUME NEW m \in 1..Len(answers'), pc' \notin {"out", "write"} \/ m < Len(answers')
        PROVE  Whole(m)'
    <2>1. m \in 1..Len(answers) /\ Whole(m)
      BY <1>1, <1>2
    <2>2. QED
      BY <2>1, SameWhole
  <1>3. pc' \in {"out", "write"} => \A i \in DOMAIN received' : received'[i].to < Len(answers')
    BY <1>1
  <1>4. pc' = "write" => bytes_have_send' = 0 /\ bytes_to_send' = m_write_idx'
    BY <1>1
  <1>5. QED
    BY <1>2, <1>3, <1>4

(* A writev that takes all it is given leaves the client with the whole of one
   more response. *)
LEMMA WrittenWhole ==
    ASSUME HInv, Writev(Len(m_iv)), UNCHANGED <<asked, answers>>,
           \A i \in DOMAIN received : received[i].to < Len(answers)
    PROVE  /\ Whole(Len(answers))'
           /\ \A m \in 1..Len(answers) : m < Len(answers) /\ Whole(m) => Whole(m)'
  <1>t. Typed /\ Answers
    BY DEF HInv
  <1>1. pc = "write" /\ received' = received \o SubSeq(m_iv, 1, Len(m_iv))
    BY DEF Writev
  <1>2. PICK n, s : n = Len(answers) /\ s = m_iv
    OBVIOUS
  <1>3. /\ n \in 1..Len(asked) /\ s \in Seq(Piece) /\ Len(s) \in Nat \ {0}
        /\ \A i \in 1..Len(s) : s[i].to = n
    BY <1>t, <1>1, <1>2, WritingFacts DEF Answers
  <1>4. s = Response(Answer(asked[n]), asked[n].target, n)
    BY <1>t, <1>1, <1>2 DEF Answers, Writing
  <1>5. PICK l : l = Len(received)
    OBVIOUS
  <1>6. received \in Seq(Piece)
    BY <1>t DEF Answers, Received
  <1>7. l \in Nat /\ DOMAIN received = 1..l
    BY <1>5, <1>6
  <1>8. n \in Nat /\ \A i \in 1..l : received[i].to \in 1..n /\ received[i].to < n
    BY <1>t, <1>2, <1>7, WaitingFacts DEF Answers, Received
  <1>9. received' = received \o s
    <2>1. m_iv \in Seq(Piece)
      BY <1>2, <1>3
    <2>2. SubSeq(m_iv, 1, Len(m_iv)) = m_iv
      BY <2>1, SubSeqFull
    <2>3. QED
      BY <1>1, <1>2, <2>2
  <1>10. PICK w : w = received'
    OBVIOUS
  <1>11. PICK k : k = Len(s)
    OBVIOUS
  <1>12. /\ w \in Seq(Piece) /\ Len(w) = l + k
         /\ \A i \in 1..l : w[i] = received[i]
         /\ \A i \in 1..k : w[l + i] = s[i]
         /\ \A i \in 1..l + k : i \in 1..l \/ (i - l \in 1..k /\ w[i] = s[i - l])
    <2>1. received \in Seq(Piece) /\ s \in Seq(Piece)
      BY <1>3, <1>6
    <2>2. /\ received \o s \in Seq(Piece) /\ Len(received \o s) = Len(received) + Len(s)
          /\ \A i \in 1..Len(received) : (received \o s)[i] = received[i]
          /\ \A i \in 1..Len(s) : (received \o s)[Len(received) + i] = s[i]
          /\ \A i \in 1..Len(received) + Len(s) :
                \/ i \in 1..Len(received)
                \/ /\ i - Len(received) \in 1..Len(s)
                   /\ (received \o s)[i] = s[i - Len(received)]
      BY <2>1, Joined
    <2>3. QED
      BY <1>5, <1>9, <1>10, <1>11, <2>2
  <1>13. DOMAIN w = 1..l + k /\ k \in Nat
    BY <1>3, <1>11, <1>12
  <1>14. \A i \in 1..l + k : w[i].to = IF i \in 1..l THEN received[i].to ELSE n
    BY <1>3, <1>11, <1>12
  <1>15. Whole(n)'
    <2>1. {i \in DOMAIN w : w[i].to = n} = l + 1..l + k
      <3>1. \A i \in DOMAIN w : w[i].to = n <=> i \notin 1..l
        BY <1>8, <1>13, <1>14
      <3>2. {i \in DOMAIN w : i \notin 1..l} = l + 1..l + k
        BY <1>7, <1>13
      <3>3. QED
        BY <3>1, <3>2
    <2>2. l \in 0..Len(w)
      BY <1>7, <1>12, <1>13
    <2>3. DOMAIN s = 1..k
      BY <1>3, <1>11
    <2>4. \A i \in DOMAIN s : w[l + i] = s[i]
      BY <1>12, <2>3
    <2>5. asked'[n] = asked[n]
      OBVIOUS
    <2>6. s = Response(Answer(asked'[n]), asked'[n].target, n)
      BY <1>4, <2>5
    <2>7. QED
      BY <1>10, <1>11, <2>1, <2>2, <2>4, <2>6 DEF Whole
  <1>16. ASSUME NEW m \in 1..n, m < n, Whole(m) PROVE Whole(m)'
    <2>1. PICK response : response = Response(Answer(asked[m]), asked[m].target, m)
      OBVIOUS
    <2>2. PICK b \in 0..Len(received) :
              /\ {i \in DOMAIN received : received[i].to = m} = b + 1..b + Len(response)
              /\ \A i \in DOMAIN response : received[b + i] = response[i]
      BY <1>16, <2>1 DEF Whole
    <2>3. {i \in DOMAIN w : w[i].to = m} = {i \in DOMAIN received : received[i].to = m}
      <3>1. \A i \in DOMAIN w : w[i].to = m => i \in 1..l /\ received[i].to = m
        BY <1>8, <1>13, <1>14, <1>16
      <3>2. \A i \in 1..l : i \in DOMAIN w /\ w[i].to = received[i].to
        BY <1>7, <1>13, <1>14
      <3>3. QED
        BY <1>7, <3>1, <3>2
    <2>4. b \in 0..Len(w)
      BY <1>5, <1>7, <1>12, <1>13
    <2>5. /\ response = [i \in DOMAIN response |-> response[i]]
          /\ Len(response) \in Nat /\ DOMAIN response = 1..Len(response)
      <3>1. m \in 1..Len(asked) /\ m \in Nat
        BY <1>3, <1>8
      <3>2. asked[m] \in Requests
        BY <1>t, <3>1, WaitingFacts DEF Answers
      <3>3. /\ Answer(asked[m]) \in Codes /\ asked[m].target \in Targets
            /\ Answer(asked[m]) = "FILE_REQUEST" => asked[m].target \in Files
        BY <3>2, AnswerFacts
      <3>4. response \in Seq(Piece)
        BY <2>1, <3>1, <3>3, ResponseShape
      <3>5. QED
        BY <3>4
    <2>6. ASSUME NEW i \in DOMAIN response PROVE w[b + i] = response[i]
      <3>1. b \in Nat /\ i \in 1..Len(response)
        BY <1>5, <1>7, <2>5
      <3>2. b + i \in b + 1..b + Len(response)
        BY <2>5, <3>1
      <3>3. b + i \in DOMAIN received
        BY <2>2, <3>2
      <3>4. w[b + i] = received[b + i]
        BY <1>7, <1>12, <3>3
      <3>5. QED
        BY <2>2, <3>4
    <2>7. asked'[m] = asked[m]
      OBVIOUS
    <2>8. response = Response(Answer(asked'[m]), asked'[m].target, m)
      BY <2>1, <2>7
    <2>9. {i \in DOMAIN w : w[i].to = m} = b + 1..b + Len(response)
      BY <2>2, <2>3
    <2>10. QED
      BY <1>10, <2>4, <2>6, <2>8, <2>9 DEF Whole
  <1>17. QED
    BY <1>2, <1>15, <1>16

LEMMA DeliveredStep ==
    ASSUME Plain, HInv, Delivered, [Next]_vars
    PROVE  Delivered'
  <1>t. Typed /\ Answers
    BY DEF HInv
  <1>1. CASE Accept
    <2>1. answers' = << >> /\ pc' = "in"
      BY <1>1 DEF Accept
    <2>2. QED
      BY <2>1 DEF Delivered
  <1>2. CASE HangUp \/ Arrival \/ OnReadable \/ ParseTurn \/ ParseEnds \/ DoRequest
    <2>1. /\ pc # "closed" /\ UNCHANGED <<received, asked, answers, shorts>>
          /\ UNCHANGED <<bytes_have_send, bytes_to_send, m_write_idx>>
      BY <1>2 DEF HangUp, Arrival, Deliver, OnReadable, ParseTurn, ParseEnds, DoRequest,
                  client, history, locals, writer
    <2>2. /\ pc' \in {"out", "write"} <=> pc \in {"out", "write"}
          /\ pc' = "write" => pc = "write"
      <3>1. CASE ParseTurn
        <4>1. pc = "process"
          BY <3>1 DEF ParseTurn
        <4>2. pc' \in {"process", "do_request", "respond"}
          BY <1>t, <3>1, TurnFacts, RequestLineTurn, HeaderTurn DEF Answers, TurnGood, TurnBad
        <4>3. QED
          BY <4>1, <4>2
      <3>2. CASE HangUp \/ Arrival \/ OnReadable \/ ParseEnds \/ DoRequest
        BY <3>2 DEF HangUp, Arrival, Deliver, OnReadable, ParseEnds, DoRequest
      <3>3. QED
        BY <1>2, <3>1, <3>2
    <2>3. \A m \in 1..Len(answers) : asked'[m] = asked[m]
      BY <2>1
    <2>4. QED
      BY <2>1, <2>2, <2>3, SameDelivered
  <1>3. ASSUME NEW r \in Requests, Ask(r) PROVE Delivered'
    <2>1. /\ pc # "closed" /\ UNCHANGED <<pc, received, answers, shorts>>
          /\ UNCHANGED <<bytes_have_send, bytes_to_send, m_write_idx>>
          /\ asked' = Append(asked, r)
      BY <1>3 DEF Ask, history, locals, writer
    <2>2. asked \in Seq(Requests) /\ Len(answers) \in Nat /\ Len(answers) <= Len(asked)
      BY <1>t, WaitingFacts DEF Typed, ClientTyped, Answers, Counted
    <2>3. \A m \in 1..Len(answers) : asked'[m] = asked[m]
      BY <2>1, <2>2
    <2>4. QED
      BY <2>1, <2>3, SameDelivered
  <1>4. CASE OnWritable \/ WriteAgain
    <2>1. /\ pc # "closed" /\ UNCHANGED <<received, asked, answers, shorts>>
          /\ pc \in {"out", "write"} /\ pc' \in {"out", "write"}
          /\ pc' = "write" => bytes_have_send' = 0 /\ bytes_to_send' = m_write_idx'
      BY <1>4 DEF OnWritable, WriteAgain, client, history, writer
    <2>2. \A m \in 1..Len(answers) : asked'[m] = asked[m]
      BY <2>1
    <2>3. QED
      BY <2>1, <2>2, SameDelivered
  <1>5. CASE ProcessWrite
    <2>1. /\ pc = "respond" /\ pc' = "out" /\ answers' = Append(answers, ret)
          /\ UNCHANGED <<asked, received, shorts>>
      BY <1>5 DEF ProcessWrite, client
    <2>2. PICK n \in Nat : n = Len(answers)
      BY <1>t, WaitingFacts DEF Answers
    <2>3. Len(answers') = n + 1
      <3>1. answers \in Seq(Codes) /\ ret \in Codes
        BY <1>t DEF Typed, ThreadTyped, Answers, Counted
      <3>2. QED
        BY <2>1, <2>2, <3>1
    <2>4. ASSUME shorts' = 0, NEW m \in 1..n + 1, m < n + 1 PROVE Whole(m)'
      <3>1. m \in 1..n
        BY <2>4
      <3>2. Whole(m)
        BY <2>1, <2>2, <2>4, <3>1 DEF Delivered
      <3>3. asked'[m] = asked[m]
        BY <2>1
      <3>4. QED
        BY <2>1, <3>2, <3>3, SameWhole
    <2>5. \A i \in DOMAIN received : received[i].to \in 1..n
      BY <1>t, <2>2 DEF Answers, Received
    <2>6. \A i \in DOMAIN received' : received'[i].to < n + 1
      BY <2>1, <2>5
    <2>7. QED
      BY <2>1, <2>3, <2>4, <2>6 DEF Delivered
  <1>6. CASE OnReadFails \/ OnHangUp \/ ProcessWriteFails \/ WriteFails
    <2>1. pc' = "closed"
      BY <1>6 DEF OnReadFails, OnHangUp, ProcessWriteFails, WriteFails
    <2>2. QED
      BY <2>1 DEF Delivered
  <1>7. ASSUME NEW k \in 1..Len(m_iv), Writev(k), shorts' = 0
        PROVE  shorts = 0 /\ k = Len(m_iv)
    <2>1. pc = "write" /\ shorts' = IF k < Len(m_iv) THEN shorts + 1 ELSE shorts
      BY <1>7 DEF Writev
    <2>2. shorts \in Nat
      <3>1. shorts \in 0..MaxShorts
        BY <1>t DEF Typed, WriterTyped
      <3>2. QED
        BY <3>1, Constants
    <2>3. Len(m_iv) \in Nat
      BY <1>t, <2>1, WritingFacts DEF Answers
    <2>4. QED
      BY <1>7, <2>1, <2>2, <2>3
  <1>8. ASSUME NEW k \in 1..Len(m_iv), WriteMore(k) PROVE Delivered'
    <2>1. SUFFICES ASSUME shorts' = 0 PROVE FALSE
      BY DEF Delivered
    <2>2. /\ Writev(k) /\ pc = "write" /\ bytes_to_send' = bytes_to_send - k
          /\ bytes_have_send' = bytes_have_send + k /\ bytes_to_send' > bytes_have_send'
      BY <1>8 DEF WriteMore, Writev
    <2>3. shorts = 0 /\ k = Len(m_iv)
      BY <1>7, <2>1, <2>2
    <2>4. bytes_have_send = 0 /\ bytes_to_send = m_write_idx
      BY <2>2, <2>3 DEF Delivered
    <2>5. m_write_idx \in Nat /\ Len(m_iv) \in Nat \ {0} /\ m_write_idx <= Len(m_iv)
      BY <1>t, <2>2, WritingFacts DEF Answers, Typed, WriterTyped
    <2>6. QED
      BY <2>2, <2>3, <2>4, <2>5
  <1>9. ASSUME NEW k \in 1..Len(m_iv), WriteDone(k) PROVE Delivered'
    <2>1. SUFFICES ASSUME shorts' = 0 PROVE Delivered'
      BY DEF Delivered
    <2>2. /\ Writev(k) /\ pc = "write" /\ pc' \in {"in", "closed"}
          /\ UNCHANGED <<asked, answers>>
      BY <1>9 DEF WriteDone, Writev
    <2>3. shorts = 0 /\ k = Len(m_iv)
      BY <1>7, <2>1, <2>2
    <2>4. /\ \A i \in DOMAIN received : received[i].to < Len(answers)
          /\ \A m \in 1..Len(answers) : m < Len(answers) => Whole(m)
      BY <2>2, <2>3 DEF Delivered
    <2>5. PICK n \in Nat : n = Len(answers)
      BY <1>t, WaitingFacts DEF Answers
    <2>6. Writev(Len(m_iv))
      BY <2>2, <2>3
    <2>7. /\ Whole(Len(answers))'
          /\ \A m \in 1..Len(answers) : m < Len(answers) /\ Whole(m) => Whole(m)'
      BY <2>2, <2>4, <2>6, WrittenWhole
    <2>8. ASSUME NEW m \in 1..n PROVE Whole(m)'
      <3>1. CASE m = n
        <4>1. Len(answers)' = m
          BY <2>2, <2>5, <3>1
        <4>2. QED
          BY <2>7, <4>1 DEF Whole
      <3>2. CASE m < n
        BY <2>4, <2>5, <2>7, <3>2
      <3>3. QED
        BY <3>1, <3>2
    <2>9. QED
      BY <2>2, <2>5, <2>8 DEF Delivered
  <1>10. CASE UNCHANGED vars
    <2>1. CASE pc = "closed"
      BY <1>10, <2>1 DEF Delivered, vars
    <2>2. CASE pc # "closed"
      <3>1. /\ UNCHANGED <<pc, received, asked, answers, shorts>>
            /\ UNCHANGED <<bytes_have_send, bytes_to_send, m_write_idx>>
        BY <1>10 DEF vars, client, history, locals, writer
      <3>2. \A m \in 1..Len(answers) : asked'[m] = asked[m]
        BY <3>1
      <3>3. QED
        BY <2>2, <3>1, <3>2, SameDelivered
    <2>3. QED
      BY <2>1, <2>2
  <1>11. QED
    BY <1>1, <1>2, <1>3, <1>4, <1>5, <1>6, <1>8, <1>9, <1>10 DEF Next, ServerStep

(* A client whose responses have all been written at once has received the
   whole of each, once, when it is read again; if it is the first its object has
   had, no file is mapped any more. *)
THEOREM HttpConnWhole == ASSUME Plain PROVE Spec => []WholeUnlessShort
  <1> DEFINE DInv == HInv /\ Mapped /\ Delivered
  <1>1. Init => DInv
    <2> SUFFICES ASSUME Init PROVE DInv
      OBVIOUS
    <2>1. HInv
      BY TypedInit, AnswersInit DEF HInv
    <2>2. Mapped /\ Delivered
      BY DEF Init, Mapped, Delivered
    <2>3. QED
      BY <2>1, <2>2
  <1>2. DInv /\ [Next]_vars => DInv'
    <2> SUFFICES ASSUME DInv, [Next]_vars PROVE DInv'
      OBVIOUS
    <2>1. HInv'
      BY HInvStep
    <2>2. Mapped'
      BY MappedStep DEF HInv
    <2>3. Delivered'
      BY DeliveredStep
    <2>4. QED
      BY <2>1, <2>2, <2>3
  <1>3. DInv => WholeUnlessShort
    <2> SUFFICES ASSUME DInv, pc = "in", shorts = 0
                 PROVE  /\ \A n \in DOMAIN answers : Whole(n)
                        /\ conns = 1 => mapped = {}
      BY DEF WholeUnlessShort
    <2>1. DOMAIN answers = 1..Len(answers)
      BY DEF HInv, Answers, Counted
    <2>2. QED
      BY <2>1 DEF Delivered, Mapped
  <1>4. QED
    BY <1>1, <1>2, <1>3, PTL DEF Spec
===============================================================================
