-------------------------------- MODULE Chatroom --------------------------------
(***************************************************************************)
(* The chat room of ch13/13_4_chatroom.cpp: a parent that accepts clients, *)
(* forks a child for each and relays between the children over socket      *)
(* pairs; children that read their client into a segment of shared memory; *)
(* and signals, which both turn into data: a handler of the parent writes  *)
(* to sig_pipefd, one of a child sets stop_child.                          *)
(*                                                                         *)
(* The parent and the children are processes: the only memory they share   *)
(* is share_mem, one segment for each index a child was given when it was  *)
(* forked.  A client, its child and its pid have one name here, so that a  *)
(* pid is not reused.  All descriptors are edge-triggered.                 *)
(*                                                                         *)
(* The parent and each child have one array on their stack into which they *)
(* receive what they pass on.  recv does not end it with a NUL and what is *)
(* sent is strlen of it, so that what an earlier message has left there    *)
(* follows.  A recv takes whole messages here, as long as the array has    *)
(* room, and bytes that no client has sent are left out.                   *)
(***************************************************************************)
EXTENDS Integers, FiniteSets, SequencesExt

CONSTANTS Clients,      \* the clients, each of which connects at most once
          None,         \* an empty segment
          USER_LIMIT,
          BUFFER_SIZE,  \* in messages, or what is left of them
          MaxMessages,  \* bound: messages of all clients
          MaxTerms,     \* bound: bytes that SIGTERM or SIGINT put in sig_pipefd
          CallsMayFail  \* whether accept and fork may fail

ASSUME ClientAssumption == None \notin Clients
ASSUME BoundAssumption ==
    /\ USER_LIMIT \in Nat \ {0} /\ BUFFER_SIZE \in Nat \ {0, 1}
    /\ MaxMessages \in Nat /\ MaxTerms \in Nat
    /\ CallsMayFail \in BOOLEAN

VARIABLES
    \* the parent
    users,          \* the first user_count entries of users[]: whose they are
    sub_process,    \* of each pid
    terminate, stop_server,
    parent,         \* where the parent is: "loop", "signals", "ended"
    batch,          \* what is left of its events array
    signals,        \* what is left of its signals array
    \* a child for each client
    child,          \* where it is, see ChildLabels
    idx,            \* the index it was forked with
    stop_child,
    woken,          \* what is left of its events array: of "conn", "pipe"
    share_mem,      \* the message in each segment
    \* message_with_sender
    parentBuffer,   \* of main, which shares its place with its signals array
    childBuffer,    \* of each run_child: its two arrays are in one place
    \* the kernel
    backlog, listenEdge,
    sig_pipe,       \* bytes in the socket pair sig_pipefd
    chld,           \* SIGCHLD is pending for the parent
    up, upEdge,     \* from pipefd[1] to pipefd[0] of each child, and its edge
    down, downEdge, \* from pipefd[0] to pipefd[1]
    inbox, connEdge,\* whether a client has sent what its child has not read
    gone,           \* the clients that have closed
    \* history
    said,           \* how many messages each client has sent
    taken,          \* the number of the one its child has read last
    heard,          \* what each client has received
    terms           \* the bytes that SIGTERM or SIGINT has put in sig_pipefd

parentVars == <<users, sub_process, terminate, stop_server, parent, batch, signals>>
childVars == <<child, idx, stop_child, woken, share_mem>>
buffers == <<parentBuffer, childBuffer>>
pipes == <<up, upEdge, down, downEdge>>
clientVars == <<inbox, connEdge, gone, said, taken, heard>>
listening == <<backlog, listenEdge>>
vars == <<parentVars, childVars, buffers, pipes, clientVars, listening, sig_pipe, chld, terms>>

user_count == Len(users)

Init ==
    /\ users = << >> /\ sub_process = [c \in Clients |-> -1]
    /\ terminate = FALSE /\ stop_server = FALSE
    /\ parent = "loop" /\ batch = {} /\ signals = << >>
    /\ child = [c \in Clients |-> "none"] /\ idx = [c \in Clients |-> -1]
    /\ stop_child = [c \in Clients |-> FALSE] /\ woken = [c \in Clients |-> {}]
    /\ share_mem = [i \in 0..USER_LIMIT - 1 |-> None]
    /\ parentBuffer = << >> /\ childBuffer = [c \in Clients |-> << >>]
    /\ backlog = << >> /\ listenEdge = FALSE /\ sig_pipe = << >> /\ chld = FALSE
    /\ up = [c \in Clients |-> << >>] /\ upEdge = [c \in Clients |-> FALSE]
    /\ down = [c \in Clients |-> << >>] /\ downEdge = [c \in Clients |-> FALSE]
    /\ inbox = [c \in Clients |-> FALSE] /\ connEdge = [c \in Clients |-> FALSE]
    /\ gone = {} /\ heard = [c \in Clients |-> << >>]
    /\ said = [c \in Clients |-> 0] /\ taken = [c \in Clients |-> 0]
    /\ terms = 0

Serving == {c \in Clients : child[c] \notin {"none", "refused", "zombie", "reaped"}}

-------------------------------------------------------------------------------
(* The clients, and whoever sends the server a signal. *)

Connect(c) ==
    /\ child[c] = "none" /\ c \notin gone \cup ToSet(backlog)
    /\ backlog' = Append(backlog, c)
    /\ listenEdge' = TRUE
    /\ UNCHANGED <<buffers, parentVars, childVars, pipes, clientVars, sig_pipe, chld,
                   terms>>

AllSaid == MapThenSumSet(LAMBDA c : said[c], Clients)

Say(c) ==
    /\ c \in Serving \ gone
    /\ ~inbox[c] /\ AllSaid < MaxMessages
    /\ said' = [said EXCEPT ![c] = @ + 1]
    /\ inbox' = [inbox EXCEPT ![c] = TRUE]
    /\ connEdge' = [connEdge EXCEPT ![c] = TRUE]
    /\ UNCHANGED <<buffers, parentVars, childVars, pipes, gone, taken, heard, listening,
                   sig_pipe, chld, terms>>

Leave(c) ==
    /\ c \in Serving \ gone
    /\ gone' = gone \cup {c}
    /\ connEdge' = [connEdge EXCEPT ![c] = TRUE]
    /\ UNCHANGED <<buffers, parentVars, childVars, pipes, inbox, said, taken, heard,
                   listening, sig_pipe, chld, terms>>

(* SIGTERM or SIGINT, and the parent's sig_handler for it. *)
Term ==
    /\ parent # "ended" /\ terms < MaxTerms
    /\ terms' = terms + 1
    /\ sig_pipe' = Append(sig_pipe, "TERM")
    /\ UNCHANGED <<buffers, parentVars, childVars, pipes, clientVars, listening, chld>>

(* sig_handler for SIGCHLD; several that come together are one signal. *)
HandleChld ==
    /\ parent # "ended" /\ chld
    /\ chld' = FALSE
    /\ sig_pipe' = Append(sig_pipe, "CHLD")
    /\ UNCHANGED <<buffers, parentVars, childVars, pipes, clientVars, listening, terms>>

-------------------------------------------------------------------------------
(* The arrays. *)

(* The end that snprintf gives to a text; recv gives it none. *)
Nul == [by |-> None, n |-> 0, text |-> None, left |-> TRUE]

(* What may be left of an array when a text of k messages has been written over
   its start: how far that reaches depends on their lengths. *)
Rests(array, k) == {rest \in Suffixes(array) : k + Len(rest) <= BUFFER_SIZE}

(* strlen of such a rest, which runs up to a NUL if there is one. *)
Strlen(rest) ==
    CHOOSE k \in 0..Len(rest) :
        /\ \A i \in 1..k : rest[i] # Nul
        /\ k < Len(rest) => rest[k + 1] = Nul

(* What is sent behind the messages that recv has just returned. *)
LeftOver(rest) == [i \in 1..Strlen(rest) |-> [rest[i] EXCEPT !.left = TRUE]]

-------------------------------------------------------------------------------
(* The parent's loop. *)

Ready ==
    (IF listenEdge THEN {<<"listen">>} ELSE {}) \cup
    (IF sig_pipe # << >> THEN {<<"signal">>} ELSE {}) \cup
    {<<"pipe", c>> : c \in {d \in ToSet(users) : upEdge[d]}}

EpollWait ==
    /\ parent = "loop" /\ batch = {} /\ ~stop_server
    /\ Ready # {}
    /\ batch' = Ready
    /\ listenEdge' = FALSE
    /\ upEdge' = [c \in Clients |-> IF c \in ToSet(users) THEN FALSE ELSE upEdge[c]]
    /\ UNCHANGED <<buffers, users, sub_process, terminate, stop_server, parent, signals,
                   childVars, up, down, downEdge, clientVars, backlog, sig_pipe, chld,
                   terms>>

Dispatch(event) ==
    /\ parent = "loop" /\ event \in batch
    /\ batch' = batch \ {event}

(* accept fails: the events that follow are looked at. *)
AcceptFails ==
    /\ Dispatch(<<"listen">>)
    /\ backlog = << >> \/ CallsMayFail
    /\ UNCHANGED <<buffers, users, sub_process, terminate, stop_server, parent, signals,
                   childVars, pipes, clientVars, listening, sig_pipe, chld, terms>>

(* Too many users, or fork fails: the connection is closed. *)
AcceptRefused ==
    /\ Dispatch(<<"listen">>)
    /\ backlog # << >>
    /\ user_count >= USER_LIMIT \/ CallsMayFail
    /\ backlog' = Tail(backlog)
    /\ child' = [child EXCEPT ![Head(backlog)] = "refused"]
    /\ UNCHANGED <<buffers, users, sub_process, terminate, stop_server, parent, signals,
                   idx, stop_child, woken, share_mem, pipes, clientVars, listenEdge,
                   sig_pipe, chld, terms>>

(* Mutant of Accept: user_count is not compared with USER_LIMIT. *)
AcceptUnlimited ==
    LET c == Head(backlog) IN
    /\ Dispatch(<<"listen">>)
    /\ backlog # << >>
    /\ backlog' = Tail(backlog)
    /\ users' = Append(users, c)
    /\ sub_process' = [sub_process EXCEPT ![c] = user_count]
    /\ child' = [child EXCEPT ![c] = "start"]
    /\ idx' = [idx EXCEPT ![c] = user_count]
    /\ UNCHANGED <<buffers, terminate, stop_server, parent, signals, stop_child, woken,
                   share_mem, pipes, clientVars, listenEdge, sig_pipe, chld, terms>>

(* accept, socketpair, fork; the parent goes on at once, the child when it is
   scheduled, with the index and the users[] of this moment. *)
Accept ==
    LET c == Head(backlog) IN
    /\ Dispatch(<<"listen">>)
    /\ backlog # << >> /\ user_count < USER_LIMIT
    /\ backlog' = Tail(backlog)
    /\ users' = Append(users, c)
    /\ sub_process' = [sub_process EXCEPT ![c] = user_count]
    /\ child' = [child EXCEPT ![c] = "start"]
    /\ idx' = [idx EXCEPT ![c] = user_count]
    /\ UNCHANGED <<buffers, terminate, stop_server, parent, signals, stop_child, woken,
                   share_mem, pipes, clientVars, listenEdge, sig_pipe, chld, terms>>

(* recv from sig_pipefd[0] empties it: up to 1024 signals at a time. *)
OnSignals ==
    /\ Dispatch(<<"signal">>)
    /\ signals' = sig_pipe
    /\ sig_pipe' = << >>
    /\ parent' = "signals"
    /\ \E rest \in Rests(parentBuffer, 0) : parentBuffer' = rest
    /\ UNCHANGED <<childBuffer, users, sub_process, terminate, stop_server, childVars,
                   pipes, clientVars, listening, chld, terms>>

NextSignal == signals' = Tail(signals) /\ parent' = IF Len(signals) = 1 THEN "loop" ELSE "signals"

Zombies == {c \in Clients : child[c] = "zombie"}

(* Mutant of DeleteUser: the last user moves, and its pid keeps its old index. *)
DeleteUserOnly(c) ==
    LET del_user == sub_process[c] IN
    IF del_user \in 0..USER_LIMIT
    THEN /\ users' = Front([users EXCEPT ![del_user + 1] = Last(users)])
         /\ sub_process' = [sub_process EXCEPT ![c] = -1]
    ELSE /\ sub_process' = [sub_process EXCEPT ![c] = -1]
         /\ UNCHANGED users

(* The last user takes the place of the one that has gone, and sub_process
   follows it. *)
DeleteUser(c) ==
    LET del_user == sub_process[c] IN
    IF del_user \in 0..USER_LIMIT
    THEN /\ users' = Front([users EXCEPT ![del_user + 1] = Last(users)])
         /\ sub_process' = [[sub_process EXCEPT ![c] = -1] EXCEPT ![Last(users)] = del_user]
    ELSE /\ sub_process' = [sub_process EXCEPT ![c] = -1]
         /\ UNCHANGED users

(* Mutant of Reap: waitpid is called once for each SIGCHLD byte. *)
ReapOnce(c) ==
    /\ parent = "signals" /\ Head(signals) = "CHLD"
    /\ c \in Zombies
    /\ child' = [child EXCEPT ![c] = "reaped"]
    /\ DeleteUser(c)
    /\ stop_server' = (stop_server \/ (terminate /\ users' = << >>))
    /\ NextSignal
    /\ UNCHANGED <<buffers, terminate, batch, idx, stop_child, woken, share_mem, pipes,
                   clientVars, listening, sig_pipe, chld, terms>>

(* One turn of the loop on waitpid. *)
Reap(c) ==
    /\ parent = "signals" /\ Head(signals) = "CHLD"
    /\ c \in Zombies
    /\ child' = [child EXCEPT ![c] = "reaped"]
    /\ DeleteUser(c)
    /\ UNCHANGED <<buffers, terminate, stop_server, parent, batch, signals, idx, stop_child,
                   woken, share_mem, pipes, clientVars, listening, sig_pipe, chld, terms>>

(* waitpid finds no child that has exited. *)
ReapDone ==
    /\ parent = "signals" /\ Head(signals) = "CHLD"
    /\ Zombies = {}
    /\ stop_server' = (stop_server \/ (terminate /\ user_count = 0))
    /\ NextSignal
    /\ UNCHANGED <<buffers, users, sub_process, terminate, batch, childVars, pipes,
                   clientVars, listening, sig_pipe, chld, terms>>

(* SIGTERM reaches a child.  Until it closes its copy of sig_pipefd it runs the
   parent's handler, which writes to the parent's pipe; from then until it has a
   handler of its own the signal has no effect.  (A child could echo every
   SIGTERM without end; MaxTerms bounds that too.) *)
Hears(c) == child[c] \in {"test", "enter", "wait", "events", "got"}

(* "kill all the clild now" *)
OnTerm ==
    /\ parent = "signals" /\ Head(signals) = "TERM"
    /\ IF users = << >>
       THEN /\ stop_server' = TRUE
            /\ UNCHANGED <<terminate, stop_child, child, sig_pipe, terms>>
       ELSE /\ terminate' = TRUE
            /\ stop_child' = [c \in Clients |-> stop_child[c] \/ (c \in ToSet(users) /\ Hears(c))]
            /\ child' = [c \in Clients |->
                            IF c \in ToSet(users) /\ child[c] = "wait" THEN "test" ELSE child[c]]
            /\ terms' = Min({MaxTerms, terms + Cardinality({c \in Clients : child[c] = "start"})})
            /\ sig_pipe' = sig_pipe \o [i \in 1..terms' - terms |-> "TERM"]
            /\ UNCHANGED stop_server
    /\ NextSignal
    /\ UNCHANGED <<buffers, users, sub_process, batch, idx, woken, share_mem, pipes,
                   clientVars, listening, chld>>

(* Mutant of Others: the sender is not left out. *)
OthersAll(c) == ToSet(users)

(* The users whose pipe is not the one the message came from. *)
Others(c) == ToSet(users) \ {c}

(* A child has written: one recv, which returns the first n messages, and a send
   to each of the others of all the text in the array.  A pipe that has been
   closed since, or that is at its end, gives nothing. *)
Relay(c, n) ==
    LET text == SubSeq(up[c], 1, n) IN
    /\ Dispatch(<<"pipe", c>>)
    /\ IF c \in ToSet(users) /\ up[c] # << >>
       THEN \E rest \in Rests(parentBuffer, n) :
               /\ n > 0
               /\ parentBuffer' = text \o rest
               /\ up' = [up EXCEPT ![c] = SubSeq(@, n + 1, Len(@))]
               /\ down' = [d \in Clients |-> IF d \in Others(c)
                                             THEN down[d] \o (text \o LeftOver(rest))
                                             ELSE down[d]]
               /\ downEdge' = [d \in Clients |-> downEdge[d] \/ d \in Others(c)]
       ELSE n = 0 /\ UNCHANGED <<parentBuffer, up, down, downEdge>>
    /\ UNCHANGED <<childBuffer, users, sub_process, terminate, stop_server, parent, signals,
                   childVars, upEdge, clientVars, listening, sig_pipe, chld, terms>>

(* while(!stop_server) ends, after the events of the batch: del_resource. *)
Stop ==
    /\ parent = "loop" /\ batch = {} /\ stop_server
    /\ parent' = "ended"
    /\ UNCHANGED <<buffers, users, sub_process, terminate, stop_server, batch, signals,
                   childVars, pipes, clientVars, listening, sig_pipe, chld, terms>>

ParentStep ==
    \/ HandleChld
    \/ EpollWait \/ AcceptFails \/ AcceptRefused \/ Accept \/ OnSignals
    \/ (\E c \in Clients : Reap(c)) \/ ReapDone \/ OnTerm
    \/ \E c \in Clients : \E n \in 0..Len(up[c]) : Relay(c, n)
    \/ Stop

-------------------------------------------------------------------------------
(* A child. *)

Goto(c, label) == child' = [child EXCEPT ![c] = label]

(* close(sig_pipefd[1]) *)
CloseSigPipe(c) ==
    /\ child[c] = "start"
    /\ Goto(c, "deaf")
    /\ UNCHANGED <<buffers, parentVars, idx, stop_child, woken, share_mem, pipes,
                   clientVars, listening, sig_pipe, chld, terms>>

(* addsig(SIGTERM, child_term_handler) *)
AddSig(c) ==
    /\ child[c] = "deaf"
    /\ Goto(c, "test")
    /\ UNCHANGED <<buffers, parentVars, idx, stop_child, woken, share_mem, pipes,
                   clientVars, listening, sig_pipe, chld, terms>>

(* while(!stop_child): the way out closes the connection and the pipe. *)
Test(c) ==
    /\ child[c] = "test"
    /\ IF stop_child[c]
       THEN /\ Goto(c, "zombie")
            /\ chld' = TRUE
            /\ upEdge' = [upEdge EXCEPT ![c] = TRUE]
       ELSE Goto(c, "enter") /\ UNCHANGED <<chld, upEdge>>
    /\ UNCHANGED <<buffers, parentVars, idx, stop_child, woken, share_mem, up, down,
                   downEdge, clientVars, listening, sig_pipe, terms>>

(* epoll_wait is entered, and blocks. *)
Enter(c) ==
    /\ child[c] = "enter"
    /\ Goto(c, "wait")
    /\ UNCHANGED <<buffers, parentVars, idx, stop_child, woken, share_mem, pipes,
                   clientVars, listening, sig_pipe, chld, terms>>

Wake(c) ==
    /\ child[c] = "wait"
    /\ connEdge[c] \/ downEdge[c]
    /\ woken' = [woken EXCEPT ![c] = (IF connEdge[c] THEN {"conn"} ELSE {}) \cup
                                     (IF downEdge[c] THEN {"pipe"} ELSE {})]
    /\ connEdge' = [connEdge EXCEPT ![c] = FALSE]
    /\ downEdge' = [downEdge EXCEPT ![c] = FALSE]
    /\ Goto(c, "events")
    /\ UNCHANGED <<buffers, parentVars, idx, stop_child, share_mem, up, upEdge, down, inbox,
                   gone, said, taken, heard, listening, sig_pipe, chld, terms>>

(* recv from the client into the child's segment, ... *)
ReadClient(c) ==
    /\ child[c] = "events" /\ "conn" \in woken[c]
    /\ woken' = [woken EXCEPT ![c] = @ \ {"conn"}]
    /\ IF inbox[c]
       THEN /\ share_mem' = [share_mem EXCEPT ![idx[c]] = c]
            /\ inbox' = [inbox EXCEPT ![c] = FALSE]
            /\ taken' = [taken EXCEPT ![c] = said[c]]
            /\ Goto(c, "got")
            /\ UNCHANGED stop_child
       ELSE /\ share_mem' = [share_mem EXCEPT ![idx[c]] = None]
            /\ stop_child' = [stop_child EXCEPT ![c] = @ \/ c \in gone]
            /\ UNCHANGED <<inbox, taken, child>>
    /\ UNCHANGED <<buffers, parentVars, idx, pipes, connEdge, gone, said, heard, listening,
                   sig_pipe, chld, terms>>

(* ... and from the segment through the array to the parent, under the child's
   index. *)
Forward(c) ==
    LET message == [by |-> c, n |-> taken[c], text |-> share_mem[idx[c]], left |-> FALSE] IN
    /\ child[c] = "got"
    /\ \E rest \in Rests(childBuffer[c], 2) :
          childBuffer' = [childBuffer EXCEPT ![c] = <<message, Nul>> \o rest]
    /\ up' = [up EXCEPT ![c] = Append(@, message)]
    /\ upEdge' = [upEdge EXCEPT ![c] = TRUE]
    /\ Goto(c, "events")
    /\ UNCHANGED <<parentBuffer, parentVars, idx, stop_child, woken, share_mem, down,
                   downEdge, clientVars, listening, sig_pipe, chld, terms>>

(* One recv from the parent, of the first n messages, and a send to the client of
   all the text in the array. *)
ReadPipe(c, n) ==
    LET text == SubSeq(down[c], 1, n) IN
    /\ child[c] = "events" /\ "pipe" \in woken[c]
    /\ woken' = [woken EXCEPT ![c] = @ \ {"pipe"}]
    /\ IF down[c] # << >>
       THEN \E rest \in Rests(childBuffer[c], n) :
               /\ n > 0
               /\ childBuffer' = [childBuffer EXCEPT ![c] = text \o rest]
               /\ down' = [down EXCEPT ![c] = SubSeq(@, n + 1, Len(@))]
               /\ heard' = [heard EXCEPT ![c] = @ \o (text \o LeftOver(rest))]
       ELSE n = 0 /\ UNCHANGED <<childBuffer, down, heard>>
    /\ UNCHANGED <<parentBuffer, parentVars, child, idx, stop_child, share_mem, up, upEdge,
                   downEdge, inbox, connEdge, gone, said, taken, listening, sig_pipe, chld,
                   terms>>

EventsDone(c) ==
    /\ child[c] = "events" /\ woken[c] = {}
    /\ Goto(c, "test")
    /\ UNCHANGED <<buffers, parentVars, idx, stop_child, woken, share_mem, pipes,
                   clientVars, listening, sig_pipe, chld, terms>>

ChildStep(c) ==
    \/ CloseSigPipe(c) \/ AddSig(c) \/ Test(c) \/ Enter(c) \/ Wake(c)
    \/ ReadClient(c) \/ Forward(c) \/ EventsDone(c)
    \/ \E n \in 0..Len(down[c]) : ReadPipe(c, n)

-------------------------------------------------------------------------------
Next ==
    \/ \E c \in Clients : Connect(c) \/ Say(c) \/ Leave(c) \/ ChildStep(c)
    \/ Term
    \/ ParentStep

Spec == Init /\ [][Next]_vars

(* The parent and the children are scheduled; clients and signals are free. *)
FairSpec == Spec /\ WF_vars(ParentStep) /\ \A c \in Clients : WF_vars(ChildStep(c))

-------------------------------------------------------------------------------
(* Properties. *)

ChildLabels == {"none", "refused", "start", "deaf", "test", "enter", "wait", "events", "got",
                "zombie", "reaped"}
Message == [by : Clients, n : Nat \ {0}, text : Clients \cup {None}, left : BOOLEAN]

(* The type invariant; it bounds the index by which a child finds its segment
   of the shared memory. *)
TypeOK ==
    /\ users \in Seq(Clients) /\ user_count <= USER_LIMIT
    /\ sub_process \in [Clients -> -1..USER_LIMIT - 1]
    /\ terminate \in BOOLEAN /\ stop_server \in BOOLEAN
    /\ parent \in {"loop", "signals", "ended"}
    /\ batch \subseteq {<<"listen">>, <<"signal">>} \cup ({"pipe"} \X Clients)
    /\ signals \in Seq({"CHLD", "TERM"}) /\ sig_pipe \in Seq({"CHLD", "TERM"})
    /\ child \in [Clients -> ChildLabels]
    /\ idx \in [Clients -> -1..USER_LIMIT - 1]
    /\ stop_child \in [Clients -> BOOLEAN] /\ woken \in [Clients -> SUBSET {"conn", "pipe"}]
    /\ share_mem \in [0..USER_LIMIT - 1 -> Clients \cup {None}]
    /\ parentBuffer \in Seq(Message \cup {Nul})
    /\ childBuffer \in [Clients -> Seq(Message \cup {Nul})]
    /\ \A c \in Clients :
          up[c] \in Seq(Message) /\ down[c] \in Seq(Message) /\ heard[c] \in Seq(Message)

(* The parent's two tables agree through every move of a user, in whatever order
   children exit and are reaped: users lists the children that have been forked
   and not reaped, each once, and sub_process finds each of them. *)
TablesAgree ==
    /\ IsInjective(users)
    /\ ToSet(users) = Serving \cup Zombies
    /\ \A j \in DOMAIN users : sub_process[users[j]] = j - 1

(* Of what is passed on when it is received, that is apart from what is sent once
   more because strlen finds it in an array: a client never hears itself, and
   hears the messages of another one in the order they were sent, none twice,
   across two pipes that are read in pieces, with left-over text between the
   messages, and a table of users that changes in the meantime. *)
RelayInOrder ==
    \A c \in Clients :
        /\ \A i \in DOMAIN heard[c] : ~heard[c][i].left => heard[c][i].by # c
        /\ \A i, j \in DOMAIN heard[c] :
              i < j /\ ~heard[c][i].left /\ ~heard[c][j].left /\ heard[c][i].by = heard[c][j].by
              => heard[c][i].n < heard[c][j].n

(* A child that has exited is reaped and its place in users[] is free again,
   although several SIGCHLDs may have become one and the parent may be in the
   middle of other events, unless the server ends first. *)
ZombieIsReaped ==
    \A c \in Clients : child[c] = "zombie" ~> (child[c] = "reaped" \/ parent = "ended")

(* What the comment in run_child says (13_4_chatroom.cpp:138, "combine the id of
   the sender and the content of the message"): the text that is relayed as a
   client's is that client's. *)
TextIsSenders ==
    \A c \in Clients : \A i \in DOMAIN heard[c] : heard[c][i].text = heard[c][i].by
===============================================================================
