------------------------------ MODULE ProcessPool ------------------------------
(***************************************************************************)
(* The process pool of ch15/15_1_processpool.h with the CGI connections of *)
(* 15_2_CGI.cpp as its users: a parent that watches the listening socket   *)
(* and notifies one child after the other, over a socket pair, that there  *)
(* is a connection to accept; children that accept, read a request and     *)
(* fork a program for it; and signals, which each process turns into bytes *)
(* on a socket pair of its own.  All descriptors are edge-triggered.       *)
(*                                                                         *)
(* A child, its pid and its place in m_sub_process have one name, so that  *)
(* a pid is not reused.  Clients are named in the order in which they      *)
(* connect, each once.  A request is two parts, of which the second ends   *)
(* its line.                                                               *)
(***************************************************************************)
EXTENDS Integers, FiniteSets, SequencesExt

CONSTANTS m_process_number,
          NumClients,
          MaxDeaths     \* bound: children that die of something else than the pool

ASSUME PoolAssumption ==
    m_process_number \in Nat \ {0} /\ NumClients \in Nat /\ MaxDeaths \in Nat

Children == 0..m_process_number - 1
Clients == 1..NumClients

VARIABLES
    \* the parent
    parent,         \* where it is: "start", "loop", "ended"
    known,          \* the children whose m_pid is not -1
    sub_process_counter, m_stop,
    batch,          \* what is left of its events array
    signals,        \* what is left of its signals array
    \* the children
    child,          \* where each is: "start", "loop", "zombie", "reaped"
    stop,           \* m_stop of each
    woken,          \* what is left of its events array: "pipe", "signal", clients
    read,           \* the parts of a request in m_buf of each client
    programs,       \* how many programs forked by each still run
    \* the kernel
    backlog, listenEdge,
    notices,        \* the notifications in each child's pipe
    pipeEdge,
    sigs,           \* the signals in the parent's sig_pipefd
    childSigs,      \* and in each child's
    at,             \* where each client is: "away", "backlog", "served", "closed"
    by,             \* the child that accepted it, while it is served
    edge,           \* connections with an edge epoll_wait has not reported
    sent,           \* the parts each client has sent on a connection that is open
    gone,           \* the clients that have closed one that is
    deaths,
    terms           \* whether the parent has been sent SIGTERM

parentVars == <<parent, known, sub_process_counter, m_stop, batch, signals>>
childVars == <<child, stop, woken, childSigs>>
connVars == <<read, at, by, edge, sent, gone>>
listening == <<backlog, listenEdge>>
pipes == <<notices, pipeEdge>>
vars == <<parentVars, childVars, connVars, programs, listening, pipes, sigs, deaths, terms>>

Init ==
    /\ parent = "start" /\ known = Children /\ sub_process_counter = 0 /\ m_stop = FALSE
    /\ batch = {} /\ signals = {}
    /\ child = [j \in Children |-> "start"] /\ stop = [j \in Children |-> FALSE]
    /\ woken = [j \in Children |-> {}] /\ childSigs = [j \in Children |-> {}]
    /\ read = [c \in Clients |-> 0] /\ programs = [j \in Children |-> 0]
    /\ at = [c \in Clients |-> "away"] /\ by = [c \in Clients |-> 0] /\ edge = {}
    /\ sent = [c \in Clients |-> 0] /\ gone = {}
    /\ backlog = << >> /\ listenEdge = FALSE
    /\ notices = [j \in Children |-> 0] /\ pipeEdge = [j \in Children |-> FALSE]
    /\ sigs = {} /\ deaths = 0 /\ terms = FALSE

ConnsOf(j) == {c \in Clients : at[c] = "served" /\ by[c] = j}

(* The connections cs are closed by the process that has them, and nothing is left
   of them there.  (A program that the same child has forked before holds copies of
   its descriptors, so that a client may see the end only when that ends too.) *)
Close(cs) ==
    /\ at' = [c \in Clients |-> IF c \in cs THEN "closed" ELSE at[c]]
    /\ edge' = edge \ cs
    /\ sent' = [c \in Clients |-> IF c \in cs THEN 0 ELSE sent[c]]
    /\ gone' = gone \ cs
    /\ read' = [c \in Clients |-> IF c \in cs THEN 0 ELSE read[c]]
    /\ by' = [c \in Clients |-> IF c \in cs THEN 0 ELSE by[c]]

(* Children end: the kernel closes what they have open, the programs they run
   have no parent any more, and theirs has SIGCHLD, which is ignored until it
   has a handler for it. *)
Ends(js) ==
    /\ child' = [j \in Children |-> IF j \in js THEN "zombie" ELSE child[j]]
    /\ stop' = [j \in Children |-> stop[j] /\ j \notin js]
    /\ woken' = [j \in Children |-> IF j \in js THEN {} ELSE woken[j]]
    /\ Close(UNION {ConnsOf(j) : j \in js})
    /\ programs' = [j \in Children |-> IF j \in js THEN 0 ELSE programs[j]]
    /\ notices' = [j \in Children |-> IF j \in js THEN 0 ELSE notices[j]]
    /\ pipeEdge' = [j \in Children |-> pipeEdge[j] /\ j \notin js]
    /\ sigs' = IF parent = "loop" /\ js # {} THEN sigs \cup {"CHLD"} ELSE sigs

-------------------------------------------------------------------------------
(* The clients, and whoever sends the parent a signal or kills a child. *)

Connect(c) ==
    /\ at[c] = "away" /\ \A b \in 1..c - 1 : at[b] # "away"
    /\ at' = [at EXCEPT ![c] = "backlog"]
    /\ backlog' = Append(backlog, c)
    /\ listenEdge' = TRUE
    /\ UNCHANGED <<parentVars, childVars, read, by, edge, sent, gone, programs, pipes,
                   sigs, deaths, terms>>

Send(c) ==
    /\ at[c] \in {"backlog", "served"} /\ c \notin gone
    /\ sent[c] < 2
    /\ sent' = [sent EXCEPT ![c] = @ + 1]
    /\ edge' = IF at[c] = "served" THEN edge \cup {c} ELSE edge
    /\ UNCHANGED <<parentVars, childVars, read, at, by, gone, programs, listening, pipes,
                   sigs, deaths, terms>>

(* A client that has sent all waits for what the server does: it makes no
   difference to process whether it leaves. *)
Leave(c) ==
    /\ at[c] \in {"backlog", "served"} /\ c \notin gone
    /\ sent[c] < 2
    /\ gone' = gone \cup {c}
    /\ edge' = IF at[c] = "served" THEN edge \cup {c} ELSE edge
    /\ UNCHANGED <<parentVars, childVars, read, at, by, sent, programs, listening, pipes,
                   sigs, deaths, terms>>

(* SIGTERM or SIGINT, and sig_handler; once. *)
Term ==
    /\ parent = "loop" /\ ~terms
    /\ terms' = TRUE
    /\ sigs' = sigs \cup {"TERM"}
    /\ UNCHANGED <<parentVars, childVars, connVars, programs, listening, pipes, deaths>>

Die(j) ==
    /\ child[j] \in {"start", "loop"} /\ deaths < MaxDeaths
    /\ deaths' = deaths + 1
    /\ Ends({j})
    /\ childSigs' = [childSigs EXCEPT ![j] = {}]
    /\ UNCHANGED <<parentVars, listening, terms>>

(* A program ends: its parent, while there is one, has SIGCHLD. *)
ProgramExits(j) ==
    /\ programs[j] > 0
    /\ programs' = [programs EXCEPT ![j] = @ - 1]
    /\ childSigs' = [childSigs EXCEPT ![j] = @ \cup {"CHLD"}]
    /\ UNCHANGED <<parentVars, child, stop, woken, connVars, listening, pipes, sigs, deaths, terms>>

-------------------------------------------------------------------------------
(* run_parent *)

(* setup_sig_pipe, and addfd of the listening socket. *)
Setup ==
    /\ parent = "start"
    /\ parent' = "loop"
    /\ UNCHANGED <<known, sub_process_counter, m_stop, batch, signals, childVars, connVars,
                   programs, listening, pipes, sigs, deaths, terms>>

Ready ==
    (IF listenEdge THEN {"listen"} ELSE {}) \cup (IF sigs # {} THEN {"signal"} ELSE {})

EpollWait ==
    /\ parent = "loop" /\ batch = {} /\ signals = {} /\ ~m_stop
    /\ Ready # {}
    /\ batch' = Ready
    /\ listenEdge' = FALSE
    /\ UNCHANGED <<parent, known, sub_process_counter, m_stop, signals, childVars, connVars,
                   programs, backlog, pipes, sigs, deaths, terms>>

Dispatch(event) == signals = {} /\ event \in batch

(* The first child from sub_process_counter on that has a pid. *)
NextKnown ==
    LET place(i) == (sub_process_counter + i) % m_process_number IN
    place(Min({i \in Children : place(i) \in known}))

(* A connection has arrived.  What is sent to a child that has died and has not
   been waited for is lost. *)
Notify ==
    /\ Dispatch("listen")
    /\ known # {}
    /\ batch' = batch \ {"listen"}
    /\ sub_process_counter' = (NextKnown + 1) % m_process_number
    /\ LET j == NextKnown IN
       IF child[j] = "zombie" THEN UNCHANGED pipes
       ELSE /\ notices' = [notices EXCEPT ![j] = @ + 1]
            /\ pipeEdge' = [pipeEdge EXCEPT ![j] = TRUE]
    /\ UNCHANGED <<parent, known, m_stop, signals, childVars, connVars, programs, listening,
                   sigs, deaths, terms>>

(* No child is left: the rest of the events is dropped. *)
NotifyNobody ==
    /\ Dispatch("listen")
    /\ known = {}
    /\ m_stop' = TRUE
    /\ batch' = {}
    /\ UNCHANGED <<parent, known, sub_process_counter, signals, childVars, connVars, programs,
                   listening, pipes, sigs, deaths, terms>>

(* recv empties sig_pipefd[0]. *)
OnSignals ==
    /\ Dispatch("signal")
    /\ batch' = batch \ {"signal"}
    /\ signals' = sigs
    /\ sigs' = {}
    /\ UNCHANGED <<parent, known, sub_process_counter, m_stop, childVars, connVars, programs,
                   listening, pipes, deaths, terms>>

Zombies == {j \in Children : child[j] = "zombie"}

(* Mutant of OnChld: m_stop is not cleared for the children that are left. *)
OnChldStop ==
    /\ "CHLD" \in signals
    /\ signals' = signals \ {"CHLD"}
    /\ child' = [j \in Children |-> IF j \in Zombies THEN "reaped" ELSE child[j]]
    /\ known' = known \ Zombies
    /\ m_stop' = TRUE
    /\ UNCHANGED <<parent, sub_process_counter, batch, stop, woken, childSigs, connVars,
                   programs, listening, pipes, sigs, deaths, terms>>

(* Mutant of OnChld: waitpid is called once. *)
OnChldOnce ==
    /\ "CHLD" \in signals
    /\ signals' = signals \ {"CHLD"}
    /\ LET first == {j \in Zombies : \A k \in Zombies : j <= k} IN
       /\ child' = [j \in Children |-> IF j \in first THEN "reaped" ELSE child[j]]
       /\ known' = known \ first
    /\ m_stop' = (known' = {})
    /\ UNCHANGED <<parent, sub_process_counter, batch, stop, woken, childSigs, connVars,
                   programs, listening, pipes, sigs, deaths, terms>>

(* waitpid for all that have exited; without a child left the pool stops. *)
OnChld ==
    /\ "CHLD" \in signals
    /\ signals' = signals \ {"CHLD"}
    /\ child' = [j \in Children |-> IF j \in Zombies THEN "reaped" ELSE child[j]]
    /\ known' = known \ Zombies
    /\ m_stop' = (known' = {})
    /\ UNCHANGED <<parent, sub_process_counter, batch, stop, woken, childSigs, connVars,
                   programs, listening, pipes, sigs, deaths, terms>>

(* "kill all the child now": a child that has no handler yet ends at once. *)
OnTerm ==
    /\ "TERM" \in signals
    /\ signals' = signals \ {"TERM"}
    /\ Ends({j \in known : child[j] = "start"})
    /\ childSigs' = [j \in Children |->
                        IF j \in known /\ child[j] = "loop" THEN childSigs[j] \cup {"TERM"}
                        ELSE childSigs[j]]
    /\ UNCHANGED <<parent, known, sub_process_counter, m_stop, batch, listening, deaths, terms>>

ParentEnds ==
    /\ parent = "loop" /\ batch = {} /\ signals = {} /\ m_stop
    /\ parent' = "ended"
    /\ UNCHANGED <<known, sub_process_counter, m_stop, batch, signals, childVars, connVars,
                   programs, listening, pipes, sigs, deaths, terms>>

ParentStep ==
    \/ Setup \/ EpollWait \/ Notify \/ NotifyNobody
    \/ OnSignals \/ OnChld \/ OnTerm \/ ParentEnds

-------------------------------------------------------------------------------
(* run_child, and cgi_conn *)

ChildSetup(j) ==
    /\ child[j] = "start"
    /\ child' = [child EXCEPT ![j] = "loop"]
    /\ UNCHANGED <<parentVars, stop, woken, childSigs, connVars, programs, listening, pipes,
                   sigs, deaths, terms>>

ChildWait(j) ==
    LET ready == (IF pipeEdge[j] THEN {<<"pipe">>} ELSE {}) \cup
                 (IF childSigs[j] # {} THEN {<<"signal">>} ELSE {}) \cup
                 {<<"conn", c>> : c \in edge \cap ConnsOf(j)}
    IN
    /\ child[j] = "loop" /\ woken[j] = {} /\ ~stop[j]
    /\ ready # {}
    /\ woken' = [woken EXCEPT ![j] = ready]
    /\ pipeEdge' = [pipeEdge EXCEPT ![j] = FALSE]
    /\ edge' = edge \ ConnsOf(j)
    /\ UNCHANGED <<parentVars, child, stop, childSigs, read, at, by, sent, gone, programs,
                   listening, notices, sigs, deaths, terms>>

Handles(j, event) ==
    /\ event \in woken[j]
    /\ woken' = [woken EXCEPT ![j] = @ \ {event}]

(* Mutant of Notice: recv takes all the notifications there are. *)
NoticeAll(j) ==
    /\ Handles(j, <<"pipe">>)
    /\ notices' = [notices EXCEPT ![j] = 0]
    /\ IF backlog # << >>
       THEN /\ backlog' = Tail(backlog)
            /\ at' = [at EXCEPT ![Head(backlog)] = "served"]
            /\ by' = [by EXCEPT ![Head(backlog)] = j]
            /\ edge' = IF sent[Head(backlog)] > 0 \/ Head(backlog) \in gone
                       THEN edge \cup {Head(backlog)} ELSE edge
       ELSE UNCHANGED <<backlog, at, by, edge>>
    /\ UNCHANGED <<parentVars, child, stop, childSigs, read, sent, gone, programs,
                   listenEdge, pipeEdge, sigs, deaths, terms>>

(* One notification is read and one connection accepted, if no other child has
   been faster, for each edge. *)
Notice(j) ==
    /\ Handles(j, <<"pipe">>)
    /\ notices' = [notices EXCEPT ![j] = @ - 1]
    /\ IF backlog # << >>
       THEN /\ backlog' = Tail(backlog)
            /\ at' = [at EXCEPT ![Head(backlog)] = "served"]
            /\ by' = [by EXCEPT ![Head(backlog)] = j]
            /\ edge' = IF sent[Head(backlog)] > 0 \/ Head(backlog) \in gone
                       THEN edge \cup {Head(backlog)} ELSE edge
       ELSE UNCHANGED <<backlog, at, by, edge>>
    /\ UNCHANGED <<parentVars, child, stop, childSigs, read, sent, gone, programs,
                   listenEdge, pipeEdge, sigs, deaths, terms>>

(* recv empties sig_pipefd[0]: programs are waited for, of which nothing else
   depends, or the child is to stop. *)
ChildSignals(j) ==
    /\ Handles(j, <<"signal">>)
    /\ stop' = [stop EXCEPT ![j] = @ \/ "TERM" \in childSigs[j]]
    /\ childSigs' = [childSigs EXCEPT ![j] = {}]
    /\ UNCHANGED <<parentVars, child, connVars, programs, listening, pipes, sigs, deaths, terms>>

(* Mutant of Received: process calls recv once. *)
ReceivedOnce(c) == IF read[c] < sent[c] THEN read[c] + 1 ELSE sent[c]

(* process calls recv until it would block. *)
Received(c) == sent[c]

(* process: with the whole line read a program is forked, if there is a file of
   that name and fork succeeds, and the connection closed; so it is when the
   client has closed. *)
Process(j, c) ==
    /\ Handles(j, <<"conn", c>>)
    /\ \E n \in IF Received(c) = 2 THEN {0, 1} ELSE {0} :
          programs' = [programs EXCEPT ![j] = @ + n]
    /\ IF Received(c) = 2 \/ c \in gone
       THEN Close({c})
       ELSE /\ read' = [read EXCEPT ![c] = Received(c)]
            /\ UNCHANGED <<at, by, edge, sent, gone>>
    /\ UNCHANGED <<parentVars, child, stop, childSigs, listening, pipes, sigs, deaths, terms>>

ChildEnds(j) ==
    /\ child[j] = "loop" /\ woken[j] = {} /\ stop[j]
    /\ Ends({j})
    /\ childSigs' = [childSigs EXCEPT ![j] = {}]
    /\ UNCHANGED <<parentVars, listening, deaths, terms>>

ChildStep(j) ==
    \/ ChildSetup(j) \/ ChildWait(j) \/ Notice(j) \/ ChildSignals(j)
    \/ \E c \in Clients : Process(j, c)
    \/ ChildEnds(j)

-------------------------------------------------------------------------------
Next ==
    \/ \E c \in Clients : Connect(c) \/ Send(c) \/ Leave(c)
    \/ Term
    \/ ParentStep
    \/ \E j \in Children : Die(j) \/ ProgramExits(j) \/ ChildStep(j)

Spec == Init /\ [][Next]_vars

(* The processes are scheduled; clients, programs and signals are free. *)
FairSpec == Spec /\ WF_vars(ParentStep) /\ \A j \in Children : WF_vars(ChildStep(j))

-------------------------------------------------------------------------------
(* Properties. *)

(* The variables have their types: a child that is told of a notification finds
   one to read, so that it never accepts unasked (the branch for EAGAIN does). *)
TypeOK ==
    /\ parent \in {"start", "loop", "ended"} /\ sub_process_counter \in Children
    /\ child \in [Children -> {"start", "loop", "zombie", "reaped"}]
    /\ sigs \cup signals \subseteq {"CHLD", "TERM"}
    /\ \A c \in Clients : at[c] = "backlog" <=> c \in ToSet(backlog)
    /\ \A c \in Clients : at[c] = "served" => child[by[c]] = "loop"
    /\ \A j \in Children : pipeEdge[j] \/ <<"pipe">> \in woken[j] => notices[j] > 0

(* The parent knows exactly the children it has not waited for, and leaves its
   loop only when it has waited for all (15_1_processpool.h:320-336, 284). *)
StopMeansReaped ==
    /\ known = {j \in Children : child[j] # "reaped"}
    /\ m_stop => known = {}

(* SIGTERM ends the pool, whatever its children are doing: unless all of them
   died before the parent had its handlers (15_1_processpool.h:339-347). *)
TermEnds == ("TERM" \in sigs \cup signals) ~> (parent = "ended")

(* A request that has arrived, however it was cut, is answered, by a program or
   by closing, as long as its child lives (15_2_CGI.cpp:40-93). *)
RequestAnswered == \A c \in Clients : (at[c] = "served" /\ sent[c] = 2) ~> (at[c] = "closed")
===============================================================================
