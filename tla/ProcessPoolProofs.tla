--------------------------- MODULE ProcessPoolProofs ---------------------------
(***************************************************************************)
(* Machine-checked facts about ProcessPool, for any number of children,    *)
(* clients and deaths: the parent knows the children it has not waited     *)
(* for, finds the next of them in its round, and a child is never told of  *)
(* a notification that it does not find.                                   *)
(***************************************************************************)
EXTENDS ProcessPool, ContainerLemmas

-------------------------------------------------------------------------------
(* The inductive invariant. *)

Events == {<<"pipe">>, <<"signal">>} \cup {<<"conn", c>> : c \in Clients}

ParentTypes ==
    /\ parent \in {"start", "loop", "ended"}
    /\ sub_process_counter \in Children
    /\ m_stop \in BOOLEAN
    /\ sigs \subseteq {"CHLD", "TERM"} /\ signals \subseteq {"CHLD", "TERM"}

ChildTypes ==
    /\ child \in [Children -> {"start", "loop", "zombie", "reaped"}]
    /\ woken \in [Children -> SUBSET Events]

ConnTypes ==
    /\ at \in [Clients -> {"away", "backlog", "served", "closed"}]
    /\ by \in [Clients -> Children]
    /\ backlog \in Seq(Clients)

(* The clients in the backlog are those that wait there, each once. *)
Queued ==
    /\ IsInjective(backlog)
    /\ \A c \in Clients : at[c] = "backlog" <=> c \in ToSet(backlog)

(* A connection that is served has a child that runs, and it is this child that
   is woken for it. *)
Attached ==
    /\ \A c \in Clients : at[c] = "served" => child[by[c]] = "loop"
    /\ \A j \in Children : woken[j] # {} => child[j] = "loop"
    /\ \A j \in Children, c \in Clients :
          <<"conn", c>> \in woken[j] => at[c] = "served" /\ by[c] = j

(* There is a notification for the edge that was reported, and one more for an
   edge that has not been. *)
Noticed ==
    /\ notices \in [Children -> Nat] /\ pipeEdge \in [Children -> BOOLEAN]
    /\ \A j \in Children :
          /\ pipeEdge[j] => notices[j] > 0
          /\ <<"pipe">> \in woken[j] => notices[j] > 0
          /\ pipeEdge[j] /\ <<"pipe">> \in woken[j] => notices[j] > 1

PInv ==
    /\ ParentTypes /\ ChildTypes /\ ConnTypes
    /\ StopMeansReaped /\ Queued /\ Attached /\ Noticed

LEMMA PInvInit == Init => PInv
  <1> SUFFICES ASSUME Init PROVE PInv
    OBVIOUS
  <1> USE PoolAssumption DEF Init
  <1>1. 0 \in Children
    BY DEF Children
  <1>2. ParentTypes
    <2>1. m_stop \in BOOLEAN
      OBVIOUS
    <2>2. QED
      BY <1>1, <2>1 DEF ParentTypes
  <1>3. ChildTypes
    BY DEF ChildTypes
  <1>4. ConnTypes
    BY <1>1 DEF ConnTypes
  <1>5. StopMeansReaped
    <2>1. known = {j \in Children : child[j] # "reaped"}
      OBVIOUS
    <2>2. ~m_stop
      OBVIOUS
    <2>3. QED
      BY <2>1, <2>2 DEF StopMeansReaped
  <1>6. Queued
    BY DEF Queued, IsInjective, ToSet
  <1>7. Attached
    BY DEF Attached
  <1>8. Noticed
    <2>1. pipeEdge \in [Children -> BOOLEAN] /\ \A j \in Children : ~pipeEdge[j]
      OBVIOUS
    <2>2. notices \in [Children -> Nat] /\ \A j \in Children : woken[j] = {}
      OBVIOUS
    <2>3. QED
      BY <2>1, <2>2 DEF Noticed
  <1>9. QED
    BY <1>2, <1>3, <1>4, <1>5, <1>6, <1>7, <1>8 DEF PInv

-------------------------------------------------------------------------------
(* The round of the parent. *)

(* Every place is reached from every other one by going round. *)
LEMMA Round ==
    ASSUME NEW s \in Children, NEW k \in Children
    PROVE  \E i \in Children : (s + i) % m_process_number = k
  <1> DEFINE N == m_process_number
  <1>1. N \in Nat \ {0} /\ s \in 0..N - 1 /\ k \in 0..N - 1 /\ Children = 0..N - 1
    BY PoolAssumption DEF Children
  <1> HIDE DEF N
  <1>2. CASE k >= s
    <2>1. k - s \in 0..N - 1 /\ (s + (k - s)) = k
      BY <1>1, <1>2
    <2>2. k % N = k
      BY <1>1
    <2>3. QED
      BY <1>1, <2>1, <2>2 DEF N
  <1>3. CASE k < s
    <2>1. k - s + N \in 0..N - 1 /\ s + (k - s + N) = k + N
      BY <1>1, <1>3
    <2>2. (k + N) % N = k
      BY <1>1
    <2>3. QED
      BY <1>1, <2>1, <2>2 DEF N
  <1>4. QED
    BY <1>1, <1>2, <1>3

(* The loop on m_pid ends at a child that has one, if there is such a child. *)
LEMMA NextIsKnown ==
    ASSUME sub_process_counter \in Children, known \subseteq Children, known # {}
    PROVE  NextKnown \in known
  <1> DEFINE place(i) == (sub_process_counter + i) % m_process_number
             S == {i \in Children : place(i) \in known}
  <1>1. PICK k \in Children : k \in known
    OBVIOUS
  <1>2. S # {}
    BY <1>1, Round
  <1>3. S \in SUBSET Nat
    BY PoolAssumption DEF Children
  <1> HIDE DEF S
  <1>4. Min(S) \in S
    BY <1>2, <1>3, MinIsLeast
  <1>5. QED
    BY <1>4 DEF S, NextKnown

(* The one who is notified next is one of the children again. *)
LEMMA CounterInRange == ASSUME NEW k \in Children PROVE (k + 1) % m_process_number \in Children
  <1>1. m_process_number \in Nat \ {0} /\ k + 1 \in Nat
    BY PoolAssumption DEF Children
  <1>2. (k + 1) % m_process_number \in 0..m_process_number - 1
    BY <1>1
  <1>3. QED
    BY <1>2 DEF Children
-------------------------------------------------------------------------------
(* What the parent knows. *)

LEMMA KnownStep == PInv /\ [Next]_vars => ParentTypes' /\ StopMeansReaped'
  <1> SUFFICES ASSUME PInv, [Next]_vars PROVE ParentTypes' /\ StopMeansReaped'
    OBVIOUS
  <1> USE DEF parentVars, childVars
  <1>t. /\ ParentTypes /\ StopMeansReaped
        /\ child \in [Children -> {"start", "loop", "zombie", "reaped"}]
    BY DEF PInv, ChildTypes
  <1>1. CASE UNCHANGED <<parentVars, child, sigs>>
    BY <1>1, <1>t DEF ParentTypes, StopMeansReaped
  <1>2. ASSUME NEW c \in Clients, Connect(c) \/ Send(c) \/ Leave(c)
        PROVE  UNCHANGED <<parentVars, child, sigs>>
    BY <1>2 DEF Connect, Send, Leave
  <1>3. ASSUME NEW j \in Children,
               \/ ProgramExits(j) \/ ChildWait(j) \/ Notice(j) \/ ChildSignals(j)
               \/ \E c \in Clients : Process(j, c)
        PROVE  UNCHANGED <<parentVars, child, sigs>>
    BY <1>3 DEF ProgramExits, ChildWait, Notice, ChildSignals, Process
  <1>4. ASSUME NEW js \in SUBSET Children, Ends(js), \A j \in js : child[j] # "reaped",
               UNCHANGED <<parent, known, sub_process_counter, m_stop>>,
               signals' \subseteq signals
        PROVE  ParentTypes' /\ StopMeansReaped'
    <2>1. child' = [j \in Children |-> IF j \in js THEN "zombie" ELSE child[j]]
          /\ sigs' \subseteq {"CHLD", "TERM"}
      BY <1>4, <1>t DEF Ends, ParentTypes
    <2>2. \A j \in Children : child'[j] = "reaped" <=> child[j] = "reaped"
      BY <2>1, <1>4
    <2>3. QED
      BY <1>4, <2>1, <2>2, <1>t DEF ParentTypes, StopMeansReaped
  <1>5. ASSUME NEW j \in Children, Die(j) \/ ChildEnds(j) PROVE ParentTypes' /\ StopMeansReaped'
    <2>1. Ends({j}) /\ UNCHANGED parentVars /\ child[j] # "reaped"
      BY <1>5 DEF Die, ChildEnds
    <2>2. QED
      BY <2>1, <1>4
  <1>6. CASE OnTerm
    <2>1. PICK js : js = {j \in known : child[j] = "start"}
      OBVIOUS
    <2>2. js \in SUBSET Children /\ \A j \in js : child[j] # "reaped"
      BY <2>1, <1>t DEF StopMeansReaped
    <2>3. /\ Ends(js) /\ signals' \subseteq signals
          /\ UNCHANGED <<parent, known, sub_process_counter, m_stop>>
      BY <1>6, <2>1 DEF OnTerm
    <2>4. QED
      BY <2>2, <2>3, <1>4
  <1>7. CASE Term \/ EpollWait \/ OnSignals
    <2>1. UNCHANGED <<parent, known, sub_process_counter, m_stop, child>>
      BY <1>7 DEF Term, EpollWait, OnSignals
    <2>2. sigs' \cup signals' \subseteq {"CHLD", "TERM"}
      BY <1>7, <1>t DEF Term, EpollWait, OnSignals, ParentTypes
    <2>3. QED
      BY <2>1, <2>2, <1>t DEF ParentTypes, StopMeansReaped
  <1>8. CASE Setup \/ ParentEnds
    <2>1. /\ parent' \in {"start", "loop", "ended"}
          /\ UNCHANGED <<known, sub_process_counter, m_stop, signals, child, sigs>>
      BY <1>8 DEF Setup, ParentEnds
    <2>2. QED
      BY <2>1, <1>t DEF ParentTypes, StopMeansReaped
  <1>9. CASE Notify
    <2>1. NextKnown \in Children
      BY <1>9, <1>t, NextIsKnown DEF Notify, ParentTypes, StopMeansReaped
    <2>2. sub_process_counter' \in Children
      BY <2>1, <1>9, CounterInRange DEF Notify
    <2>3. UNCHANGED <<parent, known, m_stop, signals, child, sigs>>
      BY <1>9 DEF Notify
    <2>4. QED
      BY <2>2, <2>3, <1>t DEF ParentTypes, StopMeansReaped
  <1>10. CASE NotifyNobody
    <2>1. known = {} /\ m_stop' = TRUE /\ UNCHANGED <<parent, known, sub_process_counter, signals, child, sigs>>
      BY <1>10 DEF NotifyNobody
    <2>2. QED
      BY <2>1, <1>t DEF ParentTypes, StopMeansReaped
  <1>11. CASE OnChld
    <2>1. /\ child' = [j \in Children |-> IF j \in Zombies THEN "reaped" ELSE child[j]]
          /\ known' = known \ Zombies
          /\ signals' \subseteq signals
          /\ UNCHANGED <<parent, sub_process_counter, sigs>>
      BY <1>11 DEF OnChld
    <2>2. m_stop' = (known' = {})
      BY <1>11 DEF OnChld
    <2>3. m_stop' \in BOOLEAN /\ (m_stop' => known' = {})
      BY <2>2
    <2>4. known' = {j \in Children : child'[j] # "reaped"}
      BY <2>1, <1>t DEF StopMeansReaped, Zombies
    <2>5. QED
      BY <2>1, <2>3, <2>4, <1>t DEF ParentTypes, StopMeansReaped
  <1>12. ASSUME NEW j \in Children, ChildSetup(j) PROVE ParentTypes' /\ StopMeansReaped'
    <2>1. child' = [child EXCEPT ![j] = "loop"] /\ child[j] = "start"
          /\ UNCHANGED <<parentVars, sigs>>
      BY <1>12 DEF ChildSetup
    <2>2. \A k \in Children : child'[k] = "reaped" <=> child[k] = "reaped"
      BY <2>1, <1>t
    <2>3. QED
      BY <2>1, <2>2, <1>t DEF ParentTypes, StopMeansReaped
  <1>13. CASE UNCHANGED vars
    BY <1>13, <1>1 DEF vars
  <1>14. QED
    BY <1>1, <1>2, <1>3, <1>5, <1>6, <1>7, <1>8, <1>9, <1>10, <1>11, <1>12, <1>13
    DEF Next, ParentStep, ChildStep
-------------------------------------------------------------------------------
(* The children and their connections. *)

Held == ChildTypes /\ ConnTypes /\ Queued /\ Attached /\ Noticed

(* Whatever ends, its connections end with it. *)
LEMMA EndsHeld ==
    ASSUME PInv, NEW js \in SUBSET Children, Ends(js), UNCHANGED backlog
    PROVE  Held'
  <1>t. Held
    BY DEF PInv, Held
  <1>1. /\ child' = [j \in Children |-> IF j \in js THEN "zombie" ELSE child[j]]
        /\ woken' = [j \in Children |-> IF j \in js THEN {} ELSE woken[j]]
        /\ notices' = [j \in Children |-> IF j \in js THEN 0 ELSE notices[j]]
        /\ pipeEdge' = [j \in Children |-> pipeEdge[j] /\ j \notin js]
    BY DEF Ends
  <1>2. PICK cs \in SUBSET Clients :
           /\ \A c \in Clients : c \in cs <=> at[c] = "served" /\ by[c] \in js
           /\ at' = [c \in Clients |-> IF c \in cs THEN "closed" ELSE at[c]]
           /\ by' = [c \in Clients |-> IF c \in cs THEN 0 ELSE by[c]]
    <2>1. UNION {ConnsOf(j) : j \in js} \in SUBSET Clients
      BY DEF ConnsOf
    <2>2. \A c \in Clients : c \in UNION {ConnsOf(j) : j \in js} <=> at[c] = "served" /\ by[c] \in js
      BY DEF ConnsOf
    <2>3. QED
      BY <2>1, <2>2 DEF Ends, Close
  <1>3. ChildTypes'
    BY <1>1, <1>t DEF Held, ChildTypes
  <1>4. ConnTypes'
    <2>1. 0 \in Children
      BY PoolAssumption DEF Children
    <2>2. at' \in [Clients -> {"away", "backlog", "served", "closed"}]
      BY <1>2, <1>t DEF Held, ConnTypes
    <2>3. by' \in [Clients -> Children]
      BY <1>2, <2>1, <1>t DEF Held, ConnTypes
    <2>4. QED
      BY <2>2, <2>3, <1>t DEF Held, ConnTypes
  <1>5. Queued'
    <2>1. \A c \in Clients : at'[c] = "backlog" <=> at[c] = "backlog"
      BY <1>2
    <2>2. QED
      BY <2>1, <1>t DEF Held, Queued
  <1>6. Attached'
    <2>1. \A c \in Clients : at'[c] = "served" => at[c] = "served" /\ by'[c] = by[c] /\ by[c] \notin js
      BY <1>2
    <2>2. \A c \in Clients : by[c] \in Children
      BY <1>t DEF Held, ConnTypes
    <2>3. \A c \in Clients : at'[c] = "served" => child'[by'[c]] = "loop"
      BY <2>1, <2>2, <1>1, <1>t DEF Held, Attached
    <2>4. \A j \in Children : woken'[j] # {} => child'[j] = "loop"
      BY <1>1, <1>t DEF Held, Attached
    <2>5. ASSUME NEW j \in Children, NEW c \in Clients, <<"conn", c>> \in woken'[j]
          PROVE  at'[c] = "served" /\ by'[c] = j
      <3>1. j \notin js /\ <<"conn", c>> \in woken[j]
        BY <2>5, <1>1
      <3>2. at[c] = "served" /\ by[c] = j
        BY <3>1, <1>t DEF Held, Attached
      <3>3. QED
        BY <3>1, <3>2, <1>2
    <2>6. QED
      BY <2>3, <2>4, <2>5 DEF Attached
  <1>7. Noticed'
    <2>1. notices' \in [Children -> Nat]
      BY <1>1, <1>t DEF Held, Noticed
    <2>2. pipeEdge' \in [Children -> BOOLEAN]
      BY <1>1
    <2>3. \A j \in Children : j \in js => ~pipeEdge'[j] /\ woken'[j] = {}
      BY <1>1
    <2>4. \A j \in Children : j \notin js =>
             notices'[j] = notices[j] /\ woken'[j] = woken[j] /\ (pipeEdge'[j] => pipeEdge[j])
      BY <1>1
    <2>5. QED
      BY <2>1, <2>2, <2>3, <2>4, <1>t DEF Held, Noticed
  <1>8. QED
    BY <1>3, <1>4, <1>5, <1>6, <1>7 DEF Held

(* A client connects, and waits in the backlog. *)
LEMMA ConnectHeld ==
    ASSUME PInv, NEW c \in Clients, Connect(c)
    PROVE  Held'
  <1>t. Held
    BY DEF PInv, Held
  <1>1. /\ at' = [at EXCEPT ![c] = "backlog"] /\ at[c] = "away"
        /\ backlog' = Append(backlog, c)
        /\ UNCHANGED <<childVars, by, pipes>>
    BY DEF Connect
  <1>2. c \notin ToSet(backlog) /\ backlog \in Seq(Clients) /\ IsInjective(backlog)
    BY <1>1, <1>t DEF Held, Queued, ConnTypes
  <1>3. backlog' \in Seq(Clients) /\ ToSet(backlog') = ToSet(backlog) \cup {c} /\ IsInjective(backlog')
    BY <1>1, <1>2, PushAdds, PushKeepsInjective
  <1>4. \A d \in Clients : at'[d] = IF d = c THEN "backlog" ELSE at[d]
    BY <1>1, <1>t DEF Held, ConnTypes
  <1>5. at' \in [Clients -> {"away", "backlog", "served", "closed"}]
    BY <1>1, <1>t DEF Held, ConnTypes
  <1>6. Queued'
    BY <1>3, <1>4, <1>t DEF Held, Queued
  <1>7. Attached'
    BY <1>1, <1>4, <1>t DEF Held, Attached, childVars
  <1>8. QED
    BY <1>1, <1>3, <1>5, <1>6, <1>7, <1>t DEF Held, ChildTypes, ConnTypes, Noticed, childVars, pipes

(* A child waits for its events: each becomes something to do. *)
LEMMA WaitHeld ==
    ASSUME PInv, NEW j \in Children, ChildWait(j)
    PROVE  Held'
  <1>t. Held
    BY DEF PInv, Held
  <1>1. PICK ready \in SUBSET Events :
           /\ child[j] = "loop" /\ woken[j] = {}
           /\ woken' = [woken EXCEPT ![j] = ready]
           /\ <<"pipe">> \in ready => pipeEdge[j]
           /\ \A c \in Clients : <<"conn", c>> \in ready => at[c] = "served" /\ by[c] = j
           /\ pipeEdge' = [pipeEdge EXCEPT ![j] = FALSE]
           /\ UNCHANGED <<child, at, by, backlog, notices>>
    <2> DEFINE ready == (IF pipeEdge[j] THEN {<<"pipe">>} ELSE {}) \cup
                        (IF childSigs[j] # {} THEN {<<"signal">>} ELSE {}) \cup
                        {<<"conn", c>> : c \in edge \cap ConnsOf(j)}
    <2>1. ready \in SUBSET Events
      BY DEF Events, ConnsOf
    <2>2. <<"pipe">> \in ready => pipeEdge[j]
      OBVIOUS
    <2>3. \A c \in Clients : <<"conn", c>> \in ready => at[c] = "served" /\ by[c] = j
      BY DEF ConnsOf
    <2>4. QED
      BY <2>1, <2>2, <2>3 DEF ChildWait, listening
  <1>2. \A k \in Children : woken'[k] = IF k = j THEN ready ELSE woken[k]
    BY <1>1, <1>t DEF Held, ChildTypes
  <1>3. ChildTypes'
    BY <1>1, <1>t DEF Held, ChildTypes
  <1>4. Attached'
    BY <1>1, <1>2, <1>t DEF Held, Attached
  <1>5. Noticed'
    <2>1. pipeEdge' \in [Children -> BOOLEAN]
      BY <1>1, <1>t DEF Held, Noticed
    <2>2. \A k \in Children : k # j => pipeEdge'[k] = pipeEdge[k] /\ woken'[k] = woken[k]
      BY <1>1, <1>2, <1>t DEF Held, Noticed
    <2>3. ~pipeEdge'[j] /\ (<<"pipe">> \in woken'[j] => pipeEdge[j])
      BY <1>1, <1>2, <1>t DEF Held, Noticed
    <2>4. QED
      BY <2>1, <2>2, <2>3, <1>1, <1>t DEF Held, Noticed
  <1>6. QED
    BY <1>1, <1>3, <1>4, <1>5, <1>t DEF Held, ConnTypes, Queued

(* A child handles an event: this one is gone from its array, the others stay. *)
LEMMA HandlesStep ==
    ASSUME ChildTypes, NEW j \in Children, NEW event, Handles(j, event)
    PROVE  /\ event \in woken[j]
           /\ woken' \in [Children -> SUBSET Events]
           /\ \A k \in Children : woken'[k] = IF k = j THEN woken[j] \ {event} ELSE woken[k]
  BY DEF ChildTypes, Handles

(* A notification is read, and the first of the backlog is served by the child
   that has read it. *)
LEMMA NoticeHeld ==
    ASSUME PInv, NEW j \in Children, Notice(j)
    PROVE  Held'
  <1>t. Held
    BY DEF PInv, Held
  <1>1. /\ <<"pipe">> \in woken[j]
        /\ woken' \in [Children -> SUBSET Events]
        /\ \A k \in Children : woken'[k] = IF k = j THEN woken[j] \ {<<"pipe">>} ELSE woken[k]
    BY <1>t, HandlesStep DEF Held, Notice
  <1>2. /\ notices' = [notices EXCEPT ![j] = notices[j] - 1]
        /\ UNCHANGED <<child, pipeEdge>>
    BY DEF Notice
  <1>3. ChildTypes'
    BY <1>1, <1>2, <1>t DEF Held, ChildTypes
  <1>4. Noticed'
    <2>1. notices[j] \in Nat \ {0} /\ (pipeEdge[j] => notices[j] > 1)
      BY <1>1, <1>t DEF Held, Noticed
    <2>2. notices' \in [Children -> Nat] /\ notices'[j] = notices[j] - 1
          /\ \A k \in Children : k # j => notices'[k] = notices[k]
      BY <1>2, <2>1, <1>t DEF Held, Noticed
    <2>3. <<"pipe">> \notin woken'[j] /\ \A k \in Children : k # j => woken'[k] = woken[k]
      BY <1>1
    <2>4. \A k \in Children : k # j =>
             /\ pipeEdge'[k] => notices'[k] > 0
             /\ <<"pipe">> \in woken'[k] => notices'[k] > 0
             /\ pipeEdge'[k] /\ <<"pipe">> \in woken'[k] => notices'[k] > 1
      BY <1>2, <2>2, <2>3, <1>t DEF Held, Noticed
    <2>5. pipeEdge'[j] => notices'[j] > 0
      BY <1>2, <2>1, <2>2
    <2>6. pipeEdge' \in [Children -> BOOLEAN]
      BY <1>2, <1>t DEF Held, Noticed
    <2>7. QED
      BY <2>2, <2>3, <2>4, <2>5, <2>6 DEF Noticed
  <1>5. \A k \in Children, c \in Clients : <<"conn", c>> \in woken'[k] <=> <<"conn", c>> \in woken[k]
    BY <1>1
  <1>6. \A k \in Children : woken'[k] # {} => child'[k] = "loop"
    BY <1>1, <1>2, <1>t DEF Held, Attached
  <1>7. CASE backlog = << >>
    <2>1. UNCHANGED <<backlog, at, by>>
      BY <1>7 DEF Notice
    <2>2. ConnTypes' /\ Queued'
      BY <2>1, <1>t DEF Held, ConnTypes, Queued
    <2>3. Attached'
      BY <1>2, <1>5, <1>6, <2>1, <1>t DEF Held, Attached
    <2>4. QED
      BY <1>3, <1>4, <2>2, <2>3 DEF Held
  <1>8. CASE backlog # << >>
    <2>1. PICK c : c = Head(backlog)
      OBVIOUS
    <2>2. /\ backlog' = Tail(backlog)
          /\ at' = [at EXCEPT ![c] = "served"]
          /\ by' = [by EXCEPT ![c] = j]
      BY <1>8, <2>1 DEF Notice
    <2>3. backlog \in Seq(Clients) /\ IsInjective(backlog)
      BY <1>t DEF Held, ConnTypes, Queued
    <2>4. /\ c \in ToSet(backlog) /\ ToSet(backlog') = ToSet(backlog) \ {c}
          /\ IsInjective(backlog')
      BY <1>8, <2>1, <2>2, <2>3, PopRemoves
    <2>5. c \in Clients /\ backlog' \in Seq(Clients)
      BY <1>8, <2>1, <2>2, <2>3
    <2>6. /\ at' \in [Clients -> {"away", "backlog", "served", "closed"}]
          /\ by' \in [Clients -> Children]
          /\ \A d \in Clients : /\ at'[d] = IF d = c THEN "served" ELSE at[d]
                                /\ by'[d] = IF d = c THEN j ELSE by[d]
      BY <2>2, <2>5, <1>t DEF Held, ConnTypes
    <2>7. ConnTypes'
      BY <2>5, <2>6 DEF ConnTypes
    <2>8. Queued'
      BY <2>4, <2>5, <2>6, <1>t DEF Held, Queued
    <2>9. Attached'
      <3>1. child[j] = "loop" /\ at[c] = "backlog"
        BY <1>1, <2>4, <2>5, <1>t DEF Held, Attached, Queued
      <3>2. \A k \in Children : <<"conn", c>> \notin woken'[k]
        BY <1>5, <2>5, <3>1, <1>t DEF Held, Attached
      <3>3. \A d \in Clients : at'[d] = "served" => child'[by'[d]] = "loop"
        BY <1>2, <2>6, <3>1, <1>t DEF Held, Attached
      <3>4. QED
        BY <1>5, <1>6, <2>6, <3>2, <3>3, <1>t DEF Held, Attached
    <2>10. QED
      BY <1>3, <1>4, <2>7, <2>8, <2>9 DEF Held
  <1>9. QED
    BY <1>7, <1>8

(* A child reads its signals, or a connection, which it may close. *)
LEMMA ReadsHeld ==
    ASSUME PInv, NEW j \in Children,
           ChildSignals(j) \/ \E c \in Clients : Process(j, c)
    PROVE  Held'
  <1>t. Held
    BY DEF PInv, Held
  <1> USE DEF pipes, listening
  <1>1. UNCHANGED <<child, backlog, notices, pipeEdge>>
    BY DEF ChildSignals, Process
  <1>2. PICK event : event \in Events \ {<<"pipe">>} /\ Handles(j, event)
    BY DEF ChildSignals, Process, Events
  <1>3. /\ event \in woken[j]
        /\ woken' \in [Children -> SUBSET Events]
        /\ \A k \in Children : woken'[k] = IF k = j THEN woken[j] \ {event} ELSE woken[k]
    BY <1>t, <1>2, HandlesStep DEF Held
  <1>4. ChildTypes' /\ Noticed'
    BY <1>1, <1>2, <1>3, <1>t DEF Held, ChildTypes, Noticed
  <1>5. \A k \in Children : woken'[k] \subseteq woken[k]
    BY <1>3
  <1>6. CASE UNCHANGED <<at, by>>
    <2>1. ConnTypes' /\ Queued'
      BY <1>1, <1>6, <1>t DEF Held, ConnTypes, Queued
    <2>2. Attached'
      BY <1>1, <1>5, <1>6, <1>t DEF Held, Attached
    <2>3. QED
      BY <1>4, <2>1, <2>2 DEF Held
  <1>7. ASSUME NEW c \in Clients, Process(j, c), ~UNCHANGED <<at, by>>
        PROVE  Held'
    <2>1. /\ at' = [d \in Clients |-> IF d \in {c} THEN "closed" ELSE at[d]]
          /\ by' = [d \in Clients |-> IF d \in {c} THEN 0 ELSE by[d]]
      BY <1>7 DEF Process, Close
    <2>2. <<"conn", c>> \in woken[j]
          /\ \A k \in Children : woken'[k] = IF k = j THEN woken[j] \ {<<"conn", c>>} ELSE woken[k]
      BY <1>7, <1>t, HandlesStep DEF Held, Process
    <2>3. at[c] = "served" /\ by[c] = j
      BY <2>2, <1>t DEF Held, Attached
    <2>4. 0 \in Children
      BY PoolAssumption DEF Children
    <2>5. at' \in [Clients -> {"away", "backlog", "served", "closed"}]
      BY <2>1, <1>t DEF Held, ConnTypes
    <2>6. by' \in [Clients -> Children]
      BY <2>1, <2>4, <1>t DEF Held, ConnTypes
    <2>7. ConnTypes'
      BY <1>1, <2>5, <2>6, <1>t DEF Held, ConnTypes
    <2>8. \A d \in Clients : d # c => at'[d] = at[d] /\ by'[d] = by[d]
      BY <2>1
    <2>9. at'[c] = "closed"
      BY <2>1
    <2>10. Queued'
      BY <1>1, <2>3, <2>8, <2>9, <1>t DEF Held, Queued
    <2>11. Attached'
      <3>1. \A k \in Children : <<"conn", c>> \notin woken'[k]
        BY <2>2, <2>3, <1>t DEF Held, Attached
      <3>2. QED
        BY <1>1, <1>5, <2>8, <2>9, <3>1, <1>t DEF Held, Attached
    <2>12. QED
      BY <1>4, <2>7, <2>10, <2>11 DEF Held
  <1>8. ChildSignals(j) => UNCHANGED <<at, by>>
    BY DEF ChildSignals, connVars
  <1>9. QED
    BY <1>6, <1>7, <1>8

(* The parent notifies a child. *)
LEMMA NotifyHeld ==
    ASSUME PInv, Notify
    PROVE  Held'
  <1>t. Held
    BY DEF PInv, Held
  <1>1. UNCHANGED <<child, woken, at, by, backlog>>
    BY DEF Notify, childVars, connVars, listening
  <1>2. PICK j : j = NextKnown
    OBVIOUS
  <1>3. \/ UNCHANGED <<notices, pipeEdge>>
        \/ /\ notices' = [notices EXCEPT ![j] = notices[j] + 1]
           /\ pipeEdge' = [pipeEdge EXCEPT ![j] = TRUE]
    BY <1>2 DEF Notify, pipes
  <1>4. j \in Children
    BY <1>2, NextIsKnown DEF Notify, PInv, ParentTypes, StopMeansReaped
  <1>5. Noticed'
    <2>1. CASE UNCHANGED <<notices, pipeEdge>>
      BY <1>1, <2>1, <1>t DEF Held, Noticed
    <2>2. CASE ~UNCHANGED <<notices, pipeEdge>>
      <3>1. /\ notices' = [notices EXCEPT ![j] = notices[j] + 1]
            /\ pipeEdge' = [pipeEdge EXCEPT ![j] = TRUE]
        BY <2>2, <1>3
      <3>2. pipeEdge' \in [Children -> BOOLEAN]
        BY <3>1, <1>t DEF Held, Noticed
      <3>3. /\ notices' \in [Children -> Nat] /\ notices'[j] = notices[j] + 1
            /\ \A k \in Children : k # j => notices'[k] = notices[k] /\ pipeEdge'[k] = pipeEdge[k]
        BY <3>1, <1>4, <1>t DEF Held, Noticed
      <3>4. <<"pipe">> \in woken[j] => notices[j] > 0
        BY <1>4, <1>t DEF Held, Noticed
      <3>5. notices[j] \in Nat
        BY <1>4, <1>t DEF Held, Noticed
      <3>6. notices'[j] > 0 /\ (<<"pipe">> \in woken'[j] => notices'[j] > 1)
        BY <1>1, <3>3, <3>4, <3>5
      <3>7. \A k \in Children : k # j =>
               /\ pipeEdge'[k] => notices'[k] > 0
               /\ <<"pipe">> \in woken'[k] => notices'[k] > 0
               /\ pipeEdge'[k] /\ <<"pipe">> \in woken'[k] => notices'[k] > 1
        BY <1>1, <3>3, <1>t DEF Held, Noticed
      <3>8. QED
        BY <3>2, <3>3, <3>6, <3>7 DEF Noticed
    <2>3. QED
      BY <2>1, <2>2
  <1>6. QED
    BY <1>1, <1>5, <1>t DEF Held, ChildTypes, ConnTypes, Queued, Attached

(* A child that starts or has been waited for had no events to handle. *)
LEMMA ChildMoves ==
    ASSUME PInv, UNCHANGED <<woken, at, by, backlog, notices, pipeEdge>>,
           child' \in [Children -> {"start", "loop", "zombie", "reaped"}],
           \A j \in Children : child[j] = "loop" => child'[j] = "loop"
    PROVE  Held'
  <1>t. Held
    BY DEF PInv, Held
  <1>1. \A c \in Clients : by[c] \in Children
    BY <1>t DEF Held, ConnTypes
  <1>2. Attached'
    BY <1>1, <1>t DEF Held, Attached
  <1>3. QED
    BY <1>2, <1>t DEF Held, ChildTypes, ConnTypes, Queued, Noticed

LEMMA HeldStep == PInv /\ [Next]_vars => Held'
  <1> SUFFICES ASSUME PInv, [Next]_vars PROVE Held'
    OBVIOUS
  <1>t. Held
    BY DEF PInv, Held
  <1> USE DEF childVars, connVars, listening, pipes
  <1>1. CASE UNCHANGED <<child, woken, at, by, backlog, notices, pipeEdge>>
    BY <1>1, <1>t, ChildMoves DEF Held, ChildTypes
  <1>2. ASSUME NEW c \in Clients, Send(c) \/ Leave(c)
        PROVE  UNCHANGED <<child, woken, at, by, backlog, notices, pipeEdge>>
    BY <1>2 DEF Send, Leave
  <1>3. ASSUME NEW j \in Children, Die(j) \/ ChildEnds(j) PROVE Held'
    <2>1. Ends({j}) /\ UNCHANGED backlog
      BY <1>3 DEF Die, ChildEnds
    <2>2. QED
      BY <2>1, EndsHeld
  <1>4. CASE OnTerm
    <2>1. PICK js : js = {j \in known : child[j] = "start"}
      OBVIOUS
    <2>2. js \in SUBSET Children
      BY <2>1 DEF PInv, StopMeansReaped
    <2>3. Ends(js) /\ UNCHANGED backlog
      BY <1>4, <2>1 DEF OnTerm
    <2>4. QED
      BY <2>2, <2>3, EndsHeld
  <1>5. CASE OnChld
    <2>1. /\ child' = [j \in Children |-> IF j \in Zombies THEN "reaped" ELSE child[j]]
          /\ UNCHANGED <<woken, at, by, backlog, notices, pipeEdge>>
      BY <1>5 DEF OnChld
    <2>2. child' \in [Children -> {"start", "loop", "zombie", "reaped"}]
      BY <2>1, <1>t DEF Held, ChildTypes
    <2>3. \A j \in Children : child[j] = "loop" => child'[j] = "loop"
      BY <2>1 DEF Zombies
    <2>4. QED
      BY <2>1, <2>2, <2>3, ChildMoves
  <1>6. ASSUME NEW j \in Children, ChildSetup(j) PROVE Held'
    <2>1. /\ child' = [child EXCEPT ![j] = "loop"]
          /\ UNCHANGED <<woken, at, by, backlog, notices, pipeEdge>>
      BY <1>6 DEF ChildSetup
    <2>2. /\ child' \in [Children -> {"start", "loop", "zombie", "reaped"}]
          /\ \A k \in Children : child[k] = "loop" => child'[k] = "loop"
      BY <2>1, <1>t DEF Held, ChildTypes
    <2>3. QED
      BY <2>1, <2>2, ChildMoves
  <1>7. ASSUME NEW j \in Children, ProgramExits(j)
        PROVE  UNCHANGED <<child, woken, at, by, backlog, notices, pipeEdge>>
    BY <1>7 DEF ProgramExits
  <1>8. CASE Term \/ Setup \/ EpollWait \/ NotifyNobody \/ OnSignals \/ ParentEnds \/ UNCHANGED vars
    BY <1>8, <1>1 DEF Term, Setup, EpollWait, NotifyNobody, OnSignals, ParentEnds, vars
  <1>9. QED
    BY <1>1, <1>2, <1>3, <1>4, <1>5, <1>6, <1>7, <1>8,
       ConnectHeld, WaitHeld, NoticeHeld, ReadsHeld, NotifyHeld
    DEF Next, ParentStep, ChildStep

LEMMA PInvStep == PInv /\ [Next]_vars => PInv'
  BY KnownStep, HeldStep DEF PInv, Held

-------------------------------------------------------------------------------
(* The theorems. *)

(* A child that is told of a notification finds one to read, so that it never
   accepts unasked; connections in service belong to children that run; the
   round of the parent stays within its children. *)
THEOREM ProcessPoolTypes == Spec => []TypeOK
  <1>1. PInv => TypeOK
    <2> SUFFICES ASSUME PInv PROVE TypeOK
      OBVIOUS
    <2>1. \A j \in Children : pipeEdge[j] \/ <<"pipe">> \in woken[j] => notices[j] > 0
      BY DEF PInv, Noticed
    <2>2. \A c \in Clients : at[c] = "backlog" <=> c \in ToSet(backlog)
      BY DEF PInv, Queued
    <2>3. \A c \in Clients : at[c] = "served" => child[by[c]] = "loop"
      BY DEF PInv, Attached
    <2>4. QED
      BY <2>1, <2>2, <2>3 DEF PInv, ParentTypes, ChildTypes, TypeOK
  <1>2. QED
    BY PInvInit, PInvStep, <1>1, PTL DEF Spec

(* The parent knows exactly the children it has not waited for, although several
   SIGCHLDs become one and children die before it has a handler, and is about to
   leave its loop only when there is none. *)
THEOREM ProcessPoolStopMeansReaped == Spec => []StopMeansReaped
  <1>1. PInv => StopMeansReaped
    BY DEF PInv
  <1>2. QED
    BY PInvInit, PInvStep, <1>1, PTL DEF Spec
===============================================================================
