---------------------------- MODULE WebServerProofs ----------------------------
(***************************************************************************)
(* Machine-checked facts about WebServer, for any sets of descriptors,     *)
(* connections and workers, any MAX_FD and any m_max_requests.             *)
(*                                                                         *)
(* The first part is about who has a connection in hand, for a document    *)
(* root without empty files: only the response to an empty file makes a    *)
(* worker call close_conn, and then arm a descriptor that is no longer its *)
(* own.  The second part has workers close connections too, and assumes    *)
(* instead that init() and close_conn do not overlap.                      *)
(***************************************************************************)
EXTENDS WebServer, ContainerLemmas

NoEmptyFile == EmptyFiles = "never"

-------------------------------------------------------------------------------
(* The inductive invariant of the server without empty files. *)

(* Who has users[f] in hand, as in Holders, without counting. *)
InBatch(f) == \E e \in batch : e.fd = f
InQueue(f) == f \in ToSet(queue)
WithWorker(f) == \E w \in Workers : pc[w] # "idle" /\ slot[w] = f
MainAt(f, labels) == pc[Main] \in labels /\ slot[Main] = f
WithMain(f) == pc[Main] # "idle" /\ slot[Main] = f
Taken(f) == InBatch(f) \/ InQueue(f) \/ WithWorker(f)

SettingUp == {"init_sockfd", "init_addfd", "init_load", "init_store"}
Closed == {"close_mark", "close_load", "close_store"}

(* At most one of them has it. *)
Exclusive ==
    /\ \A d, e \in batch : d.fd = e.fd => d = e
    /\ IsInjective(queue)
    /\ \A v, w \in Workers :
          pc[v] # "idle" /\ pc[w] # "idle" /\ slot[v] = slot[w] => v = w
    /\ \A f \in Fds :
          /\ InBatch(f) => ~InQueue(f) /\ ~WithWorker(f)
          /\ InQueue(f) => ~WithWorker(f)
          /\ WithMain(f) => ~Taken(f)

(* The kernel's view of a descriptor, its object's and the main thread's place
   agree; what is taken is open and disarmed. *)
Settled ==
    /\ \A t \in Threads : pc[t] # "idle" => slot[t] \in Fds
    /\ \A w \in Workers : pc[w] \in WorkerLabels
    /\ \A f \in Fds :
          /\ Taken(f) => fdConn[f] # None /\ interest[f] = "off"
          /\ IF (fdConn[f] # None /\ ~MainAt(f, {"init_sockfd"})) \/ MainAt(f, {"close_mark"})
             THEN m_sockfd[f] = f ELSE m_sockfd[f] \in {NoFd, Unset}
          /\ interest[f] = "none" <=> fdConn[f] = None \/ MainAt(f, {"init_sockfd", "init_addfd"})
          /\ MainAt(f, SettingUp \cup {"append", "close"}) => fdConn[f] # None
          /\ MainAt(f, Closed) => fdConn[f] = None
          /\ MainAt(f, {"append"}) => interest[f] = "off"
          /\ MainAt(f, {"init_load", "init_store"}) => interest[f] = "in"
          /\ MainAt(f, {"close"}) => interest[f] \in {"off", "in"}

(* A response is pending from the end of process to the end of write. *)
Responses ==
    /\ \A f \in Fds :
          /\ interest[f] = "out" \/ [fd |-> f, event |-> "out"] \in batch => pending[f]
          /\ interest[f] = "in" => ~pending[f] \/ MainAt(f, {"init_load", "init_store", "close"})
          /\ [fd |-> f, event |-> "in"] \in batch \/ InQueue(f) \/ MainAt(f, {"append"}) =>
                ~pending[f]
    /\ \A w \in Workers :
          /\ pc[w] = "process" => ~pending[slot[w]]
          /\ pc[w] = "arm" => pending[slot[w]]

WInv == TypeOK /\ Exclusive /\ Settled /\ Responses

LEMMA WInvInit == Init => WInv
  <1> SUFFICES ASSUME Init PROVE WInv
    OBVIOUS
  <1> USE FdAssumption, ThreadAssumption, ConnAssumption DEF Init, Threads, ListenFd, NoFd
  <1>1. TypeOK
    <2>1. listenEdge \in BOOLEAN
      OBVIOUS
    <2>2. backlog \in Seq(Conns) /\ queue \in Seq(Fds)
      OBVIOUS
    <2>3. QED
      BY <2>1, <2>2 DEF TypeOK, Events, MainLabels, WorkerLabels, CloseLabels
  <1>2. \A f \in Fds : ~Taken(f) /\ ~WithMain(f)
    BY DEF Taken, InBatch, InQueue, WithWorker, WithMain, ToSet
  <1>3. Exclusive
    <2>1. IsInjective(queue)
      BY DEF IsInjective
    <2>2. QED
      BY <1>2, <2>1 DEF Exclusive, Taken
  <1>4. Settled
    BY <1>2 DEF Settled, MainAt, WorkerLabels, SettingUp, Closed
  <1>5. Responses
    BY DEF Responses, MainAt, InQueue, ToSet
  <1>6. QED
    BY <1>1, <1>3, <1>4, <1>5 DEF WInv

(* A connection's descriptor is neither the listening one nor any of the marks. *)
LEMMA FdNumbers == \A f \in Fds : f # ListenFd /\ f # NoFd /\ f # Unset
  BY FdAssumption DEF ListenFd, NoFd, Unset
LEMMA MarksDiffer == NoFd # Unset
  BY DEF NoFd, Unset

(* accept finds a descriptor that is free, if there is one. *)
LEMMA LowestFreeIsFree == FreeFds # {} => LowestFree \in FreeFds
  <1> SUFFICES ASSUME FreeFds # {} PROVE LowestFree \in FreeFds
    OBVIOUS
  <1>1. FreeFds \in SUBSET Nat
    BY FdAssumption DEF FreeFds
  <1>2. \E f \in FreeFds : \A g \in FreeFds : f <= g
    BY <1>1, LeastNatural
  <1>3. QED
    BY <1>2 DEF LowestFree

(* Without an empty file no worker is in close_conn, nor goes there. *)
LEMMA WorkersDoNotClose ==
    ASSUME NoEmptyFile, Settled, NEW w \in Workers
    PROVE  ~CloseConn(w) /\ ~ProcessFails(w)
  <1>1. pc[w] \in WorkerLabels
    BY DEF Settled
  <1>2. QED
    BY <1>1 DEF WorkerLabels, NoEmptyFile, ProcessFails,
                CloseConn, CloseFd, CloseMark, CloseLoad, CloseStore

(* The parts of TypeOK about the control of the threads. *)
ControlTypes ==
    /\ pc \in [Threads -> MainLabels \cup WorkerLabels \cup CloseLabels]
    /\ pc[Main] \in MainLabels \cup CloseLabels
    /\ \A w \in Workers : pc[w] \in WorkerLabels \cup CloseLabels
    /\ slot \in [Threads -> Fds \cup {ListenFd}]
    /\ \A t \in Threads : pc[t] # "idle" => slot[t] \in Fds

LEMMA ThreadGoes ==
    ASSUME TypeOK, NEW t \in Threads, NEW label, NEW f \in Fds \cup {ListenFd},
           label \in CloseLabels \cup (IF t = Main THEN MainLabels ELSE WorkerLabels),
           label # "idle" => f \in Fds,
           Begin(t, f, label)
    PROVE  ControlTypes'
  BY ThreadAssumption DEF TypeOK, Begin, Threads, ControlTypes

(* Types. *)
LEMMA TypesStep == TypeOK /\ [Next]_vars => TypeOK'
  <1> SUFFICES ASSUME TypeOK, [Next]_vars PROVE TypeOK'
    OBVIOUS
  <1> USE FdAssumption, ThreadAssumption
          DEF TypeOK, Threads, MainLabels, WorkerLabels, CloseLabels,
              Begin, Goto, End, kernel, users, threads
  <1>1. ASSUME NEW c \in Conns, Connect(c) \/ Send(c) \/ HangUp(c) PROVE TypeOK'
    <2>1. listenEdge' \in BOOLEAN
      BY <1>1 DEF Connect, Send, HangUp
    <2>2. CASE Connect(c)
      BY <2>1, <2>2 DEF Connect
    <2>3. CASE Send(c) \/ HangUp(c)
      BY <2>1, <2>3 DEF Send, HangUp
    <2>4. QED
      BY <1>1, <2>2, <2>3
  <1>2. CASE EpollWait
    <2>1. listenEdge' \in BOOLEAN
      BY <1>2 DEF EpollWait, Disarm, Events, Armed
    <2>2. QED
      BY <1>2, <2>1 DEF EpollWait, Disarm, Events, Armed
  <1>3. CASE AcceptFails
    <2>1. listenEdge' \in BOOLEAN
      BY <1>3 DEF AcceptFails, Dispatch
    <2>2. QED
      BY <1>3, <2>1 DEF AcceptFails, Dispatch
  <1>4. CASE AcceptBusy
    <2>1. listenEdge' \in BOOLEAN
      BY <1>4 DEF AcceptBusy, Dispatch, Forget
    <2>2. QED
      BY <1>4, <2>1 DEF AcceptBusy, Dispatch, Forget
  <1>5. CASE Accept
    <2>1. listenEdge' \in BOOLEAN
      BY <1>5 DEF Accept, Dispatch
    <2>2. LowestFree \in Fds
      BY <1>5, LowestFreeIsFree DEF Accept, FreeFds
    <2>3. Head(backlog) \in Conns /\ Tail(backlog) \in Seq(Conns)
      BY <1>5 DEF Accept
    <2>4. QED
      BY <1>5, <2>1, <2>2, <2>3 DEF Accept, Dispatch
  <1>6. CASE InitSockfd
    <2>1. listenEdge' \in BOOLEAN
      BY <1>6 DEF InitSockfd
    <2>2. QED
      BY <1>6, <2>1 DEF InitSockfd
  <1>7. CASE InitAddfd
    <2>1. listenEdge' \in BOOLEAN
      BY <1>7 DEF InitAddfd
    <2>2. QED
      BY <1>7, <2>1 DEF InitAddfd
  <1>8. CASE InitLoad
    <2>1. listenEdge' \in BOOLEAN
      BY <1>8 DEF InitLoad
    <2>2. QED
      BY <1>8, <2>1 DEF InitLoad
  <1>9. CASE InitStore
    <2>1. listenEdge' \in BOOLEAN
      BY <1>9 DEF InitStore, Reset
    <2>2. QED
      BY <1>9, <2>1 DEF InitStore, Reset
  <1>10. ASSUME NEW f \in Fds, OnHangUp(f) \/ OnReadFails(f) PROVE TypeOK'
    <2>1. listenEdge' \in BOOLEAN
      BY <1>10 DEF OnHangUp, OnReadFails, Dispatch
    <2>2. CASE OnHangUp(f)
      BY <2>1, <2>2 DEF OnHangUp, Dispatch
    <2>3. CASE OnReadFails(f)
      BY <2>1, <2>3 DEF OnReadFails, Dispatch
    <2>4. QED
      BY <1>10, <2>2, <2>3
  <1>11. ASSUME NEW f \in Fds, OnReadable(f) PROVE TypeOK'
    <2>1. listenEdge' \in BOOLEAN
      BY <1>11 DEF OnReadable, Dispatch
    <2>2. QED
      BY <1>11, <2>1 DEF OnReadable, Dispatch
  <1>12. ASSUME NEW f \in Fds, OnWritable(f) PROVE TypeOK'
    <2>1. listenEdge' \in BOOLEAN
      BY <1>12 DEF OnWritable, Dispatch, WriteNothing, WriteAgain, WriteFails, WriteDone, Rearm, Reset
    <2>2. CASE WriteNothing(f)
      BY <1>12, <2>1, <2>2 DEF OnWritable, Dispatch, WriteNothing, Rearm, Reset
    <2>3. CASE WriteAgain(f)
      BY <1>12, <2>1, <2>3 DEF OnWritable, Dispatch, WriteAgain, Rearm
    <2>4. CASE WriteFails(f)
      BY <1>12, <2>1, <2>4 DEF OnWritable, Dispatch, WriteFails
    <2>5. CASE WriteDone(f)
      <3>1. CASE m_linger[f]
        BY <1>12, <2>1, <2>5, <3>1 DEF OnWritable, Dispatch, WriteDone, Rearm, Reset
      <3>2. CASE ~m_linger[f]
        <4>1. ControlTypes'
          BY <2>5, <3>2, ThreadGoes DEF WriteDone
        <4>2. QED
          BY <1>12, <2>1, <2>5, <3>2, <4>1 DEF OnWritable, Dispatch, WriteDone, Rearm, ControlTypes
      <3>3. QED
        BY <3>1, <3>2
    <2>6. QED
      BY <1>12, <2>2, <2>3, <2>4, <2>5 DEF OnWritable
  <1>13. CASE AppendRequest
    <2>1. listenEdge' \in BOOLEAN
      BY <1>13 DEF AppendRequest
    <2>2. QED
      BY <1>13, <2>1 DEF AppendRequest
  <1>14. ASSUME NEW w \in Workers, Take(w) PROVE TypeOK'
    <2>1. listenEdge' \in BOOLEAN
      BY <1>14 DEF Take
    <2>2. QED
      BY <1>14, <2>1 DEF Take
  <1>15. ASSUME NEW w \in Workers, ProcessIncomplete(w) PROVE TypeOK'
    <2>1. listenEdge' \in BOOLEAN
      BY <1>15 DEF ProcessIncomplete, Rearm
    <2>2. QED
      BY <1>15, <2>1 DEF ProcessIncomplete, Rearm
  <1>16. ASSUME NEW w \in Workers, ProcessReply(w) PROVE TypeOK'
    <2>1. listenEdge' \in BOOLEAN
      BY <1>16 DEF ProcessReply
    <2>2. QED
      BY <1>16, <2>1 DEF ProcessReply
  <1>17. ASSUME NEW w \in Workers, ProcessArm(w) PROVE TypeOK'
    <2>1. listenEdge' \in BOOLEAN
      BY <1>17 DEF ProcessArm, Rearm
    <2>2. QED
      BY <1>17, <2>1 DEF ProcessArm, Rearm
  <1>18. ASSUME NEW t \in Threads, CloseFd(t) PROVE TypeOK'
    <2>1. listenEdge' \in BOOLEAN
      BY <1>18 DEF CloseFd, AfterClose, Forget
    <2>2. pc[t] = "close" /\ slot[t] \in Fds
      BY <1>18 DEF CloseFd
    <2>3. ControlTypes'
      <3>1. \E label \in {"idle", "arm", "close_mark"}, f \in {slot[t], ListenFd} :
               /\ Begin(t, f, label)
               /\ label # "close_mark" => label = IF t = Main THEN "idle" ELSE "arm"
               /\ label # "idle" => f = slot[t]
        BY <1>18 DEF CloseFd, AfterClose
      <3>2. PICK label \in {"idle", "arm", "close_mark"}, f \in Fds \cup {ListenFd} :
               /\ Begin(t, f, label)
               /\ label # "close_mark" => label = IF t = Main THEN "idle" ELSE "arm"
               /\ label # "idle" => f \in Fds
        BY <2>2, <3>1
      <3>3. label \in CloseLabels \cup (IF t = Main THEN MainLabels ELSE WorkerLabels)
        BY <3>2
      <3>4. QED
        BY <3>2, <3>3, ThreadGoes
    <2>4. /\ fdConn' \in [Fds -> Conns \cup {None}]
          /\ interest' \in [Fds -> {"none", "off", "in", "out"}]
          /\ unread' \subseteq unread /\ hungUp' \subseteq hungUp
          /\ UNCHANGED <<started, backlog, users, queue, batch, count>>
      BY <1>18 DEF CloseFd, Forget
    <2>5. QED
      BY <2>1, <2>3, <2>4 DEF ControlTypes
  <1>19. ASSUME NEW t \in Threads, CloseMark(t) \/ CloseLoad(t) PROVE TypeOK'
    <2>1. listenEdge' \in BOOLEAN
      BY <1>19 DEF CloseMark, CloseLoad
    <2>2. pc[t] # "idle" /\ slot[t] \in Fds
      BY <1>19 DEF CloseMark, CloseLoad
    <2>3. ControlTypes'
      BY <1>19, <2>2, ThreadGoes DEF CloseMark, CloseLoad
    <2>4. QED
      BY <1>19, <2>1, <2>3 DEF CloseMark, CloseLoad, ControlTypes
  <1>20. ASSUME NEW t \in Threads, CloseStore(t) PROVE TypeOK'
    <2>1. listenEdge' \in BOOLEAN
      BY <1>20 DEF CloseStore, AfterClose
    <2>2. pc[t] # "idle" /\ slot[t] \in Fds
      BY <1>20 DEF CloseStore
    <2>3. ControlTypes'
      BY <1>20, <2>2, ThreadGoes DEF CloseStore, AfterClose
    <2>4. QED
      BY <1>20, <2>1, <2>3 DEF CloseStore, ControlTypes
  <1>21. ASSUME NEW w \in Workers, ProcessFails(w) PROVE TypeOK'
    <2>1. listenEdge' \in BOOLEAN
      BY <1>21 DEF ProcessFails
    <2>2. QED
      BY <1>21, <2>1 DEF ProcessFails
  <1>22. CASE UNCHANGED vars
    BY <1>22 DEF vars
  <1>23. QED
    BY <1>1, <1>2, <1>3, <1>4, <1>5, <1>6, <1>7, <1>8, <1>9, <1>10, <1>11,
       <1>12, <1>13, <1>14, <1>15, <1>16, <1>17, <1>18, <1>19, <1>20, <1>21, <1>22
    DEF Next, MainStep, WorkerStep, CloseConn
-------------------------------------------------------------------------------
(* One owner. *)

LEMMA ExclusiveStep == NoEmptyFile /\ WInv /\ [Next]_vars => Exclusive'
  <1> SUFFICES ASSUME NoEmptyFile, WInv, [Next]_vars PROVE Exclusive'
    OBVIOUS
  <1> USE FdNumbers, ThreadAssumption
          DEF Begin, Goto, End, kernel, users, threads, Threads
  <1>t. /\ pc \in [Threads -> MainLabels \cup WorkerLabels \cup CloseLabels]
        /\ slot \in [Threads -> Fds \cup {ListenFd}]
        /\ queue \in Seq(Fds) /\ batch \subseteq Events
    BY DEF WInv, TypeOK
  <1>x. Exclusive /\ Settled
    BY DEF WInv
  <1> USE DEF Exclusive, Taken, InBatch, InQueue, WithWorker, WithMain
  <1>1. ASSUME NEW c \in Conns, Connect(c) \/ Send(c) \/ HangUp(c) PROVE Exclusive'
    BY <1>1, <1>x DEF Connect, Send, HangUp
  <1>2. CASE EpollWait
    <2> DEFINE what(f) == IF fdConn[f] \in hungUp THEN "hup" ELSE interest[f]
               listen == IF listenEdge THEN {[fd |-> ListenFd, event |-> "in"]} ELSE {}
    <2>1. PICK fired \in SUBSET Armed :
             batch' = {[fd |-> f, event |-> what(f)] : f \in fired} \cup listen
      BY <1>2 DEF EpollWait
    <2>2. \A e \in batch' : \/ e.fd \in fired /\ e = [fd |-> e.fd, event |-> what(e.fd)]
                           \/ e = [fd |-> ListenFd, event |-> "in"]
      BY <2>1
    <2>3. ListenFd \notin fired /\ fired \subseteq Fds
      BY DEF Armed
    <2>4. \A d, e \in batch' : d.fd = e.fd => d = e
      BY <2>2, <2>3
    <2>5. \A f \in Fds : InBatch(f)' => ~Taken(f)
      BY <2>2, <1>x DEF Armed, Settled
    <2>6. UNCHANGED <<queue, pc, slot>> /\ pc[Main] = "idle"
      BY <1>2 DEF EpollWait
    <2>7. QED
      BY <2>4, <2>5, <2>6, <1>x
  <1>3. CASE AcceptFails \/ AcceptBusy
    BY <1>3, <1>x DEF AcceptFails, AcceptBusy, Dispatch
  <1>4. CASE Accept
    <2>1. LowestFree \in Fds /\ fdConn[LowestFree] = None
      BY <1>4, LowestFreeIsFree DEF Accept, FreeFds, Open
    <2>2. ~Taken(LowestFree)
      BY <2>1, <1>x DEF Settled
    <2>3. QED
      BY <1>4, <1>x, <1>t, <2>1, <2>2 DEF Accept, Dispatch
  <1>5. CASE InitSockfd \/ InitAddfd \/ InitLoad \/ InitStore
    BY <1>5, <1>x, <1>t DEF InitSockfd, InitAddfd, InitLoad, InitStore
  <1>6. ASSUME NEW f \in Fds, OnHangUp(f) \/ OnReadFails(f) \/ OnReadable(f) PROVE Exclusive'
    BY <1>6, <1>x, <1>t DEF OnHangUp, OnReadFails, OnReadable, Dispatch
  <1>7. ASSUME NEW f \in Fds, OnWritable(f) PROVE Exclusive'
    BY <1>7, <1>x, <1>t DEF OnWritable, Dispatch, WriteNothing, WriteAgain, WriteFails, WriteDone
  <1>8. CASE AppendRequest
    <2>1. slot[Main] \in Fds /\ ~Taken(slot[Main])
      BY <1>8, <1>x DEF AppendRequest, Settled
    <2>2. /\ batch' = batch /\ pc' = [pc EXCEPT ![Main] = "idle"]
          /\ \A w \in Workers : slot'[w] = slot[w]
      BY <1>8, <1>t DEF AppendRequest
    <2>3. /\ IsInjective(queue')
          /\ ToSet(queue') \subseteq ToSet(queue) \cup {slot[Main]}
      <3>1. CASE queue' = queue
        BY <3>1, <1>x
      <3>2. CASE queue' = Append(queue, slot[Main])
        BY <3>2, <2>1, <1>x, <1>t, PushAdds, PushKeepsInjective
      <3>3. QED
        BY <1>8, <3>1, <3>2 DEF AppendRequest
    <2>4. QED
      BY <2>1, <2>2, <2>3, <1>x, <1>t
  <1>9. ASSUME NEW w \in Workers, Take(w) PROVE Exclusive'
    <2>1. /\ Head(queue) \in ToSet(queue)
          /\ ToSet(Tail(queue)) = ToSet(queue) \ {Head(queue)}
          /\ IsInjective(Tail(queue))
      BY <1>9, <1>x, <1>t, PopRemoves DEF Take
    <2>2. Head(queue) \in Fds
      BY <1>9, <1>t DEF Take
    <2>3. QED
      BY <1>9, <1>x, <1>t, <2>1, <2>2 DEF Take
  <1>10. ASSUME NEW w \in Workers, ProcessIncomplete(w) \/ ProcessReply(w) \/ ProcessArm(w)
         PROVE Exclusive'
    BY <1>10, <1>x, <1>t DEF ProcessIncomplete, ProcessReply, ProcessArm
  <1>11. CASE CloseConn(Main)
    BY <1>11, <1>x, <1>t DEF CloseConn, CloseFd, CloseMark, CloseLoad, CloseStore, AfterClose
  <1>12. CASE UNCHANGED vars
    BY <1>12, <1>x DEF vars
  <1>13. QED
    BY <1>x, WorkersDoNotClose, <1>1, <1>2, <1>3, <1>4, <1>5, <1>6, <1>7, <1>8, <1>9, <1>10,
       <1>11, <1>12 DEF Next, MainStep, WorkerStep
-------------------------------------------------------------------------------
(* Kernel, object and threads agree. *)

LEMMA SettledStep == NoEmptyFile /\ WInv /\ [Next]_vars => Settled'
  <1> SUFFICES ASSUME NoEmptyFile, WInv, [Next]_vars PROVE Settled'
    OBVIOUS
  <1> USE FdNumbers, ThreadAssumption
          DEF Begin, Goto, End, kernel, users, threads, Threads
  <1>t. TypeOK
    BY DEF WInv
  <1>x. Exclusive /\ Settled
    BY DEF WInv
  <1> USE DEF TypeOK, Settled, Taken, InBatch, InQueue, WithWorker, WithMain, MainAt, WorkerLabels,
              SettingUp, Closed
  <1>1. ASSUME NEW c \in Conns, Connect(c) \/ Send(c) \/ HangUp(c) PROVE Settled'
    BY <1>1, <1>x DEF Connect, Send, HangUp
  <1>2. CASE EpollWait
    <2>1. PICK fired \in SUBSET Armed :
             /\ Disarm(fired)
             /\ \A e \in batch' : e.fd \in fired \cup {ListenFd}
      BY <1>2 DEF EpollWait
    <2>2. UNCHANGED <<fdConn, m_sockfd, queue, pc, slot>> /\ pc[Main] = "idle"
      BY <1>2 DEF EpollWait
    <2>3. \A f \in Fds : Taken(f)' => Taken(f) \/ f \in fired
      BY <2>1, <2>2
    <2>4. \A f \in fired : f \in Fds /\ interest[f] \in {"in", "out"}
      BY DEF Armed
    <2>5. interest' = [f \in Fds |-> IF f \in fired THEN "off" ELSE interest[f]]
      BY <2>1 DEF Disarm
    <2> HIDE DEF Taken
    <2>6. QED
      BY <2>2, <2>3, <2>4, <2>5, <1>x, <1>t
  <1>3. CASE AcceptFails \/ AcceptBusy
    BY <1>3, <1>x DEF AcceptFails, AcceptBusy, Dispatch
  <1>4. CASE Accept
    <2>1. LowestFree \in Fds /\ fdConn[LowestFree] = None
      BY <1>4, LowestFreeIsFree DEF Accept, FreeFds, Open
    <2>2. Head(backlog) # None
      BY <1>4, <1>t, ConnAssumption DEF Accept
    <2>3. QED
      BY <1>4, <1>x, <1>t, <2>1, <2>2 DEF Accept, Dispatch
  <1>5. CASE InitSockfd
    BY <1>5, <1>x, <1>t DEF InitSockfd
  <1>6. CASE InitAddfd
    BY <1>6, <1>x, <1>t DEF InitAddfd
  <1>7. CASE InitLoad \/ InitStore
    <2>1. \A f \in Fds : Taken(f)' = Taken(f)
      BY <1>7, <1>t DEF InitLoad, InitStore
    <2> HIDE DEF Taken
    <2>2. CASE InitLoad
      BY <2>1, <2>2, <1>x, <1>t DEF InitLoad
    <2>3. CASE InitStore
      BY <2>1, <2>3, <1>x, <1>t DEF InitStore
    <2>4. QED
      BY <1>7, <2>2, <2>3
  <1>8. ASSUME NEW f \in Fds, OnHangUp(f) \/ OnReadFails(f) \/ OnReadable(f) PROVE Settled'
    BY <1>8, <1>x, <1>t DEF OnHangUp, OnReadFails, OnReadable, Dispatch
  <1>9. ASSUME NEW f \in Fds, OnWritable(f) PROVE Settled'
    <2>1. /\ m_sockfd[f] = f /\ interest[f] = "off" /\ fdConn[f] # None
          /\ pc[Main] = "idle"
      BY <1>9, <1>x DEF OnWritable, Dispatch
    <2>2. /\ ~Taken(f)'
          /\ \A g \in Fds : Taken(g)' => Taken(g)
      <3>1. \A e \in batch' : e \in batch /\ e.fd # f
        BY <1>9, <1>x DEF OnWritable, Dispatch, Exclusive
      <3>2. queue' = queue /\ \A w \in Workers : pc'[w] = pc[w] /\ slot'[w] = slot[w]
        BY <1>9, <1>t DEF OnWritable, WriteNothing, WriteAgain, WriteFails, WriteDone
      <3>3. InBatch(f)
        BY <1>9 DEF OnWritable, Dispatch
      <3>4. QED
        BY <3>1, <3>2, <3>3, <1>x DEF Exclusive
    <2>3. UNCHANGED <<fdConn, m_sockfd>>
      BY <1>9 DEF OnWritable
    <2> HIDE DEF Taken
    <2>4. CASE WriteNothing(f) \/ WriteAgain(f)
      <3>1. UNCHANGED <<pc, slot>> /\ \E ev \in {"in", "out"} : interest' = [interest EXCEPT ![f] = ev]
        BY <2>1, <2>4 DEF WriteNothing, WriteAgain, Rearm
      <3>2. QED
        BY <2>1, <2>2, <2>3, <3>1, <1>x, <1>t
    <2>5. CASE WriteFails(f)
      BY <2>1, <2>2, <2>3, <2>5, <1>x, <1>t DEF WriteFails
    <2>6. CASE WriteDone(f)
      <3>1. interest' = [interest EXCEPT ![f] = "in"]
        BY <2>1, <2>6 DEF WriteDone, Rearm
      <3>2. \/ UNCHANGED <<pc, slot>>
            \/ pc' = [pc EXCEPT ![Main] = "close"] /\ slot' = [slot EXCEPT ![Main] = f]
        BY <2>6 DEF WriteDone
      <3>3. CASE UNCHANGED <<pc, slot>>
        BY <2>1, <2>2, <2>3, <3>1, <3>3, <1>x, <1>t
      <3>4. CASE pc' = [pc EXCEPT ![Main] = "close"] /\ slot' = [slot EXCEPT ![Main] = f]
        BY <2>1, <2>2, <2>3, <3>1, <3>4, <1>x, <1>t
      <3>5. QED
        BY <3>2, <3>3, <3>4
    <2>7. QED
      BY <1>9, <2>4, <2>5, <2>6 DEF OnWritable
  <1>10. CASE AppendRequest
    <2>1. /\ pc[Main] = "append" /\ slot[Main] \in Fds
          /\ pc' = [pc EXCEPT ![Main] = "idle"] /\ slot' = [slot EXCEPT ![Main] = ListenFd]
          /\ UNCHANGED <<fdConn, interest, m_sockfd, batch>>
      BY <1>10, <1>x DEF AppendRequest
    <2>2. ToSet(queue') \subseteq ToSet(queue) \cup {slot[Main]}
      BY <1>10, <2>1, <1>t, PushAdds DEF AppendRequest
    <2>3. \A f \in Fds : Taken(f)' => Taken(f) \/ f = slot[Main]
      BY <2>1, <2>2, <1>t
    <2>4. \A w \in Workers : pc'[w] = pc[w] /\ slot'[w] = slot[w]
      BY <2>1, <1>t
    <2> HIDE DEF Taken
    <2>5. QED
      BY <2>1, <2>3, <2>4, <1>x, <1>t
  <1>11. ASSUME NEW w \in Workers, Take(w) PROVE Settled'
    <2>1. /\ Head(queue) \in ToSet(queue)
          /\ ToSet(Tail(queue)) = ToSet(queue) \ {Head(queue)}
      BY <1>11, <1>x, <1>t, PopRemoves DEF Take, Exclusive
    <2>2. Head(queue) \in Fds
      BY <1>11, <1>t DEF Take
    <2>3. QED
      BY <1>11, <1>x, <1>t, <2>1, <2>2 DEF Take
  <1>12. ASSUME NEW w \in Workers, ProcessIncomplete(w) \/ ProcessArm(w) PROVE Settled'
    <2>1. PICK f \in Fds : f = slot[w] /\ WithWorker(f)
      BY <1>12, <1>x DEF ProcessIncomplete, ProcessArm
    <2>2. m_sockfd[f] = f /\ interest[f] = "off" /\ fdConn[f] # None /\ ~WithMain(f)
      BY <2>1, <1>x DEF Exclusive
    <2>3. \E ev \in {"in", "out"} : interest' = [interest EXCEPT ![f] = ev]
      BY <1>12, <2>1, <2>2 DEF ProcessIncomplete, ProcessArm, Rearm
    <2>4. /\ UNCHANGED <<fdConn, m_sockfd, batch, queue>>
          /\ pc' = [pc EXCEPT ![w] = "idle"] /\ slot' = [slot EXCEPT ![w] = ListenFd]
      BY <1>12 DEF ProcessIncomplete, ProcessArm
    <2>5. /\ ~Taken(f)'
          /\ \A g \in Fds : Taken(g)' => Taken(g)
      <3>1. \A v \in Workers : pc'[v] # "idle" => v # w /\ pc[v] # "idle" /\ slot'[v] = slot[v]
        BY <2>4, <1>t
      <3>2. pc[w] # "idle"
        BY <1>12 DEF ProcessIncomplete, ProcessArm
      <3>3. QED
        BY <2>1, <2>4, <3>1, <3>2, <1>x DEF Exclusive
    <2>6. /\ pc'[Main] = pc[Main] /\ slot'[Main] = slot[Main]
          /\ \A v \in Workers : pc'[v] = pc[v] \/ pc'[v] = "idle"
          /\ \A t \in Threads : pc'[t] # "idle" => pc[t] # "idle" /\ slot'[t] = slot[t]
      BY <2>4, <1>t
    <2> HIDE DEF Taken
    <2>7. QED
      BY <2>2, <2>3, <2>4, <2>5, <2>6, <1>x, <1>t
  <1>13. ASSUME NEW w \in Workers, ProcessReply(w) PROVE Settled'
    BY <1>13, <1>x, <1>t DEF ProcessReply
  <1>14. CASE CloseFd(Main)
    <2> DEFINE f == slot[Main]
    <2>1. f \in Fds /\ pc[Main] = "close" /\ m_sockfd[f] = f /\ ~Taken(f)
      BY <1>14, <1>x DEF CloseFd, Exclusive
    <2>2. /\ fdConn' = [fdConn EXCEPT ![f] = None]
          /\ interest' = [interest EXCEPT ![f] = "none"]
          /\ pc' = [pc EXCEPT ![Main] = "close_mark"] /\ slot' = [slot EXCEPT ![Main] = f]
          /\ UNCHANGED <<m_sockfd, batch, queue>>
      BY <1>14, <2>1 DEF CloseFd
    <2>3. \A g \in Fds : Taken(g)' = Taken(g)
      BY <2>2, <1>t
    <2> HIDE DEF Taken, f
    <2>4. QED
      BY <2>1, <2>2, <2>3, <1>x, <1>t DEF f
  <1>15. CASE CloseMark(Main)
    BY <1>15, <1>x, <1>t DEF CloseMark
  <1>16. CASE CloseLoad(Main) \/ CloseStore(Main)
    BY <1>16, <1>x, <1>t DEF CloseLoad, CloseStore, AfterClose
  <1>17. CASE UNCHANGED vars
    BY <1>17, <1>x DEF vars
  <1>18. QED
    BY <1>x, WorkersDoNotClose, <1>1, <1>2, <1>3, <1>4, <1>5, <1>6, <1>7, <1>8, <1>9, <1>10,
       <1>11, <1>12, <1>13, <1>14, <1>15, <1>16, <1>17
    DEF Next, MainStep, WorkerStep, CloseConn
-------------------------------------------------------------------------------
(* Responses. *)

LEMMA ResponsesStep == NoEmptyFile /\ WInv /\ [Next]_vars => Responses'
  <1> SUFFICES ASSUME NoEmptyFile, WInv, [Next]_vars PROVE Responses'
    OBVIOUS
  <1> USE FdNumbers, ThreadAssumption
          DEF Begin, Goto, End, kernel, users, threads, Threads
  <1>t. TypeOK
    BY DEF WInv
  <1>x. Exclusive /\ Settled /\ Responses
    BY DEF WInv
  <1> USE DEF TypeOK, Responses, InQueue, MainAt
  <1>1. ASSUME NEW c \in Conns, Connect(c) \/ Send(c) \/ HangUp(c) PROVE Responses'
    BY <1>1, <1>x DEF Connect, Send, HangUp
  <1>2. CASE EpollWait
    <2> DEFINE what(f) == IF fdConn[f] \in hungUp THEN "hup" ELSE interest[f]
               listen == IF listenEdge THEN {[fd |-> ListenFd, event |-> "in"]} ELSE {}
    <2>1. PICK fired \in SUBSET Armed :
             /\ batch' = {[fd |-> f, event |-> what(f)] : f \in fired} \cup listen
             /\ interest' = [f \in Fds |-> IF f \in fired THEN "off" ELSE interest[f]]
      BY <1>2 DEF EpollWait, Disarm
    <2>2. ASSUME NEW f \in Fds, NEW ev \in {"in", "out"}, [fd |-> f, event |-> ev] \in batch'
          PROVE  interest[f] = ev
      BY <2>1, <2>2
    <2>3. /\ UNCHANGED <<pending, queue, pc, slot>>
          /\ pc[Main] = "idle"
      BY <1>2 DEF EpollWait
    <2>4. \A f \in Fds : interest'[f] \in {"in", "out"} => interest'[f] = interest[f]
      BY <2>1
    <2>5. QED
      BY <2>2, <2>3, <2>4, <1>x
  <1>3. CASE AcceptFails \/ AcceptBusy
    BY <1>3, <1>x DEF AcceptFails, AcceptBusy, Dispatch
  <1>4. CASE Accept
    BY <1>4, <1>x, <1>t DEF Accept, Dispatch
  <1>5. CASE InitSockfd
    BY <1>5, <1>x, <1>t DEF InitSockfd
  <1>6. CASE InitAddfd
    <2>1. slot[Main] \in Fds /\ ~Taken(slot[Main])
      BY <1>6, <1>x DEF InitAddfd, Settled, Exclusive, WithMain
    <2>2. QED
      BY <1>6, <2>1, <1>x, <1>t DEF InitAddfd, Taken, InBatch
  <1>7. CASE InitLoad
    BY <1>7, <1>x, <1>t DEF InitLoad
  <1>8. CASE InitStore
    <2>1. slot[Main] \in Fds /\ ~Taken(slot[Main]) /\ interest[slot[Main]] = "in"
      BY <1>8, <1>x DEF InitStore, Settled, Exclusive, WithMain
    <2>2. \A w \in Workers : pc[w] # "idle" => slot[w] # slot[Main]
      BY <2>1 DEF Taken, WithWorker
    <2>3. [fd |-> slot[Main], event |-> "out"] \notin batch
      BY <2>1 DEF Taken, InBatch
    <2>4. /\ \A v \in Workers : pc'[v] = pc[v] /\ slot'[v] = slot[v]
          /\ pc'[Main] = "idle"
          /\ pending' = [pending EXCEPT ![slot[Main]] = FALSE]
          /\ UNCHANGED <<interest, batch, queue>>
      BY <1>8, <1>t DEF InitStore, Reset
    <2>5. QED
      BY <2>1, <2>2, <2>3, <2>4, <1>8, <1>x, <1>t DEF InitStore
  <1>9. ASSUME NEW f \in Fds, OnHangUp(f) \/ OnReadFails(f) PROVE Responses'
    <2>1. /\ \A w \in Workers : pc'[w] = pc[w] /\ slot'[w] = slot[w]
          /\ pc[Main] = "idle" /\ pc'[Main] = "close"
          /\ batch' \subseteq batch
          /\ UNCHANGED <<interest, pending, queue>>
      BY <1>9, <1>t DEF OnHangUp, OnReadFails, Dispatch
    <2>2. QED
      BY <2>1, <1>x
  <1>10. ASSUME NEW f \in Fds, OnReadable(f) PROVE Responses'
    BY <1>10, <1>x, <1>t DEF OnReadable, Dispatch
  <1>11. ASSUME NEW f \in Fds, OnWritable(f) PROVE Responses'
    <2>1. /\ m_sockfd[f] = f /\ interest[f] = "off" /\ pending[f]
          /\ pc[Main] = "idle"
      BY <1>11, <1>x DEF OnWritable, Dispatch, Settled, Taken, InBatch
    <2>2. /\ \A e \in batch' : e \in batch /\ e.fd # f
          /\ ~InQueue(f)
          /\ \A w \in Workers : pc[w] # "idle" => slot[w] # f
      BY <1>11, <1>x DEF OnWritable, Dispatch, Exclusive, InBatch, WithWorker
    <2>3. /\ queue' = queue
          /\ \A w \in Workers : pc'[w] = pc[w] /\ slot'[w] = slot[w]
      BY <1>11, <1>t DEF OnWritable, WriteNothing, WriteAgain, WriteFails, WriteDone
    <2>4. CASE WriteAgain(f)
      BY <2>1, <2>2, <2>3, <2>4, <1>x, <1>t DEF WriteAgain, Rearm
    <2>5. CASE WriteFails(f)
      BY <2>1, <2>2, <2>3, <2>5, <1>x, <1>t DEF WriteFails
    <2>6. CASE WriteDone(f) /\ m_linger[f]
      <3>1. /\ pending' = [pending EXCEPT ![f] = FALSE]
            /\ interest' = [interest EXCEPT ![f] = "in"]
            /\ UNCHANGED <<pc, slot>>
        BY <2>1, <2>6 DEF WriteDone, Rearm, Reset
      <3>2. QED
        BY <2>1, <2>2, <2>3, <3>1, <1>x, <1>t
    <2>7. CASE WriteDone(f) /\ ~m_linger[f]
      BY <2>1, <2>2, <2>3, <2>7, <1>x, <1>t DEF WriteDone, Rearm
    <2>8. QED
      BY <1>11, <2>1, <2>4, <2>5, <2>6, <2>7 DEF OnWritable, WriteNothing
  <1>12. CASE AppendRequest
    <2>1. slot[Main] \in Fds /\ ~pending[slot[Main]] /\ interest[slot[Main]] = "off"
      BY <1>12, <1>x DEF AppendRequest, Settled
    <2>2. ToSet(queue') \subseteq ToSet(queue) \cup {slot[Main]}
      BY <1>12, <2>1, <1>t, PushAdds DEF AppendRequest
    <2>3. QED
      BY <1>12, <2>1, <2>2, <1>x, <1>t DEF AppendRequest
  <1>13. ASSUME NEW w \in Workers, Take(w) PROVE Responses'
    <2>1. /\ Head(queue) \in ToSet(queue) /\ Head(queue) \in Fds
          /\ ToSet(Tail(queue)) \subseteq ToSet(queue)
      BY <1>13, <1>x, <1>t, PopRemoves DEF Take, Exclusive
    <2>2. QED
      BY <1>13, <2>1, <1>x, <1>t DEF Take
  <1>14. ASSUME NEW w \in Workers, ProcessIncomplete(w) \/ ProcessArm(w) PROVE Responses'
    <2>1. PICK f \in Fds : f = slot[w] /\ WithWorker(f)
      BY <1>14, <1>x DEF ProcessIncomplete, ProcessArm, Settled, WithWorker
    <2>2. m_sockfd[f] = f /\ interest[f] = "off" /\ ~WithMain(f)
      BY <2>1, <1>x DEF Exclusive, Settled, Taken
    <2>3. \A v \in Workers : pc'[v] # "idle" => pc'[v] = pc[v] /\ slot'[v] = slot[v]
      BY <1>14, <1>t DEF ProcessIncomplete, ProcessArm
    <2>4. CASE ProcessIncomplete(w)
      <3>1. ~pending[f] /\ interest' = [interest EXCEPT ![f] = "in"]
        BY <2>1, <2>2, <2>4, <1>x DEF ProcessIncomplete, Rearm
      <3>2. QED
        BY <2>2, <2>3, <2>4, <3>1, <1>x, <1>t DEF ProcessIncomplete
    <2>5. CASE ProcessArm(w)
      <3>1. pending[f] /\ interest' = [interest EXCEPT ![f] = "out"]
        BY <2>1, <2>2, <2>5, <1>x DEF ProcessArm, Rearm
      <3>2. QED
        BY <2>2, <2>3, <2>5, <3>1, <1>x, <1>t DEF ProcessArm
    <2>6. QED
      BY <1>14, <2>4, <2>5
  <1>15. ASSUME NEW w \in Workers, ProcessReply(w) PROVE Responses'
    <2>1. PICK f \in Fds : f = slot[w] /\ WithWorker(f)
      BY <1>15, <1>x DEF ProcessReply, Settled, WithWorker
    <2>2. interest[f] = "off" /\ ~WithMain(f) /\ ~InQueue(f) /\ ~InBatch(f)
      BY <2>1, <1>x DEF Exclusive, Settled, Taken
    <2>3. \A v \in Workers : v # w /\ pc[v] # "idle" => slot[v] # f
      BY <1>15, <2>1, <1>x DEF Exclusive, ProcessReply
    <2>4. /\ pending' = [pending EXCEPT ![f] = TRUE]
          /\ pc' = [pc EXCEPT ![w] = "arm"] /\ slot' = [slot EXCEPT ![w] = f]
          /\ UNCHANGED <<interest, batch, queue>>
      BY <1>15, <2>1 DEF ProcessReply
    <2>5. QED
      BY <2>1, <2>2, <2>3, <2>4, <1>x, <1>t DEF InBatch, WithMain
  <1>16. CASE CloseFd(Main)
    <2>1. slot[Main] \in Fds /\ m_sockfd[slot[Main]] = slot[Main]
      BY <1>16, <1>x DEF CloseFd, Settled
    <2>2. QED
      <3>1. /\ \A w \in Workers : pc'[w] = pc[w] /\ slot'[w] = slot[w]
            /\ pc'[Main] = "close_mark" /\ slot'[Main] = slot[Main]
            /\ interest' = [interest EXCEPT ![slot[Main]] = "none"]
            /\ UNCHANGED <<pending, queue, batch>>
        BY <1>16, <2>1, <1>t DEF CloseFd
      <3>2. QED
        BY <2>1, <3>1, <1>x, <1>t
  <1>17. CASE CloseMark(Main) \/ CloseLoad(Main)
    <2>1. /\ \A w \in Workers : pc'[w] = pc[w] /\ slot'[w] = slot[w]
          /\ pc[Main] \in Closed /\ pc'[Main] \in Closed
          /\ UNCHANGED <<interest, pending, queue, batch>>
      BY <1>17, <1>t DEF CloseMark, CloseLoad, Closed
    <2>2. QED
      BY <2>1, <1>x DEF Closed
  <1>18. CASE CloseStore(Main)
    BY <1>18, <1>x, <1>t DEF CloseStore, AfterClose
  <1>19. CASE UNCHANGED vars
    BY <1>19, <1>x DEF vars
  <1>20. QED
    BY <1>x, WorkersDoNotClose, <1>1, <1>2, <1>3, <1>4, <1>5, <1>6, <1>7, <1>8, <1>9, <1>10,
       <1>11, <1>12, <1>13, <1>14, <1>15, <1>16, <1>17, <1>18, <1>19
    DEF Next, MainStep, WorkerStep, CloseConn

(* A descriptor opens in accept and closes in removefd, nowhere else. *)
LEMMA OnlyAcceptAndClose ==
    ASSUME NoEmptyFile, WInv, [Next]_vars
    PROVE  Accept \/ CloseFd(Main) \/ fdConn' = fdConn
  <1> USE DEF kernel
  <1>1. ASSUME NEW c \in Conns, Connect(c) \/ Send(c) \/ HangUp(c) PROVE fdConn' = fdConn
    BY <1>1 DEF Connect, Send, HangUp
  <1>2. CASE EpollWait \/ AcceptFails \/ AcceptBusy
    BY <1>2 DEF EpollWait, AcceptFails, AcceptBusy
  <1>3. CASE InitSockfd \/ InitAddfd \/ InitLoad \/ InitStore \/ AppendRequest
    BY <1>3 DEF InitSockfd, InitAddfd, InitLoad, InitStore, AppendRequest
  <1>4. ASSUME NEW f \in Fds, OnHangUp(f) \/ OnReadable(f) \/ OnReadFails(f) \/ OnWritable(f)
        PROVE  fdConn' = fdConn
    BY <1>4 DEF OnHangUp, OnReadable, OnReadFails, OnWritable
  <1>5. CASE CloseMark(Main) \/ CloseLoad(Main) \/ CloseStore(Main)
    BY <1>5 DEF CloseMark, CloseLoad, CloseStore
  <1>6. ASSUME NEW w \in Workers,
               Take(w) \/ ProcessIncomplete(w) \/ ProcessReply(w) \/ ProcessArm(w)
        PROVE  fdConn' = fdConn
    BY <1>6 DEF Take, ProcessIncomplete, ProcessReply, ProcessArm
  <1>7. CASE UNCHANGED vars
    BY <1>7 DEF vars
  <1>8. QED
    BY WorkersDoNotClose, <1>1, <1>2, <1>3, <1>4, <1>5, <1>6, <1>7
    DEF WInv, Next, MainStep, WorkerStep, CloseConn

(* The invariant holds in every state. *)
LEMMA WInvHolds == ASSUME NoEmptyFile PROVE Spec => []WInv
  <1>1. WInv /\ [Next]_vars => WInv'
    BY TypesStep, ExclusiveStep, SettledStep, ResponsesStep DEF WInv
  <1>2. QED
    BY WInvInit, <1>1, PTL DEF Spec

-------------------------------------------------------------------------------
(* What the invariant says of the counts in Holders. *)

LEMMA HoldersCounted ==
    ASSUME TypeOK, Exclusive, NEW f \in Fds
    PROVE  /\ Cardinality(EventsOf(f)) = IF InBatch(f) THEN 1 ELSE 0
           /\ Cardinality(QueuedAt(f)) = IF InQueue(f) THEN 1 ELSE 0
           /\ Cardinality(ThreadsOn(f)) = IF WithWorker(f) \/ WithMain(f) THEN 1 ELSE 0
  <1>1. \A d, e \in EventsOf(f) : d = e
    BY DEF EventsOf, Exclusive
  <1>2. \A i, j \in QueuedAt(f) : i = j
    BY DEF QueuedAt, Exclusive, IsInjective
  <1>3. \A t, u \in ThreadsOn(f) : t = u
    BY DEF ThreadsOn, Exclusive, Threads, WithMain, WithWorker, Taken
  <1>4. EventsOf(f) # {} <=> InBatch(f)
    BY DEF EventsOf, InBatch
  <1>5. QueuedAt(f) # {} <=> InQueue(f)
    BY DEF QueuedAt, InQueue, ToSet
  <1>6. ThreadsOn(f) # {} <=> WithWorker(f) \/ WithMain(f)
    BY DEF ThreadsOn, WithWorker, WithMain, Threads
  <1>7. QED
    BY <1>1, <1>2, <1>3, <1>4, <1>5, <1>6, AtMostOne

(* Type correctness. *)
THEOREM WebServerTypes == Spec => []TypeOK
  <1>1. Init => TypeOK
    BY WInvInit DEF WInv
  <1>2. QED
    BY <1>1, TypesStep, PTL DEF Spec

(* One owner: whatever the interleaving of the main thread and the workers, at
   most one of them, the events array and the pool's queue has users[f], and
   only the main thread, setting it up or closing it, has it while it is armed. *)
THEOREM WebServerOneOwner == ASSUME NoEmptyFile PROVE Spec => []OneOwner
  <1>1. WInv => OneOwner
    <2> SUFFICES ASSUME WInv, NEW f \in Fds
                 PROVE  /\ Holders(f) <= 1
                        /\ f \in Armed => /\ EventsOf(f) = {} /\ QueuedAt(f) = {}
                                         /\ ThreadsOn(f) \subseteq {Main}
      BY DEF OneOwner
    <2>1. Holders(f) <= 1
      BY HoldersCounted DEF Holders, WInv, Exclusive, Taken
    <2>2. f \in Armed => ~Taken(f)
      BY DEF WInv, Settled, Armed
    <2>3. ~Taken(f) => /\ EventsOf(f) = {} /\ QueuedAt(f) = {}
                       /\ ThreadsOn(f) \subseteq {Main}
      BY DEF Taken, InBatch, InQueue, WithWorker, EventsOf, QueuedAt, ThreadsOn, ToSet, Threads
    <2>4. QED
      BY <2>1, <2>2, <2>3
  <1>2. QED
    BY WInvHolds, <1>1, PTL

(* EPOLLOUT is asked for only with a response to send, and EPOLLIN only without
   one, but for a connection the main thread is about to close. *)
THEOREM WebServerResponses == ASSUME NoEmptyFile PROVE Spec => []ResponseMatchesEvent
  <1>1. WInv => ResponseMatchesEvent
    <2> SUFFICES ASSUME WInv, NEW f \in Fds
                 PROVE  /\ interest[f] = "out" \/ [fd |-> f, event |-> "out"] \in batch => pending[f]
                        /\ interest[f] = "in" /\ pending[f] => ThreadsOn(f) = {Main}
      BY DEF ResponseMatchesEvent
    <2>1. interest[f] = "out" \/ [fd |-> f, event |-> "out"] \in batch => pending[f]
      BY DEF WInv, Responses
    <2>2. ASSUME interest[f] = "in", pending[f] PROVE ThreadsOn(f) = {Main}
      <3>1. pc[Main] # "idle" /\ slot[Main] = f
        BY <2>2 DEF WInv, Responses, MainAt
      <3>2. ~WithWorker(f)
        BY <3>1 DEF WInv, Exclusive, WithMain, Taken
      <3>3. QED
        BY <3>1, <3>2 DEF ThreadsOn, WithWorker, Threads
    <2>3. QED
      BY <2>1, <2>2
  <1>2. QED
    BY WInvHolds, <1>1, PTL

(* A worker's connection is not closed or replaced under it: accept takes a
   free descriptor, the main thread closes the one it has in hand, and a
   worker's is neither. *)
THEOREM WebServerWorkerKeeps == ASSUME NoEmptyFile PROVE Spec => WorkerKeepsConnection
  <1>1. ASSUME WInv, [Next]_vars, NEW w \in Workers, pc[w] \in {"process", "arm"}
        PROVE  fdConn'[slot[w]] = fdConn[slot[w]]
    <2> USE <1>1 DEF WInv
    <2>1. /\ slot[w] \in Fds /\ WithWorker(slot[w]) /\ ~WithMain(slot[w])
          /\ fdConn[slot[w]] # None
      BY DEF Settled, WithWorker, Threads, Taken, Exclusive
    <2>2. CASE Accept
      BY <2>1, <2>2, LowestFreeIsFree DEF Accept, FreeFds, Open, TypeOK
    <2>3. CASE CloseFd(Main)
      <3>1. CASE m_sockfd[slot[Main]] = NoFd
        BY <2>3, <3>1 DEF CloseFd
      <3>2. CASE m_sockfd[slot[Main]] # NoFd
        <4>1. m_sockfd[slot[Main]] = slot[Main] /\ slot[Main] # slot[w]
          BY <2>1, <2>3, <3>2 DEF CloseFd, Settled, Threads, WithMain, MainAt
        <4>2. fdConn' = [fdConn EXCEPT ![slot[Main]] = None]
          BY <2>3, <3>2, <4>1 DEF CloseFd
        <4>3. QED
          BY <2>1, <4>1, <4>2 DEF TypeOK
      <3>3. QED
        BY <3>1, <3>2
    <2>4. CASE Accept \/ CloseFd(Main) \/ fdConn' = fdConn
      BY <2>2, <2>3, <2>4
    <2>5. Accept \/ CloseFd(Main) \/ fdConn' = fdConn
      BY OnlyAcceptAndClose
    <2>6. QED
      BY <2>4, <2>5
  <1>2. WInv /\ [Next]_vars =>
           [\A w \in Workers :
              pc[w] \in {"process", "arm"} => fdConn'[slot[w]] = fdConn[slot[w]]]_vars
    BY <1>1
  <1>3. QED
    BY WInvHolds, <1>2, PTL DEF Spec, WorkerKeepsConnection

-------------------------------------------------------------------------------
(* The server whose init() and close_conn do not overlap, empty files and all. *)

(* Without empty files that is the server: only the main thread runs them. *)
THEOREM WebServerNeverOverlaps == ASSUME NoEmptyFile PROVE Spec => SerialSpec
  <1>1. Settled => Apart
    BY DEF Settled, Apart, SectionLabels, WorkerLabels, Threads
  <1>2. WInv => Apart
    BY <1>1 DEF WInv
  <1>3. Apart' /\ [Next]_vars => [Next /\ Apart']_vars
    OBVIOUS
  <1>4. QED
    BY WInvHolds, <1>2, <1>3, PTL DEF Spec, SerialSpec

(* A thread of close_conn that has closed f and not marked the entry yet. *)
Marking(f) == \E t \in Threads : pc[t] = "close_mark" /\ slot[t] = f

(* The entry, the descriptor and the main thread's place agree.  Between removefd
   and the mark of a worker's close_conn, accept may return the number again, but
   init() waits. *)
Entered ==
    \A f \in Fds :
        /\ m_sockfd[f] \in {f, NoFd, Unset}
        /\ fdConn[f] # None => m_sockfd[f] = f \/ MainAt(f, {"init_sockfd"})
        /\ m_sockfd[f] = f => Marking(f) \/ (fdConn[f] # None /\ ~MainAt(f, {"init_sockfd"}))
        /\ Marking(f) => m_sockfd[f] = f /\ (fdConn[f] # None => MainAt(f, {"init_sockfd"}))
        /\ m_sockfd[f] = Unset =>
              interest[f] = "none" /\ ~Taken(f) /\ (WithMain(f) => MainAt(f, {"init_sockfd"}))
        /\ fdConn[f] # None => interest[f] # "none" \/ MainAt(f, {"init_sockfd", "init_addfd"})
        /\ MainAt(f, SettingUp) => fdConn[f] # None
        /\ MainAt(f, {"init_load", "init_store"}) => interest[f] \in {"in", "out"}
        /\ MainAt(f, Closed) => fdConn[f] = None

(* The counter is behind between accept and its store, ahead between a close and
   its store, and whoever is about to store has it in its register. *)
Adding == IF pc[Main] \in SettingUp THEN 1 ELSE 0
Removing == IF \E t \in Threads : pc[t] \in Closed THEN 1 ELSE 0
Counted ==
    /\ m_user_count = Cardinality(Open) - Adding + Removing
    /\ \A t \in Threads : pc[t] \in {"init_store", "close_store"} => count[t] = m_user_count

SerialInv == TypeOK /\ Apart /\ Entered

LEMMA SerialInit == Init => SerialInv /\ Counted
  <1> SUFFICES ASSUME Init PROVE SerialInv /\ Counted
    OBVIOUS
  <1>1. TypeOK
    BY WInvInit DEF WInv
  <1>2. \A t \in Threads : pc[t] = "idle"
    BY DEF Init
  <1>3. Main \in Threads
    BY DEF Threads
  <1>4. Apart
    BY <1>2 DEF Apart, SectionLabels
  <1>5. \A f \in Fds : ~Taken(f) /\ ~WithMain(f) /\ ~Marking(f)
    BY <1>2, <1>3 DEF Init, Taken, InBatch, InQueue, WithWorker, WithMain, ToSet, Marking, Threads
  <1>6. Entered
    BY <1>2, <1>3, <1>5, FdNumbers DEF Entered, Init, MainAt, SettingUp, Closed
  <1>7. Open = {}
    BY DEF Init, Open
  <1>8. Adding = 0 /\ Removing = 0
    BY <1>2, <1>3 DEF Adding, Removing, SettingUp, Closed
  <1>9. Counted
    BY <1>2, <1>7, <1>8, FS_EmptySet DEF Counted, Init
  <1>10. QED
    BY <1>1, <1>4, <1>6, <1>9 DEF SerialInv

(* What pop_front leaves, in a queue that may hold an entry twice. *)
LEMMA PopTakes ==
    ASSUME NEW S, NEW s \in Seq(S), s # << >>
    PROVE  /\ Head(s) \in ToSet(s) /\ Head(s) \in S
           /\ ToSet(Tail(s)) \subseteq ToSet(s)
           /\ ToSet(s) \subseteq ToSet(Tail(s)) \cup {Head(s)}
  <1>1. Len(s) \in Nat \ {0} /\ DOMAIN s = 1..Len(s) /\ Head(s) = s[1]
    OBVIOUS
  <1>2. DOMAIN Tail(s) = 1..Len(s) - 1 /\ \A i \in 1..Len(s) - 1 : Tail(s)[i] = s[i + 1]
    BY <1>1
  <1>3. Head(s) \in ToSet(s) /\ Head(s) \in S
    BY <1>1 DEF ToSet
  <1>4. ASSUME NEW e \in ToSet(Tail(s)) PROVE e \in ToSet(s)
    BY <1>1, <1>2 DEF ToSet
  <1>5. ASSUME NEW e \in ToSet(s), e # Head(s) PROVE e \in ToSet(Tail(s))
    <2>1. PICK i \in 1..Len(s) : s[i] = e
      BY <1>1 DEF ToSet
    <2>2. i - 1 \in 1..Len(s) - 1 /\ Tail(s)[i - 1] = e
      BY <1>1, <1>2, <1>5, <2>1
    <2>3. QED
      BY <1>2, <2>2 DEF ToSet
  <1>6. QED
    BY <1>3, <1>4, <1>5

(* Who has an entry in hand after a step that only takes from the array, the
   queue and the workers. *)
LEMMA TakenLess ==
    ASSUME NEW f, batch' \subseteq batch, ToSet(queue') \subseteq ToSet(queue),
           \A w \in Workers : pc'[w] # "idle" => pc[w] # "idle" /\ slot'[w] = slot[w],
           Taken(f)'
    PROVE  Taken(f)
  BY DEF Taken, InBatch, InQueue, WithWorker

(* modfd on the entry in hand re-arms its own descriptor, if it does anything. *)
LEMMA RearmsOwn ==
    ASSUME TypeOK, NEW f \in Fds, NEW ev \in {"in", "out"},
           m_sockfd[f] \in {f, NoFd, Unset}, Rearm(m_sockfd[f], ev)
    PROVE  /\ interest' \in [Fds -> {"none", "off", "in", "out"}]
           /\ \A g \in Fds : interest'[g] = "none" <=> interest[g] = "none"
           /\ \A g \in Fds : interest'[g] # interest[g] => g = f /\ interest'[g] = ev
           /\ m_sockfd[f] = f /\ interest[f] # "none" => interest'[f] = ev
  BY FdNumbers DEF TypeOK, Rearm

(* A step that opens, closes and marks nothing and leaves the threads in their
   sections keeps the entries as they are. *)
LEMMA EnteredKept ==
    ASSUME TypeOK, Entered, UNCHANGED <<fdConn, m_sockfd>>,
           \A f \in Fds : interest'[f] = "none" <=> interest[f] = "none",
           \A f \in Fds : Marking(f)' <=> Marking(f),
           \A f \in Fds, L \in {{"init_sockfd"}, {"init_sockfd", "init_addfd"}} :
               MainAt(f, L)' <=> MainAt(f, L),
           \A f \in Fds : MainAt(f, SettingUp)' => MainAt(f, SettingUp),
           \A f \in Fds : MainAt(f, Closed)' => MainAt(f, Closed),
           \A f \in Fds : MainAt(f, {"init_load", "init_store"})' =>
               MainAt(f, {"init_load", "init_store"}) /\
               (interest'[f] = interest[f] \/ interest'[f] \in {"in", "out"}),
           \A f \in Fds : m_sockfd[f] = Unset =>
               ~Taken(f)' /\ (WithMain(f)' => MainAt(f, {"init_sockfd"}))
    PROVE  Entered'
  <1> SUFFICES ASSUME NEW f \in Fds
               PROVE  /\ m_sockfd'[f] \in {f, NoFd, Unset}
                      /\ fdConn'[f] # None => m_sockfd'[f] = f \/ MainAt(f, {"init_sockfd"})'
                      /\ m_sockfd'[f] = f =>
                            Marking(f)' \/ (fdConn'[f] # None /\ ~MainAt(f, {"init_sockfd"})')
                      /\ Marking(f)' =>
                            m_sockfd'[f] = f /\ (fdConn'[f] # None => MainAt(f, {"init_sockfd"})')
                      /\ m_sockfd'[f] = Unset =>
                            /\ interest'[f] = "none" /\ ~Taken(f)'
                            /\ WithMain(f)' => MainAt(f, {"init_sockfd"})'
                      /\ fdConn'[f] # None =>
                            interest'[f] # "none" \/ MainAt(f, {"init_sockfd", "init_addfd"})'
                      /\ MainAt(f, SettingUp)' => fdConn'[f] # None
                      /\ MainAt(f, {"init_load", "init_store"})' => interest'[f] \in {"in", "out"}
                      /\ MainAt(f, Closed)' => fdConn'[f] = None
    BY DEF Entered, SettingUp, Closed
  <1>1. /\ MainAt(f, {"init_sockfd"})' <=> MainAt(f, {"init_sockfd"})
        /\ MainAt(f, {"init_sockfd", "init_addfd"})' <=> MainAt(f, {"init_sockfd", "init_addfd"})
    OBVIOUS
  <1>2. QED
    BY <1>1 DEF Entered

LEMMA EnteredStep == SerialInv /\ [Next /\ Apart']_vars => Entered'
  <1> SUFFICES ASSUME SerialInv, [Next /\ Apart']_vars PROVE Entered'
    OBVIOUS
  <1> USE FdNumbers, MarksDiffer, ThreadAssumption
          DEF Begin, Goto, End, kernel, users, threads, Threads
  <1>t. TypeOK
    BY DEF SerialInv
  <1>c. /\ pc \in [Threads -> MainLabels \cup WorkerLabels \cup CloseLabels]
        /\ slot \in [Threads -> Fds \cup {ListenFd}]
        /\ \A t \in Threads : pc[t] # "idle" => slot[t] \in Fds
        /\ queue \in Seq(Fds)
        /\ fdConn \in [Fds -> Conns \cup {None}]
        /\ m_sockfd \in [Fds -> Fds \cup {NoFd, Unset}]
        /\ interest \in [Fds -> {"none", "off", "in", "out"}]
    BY <1>t DEF TypeOK
  <1>x. Entered
    BY DEF SerialInv
  <1>o. Apart /\ (Apart' \/ UNCHANGED vars)
    BY DEF SerialInv, Apart, vars
  <1>u. \A f \in Fds : m_sockfd[f] = Unset =>
           interest[f] = "none" /\ ~Taken(f) /\ (WithMain(f) => MainAt(f, {"init_sockfd"}))
    BY <1>x DEF Entered
  <1>h. \A f \in Fds : Taken(f) \/ (WithMain(f) /\ pc[Main] # "init_sockfd") => m_sockfd[f] \in {f, NoFd}
    BY <1>x DEF Entered, MainAt
  <1>1. ASSUME NEW c \in Conns, Connect(c) \/ Send(c) \/ HangUp(c) PROVE Entered'
    <2>1. UNCHANGED <<fdConn, interest, m_sockfd, queue, batch, pc, slot>>
      BY <1>1 DEF Connect, Send, HangUp
    <2>2. \A f \in Fds : Taken(f)' => Taken(f)
      BY <2>1, TakenLess
    <2>3. QED
      BY <2>1, <2>2, <1>t, <1>x, <1>u, EnteredKept DEF Marking, MainAt, WithMain
  <1>2. CASE EpollWait
    <2>1. PICK fired \in SUBSET Armed :
             /\ Disarm(fired)
             /\ \A e \in batch' : e.fd \in fired \cup {ListenFd}
      BY <1>2 DEF EpollWait
    <2>2. UNCHANGED <<fdConn, m_sockfd, queue, pc, slot>> /\ pc[Main] = "idle"
      BY <1>2 DEF EpollWait
    <2>3. \A f \in Fds : Taken(f)' => Taken(f) \/ f \in fired
      BY <2>1, <2>2 DEF Taken, InBatch, InQueue, WithWorker
    <2>4. \A f \in Fds : f \in fired => interest[f] # "none"
      BY <2>1 DEF Armed
    <2>5. \A f \in Fds : interest'[f] = "none" <=> interest[f] = "none"
      BY <2>1, <2>4, <1>c DEF Disarm
    <2>6. QED
      BY <2>2, <2>3, <2>4, <2>5, <1>t, <1>x, <1>u, EnteredKept
         DEF Marking, MainAt, WithMain, SettingUp, Closed
  <1>3. CASE AcceptFails \/ AcceptBusy
    <2>1. UNCHANGED <<fdConn, interest, m_sockfd, queue, pc, slot>> /\ batch' \subseteq batch
      BY <1>3 DEF AcceptFails, AcceptBusy, Dispatch
    <2>2. \A f \in Fds : Taken(f)' => Taken(f)
      BY <2>1, TakenLess
    <2>3. QED
      BY <2>1, <2>2, <1>t, <1>x, <1>u, EnteredKept DEF Marking, MainAt, WithMain
  <1>4. CASE Accept
    <2>1. PICK f0 \in Fds : f0 = LowestFree /\ fdConn[f0] = None
      BY <1>4, LowestFreeIsFree DEF Accept, FreeFds, Open
    <2>2. Head(backlog) # None
      BY <1>4, <1>t, ConnAssumption DEF Accept, TypeOK
    <2>3. /\ fdConn' = [fdConn EXCEPT ![f0] = Head(backlog)]
          /\ UNCHANGED <<interest, m_sockfd, queue>> /\ batch' \subseteq batch
          /\ pc[Main] = "idle"
          /\ pc' = [pc EXCEPT ![Main] = "init_sockfd"] /\ slot' = [slot EXCEPT ![Main] = f0]
      BY <1>4, <2>1 DEF Accept, Dispatch
    <2>4. \A f \in Fds : Taken(f)' => Taken(f)
      BY <2>3, <1>c, TakenLess
    <2>5. \A f \in Fds : Marking(f)' <=> Marking(f)
      BY <2>3, <1>c DEF Marking
    <2>6. QED
      BY <2>1, <2>2, <2>3, <2>4, <2>5, <1>c, <1>x DEF Entered, MainAt, WithMain, SettingUp, Closed
  <1>5. CASE InitSockfd
    <2>1. PICK f0 \in Fds : f0 = slot[Main]
      BY <1>5, <1>c DEF InitSockfd
    <2>2. /\ m_sockfd' = [m_sockfd EXCEPT ![f0] = f0]
          /\ UNCHANGED <<fdConn, interest, queue, batch>>
          /\ pc[Main] = "init_sockfd"
          /\ pc' = [pc EXCEPT ![Main] = "init_addfd"] /\ slot' = [slot EXCEPT ![Main] = f0]
      BY <1>5, <2>1 DEF InitSockfd
    <2>3. \A f \in Fds : Taken(f)' => Taken(f)
      BY <2>2, <1>c, TakenLess
    <2>4. \A f \in Fds : ~Marking(f) /\ ~Marking(f)'
      BY <2>2, <1>o, <1>c DEF Marking, Apart, SectionLabels, vars
    <2>5. QED
      BY <2>1, <2>2, <2>3, <2>4, <1>c, <1>x DEF Entered, MainAt, WithMain, SettingUp, Closed
  <1>6. CASE InitAddfd
    <2>1. PICK f0 \in Fds : f0 = slot[Main]
      BY <1>6, <1>c DEF InitAddfd
    <2>2. /\ interest' = [interest EXCEPT ![f0] = "in"]
          /\ UNCHANGED <<fdConn, m_sockfd, queue, batch>>
          /\ pc[Main] = "init_addfd"
          /\ pc' = [pc EXCEPT ![Main] = "init_load"] /\ slot' = [slot EXCEPT ![Main] = f0]
      BY <1>6, <2>1 DEF InitAddfd
    <2>3. \A f \in Fds : Taken(f)' => Taken(f)
      BY <2>2, <1>c, TakenLess
    <2>4. \A f \in Fds : Marking(f)' <=> Marking(f)
      BY <2>2, <1>c DEF Marking
    <2>5. fdConn[f0] # None /\ m_sockfd[f0] = f0
      BY <2>1, <2>2, <1>x DEF Entered, MainAt, SettingUp
    <2>6. QED
      BY <2>1, <2>2, <2>3, <2>4, <2>5, <1>c, <1>x DEF Entered, MainAt, WithMain, SettingUp, Closed
  <1>7. CASE InitLoad \/ InitStore
    <2>1. /\ UNCHANGED <<fdConn, interest, m_sockfd, queue, batch>>
          /\ \E label \in {"idle", "init_store"} :
                pc[Main] \in {"init_load", "init_store"} /\ pc' = [pc EXCEPT ![Main] = label]
          /\ pc'[Main] # "idle" => slot'[Main] = slot[Main]
          /\ \A w \in Workers : slot'[w] = slot[w]
      BY <1>7, <1>c DEF InitLoad, InitStore
    <2>2. \A f \in Fds : Taken(f)' => Taken(f)
      BY <2>1, <1>c, TakenLess
    <2>3. \A f \in Fds : Marking(f)' <=> Marking(f)
      BY <2>1, <1>c DEF Marking
    <2>4. QED
      BY <2>1, <2>2, <2>3, <1>t, <1>x, <1>u, EnteredKept DEF MainAt, WithMain, SettingUp, Closed
  <1>8. ASSUME NEW f0 \in Fds, OnHangUp(f0) \/ OnReadFails(f0) \/ OnReadable(f0) \/ OnWritable(f0)
        PROVE  Entered'
    <2>1. InBatch(f0) /\ m_sockfd[f0] \in {f0, NoFd}
      BY <1>8, <1>h DEF InBatch, Taken, OnHangUp, OnReadFails, OnReadable, OnWritable, Dispatch
    <2>2. /\ UNCHANGED <<fdConn, m_sockfd, queue>> /\ batch' \subseteq batch
          /\ pc[Main] = "idle" /\ pc'[Main] \in {"idle", "close", "append"}
          /\ pc'[Main] # "idle" => slot'[Main] = f0
          /\ \A w \in Workers : pc'[w] = pc[w] /\ slot'[w] = slot[w]
      BY <1>8, <1>c DEF OnHangUp, OnReadFails, OnReadable, OnWritable, Dispatch,
                        WriteNothing, WriteAgain, WriteFails, WriteDone
    <2>3. interest' = interest \/ \E ev \in {"in", "out"} : Rearm(m_sockfd[f0], ev)
      BY <1>8 DEF OnHangUp, OnReadFails, OnReadable, OnWritable,
                  WriteNothing, WriteAgain, WriteFails, WriteDone
    <2>4. \A f \in Fds : interest'[f] = "none" <=> interest[f] = "none"
      BY <2>1, <2>3, <1>t, RearmsOwn
    <2>5. \A f \in Fds : Taken(f)' => Taken(f)
      BY <2>2, TakenLess
    <2>6. \A f \in Fds : Marking(f)' <=> Marking(f)
      BY <2>2 DEF Marking
    <2>7. \A f \in Fds, L \in {{"init_sockfd"}, {"init_sockfd", "init_addfd"}, SettingUp, Closed,
                                {"init_load", "init_store"}} : ~MainAt(f, L) /\ ~MainAt(f, L)'
      BY <2>2 DEF MainAt, SettingUp, Closed
    <2>8. \A f \in Fds : m_sockfd[f] = Unset => ~Taken(f)' /\ ~WithMain(f)'
      BY <2>1, <2>2, <2>5, <1>u DEF WithMain
    <2>9. /\ \A f \in Fds, L \in {{"init_sockfd"}, {"init_sockfd", "init_addfd"}} :
                MainAt(f, L)' <=> MainAt(f, L)
          /\ \A f \in Fds : MainAt(f, SettingUp)' => MainAt(f, SettingUp)
          /\ \A f \in Fds : MainAt(f, Closed)' => MainAt(f, Closed)
          /\ \A f \in Fds : ~MainAt(f, {"init_load", "init_store"})'
      BY <2>7
    <2>10. QED
      BY <2>2, <2>4, <2>6, <2>8, <2>9, <1>t, <1>x, EnteredKept
  <1>9. CASE AppendRequest
    <2>1. PICK f0 \in Fds : f0 = slot[Main] /\ m_sockfd[f0] \in {f0, NoFd}
      BY <1>9, <1>c, <1>h DEF AppendRequest, WithMain
    <2>2. /\ UNCHANGED <<fdConn, interest, m_sockfd, batch>>
          /\ pc[Main] = "append"
          /\ pc' = [pc EXCEPT ![Main] = "idle"] /\ slot' = [slot EXCEPT ![Main] = ListenFd]
      BY <1>9 DEF AppendRequest
    <2>3. ToSet(queue') \subseteq ToSet(queue) \cup {f0}
      BY <1>9, <1>c, <2>1, PushAdds DEF AppendRequest
    <2>4. \A f \in Fds : Taken(f)' => Taken(f) \/ f = f0
      BY <2>2, <2>3, <1>c DEF Taken, InBatch, InQueue, WithWorker
    <2>5. \A f \in Fds : Marking(f)' <=> Marking(f)
      BY <2>2, <1>c DEF Marking
    <2>6. QED
      BY <2>1, <2>2, <2>4, <2>5, <1>t, <1>x, <1>u, <1>c, EnteredKept
         DEF MainAt, WithMain, SettingUp, Closed
  <1>10. ASSUME NEW w \in Workers, Take(w) PROVE Entered'
    <2>1. PICK f0 \in Fds : f0 = Head(queue) /\ InQueue(f0)
      BY <1>10, <1>c, PopTakes DEF Take, InQueue
    <2>2. ToSet(queue') \subseteq ToSet(queue)
      BY <1>10, <1>c, PopTakes DEF Take
    <2>3. /\ UNCHANGED <<fdConn, interest, m_sockfd, batch>>
          /\ pc[w] = "idle"
          /\ pc' = [pc EXCEPT ![w] = "process"] /\ slot' = [slot EXCEPT ![w] = f0]
      BY <1>10, <2>1 DEF Take
    <2>4. \A f \in Fds : Taken(f)' => Taken(f)
      BY <2>1, <2>2, <2>3, <1>c DEF Taken, InBatch, InQueue, WithWorker
    <2>5. /\ \A f \in Fds : Marking(f)' <=> Marking(f)
          /\ pc'[Main] = pc[Main] /\ slot'[Main] = slot[Main]
      BY <2>3, <1>c DEF Marking
    <2>6. QED
      BY <2>3, <2>4, <2>5, <1>t, <1>x, <1>u, EnteredKept DEF MainAt, WithMain
  <1>11. ASSUME NEW w \in Workers,
                ProcessIncomplete(w) \/ ProcessReply(w) \/ ProcessFails(w) \/ ProcessArm(w)
         PROVE  Entered'
    <2>1. PICK f0 \in Fds : f0 = slot[w] /\ m_sockfd[f0] \in {f0, NoFd}
      BY <1>11, <1>c, <1>h DEF ProcessIncomplete, ProcessReply, ProcessFails, ProcessArm,
                               Taken, WithWorker
    <2>2. /\ UNCHANGED <<fdConn, m_sockfd, queue, batch>>
          /\ pc[w] \in {"process", "arm"}
          /\ \E label \in {"idle", "arm", "close"} : pc' = [pc EXCEPT ![w] = label]
          /\ pc'[w] # "idle" => slot'[w] = f0
          /\ \A t \in Threads \ {w} : slot'[t] = slot[t]
      BY <1>11, <1>c, <2>1 DEF ProcessIncomplete, ProcessReply, ProcessFails, ProcessArm
    <2>3. interest' = interest \/ \E ev \in {"in", "out"} : Rearm(m_sockfd[f0], ev)
      BY <1>11, <2>1 DEF ProcessIncomplete, ProcessReply, ProcessFails, ProcessArm
    <2>4. /\ \A f \in Fds : interest'[f] = "none" <=> interest[f] = "none"
          /\ \A f \in Fds : interest'[f] = interest[f] \/ interest'[f] \in {"in", "out"}
      <3>1. CASE interest' = interest
        BY <3>1
      <3>2. ASSUME NEW ev \in {"in", "out"}, Rearm(m_sockfd[f0], ev)
            PROVE  /\ \A f \in Fds : interest'[f] = "none" <=> interest[f] = "none"
                   /\ \A f \in Fds : interest'[f] = interest[f] \/ interest'[f] = ev
        BY <3>2, <2>1, <1>t, RearmsOwn
      <3>3. QED
        BY <2>3, <3>1, <3>2
    <2>5. \A f \in Fds : Taken(f)' => Taken(f)
      <3>1. \A v \in Workers : pc'[v] # "idle" => pc[v] # "idle" /\ slot'[v] = slot[v]
        BY <2>1, <2>2, <1>c
      <3>2. QED
        BY <2>2, <3>1, TakenLess
    <2>6. /\ \A f \in Fds : Marking(f)' <=> Marking(f)
          /\ pc'[Main] = pc[Main] /\ slot'[Main] = slot[Main]
      BY <2>2, <1>c DEF Marking
    <2>7. QED
      BY <2>2, <2>4, <2>5, <2>6, <1>t, <1>x, <1>u, EnteredKept DEF MainAt, WithMain
  <1>12. ASSUME NEW t \in Threads, CloseFd(t) PROVE Entered'
    <2>1. PICK f0 \in Fds : f0 = slot[t] /\ pc[t] = "close"
      BY <1>12, <1>c DEF CloseFd
    <2>2. m_sockfd[f0] \in {f0, NoFd}
      BY <2>1, <1>h DEF Taken, WithWorker, WithMain
    <2>3. CASE m_sockfd[f0] = NoFd
      <3>1. /\ UNCHANGED <<fdConn, interest, m_sockfd, queue, batch>>
            /\ \E label \in {"idle", "arm"} : pc' = [pc EXCEPT ![t] = label]
            /\ pc'[t] # "idle" => slot'[t] = slot[t]
            /\ t = Main => pc'[t] = "idle"
            /\ \A u \in Threads \ {t} : slot'[u] = slot[u]
        BY <1>12, <1>c, <2>1, <2>3 DEF CloseFd, AfterClose
      <3>2. \A f \in Fds : Taken(f)' => Taken(f)
        BY <3>1, <2>1, <1>c, TakenLess
      <3>3. \A f \in Fds : Marking(f)' <=> Marking(f)
        BY <3>1, <2>1, <1>c DEF Marking
      <3>4. QED
        BY <3>1, <3>2, <3>3, <2>1, <1>t, <1>x, <1>u, <1>c, EnteredKept
           DEF MainAt, WithMain, SettingUp, Closed
    <2>4. CASE m_sockfd[f0] = f0
      <3>1. /\ fdConn' = [fdConn EXCEPT ![f0] = None]
            /\ interest' = [interest EXCEPT ![f0] = "none"]
            /\ pc' = [pc EXCEPT ![t] = "close_mark"] /\ slot' = [slot EXCEPT ![t] = f0]
            /\ UNCHANGED <<m_sockfd, queue, batch>>
        BY <1>12, <2>1, <2>4 DEF CloseFd
      <3>2. \A f \in Fds : Taken(f)' => Taken(f)
        BY <3>1, <2>1, <1>c, TakenLess
      <3>3. \A u \in Threads : pc[u] \notin SectionLabels
        BY <3>1, <2>1, <1>o, <1>c DEF Apart, SectionLabels, vars
      <3>4. \A f \in Fds : ~Marking(f) /\ (Marking(f)' <=> f = f0)
        BY <3>1, <3>3, <2>1, <1>c DEF Marking, SectionLabels
      <3>5. /\ pc[Main] \notin {"init_addfd", "init_load", "init_store",
                                "close_mark", "close_load", "close_store"}
            /\ t # Main => pc'[Main] = pc[Main] /\ slot'[Main] = slot[Main]
            /\ t = Main => pc'[Main] = "close_mark" /\ slot'[Main] = f0
        BY <3>1, <3>3, <1>c DEF SectionLabels
      <3>6. ~MainAt(f0, {"init_sockfd"})
        BY <3>4, <2>4, <1>x DEF Entered
      <3>7. QED
        BY <3>1, <3>2, <3>4, <3>5, <3>6, <2>1, <2>4, <1>c, <1>x
           DEF Entered, MainAt, WithMain, SettingUp, Closed
    <2>5. QED
      BY <2>2, <2>3, <2>4
  <1>13. ASSUME NEW t \in Threads, CloseMark(t) PROVE Entered'
    <2>1. PICK f0 \in Fds : f0 = slot[t] /\ pc[t] = "close_mark"
      BY <1>13, <1>c DEF CloseMark
    <2>2. /\ m_sockfd' = [m_sockfd EXCEPT ![f0] = NoFd]
          /\ UNCHANGED <<fdConn, interest, queue, batch>>
          /\ pc' = [pc EXCEPT ![t] = "close_load"] /\ slot' = [slot EXCEPT ![t] = f0]
      BY <1>13, <2>1 DEF CloseMark
    <2>3. \A f \in Fds : Taken(f)' => Taken(f)
      BY <2>1, <2>2, <1>c, TakenLess
    <2>4. \A u \in Threads : pc[u] \in SectionLabels => u = t
      BY <2>1, <1>o DEF Apart, SectionLabels
    <2>5. \A f \in Fds : ~Marking(f)' /\ (Marking(f) <=> f = f0)
      BY <2>1, <2>2, <2>4, <1>c DEF Marking, SectionLabels
    <2>6. /\ t # Main => /\ pc'[Main] = pc[Main] /\ slot'[Main] = slot[Main]
                         /\ pc[Main] \notin SectionLabels
          /\ t = Main => pc[Main] = "close_mark" /\ pc'[Main] = "close_load" /\ slot'[Main] = slot[Main]
      BY <2>1, <2>2, <2>4, <1>c
    <2>7. /\ m_sockfd'[f0] = NoFd
          /\ \A f \in Fds : f # f0 => m_sockfd'[f] = m_sockfd[f]
      BY <2>2, <1>c
    <2>8. m_sockfd[f0] = f0 /\ (fdConn[f0] # None => MainAt(f0, {"init_sockfd"}))
      BY <2>5, <1>x DEF Entered
    <2>9. CASE t = Main
      BY <2>2, <2>3, <2>5, <2>6, <2>7, <2>8, <2>9, <1>x
         DEF Entered, MainAt, WithMain, SettingUp, Closed
    <2>10. CASE t # Main
      BY <2>2, <2>3, <2>5, <2>6, <2>7, <2>8, <2>10, <1>x
         DEF Entered, MainAt, WithMain, SettingUp, Closed, SectionLabels
    <2>11. QED
      BY <2>9, <2>10
  <1>14. ASSUME NEW t \in Threads, CloseLoad(t) \/ CloseStore(t) PROVE Entered'
    <2>1. /\ UNCHANGED <<fdConn, interest, m_sockfd, queue, batch>>
          /\ pc[t] \in {"close_load", "close_store"}
          /\ \E label \in {"idle", "arm", "close_store"} : pc' = [pc EXCEPT ![t] = label]
          /\ pc'[t] # "idle" => slot'[t] = slot[t]
          /\ t = Main => pc'[t] \in {"idle", "close_store"}
          /\ \A u \in Threads \ {t} : slot'[u] = slot[u]
      BY <1>14, <1>c DEF CloseLoad, CloseStore, AfterClose
    <2>2. \A f \in Fds : Taken(f)' => Taken(f)
      BY <2>1, <1>c, TakenLess
    <2>3. \A f \in Fds : Marking(f)' <=> Marking(f)
      BY <2>1, <1>c DEF Marking
    <2>4. QED
      BY <2>1, <2>2, <2>3, <1>t, <1>x, <1>u, <1>c, EnteredKept
         DEF MainAt, WithMain, SettingUp, Closed
  <1>15. CASE UNCHANGED vars
    <2>1. UNCHANGED <<fdConn, interest, m_sockfd, queue, batch, pc, slot>>
      BY <1>15 DEF vars
    <2>2. \A f \in Fds : Taken(f)' => Taken(f)
      BY <2>1, TakenLess
    <2>3. QED
      BY <2>1, <2>2, <1>t, <1>x, <1>u, EnteredKept DEF Marking, MainAt, WithMain
  <1>16. QED
    BY <1>1, <1>2, <1>3, <1>4, <1>5, <1>6, <1>7, <1>8, <1>9, <1>10, <1>11, <1>12, <1>13,
       <1>14, <1>15 DEF Next, MainStep, WorkerStep, CloseConn

LEMMA SerialHolds == SerialSpec => []SerialInv
  <1>1. SerialInv /\ [Next /\ Apart']_vars => SerialInv'
    <2> SUFFICES ASSUME SerialInv, [Next /\ Apart']_vars PROVE SerialInv'
      OBVIOUS
    <2>1. TypeOK'
      BY TypesStep DEF SerialInv
    <2>2. Apart'
      BY DEF SerialInv, Apart, vars, threads
    <2>3. QED
      BY <2>1, <2>2, EnteredStep DEF SerialInv
  <1>2. QED
    BY SerialInit, <1>1, PTL DEF SerialSpec

(* The descriptor and its object agree as long as init() and close_conn do not
   overlap, whoever closes what in which order. *)
THEOREM WebServerSlotMatches == SerialSpec => []SlotMatches
  <1>1. SerialInv => SlotMatches
    <2> SUFFICES ASSUME SerialInv, NEW f \in Fds
                 PROVE  /\ fdConn[f] # None =>
                              m_sockfd[f] = f \/ (pc[Main] = "init_sockfd" /\ slot[Main] = f)
                        /\ m_sockfd[f] = f /\ ThreadsOn(f) = {} => fdConn[f] # None
      BY DEF SlotMatches
    <2>1. ThreadsOn(f) = {} => ~Marking(f)
      BY DEF ThreadsOn, Marking
    <2>2. QED
      BY <2>1 DEF SerialInv, Entered, MainAt
  <1>2. QED
    BY SerialHolds, <1>1, PTL

-------------------------------------------------------------------------------
(* The counter. *)

LEMMA OpenIsFinite == IsFiniteSet(Open) /\ Cardinality(Open) \in Nat
  <1>1. IsFiniteSet(Open)
    BY FdAssumption, FS_Subset DEF Open
  <1>2. QED
    BY <1>1, FS_CardinalityType

(* What a step that leaves the counter, the descriptors and the stage of each
   thread alone leaves alone. *)
LEMMA CountedKept ==
    ASSUME Counted, UNCHANGED <<fdConn, m_user_count>>,
           pc'[Main] \in SettingUp <=> pc[Main] \in SettingUp,
           \A t \in Threads : pc'[t] \in Closed <=> pc[t] \in Closed,
           \A t \in Threads : pc'[t] \in {"init_store", "close_store"} =>
               pc'[t] = pc[t] /\ count'[t] = count[t]
    PROVE  Counted'
  <1>1. Open' = Open
    BY DEF Open
  <1>2. Adding' = Adding /\ Removing' = Removing
    BY DEF Adding, Removing
  <1>3. QED
    BY <1>1, <1>2 DEF Counted

LEMMA CountedStep == SerialInv /\ Counted /\ [Next /\ Apart']_vars => Counted'
  <1> SUFFICES ASSUME SerialInv, Counted, [Next /\ Apart']_vars PROVE Counted'
    OBVIOUS
  <1> USE ThreadAssumption
          DEF Begin, Goto, End, kernel, users, threads, Threads, SettingUp, Closed
  <1>t. /\ pc \in [Threads -> MainLabels \cup WorkerLabels \cup CloseLabels]
        /\ pc[Main] \in MainLabels \cup CloseLabels
        /\ \A w \in Workers : pc[w] \in WorkerLabels \cup CloseLabels
        /\ slot \in [Threads -> Fds \cup {ListenFd}]
        /\ \A t \in Threads : pc[t] # "idle" => slot[t] \in Fds
        /\ count \in [Threads -> Int] /\ m_user_count \in Int
        /\ fdConn \in [Fds -> Conns \cup {None}]
        /\ backlog \in Seq(Conns)
    BY DEF SerialInv, TypeOK
  <1>o. Apart /\ (Apart' \/ UNCHANGED vars)
    BY DEF SerialInv, Apart
  <1>x. Entered
    BY DEF SerialInv
  <1>1. ASSUME NEW c \in Conns, Connect(c) \/ Send(c) \/ HangUp(c) PROVE Counted'
    BY <1>1, CountedKept DEF Connect, Send, HangUp
  <1>2. CASE EpollWait \/ AcceptFails \/ AcceptBusy
    BY <1>2, CountedKept DEF EpollWait, AcceptFails, AcceptBusy
  <1>3. CASE Accept
    <2>1. LowestFree \in Fds /\ LowestFree \notin Open
      BY <1>3, LowestFreeIsFree DEF Accept, FreeFds
    <2>2. Head(backlog) \in Conns /\ Head(backlog) # None
      BY <1>3, <1>t, ConnAssumption DEF Accept
    <2>3. Open' = Open \cup {LowestFree}
      BY <1>3, <1>t, <2>1, <2>2 DEF Accept, Open
    <2>4. Cardinality(Open') = Cardinality(Open) + 1
      BY <2>1, <2>3, OpenIsFinite, FS_AddElement
    <2>5. /\ pc[Main] = "idle" /\ pc' = [pc EXCEPT ![Main] = "init_sockfd"]
          /\ UNCHANGED <<m_user_count, count>>
      BY <1>3 DEF Accept, Dispatch
    <2>6. /\ Adding = 0 /\ Adding' = 1
          /\ Removing' = Removing
          /\ \A t \in Threads : pc'[t] \in {"init_store", "close_store"} => pc'[t] = pc[t]
      BY <2>5, <1>t DEF Adding, Removing
    <2>7. Removing \in Int
      BY DEF Removing
    <2>8. QED
      BY <2>4, <2>5, <2>6, <2>7, <1>t, OpenIsFinite DEF Counted
  <1>4. CASE InitSockfd \/ InitAddfd
    BY <1>4, <1>t, CountedKept DEF InitSockfd, InitAddfd
  <1>5. CASE InitLoad
    <2>1. Open' = Open
      BY <1>5 DEF InitLoad, Open
    <2>2. /\ pc[Main] = "init_load" /\ pc' = [pc EXCEPT ![Main] = "init_store"]
          /\ m_user_count' = m_user_count /\ count' = [count EXCEPT ![Main] = m_user_count]
      BY <1>5 DEF InitLoad
    <2>3. Adding' = Adding /\ Removing' = Removing
      BY <2>2, <1>t DEF Adding, Removing
    <2>4. QED
      BY <2>1, <2>2, <2>3, <1>t DEF Counted
  <1>6. CASE InitStore
    <2>1. Open' = Open
      BY <1>6 DEF InitStore, Open
    <2>2. /\ pc[Main] = "init_store" /\ pc' = [pc EXCEPT ![Main] = "idle"]
          /\ m_user_count' = count[Main] + 1 /\ count[Main] = m_user_count
      BY <1>6 DEF InitStore, Counted
    <2>3. \A t \in Threads : t # Main => pc[t] \notin SectionLabels
      BY <2>2, <1>o DEF Apart, SectionLabels
    <2>4. Adding = 1 /\ Adding' = 0 /\ Removing = 0 /\ Removing' = 0
      BY <2>2, <2>3, <1>t DEF Adding, Removing, SectionLabels
    <2>5. \A t \in Threads : pc'[t] \notin {"init_store", "close_store"}
      BY <2>2, <2>3, <1>t DEF SectionLabels
    <2>6. QED
      BY <2>1, <2>2, <2>4, <2>5, <1>t, OpenIsFinite DEF Counted
  <1>7. ASSUME NEW f \in Fds, OnHangUp(f) \/ OnReadable(f) \/ OnReadFails(f) \/ OnWritable(f)
        PROVE  Counted'
    <2>1. /\ UNCHANGED <<fdConn, m_user_count, count>>
          /\ pc[Main] = "idle" /\ pc'[Main] \in {"idle", "close", "append"}
          /\ \A w \in Workers : pc'[w] = pc[w]
      BY <1>7, <1>t DEF OnHangUp, OnReadable, OnReadFails, OnWritable, Dispatch,
                        WriteNothing, WriteAgain, WriteFails, WriteDone
    <2>2. QED
      BY <2>1, CountedKept
  <1>8. CASE AppendRequest
    BY <1>8, <1>t, CountedKept DEF AppendRequest
  <1>9. ASSUME NEW w \in Workers,
               \/ Take(w)
               \/ ProcessIncomplete(w) \/ ProcessReply(w) \/ ProcessFails(w) \/ ProcessArm(w)
        PROVE  Counted'
    <2>1. /\ UNCHANGED <<fdConn, m_user_count, count>>
          /\ pc[w] \in {"idle", "process", "arm"}
          /\ \E label \in {"idle", "process", "arm", "close"} : pc' = [pc EXCEPT ![w] = label]
      BY <1>9 DEF Take, ProcessIncomplete, ProcessReply, ProcessFails, ProcessArm
    <2>2. QED
      BY <2>1, <1>t, CountedKept
  <1>10. ASSUME NEW t \in Threads, CloseFd(t) PROVE Counted'
    <2>1. PICK f \in Fds : f = slot[t] /\ pc[t] = "close"
      BY <1>10, <1>t DEF CloseFd
    <2>2. m_sockfd[f] \in {f, NoFd}
      BY <2>1, <1>x DEF Entered, Taken, WithWorker, WithMain, MainAt
    <2>3. CASE m_sockfd[f] = NoFd
      <3>1. /\ UNCHANGED <<fdConn, m_user_count, count>>
            /\ \E label \in {"idle", "arm"} : pc' = [pc EXCEPT ![t] = label]
        BY <1>10, <2>1, <2>3 DEF CloseFd, AfterClose
      <3>2. QED
        BY <3>1, <2>1, <1>t, CountedKept
    <2>4. CASE m_sockfd[f] = f
      <3>1. /\ fdConn' = [fdConn EXCEPT ![f] = None]
            /\ pc' = [pc EXCEPT ![t] = "close_mark"]
            /\ UNCHANGED <<m_user_count, count>>
        BY <1>10, <2>1, <2>4, FdNumbers DEF CloseFd
      <3>2. \A u \in Threads : pc[u] \notin SectionLabels
        BY <3>1, <2>1, <1>o, <1>t DEF Apart, SectionLabels, vars
      <3>3. ~Marking(f)
        BY <3>2 DEF Marking, SectionLabels
      <3>4. f \in Open
        BY <3>3, <2>4, <1>x DEF Entered, Open
      <3>5. Open' = Open \ {f}
        BY <3>1, <1>t DEF Open
      <3>6. Cardinality(Open') = Cardinality(Open) - 1
        BY <3>4, <3>5, OpenIsFinite, FS_RemoveElement
      <3>7. Removing = 0 /\ Removing' = 1
        BY <3>1, <3>2, <1>t DEF Removing, SectionLabels
      <3>8. Adding' = Adding /\ Adding \in Int
        BY <3>1, <2>1, <1>t DEF Adding
      <3>9. \A u \in Threads : pc'[u] \notin {"init_store", "close_store"}
        BY <3>1, <3>2, <1>t DEF SectionLabels
      <3>10. QED
        BY <3>1, <3>6, <3>7, <3>8, <3>9, <1>t, OpenIsFinite DEF Counted
    <2>5. QED
      BY <2>2, <2>3, <2>4
  <1>11. ASSUME NEW t \in Threads, CloseMark(t) PROVE Counted'
    <2>1. /\ UNCHANGED <<fdConn, m_user_count, count>>
          /\ pc[t] = "close_mark" /\ pc' = [pc EXCEPT ![t] = "close_load"]
      BY <1>11 DEF CloseMark
    <2>2. QED
      BY <2>1, <1>t, CountedKept
  <1>12. ASSUME NEW t \in Threads, CloseLoad(t) PROVE Counted'
    <2>1. Open' = Open
      BY <1>12 DEF CloseLoad, Open
    <2>2. /\ pc[t] = "close_load" /\ pc' = [pc EXCEPT ![t] = "close_store"]
          /\ m_user_count' = m_user_count /\ count' = [count EXCEPT ![t] = m_user_count]
      BY <1>12 DEF CloseLoad
    <2>3. Adding' = Adding /\ Removing' = Removing
      BY <2>2, <1>t DEF Adding, Removing
    <2>4. QED
      BY <2>1, <2>2, <2>3, <1>t DEF Counted
  <1>13. ASSUME NEW t \in Threads, CloseStore(t) PROVE Counted'
    <2>1. Open' = Open
      BY <1>13 DEF CloseStore, Open
    <2>2. /\ pc[t] = "close_store"
          /\ \E label \in {"idle", "arm"} : pc' = [pc EXCEPT ![t] = label]
          /\ m_user_count' = count[t] - 1 /\ count[t] = m_user_count
      BY <1>13 DEF CloseStore, AfterClose, Counted
    <2>3. \A u \in Threads : u # t => pc[u] \notin SectionLabels
      BY <2>2, <1>o DEF Apart, SectionLabels
    <2>4. Removing = 1 /\ Removing' = 0 /\ Adding' = Adding /\ Adding \in Int
      BY <2>2, <2>3, <1>t DEF Adding, Removing, SectionLabels
    <2>5. \A u \in Threads : pc'[u] \notin {"init_store", "close_store"}
      BY <2>2, <2>3, <1>t DEF SectionLabels
    <2>6. QED
      BY <2>1, <2>2, <2>4, <2>5, <1>t, OpenIsFinite DEF Counted
  <1>14. CASE UNCHANGED vars
    BY <1>14, CountedKept DEF vars
  <1>15. QED
    BY <1>1, <1>2, <1>3, <1>4, <1>5, <1>6, <1>7, <1>8, <1>9, <1>10, <1>11, <1>12, <1>13, <1>14
    DEF Next, MainStep, WorkerStep, CloseConn

(* Between two events, with no worker in close_conn, m_user_count is the number
   of open connections, although the main thread and workers change it by a load
   and a store: as long as no two of them are in init() or close_conn at once. *)
THEOREM WebServerUserCount == SerialSpec => []UserCountExact
  <1>1. TypeOK /\ Counted => UserCountExact
    <2> SUFFICES ASSUME TypeOK, Counted, pc[Main] = "idle",
                        \A w \in Workers : pc[w] \notin CloseLabels
                 PROVE  m_user_count = Cardinality(Open)
      BY DEF UserCountExact
    <2>1. Adding = 0 /\ Removing = 0
      BY DEF Adding, Removing, SettingUp, Closed, CloseLabels, Threads
    <2>2. QED
      BY <2>1, OpenIsFinite DEF Counted
  <1>2. Counted /\ SerialInv /\ [Next /\ Apart']_vars => Counted'
    BY CountedStep
  <1>3. SerialInv => TypeOK
    BY DEF SerialInv
  <1>4. QED
    BY SerialHolds, SerialInit, <1>1, <1>2, <1>3, PTL DEF SerialSpec

-------------------------------------------------------------------------------
(* Connections that are lost. *)

Kept(f) == fdConn[f] = None \/ interest[f] \in {"in", "out"} \/ Taken(f) \/ WithMain(f)

LEMMA ForgottenIsNotKept ==
    ASSUME TypeOK, NEW f \in Fds PROVE Forgotten(f) <=> ~Kept(f)
  <1>1. EventsOf(f) = {} <=> ~InBatch(f)
    BY DEF EventsOf, InBatch
  <1>2. QueuedAt(f) = {} <=> ~InQueue(f)
    BY DEF QueuedAt, InQueue, ToSet
  <1>3. ThreadsOn(f) = {} <=> ~WithWorker(f) /\ ~WithMain(f)
    BY DEF ThreadsOn, WithWorker, WithMain, Threads
  <1>4. QED
    BY <1>1, <1>2, <1>3 DEF Forgotten, Kept, Taken, Open, Armed

(* A step keeps a connection if it leaves it with those who have it. *)
LEMMA KeptWith ==
    ASSUME NEW f \in Fds, Kept(f),
           fdConn'[f] \in {fdConn[f], None},
           interest'[f] = interest[f] \/ interest'[f] \in {"in", "out"},
           InBatch(f) => InBatch(f)',
           InQueue(f) => InQueue(f)',
           \A t \in Threads : pc[t] # "idle" /\ slot[t] = f => pc'[t] # "idle" /\ slot'[t] = f
    PROVE  Kept(f)'
  BY DEF Kept, Taken, WithWorker, WithMain, Threads

LEMMA KeptStep ==
    ASSUME SerialInv, [Next /\ Apart']_vars, NEW f \in Fds, Kept(f),
           ~(pc[Main] = "append" /\ slot[Main] = f /\ Len(queue) > MaxRequests)
    PROVE  Kept(f)'
  <1> USE FdNumbers, MarksDiffer, ThreadAssumption
          DEF Begin, Goto, End, kernel, users, threads, Threads
  <1>t. TypeOK
    BY DEF SerialInv
  <1>c. /\ pc \in [Threads -> MainLabels \cup WorkerLabels \cup CloseLabels]
        /\ slot \in [Threads -> Fds \cup {ListenFd}]
        /\ \A t \in Threads : pc[t] # "idle" => slot[t] \in Fds
        /\ queue \in Seq(Fds)
        /\ fdConn \in [Fds -> Conns \cup {None}]
        /\ interest \in [Fds -> {"none", "off", "in", "out"}]
    BY <1>t DEF TypeOK
  <1>x. Entered
    BY DEF SerialInv
  <1>1. ASSUME NEW c \in Conns, Connect(c) \/ Send(c) \/ HangUp(c) PROVE Kept(f)'
    BY <1>1, KeptWith DEF Connect, Send, HangUp, InBatch, InQueue
  <1>2. CASE EpollWait
    <2> DEFINE what(g) == IF fdConn[g] \in hungUp THEN "hup" ELSE interest[g]
               listen == IF listenEdge THEN {[fd |-> ListenFd, event |-> "in"]} ELSE {}
    <2>1. PICK fired \in SUBSET Armed :
             /\ batch' = {[fd |-> g, event |-> what(g)] : g \in fired} \cup listen
             /\ interest' = [g \in Fds |-> IF g \in fired THEN "off" ELSE interest[g]]
      BY <1>2 DEF EpollWait, Disarm, Armed
    <2>2. batch = {} /\ UNCHANGED <<fdConn, queue, pc, slot>>
      BY <1>2 DEF EpollWait
    <2>3. CASE f \in fired
      <3>1. [fd |-> f, event |-> what(f)] \in batch'
        BY <2>1, <2>3
      <3>2. QED
        BY <3>1 DEF Kept, Taken, InBatch
    <2>4. CASE f \notin fired
      BY <2>1, <2>2, <2>4, KeptWith DEF InBatch, InQueue
    <2>5. QED
      BY <2>3, <2>4
  <1>3. CASE AcceptFails \/ AcceptBusy
    <2>1. /\ UNCHANGED <<fdConn, interest, queue, pc, slot>>
          /\ InBatch(f) => InBatch(f)'
      BY <1>3 DEF AcceptFails, AcceptBusy, Dispatch, InBatch
    <2>2. QED
      BY <2>1, KeptWith DEF InQueue
  <1>4. CASE Accept
    <2>1. LowestFree \in Fds
      BY <1>4, LowestFreeIsFree DEF Accept, FreeFds
    <2>2. /\ fdConn' = [fdConn EXCEPT ![LowestFree] = Head(backlog)]
          /\ UNCHANGED <<interest, queue>>
          /\ \A e \in batch : e.fd \in Fds => e \in batch'
          /\ pc[Main] = "idle"
          /\ pc' = [pc EXCEPT ![Main] = "init_sockfd"] /\ slot' = [slot EXCEPT ![Main] = LowestFree]
      BY <1>4, <2>1 DEF Accept, Dispatch
    <2>3. CASE f = LowestFree
      BY <2>2, <2>3, <1>c DEF Kept, WithMain
    <2>4. CASE f # LowestFree
      <3>1. InBatch(f) => InBatch(f)'
        BY <2>2 DEF InBatch
      <3>2. QED
        BY <2>2, <2>4, <3>1, <1>c, KeptWith DEF InQueue
    <2>5. QED
      BY <2>3, <2>4
  <1>5. CASE InitSockfd \/ InitAddfd \/ InitLoad
    <2>1. /\ UNCHANGED <<fdConn, queue, batch>>
          /\ \E label \in {"init_addfd", "init_load", "init_store"} : pc' = [pc EXCEPT ![Main] = label]
          /\ slot' = [slot EXCEPT ![Main] = slot[Main]]
          /\ interest' = interest \/ interest' = [interest EXCEPT ![slot[Main]] = "in"]
      BY <1>5 DEF InitSockfd, InitAddfd, InitLoad
    <2>2. QED
      BY <2>1, <1>c, KeptWith DEF InBatch, InQueue
  <1>6. CASE InitStore
    <2>1. /\ UNCHANGED <<fdConn, interest, queue, batch>>
          /\ pc[Main] = "init_store"
          /\ \A w \in Workers : pc'[w] = pc[w] /\ slot'[w] = slot[w]
      BY <1>6, <1>c DEF InitStore
    <2>2. CASE slot[Main] = f
      <3>1. interest[f] \in {"in", "out"}
        BY <2>1, <2>2, <1>x DEF Entered, MainAt
      <3>2. QED
        BY <2>1, <3>1 DEF Kept
    <2>3. CASE slot[Main] # f
      BY <2>1, <2>3, KeptWith DEF InBatch, InQueue
    <2>4. QED
      BY <2>2, <2>3
  <1>7. ASSUME NEW g \in Fds, OnHangUp(g) \/ OnReadable(g) \/ OnReadFails(g) \/ OnWritable(g)
        PROVE  Kept(f)'
    <2>1. /\ UNCHANGED <<fdConn, queue>>
          /\ \A w \in Workers : pc'[w] = pc[w] /\ slot'[w] = slot[w]
          /\ pc[Main] = "idle"
          /\ \A e \in batch : e.fd # g => e \in batch'
          /\ InBatch(g)
      BY <1>7, <1>c DEF OnHangUp, OnReadable, OnReadFails, OnWritable, Dispatch, InBatch,
                        WriteNothing, WriteAgain, WriteFails, WriteDone
    <2>2. m_sockfd[g] \in {g, NoFd}
      BY <2>1, <1>x DEF Entered, Taken
    <2>3. \/ interest' = interest /\ pc'[Main] # "idle" /\ slot'[Main] = g
          \/ \E ev \in {"in", "out"} : Rearm(m_sockfd[g], ev)
      BY <1>7, <1>c DEF OnHangUp, OnReadable, OnReadFails, OnWritable,
                        WriteNothing, WriteAgain, WriteFails, WriteDone
    <2>4. interest'[f] = interest[f] \/ interest'[f] \in {"in", "out"}
      BY <2>2, <2>3, <1>t, RearmsOwn
    <2>5. CASE f = g
      <3>1. CASE pc'[Main] # "idle" /\ slot'[Main] = g
        BY <2>5, <3>1 DEF Kept, WithMain
      <3>2. ASSUME NEW ev \in {"in", "out"}, Rearm(m_sockfd[g], ev) PROVE Kept(f)'
        <4>1. CASE fdConn[g] = None
          BY <2>1, <2>5, <4>1 DEF Kept
        <4>2. CASE fdConn[g] # None
          <5>1. m_sockfd[g] = g /\ interest[g] # "none"
            BY <2>1, <4>2, <1>x DEF Entered, MainAt
          <5>2. interest'[g] = ev
            BY <3>2, <5>1, <1>t, RearmsOwn
          <5>3. QED
            BY <2>5, <5>2 DEF Kept
        <4>3. QED
          BY <4>1, <4>2
      <3>3. QED
        BY <2>3, <3>1, <3>2
    <2>6. CASE f # g
      <3>1. InBatch(f) => InBatch(f)'
        BY <2>1, <2>6 DEF InBatch
      <3>2. QED
        BY <2>1, <2>4, <3>1, KeptWith DEF InQueue
    <2>7. QED
      BY <2>5, <2>6
  <1>8. CASE AppendRequest
    <2>1. /\ UNCHANGED <<fdConn, interest, batch>>
          /\ pc[Main] = "append" /\ slot[Main] \in Fds
          /\ \A w \in Workers : pc'[w] = pc[w] /\ slot'[w] = slot[w]
          /\ queue' = IF Len(queue) > MaxRequests THEN queue ELSE Append(queue, slot[Main])
      BY <1>8, <1>c DEF AppendRequest
    <2>2. CASE slot[Main] = f
      <3>1. queue' = Append(queue, f)
        BY <2>1, <2>2
      <3>2. InQueue(f)'
        BY <3>1, <1>c, PushAdds DEF InQueue
      <3>3. QED
        BY <3>2 DEF Kept, Taken
    <2>3. CASE slot[Main] # f
      <3>1. ToSet(queue) \subseteq ToSet(queue')
        BY <2>1, <1>c, PushAdds
      <3>2. QED
        BY <2>1, <2>3, <3>1, KeptWith DEF InBatch, InQueue
    <2>4. QED
      BY <2>2, <2>3
  <1>9. ASSUME NEW w \in Workers, Take(w) PROVE Kept(f)'
    <2>1. ToSet(queue) \subseteq ToSet(queue') \cup {Head(queue)}
      BY <1>9, <1>c, PopTakes DEF Take
    <2>2. /\ UNCHANGED <<fdConn, interest, batch>>
          /\ pc[w] = "idle" /\ pc'[w] = "process" /\ slot'[w] = Head(queue)
          /\ \A t \in Threads : t # w => pc'[t] = pc[t] /\ slot'[t] = slot[t]
      BY <1>9, <1>c, PopTakes DEF Take
    <2>3. CASE f = Head(queue)
      BY <2>2, <2>3 DEF Kept, Taken, WithWorker
    <2>4. CASE f # Head(queue)
      BY <2>1, <2>2, <2>4, KeptWith DEF InBatch, InQueue
    <2>5. QED
      BY <2>3, <2>4
  <1>10. ASSUME NEW w \in Workers, ProcessReply(w) \/ ProcessFails(w) PROVE Kept(f)'
    <2>1. /\ UNCHANGED <<fdConn, interest, queue, batch>>
          /\ \A t \in Threads : slot'[t] = slot[t] /\ (pc[t] # "idle" => pc'[t] # "idle")
      BY <1>10, <1>c DEF ProcessReply, ProcessFails
    <2>2. QED
      BY <2>1, KeptWith DEF InBatch, InQueue
  <1>11. ASSUME NEW w \in Workers, ProcessIncomplete(w) \/ ProcessArm(w) PROVE Kept(f)'
    <2>1. PICK g \in Fds : g = slot[w] /\ WithWorker(g)
      BY <1>11, <1>c DEF ProcessIncomplete, ProcessArm, WithWorker
    <2>2. m_sockfd[g] \in {g, NoFd}
      BY <2>1, <1>x DEF Entered, Taken
    <2>3. /\ UNCHANGED <<fdConn, queue, batch>>
          /\ \A t \in Threads : t # w => pc'[t] = pc[t] /\ slot'[t] = slot[t]
      BY <1>11, <1>c DEF ProcessIncomplete, ProcessArm
    <2>4. PICK ev \in {"in", "out"} : Rearm(m_sockfd[g], ev)
      BY <1>11, <2>1 DEF ProcessIncomplete, ProcessArm
    <2>5. interest'[f] = interest[f] \/ interest'[f] \in {"in", "out"}
      BY <2>2, <2>4, <1>t, RearmsOwn
    <2>6. CASE f = g /\ fdConn[g] # None
      <3>1. CASE MainAt(g, {"init_sockfd", "init_addfd"})
        BY <2>3, <2>6, <3>1 DEF Kept, WithMain, MainAt
      <3>2. CASE ~MainAt(g, {"init_sockfd", "init_addfd"})
        <4>1. m_sockfd[g] = g /\ interest[g] # "none"
          BY <2>6, <3>2, <1>x DEF Entered, MainAt
        <4>2. interest'[g] = ev
          BY <2>4, <4>1, <1>t, RearmsOwn
        <4>3. QED
          BY <2>6, <4>2 DEF Kept
      <3>3. QED
        BY <3>1, <3>2
    <2>7. CASE f = g /\ fdConn[g] = None
      BY <2>3, <2>7 DEF Kept
    <2>8. CASE f # g
      BY <2>1, <2>3, <2>5, <2>8, KeptWith DEF InBatch, InQueue
    <2>9. QED
      BY <2>6, <2>7, <2>8
  <1>12. ASSUME NEW t \in Threads, CloseConn(t) PROVE Kept(f)'
    <2>1. PICK g \in Fds : g = slot[t]
      BY <1>12, <1>c DEF CloseConn, CloseFd, CloseMark, CloseLoad, CloseStore
    <2>2. /\ pc[t] \in {"close", "close_mark", "close_load", "close_store"}
          /\ UNCHANGED <<queue, batch>>
          /\ \A u \in Threads : u # t => pc'[u] = pc[u] /\ slot'[u] = slot[u]
          /\ t # Main => pc'[t] # "idle" /\ slot'[t] = slot[t]
      BY <1>12, <1>c DEF CloseConn, CloseFd, CloseMark, CloseLoad, CloseStore, AfterClose
    <2>3. pc[t] = "close" => m_sockfd[g] \in {g, NoFd}
      BY <2>1, <1>x DEF Entered, Taken, WithWorker, WithMain, MainAt
    <2>4. \/ UNCHANGED <<fdConn, interest>>
          \/ /\ fdConn' = [fdConn EXCEPT ![g] = None]
             /\ interest' = [interest EXCEPT ![g] = "none"]
      BY <1>12, <2>1, <2>3 DEF CloseConn, CloseFd, CloseMark, CloseLoad, CloseStore
    <2>5. CASE f = g /\ fdConn'[g] = None
      BY <2>5 DEF Kept
    <2>6. CASE f = g /\ fdConn'[g] # None
      <3>1. UNCHANGED <<fdConn, interest>> /\ fdConn[g] # None
        BY <2>4, <2>6, <1>c
      <3>2. CASE t = Main
        <4>1. pc[Main] = "close" /\ m_sockfd[g] = g
          BY <2>1, <2>2, <3>1, <3>2, <1>x DEF Entered, MainAt, Closed
        <4>2. fdConn'[g] = None
          BY <1>12, <2>1, <3>2, <4>1, <1>c DEF CloseConn, CloseFd, CloseMark, CloseLoad, CloseStore
        <4>3. QED
          BY <4>2, <2>6
      <3>3. CASE t # Main
        BY <2>2, <3>1, <3>3, KeptWith DEF InBatch, InQueue
      <3>4. QED
        BY <3>2, <3>3
    <2>7. CASE f # g
      <3>1. fdConn'[f] = fdConn[f] /\ interest'[f] = interest[f]
        BY <2>4, <2>7, <1>c
      <3>2. QED
        BY <2>1, <2>2, <2>7, <3>1, KeptWith DEF InBatch, InQueue
    <2>8. QED
      BY <2>5, <2>6, <2>7
  <1>13. CASE UNCHANGED vars
    BY <1>13 DEF vars, Kept, Taken, InBatch, InQueue, WithWorker, WithMain
  <1>14. QED
    BY <1>1, <1>2, <1>3, <1>4, <1>5, <1>6, <1>7, <1>8, <1>9, <1>10, <1>11, <1>12, <1>13
    DEF Next, MainStep, WorkerStep

(* An open connection that is not armed and in nobody's hands was left so by an
   append the full pool refused, whatever m_max_requests: no other step, of the
   main thread or a worker, loses one. *)
THEOREM WebServerLosesOnlyRefused == SerialSpec => LostOnlyWhenRefused
  <1>1. SerialInv /\ [Next /\ Apart']_vars =>
           [\A f \in Fds :
               ~Forgotten(f) /\ Forgotten(f)' =>
                   pc[Main] = "append" /\ slot[Main] = f /\ Len(queue) > MaxRequests]_vars
    <2> SUFFICES ASSUME SerialInv, [Next /\ Apart']_vars, NEW f \in Fds,
                        ~Forgotten(f), Forgotten(f)'
                 PROVE  pc[Main] = "append" /\ slot[Main] = f /\ Len(queue) > MaxRequests
      OBVIOUS
    <2>1. Kept(f)
      BY ForgottenIsNotKept DEF SerialInv
    <2>2. TypeOK'
      BY TypesStep DEF SerialInv
    <2>3. EventsOf(f)' = {} <=> ~InBatch(f)'
      BY DEF EventsOf, InBatch
    <2>4. QueuedAt(f)' = {} <=> ~InQueue(f)'
      BY DEF QueuedAt, InQueue, ToSet
    <2>5. ThreadsOn(f)' = {} <=> ~WithWorker(f)' /\ ~WithMain(f)'
      BY DEF ThreadsOn, WithWorker, WithMain, Threads
    <2>6. ~Kept(f)'
      BY <2>3, <2>4, <2>5 DEF Forgotten, Kept, Taken, Open, Armed
    <2>7. QED
      BY <2>1, <2>6, KeptStep
  <1>2. QED
    BY SerialHolds, <1>1, PTL DEF SerialSpec, LostOnlyWhenRefused

===============================================================================
