--------------------------- MODULE ThreadPoolProofs ---------------------------
(***************************************************************************)
(* Machine-checked facts about ThreadPool, for any number of appenders,    *)
(* workers, requests and any m_max_requests.                               *)
(***************************************************************************)
EXTENDS ThreadPool, ContainerLemmas

-------------------------------------------------------------------------------
(* Lemmas about cardinalities. *)

(* One thread more, or one thread less, in a finite set of threads. *)
LEMMA CountOneMore ==
    ASSUME NEW S, IsFiniteSet(S), NEW x, x \notin S
    PROVE  Cardinality(S \cup {x}) = Cardinality(S) + 1
  BY FS_AddElement

LEMMA CountOneLess ==
    ASSUME NEW S, IsFiniteSet(S), NEW x \in S
    PROVE  Cardinality(S \ {x}) = Cardinality(S) - 1
  BY FS_RemoveElement
-------------------------------------------------------------------------------
(* Types, the mutex, and who has a request in hand. *)

(* TypeOK is not inductive alone: what a thread pushes, refuses or finishes is
   a request only because it has one in hand at that point. *)
TInv == TypeOK /\ LockDiscipline

LEMMA TInvInit == Init => TInv
  <1> SUFFICES ASSUME Init PROVE TInv
    OBVIOUS
  <1> USE ThreadAssumption, RequestAssumption, BoundAssumption DEF Init, Threads
  <1>1. TypeOK
    <2>1. m_workqueue \in Seq(Requests) /\ interrupts \in 0..MaxInterrupts
      OBVIOUS
    <2>2. /\ pc \in [Threads -> ProducerLabels \cup WorkerLabels]
          /\ \A p \in Producers : pc[p] \in ProducerLabels
          /\ \A w \in Workers : pc[w] \in WorkerLabels
      BY DEF ProducerLabels, WorkerLabels
    <2>3. QED
      BY <2>1, <2>2 DEF TypeOK
  <1>2. \A t \in Threads : m_queuelocker # t /\ ~InMutex(t)
    BY DEF InMutex
  <1>3. \A t \in Threads : request[t] = None /\ ~HasRequest(t)
    BY DEF HasRequest
  <1>4. QED
    BY <1>1, <1>2, <1>3 DEF TInv, LockDiscipline

LEMMA TInvStep == TInv /\ [Next]_vars => TInv'
  <1> SUFFICES ASSUME TInv, [Next]_vars PROVE TInv'
    OBVIOUS
  <1> USE ThreadAssumption, RequestAssumption, BoundAssumption
          DEF TInv, TypeOK, LockDiscipline, Threads, ProducerLabels,
              WorkerLabels, InMutex, HasRequest, Goto
  <1>1. ASSUME NEW w \in Workers, CreateThread(w) PROVE TInv'
    BY <1>1 DEF CreateThread
  <1>2. CASE ConstructorReturns \/ CreateFails \/ Destroy
    BY <1>2 DEF ConstructorReturns, CreateFails, Destroy
  <1>3. ASSUME NEW p \in Producers, NEW r \in Requests, AppendLock(p, r) PROVE TInv'
    BY <1>3 DEF AppendLock
  <1>4. ASSUME NEW p \in Producers, AppendFull(p) PROVE TInv'
    BY <1>4 DEF AppendFull
  <1>5. ASSUME NEW p \in Producers, AppendPush(p) PROVE TInv'
    BY <1>5 DEF AppendPush
  <1>6. ASSUME NEW p \in Producers, AppendUnlock(p) PROVE TInv'
    BY <1>6 DEF AppendUnlock
  <1>7. ASSUME NEW p \in Producers, AppendPost(p) PROVE TInv'
    BY <1>7 DEF AppendPost
  <1>8. ASSUME NEW w \in Workers, RunTest(w) PROVE TInv'
    BY <1>8 DEF RunTest
  <1>9. ASSUME NEW w \in Workers, RunWait(w) PROVE TInv'
    BY <1>9 DEF RunWait
  <1>10. ASSUME NEW w \in Workers, RunInterrupted(w) PROVE TInv'
    BY <1>10 DEF RunInterrupted
  <1>11. ASSUME NEW w \in Workers, RunLock(w) PROVE TInv'
    BY <1>11 DEF RunLock
  <1>12. ASSUME NEW w \in Workers, RunEmpty(w) PROVE TInv'
    BY <1>12 DEF RunEmpty
  <1>13. ASSUME NEW w \in Workers, RunPop(w) PROVE TInv'
    BY <1>13 DEF RunPop
  <1>14. ASSUME NEW w \in Workers, RunUnlock(w) PROVE TInv'
    BY <1>14 DEF RunUnlock
  <1>15. ASSUME NEW w \in Workers, RunProcess(w) PROVE TInv'
    BY <1>15 DEF RunProcess
  <1>16. CASE UNCHANGED vars
    BY <1>16 DEF vars
  <1>17. QED
    BY <1>1, <1>2, <1>3, <1>4, <1>5, <1>6, <1>7, <1>8, <1>9, <1>10, <1>11,
       <1>12, <1>13, <1>14, <1>15, <1>16 DEF Next, AppendStep, RunStep

(* In every reachable state the members have their types and the mutex
   protects the list: whoever is between lock and unlock holds it. *)
THEOREM LockIsDisciplined == Spec => [](TypeOK /\ LockDiscipline)
  <1>1. Spec => []TInv
    BY TInvInit, TInvStep, PTL DEF Spec
  <1>2. QED
    BY <1>1, PTL DEF TInv

(* The members and the locals of every thread have their types, whatever the
   constructor, the threads and the destructor do. *)
THEOREM PoolTypes == Spec => []TypeOK
  <1>1. TInv => TypeOK
    BY DEF TInv
  <1>2. QED
    BY <1>1, TInvInit, TInvStep, PTL DEF Spec
-------------------------------------------------------------------------------
(* No lost wakeup. *)

(* The counts in Wakeups are numbers. *)
LEMMA WakeupsCount ==
    ASSUME TInv
    PROVE  /\ IsFiniteSet(Posting) /\ Cardinality(Posting) \in Nat
           /\ IsFiniteSet(Admitted) /\ Cardinality(Admitted) \in Nat
           /\ m_queuestat \in Nat /\ Len(m_workqueue) \in Nat
  <1>1. Posting \in SUBSET Producers /\ Admitted \in SUBSET Workers
    BY DEF Posting, Admitted
  <1>2. IsFiniteSet(Posting) /\ IsFiniteSet(Admitted)
    BY <1>1, FS_Subset, ThreadAssumption
  <1>3. m_queuestat \in Nat /\ Len(m_workqueue) \in Nat
    BY DEF TInv, TypeOK
  <1>4. QED
    BY <1>2, <1>3, FS_CardinalityType

(* A step that neither lets a worker through wait, nor takes or leaves a post
   outstanding, nor touches the queue, keeps the count. *)
LEMMA WakeupsSame ==
    ASSUME NoLostWakeup, Posting' = Posting, Admitted' = Admitted,
           UNCHANGED <<m_workqueue, m_queuestat, interrupts>>
    PROVE  NoLostWakeup'
  BY DEF NoLostWakeup, Wakeups

LEMMA WakeupsStep == TInv /\ TInv' /\ NoLostWakeup /\ [Next]_vars => NoLostWakeup'
  <1> SUFFICES ASSUME TInv, TInv', NoLostWakeup, [Next]_vars PROVE NoLostWakeup'
    OBVIOUS
  <1> DEFINE L == Len(m_workqueue)
             P == Cardinality(Posting)
             A == Cardinality(Admitted)
  <1>count. /\ IsFiniteSet(Posting) /\ IsFiniteSet(Admitted)
            /\ L \in Nat /\ P \in Nat /\ A \in Nat /\ m_queuestat \in Nat
            /\ interrupts \in Nat
    BY WakeupsCount, BoundAssumption DEF TInv, TypeOK
  <1>inv. /\ L <= m_queuestat + P + A
          /\ interrupts = 0 => L = m_queuestat + P + A
    BY DEF NoLostWakeup, Wakeups
  <1>goal. (/\ L' <= m_queuestat' + P' + A'
            /\ interrupts' = 0 => L' = m_queuestat' + P' + A') => NoLostWakeup'
    BY DEF NoLostWakeup, Wakeups
  <1>types. /\ pc \in [Threads -> ProducerLabels \cup WorkerLabels]
            /\ m_workqueue \in Seq(Requests)
            /\ Producers \cap Workers = {}
    BY ThreadAssumption DEF TInv, TypeOK
  <1> USE DEF Threads, Goto
  <1>1. ASSUME NEW w \in Workers, CreateThread(w) PROVE NoLostWakeup'
    <2>1. Posting' = Posting /\ Admitted' = Admitted
      BY <1>1, <1>types DEF CreateThread, Posting, Admitted
    <2>2. QED
      BY <1>1, <2>1, WakeupsSame DEF CreateThread
  <1>2. CASE ConstructorReturns \/ CreateFails \/ Destroy \/ UNCHANGED vars
    <2>1. Posting' = Posting /\ Admitted' = Admitted
      BY <1>2 DEF ConstructorReturns, CreateFails, Destroy, vars, Posting, Admitted
    <2>2. QED
      BY <1>2, <2>1, WakeupsSame DEF ConstructorReturns, CreateFails, Destroy, vars
  <1>3. ASSUME NEW p \in Producers, NEW r \in Requests, AppendLock(p, r) PROVE NoLostWakeup'
    <2>1. Posting' = Posting /\ Admitted' = Admitted
      BY <1>3, <1>types DEF AppendLock, Posting, Admitted
    <2>2. QED
      BY <1>3, <2>1, WakeupsSame DEF AppendLock
  <1>4. ASSUME NEW p \in Producers, AppendFull(p) PROVE NoLostWakeup'
    <2>1. Posting' = Posting /\ Admitted' = Admitted
      BY <1>4, <1>types DEF AppendFull, Posting, Admitted
    <2>2. QED
      BY <1>4, <2>1, WakeupsSame DEF AppendFull
  <1>5. ASSUME NEW p \in Producers, AppendPush(p) PROVE NoLostWakeup'
    <2>1. p \notin Posting /\ Posting' = Posting \cup {p} /\ Admitted' = Admitted
      BY <1>5, <1>types DEF AppendPush, Posting, Admitted
    <2>2. P' = P + 1
      BY <2>1, <1>count, CountOneMore
    <2>3. request[p] \in Requests
      BY <1>5 DEF AppendPush, TInv, TypeOK, LockDiscipline, HasRequest
    <2>4. L' = L + 1
      BY <1>5, <2>3, <1>types DEF AppendPush
    <2>5. A' = A /\ UNCHANGED <<m_queuestat, interrupts>>
      BY <2>1, <1>5 DEF AppendPush
    <2>6. QED
      BY <2>2, <2>4, <2>5, <1>count, <1>inv, <1>goal
  <1>6. ASSUME NEW p \in Producers, AppendUnlock(p) PROVE NoLostWakeup'
    <2>1. Posting' = Posting /\ Admitted' = Admitted
      BY <1>6, <1>types DEF AppendUnlock, Posting, Admitted
    <2>2. QED
      BY <1>6, <2>1, WakeupsSame DEF AppendUnlock
  <1>7. ASSUME NEW p \in Producers, AppendPost(p) PROVE NoLostWakeup'
    <2>1. p \in Posting /\ Posting' = Posting \ {p} /\ Admitted' = Admitted
      BY <1>7, <1>types DEF AppendPost, Posting, Admitted
    <2>2. P' = P - 1
      BY <2>1, <1>count, CountOneLess
    <2>3. A' = A /\ m_queuestat' = m_queuestat + 1 /\ L' = L /\ interrupts' = interrupts
      BY <2>1, <1>7 DEF AppendPost
    <2>4. QED
      BY <2>2, <2>3, <1>count, <1>inv, <1>goal
  <1>8. ASSUME NEW w \in Workers, RunTest(w) PROVE NoLostWakeup'
    <2>1. Posting' = Posting /\ Admitted' = Admitted
      BY <1>8, <1>types DEF RunTest, Posting, Admitted
    <2>2. QED
      BY <1>8, <2>1, WakeupsSame DEF RunTest
  <1>9. ASSUME NEW w \in Workers, RunWait(w) \/ RunInterrupted(w) PROVE NoLostWakeup'
    <2>1. w \notin Admitted /\ Admitted' = Admitted \cup {w} /\ Posting' = Posting
      BY <1>9, <1>types DEF RunWait, RunInterrupted, Posting, Admitted
    <2>2. A' = A + 1
      BY <2>1, <1>count, CountOneMore
    <2>3. P' = P /\ L' = L
      BY <2>1, <1>9 DEF RunWait, RunInterrupted
    <2>4. CASE RunWait(w)
      <3>1. m_queuestat' = m_queuestat - 1 /\ interrupts' = interrupts
        BY <2>4 DEF RunWait
      <3>2. QED
        BY <3>1, <2>2, <2>3, <1>count, <1>inv, <1>goal
    <2>5. CASE RunInterrupted(w)
      <3>1. m_queuestat' = m_queuestat /\ interrupts' = interrupts + 1
        BY <2>5 DEF RunInterrupted
      <3>2. QED
        BY <3>1, <2>2, <2>3, <1>count, <1>inv, <1>goal
    <2>6. QED
      BY <1>9, <2>4, <2>5
  <1>10. ASSUME NEW w \in Workers, RunLock(w) PROVE NoLostWakeup'
    <2>1. Posting' = Posting /\ Admitted' = Admitted
      BY <1>10, <1>types DEF RunLock, Posting, Admitted
    <2>2. QED
      BY <1>10, <2>1, WakeupsSame DEF RunLock
  <1>11. ASSUME NEW w \in Workers, RunEmpty(w) \/ RunPop(w) PROVE NoLostWakeup'
    <2>1. w \in Admitted /\ Admitted' = Admitted \ {w} /\ Posting' = Posting
      BY <1>11, <1>types DEF RunEmpty, RunPop, Posting, Admitted
    <2>2. A' = A - 1 /\ A' \in Nat
      <3>1. A' = A - 1
        BY <2>1, <1>count, CountOneLess
      <3>2. A' \in Nat
        BY <2>1, <1>count, FS_RemoveElement, FS_CardinalityType
      <3>3. QED
        BY <3>1, <3>2
    <2>3. P' = P /\ UNCHANGED <<m_queuestat, interrupts>>
      BY <2>1, <1>11 DEF RunEmpty, RunPop
    <2>4. CASE RunEmpty(w)
      <3>1. L = 0 /\ L' = 0
        BY <2>4 DEF RunEmpty
      <3>2. QED
        BY <3>1, <2>2, <2>3, <1>count, <1>inv, <1>goal
    <2>5. CASE RunPop(w)
      <3>1. L' = L - 1
        BY <2>5, <1>types DEF RunPop
      <3>2. QED
        BY <3>1, <2>2, <2>3, <1>count, <1>inv, <1>goal
    <2>6. QED
      BY <1>11, <2>4, <2>5
  <1>12. ASSUME NEW w \in Workers, RunUnlock(w) \/ RunProcess(w) PROVE NoLostWakeup'
    <2>1. Posting' = Posting /\ Admitted' = Admitted
      BY <1>12, <1>types DEF RunUnlock, RunProcess, Posting, Admitted
    <2>2. QED
      BY <1>12, <2>1, WakeupsSame DEF RunUnlock, RunProcess
  <1>13. QED
    BY <1>1, <1>2, <1>3, <1>4, <1>5, <1>6, <1>7, <1>8, <1>9, <1>10, <1>11, <1>12
       DEF Next, AppendStep, RunStep

(* A queued request always has a wakeup: a post to come, a token, or a worker
   already past wait; exactly one each while no wait has been interrupted. *)
THEOREM WakeupsAreNotLost == Spec => []NoLostWakeup
  <1>1. Init => NoLostWakeup
    <2> SUFFICES ASSUME Init PROVE NoLostWakeup
      OBVIOUS
    <2>1. Posting = {} /\ Admitted = {}
      BY ThreadAssumption DEF Init, Posting, Admitted, Threads
    <2>2. Cardinality(Posting) = 0 /\ Cardinality(Admitted) = 0
      BY <2>1, FS_EmptySet
    <2>3. Len(m_workqueue) = 0 /\ m_queuestat = 0
      BY DEF Init
    <2>4. QED
      BY <2>2, <2>3 DEF NoLostWakeup, Wakeups
  <1>2. QED
    BY <1>1, TInvInit, TInvStep, WakeupsStep, PTL DEF Spec

(* The queue is never empty when a worker let through by a token looks at it. *)
THEOREM TokensMeanRequests == Spec => []TokenMeansRequest
  <1>1. TInv /\ NoLostWakeup => TokenMeansRequest
    <2> SUFFICES ASSUME TInv, NoLostWakeup, interrupts = 0,
                        NEW w \in Workers, pc[w] = "locked"
                 PROVE  m_workqueue # << >>
      BY DEF TokenMeansRequest
    <2>1. w \in Admitted
      BY DEF Admitted
    <2>2. Cardinality(Admitted) # 0
      BY <2>1, WakeupsCount, FS_EmptySet
    <2>3. Len(m_workqueue) # 0
      BY <2>2, WakeupsCount DEF NoLostWakeup, Wakeups
    <2>4. QED
      BY <2>3
  <1>2. QED
    BY <1>1, WakeupsAreNotLost, LockIsDisciplined, PTL DEF TInv
-------------------------------------------------------------------------------
(* Every request is in one place. *)

(* A step that moves no request. *)
LEMMA OnePlaceSame ==
    ASSUME OnePlace, UNCHANGED <<m_workqueue, request, finished, refused>>
    PROVE  OnePlace'
  BY DEF OnePlace

LEMMA OnePlaceStep == TInv /\ OnePlace /\ [Next]_vars => OnePlace'
  <1> SUFFICES ASSUME TInv, OnePlace, [Next]_vars PROVE OnePlace'
    OBVIOUS
  <1>types. /\ m_workqueue \in Seq(Requests)
            /\ request \in [Threads -> Requests \cup {None}]
            /\ Producers \subseteq Threads /\ Workers \subseteq Threads
            /\ None \notin Requests
    BY RequestAssumption DEF TInv, TypeOK, Threads
  <1>hands. /\ \A p \in Producers : pc[p] = "locked" => request[p] # None
            /\ \A w \in Workers : pc[w] \in {"null", "process"} => request[w] # None
    BY ThreadAssumption DEF TInv, LockDiscipline, HasRequest, Threads
  <1>1. ASSUME NEW p \in Producers, NEW r \in Requests, AppendLock(p, r) PROVE OnePlace'
    <2>1. /\ UNCHANGED <<m_workqueue, finished, refused>>
          /\ request' = [request EXCEPT ![p] = r]
          /\ r \notin ToSet(m_workqueue) \cup finished \cup refused
          /\ \A t \in Threads : request[t] # r
      BY <1>1 DEF AppendLock, Unsubmitted
    <2>2. QED
      BY <2>1, <1>types DEF OnePlace
  <1>2. ASSUME NEW p \in Producers, AppendFull(p) PROVE OnePlace'
    <2>1. /\ UNCHANGED <<m_workqueue, finished>>
          /\ request[p] # None
          /\ request' = [request EXCEPT ![p] = None]
          /\ refused' = refused \cup {request[p]}
      BY <1>2, <1>hands DEF AppendFull
    <2>2. QED
      BY <2>1, <1>types DEF OnePlace
  <1>3. ASSUME NEW p \in Producers, AppendPush(p) PROVE OnePlace'
    <2>1. /\ UNCHANGED <<finished, refused>>
          /\ request[p] # None
          /\ request' = [request EXCEPT ![p] = None]
          /\ m_workqueue' = Append(m_workqueue, request[p])
      BY <1>3, <1>hands DEF AppendPush
    <2>2. request[p] \in Requests /\ request[p] \notin ToSet(m_workqueue)
      BY <2>1, <1>types DEF OnePlace
    <2>3. /\ IsInjective(m_workqueue')
          /\ ToSet(m_workqueue') = ToSet(m_workqueue) \cup {request[p]}
      BY <2>1, <2>2, <1>types, PushAdds, PushKeepsInjective DEF OnePlace
    <2>4. QED
      BY <2>1, <2>3, <1>types DEF OnePlace
  <1>4. ASSUME NEW w \in Workers, RunPop(w) PROVE OnePlace'
    <2>1. /\ UNCHANGED <<finished, refused>>
          /\ m_workqueue # << >>
          /\ request' = [request EXCEPT ![w] = Head(m_workqueue)]
          /\ m_workqueue' = Tail(m_workqueue)
      BY <1>4 DEF RunPop
    <2>2. /\ Head(m_workqueue) \in ToSet(m_workqueue)
          /\ ToSet(m_workqueue') = ToSet(m_workqueue) \ {Head(m_workqueue)}
          /\ IsInjective(m_workqueue')
      BY <2>1, <1>types, PopRemoves DEF OnePlace
    <2>3. QED
      BY <2>1, <2>2, <1>types DEF OnePlace
  <1>5. ASSUME NEW w \in Workers, RunProcess(w) PROVE OnePlace'
    <2>1. /\ UNCHANGED <<m_workqueue, refused>>
          /\ request[w] # None
          /\ request' = [request EXCEPT ![w] = None]
          /\ finished' = finished \cup {request[w]}
      BY <1>5, <1>hands DEF RunProcess
    <2>2. QED
      BY <2>1, <1>types DEF OnePlace
  <1>6. ASSUME NEW p \in Producers, AppendUnlock(p) \/ AppendPost(p) PROVE OnePlace'
    BY <1>6, OnePlaceSame DEF AppendUnlock, AppendPost
  <1>7. ASSUME NEW w \in Workers,
               \/ CreateThread(w) \/ RunTest(w) \/ RunWait(w) \/ RunInterrupted(w)
               \/ RunLock(w) \/ RunEmpty(w) \/ RunUnlock(w)
        PROVE  OnePlace'
    BY <1>7, OnePlaceSame DEF CreateThread, RunTest, RunWait, RunInterrupted,
                              RunLock, RunEmpty, RunUnlock
  <1>8. CASE ConstructorReturns \/ CreateFails \/ Destroy \/ UNCHANGED vars
    BY <1>8, OnePlaceSame DEF ConstructorReturns, CreateFails, Destroy, vars
  <1>9. QED
    BY <1>1, <1>2, <1>3, <1>4, <1>5, <1>6, <1>7, <1>8 DEF Next, AppendStep, RunStep

(* No request is ever in two places: handled by one worker, once. *)
THEOREM RequestsAreInOnePlace == Spec => []OnePlace
  <1>1. Init => OnePlace
    BY DEF Init, OnePlace, ToSet, IsInjective
  <1>2. QED
    BY <1>1, TInvInit, TInvStep, OnePlaceStep, PTL DEF Spec

-------------------------------------------------------------------------------
(* The queue's bound, and the abstract queue. *)

LEMMA BoundStep == TInv /\ QueueBound /\ [Next]_vars => QueueBound'
  <1> SUFFICES ASSUME TInv, QueueBound, [Next]_vars PROVE QueueBound'
    OBVIOUS
  <1>types. m_workqueue \in Seq(Requests) /\ MaxRequests \in Nat
    BY BoundAssumption DEF TInv, TypeOK
  <1>1. ASSUME NEW p \in Producers, AppendPush(p) PROVE QueueBound'
    <2>1. request[p] \in Requests
      BY <1>1 DEF AppendPush, TInv, TypeOK, LockDiscipline, HasRequest, Threads
    <2>2. QED
      BY <1>1, <2>1, <1>types DEF AppendPush, QueueBound
  <1>2. ASSUME NEW w \in Workers, RunPop(w) PROVE QueueBound'
    BY <1>2, <1>types DEF RunPop, QueueBound
  <1>3. CASE UNCHANGED m_workqueue
    BY <1>3 DEF QueueBound
  <1>4. QED
    BY <1>1, <1>2, <1>3
       DEF Next, AppendStep, RunStep, CreateThread, ConstructorReturns, CreateFails,
           Destroy, AppendLock, AppendFull, AppendUnlock, AppendPost, RunTest, RunWait,
           RunInterrupted, RunLock, RunEmpty, RunUnlock, RunProcess, vars

(* The queue never holds more than m_max_requests + 1 requests: the bound the
   test `size() > m_max_requests` enforces. *)
THEOREM QueueIsBounded == Spec => []QueueBound
  <1>1. Init => QueueBound
    BY BoundAssumption DEF Init, QueueBound
  <1>2. QED
    BY <1>1, TInvInit, TInvStep, BoundStep, PTL DEF Spec

LEMMA QueueRefinesInit == Init => Queue!Init
  BY ThreadAssumption DEF Init, Queue!Init, Threads

LEMMA QueueRefinesStep ==
    TInv /\ OnePlace /\ QueueBound /\ [Next]_vars => [Queue!Next]_(Queue!vars)
  <1> SUFFICES ASSUME TInv, OnePlace, QueueBound, [Next]_vars
               PROVE  [Queue!Next]_(Queue!vars)
    OBVIOUS
  <1> DEFINE holds == [w \in Workers |-> request[w]]
  <1>types. /\ m_workqueue \in Seq(Requests)
            /\ request \in [Threads -> Requests \cup {None}]
            /\ Producers \subseteq Threads /\ Workers \subseteq Threads
            /\ Producers \cap Workers = {}
            /\ None \notin Requests
            /\ MaxRequests \in Nat
    BY RequestAssumption, BoundAssumption, ThreadAssumption DEF TInv, TypeOK, Threads
  <1>1. ASSUME NEW p \in Producers, NEW r \in Requests, AppendLock(p, r)
        PROVE  UNCHANGED Queue!vars
    BY <1>1, <1>types DEF AppendLock, Queue!vars
  <1>2. ASSUME NEW p \in Producers, AppendFull(p) \/ AppendPush(p)
        PROVE  request[p] \in Requests /\ Queue!Fresh(request[p])
    <2>1. request[p] # None
      BY <1>2, <1>types DEF AppendFull, AppendPush, TInv, LockDiscipline, HasRequest
    <2>2. \A w \in Workers : holds[w] # request[p]
      BY <2>1, <1>types DEF OnePlace
    <2>3. request[p] \notin ToSet(m_workqueue) \cup finished \cup refused
      BY <2>1, <1>types DEF OnePlace
    <2>4. request[p] \in Requests
      BY <2>1, <1>types
    <2>5. QED
      BY <2>2, <2>3, <2>4 DEF Queue!Fresh, Queue!ToSet, ToSet
  <1>3. ASSUME NEW p \in Producers, AppendFull(p) PROVE Queue!Refuse(request[p])
    <2>1. Len(m_workqueue) = MaxRequests + 1
      BY <1>3, <1>types DEF AppendFull, QueueBound
    <2>2. holds' = holds
      BY <1>3, <1>types DEF AppendFull
    <2>3. QED
      BY <1>2, <1>3, <2>1, <2>2 DEF AppendFull, Queue!Refuse
  <1>4. ASSUME NEW p \in Producers, AppendPush(p) PROVE Queue!Accept(request[p])
    <2>1. Len(m_workqueue) < MaxRequests + 1
      BY <1>4, <1>types DEF AppendPush
    <2>2. holds' = holds
      BY <1>4, <1>types DEF AppendPush
    <2>3. QED
      BY <1>2, <1>4, <2>1, <2>2 DEF AppendPush, Queue!Accept
  <1>5. ASSUME NEW w \in Workers, RunPop(w) PROVE Queue!Take(w)
    <2>1. holds[w] = None
      BY <1>5, <1>types DEF RunPop, TInv, LockDiscipline, HasRequest
    <2>2. holds' = [holds EXCEPT ![w] = Head(m_workqueue)]
      BY <1>5, <1>types DEF RunPop
    <2>3. QED
      BY <1>5, <2>1, <2>2 DEF RunPop, Queue!Take
  <1>6. ASSUME NEW w \in Workers, RunProcess(w) PROVE Queue!Finish(w)
    <2>1. holds[w] = request[w] /\ request[w] # None
      BY <1>6, <1>types DEF RunProcess, TInv, LockDiscipline, HasRequest
    <2>2. holds' = [holds EXCEPT ![w] = None]
      BY <1>6, <1>types DEF RunProcess
    <2>3. QED
      BY <1>6, <2>1, <2>2 DEF RunProcess, Queue!Finish
  <1>7. CASE UNCHANGED <<m_workqueue, request, finished, refused>>
    BY <1>7 DEF Queue!vars
  <1>8. QED
    BY <1>1, <1>2, <1>3, <1>4, <1>5, <1>6, <1>7
       DEF Next, AppendStep, RunStep, CreateThread, ConstructorReturns, CreateFails,
           Destroy, AppendUnlock, AppendPost, RunTest, RunWait,
           RunInterrupted, RunLock, RunEmpty, RunUnlock, vars, Queue!Next

(* The pool implements the abstract queue: requests are accepted, taken and
   finished in the order, and refused on the condition, RequestQueue states. *)
THEOREM PoolImplementsQueue == Spec => ImplementsQueue
  <1>1. Init => OnePlace /\ QueueBound
    BY BoundAssumption DEF Init, OnePlace, QueueBound, ToSet, IsInjective
  <1>2. QED
    BY <1>1, TInvInit, TInvStep, OnePlaceStep, BoundStep, QueueRefinesInit,
       QueueRefinesStep, PTL DEF Spec, ImplementsQueue, Queue!Spec
===============================================================================
