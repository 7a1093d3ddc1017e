------------------------------ MODULE ThreadPool ------------------------------
(***************************************************************************)
(* threadpool<T> of ch15/15_3_threadpool.h with the locker and sem of      *)
(* ch14/14_2_locker.h: a request queue under a mutex, a semaphore that     *)
(* counts the queued requests, and detached worker threads that serve it.  *)
(*                                                                         *)
(* Each pthread call is a step of its own, so the threads interleave at    *)
(* every lock, unlock, post and wait.  The results of those calls are      *)
(* ignored by the code; the one that matters is sem_wait returning early   *)
(* (EINTR): the worker then goes on as if it had been given a token.       *)
(***************************************************************************)
EXTENDS Integers, SequencesExt

CONSTANTS Producers,      \* the threads that call append
          Workers,        \* the m_thread_number threads of the pool
          Requests,       \* the T* values that are appended, each at most once
          NullRequests,   \* those of them that are null pointers
          None,           \* "no request", "no thread"
          MaxRequests,    \* m_max_requests
          MaxInterrupts   \* bound: how often a sem_wait may be interrupted

Threads == Producers \cup Workers

(* The constructor refuses thread_number <= 0 and max_requests <= 0. *)
ASSUME ThreadAssumption ==
    /\ Workers # {} /\ IsFiniteSet(Workers) /\ IsFiniteSet(Producers)
    /\ Producers \cap Workers = {}
    /\ None \notin Threads
ASSUME RequestAssumption ==
    /\ None \notin Requests
    /\ NullRequests \subseteq Requests
ASSUME BoundAssumption ==
    /\ MaxRequests \in Nat \ {0}
    /\ MaxInterrupts \in Nat

VARIABLES m_workqueue,    \* the list of queued requests
          m_queuelocker,  \* the thread that holds the mutex, or None
          m_queuestat,    \* the value of the semaphore
          m_stop,
          life,           \* the pool object: "building", "live", "failed", "destroyed"
          pc,             \* where each thread is
          request,        \* the request in the hands of each thread, or None
          interrupts,     \* the interrupted sem_waits so far
          finished,       \* requests process() has returned from, or null ones skipped
          refused         \* requests append returned false for

vars == <<m_workqueue, m_queuelocker, m_queuestat, m_stop, life, pc, request,
          interrupts, finished, refused>>

Goto(t, label) == pc' = [pc EXCEPT ![t] = label]

Init ==
    /\ m_workqueue = << >>
    /\ m_queuelocker = None
    /\ m_queuestat = 0
    /\ m_stop = FALSE
    /\ life = "building"
    /\ pc = [t \in Threads |-> IF t \in Workers THEN "unborn" ELSE "idle"]
    /\ request = [t \in Threads |-> None]
    /\ interrupts = 0
    /\ finished = {}
    /\ refused = {}

-------------------------------------------------------------------------------
(* The constructor and the destructor. *)

(* One turn of the constructor's loop: pthread_create and pthread_detach.
   The new worker runs at once, while the others are still to be created. *)
CreateThread(w) ==
    /\ life = "building"
    /\ pc[w] = "unborn"
    /\ Goto(w, "top")
    /\ UNCHANGED <<m_workqueue, m_queuelocker, m_queuestat, m_stop, life,
                   request, interrupts, finished, refused>>

(* pthread_create or pthread_detach fails: the constructor throws.  The
   workers it has already started keep running. *)
CreateFails ==
    /\ life = "building"
    /\ life' = "failed"
    /\ UNCHANGED <<m_workqueue, m_queuelocker, m_queuestat, m_stop, pc,
                   request, interrupts, finished, refused>>

ConstructorReturns ==
    /\ life = "building"
    /\ \A w \in Workers : pc[w] # "unborn"
    /\ life' = "live"
    /\ UNCHANGED <<m_workqueue, m_queuelocker, m_queuestat, m_stop, pc,
                   request, interrupts, finished, refused>>

(* The owner may destroy the pool once no append is under way.  The body of
   the destructor only sets the flag: nothing posts, nothing joins. *)
Destroy ==
    /\ life = "live"
    /\ \A p \in Producers : pc[p] = "idle"
    /\ m_stop' = TRUE
    /\ life' = "destroyed"
    /\ UNCHANGED <<m_workqueue, m_queuelocker, m_queuestat, pc, request,
                   interrupts, finished, refused>>

-------------------------------------------------------------------------------
(* append, one step per pthread call. *)

(* A request the callers have not passed to append yet. *)
Unsubmitted(r) ==
    /\ r \notin ToSet(m_workqueue) \cup finished \cup refused
    /\ \A t \in Threads : request[t] # r

(* Mutant of AppendFull: returns without unlocking. *)
AppendFullKeepsLock(p) ==
    /\ pc[p] = "locked"
    /\ Len(m_workqueue) > MaxRequests
    /\ refused' = refused \cup {request[p]}
    /\ request' = [request EXCEPT ![p] = None]
    /\ Goto(p, "idle")
    /\ UNCHANGED <<m_workqueue, m_queuelocker, m_queuestat, m_stop, life,
                   interrupts, finished>>

(* Mutant of AppendFull: posts for the request it turns away. *)
AppendFullPosts(p) ==
    /\ pc[p] = "locked"
    /\ Len(m_workqueue) > MaxRequests
    /\ m_queuelocker' = None
    /\ m_queuestat' = m_queuestat + 1
    /\ refused' = refused \cup {request[p]}
    /\ request' = [request EXCEPT ![p] = None]
    /\ Goto(p, "idle")
    /\ UNCHANGED <<m_workqueue, m_stop, life, interrupts, finished>>

AppendLock(p, r) ==
    /\ life = "live"
    /\ pc[p] = "idle"
    /\ Unsubmitted(r)
    /\ m_queuelocker = None
    /\ m_queuelocker' = p
    /\ request' = [request EXCEPT ![p] = r]
    /\ Goto(p, "locked")
    /\ UNCHANGED <<m_workqueue, m_queuestat, m_stop, life, interrupts,
                   finished, refused>>

(* Mutant of AppendPush: push_front. *)
AppendPushFront(p) ==
    /\ pc[p] = "locked"
    /\ Len(m_workqueue) <= MaxRequests
    /\ m_workqueue' = <<request[p]>> \o m_workqueue
    /\ request' = [request EXCEPT ![p] = None]
    /\ Goto(p, "pushed")
    /\ UNCHANGED <<m_queuelocker, m_queuestat, m_stop, life, interrupts,
                   finished, refused>>

AppendFull(p) ==
    /\ pc[p] = "locked"
    /\ Len(m_workqueue) > MaxRequests
    /\ m_queuelocker' = None
    /\ refused' = refused \cup {request[p]}
    /\ request' = [request EXCEPT ![p] = None]
    /\ Goto(p, "idle")
    /\ UNCHANGED <<m_workqueue, m_queuestat, m_stop, life, interrupts, finished>>

AppendPush(p) ==
    /\ pc[p] = "locked"
    /\ Len(m_workqueue) <= MaxRequests
    /\ m_workqueue' = Append(m_workqueue, request[p])
    /\ request' = [request EXCEPT ![p] = None]
    /\ Goto(p, "pushed")
    /\ UNCHANGED <<m_queuelocker, m_queuestat, m_stop, life, interrupts,
                   finished, refused>>

(* Mutant of AppendPost: no post. *)
AppendNoPost(p) ==
    /\ pc[p] = "post"
    /\ Goto(p, "idle")
    /\ UNCHANGED <<m_workqueue, m_queuelocker, m_queuestat, m_stop, life,
                   request, interrupts, finished, refused>>

AppendUnlock(p) ==
    /\ pc[p] = "pushed"
    /\ m_queuelocker' = None
    /\ Goto(p, "post")
    /\ UNCHANGED <<m_workqueue, m_queuestat, m_stop, life, request, interrupts,
                   finished, refused>>

AppendPost(p) ==
    /\ pc[p] = "post"
    /\ m_queuestat' = m_queuestat + 1
    /\ Goto(p, "idle")
    /\ UNCHANGED <<m_workqueue, m_queuelocker, m_stop, life, request,
                   interrupts, finished, refused>>

-------------------------------------------------------------------------------
(* run, the loop of a worker. *)

(* Mutant of RunWait: does not block on an empty semaphore. *)
RunWaitNoBlock(w) ==
    /\ pc[w] = "wait"
    /\ m_queuestat' = m_queuestat - 1
    /\ Goto(w, "token")
    /\ UNCHANGED <<m_workqueue, m_queuelocker, m_stop, life, request,
                   interrupts, finished, refused>>

RunTest(w) ==
    /\ pc[w] = "top"
    /\ Goto(w, IF m_stop THEN "ended" ELSE "wait")
    /\ UNCHANGED <<m_workqueue, m_queuelocker, m_queuestat, m_stop, life,
                   request, interrupts, finished, refused>>

RunWait(w) ==
    /\ pc[w] = "wait"
    /\ m_queuestat > 0
    /\ m_queuestat' = m_queuestat - 1
    /\ Goto(w, "token")
    /\ UNCHANGED <<m_workqueue, m_queuelocker, m_stop, life, request,
                   interrupts, finished, refused>>

(* sem_wait fails with EINTR; run does not look at the result of wait. *)
RunInterrupted(w) ==
    /\ pc[w] = "wait"
    /\ interrupts < MaxInterrupts
    /\ interrupts' = interrupts + 1
    /\ Goto(w, "token")
    /\ UNCHANGED <<m_workqueue, m_queuelocker, m_queuestat, m_stop, life,
                   request, finished, refused>>

RunLock(w) ==
    /\ pc[w] = "token"
    /\ m_queuelocker = None
    /\ m_queuelocker' = w
    /\ Goto(w, "locked")
    /\ UNCHANGED <<m_workqueue, m_queuestat, m_stop, life, request, interrupts,
                   finished, refused>>

(* Mutant of RunPop: front without pop_front. *)
RunPeek(w) ==
    /\ pc[w] = "locked"
    /\ m_workqueue # << >>
    /\ request' = [request EXCEPT ![w] = Head(m_workqueue)]
    /\ Goto(w, "popped")
    /\ UNCHANGED <<m_workqueue, m_queuelocker, m_queuestat, m_stop, life,
                   interrupts, finished, refused>>

RunEmpty(w) ==
    /\ pc[w] = "locked"
    /\ m_workqueue = << >>
    /\ m_queuelocker' = None
    /\ Goto(w, "top")
    /\ UNCHANGED <<m_workqueue, m_queuestat, m_stop, life, request, interrupts,
                   finished, refused>>

RunPop(w) ==
    /\ pc[w] = "locked"
    /\ m_workqueue # << >>
    /\ request' = [request EXCEPT ![w] = Head(m_workqueue)]
    /\ m_workqueue' = Tail(m_workqueue)
    /\ Goto(w, "popped")
    /\ UNCHANGED <<m_queuelocker, m_queuestat, m_stop, life, interrupts,
                   finished, refused>>

RunUnlock(w) ==
    /\ pc[w] = "popped"
    /\ m_queuelocker' = None
    /\ Goto(w, IF request[w] \in NullRequests THEN "null" ELSE "process")
    /\ UNCHANGED <<m_workqueue, m_queuestat, m_stop, life, request, interrupts,
                   finished, refused>>

(* "null": if(!request) continue;  "process": request->process() returns. *)
RunProcess(w) ==
    /\ pc[w] \in {"null", "process"}
    /\ finished' = finished \cup {request[w]}
    /\ request' = [request EXCEPT ![w] = None]
    /\ Goto(w, "top")
    /\ UNCHANGED <<m_workqueue, m_queuelocker, m_queuestat, m_stop, life,
                   interrupts, refused>>

-------------------------------------------------------------------------------
AppendStep(p) == AppendFull(p) \/ AppendPush(p) \/ AppendUnlock(p) \/ AppendPost(p)

RunStep(w) ==
    \/ RunTest(w) \/ RunWait(w) \/ RunLock(w) \/ RunEmpty(w)
    \/ RunPop(w) \/ RunUnlock(w) \/ RunProcess(w)

Constructor == (\E w \in Workers : CreateThread(w)) \/ ConstructorReturns

Next ==
    \/ \E w \in Workers : CreateThread(w) \/ RunStep(w) \/ RunInterrupted(w)
    \/ \E p \in Producers : AppendStep(p) \/ \E r \in Requests : AppendLock(p, r)
    \/ ConstructorReturns \/ CreateFails \/ Destroy

(* Every started thread is scheduled.  Nothing makes a caller append, an
   interrupt arrive, or the pool be destroyed. *)
Fairness ==
    /\ WF_vars(Constructor)
    /\ \A p \in Producers : WF_vars(AppendStep(p))
    /\ \A w \in Workers : WF_vars(RunStep(w))

Spec == Init /\ [][Next]_vars
FairSpec == Spec /\ Fairness

-------------------------------------------------------------------------------
(* Properties. *)

ProducerLabels == {"idle", "locked", "pushed", "post"}
WorkerLabels == {"unborn", "top", "wait", "token", "locked", "popped", "null",
                 "process", "ended"}

(* The type invariant: every member of the pool and every thread's place. *)
TypeOK ==
    /\ m_workqueue \in Seq(Requests)
    /\ m_queuelocker \in Threads \cup {None}
    /\ m_queuestat \in Nat
    /\ m_stop \in BOOLEAN
    /\ life \in {"building", "live", "failed", "destroyed"}
    /\ pc \in [Threads -> ProducerLabels \cup WorkerLabels]
    /\ \A p \in Producers : pc[p] \in ProducerLabels
    /\ \A w \in Workers : pc[w] \in WorkerLabels
    /\ request \in [Threads -> Requests \cup {None}]
    /\ interrupts \in 0..MaxInterrupts
    /\ finished \subseteq Requests
    /\ refused \subseteq Requests

(* Where a thread is inside the mutex, and where it has a request in its hands. *)
InMutex(t) == pc[t] \in {"locked", "pushed", "popped"}
HasRequest(t) ==
    pc[t] \in IF t \in Producers THEN {"locked"} ELSE {"popped", "null", "process"}

(* The mutex is held by exactly the thread that is between lock and unlock in
   append or run, so that no two of them work on the list at once; and a thread
   has a request in its hands exactly while append or run owns one. *)
LockDiscipline ==
    \A t \in Threads :
        /\ m_queuelocker = t <=> InMutex(t)
        /\ request[t] # None <=> HasRequest(t)

(* The producers that have pushed a request and not posted for it yet, and the
   workers that have been let through wait and not looked at the queue yet. *)
Posting == {p \in Producers : pc[p] \in {"pushed", "post"}}
Admitted == {w \in Workers : pc[w] \in {"token", "locked"}}

Wakeups == m_queuestat + Cardinality(Posting) + Cardinality(Admitted)

(* No lost wakeup: for every queued request there is a post still to come, a
   token in the semaphore, or a worker already past wait, whatever the order in
   which append (unlock before post) and run interleave; and as long as no wait
   has been interrupted there is exactly one of these per request. *)
NoLostWakeup ==
    /\ Len(m_workqueue) <= Wakeups
    /\ interrupts = 0 => Len(m_workqueue) = Wakeups

(* The test `m_workqueue.empty()` in run is only ever true for a worker that an
   interrupted wait let through: a token always stands for a queued request. *)
TokenMeansRequest ==
    interrupts = 0 => \A w \in Workers : pc[w] = "locked" => m_workqueue # << >>

(* A request is in one place at a time - at one position of the queue, in the
   hands of one thread, handled, or refused - so that none is handled twice and
   none is both refused and handled, with several appenders and workers. *)
OnePlace ==
    /\ IsInjective(m_workqueue)
    /\ \A t \in Threads :
          request[t] # None => request[t] \notin ToSet(m_workqueue) \cup finished \cup refused
    /\ \A t, u \in Threads : request[t] = request[u] /\ request[t] # None => t = u
    /\ ToSet(m_workqueue) \cap (finished \cup refused) = {}
    /\ finished \cap refused = {}

(* What `size() > m_max_requests` really bounds: the queue holds at most one
   request more than m_max_requests, and a worker that takes one makes room. *)
QueueBound == Len(m_workqueue) <= MaxRequests + 1

(* The pool is the abstract queue: first in first out, one worker for each
   accepted request, and a refusal only when the queue is full (at one more
   than m_max_requests). *)
Queue == INSTANCE RequestQueue WITH
    queue <- m_workqueue,
    holds <- [w \in Workers |-> request[w]],
    Capacity <- MaxRequests + 1
ImplementsQueue == Queue!Spec

(* Every request append returned true for is handled, unless the pool is
   destroyed first. *)
AcceptedIsHandled ==
    \A r \in Requests : r \in ToSet(m_workqueue) ~> (r \in finished \/ m_stop)
===============================================================================
