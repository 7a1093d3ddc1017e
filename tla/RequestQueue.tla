----------------------------- MODULE RequestQueue -----------------------------
(***************************************************************************)
(* What threadpool<T> (ch15/15_3_threadpool.h) promises its callers, with  *)
(* no thread, lock or semaphore in sight: one bounded first-in first-out   *)
(* queue, from which every accepted request goes to exactly one worker, in *)
(* the order of acceptance, and which turns a request away only when it    *)
(* holds Capacity of them.  ThreadPool is shown to implement this module.  *)
(***************************************************************************)
EXTENDS Naturals, SequencesExt

CONSTANTS Requests,   \* the requests that may be appended, each at most once
          Workers,    \* the workers that handle them
          None,       \* "no request"
          Capacity    \* the number of requests the queue can hold

VARIABLES queue,      \* the accepted requests that wait, oldest first
          holds,      \* the request each worker is busy with, or None
          finished,   \* the requests whose handling has ended
          refused     \* the requests that were turned away

vars == <<queue, holds, finished, refused>>

Init ==
    /\ queue = << >>
    /\ holds = [w \in Workers |-> None]
    /\ finished = {}
    /\ refused = {}

(* A request nobody has answered yet, in either way. *)
Fresh(r) ==
    /\ r \notin ToSet(queue) \cup finished \cup refused
    /\ \A w \in Workers : holds[w] # r

Accept(r) ==
    /\ Fresh(r)
    /\ Len(queue) < Capacity
    /\ queue' = Append(queue, r)
    /\ UNCHANGED <<holds, finished, refused>>

Refuse(r) ==
    /\ Fresh(r)
    /\ Len(queue) = Capacity
    /\ refused' = refused \cup {r}
    /\ UNCHANGED <<queue, holds, finished>>

Take(w) ==
    /\ holds[w] = None
    /\ queue # << >>
    /\ holds' = [holds EXCEPT ![w] = Head(queue)]
    /\ queue' = Tail(queue)
    /\ UNCHANGED <<finished, refused>>

Finish(w) ==
    /\ holds[w] # None
    /\ finished' = finished \cup {holds[w]}
    /\ holds' = [holds EXCEPT ![w] = None]
    /\ UNCHANGED <<queue, refused>>

Next ==
    \/ \E r \in Requests : Accept(r) \/ Refuse(r)
    \/ \E w \in Workers : Take(w) \/ Finish(w)

Spec == Init /\ [][Next]_vars
===============================================================================
