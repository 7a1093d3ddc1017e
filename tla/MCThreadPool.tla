----------------------------- MODULE MCThreadPool -----------------------------
(***************************************************************************)
(* Model-checking instance of ThreadPool: two appenders, two workers and   *)
(* three requests (one a null pointer) over a pool whose m_max_requests is *)
(* 1, so that the queue fills up and append refuses.                       *)
(***************************************************************************)
EXTENDS ThreadPool

CONSTANTS p1, p2, w1, w2, r1, r2, r3

MCProducers == {p1, p2}
MCWorkers == {w1, w2}
MCRequests == {r1, r2, r3}
MCNullRequests == {r3}
===============================================================================
