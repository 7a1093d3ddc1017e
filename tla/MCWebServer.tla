----------------------------- MODULE MCWebServer -----------------------------
(***************************************************************************)
(* Model-checking instances of WebServer.                                  *)
(***************************************************************************)
EXTENDS WebServer

CONSTANTS c1, c2, c3, w1, w2

TwoConns == {c1, c2}
ThreeConns == {c1, c2, c3}
OneWorker == {w1}
TwoWorkers == {w1, w2}
ClientsAndWorkers == Permutations(ThreeConns) \cup Permutations(TwoWorkers)
TwoFds == {5, 6}
ThreeFds == {5, 6, 7}
===============================================================================
