----------------------------- MODULE MCTimerServer -----------------------------
(***************************************************************************)
(* Model-checking instance of TimerServer.                                 *)
(***************************************************************************)
EXTENDS TimerServer

CONSTANTS c1, c2

TwoClients == {c1, c2}
===============================================================================
