----------------------------- MODULE MCProcessPool -----------------------------
(***************************************************************************)
(* Model-checking instance of ProcessPool, whose constants are numbers.    *)
(***************************************************************************)
EXTENDS ProcessPool
===============================================================================
