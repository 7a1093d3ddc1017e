------------------------------ MODULE MCChatServer ------------------------------
(***************************************************************************)
(* Model-checking instance of ChatServer, whose constants are numbers.     *)
(***************************************************************************)
EXTENDS ChatServer
===============================================================================
