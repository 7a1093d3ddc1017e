------------------------------ MODULE MCChatroom ------------------------------
(***************************************************************************)
(* Model-checking instances of Chatroom.                                   *)
(***************************************************************************)
EXTENDS Chatroom

CONSTANTS c1, c2, c3

TwoClients == {c1, c2}
ThreeClients == {c1, c2, c3}

(* The clients differ in name only; for the runs of safety properties. *)
Symmetry == Permutations(Clients)
===============================================================================
