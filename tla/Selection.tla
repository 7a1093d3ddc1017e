------------------------------- MODULE Selection -------------------------------
(***************************************************************************)
(* SelectSeq for a test that is given as a set: the prover knows nothing   *)
(* of SelectSeq, nor of any operator that takes an operator.               *)
(***************************************************************************)
EXTENDS Integers, Sequences

(* The elements of s that are in S, in their order. *)
SelectIn(s, S) ==
    LET chosen[i \in 0..Len(s)] ==
            IF i = 0 THEN << >>
            ELSE IF s[i] \in S THEN Append(chosen[i - 1], s[i]) ELSE chosen[i - 1]
    IN  chosen[Len(s)]
===============================================================================
