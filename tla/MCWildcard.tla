------------------------------ MODULE MCWildcard ------------------------------
(***************************************************************************)
(* Names of one letter, in both cases, and of the separator; masks of them *)
(* and of the two wildcards.                                               *)
(***************************************************************************)
EXTENDS Selection

MCUpper == [c \in Char |-> IF c = "a" THEN "A" ELSE c]
=============================================================================
