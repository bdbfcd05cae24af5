------------------------------ MODULE MCGroups ------------------------------
(* Groups for TLC.                                                         *)
EXTENDS Groups, TLC

\* Groups and names are interchangeable.
Symmetry == Permutations(Groups) \cup Permutations(Names)
=============================================================================
