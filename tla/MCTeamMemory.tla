---------------------------- MODULE MCTeamMemory ----------------------------
(* TeamMemory for TLC.                                                     *)
EXTENDS TeamMemory, TLC

\* Groups, names, records and deletions are interchangeable.
Symmetry == Permutations(Groups) \cup Permutations(Names)
              \cup Permutations(Records) \cup Permutations(Removals)
=============================================================================
