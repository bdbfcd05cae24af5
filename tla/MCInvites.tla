----------------------------- MODULE MCInvites -----------------------------
(* Bounded instances of the invite store for TLC.                          *)
EXTENDS Invites, TLC

Symmetry == Permutations(Handles) \cup Permutations(Members)
=============================================================================
