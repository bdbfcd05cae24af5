----------------------------- MODULE MCUpdater -----------------------------
(* Bounded instances of the update engine for TLC.                         *)
EXTENDS Updater, TLC

Symmetry == Permutations(Runners)
=============================================================================
