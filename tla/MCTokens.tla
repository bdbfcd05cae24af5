----------------------------- MODULE MCTokens ------------------------------
(* Bounded instances of the token registry for TLC.                        *)
EXTENDS Tokens, TLC

Symmetry == Permutations(Users) \cup Permutations(Secrets) \cup Permutations(Calls)
=============================================================================
