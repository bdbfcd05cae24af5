---------------------------- MODULE MCOnboarding ----------------------------
(* Small instances of Onboarding: who runs concurrently and what may fail is *)
(* chosen by the configuration.                                              *)
EXTENDS Onboarding, TLC

\* Requests are interchangeable.
Symmetry == Permutations(Admins) \cup Permutations(Agents)
=============================================================================
