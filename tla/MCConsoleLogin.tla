--------------------------- MODULE MCConsoleLogin ---------------------------
(* ConsoleLogin for TLC.                                                   *)
EXTENDS ConsoleLogin, TLC

\* Accounts, states and browsers are interchangeable.
Symmetry == Permutations(Accounts) \cup Permutations(States) \cup Permutations(Browsers)
=============================================================================
