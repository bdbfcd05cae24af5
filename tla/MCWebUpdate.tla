---------------------------- MODULE MCWebUpdate ----------------------------
(* Bounded instances of the web update for TLC.                            *)
EXTENDS WebUpdate
=============================================================================
