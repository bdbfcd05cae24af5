---------------------------- MODULE MCDataplane ----------------------------
(* Bounded instances of the data plane connection for TLC.                 *)
EXTENDS Dataplane
=============================================================================
