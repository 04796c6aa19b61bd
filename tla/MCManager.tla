----------------------------- MODULE MCManager -----------------------------
(* A small instance of Manager for TLC. *)
EXTENDS Manager

Disturbed == [fault |-> 2, outage |-> 1, rollout |-> 2]
=============================================================================
