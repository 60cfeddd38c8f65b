---------------------------- MODULE MCFreshness ----------------------------
(* FreshnessTracker on small instances for TLC. *)
EXTENDS FreshnessTracker
=============================================================================
