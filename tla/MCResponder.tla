----------------------------- MODULE MCResponder -----------------------------
(* Responder on small instances for TLC. *)
EXTENDS Responder, TLC

Storms == Permutations(Fingerprint)
=============================================================================
