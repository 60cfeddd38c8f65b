----------------------------- MODULE MCRelayPg -----------------------------
(* RelayPg on small instances for TLC. *)
EXTENDS RelayPg, TLC

(* Sessions are interchangeable in the runs without liveness. *)
Symmetric == Permutations(Session)
=============================================================================
