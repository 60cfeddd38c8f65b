---------------------------- MODULE MCRelayCreate ----------------------------
(* RelayCreate on small instances for TLC. *)
EXTENDS RelayCreate, TLC

(* Requests and bodies are interchangeable in the runs without liveness. *)
CreateSymmetry == Permutations(Request) \cup Permutations(Body)
=============================================================================
