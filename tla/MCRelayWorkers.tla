--------------------------- MODULE MCRelayWorkers ---------------------------
(* RelayWorkers on small instances for TLC. *)
EXTENDS RelayWorkers, TLC

MCUpper == [i \in Input |-> CHOOSE v \in Value : TRUE]
WorkerSymmetry == Permutations(Worker)
=============================================================================
