---------------------------- MODULE MCAgentRelay ----------------------------
(* AgentRelay on small instances for TLC. *)
EXTENDS AgentRelay, TLC

(* Agents, inputs and keys are interchangeable in safety runs. *)
Symmetric == Permutations(Agent) \cup Permutations(Value)
=============================================================================
