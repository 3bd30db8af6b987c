--------------------------- MODULE MCAgentProtocol ---------------------------
(* Model checking of AgentProtocol on small instances. *)
EXTENDS AgentProtocol, TLC

Symmetry == Permutations(TaskIds) \cup Permutations(Configs)
=============================================================================
