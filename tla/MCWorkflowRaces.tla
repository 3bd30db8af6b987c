--------------------------- MODULE MCWorkflowRaces ---------------------------
(* Model checking of WorkflowRaces on small instances. *)
EXTENDS WorkflowRaces, TLC

\* Every thread takes every request.
Anything == [th \in Threads |-> Requests]

Symmetry == Permutations(Threads) \cup Permutations(TaskIds)
            \cup Permutations(AgentIds) \cup Permutations(Configs)
=============================================================================
