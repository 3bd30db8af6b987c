-------------------------- MODULE MCWorkflowManager --------------------------
(* Model checking of WorkflowManager on small instances. *)
EXTENDS WorkflowManager, TLC

CONSTANT SpecialThread     \* the thread set apart

\* It serves the agents, the others every request that writes tasks, and
\* registrations, so that all of them may register at once.
OneForAgents ==
    [th \in Threads |-> IF th = SpecialThread THEN {"create", "register", "status"}
                        ELSE Requests \ {"create", "status"}]

\* No request ever toggles a task.
NoToggles == [th \in Threads |-> Requests \ {"toggle"}]

Symmetry == Permutations(Threads \ {SpecialThread}) \cup Permutations(TaskIds)
            \cup Permutations(AgentIds) \cup Permutations(Machines) \cup Permutations(Configs)
=============================================================================
