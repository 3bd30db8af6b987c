------------------------------ MODULE MCAgent ------------------------------
(* Model checking of Agent on a small instance. *)
EXTENDS Agent, TLC

\* Threads, ids, configurations and addresses are interchangeable.
Symmetry == Permutations(Threads) \cup Permutations(TaskIds)
            \cup Permutations(Configs) \cup Permutations(Addresses)
=============================================================================
