---------------------------- MODULE MCTaskItems ----------------------------
(* Model checking of TaskItems on small instances. *)
EXTENDS TaskItems, TLC

CONSTANTS Saver, Remover, Editor   \* three threads

Roles == [th \in Threads |-> CASE th = Saver -> {"save"}
                               [] th = Remover -> {"remove"}
                               [] th = Editor -> {"edit", "query"}]
=============================================================================
