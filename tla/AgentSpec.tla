------------------------------ MODULE AgentSpec ------------------------------
(***************************************************************************)
(* What an Agent object promises to the threads that share it: its task    *)
(* list behaves as a board on which every method takes one atomic step,    *)
(* whatever the interleaving of the HTTP threads inside Agent.cpp.         *)
(***************************************************************************)
EXTENDS AgentTasks

VARIABLE board

TypeOK == board \in Boards

Init == board = EmptyBoard

\* assignTask: refused (no step) when the id is already listed.
Assign(id, config) ==
    /\ ~IsListed(board, id)
    /\ board' = AssignTo(board, id, config)

\* editTask: refused when the task is missing or busy.
Edit(id, config) ==
    /\ IsSettled(board, id)
    /\ board' = EditOn(board, id, config)

\* cancelTask: false when missing, refused when busy.
Cancel(id) ==
    /\ IsSettled(board, id)
    /\ board' = CancelOn(board, id)

\* prepareStatusResponse, with all the confirmations of its request.
PrepareStatusResponse(settled, cancelled) ==
    board' = Confirmed(board, settled, cancelled)

Reset == board' = EmptyBoard

Next ==
    \/ \E id \in TaskIds, config \in Configs : Assign(id, config) \/ Edit(id, config)
    \/ \E id \in TaskIds : Cancel(id)
    \/ \E settled, cancelled \in SUBSET TaskIds : PrepareStatusResponse(settled, cancelled)
    \/ Reset

Spec == Init /\ [][Next]_board
=============================================================================
