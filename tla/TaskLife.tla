------------------------------ MODULE TaskLife ------------------------------
(***************************************************************************)
(* The life of the tasks of one agent as operators may rely on it, without *)
(* messages, lists and rows.  A task under way (pending, suspending,       *)
(* leaving) waits for the agent; whatever is lost or restarted, a          *)
(* suspended task is started again by an operator only, and a task that is *)
(* gone by nobody.                                                         *)
(***************************************************************************)
CONSTANT TaskIds

VARIABLE stage

Stages == {"new",           \* never assigned
           "unlisted",      \* to be given to the agent once it registers
           "pending",       \* to be started or changed by the agent
           "active",        \* confirmed
           "suspending",    \* to be stopped by the agent
           "suspended",     \* stopped
           "leaving",       \* removed, to be stopped by the agent
           "gone"}

TypeOK == stage \in [TaskIds -> Stages]

\* Stages of a task that no list holds.
Waiting == {"unlisted", "suspended"}

Moves(k, from, to) ==
    /\ stage[k] = from
    /\ stage' = [stage EXCEPT ![k] = to]

Init == stage = [k \in TaskIds |-> "new"]

\* Nothing tells whether a task is assigned active (see InitListsAssigned).
Assign(k) == \E to \in {"pending"} \cup Waiting : Moves(k, "new", to)

Edit(k) == Moves(k, "active", "pending")

Remove(k) ==
    \/ Moves(k, "active", "leaving")
    \/ \E from \in Waiting : Moves(k, from, "gone")

Toggle(k) ==
    \/ Moves(k, "active", "suspending")
    \/ Moves(k, "unlisted", "suspended")
    \/ \E to \in {"pending", "unlisted"} : Moves(k, "suspended", to)

\* The end of what a task under way waits for.
Resolved(s) ==
    CASE s = "pending" -> "active"
      [] s = "suspending" -> "suspended"
      [] s = "leaving" -> "gone"
      [] OTHER -> s

Confirm(answered) ==
    stage' = [k \in TaskIds |-> IF k \in answered THEN Resolved(stage[k]) ELSE stage[k]]

\* The agent registers with a server that has no list for it.
Load == stage' = [k \in TaskIds |-> IF stage[k] = "unlisted" THEN "pending" ELSE stage[k]]

\* The list is lost, by a restart or a second registration.
Forgotten(s) ==
    CASE s \in {"pending", "active"} -> Waiting
      [] s \in {"suspending", "leaving"} -> {Resolved(s)}
      [] OTHER -> {s}

Forget == /\ DOMAIN stage' = TaskIds
          /\ \A k \in TaskIds : stage'[k] \in Forgotten(stage[k])

Next ==
    \/ \E k \in TaskIds : Assign(k) \/ Edit(k) \/ Remove(k) \/ Toggle(k)
    \/ \E answered \in SUBSET TaskIds : Confirm(answered)
    \/ Load
    \/ Forget

Spec == Init /\ [][Next]_stage
=============================================================================
