---------------------------- MODULE TaskRegistry ----------------------------
(***************************************************************************)
(* What state.db promises the user about task lifecycles, with every       *)
(* operation atomic: no threads, no snapshots, no lock.  TaskService        *)
(* implements this specification when the daemon is the only writer.        *)
(***************************************************************************)
CONSTANTS
    Tasks,      \* task ids
    Default     \* the default taskspace (context_mode = Default)

VARIABLES
    status,     \* status[t]: "absent" when `tasks` has no row for t
    cur         \* current_task_id, or Default

vars == <<status, cur>>

Init ==
    /\ status \in [Tasks -> {"absent", "active", "archived"}]
    /\ cur \in {Default} \cup {t \in Tasks : status[t] # "absent"}

Create(t) ==
    /\ status[t] = "absent"
    /\ status' = [status EXCEPT ![t] = "active"]
    /\ UNCHANGED cur

\* A taskspace is entered only while its task is active.
Enter(t) ==
    /\ status[t] = "active"
    /\ cur' = t
    /\ UNCHANGED status

Leave ==
    /\ cur' = Default
    /\ UNCHANGED status

\* Archiving twice is harmless, archiving a deleted task is refused.
Archive(t) ==
    /\ status[t] # "absent"
    /\ status' = [status EXCEPT ![t] = "archived"]
    /\ UNCHANGED cur

Restore(t) ==
    /\ status[t] = "archived"
    /\ status' = [status EXCEPT ![t] = "active"]
    /\ UNCHANGED cur

\* Deleting a task never leaves the session pointing at it.
Delete(t) ==
    /\ status[t] # "absent"
    /\ status' = [status EXCEPT ![t] = "absent"]
    /\ cur' = IF cur = t THEN Default ELSE cur

Next ==
    \/ Leave
    \/ \E t \in Tasks : Create(t) \/ Enter(t) \/ Archive(t) \/ Restore(t) \/ Delete(t)

Spec == Init /\ [][Next]_vars
=============================================================================
