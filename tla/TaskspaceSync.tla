--------------------------- MODULE TaskspaceSync ----------------------------
(***************************************************************************)
(* The taskspace of the session and the workspace in focus: intentional     *)
(* switches (set_taskspace in workspace_nav.rs), the workspacev2 events of  *)
(* Hyprland that wait behind the service mutex (apply_external_workspace in *)
(* service.rs), the guard against their echoes (taskspace_switch_guard.rs)  *)
(* and the key bindings that read the slot files without the daemon         *)
(* (workspace_slots.rs).                                                    *)
(*                                                                          *)
(* One monitor, whose workspace is the one in focus, and a fixed set of     *)
(* tasks that are not archived; TaskService has the tasks that come and go. *)
(***************************************************************************)
EXTENDS Naturals, Sequences

CONSTANTS
    Spaces,       \* taskspaces: the tasks and Default
    Default,
    Workspaces,   \* managed Hyprland workspaces
    Home,         \* Home[w]: the taskspace whose name w bears
    Global,       \* the global slots of Default
    None,         \* no key press under way, no taskspace left
    MaxFocuses,   \* bound: workspaces the user goes to
    MaxSwitches   \* bound: switch requests

\* The workspaces owned by a taskspace, and those its slots show.
Owned(c) == {w \in Workspaces : Home[w] = c}
Allowed(c) == Owned(c) \cup Global

ASSUME SyncAssumption ==
    /\ Default \in Spaces
    /\ Home \in [Workspaces -> Spaces]
    /\ Global \subseteq Owned(Default)
    /\ None \notin Workspaces \cup Spaces

VARIABLES
    focus,     \* Hyprland: the active workspace
    queue,     \* Hyprland: workspacev2 events the listener has not handled
    key,       \* the workspace a key binding has read from a slot file
    slots,     \* the taskspace the slot files show
    cur,       \* state.db: the current taskspace
    last,      \* state.db: the last workspace in each taskspace
    guard,     \* RECENT: the last intentional switch, and whether its TTL runs
    pc,        \* what the holder of the service mutex does next
    mem,       \* the SessionState it has in memory
    left,      \* history: while the TTL runs, the taskspace the last change of the
               \* session has left, when that was a switch
    focuses,
    switches

hyprland == <<focus, queue>>
saved == <<cur, last>>
bounds == <<focuses, switches>>
vars == <<hyprland, key, slots, saved, guard, pc, mem, left, bounds>>

Session == [cur : Spaces, last : [Spaces -> Workspaces]]

\* The taskspace a focus of w belongs to, seen from taskspace c: a global slot
\* is part of the task that visits it.
Target(c, w) == IF w \in Global THEN c ELSE Home[w]

\* Hyprland announces a workspace when the focus changes.
Focus(w) ==
    /\ focus' = w
    /\ queue' = IF w = focus THEN queue ELSE Append(queue, w)

\* Mutant: the slot is taken from the name of a workspace of any taskspace.
CapturedAnywhere == [last EXCEPT ![cur] = focus]

\* capture_monitor_layout of the taskspace being left.
Captured == IF focus \in Allowed(cur) THEN [last EXCEPT ![cur] = focus] ELSE last

\* commit_state: state.db, then the slot files.
Commit(s) ==
    /\ cur' = s.cur
    /\ last' = s.last
    /\ slots' = s.cur

-----------------------------------------------------------------------------
(* The user: a click reaches any workspace; a key binding reads a slot file  *)
(* and dispatches what it has read.                                         *)

Click ==
    /\ focuses < MaxFocuses
    /\ focuses' = focuses + 1
    /\ \E w \in Workspaces \ {focus} : Focus(w)
    /\ UNCHANGED <<key, slots, saved, guard, pc, mem, left, switches>>

ReadSlot ==
    /\ key = None
    /\ focuses < MaxFocuses
    /\ focuses' = focuses + 1
    /\ key' \in Allowed(slots)
    /\ UNCHANGED <<hyprland, slots, saved, guard, pc, mem, left, switches>>

\* Mutant: a slot file that is not there is dispatched as an empty name.
DispatchEmpty ==
    /\ Focus(key)
    /\ key' = None
    /\ UNCHANGED <<slots, saved, guard, pc, mem, left, bounds>>

DispatchKey ==
    /\ key # None
    /\ Focus(key)
    /\ key' = None
    /\ UNCHANGED <<slots, saved, guard, pc, mem, left, bounds>>

-----------------------------------------------------------------------------
(* switch_task and context_default: set_taskspace, then commit_state. *)

BeginSwitch ==
    /\ pc = "idle"
    /\ switches < MaxSwitches
    /\ switches' = switches + 1
    /\ \E c \in Spaces : mem' = [cur |-> c, last |-> Captured]
    /\ pc' = "publish"
    /\ UNCHANGED <<hyprland, key, slots, saved, guard, left, focuses>>

\* write_slot_cache, before anything moves.
Publish ==
    /\ pc = "publish"
    /\ slots' = mem.cur
    /\ pc' = "adopt"
    /\ UNCHANGED <<hyprland, key, saved, guard, mem, left, bounds>>

\* Mutant: the guard is set for the taskspace that is left.
AdoptGuardingOld ==
    /\ pc = "adopt"
    /\ mem' = IF focus \in Owned(mem.cur) \ Global THEN [mem EXCEPT !.last[mem.cur] = focus] ELSE mem
    /\ guard' = [dest |-> cur, old |-> mem.cur, fresh |-> TRUE]
    /\ pc' = "setup"
    /\ UNCHANGED <<hyprland, key, slots, saved, left, bounds>>

\* adopt_active_slot_for_taskspace_switch, then the guard's record.
Adopt ==
    /\ pc = "adopt"
    /\ mem' = IF focus \in Owned(mem.cur) \ Global THEN [mem EXCEPT !.last[mem.cur] = focus] ELSE mem
    /\ guard' = [dest |-> mem.cur, old |-> cur, fresh |-> TRUE]
    /\ pc' = "setup"
    /\ UNCHANGED <<hyprland, key, slots, saved, left, bounds>>

\* ensure_workspaces creates at most one named workspace by going there, and
\* goes back when it came from a workspace of the same taskspace.
Setup ==
    /\ pc = "setup"
    /\ pc' = "restore"
    /\ \/ UNCHANGED hyprland
       \/ /\ mem.cur # Default
          /\ \E w \in Owned(mem.cur) \ {focus} :
                \/ focus \notin Owned(mem.cur) /\ Focus(w)
                \/ focus \in Owned(mem.cur) /\ queue' = Append(Append(queue, w), focus) /\ UNCHANGED focus
    /\ UNCHANGED <<key, slots, saved, guard, mem, left, bounds>>

\* sync_monitors_to_taskspace: the remembered workspace of the taskspace.
Restore ==
    /\ pc \in {"restore", "follow"}
    /\ Focus(mem.last[mem.cur])
    /\ pc' = IF pc = "restore" THEN "switched" ELSE "followed"
    /\ UNCHANGED <<key, slots, saved, guard, mem, left, bounds>>

\* Mutant: the runtime files are left to the next switch.
FinishUnpublished ==
    /\ pc \in {"switched", "followed"}
    /\ cur' = mem.cur /\ last' = mem.last
    /\ left' = IF pc = "switched" /\ guard.fresh THEN cur ELSE None
    /\ pc' = "idle"
    /\ UNCHANGED <<hyprland, key, slots, guard, mem, bounds>>

Finish ==
    /\ pc \in {"switched", "followed"}
    /\ Commit(mem)
    /\ left' = IF pc = "switched" /\ guard.fresh THEN cur ELSE None
    /\ pc' = "idle"
    /\ UNCHANGED <<hyprland, key, guard, mem, bounds>>

-----------------------------------------------------------------------------
(* The listener: apply_external_workspace, one event at a time. *)

\* Mutant: events are followed wherever the focus is by now.
NeverStale(w) == FALSE

\* The focus has moved on: its own event is further down the queue.
Stale(w) == w # focus

\* Mutant: the guard does not look at the current taskspace.
IgnoredAnywhere(w) == guard.fresh /\ w \in Allowed(guard.old)

\* should_ignore_external_revert.
Ignored(w) ==
    /\ guard.fresh
    /\ cur = guard.dest
    /\ w \in Allowed(guard.old)

Take(w) ==
    /\ pc = "idle"
    /\ queue # <<>>
    /\ w = Head(queue)
    /\ queue' = Tail(queue)

\* Skipped: stale, or the echo of the taskspace just left.
Skip(w) ==
    /\ Take(w)
    /\ Stale(w) \/ (Target(cur, w) # cur /\ Ignored(w))
    /\ UNCHANGED <<focus, key, slots, saved, guard, pc, mem, left, bounds>>

\* sync_from_workspace_name within the taskspace.
Remember(w) ==
    /\ Take(w)
    /\ ~Stale(w)
    /\ Target(cur, w) = cur
    /\ Commit([cur |-> cur, last |-> [last EXCEPT ![cur] = w]])
    /\ UNCHANGED <<focus, key, guard, pc, mem, left, bounds>>

\* sync_taskspace_from_external: capture, context, memory; the monitors and
\* the commit follow.
Follow(w) ==
    /\ Take(w)
    /\ ~Stale(w)
    /\ Target(cur, w) # cur
    /\ ~Ignored(w)
    /\ mem' = [cur |-> Target(cur, w), last |-> [Captured EXCEPT ![Target(cur, w)] = w]]
    /\ pc' = "follow"
    /\ UNCHANGED <<focus, key, slots, saved, guard, left, bounds>>

\* GUARD_TTL has passed.
Expire ==
    /\ guard.fresh
    /\ guard' = [guard EXCEPT !.fresh = FALSE]
    /\ left' = None
    /\ UNCHANGED <<hyprland, key, slots, saved, pc, mem, bounds>>

\* Nothing is under way and the user is done.
Quiet == pc = "idle" /\ queue = <<>> /\ key = None
Rest == Quiet /\ focuses = MaxFocuses /\ switches = MaxSwitches /\ UNCHANGED vars

-----------------------------------------------------------------------------
\* initialize has followed the focus; no switch has been made.
Init ==
    /\ cur \in Spaces
    /\ focus \in Allowed(cur)
    /\ last \in [Spaces -> Workspaces]
    /\ \A c \in Spaces : last[c] \in Allowed(c)
    /\ last[cur] = focus
    /\ queue = <<>>
    /\ key = None
    /\ slots = cur
    /\ guard = [dest |-> cur, old |-> cur, fresh |-> FALSE]
    /\ pc = "idle"
    /\ mem = [cur |-> cur, last |-> last]
    /\ left = None
    /\ focuses = 0
    /\ switches = 0

SwitchStep == Publish \/ Adopt \/ Setup \/ Restore \/ Finish
EventStep == \E w \in Workspaces : Skip(w) \/ Remember(w) \/ Follow(w)
UserStep == Click \/ ReadSlot \/ DispatchKey

Next == BeginSwitch \/ SwitchStep \/ EventStep \/ UserStep \/ Expire \/ Rest

Spec == Init /\ [][Next]_vars

\* The daemon's threads run, and a key press that has begun is dispatched; the
\* user need do nothing, and the guard may outlive everything.
Fairness == WF_vars(SwitchStep) /\ WF_vars(EventStep) /\ WF_vars(DispatchKey)

FairSpec == Spec /\ Fairness

-----------------------------------------------------------------------------
(* Properties. *)

TypeOK ==
    /\ focus \in Workspaces
    /\ queue \in Seq(Workspaces)
    /\ key \in Workspaces \cup {None}
    /\ slots \in Spaces
    /\ cur \in Spaces
    /\ last \in [Spaces -> Workspaces]
    /\ guard \in [dest : Spaces, old : Spaces, fresh : BOOLEAN]
    /\ pc \in {"idle", "publish", "adopt", "setup", "restore", "switched", "follow", "followed"}
    /\ mem \in Session
    /\ left \in Spaces \cup {None}
    /\ focuses \in Nat
    /\ switches \in Nat

\* The focus the guard lets stand: in the taskspace the last switch left, while
\* the session stays where that switch went.
EchoStands == cur = guard.dest /\ focus \in Allowed(guard.old)

\* When all events are handled, the session is in the taskspace of the
\* workspace in focus and remembers it, whatever the stale check dropped; only
\* the guard's echo may stand against it.
SessionFollowsFocus ==
    pc = "idle" /\ queue = <<>> =>
        (Target(cur, focus) = cur /\ last[cur] = focus) \/ EchoStands

\* A taskspace always remembers one of its own or a global workspace, so that
\* restoring it does not leave it again.
MemoryOwned == \A c \in Spaces : last[c] \in Allowed(c)

\* Between operations the key bindings reach the current taskspace.
SlotsCurrent == pc = "idle" => slots = cur

\* While the guard runs, no event takes the session back to the taskspace a
\* switch has just left, be it an event of the switch itself or of a key that
\* was pressed on the slots of the old taskspace.
NoBounceBack == [][pc = "followed" /\ guard.fresh => cur' # left]_cur

\* The daemon's own dispatches do not feed back: once the user is done, the
\* events come to an end.
QueueDrains == []<>(pc = "idle" /\ queue = <<>>)
=============================================================================
