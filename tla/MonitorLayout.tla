---------------------------- MODULE MonitorLayout ----------------------------
(***************************************************************************)
(* The workspaces of a taskspace on several monitors (workspace_nav.rs,     *)
(* hyprland.rs): the slot remembered for each monitor, the plan that puts   *)
(* them back when a taskspace is entered, pass by pass and verified, and    *)
(* the hotplug of monitors, whose events reach the daemon through the same  *)
(* queue as those of the user and of the daemon's own dispatches.           *)
(*                                                                          *)
(* TaskspaceSync has the key bindings and the slot files on one monitor.    *)
(***************************************************************************)
EXTENDS Naturals, Sequences, FiniteSets, Functions, FiniteSetsExt

CONSTANTS
    Monitors,     \* monitors, numbered in the order of the compositor's layout
    Spaces,       \* taskspaces: the tasks and Default
    Default,
    Slots,        \* default_workspace_count
    Global,       \* global_workspace_slots
    None,
    MaxPlugs,     \* bound: monitors plugged or unplugged
    MaxMoves,     \* bound: workspaces the user goes to
    MaxSwitches,  \* bound: switch requests
    MaxFollows    \* bound: events that change the taskspace

ASSUME LayoutAssumption ==
    /\ Monitors \subseteq Nat \ {0} /\ IsFiniteSet(Monitors)
    /\ Default \in Spaces
    /\ None \notin Spaces
    /\ Slots \in Nat \ {0}
    /\ Global \subseteq 1..Slots

VARIABLES
    hypr,      \* Hyprland: what each monitor shows, where each workspace lives, the focused monitor
    queue,     \* socket2 events the listener has not handled
    cur,       \* state.db: the current taskspace
    last,      \* state.db: last_workspace
    layout,    \* state.db: last_monitor_workspace
    guard,     \* RECENT of taskspace_switch_guard
    recent,    \* MONITOR_HOTPLUG_AT is less than its TTL ago
    pc,        \* what the holder of the service mutex does next
    mem,       \* the SessionState it has in memory
    job,       \* its snapshot of the monitors, plan, loop and focused monitor
    calm,      \* history: neither the user nor the hardware acted since the snapshot
    plugs, moves, switches, follows

saved == <<cur, last, layout>>
bounds == <<plugs, moves, switches, follows>>
vars == <<hypr, queue, saved, guard, recent, pc, mem, job, calm, bounds>>

-----------------------------------------------------------------------------
(* Workspaces and slots. *)

Name(c, s) == IF s \in Global THEN <<Default, s>> ELSE <<c, s>>
Unmanaged(m) == <<None, m>>
Topology == <<None, 0>>
Names == (Spaces \X (1..Slots)) \cup {Unmanaged(m) : m \in Monitors}

Allowed(c) == {Name(c, s) : s \in 1..Slots}
Owned(c) == {<<c, s>> : s \in (1..Slots) \ Global}
SlotOf(w) == w[2]

\* The taskspace a focus of w belongs to, seen from taskspace c.
Target(c, w) == IF w[1] = Default /\ w[2] \in Global THEN c ELSE w[1]

-----------------------------------------------------------------------------
(* Hyprland: a workspace lives on one monitor; the dispatchers in use. *)

Connected(h) == DOMAIN h.shown
Active(h) == h.shown[h.focused]
Hidden(h) == DOMAIN h.at \ {h.shown[m] : m \in Connected(h)}

\* What a new workspace that belongs to no taskspace is called: by the first free number.
Unused(h) ==
    LET free == {n \in Monitors : Unmanaged(n) \notin DOMAIN h.at}
    IN  {Unmanaged(n) : n \in {k \in free : \A j \in free : k <= j}}

Show(h, m, w) ==
    [h EXCEPT !.shown[m] = w, !.at = [x \in DOMAIN h.at \cup {w} |-> IF x = w THEN m ELSE h.at[x]]]

\* `workspace`: where it lives already, else on the focused monitor.
GoTo(h, w) ==
    LET m == IF w \in DOMAIN h.at THEN h.at[w] ELSE h.focused
    IN  [Show(h, m, w) EXCEPT !.focused = m]

SwapActive(h, m, n) == Show(Show(h, m, h.shown[n]), n, h.shown[m])

\* `focusmonitor` of a monitor that is gone is an error nobody reads.
FocusMonitor(h, m) == IF m \in Connected(h) THEN [h EXCEPT !.focused = m] ELSE h

\* `focusworkspaceoncurrentmonitor`: swaps when another monitor shows it.
GoHere(h, w) ==
    LET holders == {m \in Connected(h) : h.shown[m] = w}
    IN  IF holders # {} THEN SwapActive(h, h.focused, CHOOSE m \in holders : TRUE)
        ELSE Show(h, h.focused, w)

\* switch_workspace_on_monitor.
SwitchOn(h, m, w) == GoHere(FocusMonitor(h, m), w)

\* A dispatch, and the workspacev2 event of a change of the active workspace.
Dispatch(h) ==
    /\ hypr' = h
    /\ queue' = IF Active(h) = Active(hypr) THEN queue ELSE Append(queue, Active(h))

-----------------------------------------------------------------------------
(* The memory of the layout. *)

EmptyLayout == [m \in {} |-> 0]

\* Mutant: a monitor keeps its slot when it is unplugged.
PruneNothing(lay, live) == lay

\* prune_disconnected_monitors.
Prune(lay, live) ==
    IF live = {} THEN lay ELSE [c \in Spaces |-> Restrict(lay[c], DOMAIN lay[c] \cap live)]

\* capture_monitor_slots: a monitor on a foreign workspace keeps the slot it had.
CaptureSlots(s, c, h) ==
    LET on == {m \in Connected(h) : h.shown[m] \in Allowed(c)}
        kept == (DOMAIN s.layout[c] \cap Connected(h)) \ on
    IN  [s EXCEPT !.layout[c] =
            [m \in on \cup kept |-> IF m \in on THEN SlotOf(h.shown[m]) ELSE s.layout[c][m]]]

\* capture_monitor_layout of the taskspace being left.
CaptureLayout(s, c, h) ==
    LET t == CaptureSlots(s, c, h)
    IN  IF Active(h) \in Allowed(c) THEN [t EXCEPT !.last[c] = SlotOf(Active(h))] ELSE t

\* refresh_monitor_slots.
Refresh(s, h) ==
    CaptureSlots([s EXCEPT !.layout = Prune(s.layout, Connected(h))], s.cur, h)

\* sync_from_workspace_name.
SyncFrom(s, w, h) ==
    LET t == Target(s.cur, w)
    IN  Refresh([s EXCEPT !.cur = t, !.last[t] = SlotOf(w)], h)

\* Mutant: the slots of the other monitors are not looked at.
FirstFreeBlindly(used, preferred, usable) == preferred

\* The search of resolve_monitor_slot and first_unused_adopt_slot: the slot
\* of the monitor's position, the next ones, the ones before.
FirstFree(used, preferred, usable) ==
    LET later == {s \in usable : s >= preferred /\ s \notin used}
        earlier == {s \in usable : s < preferred /\ s \notin used}
    IN  IF later # {} THEN Min(later) ELSE IF earlier # {} THEN Min(earlier) ELSE preferred

Preferred(index) == IF index > Slots THEN Slots ELSE index
IndexOf(m, live) == Cardinality({n \in live : n <= m})

\* Mutant: a monitor without memory has no slot.
ResolveKnown(s, m, live) == IF m \in DOMAIN s.layout[s.cur] THEN s.layout[s.cur][m] ELSE 0

ResolveSlot(s, m, live) ==
    IF m \in DOMAIN s.layout[s.cur] THEN s.layout[s.cur][m]
    ELSE FirstFree(Range(s.layout[s.cur]), Preferred(IndexOf(m, live)), 1..Slots)

AdoptSlot(s, m, live) ==
    LET used == Range(s.layout[s.cur])
        free == (1..Slots) \ (Global \cup used)
    IN  FirstFree(used, Preferred(IndexOf(m, live)), IF free # {} THEN free ELSE 1..Slots)

-----------------------------------------------------------------------------
(* The user and the hardware. *)

Move ==
    /\ moves < MaxMoves
    /\ moves' = moves + 1
    /\ \E w \in (UNION {Owned(c) : c \in Spaces}) \cup Allowed(Default) : w # Active(hypr) /\ Dispatch(GoTo(hypr, w))
    /\ calm' = FALSE
    /\ UNCHANGED <<saved, guard, recent, pc, mem, job, plugs, switches, follows>>

\* Hyprland removes a workspace that is empty and not shown. Only an idle daemon and
\* Setup look at those, so nothing is lost by leaving it out elsewhere.
Vanish ==
    /\ pc \in {"idle", "setup"}
    /\ \E w \in Hidden(hypr) : hypr' = [hypr EXCEPT !.at = Restrict(hypr.at, DOMAIN hypr.at \ {w})]
    /\ UNCHANGED <<queue, saved, guard, recent, pc, mem, job, calm, bounds>>

\* A new monitor is parked on a new workspace or on a hidden one, and may get the focus.
Plug ==
    /\ plugs < MaxPlugs
    /\ plugs' = plugs + 1
    /\ \E m \in Monitors \ Connected(hypr), focus \in BOOLEAN :
          \E w \in Hidden(hypr) \cup Unused(hypr) :
              LET h == Show([hypr EXCEPT !.shown = [n \in Connected(hypr) \cup {m} |-> IF n = m THEN w ELSE hypr.shown[n]]], m, w)
                  ev == IF focus THEN {<<Topology, w>>, <<w, Topology>>} ELSE {<<Topology>>}
              IN  /\ hypr' = IF focus THEN [h EXCEPT !.focused = m] ELSE h
                  /\ \E e \in ev : queue' = queue \o e
    /\ calm' = FALSE
    /\ UNCHANGED <<saved, guard, recent, pc, mem, job, moves, switches, follows>>

\* The workspaces of an unplugged monitor go to another one.
Unplug ==
    /\ plugs < MaxPlugs
    /\ plugs' = plugs + 1
    /\ \E m, n \in Connected(hypr) :
          /\ m # n
          /\ LET h == [shown |-> Restrict(hypr.shown, Connected(hypr) \ {m}),
                       at |-> [w \in DOMAIN hypr.at |-> IF hypr.at[w] = m THEN n ELSE hypr.at[w]],
                       focused |-> IF hypr.focused = m THEN n ELSE hypr.focused]
                 ev == IF hypr.focused = m THEN {<<Topology, Active(h)>>, <<Active(h), Topology>>} ELSE {<<Topology>>}
             IN  /\ hypr' = h
                 /\ \E e \in ev : queue' = queue \o e
    /\ calm' = FALSE
    /\ UNCHANGED <<saved, guard, recent, pc, mem, job, moves, switches, follows>>

\* GUARD_TTL, MONITOR_HOTPLUG_TTL: read by the listener alone, when it is idle.
Expire ==
    /\ pc = "idle"
    /\ \/ guard.fresh /\ guard' = [guard EXCEPT !.fresh = FALSE] /\ UNCHANGED recent
       \/ recent /\ recent' = FALSE /\ UNCHANGED guard
    /\ UNCHANGED <<hypr, queue, saved, pc, mem, job, calm, bounds>>

-----------------------------------------------------------------------------
(* switch_task and context_default: set_taskspace. *)

Session == [cur |-> cur, last |-> last, layout |-> layout]
Save(s) == cur' = s.cur /\ last' = s.last /\ layout' = s.layout

BeginSwitch ==
    /\ pc = "idle"
    /\ switches < MaxSwitches
    /\ switches' = switches + 1
    /\ \E c \in Spaces : mem' = [CaptureLayout(Session, cur, hypr) EXCEPT !.cur = c]
    /\ pc' = "enter"
    /\ job' = [job EXCEPT !.op = "switch"]
    /\ UNCHANGED <<hypr, queue, saved, guard, recent, calm, plugs, moves, follows>>

\* adopt_active_slot_for_taskspace_switch, then the guard's record.
Enter ==
    /\ pc = "enter"
    /\ mem' = IF Active(hypr) \in Owned(mem.cur)
                THEN Refresh([mem EXCEPT !.last[mem.cur] = SlotOf(Active(hypr))], hypr)
                ELSE mem
    /\ guard' = [dest |-> mem.cur, old |-> cur, fresh |-> TRUE]
    /\ pc' = "setup"
    /\ UNCHANGED <<hypr, queue, saved, recent, job, calm, bounds>>

\* ensure_workspaces: one missing workspace is created by going there, and back
\* to where the focus was if that is in the same taskspace.
Setup ==
    /\ pc = "setup"
    /\ LET missing == IF mem.cur = Default THEN {} ELSE {w[2] : w \in Owned(mem.cur) \ DOMAIN hypr.at}
           new == <<mem.cur, Min(missing)>>
           prev == Active(hypr)
       IN  IF missing = {} THEN UNCHANGED <<hypr, queue>>
           ELSE IF prev \in Owned(mem.cur)
                THEN hypr' = GoTo(GoTo(hypr, new), prev) /\ queue' = queue \o <<new, prev>>
                ELSE Dispatch(GoTo(hypr, new))
    /\ pc' = "plan"
    /\ UNCHANGED <<saved, guard, recent, mem, job, calm, bounds>>

-----------------------------------------------------------------------------
(* sync_monitors_to_taskspace. *)

\* One monitor: focus_relative_in_taskspace. More: a slot for each of them.
PlanOne ==
    /\ pc = "plan"
    /\ Cardinality(Connected(hypr)) = 1
    /\ Dispatch(GoTo(hypr, Name(mem.cur, mem.last[mem.cur])))
    /\ Save(mem)
    /\ pc' = "idle"
    /\ UNCHANGED <<guard, recent, mem, job, calm, bounds>>

Plan ==
    /\ pc = "plan"
    /\ LET live == Connected(hypr)
       IN  /\ Cardinality(live) > 1
           /\ job' = [job EXCEPT !.targets = [m \in live |-> Name(mem.cur, ResolveSlot(mem, m, live))],
                                 !.focused = hypr.focused, !.todo = live, !.count = Cardinality(live) + 2]
    /\ pc' = "restore"
    /\ calm' = TRUE
    /\ UNCHANGED <<hypr, queue, saved, guard, recent, mem, bounds>>

\* Mutant: any workspace of the new taskspace will do.
NeedsMoveForeign(m) == m \notin Connected(hypr) \/ hypr.shown[m] \notin Allowed(mem.cur)

\* monitor_needs_move.
NeedsMove(m) == m \notin Connected(hypr) \/ hypr.shown[m] # job.targets[m]

\* A monitor is given its target: swapped with the holder, or moved.
Assign(m) ==
    LET holders == {n \in Connected(hypr) \ {m} : hypr.shown[n] = job.targets[m]}
    IN  IF holders = {} THEN Dispatch(SwitchOn(hypr, m, job.targets[m]))
        ELSE IF m \in Connected(hypr)
             THEN Dispatch(SwapActive(hypr, m, CHOOSE n \in holders : TRUE))
             ELSE UNCHANGED <<hypr, queue>>

\* restore_monitor_targets: one pass, the outermost monitor first.
RestorePass ==
    /\ pc = "restore"
    /\ LET pending == {m \in DOMAIN job.targets : NeedsMove(m)}
       IN  IF pending = {} \/ job.count = 0
           THEN /\ pc' = "verify"
                /\ job' = [job EXCEPT !.count = 2]
                /\ UNCHANGED <<hypr, queue>>
           ELSE /\ Assign(Max(pending))
                /\ job' = [job EXCEPT !.count = @ - 1]
                /\ UNCHANGED pc
    /\ UNCHANGED <<saved, guard, recent, mem, calm, bounds>>

\* verify_monitor_targets: two attempts for each monitor.
Verify ==
    /\ pc = "verify"
    /\ job.todo # {}
    /\ LET m == Min(job.todo)
       IN  IF NeedsMove(m) /\ job.count > 0
           THEN /\ Dispatch(SwitchOn(hypr, m, job.targets[m]))
                /\ job' = [job EXCEPT !.count = @ - 1]
           ELSE /\ job' = [job EXCEPT !.todo = @ \ {m}, !.count = 2]
                /\ UNCHANGED <<hypr, queue>>
    /\ UNCHANGED <<saved, guard, recent, pc, mem, calm, bounds>>

\* persist_monitor_layout_from_hyprland, focus_monitor, commit_state.
Finish ==
    /\ pc \in {"verify", "adopt"}
    /\ job.todo = {}
    /\ LET s == CaptureSlots(mem, mem.cur, hypr)
           f == job.focused
       IN  Save(IF f \in DOMAIN s.layout[s.cur] THEN [s EXCEPT !.last[s.cur] = s.layout[s.cur][f]] ELSE s)
    /\ Dispatch(FocusMonitor(hypr, job.focused))
    /\ pc' = "idle"
    /\ UNCHANGED <<guard, recent, mem, job, calm, bounds>>

-----------------------------------------------------------------------------
(* The listener: one event at a time, under the service mutex. *)

\* Mutant: only the TTL of the last hotplug counts.
HotplugOnlyRecent(w) == recent

\* should_treat_as_monitor_hotplug: w is shown by a monitor without memory while a
\* known one still shows the taskspace.
HotplugEffect(w) ==
    LET known == DOMAIN layout[cur]
    IN  \/ recent
        \/ /\ \E m \in Connected(hypr) \ known : hypr.shown[m] = w
           /\ \E m \in Connected(hypr) \cap known : hypr.shown[m] \in Allowed(cur)

\* should_ignore_external_revert.
Ignored(w) == guard.fresh /\ cur = guard.dest /\ w \in Allowed(guard.old)

Stale(w) == w # Active(hypr)
Managed(w) == w[1] # None

Take(w) ==
    /\ pc = "idle"
    /\ queue # <<>>
    /\ w = Head(queue)

\* monitor_needs_hotplug_adopt.
NeedsAdopt(s, m) ==
    m \notin DOMAIN s.layout[s.cur] /\ hypr.shown[m] \notin Owned(s.cur)

\* reconcile_monitor_topology: prune, then adopt the new monitors one by one.
BeginReconcile ==
    LET s == [Session EXCEPT !.layout = Prune(layout, Connected(hypr))]
    IN  /\ mem' = s
        /\ job' = [op |-> "reconcile", targets |-> hypr.shown, focused |-> hypr.focused, count |-> 0,
                   todo |-> {m \in Connected(hypr) : NeedsAdopt(s, m)}]
        /\ recent' = TRUE
        /\ calm' = TRUE
        /\ pc' = "adopt"

AdoptNew ==
    /\ pc = "adopt"
    /\ job.todo # {}
    /\ LET m == Min(job.todo)
           slot == AdoptSlot(mem, m, DOMAIN job.targets)
       IN  /\ Dispatch(SwitchOn(hypr, m, Name(mem.cur, slot)))
           /\ mem' = [mem EXCEPT !.layout[mem.cur] = [n \in DOMAIN @ \cup {m} |-> IF n = m THEN slot ELSE @[n]]]
           /\ job' = [job EXCEPT !.todo = @ \ {m}]
    /\ UNCHANGED <<saved, guard, recent, pc, calm, bounds>>

\* sync_monitor_topology, and a focus that is the effect of a hotplug.
Reconcile(w) ==
    /\ Take(w)
    /\ \/ w = Topology
       \/ Managed(w) /\ ~Stale(w) /\ Target(cur, w) # cur /\ HotplugEffect(w)
    /\ BeginReconcile
    /\ queue' = Tail(queue)
    /\ UNCHANGED <<hypr, saved, guard, bounds>>

Skip(w) ==
    /\ Take(w)
    /\ w # Topology
    /\ ~Managed(w) \/ Stale(w) \/ (Target(cur, w) # cur /\ ~HotplugEffect(w) /\ Ignored(w))
    /\ queue' = Tail(queue)
    /\ UNCHANGED <<hypr, saved, guard, recent, pc, mem, job, calm, bounds>>

\* sync_from_workspace_name within the taskspace.
Remember(w) ==
    /\ Take(w)
    /\ Managed(w) /\ ~Stale(w) /\ Target(cur, w) = cur
    /\ Save(SyncFrom(Session, w, hypr))
    /\ queue' = Tail(queue)
    /\ UNCHANGED <<hypr, guard, recent, pc, mem, job, calm, bounds>>

\* sync_taskspace_from_external, up to the restore.
Follow(w) ==
    /\ Take(w)
    /\ follows < MaxFollows
    /\ follows' = follows + 1
    /\ Managed(w) /\ ~Stale(w) /\ Target(cur, w) # cur /\ ~HotplugEffect(w) /\ ~Ignored(w)
    /\ mem' = SyncFrom(CaptureLayout(Session, cur, hypr), w, hypr)
    /\ job' = [job EXCEPT !.op = "follow"]
    /\ pc' = "plan"
    /\ queue' = Tail(queue)
    /\ UNCHANGED <<hypr, saved, guard, recent, calm, plugs, moves, switches>>

-----------------------------------------------------------------------------
\* initialize has recorded the layout of the current taskspace.
Init ==
    /\ cur \in Spaces
    /\ \E live \in (SUBSET Monitors) \ {{}} :
          \E shown \in [live -> Allowed(cur)], f \in live :
             /\ IsInjective(shown)
             /\ hypr = [shown |-> shown, at |-> [w \in Range(shown) |-> CHOOSE m \in live : shown[m] = w], focused |-> f]
             /\ layout = [c \in Spaces |-> IF c = cur THEN [m \in live |-> SlotOf(shown[m])] ELSE EmptyLayout]
             /\ last = [c \in Spaces |-> IF c = cur THEN SlotOf(shown[f]) ELSE 1]
             /\ job = [op |-> "none", targets |-> shown, focused |-> f, count |-> 0, todo |-> {}]
    /\ queue = <<>>
    /\ guard = [dest |-> cur, old |-> cur, fresh |-> FALSE]
    /\ recent = FALSE
    /\ pc = "idle"
    /\ mem = Session
    /\ calm = TRUE
    /\ plugs = 0 /\ moves = 0 /\ switches = 0 /\ follows = 0

SwitchStep == Enter \/ Setup \/ PlanOne \/ Plan \/ RestorePass \/ Verify \/ Finish \/ AdoptNew
EventStep == \E w \in Names \cup {Topology} : Reconcile(w) \/ Skip(w) \/ Remember(w) \/ Follow(w)
World == Move \/ Vanish \/ Plug \/ Unplug \/ Expire

Next == BeginSwitch \/ SwitchStep \/ EventStep \/ World

Spec == Init /\ [][Next]_vars

-----------------------------------------------------------------------------
(* Properties. *)

Layouts == [Spaces -> UNION {[live -> 1..Slots] : live \in SUBSET Monitors}]
Sessions == [cur : Spaces, last : [Spaces -> 1..Slots], layout : Layouts]

\* Every variable has its type, and Hyprland shows a workspace on the one monitor
\* it lives on.
TypeOK ==
    /\ Connected(hypr) \in (SUBSET Monitors) \ {{}}
    /\ \A m \in Connected(hypr) : hypr.shown[m] \in DOMAIN hypr.at /\ hypr.at[hypr.shown[m]] = m
    /\ DOMAIN hypr.at \subseteq Names /\ Range(hypr.at) \subseteq Connected(hypr)
    /\ hypr.focused \in Connected(hypr)
    /\ queue \in Seq(Names \cup {Topology})
    /\ Session \in Sessions
    /\ mem \in Sessions
    /\ guard \in [dest : Spaces, old : Spaces, fresh : BOOLEAN]
    /\ recent \in BOOLEAN
    /\ pc \in {"idle", "enter", "setup", "plan", "restore", "verify", "adopt"}
    /\ job.todo \subseteq DOMAIN job.targets

\* An undisturbed restore leaves every monitor on the workspace planned for it,
\* whatever was shown where, if the plan has one for each.
RestoreComplete ==
    [][pc = "verify" /\ pc' = "idle" /\ calm /\ IsInjective(job.targets)
        => \A m \in DOMAIN job.targets : hypr.shown[m] = job.targets[m]]_vars

\* The memory of the current taskspace is right and there is a slot of its own for every
\* monitor; those it does not remember show something foreign. As when the reconcile began.
Adoptable ==
    /\ Cardinality(Connected(hypr)) <= Cardinality((1..Slots) \ Global)
    /\ \A m \in Connected(hypr) :
          IF m \in DOMAIN layout[cur] THEN job.targets[m] = Name(cur, layout[cur][m])
          ELSE job.targets[m] \notin Owned(cur)

\* A hotplug leaves no foreign workspace in sight: an undisturbed reconcile of any number of
\* new monitors ends with every monitor on a workspace of the current taskspace, the old ones
\* too: no adoption takes a workspace away from a monitor that shows it.
AdoptComplete ==
    [][pc = "adopt" /\ pc' = "idle" /\ calm /\ Adoptable
        => \A m \in Connected(hypr) : hypr.shown[m] \in Allowed(cur)]_vars

\* As long as the session remembers the monitors of the taskspace, each on a slot of its
\* own, and the user goes nowhere, no event of the first hotplug changes the taskspace, in
\* whatever order the events arrive.
HotplugKeepsTaskspace ==
    [][pc = "idle" /\ pc' = "plan" /\ moves = 0 /\ plugs <= 1 /\ IsInjective(layout[cur])
        => layout[cur] = EmptyLayout]_vars

\* When the events of all hotplugs are handled, no taskspace has a slot for a
\* monitor that is gone, so that a slot is free again for the one plugged next.
MemoryConnected ==
    pc = "idle" /\ Topology \notin Range(queue)
        => \A c \in Spaces : DOMAIN layout[c] \subseteq Connected(hypr)
=============================================================================
