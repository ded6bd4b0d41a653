---------------------------- MODULE TaskService -----------------------------
(***************************************************************************)
(* The task lifecycle of tsk-core: TaskService (service.rs) behind the      *)
(* daemon's Mutex (daemon/server.rs), the state.db snapshot it loads and    *)
(* saves (registry.rs), reboot recovery, and the command line processes     *)
(* that open state.db beside the daemon (tsk-cli/src/main.rs).              *)
(*                                                                          *)
(* Every operation loads the whole SessionState, edits it and saves the     *)
(* whole of it back.  A load, a save and a change outside the database      *)
(* (windows, containers, checkouts) are separate steps, because another     *)
(* process or an unlocked thread can act between them.  A save is one       *)
(* transaction; a load is one SELECT per table, so that a command line      *)
(* process may read the session row before and the task rows after a save.  *)
(* A load of the daemon is one step: what is proved of the daemon is proved *)
(* of a daemon nobody writes beside.                                        *)
(***************************************************************************)
EXTENDS Naturals, FiniteSets

CONSTANTS
    Tasks,       \* task ids
    Default,     \* the default taskspace
    Rpcs,        \* daemon threads, each serving one request or one event
    Writers,     \* command line processes that write state.db themselves
    Main,        \* the daemon's main thread
    None,        \* holder of a free mutex
    Faults,      \* kinds of step that may return Err
    MaxTasks,    \* config.max_tasks
    MaxReloads,  \* bound: in-process restarts after a config change
    MaxStops     \* bound: daemon deaths and reboots

FaultKinds == {"save", "windows", "checkout", "bootid"}
Procs == Rpcs \cup Writers \cup {Main}
Spaces == Tasks \cup {Default}
Servers == 0..MaxReloads

ASSUME ConstantsAssumption ==
    /\ Default \notin Tasks
    /\ Main \notin Rpcs \cup Writers
    /\ Rpcs \cap Writers = {}
    /\ None \notin Procs
    /\ Faults \subseteq FaultKinds
    /\ MaxReloads \in Nat

VARIABLES
    db,         \* state.db: the saved SessionState
    disk,       \* disk[t]: the task home and its checkout
    used,       \* ids ever generated (unique_task_id draws random ones)
    pc,         \* next step of each process
    req,        \* the request a process serves
    snap,       \* the SessionState a process has in memory
    inst,       \* inst[p]: the DaemonServer whose Arc<Mutex> thread p holds
    holder,     \* holder[i]: the thread that owns the mutex of server i
    server,     \* the running DaemonServer
    todo,       \* tasks reboot recovery has still to archive
    bootStale,  \* last_boot_id differs from the kernel's boot id
    stops       \* daemon deaths so far

vars == <<db, disk, used, pc, req, snap, inst, holder, server, todo, bootStale, stops>>

\* "active" is every status but archived: no operation tells Idle from Active.
Statuses == {"absent", "active", "archived"}

(***************************************************************************)
(* SessionState: `keys` are the tasks with an entry in last_workspace or    *)
(* last_monitor_workspace, `wins` the tasks some window record names.       *)
(***************************************************************************)
Session == [status : [Tasks -> Statuses], cur : Spaces, keys : SUBSET Tasks, wins : SUBSET Tasks]

EmptySession == [status |-> [t \in Tasks |-> "absent"], cur |-> Default, keys |-> {}, wins |-> {}]

Live(s) == {t \in Tasks : s.status[t] # "absent"}
Active(s) == {t \in Tasks : s.status[t] = "active"}
\* Mutant: the slots of the default taskspace are keyed like those of a task.
AnyKey(c) == {c}
TaskKey(c) == {c} \cap Tasks

ListenerKinds == {"follow", "windows", "topology"}
TaskKinds == {"create", "switch", "archive", "restore", "delete", "rename"}
MemoryKinds == {"remember", "goto"}
WriterKinds == MemoryKinds \cup {"windows", "reset"}
Kinds == TaskKinds \cup ListenerKinds \cup WriterKinds \cup {"default", "none"}

Requests == [kind : Kinds, arg : Spaces]
NoRequest == [kind |-> "none", arg |-> Default]

\* The requests and events the daemon dispatches.
DaemonRequests ==
    [kind : TaskKinds, arg : Tasks] \cup [kind : {"follow"}, arg : Spaces]
        \cup [kind : {"default", "topology"} \cup WriterKinds, arg : {Default}]

-----------------------------------------------------------------------------
(* Edits of an in-memory SessionState. *)

\* set_taskspace: the leaving layout is captured and the destination slot
\* adopted when Hyprland answers, so each key may or may not be written.
SetTaskspace(s, c) ==
    {[s EXCEPT !.cur = c, !.keys = @ \cup K] : K \in SUBSET (TaskKey(s.cur) \cup TaskKey(c))}

\* switch_task enters t and makes sure it has a remembered slot.
Entered(s, t) == {[r EXCEPT !.keys = @ \cup {t}] : r \in SetTaskspace(s, t)}

\* Mutant: the focused taskspace is followed whatever became of its task.
FollowedBlindly(s, c) == SetTaskspace(s, c) \cup SetTaskspace(s, s.cur)

\* apply_external_workspace for a focused workspace of taskspace c: follow it
\* to an active task or to default, or only refresh the memory of the current
\* taskspace (a global slot, a hotplug, a focus inside the taskspace).
Followed(s, c) ==
    UNION {SetTaskspace(s, d) : d \in ({c} \cap (Active(s) \cup {Default})) \cup {s.cur}}

SetStatus(s, t, v) == [s EXCEPT !.status[t] = v]

\* Mutant: the window records of the archived task stay.
ArchivedUnpurged(s, t) == SetStatus(s, t, "archived")

Archived(s, t) == [SetStatus(s, t, "archived") EXCEPT !.wins = @ \ {t}]

Deleted(s, t) ==
    [status |-> [s.status EXCEPT ![t] = "absent"],
     cur    |-> IF s.cur = t THEN Default ELSE s.cur,
     keys   |-> s.keys \ {t},
     wins   |-> s.wins \ {t}]

\* What a save that is about neither tasks nor the taskspace does to the
\* navigation memory and to the window records: new windows are tagged with a
\* task that is not archived, vanished ones are dropped.
KeysAfter(s, kind) ==
    IF kind = "reset" THEN {{}}
    ELSE IF kind \in MemoryKinds \cup {"topology"} THEN {s.keys, s.keys \cup TaskKey(s.cur)}
    ELSE {s.keys}

WinsAfter(s, kind) == IF kind = "windows" THEN SUBSET (s.wins \cup Active(s)) ELSE {s.wins}

-----------------------------------------------------------------------------
(* Threads, the mutex and saves. *)

Instance(p) == IF p = Main THEN server ELSE inst[p]

\* Mutant: a service, and a mutex, for every connection.
LockPerConnection(p) == TRUE

\* Main archives with the mutex already in its hands.
CanLock(p) == holder[Instance(p)] \in {None} \cup ({p} \cap {Main})

Lock(p) == holder' = [holder EXCEPT ![Instance(p)] = p]

Unlock(p) == holder' = IF p = Main THEN holder
                       ELSE [i \in Servers |-> IF holder[i] = p THEN None ELSE holder[i]]

Goto(p, step) == pc' = [pc EXCEPT ![p] = step]

\* The end of a request, with or without an error: its memory is gone.  Main
\* logs the error and goes on with recovery.
Finish(p) ==
    /\ Goto(p, IF p = Main THEN "recover" ELSE "done")
    /\ req' = [req EXCEPT ![p] = NoRequest]
    /\ snap' = [snap EXCEPT ![p] = EmptySession]
    /\ Unlock(p)

\* Continue with session s in memory and the mutex held.
Proceed(p, s, step) ==
    /\ Goto(p, step)
    /\ snap' = [snap EXCEPT ![p] = s]
    /\ UNCHANGED <<req, holder>>

\* commit_state(s), then `after`.  save_state is one transaction; the write of
\* the runtime files after it can fail too, with the database already changed.
Commit(p, s, after) ==
    \/ /\ db' = s
       /\ after
    \/ /\ "save" \in Faults
       /\ db' \in {db, s}
       /\ Finish(p)

EnvSame == UNCHANGED <<used, inst, server, todo, bootStale, stops>>

\* Steps that only touch the database, and steps that only touch the disk.
DbStep == UNCHANGED disk /\ EnvSame
DiskStep == UNCHANGED db /\ EnvSame

-----------------------------------------------------------------------------
(* Accepting a request: handle_connection spawns a thread, the listener     *)
(* thread calls the service; both then wait for the mutex.                  *)

FreshId(t) == db.status[t] = "absent" /\ t \notin used

Receive(p) ==
    /\ pc[p] = "new"
    /\ pc[Main] = "serving"
    /\ \E r \in DaemonRequests :
        /\ r.kind = "create" => FreshId(r.arg)
        /\ used' = IF r.kind = "create" THEN used \cup {r.arg} ELSE used
        /\ req' = [req EXCEPT ![p] = r]
    /\ inst' = [inst EXCEPT ![p] = server]
    /\ Goto(p, "waiting")
    /\ UNCHANGED <<db, disk, snap, holder, server, todo, bootStale, stops>>

\* Mutant: switch_task only looks whether the task exists.
AcceptsArchived(s, r) ==
    /\ r.kind = "create" => Cardinality(Active(s)) < MaxTasks
    /\ r.kind = "archive" => s.status[r.arg] = "active"
    /\ r.kind = "restore" => s.status[r.arg] = "archived" /\ disk[r.arg] # "none"
    /\ r.kind \in {"switch", "delete", "rename"} => s.status[r.arg] # "absent"
    /\ r.kind = "follow" => r.arg \in Active(s) \cup {Default}

\* The checks each operation makes on the state it loads.
Accepts(s, r) ==
    /\ r.kind = "create" => Cardinality(Active(s)) < MaxTasks
    /\ r.kind \in {"switch", "archive"} => s.status[r.arg] = "active"
    /\ r.kind = "restore" => s.status[r.arg] = "archived" /\ disk[r.arg] # "none"
    /\ r.kind \in {"delete", "rename"} => s.status[r.arg] # "absent"
    /\ r.kind = "follow" => r.arg \in Active(s) \cup {Default}

FirstStep ==
    [create |-> "provision", switch |-> "switching", archive |-> "preparing",
     restore |-> "reattach", delete |-> "deleting", rename |-> "saving",
     default |-> "leaving", follow |-> "following", remember |-> "keyed", goto |-> "keyed",
     reset |-> "saving", windows |-> "saving", topology |-> "saving"]

\* Lock the service and load the state.  remember_workspace_go and _goto load
\* it first for the taskspace key alone.
Admit(p) ==
    /\ pc[p] = "waiting"
    /\ CanLock(p)
    /\ Accepts(db, req[p])
    /\ Lock(p)
    /\ Goto(p, FirstStep[req[p].kind])
    /\ snap' = [snap EXCEPT ![p] = db]
    /\ req' = [req EXCEPT ![p].arg = IF req[p].kind \in MemoryKinds THEN db.cur ELSE @]
    /\ UNCHANGED db /\ DbStep

\* An operation the loaded state forbids, an event found stale or taken for
\* the echo of an intentional switch, a slot without a workspace, and a failed
\* hyprctl query end without a save.
Refuse(p) ==
    /\ pc[p] = "waiting"
    /\ CanLock(p)
    /\ ~Accepts(db, req[p]) \/ req[p].kind \in ListenerKinds \cup MemoryKinds \cup {"rename"}
    /\ Finish(p)
    /\ UNCHANGED db /\ DbStep

-----------------------------------------------------------------------------
(* create_task *)

\* provision_task_checkout and the files of the task home.
Provision(p) ==
    /\ pc[p] = "provision"
    /\ \/ /\ disk' = [disk EXCEPT ![req[p].arg] = "attached"]
          /\ Proceed(p, snap[p], "creating")
       \/ /\ "checkout" \in Faults
          /\ \E left \in {"none", "attached"} : disk' = [disk EXCEPT ![req[p].arg] = left]
          /\ Finish(p)
    /\ DiskStep

\* Saved as Active; with `switch` the task is then entered by switch_task.
CommitCreate(p) ==
    /\ pc[p] = "creating"
    /\ LET s == SetStatus(snap[p], req[p].arg, "active")
       IN  Commit(p, s, Proceed(p, s, "entering") \/ Finish(p))
    /\ DbStep

(* switch_task, on its own or at the end of create_task and restore_task *)


EnterLoad(p) ==
    /\ pc[p] = "entering"
    /\ IF db.status[req[p].arg] = "active" THEN Proceed(p, db, "switching") ELSE Finish(p)
    /\ UNCHANGED db /\ DbStep

CommitSwitch(p) ==
    /\ pc[p] = "switching"
    /\ \E s \in Entered(snap[p], req[p].arg) : Commit(p, s, Finish(p))
    /\ DbStep

(* context_default *)

CommitLeave(p) ==
    /\ pc[p] = "leaving"
    /\ \E s \in SetTaskspace(snap[p], Default) : Commit(p, s, Finish(p))
    /\ DbStep

-----------------------------------------------------------------------------
(* archive_task: two locked sections around an unlocked teardown. *)

\* Mutant: the guard lives through the teardown, and lock() is called again.
SuspendLocked(p, step) == Goto(p, step) /\ UNCHANGED <<req, snap, holder>>

\* The daemon drops the guard returned by lock(), its snapshot with it; the
\* request goes on.  Main keeps the mutex.
Suspend(p, step) ==
    /\ Goto(p, step)
    /\ snap' = [snap EXCEPT ![p] = EmptySession]
    /\ Unlock(p)
    /\ UNCHANGED req

\* is_active_task_context also holds when a workspace of the task is focused.
PrepareArchive(p) ==
    /\ pc[p] = "preparing"
    /\ \/ \E s \in SetTaskspace(snap[p], Default) : Commit(p, s, Suspend(p, "teardown"))
       \/ /\ snap[p].cur # req[p].arg
          /\ Suspend(p, "teardown")
          /\ UNCHANGED db
    /\ DbStep

\* run_archive_teardown: an Err from close_task_windows ends the archive, one
\* from the checkout is logged.
ArchiveTeardown(p) ==
    LET t == req[p].arg IN
    /\ pc[p] = "teardown"
    /\ \/ /\ disk' = [disk EXCEPT ![t] = IF @ = "attached" THEN "detached" ELSE @]
          /\ Suspend(p, "complete")
       \/ /\ "checkout" \in Faults
          /\ Suspend(p, "complete")
          /\ UNCHANGED disk
       \/ /\ "windows" \in Faults
          /\ Finish(p)
          /\ UNCHANGED disk
    /\ DiskStep

\* Mutant: complete_archive without the second lock().
CompleteUnlocked(p) ==
    /\ pc[p] = "complete"
    /\ Proceed(p, db, "completing")
    /\ UNCHANGED db /\ DbStep

CompleteLoad(p) ==
    /\ pc[p] = "complete"
    /\ CanLock(p)
    /\ IF req[p].arg \in Live(db)
       THEN /\ Lock(p)
            /\ Goto(p, "completing")
            /\ snap' = [snap EXCEPT ![p] = db]
            /\ UNCHANGED req
       ELSE Finish(p)
    /\ UNCHANGED db /\ DbStep

CommitArchive(p) ==
    /\ pc[p] = "completing"
    /\ Commit(p, Archived(snap[p], req[p].arg), Finish(p))
    /\ DbStep

-----------------------------------------------------------------------------
(* restore_task *)

\* Mutant: the checkout stays detached.
ReattachNothing(p) ==
    /\ pc[p] = "reattach"
    /\ Proceed(p, snap[p], "restoring")
    /\ UNCHANGED disk /\ DiskStep

Reattach(p) ==
    /\ pc[p] = "reattach"
    /\ \/ /\ disk' = [disk EXCEPT ![req[p].arg] = "attached"]
          /\ Proceed(p, snap[p], "restoring")
       \/ /\ "checkout" \in Faults
          /\ Finish(p)
          /\ UNCHANGED disk
    /\ DiskStep

CommitRestore(p) ==
    /\ pc[p] = "restoring"
    /\ LET s == SetStatus(snap[p], req[p].arg, "active") IN Commit(p, s, Proceed(p, s, "entering"))
    /\ DbStep

(* delete_task *)

LeaveDeleted(p) ==
    /\ pc[p] = "deleting"
    /\ \/ \E s \in SetTaskspace(snap[p], Default) : Commit(p, s, Proceed(p, s, "removing"))
       \/ /\ snap[p].cur # req[p].arg
          /\ Proceed(p, snap[p], "removing")
          /\ UNCHANGED db
    /\ DbStep

\* close_task_windows may end the delete; what fails after it is logged.
RemoveHome(p) ==
    /\ pc[p] = "removing"
    /\ \/ /\ disk' = [disk EXCEPT ![req[p].arg] = "none"]
          /\ Proceed(p, snap[p], "purging")
       \/ /\ "checkout" \in Faults
          /\ Proceed(p, snap[p], "purging")
          /\ UNCHANGED disk
       \/ /\ "windows" \in Faults
          /\ Finish(p)
          /\ UNCHANGED disk
    /\ DiskStep

CommitDelete(p) ==
    /\ pc[p] = "purging"
    /\ Commit(p, Deleted(snap[p], req[p].arg), Finish(p))
    /\ DbStep

-----------------------------------------------------------------------------
(* The Hyprland listener, navigation memory and the window registry. *)

CommitFollow(p) ==
    /\ pc[p] = "following"
    /\ \E s \in Followed(snap[p], req[p].arg) : Commit(p, s, Finish(p))
    /\ DbStep

\* The columns of the session row, which load_state reads before the tasks and
\* the windows.
SessionRow(s) == [EmptySession EXCEPT !.cur = s.cur, !.keys = s.keys]

Reading == [remembering |-> "reading", saving |-> "rereading"]

\* What the first step of a load has in memory, and the step after it.
Fetched(p) == IF p \in Writers THEN SessionRow(db) ELSE db
Then(p, step) == IF p \in Writers THEN Reading[step] ELSE step

\* remember_workspace_go and _goto: the second load is the one they edit, the
\* third replaces it when the taskspace changed since the first.
RememberLoad(p) ==
    /\ pc[p] = "keyed"
    /\ Proceed(p, Fetched(p), Then(p, "remembering"))
    /\ UNCHANGED db /\ DbStep

\* From here on the argument is the taskspace of the workspace the request
\* names, which belongs to the one of the second load.
RememberReload(p) ==
    /\ pc[p] = "remembering"
    /\ req' = [req EXCEPT ![p].arg = snap[p].cur]
    /\ LET same == db.cur = req[p].arg IN
        /\ Goto(p, IF same THEN "saving" ELSE Then(p, "saving"))
        /\ snap' = [snap EXCEPT ![p] = IF same THEN @ ELSE Fetched(p)]
    /\ UNCHANGED <<db, holder>> /\ DbStep

\* remember_workspace_goto takes a session that has left that taskspace back.
CurAfter(s, r) ==
    IF r.kind = "goto" THEN {s.cur} \cup ({r.arg} \cap (Active(s) \cup {Default})) ELSE {s.cur}

SaveUpkeep(p) ==
    /\ pc[p] = "saving"
    /\ \E cur \in CurAfter(snap[p], req[p]) :
        LET s == [snap[p] EXCEPT !.cur = cur] IN
        \E keys \in KeysAfter(s, req[p].kind), wins \in WinsAfter(s, req[p].kind) :
            Commit(p, [s EXCEPT !.keys = keys, !.wins = wins], Finish(p))
    /\ DbStep

\* `tsk workspace switch`, `tsk windows restore`, the install commands and the
\* client's fallbacks load state.db in their own process, without the mutex.
WriterLoad(w) ==
    /\ pc[w] = "new"
    /\ \E kind \in WriterKinds :
        /\ Goto(w, IF kind \in MemoryKinds THEN "keyed" ELSE "rereading")
        /\ req' = [req EXCEPT ![w] = [kind |-> kind, arg |-> IF kind \in MemoryKinds THEN db.cur ELSE Default]]
    /\ snap' = [snap EXCEPT ![w] = SessionRow(db)]
    /\ UNCHANGED <<db, holder>> /\ DbStep

\* The tasks and the windows, as another save may have left them meanwhile.
LoadRows(w) ==
    /\ \E step \in DOMAIN Reading :
        /\ pc[w] = Reading[step]
        /\ Proceed(w, [snap[w] EXCEPT !.status = db.status, !.wins = db.wins], step)
    /\ UNCHANGED db /\ DbStep

-----------------------------------------------------------------------------
(* The main thread: initialize, reboot recovery, config reload, death. *)

MainSame == UNCHANGED <<disk, used, inst, server, stops>>

\* A new process, or run_foreground's loop with the next server.
StartDaemon ==
    /\ pc[Main] \in {"down", "restarting"}
    /\ CanLock(Main)
    /\ Lock(Main)
    /\ Goto(Main, "initializing")
    /\ snap' = [snap EXCEPT ![Main] = db]
    /\ UNCHANGED <<db, req, todo, bootStale>> /\ MainSame

Kill(dead) ==
    /\ pc' = [p \in Procs |-> IF p = Main THEN "down"
                              ELSE IF p \in dead /\ pc[p] # "new" THEN "done" ELSE pc[p]]
    /\ req' = [p \in Procs |-> IF p \in dead THEN NoRequest ELSE req[p]]
    /\ snap' = [p \in Procs |-> IF p \in dead THEN EmptySession ELSE snap[p]]
    /\ holder' = [i \in Servers |-> None]
    /\ todo' = {}
    /\ UNCHANGED <<disk, used, inst, server>>

\* initialize follows the focused workspace and saves; its error ends the
\* process.
CommitInitialize ==
    /\ pc[Main] = "initializing"
    /\ \E c \in Spaces : \E s \in Followed(snap[Main], c) :
        \/ /\ db' = s
           /\ Goto(Main, "booting")
           /\ snap' = [snap EXCEPT ![Main] = EmptySession]
           /\ UNCHANGED <<req, holder, todo>> /\ MainSame
        \/ /\ "save" \in Faults
           /\ db' \in {db, s}
           /\ Kill(Rpcs \cup {Main})
           /\ UNCHANGED stops
    /\ UNCHANGED bootStale

Serve ==
    /\ Goto(Main, "serving")
    /\ holder' = [holder EXCEPT ![server] = None]

\* Mutant: recovery leaves the current task alone.
BeginRecoveryElsewhere ==
    /\ pc[Main] = "booting"
    /\ bootStale
    /\ Goto(Main, "recover")
    /\ todo' = Active(db) \ {db.cur}
    /\ UNCHANGED <<db, req, snap, holder, bootStale>> /\ MainSame

\* archive_active_tasks_if_new_boot; an unreadable boot id skips it.
BeginRecovery ==
    /\ pc[Main] = "booting"
    /\ bootStale
    /\ Goto(Main, "recover")
    /\ todo' = Active(db)
    /\ UNCHANGED <<db, req, snap, holder, bootStale>> /\ MainSame

SkipRecovery ==
    /\ pc[Main] = "booting"
    /\ ~bootStale \/ "bootid" \in Faults
    /\ Serve
    /\ UNCHANGED <<db, req, snap, todo, bootStale>> /\ MainSame

\* Mutant: recovery goes on until no task is active.
RecoverUntilNone ==
    /\ pc[Main] = "recover"
    /\ \E t \in Active(db) :
        /\ todo' = Active(db) \ {t}
        /\ req' = [req EXCEPT ![Main] = [kind |-> "archive", arg |-> t]]
        /\ snap' = [snap EXCEPT ![Main] = db]
        /\ Goto(Main, "preparing")
    /\ UNCHANGED <<db, holder, bootStale>> /\ MainSame

\* The current task goes first; prepare_archive loads and checks its task.
RecoverNext ==
    /\ pc[Main] = "recover"
    /\ \E t \in todo :
        /\ db.cur \in todo => t = db.cur
        /\ todo' = todo \ {t}
        /\ IF t \in Active(db)
           THEN /\ req' = [req EXCEPT ![Main] = [kind |-> "archive", arg |-> t]]
                /\ snap' = [snap EXCEPT ![Main] = db]
                /\ Goto(Main, "preparing")
           ELSE UNCHANGED <<req, snap, pc>>
    /\ UNCHANGED <<db, holder, bootStale>> /\ MainSame

\* The boot id is written whether or not every archive succeeded.
EndRecovery ==
    /\ pc[Main] = "recover"
    /\ todo = {}
    /\ bootStale' \in (IF "bootid" \in Faults THEN BOOLEAN ELSE {FALSE})
    /\ Serve
    /\ UNCHANGED <<db, req, snap, todo>> /\ MainSame

\* A config change: run_once returns Restart(next) and the next server has a
\* new mutex.  The listener is joined, request threads are not.
Reload ==
    /\ pc[Main] = "serving"
    /\ server < MaxReloads
    /\ \A p \in Rpcs : req[p].kind \notin ListenerKinds
    /\ server' = server + 1
    /\ Goto(Main, "restarting")
    /\ UNCHANGED <<db, disk, used, req, snap, inst, holder, todo, bootStale, stops>>

\* SIGTERM and SIGINT keep their default disposition: the process ends where
\* it stands.  A reboot ends every process and changes the boot id.
Stop ==
    /\ stops < MaxStops
    /\ stops' = stops + 1
    /\ UNCHANGED db
    /\ \/ Kill(Rpcs \cup {Main}) /\ UNCHANGED bootStale
       \/ Kill(Procs) /\ bootStale' = TRUE

-----------------------------------------------------------------------------
\* The task home of a task left in peace.
HomeOf(s) == IF s = "absent" THEN "none" ELSE IF s = "active" THEN "attached" ELSE "detached"

Init ==
    /\ db \in [status : [Tasks -> Statuses], cur : Spaces, keys : {{}}, wins : {{}}]
    /\ db.cur \in Active(db) \cup {Default}
    /\ disk = [t \in Tasks |-> HomeOf(db.status[t])]
    /\ used = Live(db)
    /\ pc = [p \in Procs |-> IF p = Main THEN "down" ELSE "new"]
    /\ req = [p \in Procs |-> NoRequest]
    /\ snap = [p \in Procs |-> EmptySession]
    /\ inst = [p \in Rpcs |-> 0]
    /\ holder = [i \in Servers |-> None]
    /\ server = 0
    /\ todo = {}
    /\ bootStale \in BOOLEAN
    /\ stops = 0

\* The steps of an archive, which Main takes too.
ArchiveStep(p) ==
    PrepareArchive(p) \/ ArchiveTeardown(p) \/ CompleteLoad(p) \/ CommitArchive(p)

RpcStep(p) ==
    \/ Receive(p) \/ Admit(p) \/ Refuse(p)
    \/ Provision(p) \/ CommitCreate(p) \/ EnterLoad(p) \/ CommitSwitch(p) \/ CommitLeave(p)
    \/ Reattach(p) \/ CommitRestore(p) \/ LeaveDeleted(p) \/ RemoveHome(p) \/ CommitDelete(p)
    \/ CommitFollow(p)

MemoryStep(p) == RememberLoad(p) \/ RememberReload(p) \/ SaveUpkeep(p)

MainStep ==
    \/ StartDaemon \/ CommitInitialize \/ BeginRecovery \/ SkipRecovery \/ RecoverNext \/ EndRecovery

\* The accept loop polls while every thread it spawned has ended.
Idle ==
    /\ pc[Main] = "serving"
    /\ \A p \in Procs \ {Main} : pc[p] = "done"
    /\ UNCHANGED vars

Next ==
    \/ \E p \in Rpcs \cup {Main} : ArchiveStep(p)
    \/ \E p \in Rpcs : RpcStep(p)
    \/ \E p \in Rpcs \cup Writers : MemoryStep(p)
    \/ \E w \in Writers : WriterLoad(w) \/ LoadRows(w)
    \/ MainStep \/ Reload \/ Stop \/ Idle

Spec == Init /\ [][Next]_vars

\* Threads that are ready run; nobody has to send a request, to switch a
\* workspace from the command line, or to start or stop the daemon.
Fairness ==
    /\ \A p \in Rpcs : WF_vars(ArchiveStep(p)) /\ WF_vars(MemoryStep(p))
                      /\ WF_vars(~(pc[p] = "new") /\ RpcStep(p))
    /\ WF_vars(ArchiveStep(Main)) /\ WF_vars(pc[Main] # "down" /\ MainStep)

FairSpec == Spec /\ Fairness

-----------------------------------------------------------------------------
(* Properties. *)

Steps ==
    {"new", "waiting", "done", "provision", "creating", "entering", "switching", "leaving",
     "preparing", "teardown", "complete", "completing", "reattach", "restoring", "deleting",
     "removing", "purging", "following", "keyed", "reading", "remembering",
     "rereading", "saving", "down", "restarting", "initializing", "booting", "recover", "serving"}

TypeOK ==
    /\ db \in Session
    /\ disk \in [Tasks -> {"none", "attached", "detached"}]
    /\ used \subseteq Tasks
    /\ pc \in [Procs -> Steps]
    /\ req \in [Procs -> Requests]
    /\ snap \in [Procs -> Session]
    /\ inst \in [Rpcs -> Servers]
    /\ holder \in [Servers -> Procs \cup {None}]
    /\ server \in Servers
    /\ todo \subseteq Tasks
    /\ bootStale \in BOOLEAN
    /\ stops \in Nat

\* A session never points at a task it does not hold, keeps no navigation
\* memory of a deleted task (purge_task_session_keys), and attributes windows
\* to active tasks only (purge_task_windows, infer_task_id).
Consistent(s) ==
    /\ s.cur \in Live(s) \cup {Default}
    /\ s.keys \subseteq Live(s)
    /\ s.wins \subseteq Active(s)

SessionConsistent == Consistent(db)

\* Steps at which a process has a SessionState in memory that it will save.
Loaded ==
    {"provision", "creating", "switching", "leaving", "preparing", "completing", "reattach",
     "restoring", "deleting", "removing", "purging", "following", "keyed", "remembering",
     "saving", "initializing"}

\* What an operation is about to save is based on what state.db holds: nobody
\* wrote between its load and its save, nor between two commits of it.
SnapshotCurrent == \A p \in Procs : pc[p] \in Loaded => snap[p] = db


\* Each commit a task row may change by, and how.
Transitions ==
    {<<"creating", "absent", "active">>, <<"completing", "active", "archived">>,
     <<"restoring", "archived", "active">>,
     <<"purging", "active", "absent">>, <<"purging", "archived", "absent">>}

\* A task appears, is archived, comes back or disappears only by the commit of
\* a request about that very task: no save reverts what another one did.
NoLostUpdate ==
    [][\A t \in Tasks : db'.status[t] # db.status[t] =>
        \E p \in Procs : /\ pc'[p] # pc[p]
                         /\ req[p].arg = t
                         /\ <<pc[p], db.status[t], db'.status[t]>> \in Transitions]_vars

\* No step enters the taskspace of a task that is not active.
EnterOnlyActive ==
    [][db'.cur # db.cur => db'.cur \in Active(db') \cup {Default}]_vars

\* An active task whose teardown nobody is running has its checkout attached,
\* unless the daemon died in the middle of one.
ActiveAttached ==
    stops = 0 => \A t \in Active(db) :
        \/ disk[t] = "attached"
        \/ \E p \in Procs : req[p].arg = t /\ req[p].kind \in {"archive", "delete"}

\* Once recovery has recorded the boot id, no task of an earlier boot is
\* active, unless something failed on the way.
RecoveryComplete ==
    [][bootStale /\ ~bootStale' /\ Faults = {} => Active(db') = {}]_vars

\* Every request the daemon received is answered, or dies with the daemon:
\* each path through an operation gives the mutex back.
RequestsEnd == \A p \in Rpcs : pc[p] = "waiting" ~> pc[p] = "done"

\* A daemon that starts, or restarts after a config change, comes to serve or
\* dies: it waits for no thread of an earlier server, and recovery ends
\* whatever archiving each task met.
DaemonServes ==
    pc[Main] \in {"restarting", "initializing"} ~> pc[Main] \in {"serving", "down"}

\* state.db, read as the atomic registry.
Registry == INSTANCE TaskRegistry WITH status <- db.status, cur <- db.cur
RefinesRegistry == Registry!Spec
=============================================================================
