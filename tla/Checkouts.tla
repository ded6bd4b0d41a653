------------------------------ MODULE Checkouts ------------------------------
(***************************************************************************)
(* The checkouts of the tasks of one source repository (vcs.rs,             *)
(* task_repo.rs, task_cleanup.rs) and the containers of the tasks           *)
(* (distrobox.rs): created, detached by archive, relinked by restore or by  *)
(* the next terminal, removed by delete.  Each command and each rename is a *)
(* step of its own, after which the process may die.                        *)
(*                                                                          *)
(* TaskService has the same operations with their disk work as one step.    *)
(***************************************************************************)
EXTENDS Naturals, FiniteSets, Functions

CONSTANTS
    Kinds,      \* VCS of the source: a subset of {"git", "jj"}
    Procs,      \* processes that work on checkouts: the daemon, terminals
    Tasks,
    Isolated,   \* tasks with container_isolation
    Checkouts,  \* task checkouts of the source
    Owner,      \* the task a checkout belongs to
    Primary,    \* the task's own checkout; the others are siblings
    Tracked,    \* top-level entries under version control
    Untracked,  \* local top-level entries
    CopyLocal,  \* copy_local of .tsk/repo.toml: untracked entries
    MaxEdits,   \* bound: edits of the user
    MaxFaults   \* bound: commands that fail and processes that die

Entries == Tracked \cup Untracked

ASSUME CheckoutAssumption ==
    /\ Kinds \subseteq {"git", "jj"}
    /\ Isolated \subseteq Tasks
    /\ Owner \in [Checkouts -> Tasks]
    /\ Primary \in [Tasks -> Checkouts]
    /\ \A t \in Tasks : Owner[Primary[t]] = t
    /\ CopyLocal \subseteq Untracked
    /\ "link" \notin Entries
    /\ MaxEdits \in Nat /\ MaxFaults \in Nat

VARIABLES
    kind,    \* VCS of the source
    status,  \* tasks: "none", "creating", "active", "archived", "deleted"
    box,     \* containers: "none", "stopped", "running"
    co,      \* each checkout: directory, relink backup, registration, revision, sidecar
    op,      \* what each process is doing
    mine,    \* history: the entries as the user left them
    place,   \* history: the revision the user was on
    hurt,    \* history: checkouts whose operation failed or died
    edits, faults

history == <<mine, place, hurt>>
vars == <<kind, status, box, co, op, history, edits, faults>>

-----------------------------------------------------------------------------
(* Directories: contents by entry.  "link" is the .git file or .jj directory. *)

Items == Entries \cup {"link"}
Gone == 0
Base == 1                      \* as committed, or as copied from the source
Edited(n) == 1 + n             \* the user's n-th edit
Contents == 0..(1 + MaxEdits)
NoDir == [i \in {} |-> Gone]
EmptyDir == [i \in Items |-> Gone]
Fresh == [i \in Items |-> IF i \in Untracked THEN Gone ELSE Base]

Exists(d) == d # NoDir
HasEntries(d) == \E i \in DOMAIN d : d[i] # Gone
Linked(d) == Exists(d) /\ d["link"] # Gone
Put(d, i, x) == [(IF Exists(d) THEN d ELSE EmptyDir) EXCEPT ![i] = x]

-----------------------------------------------------------------------------
(* Checkouts.  rev is the working-copy change of a jj workspace: the user's *)
(* own change or an empty one, on trunk() or on the checkout's fork point.  *)
(* A git worktree keeps its place in its branch.                            *)

Revisions == [edit : BOOLEAN, base : {"trunk", "fork"}]
NoTarget == [edit |-> FALSE, base |-> "none"]
NoCheckout == [dir |-> NoDir, backup |-> NoDir, reg |-> FALSE,
               rev |-> [edit |-> FALSE, base |-> "trunk"], saved |-> NoTarget, named |-> FALSE]

OwnedBy(t) == {c \in Checkouts : Owner[c] = t}

\* Usable: registered at the source with a working link.
Attached(k) == k.reg /\ Linked(k.dir)

\* `git worktree prune`: forgets every worktree without its .git file.
Pruned(cs) == [c \in Checkouts |-> [cs[c] EXCEPT !.reg = Attached(cs[c])]]

\* `git worktree add`, `jj workspace add` refuse a name or a path in use.
CanAdd(k) == ~k.reg /\ (IF kind = "jj" THEN ~HasEntries(k.dir) ELSE ~Exists(k.dir))
Add(k, base) == [k EXCEPT !.dir = Fresh, !.reg = TRUE, !.rev = [edit |-> FALSE, base |-> base]]

\* What can be read of @: nothing once the workspace is forgotten.
Target(k) == IF k.reg THEN k.rev ELSE NoTarget
\* Mutant: the working-copy change is not saved.
SaveBase(k) == [k EXCEPT !.saved = [Target(k) EXCEPT !.edit = FALSE], !.named = TRUE]

\* save_jj_restore_target_before_forget: written over whatever was saved before.
SaveTarget(k) == [k EXCEPT !.saved = Target(k), !.named = TRUE]

\* Mutant: without the fallback to trunk().
RestoreSavedBase(k) == k.saved.base

\* `workspace add -r`: the saved base, else trunk().
RestoreBase(k) == IF k.saved.base = "none" THEN "trunk" ELSE k.saved.base

\* Mutant: the worktrees of the source wherever they are.
ListedAnywhere(t) == {c \in Checkouts : co[c].reg}

\* The checkouts of t that the source still lists, and forgotten jj directories.
Listed(t) == {c \in OwnedBy(t) : co[c].reg}
Forgotten(t) == {c \in OwnedBy(t) : kind = "jj" /\ ~co[c].reg /\ Linked(co[c].dir)}

\* A directory with a .jj nobody registered and no sidecar of its own fails the listing.
Unnamed(t) == kind = "jj" /\ \E c \in OwnedBy(t) :
    \/ Linked(co[c].backup)
    \/ c \in Forgotten(t) /\ ~co[c].named

OwnedCheckouts(t) == Listed(t) \cup Forgotten(t)

\* seed_copy_local: the copy_local entries of the tree the checkout was forked from.
Seeded(k, from) ==
    [k EXCEPT !.dir = [i \in Items |->
        IF i \in CopyLocal /\ k.dir[i] = Gone /\ Exists(from) THEN from[i] ELSE k.dir[i]]]
SourceTree == [i \in Items |-> Base]

\* A directory that is there is taken as it is: `update-stale` fails on a forgotten workspace.
Reusable(k) == Linked(k.dir) /\ (kind = "git" \/ k.reg)

-----------------------------------------------------------------------------
(* Processes. *)

Idle == [what |-> "idle"]
Begin(what, t, left, stage) == [what |-> what, task |-> t, left |-> left, at |-> Primary[t], stage |-> stage]
Busy(p) == op[p] # Idle
At(p, stage) == Busy(p) /\ op[p].stage = stage
Cur(p) == co[op[p].at]

Goto(p, stage) == op' = [op EXCEPT ![p].stage = stage]
SetCur(p, k) == co' = [co EXCEPT ![op[p].at] = k]
End(p) == op' = [op EXCEPT ![p] = Idle]

\* A command that fails: the operation is given up.
Fault == faults < MaxFaults /\ faults' = faults + 1
Hurt(p) == hurt' = hurt \cup OwnedBy(op[p].task)

Running == <<kind, status, box>>
NoFault == <<mine, place, hurt, edits, faults>>
Step == UNCHANGED <<Running, NoFault>>

-----------------------------------------------------------------------------
(* create_task and `tsk checkout add`. *)

CreateTask(p, t) ==
    /\ ~Busy(p) /\ status[t] = "none"
    /\ status' = [status EXCEPT ![t] = "creating"]
    /\ op' = [op EXCEPT ![p] = Begin("create", t, {}, "provision")]
    /\ UNCHANGED <<kind, box, co, history, edits, faults>>

\* ForkFrom::Current: the live tree must be a checkout of the source.
AddSibling(p, c) ==
    LET t == Owner[c] IN
    /\ ~Busy(p) /\ c # Primary[t] /\ status[t] \in {"active", "archived"}
    /\ Attached(co[Primary[t]])
    /\ op' = [op EXCEPT ![p] = [Begin("add", t, {}, "provision") EXCEPT !.at = c]]
    /\ UNCHANGED <<Running, co, history, edits, faults>>

Provisioned(p) ==
    LET k == Cur(p)
        from == IF op[p].what = "create" THEN SourceTree ELSE co[Primary[op[p].task]].dir
        base == IF op[p].what = "create" THEN "trunk" ELSE "fork"
    IN  Seeded(IF Exists(k.dir) THEN k ELSE Add(k, base), from)

\* An existing checkout is taken as it is; a name in use is an error.
Provision(p) ==
    LET k == Cur(p) IN
    /\ At(p, "provision")
    /\ IF Reusable(k) \/ (~Exists(k.dir) /\ CanAdd(k))
       THEN SetCur(p, Provisioned(p)) /\ Goto(p, "container")
       ELSE co' = co /\ End(p)
    /\ IF Exists(k.dir) \/ ~CanAdd(k) THEN UNCHANGED <<mine, place>>
       ELSE /\ mine' = [mine EXCEPT ![op[p].at] = co'[op[p].at].dir]
            /\ place' = [place EXCEPT ![op[p].at] = co'[op[p].at].rev]
    /\ UNCHANGED <<Running, hurt, edits, faults>>

\* A create that fails here leaves its checkout to no task.
Container(p) ==
    LET t == op[p].task IN
    /\ At(p, "container")
    /\ box' = IF t \in Isolated /\ op[p].what # "add" THEN [box EXCEPT ![t] = "running"] ELSE box
    /\ status' = IF op[p].what = "add" THEN status ELSE [status EXCEPT ![t] = "active"]
    /\ End(p)
    /\ UNCHANGED <<kind, co, history, edits, faults>>

-----------------------------------------------------------------------------
(* run_archive_teardown: an error is logged and the task archived all the same. *)

Archive(p, t) ==
    /\ ~Busy(p) /\ status[t] = "active"
    /\ op' = [op EXCEPT ![p] = Begin("archive", t, {}, "stop")]
    /\ UNCHANGED <<Running, co, history, edits, faults>>

\* Mutant: the container is left running.
StopNothing(p) ==
    /\ At(p, "stop")
    /\ Goto(p, IF op[p].what = "archive" THEN "list" ELSE "rm")
    /\ UNCHANGED <<kind, status, box, co, NoFault>>

StopContainer(p) ==
    LET t == op[p].task IN
    /\ At(p, "stop")
    /\ box' = IF box[t] = "running" THEN [box EXCEPT ![t] = "stopped"] ELSE box
    /\ Goto(p, IF op[p].what = "archive" THEN "list" ELSE "rm")
    /\ UNCHANGED <<kind, status, co, NoFault>>

\* for_each_owned_checkout
List(p) ==
    LET t == op[p].task IN
    /\ At(p, "list")
    /\ IF Unnamed(t)
       THEN /\ IF op[p].what = "restore" THEN End(p)
               ELSE Goto(p, "last")
            /\ Hurt(p)
       ELSE /\ op' = [op EXCEPT ![p].left = OwnedCheckouts(t), ![p].stage = "each"]
            /\ UNCHANGED hurt
    /\ UNCHANGED <<Running, co, mine, place, edits, faults>>

First == [archive |-> "detach", restore |-> "recover", delete |-> "remove"]

Each(p) ==
    /\ At(p, "each")
    /\ IF op[p].left = {} THEN Goto(p, "last")
       ELSE \E c \in op[p].left :
            op' = [op EXCEPT ![p].left = @ \ {c}, ![p].at = c, ![p].stage = First[op[p].what]]
    /\ co' = co /\ Step

\* git: the link goes, the registration stays.  jj: the sidecar, then forget.
Detach(p) ==
    LET k == Cur(p) IN
    /\ At(p, "detach")
    /\ IF Linked(k.dir) /\ kind = "jj"
       THEN SetCur(p, SaveTarget(k)) /\ Goto(p, "forget")
       ELSE /\ SetCur(p, IF Linked(k.dir) THEN [k EXCEPT !.dir["link"] = Gone] ELSE k)
            /\ Goto(p, "each")
    /\ Step

Forget(p) ==
    /\ At(p, "forget")
    /\ SetCur(p, [Cur(p) EXCEPT !.reg = FALSE])
    /\ Goto(p, IF op[p].what = "archive" THEN "each" ELSE "rebackup")
    /\ Step

-----------------------------------------------------------------------------
(* reattach_linked_checkout, by restore_task and by the next terminal. *)

Restore(p, t) ==
    /\ ~Busy(p) /\ status[t] = "archived"
    /\ op' = [op EXCEPT ![p] = Begin("restore", t, {}, "list")]
    /\ UNCHANGED <<Running, co, history, edits, faults>>

\* ensure_task_checkout_ready
OpenTerminal(p, t) ==
    /\ ~Busy(p) /\ status[t] \in {"active", "archived"}
    /\ op' = [op EXCEPT ![p] = Begin("open", t, {}, "recover")]
    /\ UNCHANGED <<Running, co, history, edits, faults>>

\* recover_relink_backups: once before the checkout is looked at, once before it is relinked.
Recover(p) ==
    LET k == Cur(p)
        next == IF op[p].stage = "recover" THEN "check" ELSE "prepare" IN
    /\ At(p, "recover") \/ At(p, "rebackup")
    /\ IF Exists(k.backup) /\ ~HasEntries(k.backup)
       THEN SetCur(p, [k EXCEPT !.backup = NoDir]) /\ Goto(p, next)
       ELSE IF Exists(k.backup) /\ ~HasEntries(k.dir)
       THEN /\ SetCur(p, [k EXCEPT !.dir = EmptyDir])
            /\ Goto(p, IF next = "check" THEN "moveback" ELSE "removeback")
       ELSE co' = co /\ Goto(p, next)
    /\ Step

\* move_dir_contents, one rename a step: out of a directory, into the other.
MoveBack(p) ==
    LET k == Cur(p) IN
    /\ At(p, "moveback") \/ At(p, "removeback") \/ At(p, "rollback")
    /\ IF HasEntries(k.backup)
       THEN \E i \in Items :
            /\ k.backup[i] # Gone
            /\ SetCur(p, [k EXCEPT !.dir = Put(@, i, k.backup[i]), !.backup[i] = Gone])
            /\ op' = op
       ELSE /\ SetCur(p, [k EXCEPT !.backup = NoDir])
            /\ \/ At(p, "moveback") /\ Goto(p, "check")
               \/ At(p, "removeback") /\ Goto(p, "prepare")
               \/ At(p, "rollback") /\ End(p)
    /\ Step

\* A checkout that works is kept; a ghost jj name is forgotten before the relink.
Check(p) ==
    LET k == Cur(p) IN
    /\ At(p, "check")
    /\ Goto(p, IF Attached(k) THEN "done"
               ELSE IF kind = "jj" /\ k.reg THEN "forget" ELSE "rebackup")
    /\ co' = co /\ Step

\* Mutant: a leftover backup is overwritten.
PrepareAnew(p) ==
    /\ At(p, "prepare")
    /\ SetCur(p, [Cur(p) EXCEPT !.backup = EmptyDir]) /\ Goto(p, "moveout")
    /\ Step

\* prepare_relink_backup
Prepare(p) ==
    LET k == Cur(p) IN
    /\ At(p, "prepare")
    /\ IF HasEntries(k.backup) /\ HasEntries(k.dir)
       THEN End(p) /\ co' = co
       ELSE SetCur(p, [k EXCEPT !.backup = EmptyDir]) /\ Goto(p, "moveout")
    /\ Step

MoveOut(p) ==
    LET k == Cur(p) IN
    /\ At(p, "moveout")
    /\ IF HasEntries(k.dir) /\ ~Exists(k.backup)
       THEN End(p) /\ co' = co
       ELSE IF HasEntries(k.dir)
       THEN \E i \in Items :
            /\ k.dir[i] # Gone
            /\ SetCur(p, [k EXCEPT !.backup[i] = k.dir[i], !.dir[i] = Gone])
            /\ op' = op
       ELSE /\ SetCur(p, IF kind = "git" THEN [k EXCEPT !.dir = NoDir] ELSE k)
            /\ Goto(p, IF kind = "git" THEN "prune" ELSE "link")
    /\ Step

Prune(p) ==
    /\ At(p, "prune")
    /\ co' = Pruned(co)
    /\ Goto(p, "link")
    /\ Step

Link(p) ==
    LET k == Cur(p) IN
    /\ At(p, "link")
    /\ IF CanAdd(k)
       THEN SetCur(p, Add(k, RestoreBase(k))) /\ Goto(p, "edit")
       ELSE co' = co /\ Goto(p, "rollback")
    /\ Step

\* `jj edit`
EditChange(p) ==
    LET k == Cur(p) IN
    /\ At(p, "edit")
    /\ SetCur(p, [k EXCEPT !.rev.edit = kind = "jj" /\ k.saved.edit])
    /\ Goto(p, "overlay")
    /\ Step

\* Mutant: an entry of the new checkout is not replaced.
OverlayMissing(p) ==
    LET k == Cur(p)
        rest == {i \in Entries : Exists(k.backup) /\ k.backup[i] # Gone /\ k.dir[i] = Gone} IN
    /\ At(p, "overlay")
    /\ IF rest # {}
       THEN \E i \in rest :
            /\ SetCur(p, [k EXCEPT !.dir = Put(@, i, k.backup[i]), !.backup[i] = Gone])
            /\ op' = op
       ELSE SetCur(p, [k EXCEPT !.backup = NoDir]) /\ Goto(p, "refresh")
    /\ Step

\* overlay_backup_onto_checkout: everything but the old link; then the backup goes.
Overlay(p) ==
    LET k == Cur(p)
        rest == {i \in DOMAIN k.backup \ {"link"} : k.backup[i] # Gone} IN
    /\ At(p, "overlay")
    /\ IF ~Exists(k.backup)
       THEN End(p) /\ co' = co
       ELSE IF rest # {}
       THEN \E i \in rest :
            /\ SetCur(p, [k EXCEPT !.dir = Put(@, i, k.backup[i]), !.backup[i] = Gone])
            /\ op' = op
       ELSE SetCur(p, [k EXCEPT !.backup = NoDir]) /\ Goto(p, "refresh")
    /\ Step

Refresh(p) ==
    /\ At(p, "refresh")
    /\ SetCur(p, IF kind = "jj" THEN SaveTarget(Cur(p)) ELSE Cur(p))
    /\ Goto(p, "done")
    /\ Step

Reattached(p) ==
    /\ At(p, "done")
    /\ IF op[p].what = "open" THEN End(p) ELSE Goto(p, "each")
    /\ co' = co /\ Step

-----------------------------------------------------------------------------
(* delete_task: every step is tried, errors are logged. *)

Delete(p, t) ==
    /\ ~Busy(p) /\ status[t] \in {"active", "archived"}
    /\ op' = [op EXCEPT ![p] = Begin("delete", t, {}, "stop")]
    /\ mine' = [c \in Checkouts |-> IF Owner[c] = t THEN EmptyDir ELSE mine[c]]
    /\ UNCHANGED <<Running, co, place, hurt, edits, faults>>

RemoveContainer(p) ==
    /\ At(p, "rm")
    /\ box' = [box EXCEPT ![op[p].task] = "none"]
    /\ Goto(p, "list")
    /\ UNCHANGED <<kind, status, co, NoFault>>

\* remove_linked_checkout: a detached git worktree stays registered.
Remove(p) ==
    LET k == Cur(p) IN
    /\ At(p, "remove")
    /\ SetCur(p, [k EXCEPT !.dir = NoDir, !.reg = @ /\ ~Linked(k.dir)])
    /\ Goto(p, "each")
    /\ Step

\* The end of archive, restore and delete: the container or the task home, then state.db.
Last(p) ==
    LET t == op[p].task
        what == op[p].what IN
    /\ At(p, "last")
    /\ box' = IF what = "restore" /\ t \in Isolated THEN [box EXCEPT ![t] = "running"] ELSE box
    /\ co' = [c \in Checkouts |->
                IF what = "delete" /\ Owner[c] = t
                THEN [NoCheckout EXCEPT !.reg = co[c].reg] ELSE co[c]]
    /\ Goto(p, "commit")
    /\ UNCHANGED <<kind, status, NoFault>>

Outcome == [archive |-> "archived", restore |-> "active", delete |-> "deleted"]

Commit(p) ==
    /\ At(p, "commit")
    /\ status' = [status EXCEPT ![op[p].task] = Outcome[op[p].what]]
    /\ End(p)
    /\ UNCHANGED <<kind, box, co, NoFault>>

-----------------------------------------------------------------------------
(* The user, and what goes wrong. *)

\* The user's change is recorded in the jj commit when they run any jj command.
\* They leave the tree alone while an operation is on it.
UserEdit(c, e) ==
    LET recorded == kind = "jj" /\ co[c].reg IN
    /\ edits < MaxEdits /\ status[Owner[c]] = "active" /\ Exists(co[c].dir)
    /\ \A p \in Procs : Busy(p) => op[p].task # Owner[c]
    /\ edits' = edits + 1
    /\ mine' = [mine EXCEPT ![c] = Put(@, e, Edited(edits'))]
    /\ \E edit \in {co[c].rev.edit, co[c].rev.edit \/ recorded} :
        /\ co' = [co EXCEPT ![c].dir = Put(@, e, Edited(edits')), ![c].rev.edit = edit]
        /\ place' = [place EXCEPT ![c].edit = IF recorded THEN edit ELSE @]
    /\ UNCHANGED <<Running, op, hurt, faults>>

\* The process dies.
Die(p) ==
    /\ Busy(p) /\ Fault /\ Hurt(p) /\ End(p)
    /\ UNCHANGED <<Running, co, mine, place, edits>>

\* Where a failed command leaves the operation: logged and passed over, or given up.
PassedOver(p) ==
    LET o == op[p] IN
    CASE o.stage = "stop" -> IF o.what = "archive" THEN "list" ELSE "rm"
      [] o.stage = "rm" -> "list"
      [] o.stage = "detach" -> IF kind = "jj" THEN "forget" ELSE "last"
      [] o.stage = "forget" -> IF o.what = "archive" THEN "each" ELSE "rebackup"
      [] o.stage = "check" /\ Reusable(Cur(p)) -> "done"
      [] o.stage = "link" -> "rollback"
      [] o.stage = "edit" -> "overlay"
      [] o.stage = "refresh" -> "done"
      [] o.stage = "last" -> "commit"
      [] o.stage = "remove" \/ (o.stage = "list" /\ o.what \in {"archive", "delete"}) -> "last"
      [] OTHER -> "given up"

Infallible == {"each", "done", "commit"}

Fail(p) ==
    /\ Busy(p) /\ op[p].stage \notin Infallible /\ Fault /\ Hurt(p)
    /\ IF PassedOver(p) = "given up" THEN End(p) ELSE Goto(p, PassedOver(p))
    /\ UNCHANGED <<Running, co, mine, place, edits>>

-----------------------------------------------------------------------------

Init ==
    /\ kind \in Kinds
    /\ status = [t \in Tasks |-> "none"]
    /\ box = [t \in Tasks |-> "none"]
    /\ co = [c \in Checkouts |-> NoCheckout]
    /\ op = [p \in Procs |-> Idle]
    /\ mine = [c \in Checkouts |-> EmptyDir]
    /\ place = [c \in Checkouts |-> NoCheckout.rev]
    /\ hurt = {}
    /\ edits = 0 /\ faults = 0

Begins(p) ==
    \/ \E t \in Tasks : CreateTask(p, t) \/ Archive(p, t) \/ Restore(p, t) \/ OpenTerminal(p, t) \/ Delete(p, t)
    \/ \E c \in Checkouts : AddSibling(p, c)

Relinks(p) ==
    \/ Recover(p) \/ MoveBack(p) \/ Check(p) \/ Prepare(p) \/ MoveOut(p) \/ Prune(p) \/ Link(p)
    \/ EditChange(p) \/ Overlay(p) \/ Refresh(p) \/ Reattached(p)

Proceeds(p) ==
    \/ Provision(p) \/ Container(p) \/ StopContainer(p) \/ RemoveContainer(p) \/ List(p) \/ Each(p)
    \/ Detach(p) \/ Forget(p) \/ Relinks(p) \/ Remove(p) \/ Last(p) \/ Commit(p)

Next ==
    \/ \E p \in Procs : Begins(p) \/ Proceeds(p) \/ Die(p) \/ Fail(p)
    \/ \E c \in Checkouts, e \in Entries : UserEdit(c, e)

Spec == Init /\ [][Next]_vars

-----------------------------------------------------------------------------
(* Properties. *)

\* Types of the variables.
Dirs == {NoDir} \cup [Items -> Contents]
Stages == Infallible \cup {"provision", "container", "stop", "rm", "list", "detach", "forget", "recover",
    "rebackup", "moveback", "removeback", "rollback", "check", "prepare", "moveout", "prune", "link",
    "edit", "overlay", "refresh", "remove", "last"}
Operations == {"create", "add", "archive", "restore", "open", "delete"}

TypeOK ==
    /\ kind \in {"git", "jj"}
    /\ status \in [Tasks -> {"none", "creating", "active", "archived", "deleted"}]
    /\ box \in [Tasks -> {"none", "stopped", "running"}]
    /\ \A c \in Checkouts :
        /\ co[c].dir \in Dirs /\ co[c].backup \in Dirs
        /\ co[c].rev \in Revisions /\ co[c].saved \in Revisions \cup {NoTarget}
        /\ co[c].reg \in BOOLEAN /\ co[c].named \in BOOLEAN
    /\ \A p \in Procs : Busy(p) =>
        /\ op[p].what \in Operations /\ op[p].stage \in Stages /\ op[p].task \in Tasks
        /\ op[p].at \in OwnedBy(op[p].task) /\ op[p].left \subseteq OwnedBy(op[p].task)
    /\ hurt \subseteq Checkouts
    /\ edits \in 0..MaxEdits /\ faults \in 0..MaxFaults

\* Whatever dies or fails, what the user last wrote to an entry is in the
\* checkout or in its relink backup (recover_relink_backups, prepare_relink_backup).
NoWorkLost ==
    \A c \in Checkouts, e \in Entries : mine[c][e] > Base =>
        \E d \in {co[c].dir, co[c].backup} : Exists(d) /\ d[e] = mine[c][e]

Quiet(c) == \A p \in Procs : Busy(p) => op[p].task # Owner[c]
Settled(c) == Quiet(c) /\ status[Owner[c]] = "active" /\ c \notin hurt /\ Attached(co[c])

\* A checkout that came back whole from any number of archives, restores and
\* terminals has every entry as the user left it, and no backup beside it
\* (overlay_backup_onto_checkout).
FilesRestored ==
    \A c \in Checkouts : Settled(c) =>
        /\ ~Exists(co[c].backup)
        /\ \A e \in Entries : mine[c][e] # Gone => co[c].dir[e] = mine[c][e]

\* A jj workspace comes back on the change the user was on, an empty one on
\* the same base (save_jj_restore_target_before_forget).
PlaceKept ==
    \A c \in Checkouts : kind = "jj" /\ Settled(c) => co[c].rev = place[c]

\* No operation on one task takes a working checkout of another away from its
\* source: `git worktree prune` works on all of them (relink_detached_git_worktree).
OthersStay ==
    [][\A c \in Checkouts : Attached(co[c]) /\ ~Attached(co'[c]) =>
        \E p \in Procs : Busy(p) /\ op[p].task = Owner[c]]_vars

\* The container runs with its task and stops with it (stop_task_container, restore_task).
ContainerFollows ==
    \A t \in Isolated : OwnedBy(t) \cap hurt = {} /\ Quiet(Primary[t]) =>
        /\ status[t] = "active" => box[t] = "running"
        /\ status[t] = "archived" => box[t] # "running"

\* "Archive must leave the worktree registered so restore can find it"
\* (vcs.rs:2071): the restore of a task finds its checkouts.
RestoreFinds ==
    \A c \in Checkouts : status[Owner[c]] = "archived" /\ Quiet(c) /\ Exists(co[c].dir) =>
        c \in OwnedCheckouts(Owner[c])
=============================================================================
