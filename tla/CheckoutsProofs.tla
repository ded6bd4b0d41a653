--------------------------- MODULE CheckoutsProofs --------------------------
(***************************************************************************)
(* Proofs about Checkouts, for any number of tasks, checkouts, entries and  *)
(* processes, any number of edits, failures and deaths, git and jj.  Types  *)
(* (TypesInv) and the peace of other tasks hold whatever the processes do.  *)
(* That no work is lost (WorkInv), that containers follow their tasks       *)
(* (BoxInv), that files come back as they were (FilesInv) and jj            *)
(* workspaces on the change they were on (PlaceInv) hold as long as no two  *)
(* operations are on one task at a time (Apart): two terminals that relink  *)
(* the same checkout at once do lose work (vcs.rs:1089).                    *)
(***************************************************************************)
EXTENDS Checkouts, TLAPS

Folders == [dir : Dirs, backup : Dirs, reg : BOOLEAN, rev : Revisions,
            saved : Revisions \cup {NoTarget}, named : BOOLEAN]
Works == [what : Operations, task : Tasks, left : SUBSET Checkouts, at : Checkouts, stage : Stages]

Relinking == {"recover", "rebackup", "moveback", "removeback", "rollback", "check", "forget", "prepare",
    "moveout", "prune", "link", "edit", "overlay", "refresh", "done"}
StagesOf ==
    [create |-> {"provision", "container"}, add |-> {"provision", "container"},
     archive |-> {"stop", "list", "each", "detach", "forget", "last", "commit"},
     restore |-> Relinking \cup {"list", "each", "last", "commit"},
     open |-> Relinking,
     delete |-> {"stop", "rm", "list", "each", "remove", "last", "commit"}]

Types ==
    /\ kind \in {"git", "jj"}
    /\ status \in [Tasks -> {"none", "creating", "active", "archived", "deleted"}]
    /\ box \in [Tasks -> {"none", "stopped", "running"}]
    /\ co \in [Checkouts -> Folders]
    /\ op \in [Procs -> {Idle} \cup Works]
    /\ mine \in [Checkouts -> [Items -> Contents]]
    /\ place \in [Checkouts -> Revisions]
    /\ hurt \subseteq Checkouts
    /\ edits \in 0..MaxEdits /\ faults \in 0..MaxFaults

Assigned ==
    \A p \in Procs : Busy(p) =>
        /\ op[p].at \in OwnedBy(op[p].task) /\ op[p].left \subseteq OwnedBy(op[p].task)
        /\ op[p].stage \in StagesOf[op[p].what]


-----------------------------------------------------------------------------

LEMMA DirFacts ==
    /\ NoDir \in Dirs /\ ~Exists(NoDir) /\ ~HasEntries(NoDir)
    /\ EmptyDir \in [Items -> Contents] /\ ~HasEntries(EmptyDir) /\ \A i \in Items : EmptyDir[i] = Gone
    /\ Fresh \in [Items -> Contents] /\ \A i \in Items : Fresh[i] <= Base
    /\ SourceTree \in [Items -> Contents] /\ \A i \in Items : SourceTree[i] = Base
    /\ \A d \in [Items -> Contents] : d \in Dirs /\ Exists(d) /\ (HasEntries(d) <=> \E i \in Items : d[i] # Gone)
    /\ \A d \in Dirs : Exists(d) => d \in [Items -> Contents]
    /\ Entries \subseteq Items /\ "link" \in Items /\ "link" \notin Entries
    /\ Fresh["link"] = Base
<1>1. NoDir = [i \in {} |-> Gone] /\ DOMAIN NoDir = {}
  BY DEF NoDir
<1>2. "link" \in Items
  BY DEF Items
<1>3. \A d \in [Items -> Contents] : d # NoDir
  BY <1>1, <1>2
<1>4. NoDir \in Dirs /\ ~Exists(NoDir) /\ ~HasEntries(NoDir)
  BY <1>1 DEF Dirs, Exists, HasEntries
<1>5. Gone \in Contents /\ Base \in Contents /\ Gone <= Base
  BY CheckoutAssumption DEF Gone, Base, Contents
<1>6. EmptyDir \in [Items -> Contents] /\ ~HasEntries(EmptyDir) /\ \A i \in Items : EmptyDir[i] = Gone
  BY <1>5 DEF EmptyDir, HasEntries
<1>7. Fresh \in [Items -> Contents] /\ \A i \in Items : Fresh[i] <= Base
  BY <1>5 DEF Fresh, Gone, Base
<1>8. SourceTree \in [Items -> Contents] /\ \A i \in Items : SourceTree[i] = Base
  BY <1>5 DEF SourceTree
<1>9. \A d \in [Items -> Contents] : d \in Dirs /\ Exists(d) /\ (HasEntries(d) <=> \E i \in Items : d[i] # Gone)
  BY <1>3 DEF Dirs, Exists, HasEntries
<1>10. \A d \in Dirs : Exists(d) => d \in [Items -> Contents]
  BY DEF Dirs, Exists
<1>11. Entries \subseteq Items /\ "link" \notin Entries
  BY CheckoutAssumption DEF Items
<1>12. Fresh["link"] = Base
  BY <1>2, <1>11, CheckoutAssumption DEF Fresh, Entries
<1> QED
  BY <1>2, <1>4, <1>6, <1>7, <1>8, <1>9, <1>10, <1>11, <1>12

LEMMA PutFacts ==
  ASSUME NEW d \in Dirs, NEW i \in Items, NEW x \in Contents
  PROVE  /\ Put(d, i, x) \in [Items -> Contents]
         /\ Put(d, i, x)[i] = x
         /\ \A j \in Items \ {i} : Put(d, i, x)[j] = IF Exists(d) THEN d[j] ELSE Gone
BY DirFacts DEF Put

LEMMA BusyWorks ==
  ASSUME Types, NEW p \in Procs
  PROVE  Busy(p) <=> op[p] \in Works
<1>1. Idle \notin Works
  BY DEF Idle, Works, Operations
<1> QED
  BY <1>1 DEF Types, Busy

LEMMA GotoFacts ==
  ASSUME Types, NEW p \in Procs, Busy(p), NEW s \in Stages, Goto(p, s)
  PROVE  /\ op' \in [Procs -> {Idle} \cup Works]
         /\ op'[p] \in Works /\ op'[p] # Idle
         /\ op'[p].stage = s /\ op'[p].what = op[p].what /\ op'[p].task = op[p].task
         /\ op'[p].at = op[p].at /\ op'[p].left = op[p].left
         /\ \A q \in Procs \ {p} : op'[q] = op[q]
<1>1. op[p] \in Works
  BY BusyWorks
<1>2. Idle \notin Works
  BY DEF Idle, Works, Operations
<1>3. op'[p] = [op[p] EXCEPT !.stage = s]
  BY DEF Goto, Types
<1>4. op'[p] \in Works /\ op'[p].stage = s /\ op'[p].what = op[p].what /\ op'[p].task = op[p].task
      /\ op'[p].at = op[p].at /\ op'[p].left = op[p].left
  BY <1>1, <1>3 DEF Works
<1>5. \A q \in Procs \ {p} : op'[q] = op[q]
  BY DEF Goto, Types
<1>6. op' \in [Procs -> {Idle} \cup Works]
  BY <1>4 DEF Goto, Types
<1> QED
  BY <1>2, <1>4, <1>5, <1>6

LEMMA EndFacts ==
  ASSUME Types, NEW p \in Procs, End(p)
  PROVE  /\ op' \in [Procs -> {Idle} \cup Works]
         /\ op'[p] = Idle
         /\ \A q \in Procs \ {p} : op'[q] = op[q]
BY DEF End, Types

LEMMA BeginFacts ==
  ASSUME Types, NEW p \in Procs, NEW what \in Operations, NEW t \in Tasks, NEW stage \in Stages
  PROVE  LET o == Begin(what, t, {}, stage) IN
         /\ o \in Works /\ o # Idle
         /\ o.what = what /\ o.task = t /\ o.left = {} /\ o.at = Primary[t] /\ o.stage = stage
         /\ o.at \in OwnedBy(t)
<1>1. Idle \notin Works
  BY DEF Idle, Works, Operations
<1>2. Primary[t] \in OwnedBy(t)
  BY CheckoutAssumption DEF OwnedBy
<1> QED
  BY <1>1, <1>2 DEF Begin, Works, OwnedBy

LEMMA SetCurFacts ==
  ASSUME Types, Assigned, NEW p \in Procs, Busy(p), NEW k \in Folders, SetCur(p, k)
  PROVE  /\ co' \in [Checkouts -> Folders]
         /\ co'[op[p].at] = k
         /\ \A c \in Checkouts \ {op[p].at} : co'[c] = co[c]
<1>1. op[p].at \in Checkouts
  BY DEF Assigned, OwnedBy
<1> QED
  BY <1>1 DEF SetCur, Types

LEMMA AddFacts ==
  ASSUME NEW k \in Folders, NEW base \in {"trunk", "fork"}
  PROVE  /\ Add(k, base) \in Folders
         /\ Add(k, base).dir = Fresh /\ Add(k, base).backup = k.backup /\ Add(k, base).reg
         /\ Add(k, base).rev = [edit |-> FALSE, base |-> base]
         /\ Add(k, base).saved = k.saved /\ Add(k, base).named = k.named
BY DirFacts DEF Add, Folders, Revisions

LEMMA SaveTargetFacts ==
  ASSUME NEW k \in Folders
  PROVE  /\ SaveTarget(k) \in Folders
         /\ SaveTarget(k).dir = k.dir /\ SaveTarget(k).backup = k.backup /\ SaveTarget(k).reg = k.reg
         /\ SaveTarget(k).rev = k.rev /\ SaveTarget(k).saved = Target(k) /\ SaveTarget(k).named
BY DEF SaveTarget, Target, Folders

LEMMA RestoreBaseFacts ==
  ASSUME NEW k \in Folders
  PROVE  RestoreBase(k) \in {"trunk", "fork"}
BY DEF RestoreBase, Folders, Revisions, NoTarget

LEMMA SeededFacts ==
  ASSUME NEW k \in Folders, Exists(k.dir), NEW from \in Dirs
  PROVE  /\ Seeded(k, from) \in Folders
         /\ Exists(Seeded(k, from).dir)
         /\ \A i \in Items : Seeded(k, from).dir[i] =
               IF i \in CopyLocal /\ k.dir[i] = Gone /\ Exists(from) THEN from[i] ELSE k.dir[i]
         /\ Seeded(k, from).backup = k.backup /\ Seeded(k, from).reg = k.reg
         /\ Seeded(k, from).rev = k.rev /\ Seeded(k, from).saved = k.saved
         /\ Seeded(k, from).named = k.named
<1> DEFINE d == [i \in Items |-> IF i \in CopyLocal /\ k.dir[i] = Gone /\ Exists(from) THEN from[i] ELSE k.dir[i]]
<1>1. k.dir \in [Items -> Contents] /\ (Exists(from) => from \in [Items -> Contents])
  BY DirFacts DEF Folders
<1>2. d \in [Items -> Contents] /\ \A i \in Items : d[i] =
        IF i \in CopyLocal /\ k.dir[i] = Gone /\ Exists(from) THEN from[i] ELSE k.dir[i]
  BY <1>1
<1>3. d \in Dirs /\ Exists(d)
  BY <1>2, DirFacts
<1>4. Seeded(k, from) = [k EXCEPT !.dir = d]
  BY DEF Seeded
<1> HIDE DEF d
<1> QED
  BY <1>2, <1>3, <1>4 DEF Folders

LEMMA PrunedFacts ==
  ASSUME NEW cs \in [Checkouts -> Folders]
  PROVE  /\ Pruned(cs) \in [Checkouts -> Folders]
         /\ \A c \in Checkouts : /\ Pruned(cs)[c].dir = cs[c].dir /\ Pruned(cs)[c].backup = cs[c].backup
                                 /\ Pruned(cs)[c].rev = cs[c].rev /\ Pruned(cs)[c].saved = cs[c].saved
                                 /\ Pruned(cs)[c].named = cs[c].named
                                 /\ Pruned(cs)[c].reg <=> Attached(cs[c])
<1>1. \A c \in Checkouts : Attached(cs[c]) \in BOOLEAN
  BY DEF Attached, Linked, Exists, Folders
<1>2. \A c \in Checkouts : Pruned(cs)[c] = [cs[c] EXCEPT !.reg = Attached(cs[c])]
  BY DEF Pruned
<1>3. \A c \in Checkouts : [cs[c] EXCEPT !.reg = Attached(cs[c])] \in Folders
  BY <1>1 DEF Folders
<1>4. Pruned(cs) \in [Checkouts -> Folders]
  BY <1>3 DEF Pruned
<1> QED
  BY <1>1, <1>2, <1>4 DEF Folders

-----------------------------------------------------------------------------

\* What a step of another task's process may do to a checkout: unregister it at the source when
\* it was not usable anyway.
Untouched(c) ==
    /\ co'[c].dir = co[c].dir /\ co'[c].backup = co[c].backup
    /\ co'[c].rev = co[c].rev /\ co'[c].saved = co[c].saved /\ co'[c].named = co[c].named
    /\ co'[c].reg = co[c].reg \/ (~co'[c].reg /\ ~Attached(co[c]))
    /\ mine'[c] = mine[c] /\ place'[c] = place[c]

OnlyTask(p, t) ==
    /\ kind' = kind
    /\ \A q \in Procs \ {p} : op'[q] = op[q]
    /\ Busy(p) => op[p].task = t
    /\ op'[p] # Idle => op'[p].task = t
    /\ \A u \in Tasks \ {t} : status'[u] = status[u] /\ box'[u] = box[u]
    /\ hurt' \in {hurt, hurt \cup OwnedBy(t)}
    /\ \A c \in Checkouts : Owner[c] # t => Untouched(c)

Goes(p) == op' = op \/ End(p) \/ \E s \in StagesOf[op[p].what] : Goto(p, s)

LEMMA StagesFacts ==
  ASSUME NEW what \in Operations
  PROVE  StagesOf[what] \subseteq Stages
BY DEF StagesOf, Operations, Stages, Infallible, Relinking

LEMMA OpStep ==
  ASSUME Types, Assigned, NEW p \in Procs, Busy(p), Goes(p)
  PROVE  /\ op' \in [Procs -> {Idle} \cup Works] /\ Assigned'
         /\ \A q \in Procs \ {p} : op'[q] = op[q]
         /\ op'[p] # Idle => op'[p].task = op[p].task /\ op'[p].what = op[p].what
                              /\ op'[p].at = op[p].at /\ op'[p].left = op[p].left
<1>1. op[p] \in Works /\ op[p].what \in Operations
  BY BusyWorks DEF Works
<1>2. CASE op' = op
  BY <1>2 DEF Types, Assigned, Busy
<1>3. CASE End(p)
  BY <1>3, EndFacts DEF Assigned, Busy
<1>4. ASSUME NEW s \in StagesOf[op[p].what], Goto(p, s)
      PROVE  /\ op' \in [Procs -> {Idle} \cup Works] /\ Assigned'
             /\ \A q \in Procs \ {p} : op'[q] = op[q]
             /\ op'[p] # Idle => op'[p].task = op[p].task /\ op'[p].what = op[p].what
                                  /\ op'[p].at = op[p].at /\ op'[p].left = op[p].left
  <2>1. s \in Stages
    BY <1>1, <1>4, StagesFacts
  <2> QED
    BY <1>4, <2>1, GotoFacts DEF Assigned, Busy
<1> QED
  BY <1>2, <1>3, <1>4 DEF Goes

LEMMA TaskStep ==
  ASSUME Types, Assigned, NEW p \in Procs, Busy(p), Goes(p),
         co' \in [Checkouts -> Folders], kind' = kind,
         status' \in [Tasks -> {"none", "creating", "active", "archived", "deleted"}],
         box' \in [Tasks -> {"none", "stopped", "running"}],
         \A u \in Tasks \ {op[p].task} : status'[u] = status[u] /\ box'[u] = box[u],
         mine' \in [Checkouts -> [Items -> Contents]], place' \in [Checkouts -> Revisions],
         hurt' \in {hurt, hurt \cup OwnedBy(op[p].task)}, edits' = edits, faults' \in 0..MaxFaults,
         \A c \in Checkouts : Owner[c] # op[p].task => Untouched(c)
  PROVE  Types' /\ Assigned' /\ OnlyTask(p, op[p].task)
<1>1. hurt' \subseteq Checkouts
  BY DEF Types, OwnedBy
<1> QED
  BY <1>1, OpStep DEF Types, OnlyTask

\* A step on the checkout that the operation is at.
LEMMA CurStep ==
  ASSUME Types, Assigned, NEW p \in Procs, Busy(p), Goes(p), NEW k \in Folders, SetCur(p, k), Step
  PROVE  Types' /\ Assigned' /\ OnlyTask(p, op[p].task)
<1>1. op[p].at \in Checkouts /\ Owner[op[p].at] = op[p].task
  BY DEF Assigned, OwnedBy
<1>2. co' \in [Checkouts -> Folders] /\ \A c \in Checkouts \ {op[p].at} : co'[c] = co[c]
  BY SetCurFacts
<1>3. kind' = kind /\ status' = status /\ box' = box /\ mine' = mine /\ place' = place /\ hurt' = hurt
      /\ edits' = edits /\ faults' = faults
  BY DEF Step, Running, NoFault
<1>4. \A c \in Checkouts : Owner[c] # op[p].task => Untouched(c)
  BY <1>1, <1>2, <1>3 DEF Untouched
<1> QED
  BY <1>2, <1>3, <1>4, TaskStep DEF Types

\* A step that leaves the checkouts alone.
LEMMA NoCoStep ==
  ASSUME Types, Assigned, NEW p \in Procs, Busy(p), Goes(p), co' = co, Step
  PROVE  Types' /\ Assigned' /\ OnlyTask(p, op[p].task)
<1>1. kind' = kind /\ status' = status /\ box' = box /\ mine' = mine /\ place' = place /\ hurt' = hurt
      /\ edits' = edits /\ faults' = faults
  BY DEF Step, Running, NoFault
<1>2. \A c \in Checkouts : Owner[c] # op[p].task => Untouched(c)
  BY <1>1 DEF Untouched
<1> QED
  BY <1>1, <1>2, TaskStep DEF Types

-----------------------------------------------------------------------------

\* Which operations come to a stage.
LEMMA StageOf ==
  ASSUME Types, Assigned, NEW p \in Procs, Busy(p)
  PROVE  /\ op[p] \in Works /\ op[p].at \in Checkouts /\ Owner[op[p].at] = op[p].task
         /\ co[op[p].at] \in Folders /\ op[p].task \in Tasks
         /\ op[p].stage \in {"provision", "container"} => op[p].what \in {"create", "add"}
         /\ op[p].stage \in {"list", "each", "last", "commit"} => op[p].what \in {"archive", "restore", "delete"}
         /\ op[p].stage = "stop" => op[p].what \in {"archive", "delete"}
         /\ op[p].stage \in {"rm", "remove"} => op[p].what = "delete"
         /\ op[p].stage = "detach" => op[p].what = "archive"
         /\ op[p].stage = "forget" => op[p].what \in {"archive", "restore", "open"}
         /\ op[p].stage \in Relinking \ {"forget"} => op[p].what \in {"restore", "open"}
<1>1. op[p] \in Works /\ op[p].at \in Checkouts /\ Owner[op[p].at] = op[p].task
  BY BusyWorks DEF Assigned, OwnedBy
<1>2. op[p].what \in Operations /\ op[p].task \in Tasks
  BY <1>1 DEF Works
<1>3. op[p].stage \in StagesOf[op[p].what]
  BY DEF Assigned
<1>4. co[op[p].at] \in Folders
  BY <1>1 DEF Types
<1> QED
  BY <1>1, <1>2, <1>3, <1>4 DEF StagesOf, Operations, Relinking

LEMMA StagesOfFacts ==
    /\ StagesOf["create"] = {"provision", "container"} /\ StagesOf["add"] = {"provision", "container"}
    /\ StagesOf["archive"] = {"stop", "list", "each", "detach", "forget", "last", "commit"}
    /\ StagesOf["restore"] = Relinking \cup {"list", "each", "last", "commit"}
    /\ StagesOf["open"] = Relinking
    /\ StagesOf["delete"] = {"stop", "rm", "list", "each", "remove", "last", "commit"}
BY DEF StagesOf

LEMMA RelinkStep ==
  ASSUME Types, Assigned, NEW p \in Procs, Busy(p), op[p].stage \in Relinking \ {"forget"},
         op' = op \/ End(p) \/ \E s \in Relinking : Goto(p, s)
  PROVE  Goes(p)
<1>1. op[p].what \in {"restore", "open"}
  BY StageOf
<1> QED
  BY <1>1, StagesOfFacts DEF Goes

LEMMA RecoverTypes ==
  ASSUME Types, Assigned, NEW p \in Procs, Recover(p)
  PROVE  Types' /\ Assigned' /\ OnlyTask(p, op[p].task)
<1> DEFINE k == co[op[p].at]
<1>1. Busy(p) /\ op[p].stage \in {"recover", "rebackup"} /\ Step
  BY DEF Recover, At
<1>2. k \in Folders
  BY <1>1, StageOf
<1>3. Goes(p)
  BY <1>1, RelinkStep DEF Recover, Relinking
<1>4. \E k2 \in Folders : SetCur(p, k2) \/ co' = co
  <2>1. [k EXCEPT !.backup = NoDir] \in Folders
    BY <1>2, DirFacts DEF Folders
  <2>2. [k EXCEPT !.dir = EmptyDir] \in Folders
    BY <1>2, DirFacts DEF Folders
  <2> QED
    BY <1>2, <2>1, <2>2 DEF Recover, Cur
<1> QED
  BY <1>1, <1>3, <1>4, CurStep, NoCoStep

\* One entry renamed from a directory into another.
MovedBack(k, i) == [k EXCEPT !.dir = Put(@, i, k.backup[i]), !.backup[i] = Gone]
MovedOut(k, i) == [k EXCEPT !.backup[i] = k.dir[i], !.dir[i] = Gone]

LEMMA MovedBackFacts ==
  ASSUME NEW k \in Folders, NEW i \in Items, Exists(k.backup)
  PROVE  /\ MovedBack(k, i) \in Folders
         /\ MovedBack(k, i).dir \in [Items -> Contents] /\ MovedBack(k, i).dir[i] = k.backup[i]
         /\ \A j \in Items \ {i} : MovedBack(k, i).dir[j] = IF Exists(k.dir) THEN k.dir[j] ELSE Gone
         /\ MovedBack(k, i).backup \in [Items -> Contents] /\ MovedBack(k, i).backup[i] = Gone
         /\ \A j \in Items \ {i} : MovedBack(k, i).backup[j] = k.backup[j]
         /\ MovedBack(k, i).reg = k.reg /\ MovedBack(k, i).rev = k.rev
         /\ MovedBack(k, i).saved = k.saved /\ MovedBack(k, i).named = k.named
<1> DEFINE d == Put(k.dir, i, k.backup[i])
           b == [k.backup EXCEPT ![i] = Gone]
<1>1. Gone \in Contents
  BY CheckoutAssumption DEF Gone, Contents
<1>2. k.backup \in [Items -> Contents] /\ k.dir \in Dirs /\ k.backup[i] \in Contents
  BY DirFacts DEF Folders
<1>3. d \in [Items -> Contents] /\ d[i] = k.backup[i]
      /\ \A j \in Items \ {i} : d[j] = IF Exists(k.dir) THEN k.dir[j] ELSE Gone
  BY <1>2, PutFacts
<1>4. b \in [Items -> Contents] /\ b[i] = Gone /\ \A j \in Items \ {i} : b[j] = k.backup[j]
  BY <1>1, <1>2
<1>5. d \in Dirs /\ b \in Dirs
  BY <1>3, <1>4, DirFacts
<1>6. MovedBack(k, i) = [k EXCEPT !.dir = d, !.backup = b]
  BY DEF Folders, MovedBack
<1> HIDE DEF d, b
<1> QED
  BY <1>3, <1>4, <1>5, <1>6 DEF Folders

LEMMA MovedOutFacts ==
  ASSUME NEW k \in Folders, NEW i \in Items, Exists(k.backup), Exists(k.dir)
  PROVE  /\ MovedOut(k, i) \in Folders
         /\ MovedOut(k, i).backup \in [Items -> Contents] /\ MovedOut(k, i).backup[i] = k.dir[i]
         /\ \A j \in Items \ {i} : MovedOut(k, i).backup[j] = k.backup[j]
         /\ MovedOut(k, i).dir \in [Items -> Contents] /\ MovedOut(k, i).dir[i] = Gone
         /\ \A j \in Items \ {i} : MovedOut(k, i).dir[j] = k.dir[j]
         /\ MovedOut(k, i).reg = k.reg /\ MovedOut(k, i).rev = k.rev
         /\ MovedOut(k, i).saved = k.saved /\ MovedOut(k, i).named = k.named
<1> DEFINE d == [k.dir EXCEPT ![i] = Gone]
           b == [k.backup EXCEPT ![i] = k.dir[i]]
<1>1. Gone \in Contents
  BY CheckoutAssumption DEF Gone, Contents
<1>2. k.backup \in [Items -> Contents] /\ k.dir \in [Items -> Contents]
  BY DirFacts DEF Folders
<1>3. b \in [Items -> Contents] /\ b[i] = k.dir[i] /\ \A j \in Items \ {i} : b[j] = k.backup[j]
  BY <1>2
<1>4. d \in [Items -> Contents] /\ d[i] = Gone /\ \A j \in Items \ {i} : d[j] = k.dir[j]
  BY <1>1, <1>2
<1>5. d \in Dirs /\ b \in Dirs
  BY <1>3, <1>4, DirFacts
<1>6. MovedOut(k, i) = [k EXCEPT !.dir = d, !.backup = b]
  BY DEF Folders, MovedOut
<1> HIDE DEF d, b
<1> QED
  BY <1>3, <1>4, <1>5, <1>6 DEF Folders

LEMMA MoveBackTypes ==
  ASSUME Types, Assigned, NEW p \in Procs, MoveBack(p)
  PROVE  Types' /\ Assigned' /\ OnlyTask(p, op[p].task)
<1> DEFINE k == co[op[p].at]
<1>1. Busy(p) /\ op[p].stage \in {"moveback", "removeback", "rollback"} /\ Step
  BY DEF MoveBack, At
<1>2. k \in Folders
  BY <1>1, StageOf
<1>3. Goes(p)
  BY <1>1, RelinkStep DEF MoveBack, Relinking
<1>4. CASE HasEntries(k.backup)
  <2>1. PICK i \in Items : SetCur(p, MovedBack(k, i))
    BY <1>4 DEF MoveBack, Cur, MovedBack
  <2>2. Exists(k.backup)
    BY <1>4, DirFacts DEF Exists
  <2> QED
    BY <1>1, <1>2, <1>3, <2>1, <2>2, MovedBackFacts, CurStep
<1>5. CASE ~HasEntries(k.backup)
  <2>1. [k EXCEPT !.backup = NoDir] \in Folders
    BY <1>2, DirFacts DEF Folders
  <2> QED
    BY <1>1, <1>3, <1>5, <2>1, CurStep DEF MoveBack, Cur
<1> QED
  BY <1>4, <1>5

LEMMA CheckTypes ==
  ASSUME Types, Assigned, NEW p \in Procs, Check(p)
  PROVE  Types' /\ Assigned' /\ OnlyTask(p, op[p].task)
<1>1. Busy(p) /\ op[p].stage = "check" /\ Step /\ co' = co
  BY DEF Check, At
<1>2. Goes(p)
  BY <1>1, RelinkStep DEF Check, Relinking
<1> QED
  BY <1>1, <1>2, NoCoStep

LEMMA PrepareTypes ==
  ASSUME Types, Assigned, NEW p \in Procs, Prepare(p)
  PROVE  Types' /\ Assigned' /\ OnlyTask(p, op[p].task)
<1> DEFINE k == co[op[p].at]
<1>1. Busy(p) /\ op[p].stage = "prepare" /\ Step
  BY DEF Prepare, At
<1>2. k \in Folders
  BY <1>1, StageOf
<1>3. Goes(p)
  BY <1>1, RelinkStep DEF Prepare, Relinking
<1>4. [k EXCEPT !.backup = EmptyDir] \in Folders
  BY <1>2, DirFacts DEF Folders
<1> QED
  BY <1>1, <1>3, <1>4, CurStep, NoCoStep DEF Prepare, Cur

LEMMA MoveOutTypes ==
  ASSUME Types, Assigned, NEW p \in Procs, MoveOut(p)
  PROVE  Types' /\ Assigned' /\ OnlyTask(p, op[p].task)
<1> DEFINE k == co[op[p].at]
<1>1. Busy(p) /\ op[p].stage = "moveout" /\ Step
  BY DEF MoveOut, At
<1>2. k \in Folders
  BY <1>1, StageOf
<1>3. Goes(p)
  BY <1>1, RelinkStep DEF MoveOut, Relinking
<1>4. CASE HasEntries(k.dir) /\ ~Exists(k.backup)
  BY <1>1, <1>3, <1>4, NoCoStep DEF MoveOut, Cur
<1>5. CASE HasEntries(k.dir) /\ Exists(k.backup)
  <2>1. PICK i \in Items : SetCur(p, MovedOut(k, i))
    BY <1>5 DEF MoveOut, Cur, MovedOut
  <2>2. Exists(k.dir)
    BY <1>5, DirFacts DEF Exists
  <2> QED
    BY <1>1, <1>2, <1>3, <1>5, <2>1, <2>2, MovedOutFacts, CurStep
<1>6. CASE ~HasEntries(k.dir)
  <2>1. [k EXCEPT !.dir = NoDir] \in Folders
    BY <1>2, DirFacts DEF Folders
  <2> QED
    BY <1>1, <1>2, <1>3, <1>6, <2>1, CurStep DEF MoveOut, Cur
<1> QED
  BY <1>4, <1>5, <1>6

LEMMA PruneTypes ==
  ASSUME Types, Assigned, NEW p \in Procs, Prune(p)
  PROVE  Types' /\ Assigned' /\ OnlyTask(p, op[p].task)
<1>1. Busy(p) /\ op[p].stage = "prune" /\ Step /\ co' = Pruned(co)
  BY DEF Prune, At
<1>2. Goes(p)
  BY <1>1, RelinkStep DEF Prune, Relinking
<1>3. kind' = kind /\ status' = status /\ box' = box /\ mine' = mine /\ place' = place /\ hurt' = hurt
      /\ edits' = edits /\ faults' = faults
  BY <1>1 DEF Step, Running, NoFault
<1>4. co \in [Checkouts -> Folders]
  BY DEF Types
<1>5. co' \in [Checkouts -> Folders] /\ \A c \in Checkouts : Untouched(c)
  BY <1>1, <1>3, <1>4, PrunedFacts DEF Untouched, Attached, Folders
<1> QED
  BY <1>1, <1>2, <1>3, <1>5, TaskStep DEF Types

LEMMA LinkTypes ==
  ASSUME Types, Assigned, NEW p \in Procs, Link(p)
  PROVE  Types' /\ Assigned' /\ OnlyTask(p, op[p].task)
<1> DEFINE k == co[op[p].at]
<1>1. Busy(p) /\ op[p].stage = "link" /\ Step
  BY DEF Link, At
<1>2. k \in Folders
  BY <1>1, StageOf
<1>3. Goes(p)
  BY <1>1, RelinkStep DEF Link, Relinking
<1>4. Add(k, RestoreBase(k)) \in Folders
  BY <1>2, RestoreBaseFacts, AddFacts
<1> QED
  BY <1>1, <1>3, <1>4, CurStep, NoCoStep DEF Link, Cur

\* `jj edit` leaves everything but the change.
LEMMA EditFacts ==
  ASSUME Types, NEW k \in Folders
  PROVE  LET m == [k EXCEPT !.rev.edit = kind = "jj" /\ k.saved.edit] IN
         /\ m \in Folders
         /\ m.dir = k.dir /\ m.backup = k.backup /\ m.reg = k.reg /\ m.saved = k.saved /\ m.named = k.named
         /\ m.rev.base = k.rev.base
         /\ kind = "jj" => m.rev.edit = k.saved.edit
<1> DEFINE b == kind = "jj" /\ k.saved.edit
<1>1. b \in BOOLEAN
  BY DEF Folders, Revisions, NoTarget
<1>2. [k.rev EXCEPT !.edit = b] \in Revisions /\ [k.rev EXCEPT !.edit = b].base = k.rev.base
      /\ [k.rev EXCEPT !.edit = b].edit = b
  BY <1>1 DEF Folders, Revisions
<1>3. k.saved.edit \in BOOLEAN
  <2>1. k.saved \in Revisions \/ k.saved = NoTarget
    BY DEF Folders
  <2>2. NoTarget.edit \in BOOLEAN
    BY DEF NoTarget
  <2>3. \A r \in Revisions : r.edit \in BOOLEAN
    BY DEF Revisions
  <2> QED
    BY <2>1, <2>2, <2>3
<1>4. kind = "jj" => b = k.saved.edit
  BY <1>3
<1> HIDE DEF b
<1>5. [k EXCEPT !.rev.edit = b] = [k EXCEPT !.rev = [k.rev EXCEPT !.edit = b]]
  BY DEF Folders
<1>6. [k EXCEPT !.rev.edit = b] \in Folders /\ [k EXCEPT !.rev.edit = b].rev = [k.rev EXCEPT !.edit = b]
      /\ [k EXCEPT !.rev.edit = b].dir = k.dir /\ [k EXCEPT !.rev.edit = b].backup = k.backup
      /\ [k EXCEPT !.rev.edit = b].reg = k.reg /\ [k EXCEPT !.rev.edit = b].saved = k.saved
      /\ [k EXCEPT !.rev.edit = b].named = k.named
  BY <1>2, <1>5 DEF Folders
<1> QED
  BY <1>2, <1>4, <1>6 DEF b

LEMMA EditChangeTypes ==
  ASSUME Types, Assigned, NEW p \in Procs, EditChange(p)
  PROVE  Types' /\ Assigned' /\ OnlyTask(p, op[p].task)
<1>1. Busy(p) /\ op[p].stage = "edit" /\ Step
  BY DEF EditChange, At
<1>2. co[op[p].at] \in Folders
  BY <1>1, StageOf
<1>3. Goes(p)
  BY <1>1, RelinkStep DEF EditChange, Relinking
<1>4. PICK k2 \in Folders : SetCur(p, k2)
  BY <1>2, EditFacts DEF EditChange, Cur
<1> QED
  BY <1>1, <1>3, <1>4, CurStep

LEMMA OverlayTypes ==
  ASSUME Types, Assigned, NEW p \in Procs, Overlay(p)
  PROVE  Types' /\ Assigned' /\ OnlyTask(p, op[p].task)
<1> DEFINE k == co[op[p].at]
           rest == {i \in DOMAIN k.backup \ {"link"} : k.backup[i] # Gone}
<1>1. Busy(p) /\ op[p].stage = "overlay" /\ Step
  BY DEF Overlay, At
<1>2. k \in Folders
  BY <1>1, StageOf
<1>3. Goes(p)
  BY <1>1, RelinkStep DEF Overlay, Relinking
<1>4. CASE ~Exists(k.backup)
  BY <1>1, <1>3, <1>4, NoCoStep DEF Overlay, Cur
<1>5. CASE Exists(k.backup) /\ rest # {}
  <2>1. PICK i \in rest : SetCur(p, MovedBack(k, i))
    BY <1>5 DEF Overlay, Cur, MovedBack
  <2>2. i \in Items
    BY <1>2, <1>5, DirFacts DEF Folders
  <2> QED
    BY <1>1, <1>2, <1>3, <1>5, <2>1, <2>2, MovedBackFacts, CurStep
<1>6. CASE Exists(k.backup) /\ rest = {}
  <2>1. [k EXCEPT !.backup = NoDir] \in Folders
    BY <1>2, DirFacts DEF Folders
  <2> QED
    BY <1>1, <1>3, <1>6, <2>1, CurStep DEF Overlay, Cur
<1> QED
  BY <1>4, <1>5, <1>6

LEMMA RefreshTypes ==
  ASSUME Types, Assigned, NEW p \in Procs, Refresh(p)
  PROVE  Types' /\ Assigned' /\ OnlyTask(p, op[p].task)
<1>1. Busy(p) /\ op[p].stage = "refresh" /\ Step
  BY DEF Refresh, At
<1>2. co[op[p].at] \in Folders
  BY <1>1, StageOf
<1>3. Goes(p)
  BY <1>1, RelinkStep DEF Refresh, Relinking
<1>4. PICK k2 \in Folders : SetCur(p, k2)
  BY <1>2, SaveTargetFacts DEF Refresh, Cur
<1> QED
  BY <1>1, <1>3, <1>4, CurStep

LEMMA ReattachedTypes ==
  ASSUME Types, Assigned, NEW p \in Procs, Reattached(p)
  PROVE  Types' /\ Assigned' /\ OnlyTask(p, op[p].task)
<1>1. Busy(p) /\ op[p].stage = "done" /\ Step /\ co' = co
  BY DEF Reattached, At
<1>2. op[p].what \in {"restore", "open"}
  BY <1>1, StageOf DEF Relinking
<1>3. Goes(p)
  BY <1>1, <1>2, StagesOfFacts DEF Reattached, Goes
<1> QED
  BY <1>1, <1>3, NoCoStep

LEMMA DetachTypes ==
  ASSUME Types, Assigned, NEW p \in Procs, Detach(p)
  PROVE  Types' /\ Assigned' /\ OnlyTask(p, op[p].task)
<1> DEFINE k == co[op[p].at]
<1>1. Busy(p) /\ op[p].stage = "detach" /\ Step
  BY DEF Detach, At
<1>2. k \in Folders /\ op[p].what = "archive"
  BY <1>1, StageOf
<1>3. Goes(p)
  BY <1>1, <1>2, StagesOfFacts DEF Detach, Goes
<1>4. ASSUME Linked(k.dir)
      PROVE  [k EXCEPT !.dir["link"] = Gone] \in Folders
  <2>1. k.dir \in [Items -> Contents] /\ Gone \in Contents
    BY <1>2, <1>4, DirFacts, CheckoutAssumption DEF Linked, Folders, Gone, Contents
  <2>2. [k.dir EXCEPT !["link"] = Gone] \in [Items -> Contents]
    BY <2>1
  <2>3. [k.dir EXCEPT !["link"] = Gone] \in Dirs
    BY <2>2, DirFacts
  <2> QED
    BY <1>2, <2>3 DEF Folders
<1>5. PICK k2 \in Folders : SetCur(p, k2)
  BY <1>2, <1>4, SaveTargetFacts DEF Detach, Cur
<1> QED
  BY <1>1, <1>3, <1>5, CurStep

LEMMA ForgetTypes ==
  ASSUME Types, Assigned, NEW p \in Procs, Forget(p)
  PROVE  Types' /\ Assigned' /\ OnlyTask(p, op[p].task)
<1> DEFINE k == co[op[p].at]
<1>1. Busy(p) /\ op[p].stage = "forget" /\ Step
  BY DEF Forget, At
<1>2. k \in Folders /\ op[p].what \in {"archive", "restore", "open"}
  BY <1>1, StageOf
<1>3. Goes(p)
  BY <1>1, <1>2, StagesOfFacts DEF Forget, Goes, Relinking
<1>4. [k EXCEPT !.reg = FALSE] \in Folders
  BY <1>2 DEF Folders
<1> QED
  BY <1>1, <1>3, <1>4, CurStep DEF Forget, Cur

LEMMA RemoveTypes ==
  ASSUME Types, Assigned, NEW p \in Procs, Remove(p)
  PROVE  Types' /\ Assigned' /\ OnlyTask(p, op[p].task)
<1> DEFINE k == co[op[p].at]
<1>1. Busy(p) /\ op[p].stage = "remove" /\ Step
  BY DEF Remove, At
<1>2. k \in Folders /\ op[p].what = "delete"
  BY <1>1, StageOf
<1>3. Goes(p)
  BY <1>1, <1>2, StagesOfFacts DEF Remove, Goes
<1>4. (k.reg /\ ~Linked(k.dir)) \in BOOLEAN
  BY DEF Linked, Exists
<1>5. [k EXCEPT !.dir = NoDir, !.reg = @ /\ ~Linked(k.dir)] \in Folders
  BY <1>2, <1>4, DirFacts DEF Folders
<1> QED
  BY <1>1, <1>3, <1>5, CurStep DEF Remove, Cur

LEMMA EachTypes ==
  ASSUME Types, Assigned, NEW p \in Procs, Each(p)
  PROVE  Types' /\ Assigned' /\ OnlyTask(p, op[p].task)
<1>1. Busy(p) /\ op[p].stage = "each" /\ Step /\ co' = co
  BY DEF Each, At
<1>2. op[p] \in Works /\ op[p].what \in {"archive", "restore", "delete"}
  BY <1>1, StageOf
<1>3. CASE op[p].left = {}
  <2>1. Goes(p)
    BY <1>1, <1>2, <1>3, StagesOfFacts DEF Each, Goes
  <2> QED
    BY <1>1, <2>1, NoCoStep
<1>4. CASE op[p].left # {}
  <2>1. PICK c \in op[p].left :
            op' = [op EXCEPT ![p].left = @ \ {c}, ![p].at = c, ![p].stage = First[op[p].what]]
    BY <1>4 DEF Each
  <2>2. c \in OwnedBy(op[p].task) /\ c \in Checkouts
    BY <1>1 DEF Assigned, OwnedBy
  <2>3. First[op[p].what] \in StagesOf[op[p].what]
    BY <1>2, StagesOfFacts DEF First, Relinking
  <2>4. First[op[p].what] \in Stages
    BY <1>2, <2>3, StagesFacts DEF Operations
  <2> DEFINE o == [op[p] EXCEPT !.left = @ \ {c}, !.at = c, !.stage = First[op[p].what]]
  <2>5. op' = [op EXCEPT ![p] = o]
    BY <2>1 DEF Types
  <2>6. o \in Works /\ o.task = op[p].task /\ o.what = op[p].what /\ o.at = c
        /\ o.left \subseteq op[p].left /\ o.stage = First[op[p].what]
    BY <1>2, <2>2, <2>4 DEF Works
  <2> HIDE DEF o
  <2>7. op' \in [Procs -> {Idle} \cup Works] /\ op'[p] = o /\ \A q \in Procs \ {p} : op'[q] = op[q]
    BY <2>5, <2>6 DEF Types
  <2>8. kind' = kind /\ status' = status /\ box' = box /\ mine' = mine /\ place' = place /\ hurt' = hurt
        /\ edits' = edits /\ faults' = faults /\ co' = co
    BY <1>1 DEF Step, Running, NoFault
  <2>9. Types'
    BY <2>7, <2>8 DEF Types
  <2>10. Assigned'
    BY <1>1, <2>2, <2>3, <2>6, <2>7 DEF Assigned, Busy
  <2> QED
    BY <1>1, <2>6, <2>7, <2>8, <2>9, <2>10 DEF OnlyTask, Untouched
<1> QED
  BY <1>3, <1>4

LEMMA ListTypes ==
  ASSUME Types, Assigned, NEW p \in Procs, List(p)
  PROVE  Types' /\ Assigned' /\ OnlyTask(p, op[p].task)
<1> DEFINE t == op[p].task
<1>1. Busy(p) /\ op[p].stage = "list" /\ kind' = kind /\ status' = status /\ box' = box /\ co' = co
      /\ mine' = mine /\ place' = place /\ edits' = edits /\ faults' = faults
  BY DEF List, At, Running
<1>2. op[p] \in Works /\ op[p].what \in {"archive", "restore", "delete"}
  BY <1>1, StageOf
<1>3. hurt' \in {hurt, hurt \cup OwnedBy(t)}
  BY DEF List, Hurt
<1>4. CASE Unnamed(t)
  <2>1. Goes(p)
    BY <1>1, <1>2, <1>4, StagesOfFacts DEF List, Goes
  <2> QED
    BY <1>1, <1>3, <2>1, TaskStep DEF Types, Untouched
<1>5. CASE ~Unnamed(t)
  <2> DEFINE o == [op[p] EXCEPT !.left = OwnedCheckouts(t), !.stage = "each"]
  <2>1. op' = [op EXCEPT ![p] = o]
    BY <1>5 DEF List, Types
  <2>2. OwnedCheckouts(t) \subseteq OwnedBy(t) /\ OwnedBy(t) \subseteq Checkouts
    BY DEF OwnedCheckouts, Listed, Forgotten, OwnedBy
  <2>3. "each" \in StagesOf[op[p].what] /\ "each" \in Stages
    BY <1>2, StagesOfFacts DEF Stages, Infallible
  <2>4. o \in Works /\ o.task = t /\ o.what = op[p].what /\ o.at = op[p].at
        /\ o.left \subseteq OwnedBy(t) /\ o.stage = "each"
    BY <1>2, <2>2, <2>3 DEF Works
  <2> HIDE DEF o
  <2>5. op' \in [Procs -> {Idle} \cup Works] /\ op'[p] = o /\ \A q \in Procs \ {p} : op'[q] = op[q]
    BY <2>1, <2>4 DEF Types
  <2>6. Assigned'
    BY <1>1, <2>3, <2>4, <2>5 DEF Assigned, Busy
  <2>7. hurt' \subseteq Checkouts
    BY <1>3 DEF Types, OwnedBy
  <2>8. Types'
    BY <1>1, <2>5, <2>7 DEF Types
  <2> QED
    BY <1>1, <1>3, <2>4, <2>5, <2>6, <2>8 DEF OnlyTask, Untouched
<1> QED
  BY <1>4, <1>5

LEMMA StopContainerTypes ==
  ASSUME Types, Assigned, NEW p \in Procs, StopContainer(p)
  PROVE  Types' /\ Assigned' /\ OnlyTask(p, op[p].task)
<1>1. Busy(p) /\ op[p].stage = "stop" /\ kind' = kind /\ status' = status /\ co' = co
      /\ mine' = mine /\ place' = place /\ hurt' = hurt /\ edits' = edits /\ faults' = faults
  BY DEF StopContainer, At, NoFault
<1>2. op[p].what \in {"archive", "delete"} /\ op[p].task \in Tasks
  BY <1>1, StageOf
<1>3. Goes(p)
  BY <1>1, <1>2, StagesOfFacts DEF StopContainer, Goes
<1>4. box' \in [Tasks -> {"none", "stopped", "running"}] /\ \A u \in Tasks \ {op[p].task} : box'[u] = box[u]
  BY <1>2 DEF StopContainer, Types
<1> QED
  BY <1>1, <1>3, <1>4, TaskStep DEF Types, Untouched

LEMMA RemoveContainerTypes ==
  ASSUME Types, Assigned, NEW p \in Procs, RemoveContainer(p)
  PROVE  Types' /\ Assigned' /\ OnlyTask(p, op[p].task)
<1>1. Busy(p) /\ op[p].stage = "rm" /\ kind' = kind /\ status' = status /\ co' = co
      /\ mine' = mine /\ place' = place /\ hurt' = hurt /\ edits' = edits /\ faults' = faults
  BY DEF RemoveContainer, At, NoFault
<1>2. op[p].what = "delete" /\ op[p].task \in Tasks
  BY <1>1, StageOf
<1>3. Goes(p)
  BY <1>1, <1>2, StagesOfFacts DEF RemoveContainer, Goes
<1>4. box' \in [Tasks -> {"none", "stopped", "running"}] /\ \A u \in Tasks \ {op[p].task} : box'[u] = box[u]
  BY <1>2 DEF RemoveContainer, Types
<1> QED
  BY <1>1, <1>3, <1>4, TaskStep DEF Types, Untouched

LEMMA ContainerTypes ==
  ASSUME Types, Assigned, NEW p \in Procs, Container(p)
  PROVE  Types' /\ Assigned' /\ OnlyTask(p, op[p].task)
<1>1. Busy(p) /\ op[p].stage = "container" /\ kind' = kind /\ co' = co
      /\ mine' = mine /\ place' = place /\ hurt' = hurt /\ edits' = edits /\ faults' = faults
  BY DEF Container, At, history
<1>2. op[p].task \in Tasks
  BY <1>1, StageOf
<1>3. Goes(p)
  BY DEF Container, Goes
<1>4. box' \in [Tasks -> {"none", "stopped", "running"}] /\ \A u \in Tasks \ {op[p].task} : box'[u] = box[u]
  BY <1>2 DEF Container, Types
<1>5. status' \in [Tasks -> {"none", "creating", "active", "archived", "deleted"}]
      /\ \A u \in Tasks \ {op[p].task} : status'[u] = status[u]
  BY <1>2 DEF Container, Types
<1> QED
  BY <1>1, <1>3, <1>4, <1>5, TaskStep DEF Types, Untouched

LEMMA NoCheckoutFacts ==
  ASSUME NEW b \in BOOLEAN
  PROVE  LET m == [NoCheckout EXCEPT !.reg = b] IN
         /\ m \in Folders /\ m.dir = NoDir /\ m.backup = NoDir /\ m.reg = b
         /\ m.rev = NoCheckout.rev /\ m.saved = NoTarget /\ m.named = FALSE
BY DirFacts DEF NoCheckout, Folders, Revisions, NoTarget

LEMMA LastTypes ==
  ASSUME Types, Assigned, NEW p \in Procs, Last(p)
  PROVE  Types' /\ Assigned' /\ OnlyTask(p, op[p].task)
<1> DEFINE t == op[p].task
<1>1. Busy(p) /\ op[p].stage = "last" /\ kind' = kind /\ status' = status
      /\ mine' = mine /\ place' = place /\ hurt' = hurt /\ edits' = edits /\ faults' = faults
  BY DEF Last, At, NoFault
<1>2. op[p].what \in {"archive", "restore", "delete"} /\ t \in Tasks
  BY <1>1, StageOf
<1>3. Goes(p)
  BY <1>1, <1>2, StagesOfFacts DEF Last, Goes
<1>4. box' \in [Tasks -> {"none", "stopped", "running"}] /\ \A u \in Tasks \ {t} : box'[u] = box[u]
  BY <1>2 DEF Last, Types
<1>5. ASSUME NEW c \in Checkouts PROVE [NoCheckout EXCEPT !.reg = co[c].reg] \in Folders
  BY NoCheckoutFacts DEF Types, Folders
<1>6. co' \in [Checkouts -> Folders]
  BY <1>5 DEF Last, Types
<1>7. \A c \in Checkouts : Owner[c] # t => co'[c] = co[c]
  BY DEF Last
<1> QED
  BY <1>1, <1>3, <1>4, <1>6, <1>7, TaskStep DEF Types, Untouched

LEMMA CommitTypes ==
  ASSUME Types, Assigned, NEW p \in Procs, Commit(p)
  PROVE  Types' /\ Assigned' /\ OnlyTask(p, op[p].task)
<1>1. Busy(p) /\ op[p].stage = "commit" /\ kind' = kind /\ box' = box /\ co' = co
      /\ mine' = mine /\ place' = place /\ hurt' = hurt /\ edits' = edits /\ faults' = faults
  BY DEF Commit, At, NoFault
<1>2. op[p].what \in {"archive", "restore", "delete"} /\ op[p].task \in Tasks
  BY <1>1, StageOf
<1>3. Goes(p)
  BY DEF Commit, Goes
<1>4. Outcome[op[p].what] \in {"archived", "active", "deleted"}
  BY <1>2 DEF Outcome
<1>5. status' \in [Tasks -> {"none", "creating", "active", "archived", "deleted"}]
      /\ \A u \in Tasks \ {op[p].task} : status'[u] = status[u]
  BY <1>2, <1>4 DEF Commit, Types
<1> QED
  BY <1>1, <1>3, <1>5, TaskStep DEF Types, Untouched

\* What a provisioned checkout is made of: taken as it is, or added, and then seeded.
LEMMA ProvisionFacts ==
  ASSUME Types, Assigned, NEW p \in Procs, Busy(p), NEW k \in Folders, k = Cur(p)
  PROVE  LET m == Provisioned(p) IN
         /\ m \in Folders /\ Exists(m.dir) /\ m.dir \in [Items -> Contents]
         /\ m.backup = k.backup /\ m.saved = k.saved /\ m.named = k.named
         /\ Exists(k.dir) => /\ m.reg = k.reg /\ m.rev = k.rev
                             /\ \A i \in Items : k.dir[i] # Gone => m.dir[i] = k.dir[i]
         /\ ~Exists(k.dir) => m.reg /\ \A i \in Items : m.dir[i] # Gone \/ i \in Untracked
<1> DEFINE from == IF op[p].what = "create" THEN SourceTree ELSE co[Primary[op[p].task]].dir
           base == IF op[p].what = "create" THEN "trunk" ELSE "fork"
           k1 == IF Exists(k.dir) THEN k ELSE Add(k, base)
<1>1. from \in Dirs
  <2>1. Primary[op[p].task] \in Checkouts
    BY StageOf, CheckoutAssumption
  <2>2. co[Primary[op[p].task]].dir \in Dirs
    BY <2>1 DEF Types, Folders
  <2> QED
    BY <2>2, DirFacts
<1>2. base \in {"trunk", "fork"}
  OBVIOUS
<1>3. k1 \in Folders /\ Exists(k1.dir) /\ k1.backup = k.backup /\ k1.saved = k.saved /\ k1.named = k.named
      /\ (Exists(k.dir) => k1 = k) /\ (~Exists(k.dir) => k1.reg /\ k1.dir = Fresh)
  BY <1>2, AddFacts, DirFacts
<1>4. Provisioned(p) = Seeded(k1, from)
  BY DEF Provisioned
<1> HIDE DEF from, base, k1
<1>5. \A i \in Items : Fresh[i] # Gone \/ i \in Untracked
  BY DEF Fresh, Base, Gone
<1>10. k1.dir \in [Items -> Contents]
  BY <1>3, DirFacts DEF Folders
<1>6. Seeded(k1, from).dir \in [Items -> Contents]
  BY <1>1, <1>3, SeededFacts, DirFacts DEF Folders
<1>7. \A i \in Items : k1.dir[i] # Gone => Seeded(k1, from).dir[i] = k1.dir[i]
  BY <1>1, <1>3, SeededFacts
<1>8. Seeded(k1, from) \in Folders /\ Exists(Seeded(k1, from).dir) /\ Seeded(k1, from).backup = k1.backup
      /\ Seeded(k1, from).reg = k1.reg /\ Seeded(k1, from).rev = k1.rev
      /\ Seeded(k1, from).saved = k1.saved /\ Seeded(k1, from).named = k1.named
  BY <1>1, <1>3, SeededFacts
<1>9. ~Exists(k.dir) => \A i \in Items : Seeded(k1, from).dir[i] # Gone \/ i \in Untracked
  BY <1>3, <1>5, <1>7
<1> QED
  BY <1>3, <1>4, <1>6, <1>7, <1>8, <1>9

LEMMA ProvisionTypes ==
  ASSUME Types, Assigned, NEW p \in Procs, Provision(p)
  PROVE  Types' /\ Assigned' /\ OnlyTask(p, op[p].task)
<1> DEFINE k == co[op[p].at]
<1>1. Busy(p) /\ op[p].stage = "provision" /\ kind' = kind /\ status' = status /\ box' = box
      /\ hurt' = hurt /\ edits' = edits /\ faults' = faults
  BY DEF Provision, At, Running
<1>2. op[p].what \in {"create", "add"} /\ k \in Folders /\ op[p].at \in Checkouts
      /\ Owner[op[p].at] = op[p].task
  BY <1>1, StageOf
<1>3. Goes(p)
  BY <1>1, <1>2, StagesOfFacts DEF Provision, Goes
<1>4. k = Cur(p)
  BY DEF Cur
<1>5. CASE Reusable(k) \/ (~Exists(k.dir) /\ CanAdd(k))
  <2>1. SetCur(p, Provisioned(p))
    BY <1>4, <1>5 DEF Provision
  <2>2. Provisioned(p) \in Folders /\ Provisioned(p).dir \in [Items -> Contents]
    BY <1>1, <1>2, <1>4, ProvisionFacts
  <2>3. co' \in [Checkouts -> Folders] /\ co'[op[p].at] = Provisioned(p)
        /\ \A c \in Checkouts \ {op[p].at} : co'[c] = co[c]
    BY <1>1, <2>1, <2>2, SetCurFacts
  <2>4. co'[op[p].at].dir \in [Items -> Contents] /\ co'[op[p].at].rev \in Revisions
    BY <2>2, <2>3 DEF Folders
  <2>5. /\ mine' \in [Checkouts -> [Items -> Contents]] /\ place' \in [Checkouts -> Revisions]
        /\ \A c \in Checkouts \ {op[p].at} : mine'[c] = mine[c] /\ place'[c] = place[c]
    BY <2>4 DEF Provision, Types
  <2>6. \A c \in Checkouts : Owner[c] # op[p].task => Untouched(c)
    BY <1>2, <2>3, <2>5 DEF Untouched
  <2> QED
    BY <1>1, <1>3, <2>3, <2>5, <2>6, TaskStep DEF Types
<1>6. CASE ~(Reusable(k) \/ (~Exists(k.dir) /\ CanAdd(k)))
  <2>1. co' = co /\ mine' = mine /\ place' = place
    BY <1>4, <1>6 DEF Provision
  <2> QED
    BY <1>1, <1>3, <2>1, TaskStep DEF Types, Untouched
<1> QED
  BY <1>5, <1>6

\* An operation begins.
LEMMA BeginStep ==
  ASSUME Types, Assigned, NEW p \in Procs, ~Busy(p), NEW o \in Works, o # Idle,
         op' = [op EXCEPT ![p] = o],
         o.at \in OwnedBy(o.task), o.left = {}, o.stage \in StagesOf[o.what],
         co' = co, kind' = kind, box' = box,
         status' \in [Tasks -> {"none", "creating", "active", "archived", "deleted"}],
         \A u \in Tasks \ {o.task} : status'[u] = status[u],
         mine' \in [Checkouts -> [Items -> Contents]],
         \A c \in Checkouts : Owner[c] # o.task => mine'[c] = mine[c],
         place' = place, hurt' = hurt, edits' = edits, faults' = faults
  PROVE  Types' /\ Assigned' /\ OnlyTask(p, o.task)
<1>1. op' \in [Procs -> {Idle} \cup Works] /\ op'[p] = o /\ \A q \in Procs \ {p} : op'[q] = op[q]
  BY DEF Types
<1>2. Types'
  BY <1>1 DEF Types
<1>3. Assigned'
  BY <1>1 DEF Assigned, Busy
<1> QED
  BY <1>1, <1>2, <1>3 DEF OnlyTask, Untouched

LEMMA BeginsTypes ==
  ASSUME Types, Assigned, NEW p \in Procs, Begins(p)
  PROVE  Types' /\ Assigned' /\ \E t \in Tasks : OnlyTask(p, t)
<1> USE DEF history, Running
<1>1. ASSUME NEW t \in Tasks, CreateTask(p, t)
      PROVE  Types' /\ Assigned' /\ OnlyTask(p, t)
  <2> DEFINE o == Begin("create", t, {}, "provision")
  <2>1. o \in Works /\ o # Idle /\ o.task = t /\ o.left = {} /\ o.at \in OwnedBy(t)
        /\ o.stage = "provision" /\ o.what = "create"
    BY BeginFacts DEF Operations, Stages
  <2>2. op' = [op EXCEPT ![p] = o]
    BY <1>1 DEF CreateTask
  <2> HIDE DEF o
  <2>3. status' \in [Tasks -> {"none", "creating", "active", "archived", "deleted"}]
        /\ \A u \in Tasks \ {t} : status'[u] = status[u]
    BY <1>1 DEF CreateTask, Types
  <2>4. o.stage \in StagesOf[o.what]
    BY <2>1, StagesOfFacts
  <2>5. ~Busy(p) /\ co' = co /\ kind' = kind /\ box' = box /\ mine' = mine
        /\ place' = place /\ hurt' = hurt /\ edits' = edits /\ faults' = faults
    BY <1>1 DEF CreateTask
  <2>6. /\ status' \in [Tasks -> {"none", "creating", "active", "archived", "deleted"}]
        /\ mine' \in [Checkouts -> [Items -> Contents]]
    BY <2>3, <2>5 DEF Types
  <2> QED
    BY <2>1, <2>2, <2>3, <2>4, <2>5, <2>6, BeginStep
<1>2. ASSUME NEW t \in Tasks, Archive(p, t)
      PROVE  Types' /\ Assigned' /\ OnlyTask(p, t)
  <2> DEFINE o == Begin("archive", t, {}, "stop")
  <2>1. o \in Works /\ o # Idle /\ o.task = t /\ o.left = {} /\ o.at \in OwnedBy(t)
        /\ o.stage = "stop" /\ o.what = "archive"
    BY BeginFacts DEF Operations, Stages
  <2>2. op' = [op EXCEPT ![p] = o]
    BY <1>2 DEF Archive
  <2> HIDE DEF o
  <2>4. o.stage \in StagesOf[o.what]
    BY <2>1, StagesOfFacts
  <2>5. ~Busy(p) /\ co' = co /\ kind' = kind /\ box' = box /\ status' = status /\ mine' = mine
        /\ place' = place /\ hurt' = hurt /\ edits' = edits /\ faults' = faults
    BY <1>2 DEF Archive
  <2>6. /\ status' \in [Tasks -> {"none", "creating", "active", "archived", "deleted"}]
        /\ mine' \in [Checkouts -> [Items -> Contents]]
    BY <2>5 DEF Types
  <2> QED
    BY <2>1, <2>2, <2>4, <2>5, <2>6, BeginStep
<1>3. ASSUME NEW t \in Tasks, Restore(p, t)
      PROVE  Types' /\ Assigned' /\ OnlyTask(p, t)
  <2> DEFINE o == Begin("restore", t, {}, "list")
  <2>1. o \in Works /\ o # Idle /\ o.task = t /\ o.left = {} /\ o.at \in OwnedBy(t)
        /\ o.stage = "list" /\ o.what = "restore"
    BY BeginFacts DEF Operations, Stages
  <2>2. op' = [op EXCEPT ![p] = o]
    BY <1>3 DEF Restore
  <2> HIDE DEF o
  <2>4. o.stage \in StagesOf[o.what]
    BY <2>1, StagesOfFacts
  <2>5. ~Busy(p) /\ co' = co /\ kind' = kind /\ box' = box /\ status' = status /\ mine' = mine
        /\ place' = place /\ hurt' = hurt /\ edits' = edits /\ faults' = faults
    BY <1>3 DEF Restore
  <2>6. /\ status' \in [Tasks -> {"none", "creating", "active", "archived", "deleted"}]
        /\ mine' \in [Checkouts -> [Items -> Contents]]
    BY <2>5 DEF Types
  <2> QED
    BY <2>1, <2>2, <2>4, <2>5, <2>6, BeginStep
<1>4. ASSUME NEW t \in Tasks, OpenTerminal(p, t)
      PROVE  Types' /\ Assigned' /\ OnlyTask(p, t)
  <2> DEFINE o == Begin("open", t, {}, "recover")
  <2>1. o \in Works /\ o # Idle /\ o.task = t /\ o.left = {} /\ o.at \in OwnedBy(t)
        /\ o.stage = "recover" /\ o.what = "open"
    BY BeginFacts DEF Operations, Stages
  <2>2. op' = [op EXCEPT ![p] = o]
    BY <1>4 DEF OpenTerminal
  <2> HIDE DEF o
  <2>4. o.stage \in StagesOf[o.what]
    BY <2>1, StagesOfFacts DEF Relinking
  <2>5. ~Busy(p) /\ co' = co /\ kind' = kind /\ box' = box /\ status' = status /\ mine' = mine
        /\ place' = place /\ hurt' = hurt /\ edits' = edits /\ faults' = faults
    BY <1>4 DEF OpenTerminal
  <2>6. /\ status' \in [Tasks -> {"none", "creating", "active", "archived", "deleted"}]
        /\ mine' \in [Checkouts -> [Items -> Contents]]
    BY <2>5 DEF Types
  <2> QED
    BY <2>1, <2>2, <2>4, <2>5, <2>6, BeginStep
<1>5. ASSUME NEW t \in Tasks, Delete(p, t)
      PROVE  Types' /\ Assigned' /\ OnlyTask(p, t)
  <2> DEFINE o == Begin("delete", t, {}, "stop")
  <2>1. o \in Works /\ o # Idle /\ o.task = t /\ o.left = {} /\ o.at \in OwnedBy(t)
        /\ o.stage = "stop" /\ o.what = "delete"
    BY BeginFacts DEF Operations, Stages
  <2>2. op' = [op EXCEPT ![p] = o]
    BY <1>5 DEF Delete
  <2> HIDE DEF o
  <2>3. mine' \in [Checkouts -> [Items -> Contents]]
        /\ \A c \in Checkouts : Owner[c] # t => mine'[c] = mine[c]
    BY <1>5, DirFacts DEF Delete, Types
  <2>4. o.stage \in StagesOf[o.what]
    BY <2>1, StagesOfFacts
  <2>5. ~Busy(p) /\ co' = co /\ kind' = kind /\ box' = box /\ status' = status
        /\ place' = place /\ hurt' = hurt /\ edits' = edits /\ faults' = faults
    BY <1>5 DEF Delete
  <2>6. /\ status' \in [Tasks -> {"none", "creating", "active", "archived", "deleted"}]
        /\ mine' \in [Checkouts -> [Items -> Contents]]
    BY <2>3, <2>5 DEF Types
  <2> QED
    BY <2>1, <2>2, <2>3, <2>4, <2>5, <2>6, BeginStep
<1>6. ASSUME NEW c \in Checkouts, AddSibling(p, c)
      PROVE  Types' /\ Assigned' /\ OnlyTask(p, Owner[c])
  <2> DEFINE t == Owner[c]
             o == [Begin("add", t, {}, "provision") EXCEPT !.at = c]
  <2>1. t \in Tasks /\ c \in OwnedBy(t)
    BY CheckoutAssumption DEF OwnedBy
  <2>2. "add" \in Operations /\ "provision" \in Stages
    BY DEF Operations, Stages
  <2>3. Begin("add", t, {}, "provision") \in Works
    BY <2>1, <2>2, BeginFacts
  <2>4. o \in Works /\ o.task = t /\ o.left = {} /\ o.at = c
        /\ o.stage = "provision" /\ o.what = "add"
    BY <2>1, <2>3 DEF Works, Begin
  <2>5. op' = [op EXCEPT ![p] = o]
    BY <1>6 DEF AddSibling
  <2>6. Idle \notin Works
    BY DEF Idle, Works, Operations
  <2> HIDE DEF o
  <2>7. o.stage \in StagesOf[o.what]
    BY <2>4, StagesOfFacts
  <2>8. ~Busy(p) /\ co' = co /\ kind' = kind /\ box' = box /\ status' = status /\ mine' = mine
        /\ place' = place /\ hurt' = hurt /\ edits' = edits /\ faults' = faults
    BY <1>6 DEF AddSibling
  <2>9. status' \in [Tasks -> {"none", "creating", "active", "archived", "deleted"}]
        /\ mine' \in [Checkouts -> [Items -> Contents]]
    BY <2>8 DEF Types
  <2>10. o # Idle /\ o.at \in OwnedBy(o.task)
    BY <2>1, <2>4, <2>6
  <2> QED
    BY <2>4, <2>5, <2>7, <2>8, <2>9, <2>10, BeginStep
<1>7. \A c \in Checkouts : Owner[c] \in Tasks
  BY CheckoutAssumption
<1> QED
  BY <1>1, <1>2, <1>3, <1>4, <1>5, <1>6, <1>7 DEF Begins

LEMMA DieTypes ==
  ASSUME Types, Assigned, NEW p \in Procs, Die(p)
  PROVE  Types' /\ Assigned' /\ OnlyTask(p, op[p].task)
<1>1. Busy(p) /\ kind' = kind /\ status' = status /\ box' = box /\ co' = co /\ mine' = mine
      /\ place' = place /\ edits' = edits /\ hurt' = hurt \cup OwnedBy(op[p].task)
  BY DEF Die, Running, Hurt
<1>2. faults' \in 0..MaxFaults
  BY CheckoutAssumption DEF Die, Fault, Types
<1>3. Goes(p)
  BY DEF Die, Goes
<1> QED
  BY <1>1, <1>2, <1>3, TaskStep DEF Types, Untouched

\* A failed command leaves the operation at a stage of its own, or gives it up.
LEMMA PassedFacts ==
  ASSUME Types, Assigned, NEW p \in Procs, Busy(p)
  PROVE  PassedOver(p) \in StagesOf[op[p].what] \cup {"given up"}
<1>1. op[p] \in Works /\ op[p].what \in Operations /\ op[p].stage \in StagesOf[op[p].what]
  BY StageOf DEF Assigned, Works
<1> QED
  BY <1>1, StageOf, StagesOfFacts DEF PassedOver, Operations, Relinking

LEMMA FailTypes ==
  ASSUME Types, Assigned, NEW p \in Procs, Fail(p)
  PROVE  Types' /\ Assigned' /\ OnlyTask(p, op[p].task)
<1>1. Busy(p) /\ kind' = kind /\ status' = status /\ box' = box /\ co' = co /\ mine' = mine
      /\ place' = place /\ edits' = edits /\ hurt' = hurt \cup OwnedBy(op[p].task)
  BY DEF Fail, Running, Hurt
<1>4. Fault
  BY DEF Fail
<1>2. faults' \in 0..MaxFaults
  BY <1>4, CheckoutAssumption DEF Fault, Types
<1>3. Goes(p)
  BY <1>1, PassedFacts DEF Fail, Goes
<1> QED
  BY <1>1, <1>2, <1>3, TaskStep DEF Types, Untouched

LEMMA UserEditFacts ==
  ASSUME Types, Assigned, NEW c \in Checkouts, NEW e \in Entries, UserEdit(c, e)
  PROVE  /\ Types' /\ Assigned' /\ op' = op /\ hurt' = hurt
         /\ kind' = kind /\ status' = status /\ box' = box
         /\ \A d \in Checkouts \ {c} : co'[d] = co[d] /\ mine'[d] = mine[d] /\ place'[d] = place[d]
         /\ Exists(co'[c].dir)
         /\ co'[c].backup = co[c].backup /\ co'[c].reg = co[c].reg /\ co'[c].saved = co[c].saved
         /\ co'[c].named = co[c].named
         /\ co'[c].dir[e] = mine'[c][e] /\ mine'[c][e] > Base
         /\ \A i \in Items \ {e} : co'[c].dir[i] = co[c].dir[i] /\ mine'[c][i] = mine[c][i]
         /\ co'[c].rev.base = co[c].rev.base /\ place'[c].base = place[c].base
         /\ IF kind = "jj" /\ co[c].reg THEN place'[c].edit = co'[c].rev.edit ELSE place'[c] = place[c]
         /\ ~(kind = "jj" /\ co[c].reg) => co'[c].rev = co[c].rev
<1> DEFINE k == co[c]
           x == Edited(edits')
           recorded == kind = "jj" /\ k.reg
<1>1. /\ k \in Folders /\ mine[c] \in [Items -> Contents] /\ place[c] \in Revisions
      /\ Exists(k.dir) /\ edits < MaxEdits /\ edits' = edits + 1
      /\ kind' = kind /\ status' = status /\ box' = box /\ op' = op /\ hurt' = hurt /\ faults' = faults
      /\ e \in Items /\ e # "link"
  BY DirFacts DEF UserEdit, Types, Running
<1>2. k.dir \in [Items -> Contents] /\ k.dir \in Dirs
  BY <1>1, DirFacts DEF Folders
<1>3. x \in Contents /\ x > Base /\ edits' \in 0..MaxEdits
  BY <1>1, CheckoutAssumption DEF Edited, Contents, Base, Types
<1>4. recorded \in BOOLEAN /\ k.rev.edit \in BOOLEAN
  <2>1. k.rev \in Revisions /\ k.reg \in BOOLEAN
    BY <1>1 DEF Folders
  <2> QED
    BY <2>1 DEF Revisions
<1>5. PICK edit \in {k.rev.edit, k.rev.edit \/ recorded} :
        /\ co' = [co EXCEPT ![c].dir = Put(@, e, Edited(edits')), ![c].rev.edit = edit]
        /\ place' = [place EXCEPT ![c].edit = IF recorded THEN edit ELSE @]
  BY Zenon DEF UserEdit
<1>21. edit = k.rev.edit \/ edit = (k.rev.edit \/ recorded)
  BY <1>5
<1>6. edit \in BOOLEAN /\ (~recorded => edit = k.rev.edit)
  <2> HIDE DEF recorded, k
  <2>1. CASE edit = k.rev.edit
    BY <1>4, <2>1
  <2>2. CASE edit = (k.rev.edit \/ recorded)
    BY <1>4, <2>2
  <2> QED
    BY <1>21, <2>1, <2>2
<1> DEFINE d2 == Put(k.dir, e, x)
           r2 == [k.rev EXCEPT !.edit = edit]
           l2 == [place[c] EXCEPT !.edit = IF recorded THEN edit ELSE @]
           m2 == Put(mine[c], e, x)
<1>22. mine[c] \in Dirs /\ Exists(mine[c])
  BY <1>1, DirFacts
<1>7. d2 \in [Items -> Contents] /\ d2 \in Dirs /\ d2[e] = x /\ \A i \in Items \ {e} : d2[i] = k.dir[i]
  <2> HIDE DEF x, k
  <2>1. d2 \in [Items -> Contents] /\ d2[e] = x /\ \A i \in Items \ {e} : d2[i] = k.dir[i]
    BY <1>1, <1>2, <1>3, PutFacts
  <2> HIDE DEF d2
  <2> QED
    BY <2>1, DirFacts
<1>8. m2 \in [Items -> Contents] /\ m2[e] = x /\ \A i \in Items \ {e} : m2[i] = mine[c][i]
  <2> HIDE DEF x
  <2> QED
    BY <1>1, <1>3, <1>22, PutFacts
<1>9. r2 \in Revisions /\ r2.base = k.rev.base /\ r2.edit = edit /\ (~recorded => r2 = k.rev)
  BY <1>1, <1>6 DEF Folders, Revisions
<1>10. l2 \in Revisions /\ l2.base = place[c].base
       /\ (recorded => l2.edit = edit) /\ (~recorded => l2 = place[c])
  BY <1>1, <1>6 DEF Revisions
<1>11. co' = [co EXCEPT ![c] = [k EXCEPT !.dir = d2, !.rev = r2]]
  BY <1>1, <1>5 DEF Types, Folders
<1>12. mine' = [mine EXCEPT ![c] = m2]
  BY DEF UserEdit
<1>13. place' = [place EXCEPT ![c] = l2]
  BY <1>5 DEF Types
<1> HIDE DEF d2, r2, l2, m2, x
<1>14. LET k2 == [k EXCEPT !.dir = d2, !.rev = r2] IN
       /\ k2 \in Folders /\ k2.dir = d2 /\ k2.rev = r2 /\ k2.backup = k.backup /\ k2.reg = k.reg
       /\ k2.saved = k.saved /\ k2.named = k.named
  BY <1>1, <1>7, <1>9 DEF Folders
<1>15. co' \in [Checkouts -> Folders] /\ co'[c] = [k EXCEPT !.dir = d2, !.rev = r2]
       /\ \A d \in Checkouts \ {c} : co'[d] = co[d]
  BY <1>11, <1>14 DEF Types
<1>16. mine' \in [Checkouts -> [Items -> Contents]] /\ mine'[c] = m2
       /\ \A d \in Checkouts \ {c} : mine'[d] = mine[d]
  BY <1>8, <1>12 DEF Types
<1>17. place' \in [Checkouts -> Revisions] /\ place'[c] = l2
       /\ \A d \in Checkouts \ {c} : place'[d] = place[d]
  BY <1>10, <1>13 DEF Types
<1>18. Types' /\ Assigned'
  BY <1>1, <1>3, <1>15, <1>16, <1>17 DEF Types, Assigned, Busy
<1>19. Exists(co'[c].dir)
  BY <1>7, <1>14, <1>15, DirFacts
<1>20. IF recorded THEN place'[c].edit = co'[c].rev.edit ELSE place'[c] = place[c] /\ co'[c].rev = k.rev
  BY <1>9, <1>10, <1>14, <1>15, <1>17
<1> QED
  BY <1>1, <1>3, <1>7, <1>8, <1>9, <1>10, <1>14, <1>15, <1>16, <1>17, <1>18, <1>19, <1>20

-----------------------------------------------------------------------------
(* Every step, and what follows from the types alone. *)

LEMMA RelinksTypes ==
  ASSUME Types, Assigned, NEW p \in Procs, Relinks(p)
  PROVE  Types' /\ Assigned' /\ OnlyTask(p, op[p].task)
BY RecoverTypes, MoveBackTypes, CheckTypes, PrepareTypes, MoveOutTypes, PruneTypes, LinkTypes,
   EditChangeTypes, OverlayTypes, RefreshTypes, ReattachedTypes DEF Relinks

LEMMA ProceedsTypes ==
  ASSUME Types, Assigned, NEW p \in Procs, Proceeds(p)
  PROVE  Types' /\ Assigned' /\ OnlyTask(p, op[p].task)
BY ProvisionTypes, ContainerTypes, StopContainerTypes, RemoveContainerTypes, ListTypes, EachTypes,
   DetachTypes, ForgetTypes, RelinksTypes, RemoveTypes, LastTypes, CommitTypes DEF Proceeds

LEMMA ProceedsBusy ==
  ASSUME NEW p \in Procs, Proceeds(p)
  PROVE  Busy(p)
BY DEF Proceeds, Relinks, Provision, Container, StopContainer, RemoveContainer, List, Each, Detach, Forget,
   Remove, Last, Commit, Recover, MoveBack, Check, Prepare, MoveOut, Prune, Link, EditChange, Overlay,
   Refresh, Reattached, At

TypesInv == Types /\ Assigned

LEMMA InitTypes == Init => TypesInv
<1> SUFFICES ASSUME Init PROVE TypesInv
  OBVIOUS
<1>1. NoCheckout \in Folders /\ NoCheckout.rev \in Revisions
  BY DirFacts DEF NoCheckout, Folders, Revisions, NoTarget
<1>2. Types
  BY <1>1, DirFacts, CheckoutAssumption DEF Init, Types
<1>3. Assigned
  BY DEF Init, Assigned, Busy
<1> QED
  BY <1>2, <1>3 DEF TypesInv

LEMMA NextTypes ==
  ASSUME TypesInv, [Next]_vars
  PROVE  TypesInv'
<1>1. ASSUME NEW p \in Procs, Begins(p) \/ Proceeds(p) \/ Die(p) \/ Fail(p)
      PROVE  TypesInv'
  BY <1>1, BeginsTypes, ProceedsTypes, DieTypes, FailTypes DEF TypesInv
<1>2. ASSUME NEW c \in Checkouts, NEW e \in Entries, UserEdit(c, e)
      PROVE  TypesInv'
  BY <1>2, UserEditFacts DEF TypesInv
<1>3. CASE UNCHANGED vars
  BY <1>3 DEF TypesInv, Types, Assigned, Busy, vars, history
<1> QED
  BY <1>1, <1>2, <1>3 DEF Next

\* In every reachable state the checkouts, the containers and the operations under way have
\* their types, and an operation is at a stage of its own kind (vcs.rs, task_cleanup.rs).
THEOREM TypesHold == Spec => []TypesInv
<1>1. TypesInv /\ [Next]_vars => TypesInv'
  BY NextTypes
<1> QED
  BY <1>1, InitTypes, PTL DEF Spec

\* Whatever the processes do in whatever order, every variable keeps its type: an operation is
\* only ever at a checkout of its own task, and at a stage of its own.
THEOREM CheckoutsTypeOK == Spec => []TypeOK
<1>1. TypesInv => TypeOK
  <2> SUFFICES ASSUME TypesInv PROVE TypeOK
    OBVIOUS
  <2>1. ASSUME NEW p \in Procs, Busy(p)
        PROVE  /\ op[p].what \in Operations /\ op[p].stage \in Stages /\ op[p].task \in Tasks
               /\ op[p].at \in OwnedBy(op[p].task) /\ op[p].left \subseteq OwnedBy(op[p].task)
    BY <2>1, BusyWorks DEF TypesInv, Assigned, Works
  <2>2. ASSUME NEW c \in Checkouts
        PROVE  /\ co[c].dir \in Dirs /\ co[c].backup \in Dirs
               /\ co[c].rev \in Revisions /\ co[c].saved \in Revisions \cup {NoTarget}
               /\ co[c].reg \in BOOLEAN /\ co[c].named \in BOOLEAN
    BY DEF TypesInv, Types, Folders
  <2> QED
    BY <2>1, <2>2 DEF TypeOK, TypesInv, Types
<1> QED
  BY <1>1, TypesHold, PTL

\* An operation never takes a working checkout of a task that nobody is working on away from its
\* source: `git worktree prune` forgets the registrations of every task, but only unusable ones.
THEOREM OtherTasksStay == Spec => OthersStay
<1> DEFINE Stays(c) == Attached(co[c]) /\ ~Attached(co'[c]) => \E p \in Procs : Busy(p) /\ op[p].task = Owner[c]
<1>1. ASSUME TypesInv, Next, NEW c \in Checkouts
      PROVE  Stays(c)
  <2>1. ASSUME Untouched(c)
        PROVE  Stays(c)
    BY <2>1 DEF Untouched, Attached
  <2>2. ASSUME NEW p \in Procs, Begins(p)
        PROVE  Stays(c)
    <3>1. co' = co
      BY <2>2 DEF Begins, CreateTask, Archive, Restore, OpenTerminal, Delete, AddSibling
    <3> QED
      BY <3>1
  <2>3. ASSUME NEW p \in Procs, Proceeds(p) \/ Die(p) \/ Fail(p)
        PROVE  Stays(c)
    <3>1. Busy(p)
      BY <2>3, ProceedsBusy DEF Die, Fail
    <3>2. OnlyTask(p, op[p].task)
      BY <1>1, <2>3, ProceedsTypes, DieTypes, FailTypes DEF TypesInv
    <3>3. CASE Owner[c] = op[p].task
      BY <3>1, <3>3
    <3>4. CASE Owner[c] # op[p].task
      BY <2>1, <3>2, <3>4 DEF OnlyTask
    <3> QED
      BY <3>3, <3>4
  <2>4. ASSUME NEW d \in Checkouts, NEW e \in Entries, UserEdit(d, e)
        PROVE  Stays(c)
    <3>1. CASE c # d
      BY <1>1, <2>4, <3>1, UserEditFacts DEF TypesInv
    <3>2. CASE c = d
      <4>1. co'[c].reg = co[c].reg /\ Exists(co'[c].dir) /\ co'[c].dir["link"] = co[c].dir["link"]
        <5>1. "link" \in Items \ {e}
          BY DirFacts
        <5> QED
          BY <1>1, <2>4, <3>2, <5>1, UserEditFacts DEF TypesInv
      <4> QED
        BY <4>1 DEF Attached, Linked
    <3> QED
      BY <3>1, <3>2
  <2> QED
    BY <1>1, <2>2, <2>3, <2>4 DEF Next
<1>2. ASSUME TypesInv, [Next]_vars
      PROVE  [\A c \in Checkouts : Attached(co[c]) /\ ~Attached(co'[c]) =>
                \E p \in Procs : Busy(p) /\ op[p].task = Owner[c]]_vars
  BY <1>1, <1>2
<1> QED
  BY <1>2, TypesHold, PTL DEF Spec, OthersStay

-----------------------------------------------------------------------------
(* No work is lost.  prepare_relink_backup throws away the backup another    *)
(* process has just moved the files to, so what follows is about terminals   *)
(* and requests of one task that come one after the other.                   *)

Apart == \A p, q \in Procs : Busy(p) /\ Busy(q) /\ op[p].task = op[q].task => p = q

\* No entry is both in the directory and in the backup.
Disjoint(k) == \A i \in Items : Exists(k.dir) /\ Exists(k.backup) => k.dir[i] = Gone \/ k.backup[i] = Gone

\* What the user last wrote is in the directory or in the backup.
Held(k, m) ==
    \A e \in Entries : m[e] > Base =>
        (Exists(k.dir) /\ k.dir[e] = m[e]) \/ (Exists(k.backup) /\ k.backup[e] = m[e])

\* What a relink relies on at each of its stages.
KeepsWork(o, k, m) ==
    /\ o.stage \in {"moveback", "removeback", "rollback", "moveout"} => Exists(k.backup) /\ Disjoint(k)
    /\ o.stage = "prepare" => (HasEntries(k.backup) => HasEntries(k.dir))
    /\ o.stage \in {"prune", "link"} => Exists(k.backup) /\ ~HasEntries(k.dir)
    /\ o.stage \in {"edit", "overlay"} =>
        /\ Exists(k.dir) /\ Exists(k.backup)
        /\ \A e \in Entries : m[e] > Base /\ k.backup[e] # Gone => k.backup[e] = m[e]
Careful == {"moveback", "removeback", "rollback", "moveout", "prepare", "prune", "link", "edit", "overlay"}

\* The user gave up the files of a task they delete.
GivenUp(o) == o.what = "delete" => \A c \in OwnedBy(o.task), e \in Entries : mine[c][e] = Gone

WorkKept == \A p \in Procs : Busy(p) => KeepsWork(op[p], Cur(p), mine[op[p].at]) /\ GivenUp(op[p])
AllHeld == \A c \in Checkouts : Held(co[c], mine[c])
WorkInv == WorkKept /\ AllHeld

LEMMA CarefulOnly ==
  ASSUME NEW o, NEW k, NEW m, o.stage \notin Careful
  PROVE  KeepsWork(o, k, m)
BY DEF KeepsWork, Careful

\* The claim reads the two directories only.
LEMMA KeepsWorkAlike ==
  ASSUME NEW o, NEW k, NEW k2, NEW m, k2.dir = k.dir, k2.backup = k.backup, KeepsWork(o, k, m)
  PROVE  KeepsWork(o, k2, m)
BY DEF KeepsWork, Disjoint

\* A step on one task: the claims of the processes on the others stand.
LEMMA WorkStep ==
  ASSUME TypesInv, TypesInv', Apart, Apart', WorkInv, NEW p \in Procs, NEW t, OnlyTask(p, t),
         Busy(p) \/ op'[p] # Idle,
         op'[p] # Idle => KeepsWork(op'[p], co'[op'[p].at], mine'[op'[p].at]) /\ GivenUp(op[p])',
         \A c \in Checkouts : Owner[c] = t => Held(co'[c], mine'[c])
  PROVE  WorkInv'
<1>1. ASSUME NEW c \in Checkouts
      PROVE  Held(co'[c], mine'[c])
  <2>1. CASE Owner[c] # t
    BY <2>1 DEF OnlyTask, Untouched, WorkInv, AllHeld, Held
  <2> QED
    BY <2>1
<1>2. ASSUME NEW q \in Procs, op'[q] # Idle
      PROVE  KeepsWork(op'[q], co'[op'[q].at], mine'[op'[q].at]) /\ GivenUp(op[q])'
  <2>1. CASE q = p
    BY <1>2, <2>1
  <2>2. CASE q # p
    <3>1. op'[q] = op[q] /\ Busy(q)
      BY <1>2, <2>2 DEF OnlyTask, Busy
    <3>2. op[q].task # t
      BY <1>2, <2>2, <3>1 DEF Apart, OnlyTask, Busy
    <3>3. op[q].at \in Checkouts /\ Owner[op[q].at] = op[q].task
      BY <3>1 DEF TypesInv, Assigned, OwnedBy
    <3>4. KeepsWork(op[q], co[op[q].at], mine[op[q].at]) /\ GivenUp(op[q])
      BY <3>1 DEF WorkInv, WorkKept, Cur
    <3>5. Untouched(op[q].at)
      BY <3>2, <3>3 DEF OnlyTask
    <3>6. /\ co'[op[q].at].dir = co[op[q].at].dir
          /\ co'[op[q].at].backup = co[op[q].at].backup
          /\ mine'[op[q].at] = mine[op[q].at]
      BY <3>5 DEF Untouched
    <3>8. KeepsWork(op[q], co'[op[q].at], mine'[op[q].at])
      BY <3>4, <3>6, KeepsWorkAlike
    <3>9. KeepsWork(op'[q], co'[op'[q].at], mine'[op'[q].at])
      BY <3>1, <3>8
    <3>7. \A c \in OwnedBy(op[q].task) : mine'[c] = mine[c]
      BY <3>2 DEF OwnedBy, OnlyTask, Untouched
    <3> QED
      BY <3>1, <3>4, <3>7, <3>9 DEF GivenUp
  <2> QED
    BY <2>1, <2>2
<1> QED
  BY <1>1, <1>2 DEF WorkInv, WorkKept, AllHeld, Busy, Cur

\* The same for a step on the checkout that the operation is at.
LEMMA CurWork ==
  ASSUME TypesInv, TypesInv', Apart, Apart', WorkInv, NEW p \in Procs, Busy(p), OnlyTask(p, op[p].task),
         Goes(p), Step, NEW k \in Folders, SetCur(p, k),
         Held(k, mine[op[p].at]), op'[p] # Idle => KeepsWork(op'[p], k, mine[op[p].at])
  PROVE  WorkInv'
<1>1. mine' = mine
  BY DEF Step, NoFault
<1>2. co'[op[p].at] = k /\ \A c \in Checkouts \ {op[p].at} : co'[c] = co[c]
  BY SetCurFacts DEF TypesInv
<1>3. op'[p] # Idle => op'[p].task = op[p].task /\ op'[p].what = op[p].what /\ op'[p].at = op[p].at
  BY OpStep DEF TypesInv
<1>4. \A c \in Checkouts : Held(co'[c], mine'[c])
  BY <1>1, <1>2 DEF WorkInv, AllHeld
<1>5. op'[p] # Idle => GivenUp(op[p])'
  BY <1>1, <1>3 DEF WorkInv, WorkKept, GivenUp
<1> QED
  BY <1>1, <1>2, <1>3, <1>4, <1>5, WorkStep

\* The same for a step that leaves directories and backups alone.
LEMMA StillWork ==
  ASSUME TypesInv, TypesInv', Apart, Apart', WorkInv, NEW p \in Procs, Busy(p), OnlyTask(p, op[p].task),
         op'[p] # Idle => op'[p].what = op[p].what, mine' = mine,
         \A c \in Checkouts : co'[c].dir = co[c].dir /\ co'[c].backup = co[c].backup,
         op'[p] # Idle => KeepsWork(op'[p], co[op'[p].at], mine[op'[p].at])
  PROVE  WorkInv'
<1>1. \A c \in Checkouts : Held(co'[c], mine'[c])
  BY DEF WorkInv, AllHeld, Held
<1>2. op'[p] # Idle => op'[p].at \in Checkouts /\ op'[p].task = op[p].task
  BY DEF TypesInv, Assigned, Busy, OwnedBy, OnlyTask
<1>3. op'[p] # Idle => KeepsWork(op'[p], co'[op'[p].at], mine'[op'[p].at])
  BY <1>2 DEF KeepsWork, Disjoint
<1>4. op'[p] # Idle => GivenUp(op[p])'
  BY <1>2 DEF WorkInv, WorkKept, GivenUp
<1> QED
  BY <1>1, <1>3, <1>4, WorkStep

\* What the claims say of the checkout an operation is at.
LEMMA AtWork ==
  ASSUME TypesInv, WorkInv, NEW p \in Procs, Busy(p)
  PROVE  LET k == co[op[p].at]
             m == mine[op[p].at] IN
         /\ Held(k, m) /\ KeepsWork(op[p], k, m) /\ GivenUp(op[p])
         /\ k \in Folders /\ m \in [Items -> Contents]
<1>1. op[p].at \in Checkouts
  BY StageOf DEF TypesInv
<1> QED
  BY <1>1 DEF WorkInv, WorkKept, AllHeld, Cur, TypesInv, Types

LEMMA MoreDirFacts ==
  ASSUME NEW k \in Folders
  PROVE  /\ HasEntries(k.dir) => Exists(k.dir)
         /\ HasEntries(k.backup) => Exists(k.backup)
         /\ Exists(k.dir) => (HasEntries(k.dir) <=> \E i \in Items : k.dir[i] # Gone)
         /\ Exists(k.backup) => (HasEntries(k.backup) <=> \E i \in Items : k.backup[i] # Gone)
         /\ Exists(k.dir) => k.dir \in [Items -> Contents] /\ DOMAIN k.dir = Items
         /\ Exists(k.backup) => k.backup \in [Items -> Contents] /\ DOMAIN k.backup = Items
BY DirFacts DEF Exists, Folders

LEMMA RecoverWork ==
  ASSUME TypesInv, TypesInv', Apart, Apart', WorkInv, NEW p \in Procs, Recover(p)
  PROVE  WorkInv'
<1> DEFINE k == co[op[p].at]
           m == mine[op[p].at]
           next == IF op[p].stage = "recover" THEN "check" ELSE "prepare"
<1>1. Busy(p) /\ op[p].stage \in {"recover", "rebackup"} /\ Step
  BY DEF Recover, At
<1>2. k \in Folders /\ Held(k, m) /\ m \in [Items -> Contents]
  BY <1>1, AtWork
<1>3. Goes(p)
  BY <1>1, RelinkStep DEF Recover, Relinking, TypesInv
<1>4. OnlyTask(p, op[p].task)
  BY RecoverTypes DEF TypesInv
<1>5. next \in {"check", "prepare"} /\ next \in Stages
  BY DEF Stages, Infallible
<1> HIDE DEF next
<1>6. CASE Exists(k.backup) /\ ~HasEntries(k.backup)
  <2> DEFINE k2 == [k EXCEPT !.backup = NoDir]
  <2>1. SetCur(p, k2) /\ Goto(p, next)
    BY <1>6 DEF Recover, Cur, next
  <2>2. k2 \in Folders /\ k2.dir = k.dir /\ k2.backup = NoDir
    BY <1>2, DirFacts DEF Folders
  <2> HIDE DEF k2
  <2>3. Held(k2, m)
    <3>1. \A e \in Entries : k.backup[e] = Gone
      BY <1>2, <1>6, MoreDirFacts, DirFacts
    <3> QED
      BY <1>2, <2>2, <3>1 DEF Held, Gone, Base
  <2>4. op'[p].stage = next
    BY <1>1, <1>5, <2>1, GotoFacts DEF TypesInv
  <2>5. KeepsWork(op'[p], k2, m)
    BY <1>5, <2>2, <2>4, DirFacts DEF KeepsWork
  <2> QED
    BY <1>1, <1>3, <1>4, <2>1, <2>2, <2>3, <2>5, CurWork
<1>7. CASE ~(Exists(k.backup) /\ ~HasEntries(k.backup)) /\ Exists(k.backup) /\ ~HasEntries(k.dir)
  <2> DEFINE k2 == [k EXCEPT !.dir = EmptyDir]
             s == IF next = "check" THEN "moveback" ELSE "removeback"
  <2>1. SetCur(p, k2) /\ Goto(p, s)
    BY <1>7 DEF Recover, Cur, next
  <2>2. k2 \in Folders /\ k2.dir = EmptyDir /\ k2.backup = k.backup
    BY <1>2, DirFacts DEF Folders
  <2>3. s \in {"moveback", "removeback"} /\ s \in Stages
    BY DEF Stages
  <2> HIDE DEF k2, s
  <2>4. Held(k2, m)
    <3>1. Exists(k.dir) => \A e \in Entries : k.dir[e] = Gone
      BY <1>2, <1>7, MoreDirFacts, DirFacts
    <3> QED
      BY <1>2, <2>2, <3>1 DEF Held, Gone, Base
  <2>5. op'[p].stage = s
    BY <1>1, <2>1, <2>3, GotoFacts DEF TypesInv
  <2>6. KeepsWork(op'[p], k2, m)
    BY <1>7, <2>2, <2>3, <2>5, DirFacts DEF KeepsWork, Disjoint
  <2> QED
    BY <1>1, <1>3, <1>4, <2>1, <2>2, <2>4, <2>6, CurWork
<1>8. CASE ~(Exists(k.backup) /\ ~HasEntries(k.backup)) /\ ~(Exists(k.backup) /\ ~HasEntries(k.dir))
  <2>1. co' = co /\ Goto(p, next) /\ mine' = mine
    BY <1>1, <1>8 DEF Recover, Cur, next, Step, NoFault
  <2>2. op'[p].stage = next /\ op'[p].what = op[p].what /\ op'[p].at = op[p].at
    BY <1>1, <1>5, <2>1, GotoFacts DEF TypesInv
  <2>3. HasEntries(k.backup) => HasEntries(k.dir)
    BY <1>2, <1>8, MoreDirFacts
  <2>4. KeepsWork(op'[p], k, m)
    BY <1>5, <2>2, <2>3 DEF KeepsWork
  <2> QED
    BY <1>1, <1>4, <2>1, <2>2, <2>4, StillWork
<1> QED
  BY <1>6, <1>7, <1>8

LEMMA MoveBackWork ==
  ASSUME TypesInv, TypesInv', Apart, Apart', WorkInv, NEW p \in Procs, MoveBack(p)
  PROVE  WorkInv'
<1> DEFINE k == co[op[p].at]
           m == mine[op[p].at]
<1>1. Busy(p) /\ op[p].stage \in {"moveback", "removeback", "rollback"} /\ Step
  BY DEF MoveBack, At
<1>2. k \in Folders /\ Held(k, m) /\ m \in [Items -> Contents] /\ KeepsWork(op[p], k, m)
  BY <1>1, AtWork
<1>3. Goes(p)
  BY <1>1, RelinkStep DEF MoveBack, Relinking, TypesInv
<1>4. OnlyTask(p, op[p].task)
  BY MoveBackTypes DEF TypesInv
<1>5. Exists(k.backup) /\ Disjoint(k)
  BY <1>1, <1>2 DEF KeepsWork
<1>6. CASE HasEntries(k.backup)
  <2>1. PICK i \in Items : /\ SetCur(p, [k EXCEPT !.dir = Put(@, i, k.backup[i]), !.backup[i] = Gone])
                           /\ k.backup[i] # Gone /\ op' = op
    BY <1>6 DEF MoveBack, Cur
  <2> DEFINE k2 == MovedBack(k, i)
  <2>2. /\ k2 \in Folders
        /\ k2.dir \in [Items -> Contents] /\ k2.dir[i] = k.backup[i]
        /\ \A j \in Items \ {i} : k2.dir[j] = IF Exists(k.dir) THEN k.dir[j] ELSE Gone
        /\ k2.backup \in [Items -> Contents] /\ k2.backup[i] = Gone
        /\ \A j \in Items \ {i} : k2.backup[j] = k.backup[j]
    BY <1>2, <1>5, MovedBackFacts
  <2>3. SetCur(p, k2)
    BY <2>1 DEF MovedBack
  <2> HIDE DEF k2
  <2>4. Exists(k2.dir) /\ Exists(k2.backup)
    BY <2>2, DirFacts
  <2>5. Held(k2, m)
    <3>1. SUFFICES ASSUME NEW e \in Entries, m[e] > Base
                   PROVE  k2.dir[e] = m[e] \/ k2.backup[e] = m[e]
      BY <2>4 DEF Held
    <3>2. (Exists(k.dir) /\ k.dir[e] = m[e]) \/ k.backup[e] = m[e]
      BY <1>2, <3>1 DEF Held
    <3>3. e \in Items /\ m[e] # Gone
      BY <3>1, DirFacts DEF Gone, Base
    <3>4. CASE e = i
      <4>1. Exists(k.dir) => k.dir[e] = Gone
        BY <1>5, <2>1, <3>4 DEF Disjoint
      <4> QED
        BY <2>2, <3>2, <3>3, <3>4, <4>1
    <3>5. CASE e # i
      BY <2>2, <3>2, <3>3, <3>5
    <3> QED
      BY <3>4, <3>5
  <2>6. Disjoint(k2)
    BY <1>5, <2>2 DEF Disjoint
  <2>7. op'[p] # Idle => KeepsWork(op'[p], k2, m)
    BY <1>1, <2>1, <2>4, <2>6 DEF KeepsWork
  <2> QED
    BY <1>1, <1>3, <1>4, <2>2, <2>3, <2>5, <2>7, CurWork
<1>7. CASE ~HasEntries(k.backup)
  <2> DEFINE k2 == [k EXCEPT !.backup = NoDir]
  <2>1. SetCur(p, k2) /\ (Goto(p, "check") \/ Goto(p, "prepare") \/ End(p))
    BY <1>7 DEF MoveBack, Cur
  <2>2. k2 \in Folders /\ k2.dir = k.dir /\ k2.backup = NoDir
    BY <1>2, DirFacts DEF Folders
  <2> HIDE DEF k2
  <2>3. Held(k2, m)
    <3>1. \A e \in Entries : k.backup[e] = Gone
      BY <1>2, <1>5, <1>7, MoreDirFacts, DirFacts
    <3> QED
      BY <1>2, <2>2, <3>1 DEF Held, Gone, Base
  <2>4. op'[p] # Idle => op'[p].stage \in {"check", "prepare"}
    <3>1. {"check", "prepare"} \subseteq Stages
      BY DEF Stages, Infallible
    <3> QED
      BY <1>1, <2>1, <3>1, GotoFacts, EndFacts DEF TypesInv
  <2>5. op'[p] # Idle => KeepsWork(op'[p], k2, m)
    BY <2>2, <2>4, DirFacts DEF KeepsWork
  <2> QED
    BY <1>1, <1>3, <1>4, <2>1, <2>2, <2>3, <2>5, CurWork
<1> QED
  BY <1>6, <1>7

LEMMA PrepareWork ==
  ASSUME TypesInv, TypesInv', Apart, Apart', WorkInv, NEW p \in Procs, Prepare(p)
  PROVE  WorkInv'
<1> DEFINE k == co[op[p].at]
           m == mine[op[p].at]
<1>1. Busy(p) /\ op[p].stage = "prepare" /\ Step
  BY DEF Prepare, At
<1>2. k \in Folders /\ Held(k, m) /\ m \in [Items -> Contents] /\ KeepsWork(op[p], k, m)
  BY <1>1, AtWork
<1>3. Goes(p)
  BY <1>1, RelinkStep DEF Prepare, Relinking, TypesInv
<1>4. OnlyTask(p, op[p].task)
  BY PrepareTypes DEF TypesInv
<1>5. CASE HasEntries(k.backup) /\ HasEntries(k.dir)
  <2>1. End(p) /\ co' = co /\ mine' = mine
    BY <1>1, <1>5 DEF Prepare, Cur, Step, NoFault
  <2>2. op'[p] = Idle
    BY <2>1, EndFacts DEF TypesInv
  <2> QED
    BY <1>1, <1>4, <2>1, <2>2, StillWork
<1>6. CASE ~(HasEntries(k.backup) /\ HasEntries(k.dir))
  <2> DEFINE k2 == [k EXCEPT !.backup = EmptyDir]
  <2>1. SetCur(p, k2) /\ Goto(p, "moveout")
    BY <1>6 DEF Prepare, Cur
  <2>2. k2 \in Folders /\ k2.dir = k.dir /\ k2.backup = EmptyDir
    BY <1>2, DirFacts DEF Folders
  <2> HIDE DEF k2
  <2>3. ~HasEntries(k.backup)
    BY <1>1, <1>2, <1>6 DEF KeepsWork
  <2>4. Held(k2, m)
    <3>1. Exists(k.backup) => \A e \in Entries : k.backup[e] = Gone
      BY <1>2, <2>3, MoreDirFacts, DirFacts
    <3> QED
      BY <1>2, <2>2, <3>1 DEF Held, Gone, Base
  <2>5. op'[p].stage = "moveout"
    BY <1>1, <2>1, GotoFacts DEF TypesInv, Stages
  <2>6. KeepsWork(op'[p], k2, m)
    BY <2>2, <2>5, DirFacts DEF KeepsWork, Disjoint
  <2> QED
    BY <1>1, <1>3, <1>4, <2>1, <2>2, <2>4, <2>6, CurWork
<1> QED
  BY <1>5, <1>6

LEMMA MoveOutWork ==
  ASSUME TypesInv, TypesInv', Apart, Apart', WorkInv, NEW p \in Procs, MoveOut(p)
  PROVE  WorkInv'
<1> DEFINE k == co[op[p].at]
           m == mine[op[p].at]
<1>1. Busy(p) /\ op[p].stage = "moveout" /\ Step
  BY DEF MoveOut, At
<1>2. k \in Folders /\ Held(k, m) /\ m \in [Items -> Contents] /\ KeepsWork(op[p], k, m)
  BY <1>1, AtWork
<1>3. Goes(p)
  BY <1>1, RelinkStep DEF MoveOut, Relinking, TypesInv
<1>4. OnlyTask(p, op[p].task)
  BY MoveOutTypes DEF TypesInv
<1>5. Exists(k.backup) /\ Disjoint(k)
  BY <1>1, <1>2 DEF KeepsWork
<1>6. CASE HasEntries(k.dir)
  <2>1. PICK i \in Items : /\ SetCur(p, [k EXCEPT !.backup[i] = k.dir[i], !.dir[i] = Gone])
                           /\ k.dir[i] # Gone /\ op' = op
    BY <1>5, <1>6 DEF MoveOut, Cur
  <2> DEFINE k2 == MovedOut(k, i)
  <2>2. Exists(k.dir)
    BY <1>2, <1>6, MoreDirFacts
  <2>3. /\ k2 \in Folders
        /\ k2.backup \in [Items -> Contents] /\ k2.backup[i] = k.dir[i]
        /\ \A j \in Items \ {i} : k2.backup[j] = k.backup[j]
        /\ k2.dir \in [Items -> Contents] /\ k2.dir[i] = Gone
        /\ \A j \in Items \ {i} : k2.dir[j] = k.dir[j]
    BY <1>2, <1>5, <2>2, MovedOutFacts
  <2>4. SetCur(p, k2)
    BY <2>1 DEF MovedOut
  <2> HIDE DEF k2
  <2>5. Exists(k2.dir) /\ Exists(k2.backup)
    BY <2>3, DirFacts
  <2>6. Held(k2, m)
    <3>1. SUFFICES ASSUME NEW e \in Entries, m[e] > Base
                   PROVE  k2.dir[e] = m[e] \/ k2.backup[e] = m[e]
      BY <2>5 DEF Held
    <3>2. k.dir[e] = m[e] \/ k.backup[e] = m[e]
      BY <1>2, <3>1 DEF Held
    <3>3. e \in Items /\ m[e] # Gone
      BY <3>1, DirFacts DEF Gone, Base
    <3>4. CASE e = i
      <4>1. k.backup[e] = Gone
        BY <1>5, <2>1, <2>2, <3>4 DEF Disjoint
      <4> QED
        BY <2>3, <3>2, <3>3, <3>4, <4>1
    <3>5. CASE e # i
      BY <2>3, <3>2, <3>3, <3>5
    <3> QED
      BY <3>4, <3>5
  <2>7. Disjoint(k2)
    BY <1>5, <2>2, <2>3 DEF Disjoint
  <2>8. op'[p] # Idle => KeepsWork(op'[p], k2, m)
    BY <1>1, <2>1, <2>5, <2>7 DEF KeepsWork
  <2> QED
    BY <1>1, <1>3, <1>4, <2>3, <2>4, <2>6, <2>8, CurWork
<1>7. CASE ~HasEntries(k.dir)
  <2> DEFINE k2 == IF kind = "git" THEN [k EXCEPT !.dir = NoDir] ELSE k
             s == IF kind = "git" THEN "prune" ELSE "link"
  <2>1. SetCur(p, k2) /\ Goto(p, s)
    BY <1>7 DEF MoveOut, Cur
  <2>2. k2 \in Folders /\ k2.dir \in {NoDir, k.dir} /\ k2.backup = k.backup
    BY <1>2, DirFacts DEF Folders
  <2>3. s \in {"prune", "link"} /\ s \in Stages
    BY DEF Stages
  <2> HIDE DEF k2, s
  <2>4. Exists(k.dir) => \A e \in Entries : k.dir[e] = Gone
    BY <1>2, <1>7, MoreDirFacts, DirFacts
  <2>5. Held(k2, m)
    BY <1>2, <2>2, <2>4, DirFacts DEF Held, Gone, Base
  <2>6. op'[p].stage = s
    BY <1>1, <2>1, <2>3, GotoFacts DEF TypesInv
  <2>7. KeepsWork(op'[p], k2, m)
    BY <1>5, <1>7, <2>2, <2>3, <2>6, DirFacts DEF KeepsWork
  <2> QED
    BY <1>1, <1>3, <1>4, <2>1, <2>2, <2>5, <2>7, CurWork
<1> QED
  BY <1>6, <1>7

LEMMA PruneWork ==
  ASSUME TypesInv, TypesInv', Apart, Apart', WorkInv, NEW p \in Procs, Prune(p)
  PROVE  WorkInv'
<1>1. Busy(p) /\ op[p].stage = "prune" /\ co' = Pruned(co) /\ Goto(p, "link") /\ mine' = mine
  BY DEF Prune, At, Step, NoFault
<1>2. OnlyTask(p, op[p].task)
  BY PruneTypes DEF TypesInv
<1>3. \A c \in Checkouts : co'[c].dir = co[c].dir /\ co'[c].backup = co[c].backup
  BY <1>1, PrunedFacts DEF TypesInv, Types
<1>4. op'[p].stage = "link" /\ op'[p].what = op[p].what /\ op'[p].at = op[p].at
  BY <1>1, GotoFacts DEF TypesInv, Stages
<1>5. KeepsWork(op[p], co[op[p].at], mine[op[p].at])
  BY <1>1, AtWork
<1>6. KeepsWork(op'[p], co[op'[p].at], mine[op'[p].at])
  BY <1>1, <1>4, <1>5 DEF KeepsWork
<1> QED
  BY <1>1, <1>2, <1>3, <1>4, <1>6, StillWork

LEMMA LinkWork ==
  ASSUME TypesInv, TypesInv', Apart, Apart', WorkInv, NEW p \in Procs, Link(p)
  PROVE  WorkInv'
<1> DEFINE k == co[op[p].at]
           m == mine[op[p].at]
<1>1. Busy(p) /\ op[p].stage = "link" /\ Step /\ mine' = mine
  BY DEF Link, At, Step, NoFault
<1>2. k \in Folders /\ Held(k, m) /\ m \in [Items -> Contents] /\ KeepsWork(op[p], k, m)
  BY <1>1, AtWork
<1>3. Goes(p)
  BY <1>1, RelinkStep DEF Link, Relinking, TypesInv
<1>4. OnlyTask(p, op[p].task)
  BY LinkTypes DEF TypesInv
<1>5. Exists(k.backup) /\ ~HasEntries(k.dir)
  BY <1>1, <1>2 DEF KeepsWork
<1>6. Exists(k.dir) => \A i \in Items : k.dir[i] = Gone
  BY <1>2, <1>5, MoreDirFacts
<1>7. \A e \in Entries : m[e] > Base => k.backup[e] = m[e]
  BY <1>2, <1>6, DirFacts DEF Held, Gone, Base
<1>8. CASE CanAdd(k)
  <2> DEFINE k2 == Add(k, RestoreBase(k))
  <2>1. SetCur(p, k2) /\ Goto(p, "edit")
    BY <1>8 DEF Link, Cur
  <2>2. k2 \in Folders /\ k2.dir = Fresh /\ k2.backup = k.backup
    BY <1>2, RestoreBaseFacts, AddFacts
  <2> HIDE DEF k2
  <2>3. Held(k2, m)
    BY <1>5, <1>7, <2>2 DEF Held
  <2>4. op'[p].stage = "edit"
    BY <1>1, <2>1, GotoFacts DEF TypesInv, Stages
  <2>5. KeepsWork(op'[p], k2, m)
    BY <1>5, <1>7, <2>2, <2>4, DirFacts DEF KeepsWork
  <2> QED
    BY <1>1, <1>3, <1>4, <2>1, <2>2, <2>3, <2>5, CurWork
<1>9. CASE ~CanAdd(k)
  <2>1. co' = co /\ Goto(p, "rollback")
    BY <1>9 DEF Link, Cur
  <2>2. op'[p].stage = "rollback" /\ op'[p].what = op[p].what /\ op'[p].at = op[p].at
    BY <1>1, <2>1, GotoFacts DEF TypesInv, Stages
  <2>3. KeepsWork(op'[p], k, m)
    BY <1>5, <1>6, <2>2 DEF KeepsWork, Disjoint
  <2> QED
    BY <1>1, <1>4, <2>1, <2>2, <2>3, StillWork
<1> QED
  BY <1>8, <1>9

LEMMA EditChangeWork ==
  ASSUME TypesInv, TypesInv', Apart, Apart', WorkInv, NEW p \in Procs, EditChange(p)
  PROVE  WorkInv'
<1> DEFINE k == co[op[p].at]
           m == mine[op[p].at]
           k2 == [k EXCEPT !.rev.edit = kind = "jj" /\ k.saved.edit]
<1>1. Busy(p) /\ op[p].stage = "edit" /\ Step /\ SetCur(p, k2) /\ Goto(p, "overlay")
  BY DEF EditChange, At, Cur
<1>2. k \in Folders /\ Held(k, m) /\ KeepsWork(op[p], k, m)
  BY <1>1, AtWork
<1>3. Goes(p)
  BY <1>1, RelinkStep DEF Relinking, TypesInv
<1>4. OnlyTask(p, op[p].task)
  BY EditChangeTypes DEF TypesInv
<1>5. k2 \in Folders /\ k2.dir = k.dir /\ k2.backup = k.backup
  <2> HIDE DEF k
  <2> QED
    BY <1>2, EditFacts DEF TypesInv
<1> HIDE DEF k2
<1>6. op'[p].stage = "overlay"
  BY <1>1, GotoFacts DEF TypesInv, Stages
<1>7. Held(k2, m) /\ KeepsWork(op'[p], k2, m)
  BY <1>1, <1>2, <1>5, <1>6 DEF Held, KeepsWork
<1> QED
  BY <1>1, <1>3, <1>4, <1>5, <1>7, CurWork

LEMMA OverlayWork ==
  ASSUME TypesInv, TypesInv', Apart, Apart', WorkInv, NEW p \in Procs, Overlay(p)
  PROVE  WorkInv'
<1> DEFINE k == co[op[p].at]
           m == mine[op[p].at]
           rest == {i \in DOMAIN k.backup \ {"link"} : k.backup[i] # Gone}
<1>1. Busy(p) /\ op[p].stage = "overlay" /\ Step
  BY DEF Overlay, At
<1>2. k \in Folders /\ Held(k, m) /\ m \in [Items -> Contents] /\ KeepsWork(op[p], k, m)
  BY <1>1, AtWork
<1>3. Goes(p)
  BY <1>1, RelinkStep DEF Overlay, Relinking, TypesInv
<1>4. OnlyTask(p, op[p].task)
  BY OverlayTypes DEF TypesInv
<1>5. /\ Exists(k.dir) /\ Exists(k.backup)
      /\ \A e \in Entries : m[e] > Base /\ k.backup[e] # Gone => k.backup[e] = m[e]
  BY <1>1, <1>2 DEF KeepsWork
<1>6. rest = {i \in Items \ {"link"} : k.backup[i] # Gone}
  BY <1>2, <1>5, MoreDirFacts
<1>7. CASE rest # {}
  <2>1. PICK i \in rest : SetCur(p, MovedBack(k, i)) /\ op' = op
    BY <1>5, <1>7 DEF Overlay, Cur, MovedBack
  <2> DEFINE k2 == MovedBack(k, i)
  <2>2. i \in Items /\ k.backup[i] # Gone
    BY <1>6
  <2>9. k \in Folders /\ Exists(k.backup)
    BY <1>2, <1>5
  <2>3. /\ k2 \in Folders
        /\ k2.dir \in [Items -> Contents] /\ k2.dir[i] = k.backup[i]
        /\ \A j \in Items \ {i} : k2.dir[j] = IF Exists(k.dir) THEN k.dir[j] ELSE Gone
        /\ k2.backup \in [Items -> Contents] /\ k2.backup[i] = Gone
        /\ \A j \in Items \ {i} : k2.backup[j] = k.backup[j]
    BY <2>2, <2>9, MovedBackFacts
  <2>4. SetCur(p, k2)
    BY <2>1
  <2> HIDE DEF k2, rest
  <2>5. Exists(k2.dir) /\ Exists(k2.backup)
    BY <2>3, DirFacts
  <2>6. Held(k2, m)
    BY <1>2, <1>5, <2>2, <2>3, <2>5, DirFacts DEF Held
  <2>7. op'[p] # Idle => KeepsWork(op'[p], k2, m)
    BY <1>1, <1>5, <2>1, <2>2, <2>3, <2>5, DirFacts DEF KeepsWork
  <2> QED
    BY <1>1, <1>3, <1>4, <2>3, <2>4, <2>6, <2>7, CurWork
<1>8. CASE rest = {}
  <2> DEFINE k2 == [k EXCEPT !.backup = NoDir]
  <2>1. SetCur(p, k2) /\ Goto(p, "refresh")
    BY <1>5, <1>8 DEF Overlay, Cur
  <2>2. k2 \in Folders /\ k2.dir = k.dir /\ k2.backup = NoDir
    BY <1>2, DirFacts DEF Folders
  <2> HIDE DEF k2
  <2>3. \A e \in Entries : k.backup[e] = Gone
    BY <1>6, <1>8, DirFacts
  <2>4. Held(k2, m)
    BY <1>2, <2>2, <2>3 DEF Held, Gone, Base
  <2>5. op'[p].stage = "refresh"
    BY <1>1, <2>1, GotoFacts DEF TypesInv, Stages
  <2>6. KeepsWork(op'[p], k2, m)
    BY <2>5 DEF KeepsWork
  <2> QED
    BY <1>1, <1>3, <1>4, <2>1, <2>2, <2>4, <2>6, CurWork
<1> QED
  BY <1>7, <1>8

LEMMA DetachWork ==
  ASSUME TypesInv, TypesInv', Apart, Apart', WorkInv, NEW p \in Procs, Detach(p)
  PROVE  WorkInv'
<1> DEFINE k == co[op[p].at]
           m == mine[op[p].at]
<1>1. Busy(p) /\ op[p].stage = "detach" /\ Step
  BY DEF Detach, At
<1>2. k \in Folders /\ Held(k, m) /\ m \in [Items -> Contents] /\ op[p].what = "archive"
  BY <1>1, AtWork, StageOf DEF TypesInv
<1>3. Goes(p)
  BY <1>1, <1>2, StagesOfFacts DEF Detach, Goes
<1>4. OnlyTask(p, op[p].task)
  BY DetachTypes DEF TypesInv
<1>5. op'[p].stage \in {"forget", "each"}
  BY <1>1, GotoFacts DEF Detach, TypesInv, Stages, Infallible
<1>6. CASE Linked(k.dir) /\ kind = "jj"
  <2>1. SetCur(p, SaveTarget(k))
    BY <1>6 DEF Detach, Cur
  <2>2. SaveTarget(k) \in Folders /\ SaveTarget(k).dir = k.dir /\ SaveTarget(k).backup = k.backup
    BY <1>2, SaveTargetFacts
  <2>3. Held(SaveTarget(k), m) /\ KeepsWork(op'[p], SaveTarget(k), m)
    BY <1>2, <1>5, <2>2 DEF Held, KeepsWork
  <2> QED
    BY <1>1, <1>3, <1>4, <2>1, <2>2, <2>3, CurWork
<1>7. CASE ~(Linked(k.dir) /\ kind = "jj")
  <2> DEFINE d2 == IF Linked(k.dir) THEN [k.dir EXCEPT !["link"] = Gone] ELSE k.dir
             k2 == [k EXCEPT !.dir = d2]
  <2>1. SetCur(p, k2)
    BY <1>2, <1>7 DEF Detach, Cur, Folders
  <2>2. d2 \in Dirs /\ (Exists(k.dir) => Exists(d2)) /\ (Exists(k.dir) => \A e \in Entries : d2[e] = k.dir[e])
    <3>1. CASE Linked(k.dir)
      <4>1. k.dir \in [Items -> Contents] /\ Gone \in Contents
        BY <1>2, <3>1, DirFacts, CheckoutAssumption DEF Linked, Folders, Gone, Contents
      <4>2. d2 \in [Items -> Contents] /\ \A e \in Entries : d2[e] = k.dir[e]
        BY <3>1, <4>1, DirFacts
      <4> QED
        BY <4>2, DirFacts
    <3>2. CASE ~Linked(k.dir)
      BY <1>2, <3>2 DEF Folders
    <3> QED
      BY <3>1, <3>2
  <2> HIDE DEF d2
  <2>3. k2 \in Folders /\ k2.dir = d2 /\ k2.backup = k.backup
    BY <1>2, <2>2 DEF Folders
  <2> HIDE DEF k2
  <2>4. Held(k2, m) /\ KeepsWork(op'[p], k2, m)
    BY <1>2, <1>5, <2>2, <2>3 DEF Held, KeepsWork
  <2> QED
    BY <1>1, <1>3, <1>4, <2>1, <2>3, <2>4, CurWork
<1> QED
  BY <1>6, <1>7

LEMMA RemoveWork ==
  ASSUME TypesInv, TypesInv', Apart, Apart', WorkInv, NEW p \in Procs, Remove(p)
  PROVE  WorkInv'
<1> DEFINE k == co[op[p].at]
           m == mine[op[p].at]
           k2 == [k EXCEPT !.dir = NoDir, !.reg = @ /\ ~Linked(k.dir)]
<1>1. Busy(p) /\ op[p].stage = "remove" /\ Step /\ SetCur(p, k2) /\ Goto(p, "each")
  BY DEF Remove, At, Cur
<1>2. k \in Folders /\ op[p].what = "delete" /\ op[p].at \in OwnedBy(op[p].task)
  BY <1>1, StageOf DEF TypesInv, OwnedBy
<1>3. Goes(p)
  BY <1>1, <1>2, StagesOfFacts DEF Goes
<1>4. OnlyTask(p, op[p].task)
  BY RemoveTypes DEF TypesInv
<1>5. (k.reg /\ ~Linked(k.dir)) \in BOOLEAN
  BY DEF Linked, Exists
<1>6. k2 \in Folders
  BY <1>2, <1>5, DirFacts DEF Folders
<1>7. \A e \in Entries : m[e] = Gone
  BY <1>1, <1>2, AtWork DEF GivenUp
<1> HIDE DEF k2
<1>8. Held(k2, m)
  BY <1>7 DEF Held, Gone, Base
<1>9. op'[p].stage = "each"
  BY <1>1, GotoFacts DEF TypesInv, Stages, Infallible
<1>10. KeepsWork(op'[p], k2, m)
  BY <1>9 DEF KeepsWork
<1> QED
  BY <1>1, <1>3, <1>4, <1>6, <1>8, <1>10, CurWork

\* The steps between one directory and the next.
LEMMA IdleWork ==
  ASSUME TypesInv, TypesInv', Apart, Apart', WorkInv, NEW p \in Procs,
         \/ Container(p) \/ StopContainer(p) \/ RemoveContainer(p) \/ List(p) \/ Each(p)
         \/ Forget(p) \/ Check(p) \/ Refresh(p) \/ Reattached(p) \/ Commit(p)
  PROVE  WorkInv'
<1>1. OnlyTask(p, op[p].task)
  BY ContainerTypes, StopContainerTypes, RemoveContainerTypes, ListTypes, EachTypes, ForgetTypes, CheckTypes,
     RefreshTypes, ReattachedTypes, CommitTypes DEF TypesInv
<1> DEFINE Still ==
      /\ Busy(p) /\ mine' = mine
      /\ op'[p] # Idle => op'[p].what = op[p].what /\ op'[p].stage \notin Careful
      /\ \A c \in Checkouts : co'[c].dir = co[c].dir /\ co'[c].backup = co[c].backup
<1>2. \A c \in Checkouts : co[c] \in Folders
  BY DEF TypesInv, Types
<1>3. Busy(p) => op[p] \in Works /\ op[p].at \in Checkouts
  BY StageOf DEF TypesInv
<1>5. CASE StopContainer(p)
  <2>1. Busy(p) /\ Goto(p, IF op[p].what = "archive" THEN "list" ELSE "rm") /\ co' = co /\ mine' = mine
    BY <1>5 DEF StopContainer, At, NoFault
  <2>2. Still
    BY <2>1, GotoFacts DEF TypesInv, Stages, Careful
  <2> QED
    BY <1>1, <2>2, CarefulOnly, StillWork
<1>6. CASE RemoveContainer(p)
  <2>1. Busy(p) /\ Goto(p, "list") /\ co' = co /\ mine' = mine
    BY <1>6 DEF RemoveContainer, At, NoFault
  <2>2. Still
    BY <2>1, GotoFacts DEF TypesInv, Stages, Careful
  <2> QED
    BY <1>1, <2>2, CarefulOnly, StillWork
<1>7. CASE List(p)
  <2>1. Busy(p) /\ co' = co /\ mine' = mine
    BY <1>7 DEF List, At
  <2>2. op'[p] # Idle => op'[p].what = op[p].what /\ op'[p].stage \in {"last", "each"}
    <3>1. CASE Unnamed(op[p].task)
      BY <1>7, <2>1, <3>1, GotoFacts, EndFacts DEF List, TypesInv, Stages, Infallible
    <3>2. CASE ~Unnamed(op[p].task)
      <4>1. op' = [op EXCEPT ![p].left = OwnedCheckouts(op[p].task), ![p].stage = "each"]
        BY <1>7, <3>2 DEF List
      <4>2. op'[p].what = op[p].what /\ op'[p].stage = "each"
        BY <1>3, <2>1, <4>1 DEF TypesInv, Types, Works
      <4> QED
        BY <4>2
    <3> QED
      BY <3>1, <3>2
  <2>3. Still
    BY <2>1, <2>2 DEF Careful
  <2> QED
    BY <1>1, <2>3, CarefulOnly, StillWork
<1>8. CASE Each(p)
  <2>1. Busy(p) /\ co' = co /\ mine' = mine /\ op[p].stage = "each"
    BY <1>8 DEF Each, At, Step, NoFault
  <2>2. op'[p].what = op[p].what /\ op'[p].stage \in {"last", "detach", "recover", "remove"}
    <3>1. CASE op[p].left = {}
      BY <1>8, <2>1, <3>1, GotoFacts DEF Each, TypesInv, Stages
    <3>2. CASE op[p].left # {}
      <4>1. PICK c \in op[p].left :
              op' = [op EXCEPT ![p].left = @ \ {c}, ![p].at = c, ![p].stage = First[op[p].what]]
        BY <1>8, <3>2 DEF Each
      <4>2. op'[p].what = op[p].what /\ op'[p].stage = First[op[p].what]
        BY <1>3, <2>1, <4>1 DEF TypesInv, Types, Works
      <4>3. op[p].what \in {"archive", "restore", "delete"}
        BY <2>1, StageOf DEF TypesInv
      <4> QED
        BY <4>2, <4>3 DEF First
    <3> QED
      BY <3>1, <3>2
  <2>3. Still
    BY <2>1, <2>2 DEF Careful
  <2> QED
    BY <1>1, <2>3, CarefulOnly, StillWork
<1>9. CASE Forget(p)
  <2>1. Busy(p) /\ Goto(p, IF op[p].what = "archive" THEN "each" ELSE "rebackup") /\ mine' = mine
        /\ SetCur(p, [Cur(p) EXCEPT !.reg = FALSE])
    BY <1>9 DEF Forget, At, Step, NoFault
  <2>2. op'[p].what = op[p].what /\ op'[p].stage \notin Careful
    BY <2>1, GotoFacts DEF TypesInv, Stages, Infallible, Careful
  <2>3. \A c \in Checkouts : co'[c].dir = co[c].dir /\ co'[c].backup = co[c].backup
    BY <1>2, <1>3, <2>1 DEF SetCur, Cur, TypesInv, Types, Folders
  <2> QED
    BY <1>1, <2>1, <2>2, <2>3, CarefulOnly, StillWork
<1>10. CASE Check(p)
  <2>1. /\ Busy(p) /\ co' = co /\ mine' = mine
        /\ \E s \in {"done", "forget", "rebackup"} : Goto(p, s)
    BY <1>10 DEF Check, At, Step, NoFault
  <2>2. Still
    BY <2>1, GotoFacts DEF TypesInv, Stages, Infallible, Careful
  <2> QED
    BY <1>1, <2>2, CarefulOnly, StillWork
<1>11. CASE Refresh(p)
  <2>1. Busy(p) /\ Goto(p, "done") /\ mine' = mine
        /\ SetCur(p, IF kind = "jj" THEN SaveTarget(Cur(p)) ELSE Cur(p))
    BY <1>11 DEF Refresh, At, Step, NoFault
  <2>2. op'[p].what = op[p].what /\ op'[p].stage \notin Careful
    BY <2>1, GotoFacts DEF TypesInv, Stages, Infallible, Careful
  <2>3. \A c \in Checkouts : co'[c].dir = co[c].dir /\ co'[c].backup = co[c].backup
    BY <1>2, <1>3, <2>1, SaveTargetFacts DEF SetCur, Cur, TypesInv, Types
  <2> QED
    BY <1>1, <2>1, <2>2, <2>3, CarefulOnly, StillWork
<1>12. CASE Reattached(p)
  <2>1. Busy(p) /\ co' = co /\ mine' = mine /\ (End(p) \/ Goto(p, "each"))
    BY <1>12 DEF Reattached, At, Step, NoFault
  <2>2. Still
    BY <2>1, GotoFacts, EndFacts DEF TypesInv, Stages, Infallible, Careful
  <2> QED
    BY <1>1, <2>2, CarefulOnly, StillWork
<1>13. CASE Commit(p)
  <2>1. Busy(p) /\ co' = co /\ mine' = mine /\ End(p)
    BY <1>13 DEF Commit, At, NoFault
  <2>2. Still
    BY <2>1, EndFacts DEF TypesInv
  <2> QED
    BY <1>1, <2>2, CarefulOnly, StillWork
<1>14. CASE Container(p)
  <2>1. Still
    BY <1>14, EndFacts DEF Container, At, history, TypesInv
  <2> QED
    BY <1>1, <2>1, CarefulOnly, StillWork
<1> QED
  BY <1>5, <1>6, <1>7, <1>8, <1>9, <1>10, <1>11, <1>12, <1>13, <1>14

LEMMA LastWork ==
  ASSUME TypesInv, TypesInv', Apart, Apart', WorkInv, NEW p \in Procs, Last(p)
  PROVE  WorkInv'
<1> DEFINE t == op[p].task
<1>1. Busy(p) /\ op[p].stage = "last" /\ Goto(p, "commit") /\ mine' = mine
  BY DEF Last, At, NoFault
<1>2. OnlyTask(p, t)
  BY LastTypes DEF TypesInv
<1>3. op'[p].stage = "commit" /\ op'[p].what = op[p].what /\ op'[p].task = t
  BY <1>1, GotoFacts DEF TypesInv, Stages, Infallible
<1>4. ASSUME NEW c \in Checkouts, Owner[c] = t
      PROVE  Held(co'[c], mine'[c])
  <2>1. CASE op[p].what = "delete"
    <3>1. \A e \in Entries : mine[c][e] = Gone
      BY <1>1, <1>4, <2>1, AtWork DEF GivenUp, OwnedBy
    <3> QED
      BY <1>1, <3>1 DEF Held, Gone, Base
  <2>2. CASE op[p].what # "delete"
    <3>1. co'[c] = co[c]
      BY <2>2 DEF Last
    <3> QED
      BY <1>1, <3>1 DEF WorkInv, AllHeld
  <2> QED
    BY <2>1, <2>2
<1>5. KeepsWork(op'[p], co'[op'[p].at], mine'[op'[p].at])
  BY <1>3, CarefulOnly DEF Careful
<1>6. GivenUp(op[p])'
  BY <1>1, <1>3, AtWork DEF GivenUp
<1> QED
  BY <1>1, <1>2, <1>4, <1>5, <1>6, WorkStep

LEMMA ProvisionWork ==
  ASSUME TypesInv, TypesInv', Apart, Apart', WorkInv, NEW p \in Procs, Provision(p)
  PROVE  WorkInv'
<1> DEFINE k == co[op[p].at]
           m == mine[op[p].at]
<1>1. Busy(p) /\ op[p].stage = "provision"
  BY DEF Provision, At
<1>2. k \in Folders /\ Held(k, m) /\ op[p].what \in {"create", "add"} /\ op[p].at \in Checkouts
      /\ Owner[op[p].at] = op[p].task /\ k = Cur(p)
  BY <1>1, AtWork, StageOf DEF TypesInv, Cur
<1>3. OnlyTask(p, op[p].task)
  BY ProvisionTypes DEF TypesInv
<1>4. op'[p] # Idle => op'[p].stage = "container" /\ op'[p].what = op[p].what
  BY <1>1, GotoFacts, EndFacts DEF Provision, TypesInv, Stages
<1>5. op'[p] # Idle => KeepsWork(op'[p], co'[op'[p].at], mine'[op'[p].at]) /\ GivenUp(op[p])'
  BY <1>2, <1>4, CarefulOnly DEF Careful, GivenUp
<1>6. CASE Reusable(k) \/ (~Exists(k.dir) /\ CanAdd(k))
  <2>1. SetCur(p, Provisioned(p))
    BY <1>2, <1>6 DEF Provision
  <2>2. /\ Provisioned(p) \in Folders /\ Exists(Provisioned(p).dir) /\ Provisioned(p).backup = k.backup
        /\ Exists(k.dir) => \A i \in Items : k.dir[i] # Gone => Provisioned(p).dir[i] = k.dir[i]
    BY <1>1, <1>2, ProvisionFacts DEF TypesInv
  <2>3. co'[op[p].at] = Provisioned(p) /\ \A c \in Checkouts \ {op[p].at} : co'[c] = co[c]
    BY <1>1, <2>1, <2>2, SetCurFacts DEF TypesInv
  <2>4. mine'[op[p].at] = (IF Exists(k.dir) THEN m ELSE Provisioned(p).dir)
        /\ \A c \in Checkouts \ {op[p].at} : mine'[c] = mine[c]
    BY <1>2, <1>6, <2>3 DEF Provision, TypesInv, Types, Reusable, Linked
  <2>5. Held(co'[op[p].at], mine'[op[p].at])
    <3>1. CASE ~Exists(k.dir)
      BY <2>2, <2>3, <2>4, <3>1 DEF Held
    <3>2. CASE Exists(k.dir)
      BY <1>2, <2>2, <2>3, <2>4, <3>2, DirFacts DEF Held, Gone, Base
    <3> QED
      BY <3>1, <3>2
  <2>6. \A c \in Checkouts : Held(co'[c], mine'[c])
    BY <2>3, <2>4, <2>5 DEF WorkInv, AllHeld
  <2> QED
    BY <1>1, <1>3, <1>5, <2>6, WorkStep
<1>7. CASE ~(Reusable(k) \/ (~Exists(k.dir) /\ CanAdd(k)))
  <2>1. co' = co /\ mine' = mine
    BY <1>2, <1>7 DEF Provision
  <2> QED
    BY <1>1, <1>3, <1>5, <2>1, WorkStep DEF WorkInv, AllHeld
<1> QED
  BY <1>6, <1>7

\* What an operation begins as.
LEMMA BeginsOps ==
  ASSUME TypesInv, NEW p \in Procs, Begins(p)
  PROVE  \E what \in Operations, u \in Tasks, s \in {"provision", "stop", "list", "recover"}, c \in Checkouts :
         /\ op' = [op EXCEPT ![p] = [what |-> what, task |-> u, left |-> {}, at |-> c, stage |-> s]]
         /\ IF what = "delete"
            THEN mine' = [d \in Checkouts |-> IF Owner[d] = u THEN EmptyDir ELSE mine[d]]
            ELSE mine' = mine
<1>1. \A u \in Tasks : Primary[u] \in Checkouts
  BY CheckoutAssumption
<1>2. \A c \in Checkouts : Owner[c] \in Tasks
  BY CheckoutAssumption
<1>3. ASSUME NEW u \in Tasks, CreateTask(p, u) \/ Archive(p, u) \/ Restore(p, u) \/ OpenTerminal(p, u)
      PROVE  \E what \in Operations \ {"delete"}, s \in {"provision", "stop", "list", "recover"} :
               op' = [op EXCEPT ![p] = [what |-> what, task |-> u, left |-> {}, at |-> Primary[u], stage |-> s]]
               /\ mine' = mine
  BY <1>3 DEF CreateTask, Archive, Restore, OpenTerminal, Begin, Operations, history
<1>4. ASSUME NEW u \in Tasks, Delete(p, u)
      PROVE  /\ op' = [op EXCEPT ![p] = [what |-> "delete", task |-> u, left |-> {}, at |-> Primary[u], stage |-> "stop"]]
             /\ mine' = [d \in Checkouts |-> IF Owner[d] = u THEN EmptyDir ELSE mine[d]]
  BY <1>4 DEF Delete, Begin
<1>5. ASSUME NEW c \in Checkouts, AddSibling(p, c)
      PROVE  /\ op' = [op EXCEPT ![p] = [what |-> "add", task |-> Owner[c], left |-> {}, at |-> c, stage |-> "provision"]]
             /\ mine' = mine
  <2>1. [Begin("add", Owner[c], {}, "provision") EXCEPT !.at = c]
          = [what |-> "add", task |-> Owner[c], left |-> {}, at |-> c, stage |-> "provision"]
    BY DEF Begin
  <2>2. op' = [op EXCEPT ![p] = [Begin("add", Owner[c], {}, "provision") EXCEPT !.at = c]] /\ mine' = mine
    BY <1>5 DEF AddSibling, history
  <2> QED
    BY <2>1, <2>2
<1>6. "delete" \in Operations /\ "add" \in Operations
  BY DEF Operations
<1>7. CASE \E u \in Tasks : CreateTask(p, u) \/ Archive(p, u) \/ Restore(p, u) \/ OpenTerminal(p, u)
  BY <1>1, <1>3, <1>7
<1>8. CASE \E u \in Tasks : Delete(p, u)
  BY <1>1, <1>4, <1>6, <1>8
<1>9. CASE \E c \in Checkouts : AddSibling(p, c)
  BY <1>2, <1>5, <1>6, <1>9
<1> QED
  BY <1>7, <1>8, <1>9 DEF Begins

LEMMA BeginsWork ==
  ASSUME TypesInv, TypesInv', Apart, Apart', WorkInv, NEW p \in Procs, Begins(p)
  PROVE  WorkInv'
<1>1. PICK t \in Tasks : OnlyTask(p, t)
  BY BeginsTypes DEF TypesInv
<1>2. ~Busy(p) /\ co' = co
  BY DEF Begins, CreateTask, Archive, Restore, OpenTerminal, Delete, AddSibling
<1>4. PICK what \in Operations, u \in Tasks, s \in {"provision", "stop", "list", "recover"}, c \in Checkouts :
        /\ op' = [op EXCEPT ![p] = [what |-> what, task |-> u, left |-> {}, at |-> c, stage |-> s]]
        /\ IF what = "delete"
           THEN mine' = [d \in Checkouts |-> IF Owner[d] = u THEN EmptyDir ELSE mine[d]]
           ELSE mine' = mine
  BY BeginsOps
<1>5. op'[p] = [what |-> what, task |-> u, left |-> {}, at |-> c, stage |-> s]
  BY <1>4 DEF TypesInv, Types
<1>6. op'[p] # Idle
  BY <1>5 DEF Idle, Operations
<1>7. KeepsWork(op'[p], co'[op'[p].at], mine'[op'[p].at])
  BY <1>5 DEF KeepsWork
<1>8. GivenUp(op[p])'
  BY <1>4, <1>5, DirFacts DEF GivenUp, OwnedBy
<1>9. \A d \in Checkouts : Held(co'[d], mine'[d])
  <2>1. CASE what = "delete"
    BY <1>2, <1>4, <2>1, DirFacts DEF WorkInv, AllHeld, Held, Gone, Base
  <2>2. CASE what # "delete"
    BY <1>2, <1>4, <2>2 DEF WorkInv, AllHeld
  <2> QED
    BY <2>1, <2>2
<1> QED
  BY <1>1, <1>6, <1>7, <1>8, <1>9, WorkStep

LEMMA DieWork ==
  ASSUME TypesInv, TypesInv', Apart, Apart', WorkInv, NEW p \in Procs, Die(p)
  PROVE  WorkInv'
<1>1. Busy(p) /\ co' = co /\ mine' = mine /\ op'[p] = Idle
  BY EndFacts DEF Die, TypesInv
<1>2. OnlyTask(p, op[p].task)
  BY DieTypes DEF TypesInv
<1> QED
  BY <1>1, <1>2, StillWork

\* A failed command passes to a stage that relies on no more than its own did.
LEMMA PassedStages ==
  ASSUME NEW p \in Procs
  PROVE  LET s == PassedOver(p) IN
         /\ s \in Careful => \/ s = "rollback" /\ op[p].stage = "link"
                             \/ s = "overlay" /\ op[p].stage = "edit"
         /\ s # "given up" => s \in Stages
BY DEF PassedOver, Careful, Stages, Infallible

LEMMA FailWork ==
  ASSUME TypesInv, TypesInv', Apart, Apart', WorkInv, NEW p \in Procs, Fail(p)
  PROVE  WorkInv'
<1> DEFINE k == co[op[p].at]
           m == mine[op[p].at]
           s == PassedOver(p)
<1>1. Busy(p) /\ co' = co /\ mine' = mine /\ (End(p) \/ (s # "given up" /\ Goto(p, s)))
  BY DEF Fail
<1>2. OnlyTask(p, op[p].task)
  BY FailTypes DEF TypesInv
<1>3. k \in Folders /\ KeepsWork(op[p], k, m)
  BY <1>1, AtWork
<1>4. CASE End(p)
  BY <1>1, <1>2, <1>4, EndFacts, StillWork DEF TypesInv
<1>5. CASE s # "given up" /\ Goto(p, s)
  <2>1. s \in Stages
    BY <1>5, PassedStages
  <2>2. s \in Careful => \/ s = "rollback" /\ op[p].stage = "link"
                         \/ s = "overlay" /\ op[p].stage = "edit"
    BY PassedStages
  <2> HIDE DEF s
  <2>3. op'[p].stage = s /\ op'[p].what = op[p].what /\ op'[p].at = op[p].at
    BY <1>1, <1>5, <2>1, GotoFacts DEF TypesInv
  <2>4. CASE s \notin Careful
    BY <1>1, <1>2, <2>3, <2>4, CarefulOnly, StillWork
  <2>5. CASE s = "rollback" /\ op[p].stage = "link"
    <3>1. Exists(k.backup) /\ ~HasEntries(k.dir)
      BY <1>3, <2>5 DEF KeepsWork
    <3>2. Disjoint(k)
      BY <1>3, <3>1, MoreDirFacts DEF Disjoint
    <3>3. KeepsWork(op'[p], k, m)
      BY <2>3, <2>5, <3>1, <3>2 DEF KeepsWork
    <3> QED
      BY <1>1, <1>2, <2>3, <3>3, StillWork
  <2>6. CASE s = "overlay" /\ op[p].stage = "edit"
    <3>1. KeepsWork(op'[p], k, m)
      BY <1>3, <2>3, <2>6 DEF KeepsWork
    <3> QED
      BY <1>1, <1>2, <2>3, <3>1, StillWork
  <2> QED
    BY <2>2, <2>4, <2>5, <2>6
<1> QED
  BY <1>1, <1>4, <1>5

LEMMA UserEditWork ==
  ASSUME TypesInv, TypesInv', WorkInv, NEW c \in Checkouts, NEW e \in Entries, UserEdit(c, e)
  PROVE  WorkInv'
<1>1. /\ op' = op /\ \A d \in Checkouts \ {c} : co'[d] = co[d] /\ mine'[d] = mine[d]
      /\ Exists(co'[c].dir) /\ co'[c].backup = co[c].backup
      /\ co'[c].dir[e] = mine'[c][e]
      /\ \A i \in Items \ {e} : co'[c].dir[i] = co[c].dir[i] /\ mine'[c][i] = mine[c][i]
  BY UserEditFacts DEF TypesInv
<1>2. \A p \in Procs : Busy(p) => op[p].task # Owner[c]
  BY DEF UserEdit
<1>3. Exists(co[c].dir)
  BY DEF UserEdit
<1>4. Held(co'[c], mine'[c])
  BY <1>1, <1>3, DirFacts DEF WorkInv, AllHeld, Held
<1>5. AllHeld'
  BY <1>1, <1>4 DEF WorkInv, AllHeld
<1>6. ASSUME NEW p \in Procs, Busy(p)
      PROVE  KeepsWork(op[p], co'[op[p].at], mine'[op[p].at]) /\ GivenUp(op[p])'
  <2>1. op[p].at \in Checkouts /\ Owner[op[p].at] = op[p].task
    BY <1>6, StageOf DEF TypesInv
  <2>2. co'[op[p].at] = co[op[p].at] /\ mine'[op[p].at] = mine[op[p].at]
    BY <1>1, <1>2, <1>6, <2>1
  <2>3. \A d \in OwnedBy(op[p].task) : mine'[d] = mine[d]
    BY <1>1, <1>2, <1>6 DEF OwnedBy
  <2> QED
    BY <1>1, <1>6, <2>2, <2>3, AtWork DEF GivenUp
<1> QED
  BY <1>1, <1>5, <1>6 DEF WorkInv, WorkKept, Busy, Cur

LEMMA InitWork == Init => WorkInv
<1> SUFFICES ASSUME Init PROVE WorkInv
  OBVIOUS
<1>1. \A c \in Checkouts, e \in Entries : mine[c][e] = Gone
  BY DirFacts DEF Init
<1>2. AllHeld
  BY <1>1 DEF AllHeld, Held, Gone, Base
<1>3. WorkKept
  BY DEF WorkKept, Init, Busy
<1> QED
  BY <1>2, <1>3 DEF WorkInv

LEMMA NextWork ==
  ASSUME TypesInv, TypesInv', Apart, Apart', WorkInv, [Next]_vars
  PROVE  WorkInv'
<1>1. ASSUME NEW p \in Procs, Proceeds(p)
      PROVE  WorkInv'
  <2>1. CASE Relinks(p)
    BY <2>1, RecoverWork, MoveBackWork, PrepareWork, MoveOutWork, PruneWork, LinkWork, EditChangeWork,
       OverlayWork, IdleWork DEF Relinks
  <2> QED
    BY <1>1, <2>1, ProvisionWork, DetachWork, RemoveWork, LastWork, IdleWork DEF Proceeds
<1>2. CASE UNCHANGED vars
  BY <1>2 DEF vars, history, WorkInv, WorkKept, AllHeld, Busy, Cur, GivenUp
<1> QED
  BY <1>1, <1>2, BeginsWork, DieWork, FailWork, UserEditWork DEF Next

\* As long as no two operations are on one task at a time, whatever dies or fails and however often
\* a task is archived, restored or opened: the last edit of every file is in the checkout or in its
\* relink backup.
THEOREM WorkNeverLost == Spec /\ []Apart => []NoWorkLost
<1>1. TypesInv /\ TypesInv' /\ Apart /\ Apart' /\ WorkInv /\ [Next]_vars => WorkInv'
  BY NextWork
<1>2. WorkInv => NoWorkLost
  BY DEF WorkInv, AllHeld, Held, NoWorkLost
<1> QED
  BY <1>1, <1>2, InitWork, TypesHold, PTL DEF Spec

-----------------------------------------------------------------------------
(* The container follows its task. *)

\* What is true of a container while o is done with its task (Idle: nothing).
BoxRight(o, st, b) ==
    /\ st = "active" /\ ~(o # Idle /\ o.what \in {"archive", "delete"} /\ o.stage # "stop") => b = "running"
    /\ st = "archived" /\ ~(o # Idle /\ o.what = "restore" /\ o.stage = "commit") => b # "running"
    /\ o # Idle /\ o.what = "archive" /\ o.stage # "stop" => b # "running"
    /\ o # Idle /\ o.what = "restore" /\ o.stage = "commit" => b = "running"

Alone(t) == \A p \in Procs : Busy(p) => op[p].task # t
BoxInv ==
    \A t \in Isolated : OwnedBy(t) \cap hurt = {} =>
        /\ \A p \in Procs : Busy(p) /\ op[p].task = t => BoxRight(op[p], status[t], box[t])
        /\ Alone(t) => BoxRight(Idle, status[t], box[t])

LEMMA OwnedApart ==
  ASSUME NEW t \in Tasks
  PROVE  /\ OwnedBy(t) # {} /\ OwnedBy(t) \subseteq Checkouts
         /\ \A u \in Tasks \ {t} : OwnedBy(t) \cap OwnedBy(u) = {}
BY CheckoutAssumption DEF OwnedBy

\* A step on one task: the containers of the others are as right as they were.
LEMMA BoxStep ==
  ASSUME TypesInv, TypesInv', Apart, Apart', BoxInv, NEW p \in Procs, NEW t \in Tasks, OnlyTask(p, t),
         Busy(p) \/ op'[p] # Idle,
         t \in Isolated /\ OwnedBy(t) \cap hurt' = {} /\ BoxRight(op[p], status[t], box[t])
            => BoxRight(op'[p], status'[t], box'[t])
  PROVE  BoxInv'
<1>1. Isolated \subseteq Tasks
  BY CheckoutAssumption
<1>2. ASSUME NEW u \in Isolated, u # t, OwnedBy(u) \cap hurt' = {}
      PROVE  /\ \A q \in Procs : op'[q] # Idle /\ op'[q].task = u => BoxRight(op'[q], status'[u], box'[u])
             /\ (\A q \in Procs : op'[q] # Idle => op'[q].task # u) => BoxRight(Idle, status'[u], box'[u])
  <2>1. status'[u] = status[u] /\ box'[u] = box[u]
    BY <1>1, <1>2 DEF OnlyTask
  <2>2. OwnedBy(u) \cap hurt = {}
    BY <1>2 DEF OnlyTask
  <2>3. \A q \in Procs : (op'[q] # Idle /\ op'[q].task = u) <=> (op[q] # Idle /\ op[q].task = u)
    BY <1>2 DEF OnlyTask, Busy
  <2>4. \A q \in Procs : op'[q] # Idle /\ op'[q].task = u => op'[q] = op[q]
    BY <1>2 DEF OnlyTask, Busy
  <2> QED
    BY <2>1, <2>2, <2>3, <2>4 DEF BoxInv, Alone, Busy
<1>3. ASSUME t \in Isolated, OwnedBy(t) \cap hurt' = {}
      PROVE  /\ \A q \in Procs : op'[q] # Idle /\ op'[q].task = t => BoxRight(op'[q], status'[t], box'[t])
             /\ (\A q \in Procs : op'[q] # Idle => op'[q].task # t) => BoxRight(Idle, status'[t], box'[t])
  <2>1. OwnedBy(t) \cap hurt = {}
    BY <1>3 DEF OnlyTask
  <2>2. \A q \in Procs \ {p} : ~(op[q] # Idle /\ op[q].task = t)
    BY DEF Apart, OnlyTask, Busy
  <2>3. BoxRight(op[p], status[t], box[t])
    <3>1. CASE Busy(p)
      BY <1>3, <2>1, <3>1 DEF BoxInv, OnlyTask
    <3>2. CASE ~Busy(p)
      <4>1. Alone(t) /\ op[p] = Idle
        BY <2>2, <3>2 DEF Alone, Busy
      <4> QED
        BY <1>3, <2>1, <4>1 DEF BoxInv
    <3> QED
      BY <3>1, <3>2
  <2>4. BoxRight(op'[p], status'[t], box'[t])
    BY <1>3, <2>3
  <2>5. \A q \in Procs : op'[q] # Idle /\ op'[q].task = t => q = p
    BY <2>2 DEF OnlyTask
  <2>6. (\A q \in Procs : op'[q] # Idle => op'[q].task # t) => op'[p] = Idle
    BY DEF OnlyTask
  <2> QED
    BY <2>4, <2>5, <2>6
<1> QED
  BY <1>2, <1>3 DEF BoxInv, Alone, Busy

\* What a relink does with the operation.
LEMMA RelinksOps ==
  ASSUME TypesInv, NEW p \in Procs, Relinks(p)
  PROVE  /\ Busy(p) /\ Step
         /\ op[p].stage \in Relinking \ {"forget"} /\ op[p].what \in {"restore", "open"}
         /\ op' = op \/ End(p) \/ \E s \in Relinking \cup {"each"} : Goto(p, s)
<1>1. Busy(p) /\ Step /\ op[p].stage \in Relinking \ {"forget"}
  BY DEF Relinks, Recover, MoveBack, Check, Prepare, MoveOut, Prune, Link, EditChange, Overlay, Refresh,
     Reattached, At, Relinking
<1>2. op[p].what \in {"restore", "open"}
  BY <1>1, StageOf DEF TypesInv
<1> DEFINE Onward == op' = op \/ End(p) \/ \E s \in Relinking \cup {"each"} : Goto(p, s)
<1>3. Recover(p) => Onward
  BY DEF Recover, Relinking
<1>4. MoveBack(p) => Onward
  BY DEF MoveBack, Relinking
<1>5. Check(p) => Onward
  BY DEF Check, Relinking
<1>6. Prepare(p) => Onward
  BY DEF Prepare, Relinking
<1>7. MoveOut(p) => Onward
  BY DEF MoveOut, Relinking
<1>8. Prune(p) => Onward
  BY DEF Prune, Relinking
<1>9. Link(p) => Onward
  BY DEF Link, Relinking
<1>10. EditChange(p) => Onward
  BY DEF EditChange, Relinking
<1>11. Overlay(p) => Onward
  BY DEF Overlay, Relinking
<1>12. Refresh(p) => Onward
  BY DEF Refresh, Relinking
<1>13. Reattached(p) => Onward
  BY DEF Reattached, Relinking
<1> QED
  BY <1>1, <1>2, <1>3, <1>4, <1>5, <1>6, <1>7, <1>8, <1>9, <1>10, <1>11, <1>12, <1>13 DEF Relinks

\* Where the steps that are not of a relink take the operation.
LEMMA ProceedsOps ==
  ASSUME TypesInv, NEW p \in Procs,
         Provision(p) \/ List(p) \/ Each(p) \/ Detach(p) \/ Forget(p) \/ Remove(p)
  PROVE  /\ Busy(p) /\ status' = status /\ box' = box
         /\ op[p].stage \in {"provision", "list", "each", "detach", "forget", "remove"}
         /\ op'[p] # Idle => /\ op'[p].what = op[p].what
                             /\ op'[p].stage \in {"container", "last", "each", "forget", "rebackup", "detach", "recover", "remove"}
         /\ op'[p] = Idle => op[p].what \in {"create", "add", "restore"}
         /\ op'[p] # Idle /\ op'[p].stage = "rebackup" => op[p].stage = "forget"
<1> DEFINE Goal ==
       op'[p] # Idle => /\ op'[p].what = op[p].what
                        /\ op'[p].stage \in {"container", "last", "each", "forget", "rebackup", "detach", "recover", "remove"}
<1>1. Busy(p) /\ status' = status /\ box' = box
      /\ op[p].stage \in {"provision", "list", "each", "detach", "forget", "remove"}
  BY DEF Provision, List, Each, Detach, Forget, Remove, At, Running, Step
<1>2. op[p] \in Works /\ op[p].what \in Operations /\ Types
  BY <1>1, StageOf DEF TypesInv, Works
<1>3. {"container", "last", "each", "forget", "rebackup", "detach", "recover", "remove"} \subseteq Stages
  BY DEF Stages, Infallible
<1>4. CASE Provision(p)
  <2>1. op[p].what \in {"create", "add"}
    BY <1>1, <1>2, <1>4, StageOf DEF Provision, At, TypesInv
  <2>2. Goto(p, "container") \/ End(p)
    BY <1>4 DEF Provision
  <2> QED
    BY <1>1, <1>2, <1>3, <2>1, <2>2, GotoFacts, EndFacts
<1>5. CASE Detach(p) \/ Remove(p)
  <2>1. Goto(p, "each") \/ Goto(p, "forget")
    BY <1>5 DEF Detach, Remove
  <2> QED
    BY <1>1, <1>2, <1>3, <2>1, GotoFacts
<1>8. CASE Forget(p)
  <2>1. op[p].stage = "forget" /\ (Goto(p, "each") \/ Goto(p, "rebackup"))
    BY <1>8 DEF Forget, At
  <2> QED
    BY <1>1, <1>2, <1>3, <2>1, GotoFacts
<1>6. CASE List(p)
  <2>1. CASE Unnamed(op[p].task)
    <3>1. (op[p].what = "restore" /\ End(p)) \/ Goto(p, "last")
      BY <1>6, <2>1 DEF List
    <3> QED
      BY <1>1, <1>2, <1>3, <3>1, GotoFacts, EndFacts
  <2>2. CASE ~Unnamed(op[p].task)
    <3>1. op' = [op EXCEPT ![p].left = OwnedCheckouts(op[p].task), ![p].stage = "each"]
      BY <1>6, <2>2 DEF List
    <3>2. op'[p].what = op[p].what /\ op'[p].stage = "each"
      BY <1>2, <3>1 DEF Types, Works
    <3>3. op'[p] # Idle
      <4>1. op'[p].task = op[p].task /\ op[p].task \in Tasks
        BY <1>2, <3>1 DEF Types, Works
      <4>2. op'[p] = [op[p] EXCEPT !.left = OwnedCheckouts(op[p].task), !.stage = "each"]
        BY <3>1 DEF Types, TypesInv
      <4>3. DOMAIN op'[p] = DOMAIN op[p]
        BY <1>2, <4>2 DEF Works
      <4> QED
        BY <1>2, <3>2 DEF Works, Idle, Operations
    <3> QED
      BY <1>1, <3>2, <3>3
  <2> QED
    BY <2>1, <2>2
<1>7. CASE Each(p)
  <2>1. CASE op[p].left = {}
    <3>1. Goto(p, "last")
      BY <1>7, <2>1 DEF Each
    <3> QED
      BY <1>1, <1>2, <1>3, <3>1, GotoFacts
  <2>2. CASE op[p].left # {}
    <3>1. PICK c \in op[p].left :
            op' = [op EXCEPT ![p].left = @ \ {c}, ![p].at = c, ![p].stage = First[op[p].what]]
      BY <1>7, <2>2 DEF Each
    <3>2. op'[p].what = op[p].what /\ op'[p].stage = First[op[p].what]
      BY <1>2, <3>1 DEF Types, Works
    <3>3. op[p].what \in {"archive", "restore", "delete"}
      BY <1>1, <1>7, StageOf DEF Each, At, TypesInv
    <3>4. op'[p] # Idle
      BY <1>2, <3>2 DEF Idle, Operations
    <3> QED
      BY <1>1, <3>2, <3>3, <3>4 DEF First
  <2> QED
    BY <2>1, <2>2
<1> QED
  BY <1>4, <1>6, <1>7, <1>5, <1>8

LEMMA RelinksBox ==
  ASSUME TypesInv, TypesInv', Apart, Apart', BoxInv, NEW p \in Procs, Relinks(p)
  PROVE  BoxInv'
<1>1. /\ Busy(p) /\ status' = status /\ box' = box
      /\ op[p].stage \in Relinking \ {"forget"} /\ op[p].what \in {"restore", "open"}
      /\ op' = op \/ End(p) \/ \E s \in Relinking \cup {"each"} : Goto(p, s)
  BY RelinksOps DEF Step, Running
<1>2. OnlyTask(p, op[p].task) /\ op[p].task \in Tasks
  BY <1>1, RelinksTypes, StageOf DEF TypesInv
<1>3. op'[p] = Idle \/ (op'[p].what = op[p].what /\ op'[p].stage \in Relinking \cup {"each"})
  <2>1. Relinking \cup {"each"} \subseteq Stages
    BY DEF Relinking, Stages, Infallible
  <2> QED
    BY <1>1, <2>1, GotoFacts, EndFacts DEF TypesInv
<1>4. op[p].stage # "commit" /\ op'[p] # Idle => op'[p].stage # "commit"
  BY <1>1, <1>3 DEF Relinking
<1>5. BoxRight(op[p], status[op[p].task], box[op[p].task]) =>
        BoxRight(op'[p], status'[op[p].task], box'[op[p].task])
  BY <1>1, <1>3, <1>4 DEF BoxRight, Busy, Relinking
<1> QED
  BY <1>1, <1>2, <1>5, BoxStep

LEMMA ProceedsBox ==
  ASSUME TypesInv, TypesInv', Apart, Apart', BoxInv, NEW p \in Procs, Proceeds(p)
  PROVE  BoxInv'
<1> DEFINE t == op[p].task
<1>1. Busy(p) /\ OnlyTask(p, t) /\ op[p] \in Works /\ t \in Tasks
  BY ProceedsBusy, ProceedsTypes, StageOf DEF TypesInv
<1>2. SUFFICES ASSUME ~Relinks(p), t \in Isolated, BoxRight(op[p], status[t], box[t])
               PROVE  BoxRight(op'[p], status'[t], box'[t])
  BY <1>1, RelinksBox, BoxStep
<1>3. op[p] # Idle /\ status \in [Tasks -> {"none", "creating", "active", "archived", "deleted"}]
      /\ box \in [Tasks -> {"none", "stopped", "running"}] /\ Types
  BY <1>1 DEF Busy, TypesInv, Types
<1>4. CASE Provision(p) \/ List(p) \/ Each(p) \/ Detach(p) \/ Forget(p) \/ Remove(p)
  BY <1>2, <1>3, <1>4, ProceedsOps DEF BoxRight
<1>5. CASE Container(p)
  <2>1. op'[p] = Idle /\ op[p].what \in {"create", "add"}
    BY <1>1, <1>3, <1>5, EndFacts, StageOf DEF Container, At, TypesInv
  <2>2. CASE op[p].what = "add"
    BY <1>2, <1>3, <1>5, <2>1, <2>2 DEF Container, BoxRight
  <2>3. CASE op[p].what # "add"
    <3>1. box'[t] = "running" /\ status'[t] = "active"
      BY <1>1, <1>2, <1>3, <1>5, <2>3 DEF Container
    <3> QED
      BY <2>1, <3>1 DEF BoxRight
  <2> QED
    BY <2>2, <2>3
<1>6. CASE StopContainer(p)
  <2>1. box'[t] # "running" /\ status' = status
    BY <1>1, <1>3, <1>6 DEF StopContainer
  <2>2. op'[p] # Idle /\ op'[p].what = op[p].what /\ op'[p].stage \in {"list", "rm"}
    BY <1>1, <1>3, <1>6, GotoFacts DEF StopContainer, Stages
  <2>3. op[p].what \in {"archive", "delete"}
    BY <1>1, <1>6, StageOf DEF StopContainer, At, TypesInv
  <2> QED
    BY <2>1, <2>2, <2>3 DEF BoxRight
<1>7. CASE RemoveContainer(p)
  <2>1. box'[t] = "none" /\ status' = status
    BY <1>1, <1>3, <1>7 DEF RemoveContainer
  <2>2. op'[p] # Idle /\ op'[p].what = op[p].what /\ op'[p].stage = "list"
    BY <1>1, <1>3, <1>7, GotoFacts DEF RemoveContainer, Stages
  <2>3. op[p].what = "delete"
    BY <1>1, <1>7, StageOf DEF RemoveContainer, At, TypesInv
  <2> QED
    BY <2>1, <2>2, <2>3 DEF BoxRight
<1>8. CASE Last(p)
  <2>1. op'[p] # Idle /\ op'[p].what = op[p].what /\ op'[p].stage = "commit" /\ status' = status
    BY <1>1, <1>3, <1>8, GotoFacts DEF Last, Stages, Infallible
  <2>2. op[p].what \in {"archive", "restore", "delete"} /\ op[p].stage = "last"
    BY <1>1, <1>8, StageOf DEF Last, At, TypesInv
  <2>3. box'[t] = IF op[p].what = "restore" THEN "running" ELSE box[t]
    BY <1>1, <1>2, <1>3, <1>8 DEF Last
  <2> QED
    BY <1>2, <1>3, <2>1, <2>2, <2>3 DEF BoxRight
<1>9. CASE Commit(p)
  <2>1. op'[p] = Idle /\ box' = box
    BY <1>3, <1>9, EndFacts DEF Commit
  <2>2. op[p].what \in {"archive", "restore", "delete"} /\ op[p].stage = "commit"
    BY <1>1, <1>9, StageOf DEF Commit, At, TypesInv
  <2>3. status'[t] = Outcome[op[p].what]
    BY <1>1, <1>3, <1>9 DEF Commit
  <2> QED
    BY <1>2, <1>3, <2>1, <2>2, <2>3 DEF BoxRight, Outcome
<1> QED
  BY <1>2, <1>4, <1>5, <1>6, <1>7, <1>8, <1>9 DEF Proceeds

LEMMA BeginsBox ==
  ASSUME TypesInv, TypesInv', Apart, Apart', BoxInv, NEW p \in Procs, Begins(p)
  PROVE  BoxInv'
<1>1. op[p] = Idle /\ box' = box
  BY DEF Begins, CreateTask, Archive, Restore, OpenTerminal, Delete, AddSibling, Running, Busy
<1>2. status \in [Tasks -> {"none", "creating", "active", "archived", "deleted"}] /\ Types
  BY DEF TypesInv, Types
<1>3. \A u \in Tasks, what \in Operations, s \in Stages :
        Begin(what, u, {}, s) # Idle /\ Begin(what, u, {}, s).what = what /\ Begin(what, u, {}, s).stage = s
        /\ Begin(what, u, {}, s).task = u
  BY <1>2, BeginFacts
<1>4. \E t \in Tasks : OnlyTask(p, t)
  BY BeginsTypes DEF TypesInv
<1>5. PICK t \in Tasks : OnlyTask(p, t)
  BY <1>4
<1>6. op'[p] # Idle /\ (BoxRight(Idle, status[t], box[t]) => BoxRight(op'[p], status'[t], box'[t]))
  <2>1. ASSUME NEW u \in Tasks, CreateTask(p, u)
        PROVE  op'[p] # Idle /\ op'[p].what = "create" /\ op'[p].task = u /\ status'[u] = "creating"
    <3>1. op'[p] = Begin("create", u, {}, "provision") /\ status'[u] = "creating"
      BY <1>2, <2>1 DEF CreateTask, Types
    <3>2. "create" \in Operations /\ "provision" \in Stages
      BY DEF Operations, Stages
    <3> QED
      BY <1>3, <3>1, <3>2
  <2>2. ASSUME NEW u \in Tasks, Archive(p, u)
        PROVE  op'[p] # Idle /\ op'[p].what = "archive" /\ op'[p].stage = "stop" /\ op'[p].task = u /\ status' = status
    BY <1>2, <1>3, <2>2 DEF Archive, Operations, Stages, Running, Types
  <2>3. ASSUME NEW u \in Tasks, Restore(p, u)
        PROVE  op'[p] # Idle /\ op'[p].what = "restore" /\ op'[p].stage = "list" /\ op'[p].task = u /\ status' = status
    BY <1>2, <1>3, <2>3 DEF Restore, Operations, Stages, Running, Types
  <2>4. ASSUME NEW u \in Tasks, OpenTerminal(p, u)
        PROVE  op'[p] # Idle /\ op'[p].what = "open" /\ op'[p].task = u /\ status' = status
    BY <1>2, <1>3, <2>4 DEF OpenTerminal, Operations, Stages, Running, Types
  <2>5. ASSUME NEW u \in Tasks, Delete(p, u)
        PROVE  op'[p] # Idle /\ op'[p].what = "delete" /\ op'[p].stage = "stop" /\ op'[p].task = u /\ status' = status
    BY <1>2, <1>3, <2>5 DEF Delete, Operations, Stages, Running, Types
  <2>6. ASSUME NEW c \in Checkouts, AddSibling(p, c)
        PROVE  op'[p] # Idle /\ op'[p].what = "add" /\ status' = status
    <3>1. [Begin("add", Owner[c], {}, "provision") EXCEPT !.at = c].what = "add"
      BY DEF Begin
    <3>2. op'[p] = [Begin("add", Owner[c], {}, "provision") EXCEPT !.at = c] /\ status' = status
      BY <1>2, <2>6 DEF AddSibling, Running, Types
    <3>3. Idle \notin Works
      BY DEF Idle, Works, Operations
    <3>4. [Begin("add", Owner[c], {}, "provision") EXCEPT !.at = c] # Idle
      BY DEF Begin, Idle
    <3> QED
      BY <3>1, <3>2, <3>4
  <2>7. CASE \E u \in Tasks : CreateTask(p, u)
    BY <1>1, <1>5, <2>1, <2>7 DEF BoxRight, OnlyTask
  <2>8. CASE \E u \in Tasks : Archive(p, u) \/ Restore(p, u) \/ OpenTerminal(p, u) \/ Delete(p, u)
    BY <1>1, <1>5, <2>2, <2>3, <2>4, <2>5, <2>8 DEF BoxRight
  <2>9. CASE \E c \in Checkouts : AddSibling(p, c)
    BY <1>1, <2>6, <2>9 DEF BoxRight
  <2> QED
    BY <2>7, <2>8, <2>9 DEF Begins
<1> QED
  BY <1>1, <1>5, <1>6, BoxStep

LEMMA NextBox ==
  ASSUME TypesInv, TypesInv', Apart, Apart', BoxInv, [Next]_vars
  PROVE  BoxInv'
<1>1. ASSUME NEW p \in Procs, Die(p) \/ Fail(p)
      PROVE  BoxInv'
  <2>1. Busy(p) /\ OnlyTask(p, op[p].task) /\ op[p].task \in Tasks
    BY <1>1, DieTypes, FailTypes, StageOf DEF TypesInv, Die, Fail
  <2>2. hurt' = hurt \cup OwnedBy(op[p].task)
    BY <1>1 DEF Die, Fail, Hurt
  <2>3. ~(OwnedBy(op[p].task) \cap hurt' = {})
    BY <2>1, <2>2, OwnedApart
  <2> QED
    BY <2>1, <2>3, BoxStep
<1>2. ASSUME NEW c \in Checkouts, NEW e \in Entries, UserEdit(c, e)
      PROVE  BoxInv'
  <2>1. op' = op /\ status' = status /\ box' = box /\ hurt' = hurt
    BY <1>2, UserEditFacts DEF TypesInv
  <2> QED
    BY <2>1 DEF BoxInv, Alone, Busy
<1>3. CASE UNCHANGED vars
  BY <1>3 DEF vars, history, BoxInv, Alone, Busy
<1> QED
  BY <1>1, <1>2, <1>3, BeginsBox, ProceedsBox DEF Next

\* As long as no two operations are on one task at a time: the container of a task that no command
\* failed for runs while the task is active and does not while it is archived.
THEOREM ContainerRunsWithTask == Spec /\ []Apart => []ContainerFollows
<1>1. Init => BoxInv
  BY CheckoutAssumption DEF Init, BoxInv, BoxRight, Alone, Busy
<1>2. TypesInv /\ TypesInv' /\ Apart /\ Apart' /\ BoxInv /\ [Next]_vars => BoxInv'
  BY NextBox
<1>3. BoxInv => ContainerFollows
  <2>1. \A t \in Isolated : Owner[Primary[t]] = t
    BY CheckoutAssumption
  <2> QED
    BY <2>1 DEF BoxInv, BoxRight, ContainerFollows, Quiet, Alone
<1> QED
  BY <1>1, <1>2, <1>3, TypesHold, PTL DEF Spec

-----------------------------------------------------------------------------
(* Files come back as they were, when nothing failed. *)

Moving == {"moveback", "removeback", "rollback", "moveout", "prune", "link", "edit", "overlay"}

\* Every entry the user has is in the directory.
Whole(k, m) == \A e \in Entries : m[e] # Gone => Exists(k.dir) /\ k.dir[e] = m[e]
Tidy(k, m) == ~Exists(k.backup) /\ Whole(k, m)

\* Where the entries are while a relink has them in two places; a name is free before it is linked.
MovesWhole(o, k, m) ==
    /\ o.stage \notin {"moveback", "removeback", "rollback"}
    /\ o.stage = "moveout" =>
        \A e \in Entries : m[e] # Gone => (Exists(k.dir) /\ k.dir[e] = m[e]) \/ k.backup[e] = m[e]
    /\ o.stage \in {"prune", "link"} =>
        /\ \A e \in Entries : m[e] # Gone => k.backup[e] = m[e]
        /\ kind = "git" => ~Exists(k.dir)
    /\ o.stage \in {"edit", "overlay"} =>
        \A e \in Entries : m[e] # Gone => IF k.backup[e] # Gone THEN k.backup[e] = m[e] ELSE k.dir[e] = m[e]
    /\ o.stage = "link" \/ (kind = "jj" /\ o.stage \in {"rebackup", "prepare", "moveout"}) => ~k.reg
FilesAt(o, k, m) == MovesWhole(o, k, m) /\ (o.stage \notin Moving => Tidy(k, m))

FilesInv ==
    \A c \in Checkouts \ hurt :
        /\ \A p \in Procs : Busy(p) /\ op[p].at = c => FilesAt(op[p], co[c], mine[c])
        /\ (\A p \in Procs : Busy(p) => op[p].at # c) => Tidy(co[c], mine[c])

\* The checkouts of the task a process is on.
LEMMA FilesOf ==
  ASSUME TypesInv, Apart, FilesInv, NEW p \in Procs, Busy(p), NEW c \in Checkouts \ hurt, Owner[c] = op[p].task
  PROVE  /\ c = op[p].at => FilesAt(op[p], co[c], mine[c])
         /\ c # op[p].at => Tidy(co[c], mine[c])
         /\ op[p].stage \notin Moving => Tidy(co[c], mine[c])
<1>1. c # op[p].at => \A q \in Procs : Busy(q) => op[q].at # c
  BY DEF Apart, TypesInv, Assigned, OwnedBy
<1> QED
  BY <1>1 DEF FilesInv, FilesAt

LEMMA FilesStep ==
  ASSUME TypesInv, TypesInv', Apart, Apart', FilesInv, NEW p \in Procs, NEW t \in Tasks, OnlyTask(p, t),
         Busy(p) \/ op'[p] # Idle,
         \A c \in Checkouts \ hurt' : Owner[c] = t =>
            /\ op'[p] # Idle /\ op'[p].at = c => MovesWhole(op'[p], co'[c], mine'[c])
            /\ ~(op'[p] # Idle /\ op'[p].at = c /\ op'[p].stage \in Moving) => Tidy(co'[c], mine'[c])
  PROVE  FilesInv'
<1>1. hurt \subseteq hurt' /\ kind' = kind
  BY DEF OnlyTask
<1>2. ASSUME NEW c \in Checkouts \ hurt', Owner[c] = t
      PROVE  /\ \A q \in Procs : op'[q] # Idle /\ op'[q].at = c => FilesAt(op'[q], co'[c], mine'[c])
             /\ (\A q \in Procs : op'[q] # Idle => op'[q].at # c) => Tidy(co'[c], mine'[c])
  <2>1. \A q \in Procs : op'[q] # Idle /\ op'[q].at = c => q = p
    <3>1. \A q \in Procs : op'[q] # Idle => Owner[op'[q].at] = op'[q].task
      BY DEF TypesInv, Assigned, Busy, OwnedBy
    <3>2. \A q \in Procs \ {p} : op'[q] # Idle => op'[q].task # t
      BY DEF Apart, OnlyTask, Busy
    <3> QED
      BY <1>2, <3>1, <3>2
  <2>2. op'[p] # Idle /\ op'[p].at = c => FilesAt(op'[p], co'[c], mine'[c])
    BY <1>2 DEF FilesAt
  <2>3. (\A q \in Procs : op'[q] # Idle => op'[q].at # c) => Tidy(co'[c], mine'[c])
    BY <1>2
  <2> QED
    BY <2>1, <2>2, <2>3
<1>3. ASSUME NEW c \in Checkouts \ hurt', Owner[c] # t
      PROVE  /\ \A q \in Procs : op'[q] # Idle /\ op'[q].at = c => FilesAt(op'[q], co'[c], mine'[c])
             /\ (\A q \in Procs : op'[q] # Idle => op'[q].at # c) => Tidy(co'[c], mine'[c])
  <2>1. Untouched(c) /\ co[c] \in Folders
    BY <1>3 DEF OnlyTask, TypesInv, Types
  <2>2. \A q \in Procs : op'[q] # Idle /\ op'[q].at = c => op'[q] = op[q] /\ Busy(q)
    <3>1. \A q \in Procs : op'[q] # Idle => Owner[op'[q].at] = op'[q].task
      BY DEF TypesInv, Assigned, Busy, OwnedBy
    <3> QED
      BY <1>3, <3>1 DEF OnlyTask, Busy
  <2>3. \A q \in Procs : Busy(q) /\ op[q].at = c => op'[q] = op[q] /\ op'[q] # Idle
    <3>1. \A q \in Procs : Busy(q) => Owner[op[q].at] = op[q].task
      BY DEF TypesInv, Assigned, OwnedBy
    <3> QED
      BY <1>3, <3>1 DEF OnlyTask, Busy
  <2>4. \A q \in Procs : Busy(q) /\ op[q].at = c => FilesAt(op[q], co[c], mine[c])
    BY <1>1 DEF FilesInv
  <2>5. (\A q \in Procs : Busy(q) => op[q].at # c) => Tidy(co[c], mine[c])
    BY <1>1 DEF FilesInv
  <2>6. Tidy(co[c], mine[c]) => Tidy(co'[c], mine'[c])
    BY <2>1 DEF Untouched, Tidy, Whole
  <2>7. co'[c].reg => co[c].reg
    BY <2>1 DEF Untouched
  <2>8. ASSUME NEW q \in Procs, Busy(q), op[q].at = c
        PROVE  FilesAt(op[q], co'[c], mine'[c])
    BY <1>1, <2>1, <2>3, <2>4, <2>6, <2>7, <2>8 DEF FilesAt, MovesWhole, Untouched, Tidy, Whole
  <2> QED
    BY <2>2, <2>3, <2>5, <2>6, <2>8
<1>4. \A q \in Procs, c \in Checkouts :
        FilesAt(op'[q], co'[c], mine'[c]) <=> FilesAt(op[q], co[c], mine[c])'
  BY <1>1 DEF FilesAt, MovesWhole
<1>5. \A c \in Checkouts : Tidy(co'[c], mine'[c]) <=> Tidy(co[c], mine[c])'
  BY DEF Tidy, Whole
<1> QED
  BY <1>2, <1>3, <1>4, <1>5 DEF FilesInv, Busy

\* A step on the checkout that the operation is at.
LEMMA CurFiles ==
  ASSUME TypesInv, TypesInv', Apart, Apart', FilesInv, NEW p \in Procs, Busy(p), OnlyTask(p, op[p].task),
         Goes(p), Step, NEW k \in Folders, SetCur(p, k) \/ (co' = co /\ k = co[op[p].at]),
         op[p].at \notin hurt =>
            /\ op'[p] # Idle => MovesWhole(op'[p], k, mine[op[p].at])
            /\ ~(op'[p] # Idle /\ op'[p].stage \in Moving) => Tidy(k, mine[op[p].at])
  PROVE  FilesInv'
<1>1. mine' = mine /\ hurt' = hurt /\ op[p].task \in Tasks
  BY StageOf DEF Step, NoFault, TypesInv
<1>2. co'[op[p].at] = k /\ \A c \in Checkouts \ {op[p].at} : co'[c] = co[c]
  BY SetCurFacts DEF TypesInv
<1>3. op'[p] # Idle => op'[p].at = op[p].at
  BY OpStep DEF TypesInv
<1>4. \A c \in Checkouts \ hurt : Owner[c] = op[p].task /\ c # op[p].at => Tidy(co'[c], mine'[c])
  BY <1>1, <1>2, FilesOf
<1> QED
  BY <1>1, <1>2, <1>3, <1>4, FilesStep

\* A step from one quiet stage to another.
LEMMA StillFiles ==
  ASSUME TypesInv, TypesInv', Apart, Apart', FilesInv, NEW p \in Procs, Busy(p), OnlyTask(p, op[p].task),
         op[p].stage \notin Moving,
         op'[p] # Idle => op'[p].stage \notin Moving \cup {"rebackup", "prepare"},
         \A c \in Checkouts \ hurt' : Owner[c] = op[p].task /\ Tidy(co[c], mine[c]) => Tidy(co'[c], mine'[c])
  PROVE  FilesInv'
<1>1. hurt \subseteq hurt' /\ op[p].task \in Tasks
  BY StageOf DEF OnlyTask, TypesInv
<1>2. \A c \in Checkouts \ hurt' : Owner[c] = op[p].task => Tidy(co'[c], mine'[c])
  BY <1>1, FilesOf
<1>3. ASSUME op'[p] # Idle, NEW c
      PROVE  MovesWhole(op'[p], co'[c], mine'[c])
  BY <1>3 DEF MovesWhole, Moving
<1> QED
  BY <1>1, <1>2, <1>3, FilesStep

LEMMA AtFiles ==
  ASSUME TypesInv, Apart, FilesInv, WorkInv, NEW p \in Procs, Busy(p)
  PROVE  LET k == co[op[p].at]
             m == mine[op[p].at] IN
         /\ k \in Folders /\ m \in [Items -> Contents] /\ KeepsWork(op[p], k, m)
         /\ op[p].at \notin hurt => FilesAt(op[p], k, m)
<1>1. op[p].at \in Checkouts /\ Owner[op[p].at] = op[p].task
  BY StageOf DEF TypesInv
<1> QED
  BY <1>1, AtWork, FilesOf

FilesBefore == TypesInv /\ TypesInv' /\ Apart /\ Apart' /\ WorkInv /\ FilesInv

LEMMA RecoverFiles ==
  ASSUME FilesBefore, NEW p \in Procs, Recover(p)
  PROVE  FilesInv'
<1> USE DEF FilesBefore
<1> DEFINE k == co[op[p].at]
           m == mine[op[p].at]
           next == IF op[p].stage = "recover" THEN "check" ELSE "prepare"
<1>1. Busy(p) /\ op[p].stage \in {"recover", "rebackup"} /\ Step
  BY DEF Recover, At
<1>2. k \in Folders /\ (op[p].at \notin hurt => FilesAt(op[p], k, m))
  BY <1>1, AtFiles
<1>3. Goes(p) /\ OnlyTask(p, op[p].task)
  BY <1>1, RelinkStep, RecoverTypes DEF Recover, Relinking, TypesInv
<1>4. CASE Exists(k.backup)
  <2>1. op[p].at \in hurt
    BY <1>1, <1>2, <1>4 DEF FilesAt, Tidy, Moving
  <2>2. \E k2 \in Folders : SetCur(p, k2) \/ (co' = co /\ k2 = k)
    <3>1. [k EXCEPT !.backup = NoDir] \in Folders /\ [k EXCEPT !.dir = EmptyDir] \in Folders
      BY <1>2, DirFacts DEF Folders
    <3> QED
      BY <1>2, <3>1 DEF Recover, Cur
  <2> QED
    BY <1>1, <1>3, <2>1, <2>2, CurFiles
<1>5. CASE ~Exists(k.backup)
  <2>1. co' = co /\ Goto(p, next)
    BY <1>5 DEF Recover, Cur
  <2>2. next \in {"check", "prepare"} /\ next \in Stages
    BY DEF Stages, Infallible
  <2>3. op'[p].stage = next
    BY <1>1, <2>1, <2>2, GotoFacts DEF TypesInv
  <2>4. op[p].at \notin hurt => Tidy(k, m) /\ MovesWhole(op'[p], k, m)
    BY <1>1, <1>2, <2>3 DEF FilesAt, MovesWhole, Moving
  <2> HIDE DEF next
  <2>5. ~(op'[p].stage \in Moving)
    BY <2>2, <2>3 DEF Moving
  <2> QED
    BY <1>1, <1>2, <1>3, <2>1, <2>4, <2>5, CurFiles
<1> QED
  BY <1>4, <1>5

LEMMA MoveBackFiles ==
  ASSUME FilesBefore, NEW p \in Procs, MoveBack(p)
  PROVE  FilesInv'
<1> USE DEF FilesBefore
<1> DEFINE k == co[op[p].at]
<1>1. Busy(p) /\ op[p].stage \in {"moveback", "removeback", "rollback"} /\ Step
  BY DEF MoveBack, At
<1>2. k \in Folders /\ Exists(k.backup) /\ op[p].at \in hurt
  BY <1>1, AtFiles DEF FilesAt, MovesWhole, KeepsWork
<1>3. Goes(p) /\ OnlyTask(p, op[p].task)
  BY <1>1, RelinkStep, MoveBackTypes DEF MoveBack, Relinking, TypesInv
<1>4. \E k2 \in Folders : SetCur(p, k2)
  <2>1. CASE HasEntries(k.backup)
    <3>1. PICK i \in Items : SetCur(p, MovedBack(k, i))
      BY <2>1 DEF MoveBack, Cur, MovedBack
    <3> QED
      BY <1>2, <3>1, MovedBackFacts
  <2>2. CASE ~HasEntries(k.backup)
    <3>1. [k EXCEPT !.backup = NoDir] \in Folders
      BY <1>2, DirFacts DEF Folders
    <3> QED
      BY <2>2, <3>1 DEF MoveBack, Cur
  <2> QED
    BY <2>1, <2>2
<1> QED
  BY <1>1, <1>2, <1>3, <1>4, CurFiles

LEMMA CheckFiles ==
  ASSUME FilesBefore, NEW p \in Procs, Check(p)
  PROVE  FilesInv'
<1> USE DEF FilesBefore
<1> DEFINE k == co[op[p].at]
           m == mine[op[p].at]
           s == IF Attached(k) THEN "done" ELSE IF kind = "jj" /\ k.reg THEN "forget" ELSE "rebackup"
<1>1. Busy(p) /\ op[p].stage = "check" /\ Step /\ co' = co /\ Goto(p, s)
  BY DEF Check, At, Cur
<1>2. k \in Folders /\ (op[p].at \notin hurt => FilesAt(op[p], k, m))
  BY <1>1, AtFiles
<1>3. Goes(p) /\ OnlyTask(p, op[p].task)
  BY <1>1, RelinkStep, CheckTypes DEF Relinking, TypesInv
<1>4. s \in Stages /\ s \in {"done", "forget", "rebackup"} /\ (kind = "jj" /\ s = "rebackup" => ~k.reg)
  BY DEF Stages, Infallible
<1> HIDE DEF s
<1>5. op'[p].stage = s
  BY <1>1, <1>4, GotoFacts DEF TypesInv
<1>6. op[p].at \notin hurt => Tidy(k, m) /\ MovesWhole(op'[p], k, m)
  BY <1>1, <1>2, <1>4, <1>5 DEF FilesAt, MovesWhole, Moving
<1> QED
  BY <1>1, <1>2, <1>3, <1>6, CurFiles

LEMMA ForgetFiles ==
  ASSUME FilesBefore, NEW p \in Procs, Forget(p)
  PROVE  FilesInv'
<1> USE DEF FilesBefore
<1> DEFINE k == co[op[p].at]
           m == mine[op[p].at]
           k2 == [k EXCEPT !.reg = FALSE]
           s == IF op[p].what = "archive" THEN "each" ELSE "rebackup"
<1>1. Busy(p) /\ op[p].stage = "forget" /\ Step /\ SetCur(p, k2) /\ Goto(p, s)
  BY DEF Forget, At, Cur
<1>2. k \in Folders /\ (op[p].at \notin hurt => FilesAt(op[p], k, m))
  BY <1>1, AtFiles
<1>3. OnlyTask(p, op[p].task) /\ op[p].what \in {"archive", "restore", "open"}
  BY <1>1, StageOf, ForgetTypes DEF TypesInv
<1>4. Goes(p)
  BY <1>1, <1>3, StagesOfFacts DEF Goes, Relinking
<1>5. k2 \in Folders /\ k2.dir = k.dir /\ k2.backup = k.backup /\ ~k2.reg
  BY <1>2 DEF Folders
<1>6. s \in {"each", "rebackup"} /\ s \in Stages
  BY DEF Stages, Infallible
<1> HIDE DEF s, k2
<1>7. op'[p].stage = s
  BY <1>1, <1>6, GotoFacts DEF TypesInv
<1>8. op[p].at \notin hurt => Tidy(k2, m) /\ MovesWhole(op'[p], k2, m)
  BY <1>1, <1>2, <1>5, <1>6, <1>7 DEF FilesAt, MovesWhole, Moving, Tidy, Whole
<1> QED
  BY <1>1, <1>3, <1>4, <1>5, <1>8, CurFiles

LEMMA PrepareFiles ==
  ASSUME FilesBefore, NEW p \in Procs, Prepare(p)
  PROVE  FilesInv'
<1> USE DEF FilesBefore
<1> DEFINE k == co[op[p].at]
           m == mine[op[p].at]
           k2 == [k EXCEPT !.backup = EmptyDir]
<1>1. Busy(p) /\ op[p].stage = "prepare" /\ Step
  BY DEF Prepare, At
<1>2. k \in Folders /\ (op[p].at \notin hurt => FilesAt(op[p], k, m))
  BY <1>1, AtFiles
<1>3. Goes(p) /\ OnlyTask(p, op[p].task)
  BY <1>1, RelinkStep, PrepareTypes DEF Prepare, Relinking, TypesInv
<1>4. k2 \in Folders /\ k2.dir = k.dir /\ k2.backup = EmptyDir /\ k2.reg = k.reg
  BY <1>2, DirFacts DEF Folders
<1> HIDE DEF k2
<1>5. CASE HasEntries(k.backup) /\ HasEntries(k.dir)
  <2>1. Exists(k.backup)
    BY <1>2, <1>5, MoreDirFacts
  <2>2. op[p].at \in hurt
    BY <1>1, <1>2, <2>1 DEF FilesAt, Tidy, Moving
  <2>3. co' = co
    BY <1>5 DEF Prepare, Cur
  <2> QED
    BY <1>1, <1>2, <1>3, <2>2, <2>3, CurFiles
<1>6. CASE ~(HasEntries(k.backup) /\ HasEntries(k.dir))
  <2>1. SetCur(p, k2) /\ Goto(p, "moveout")
    BY <1>6 DEF Prepare, Cur, k2
  <2>2. op'[p].stage = "moveout"
    BY <1>1, <2>1, GotoFacts DEF TypesInv, Stages
  <2>3. op[p].at \notin hurt => MovesWhole(op'[p], k2, m)
    BY <1>1, <1>2, <1>4, <2>2 DEF FilesAt, MovesWhole, Moving, Tidy, Whole
  <2>4. op'[p] # Idle
    BY <1>1, <2>1, GotoFacts DEF TypesInv, Stages
  <2> QED
    BY <1>1, <1>3, <1>4, <2>1, <2>2, <2>3, <2>4, CurFiles DEF Moving
<1> QED
  BY <1>5, <1>6

LEMMA MoveOutFiles ==
  ASSUME FilesBefore, NEW p \in Procs, MoveOut(p)
  PROVE  FilesInv'
<1> USE DEF FilesBefore
<1> DEFINE k == co[op[p].at]
           m == mine[op[p].at]
<1>1. Busy(p) /\ op[p].stage = "moveout" /\ Step
  BY DEF MoveOut, At
<1>2. k \in Folders /\ Exists(k.backup) /\ (op[p].at \notin hurt => FilesAt(op[p], k, m))
  BY <1>1, AtFiles DEF KeepsWork
<1>3. Goes(p) /\ OnlyTask(p, op[p].task)
  BY <1>1, RelinkStep, MoveOutTypes DEF MoveOut, Relinking, TypesInv
<1>4. op[p].at \notin hurt =>
        /\ \A e \in Entries : m[e] # Gone => (Exists(k.dir) /\ k.dir[e] = m[e]) \/ k.backup[e] = m[e]
        /\ kind = "jj" => ~k.reg
  BY <1>1, <1>2 DEF FilesAt, MovesWhole
<1>5. Disjoint(k)
  BY <1>1, AtFiles DEF KeepsWork
<1>6. CASE HasEntries(k.dir)
  <2>1. PICK i \in Items : SetCur(p, MovedOut(k, i)) /\ k.dir[i] # Gone /\ op' = op
    BY <1>2, <1>6 DEF MoveOut, Cur, MovedOut
  <2>2. Exists(k.dir)
    BY <1>2, <1>6, MoreDirFacts
  <2> DEFINE k2 == MovedOut(k, i)
  <2>3. /\ k2 \in Folders /\ k2.reg = k.reg
        /\ k2.backup \in [Items -> Contents] /\ k2.backup[i] = k.dir[i]
        /\ \A j \in Items \ {i} : k2.backup[j] = k.backup[j]
        /\ k2.dir \in [Items -> Contents] /\ k2.dir[i] = Gone
        /\ \A j \in Items \ {i} : k2.dir[j] = k.dir[j]
    BY <1>2, <2>2, MovedOutFacts
  <2>4. SetCur(p, k2)
    BY <2>1
  <2> HIDE DEF k2
  <2>5. op[p].at \notin hurt => MovesWhole(op'[p], k2, m)
    <3>1. Exists(k2.dir)
      BY <2>3, DirFacts
    <3>2. op[p].at \notin hurt =>
            \A e \in Entries : m[e] # Gone => k2.dir[e] = m[e] \/ k2.backup[e] = m[e]
      BY <1>4, <1>5, <2>1, <2>2, <2>3, <1>2, DirFacts DEF Disjoint
    <3> QED
      BY <1>1, <1>4, <2>1, <2>3, <3>1, <3>2 DEF MovesWhole
  <2>6. op'[p] # Idle /\ op'[p].stage \in Moving
    BY <1>1, <2>1 DEF Busy, Moving
  <2> QED
    BY <1>1, <1>3, <2>3, <2>4, <2>5, <2>6, CurFiles
<1>7. CASE ~HasEntries(k.dir)
  <2> DEFINE k2 == IF kind = "git" THEN [k EXCEPT !.dir = NoDir] ELSE k
             s == IF kind = "git" THEN "prune" ELSE "link"
  <2>1. SetCur(p, k2) /\ Goto(p, s)
    BY <1>7 DEF MoveOut, Cur
  <2>2. k2 \in Folders /\ k2.backup = k.backup /\ k2.reg = k.reg /\ (kind = "git" => k2.dir = NoDir)
    BY <1>2, DirFacts DEF Folders
  <2>3. s \in {"prune", "link"} /\ s \in Stages /\ (s = "link" => kind = "jj")
    BY DEF Stages, TypesInv, Types
  <2> HIDE DEF k2, s
  <2>4. Exists(k.dir) => \A e \in Entries : k.dir[e] = Gone
    BY <1>2, <1>7, MoreDirFacts, DirFacts
  <2>5. op'[p].stage = s /\ op'[p] # Idle
    BY <1>1, <2>1, <2>3, GotoFacts DEF TypesInv
  <2>6. op[p].at \notin hurt => MovesWhole(op'[p], k2, m)
    BY <1>4, <2>2, <2>3, <2>4, <2>5, DirFacts DEF MovesWhole
  <2> QED
    BY <1>1, <1>3, <2>1, <2>2, <2>3, <2>5, <2>6, CurFiles DEF Moving
<1> QED
  BY <1>6, <1>7

LEMMA PruneFiles ==
  ASSUME FilesBefore, NEW p \in Procs, Prune(p)
  PROVE  FilesInv'
<1> USE DEF FilesBefore
<1> DEFINE k == co[op[p].at]
           m == mine[op[p].at]
<1>1. Busy(p) /\ op[p].stage = "prune" /\ Step /\ co' = Pruned(co) /\ Goto(p, "link")
      /\ mine' = mine /\ hurt' = hurt
  BY DEF Prune, At, Step, NoFault
<1>2. k \in Folders /\ (op[p].at \notin hurt => FilesAt(op[p], k, m)) /\ KeepsWork(op[p], k, m)
  BY <1>1, AtFiles
<1>3. OnlyTask(p, op[p].task) /\ op[p].task \in Tasks /\ op[p].at \in Checkouts
  BY <1>1, StageOf, PruneTypes DEF TypesInv
<1>4. \A c \in Checkouts : co'[c].dir = co[c].dir /\ co'[c].backup = co[c].backup /\ (co'[c].reg <=> Attached(co[c]))
  BY <1>1, PrunedFacts DEF TypesInv, Types
<1>5. op'[p] # Idle /\ op'[p].stage = "link" /\ op'[p].at = op[p].at
  BY <1>1, GotoFacts DEF TypesInv, Stages
<1>6. ~co'[op[p].at].reg
  <2>1. ~HasEntries(k.dir)
    BY <1>1, <1>2 DEF KeepsWork
  <2>2. ~Linked(k.dir)
    BY <1>2, <2>1, MoreDirFacts, DirFacts DEF Linked
  <2> QED
    BY <1>3, <1>4, <2>2 DEF Attached
<1>7. op[p].at \notin hurt => MovesWhole(op'[p], co'[op[p].at], m)
  BY <1>1, <1>2, <1>3, <1>4, <1>5, <1>6 DEF FilesAt, MovesWhole
<1>8. \A c \in Checkouts \ hurt : Owner[c] = op[p].task /\ c # op[p].at => Tidy(co'[c], mine'[c])
  <2>1. \A c \in Checkouts \ hurt : Owner[c] = op[p].task /\ c # op[p].at => Tidy(co[c], mine[c])
    BY <1>1, FilesOf
  <2> QED
    BY <1>1, <1>4, <2>1 DEF Tidy, Whole
<1> QED
  BY <1>1, <1>3, <1>5, <1>7, <1>8, FilesStep DEF Moving

LEMMA LinkFiles ==
  ASSUME FilesBefore, NEW p \in Procs, Link(p)
  PROVE  FilesInv'
<1> USE DEF FilesBefore
<1> DEFINE k == co[op[p].at]
           m == mine[op[p].at]
<1>1. Busy(p) /\ op[p].stage = "link" /\ Step
  BY DEF Link, At
<1>2. k \in Folders /\ (op[p].at \notin hurt => FilesAt(op[p], k, m)) /\ KeepsWork(op[p], k, m)
  BY <1>1, AtFiles
<1>3. Goes(p) /\ OnlyTask(p, op[p].task)
  BY <1>1, RelinkStep, LinkTypes DEF Link, Relinking, TypesInv
<1>4. op[p].at \notin hurt =>
        /\ \A e \in Entries : m[e] # Gone => k.backup[e] = m[e]
        /\ kind = "git" => ~Exists(k.dir)
        /\ ~k.reg
  BY <1>1, <1>2 DEF FilesAt, MovesWhole
<1>5. ~HasEntries(k.dir)
  BY <1>1, <1>2 DEF KeepsWork
<1>6. CASE CanAdd(k)
  <2> DEFINE k2 == Add(k, RestoreBase(k))
  <2>1. SetCur(p, k2) /\ Goto(p, "edit")
    BY <1>6 DEF Link, Cur
  <2>2. k2 \in Folders /\ k2.dir = Fresh /\ k2.backup = k.backup
    BY <1>2, RestoreBaseFacts, AddFacts
  <2> HIDE DEF k2
  <2>3. op'[p].stage = "edit" /\ op'[p] # Idle
    BY <1>1, <2>1, GotoFacts DEF TypesInv, Stages
  <2>4. op[p].at \notin hurt => MovesWhole(op'[p], k2, m)
    <3>1. op[p].at \notin hurt =>
            \A e \in Entries : m[e] # Gone => IF k2.backup[e] # Gone THEN k2.backup[e] = m[e] ELSE k2.dir[e] = m[e]
      BY <1>4, <2>2
    <3> HIDE DEF k, m
    <3> QED
      BY <2>3, <3>1 DEF MovesWhole
  <2> QED
    BY <1>1, <1>3, <2>1, <2>2, <2>3, <2>4, CurFiles DEF Moving
<1>7. CASE ~CanAdd(k)
  <2>1. op[p].at \in hurt
    <3>1. kind \in {"git", "jj"}
      BY DEF TypesInv, Types
    <3> QED
      BY <1>4, <1>5, <1>7, <3>1 DEF CanAdd
  <2>2. co' = co
    BY <1>7 DEF Link, Cur
  <2> QED
    BY <1>1, <1>2, <1>3, <2>1, <2>2, CurFiles
<1> QED
  BY <1>6, <1>7

LEMMA EditChangeFiles ==
  ASSUME FilesBefore, NEW p \in Procs, EditChange(p)
  PROVE  FilesInv'
<1> USE DEF FilesBefore
<1> DEFINE k == co[op[p].at]
           m == mine[op[p].at]
           k2 == [k EXCEPT !.rev.edit = kind = "jj" /\ k.saved.edit]
<1>1. Busy(p) /\ op[p].stage = "edit" /\ Step /\ SetCur(p, k2) /\ Goto(p, "overlay")
  BY DEF EditChange, At, Cur
<1>2. k \in Folders /\ (op[p].at \notin hurt => FilesAt(op[p], k, m))
  BY <1>1, AtFiles
<1>3. Goes(p) /\ OnlyTask(p, op[p].task)
  BY <1>1, RelinkStep, EditChangeTypes DEF Relinking, TypesInv
<1>4. k2 \in Folders /\ k2.dir = k.dir /\ k2.backup = k.backup
  <2> HIDE DEF k
  <2> QED
    BY <1>2, EditFacts DEF TypesInv
<1> HIDE DEF k2
<1>5. op'[p].stage = "overlay" /\ op'[p] # Idle
  BY <1>1, GotoFacts DEF TypesInv, Stages
<1>6. op[p].at \notin hurt => MovesWhole(op'[p], k2, m)
  BY <1>1, <1>2, <1>4, <1>5 DEF FilesAt, MovesWhole
<1> QED
  BY <1>1, <1>3, <1>4, <1>5, <1>6, CurFiles DEF Moving

LEMMA OverlayFiles ==
  ASSUME FilesBefore, NEW p \in Procs, Overlay(p)
  PROVE  FilesInv'
<1> USE DEF FilesBefore
<1> DEFINE k == co[op[p].at]
           m == mine[op[p].at]
           rest == {i \in DOMAIN k.backup \ {"link"} : k.backup[i] # Gone}
<1>1. Busy(p) /\ op[p].stage = "overlay" /\ Step
  BY DEF Overlay, At
<1>2. k \in Folders /\ Exists(k.backup) /\ Exists(k.dir) /\ (op[p].at \notin hurt => FilesAt(op[p], k, m))
  BY <1>1, AtFiles DEF KeepsWork
<1>3. Goes(p) /\ OnlyTask(p, op[p].task)
  BY <1>1, RelinkStep, OverlayTypes DEF Overlay, Relinking, TypesInv
<1>4. op[p].at \notin hurt =>
        \A e \in Entries : m[e] # Gone => IF k.backup[e] # Gone THEN k.backup[e] = m[e] ELSE k.dir[e] = m[e]
  BY <1>1, <1>2 DEF FilesAt, MovesWhole
<1>5. rest = {i \in Items \ {"link"} : k.backup[i] # Gone}
  BY <1>2, MoreDirFacts
<1>6. CASE rest # {}
  <2>1. PICK i \in rest : SetCur(p, MovedBack(k, i)) /\ op' = op
    BY <1>2, <1>6 DEF Overlay, Cur, MovedBack
  <2> DEFINE k2 == MovedBack(k, i)
  <2>2. i \in Items /\ k.backup[i] # Gone
    BY <1>5
  <2>3. /\ k2 \in Folders
        /\ k2.dir \in [Items -> Contents] /\ k2.dir[i] = k.backup[i]
        /\ \A j \in Items \ {i} : k2.dir[j] = IF Exists(k.dir) THEN k.dir[j] ELSE Gone
        /\ k2.backup \in [Items -> Contents] /\ k2.backup[i] = Gone
        /\ \A j \in Items \ {i} : k2.backup[j] = k.backup[j]
    BY <1>2, <2>2, MovedBackFacts
  <2>4. SetCur(p, k2)
    BY <2>1
  <2> HIDE DEF k2, rest
  <2>5. op[p].at \notin hurt => MovesWhole(op'[p], k2, m)
    <3>1. op[p].at \notin hurt =>
            \A e \in Entries : m[e] # Gone => IF k2.backup[e] # Gone THEN k2.backup[e] = m[e] ELSE k2.dir[e] = m[e]
      BY <1>2, <1>4, <2>2, <2>3, DirFacts
    <3> QED
      BY <1>1, <2>1, <3>1 DEF MovesWhole
  <2>6. op'[p] # Idle /\ op'[p].stage \in Moving
    BY <1>1, <2>1 DEF Busy, Moving
  <2> QED
    BY <1>1, <1>3, <2>3, <2>4, <2>5, <2>6, CurFiles
<1>7. CASE rest = {}
  <2> DEFINE k2 == [k EXCEPT !.backup = NoDir]
  <2>1. SetCur(p, k2) /\ Goto(p, "refresh")
    BY <1>2, <1>7 DEF Overlay, Cur
  <2>2. k2 \in Folders /\ k2.dir = k.dir /\ k2.backup = NoDir
    BY <1>2, DirFacts DEF Folders
  <2> HIDE DEF k2
  <2>3. \A e \in Entries : k.backup[e] = Gone
    BY <1>5, <1>7, DirFacts
  <2>4. op'[p].stage = "refresh"
    BY <1>1, <2>1, GotoFacts DEF TypesInv, Stages
  <2>5. op[p].at \notin hurt => Tidy(k2, m) /\ MovesWhole(op'[p], k2, m)
    BY <1>2, <1>4, <2>2, <2>3, <2>4, DirFacts DEF Tidy, Whole, MovesWhole
  <2> QED
    BY <1>1, <1>3, <2>1, <2>2, <2>5, CurFiles
<1> QED
  BY <1>6, <1>7

LEMMA RefreshFiles ==
  ASSUME FilesBefore, NEW p \in Procs, Refresh(p)
  PROVE  FilesInv'
<1> USE DEF FilesBefore
<1> DEFINE k == co[op[p].at]
           m == mine[op[p].at]
           k2 == IF kind = "jj" THEN SaveTarget(k) ELSE k
<1>1. Busy(p) /\ op[p].stage = "refresh" /\ Step /\ SetCur(p, k2) /\ Goto(p, "done")
  BY DEF Refresh, At, Cur
<1>2. k \in Folders /\ (op[p].at \notin hurt => FilesAt(op[p], k, m))
  BY <1>1, AtFiles
<1>3. Goes(p) /\ OnlyTask(p, op[p].task)
  BY <1>1, RelinkStep, RefreshTypes DEF Relinking, TypesInv
<1>4. k2 \in Folders /\ k2.dir = k.dir /\ k2.backup = k.backup
  BY <1>2, SaveTargetFacts
<1> HIDE DEF k2
<1>5. op'[p].stage = "done"
  BY <1>1, GotoFacts DEF TypesInv, Stages, Infallible
<1>6. op[p].at \notin hurt => Tidy(k2, m) /\ MovesWhole(op'[p], k2, m)
  BY <1>1, <1>2, <1>4, <1>5 DEF FilesAt, MovesWhole, Moving, Tidy, Whole
<1> QED
  BY <1>1, <1>3, <1>4, <1>6, CurFiles

LEMMA ReattachedFiles ==
  ASSUME FilesBefore, NEW p \in Procs, Reattached(p)
  PROVE  FilesInv'
<1> USE DEF FilesBefore
<1>1. Busy(p) /\ op[p].stage = "done" /\ co' = co /\ mine' = mine /\ (End(p) \/ Goto(p, "each"))
  BY DEF Reattached, At, Step, NoFault
<1>2. op'[p] # Idle => op'[p].stage = "each"
  BY <1>1, GotoFacts, EndFacts DEF TypesInv, Stages, Infallible
<1>3. OnlyTask(p, op[p].task)
  BY ReattachedTypes DEF TypesInv
<1> QED
  BY <1>1, <1>2, <1>3, StillFiles DEF Moving

\* A process only provisions, detaches and removes what is whole.
LEMMA QuietFiles ==
  ASSUME FilesBefore, NEW p \in Procs,
         Provision(p) \/ List(p) \/ Each(p) \/ Detach(p) \/ Remove(p)
  PROVE  FilesInv'
<1> USE DEF FilesBefore
<1> DEFINE k == co[op[p].at]
           m == mine[op[p].at]
<1>1. /\ Busy(p) /\ op[p].stage \notin Moving /\ op[p].stage # "forget"
      /\ op'[p] # Idle => op'[p].stage \notin Moving \cup {"rebackup", "prepare"}
  BY ProceedsOps DEF Moving, Provision, List, Each, Detach, Remove, At
<1>2. OnlyTask(p, op[p].task)
  BY ProvisionTypes, ListTypes, EachTypes, DetachTypes, RemoveTypes DEF TypesInv
<1>3. k \in Folders /\ m \in [Items -> Contents] /\ op[p].at \in Checkouts /\ Owner[op[p].at] = op[p].task
  BY <1>1, AtFiles, StageOf DEF TypesInv
<1>4. CASE List(p) \/ Each(p)
  <2>1. co' = co /\ mine' = mine
    BY <1>4 DEF List, Each, Step, NoFault
  <2> QED
    BY <1>1, <1>2, <2>1, StillFiles
<1>5. CASE Provision(p)
  <2>1. k = Cur(p)
    BY DEF Cur
  <2>2. CASE Reusable(k) \/ (~Exists(k.dir) /\ CanAdd(k))
    <3>1. SetCur(p, Provisioned(p))
      BY <1>5, <2>1, <2>2 DEF Provision
    <3>2. /\ Provisioned(p) \in Folders /\ Exists(Provisioned(p).dir) /\ Provisioned(p).backup = k.backup
          /\ Exists(k.dir) => \A i \in Items : k.dir[i] # Gone => Provisioned(p).dir[i] = k.dir[i]
      BY <1>1, <1>3, <2>1, ProvisionFacts DEF TypesInv
    <3>3. co'[op[p].at] = Provisioned(p) /\ \A c \in Checkouts \ {op[p].at} : co'[c] = co[c]
      BY <1>1, <3>1, <3>2, SetCurFacts DEF TypesInv
    <3>4. mine'[op[p].at] = (IF Exists(k.dir) THEN m ELSE Provisioned(p).dir)
          /\ \A c \in Checkouts \ {op[p].at} : mine'[c] = mine[c]
      BY <1>3, <1>5, <2>1, <2>2, <3>3 DEF Provision, TypesInv, Types, Reusable, Linked
    <3>5. Tidy(k, m) => Tidy(co'[op[p].at], mine'[op[p].at])
      <4>1. CASE ~Exists(k.dir)
        BY <3>2, <3>3, <3>4, <4>1 DEF Tidy, Whole
      <4>2. CASE Exists(k.dir)
        BY <3>2, <3>3, <3>4, <4>2, DirFacts DEF Tidy, Whole
      <4> QED
        BY <4>1, <4>2
    <3>6. \A c \in Checkouts : Tidy(co[c], mine[c]) => Tidy(co'[c], mine'[c])
      BY <3>3, <3>4, <3>5
    <3> QED
      BY <1>1, <1>2, <3>6, StillFiles
  <2>3. CASE ~(Reusable(k) \/ (~Exists(k.dir) /\ CanAdd(k)))
    <3>1. co' = co /\ mine' = mine
      BY <1>5, <2>1, <2>3 DEF Provision
    <3> QED
      BY <1>1, <1>2, <3>1, StillFiles
  <2> QED
    BY <2>2, <2>3
<1>6. CASE Detach(p)
  <2>1. mine' = mine
    BY <1>6 DEF Detach, Step, NoFault
  <2>2. \E k2 \in Folders : /\ SetCur(p, k2) /\ k2.backup = k.backup
                            /\ Exists(k.dir) => Exists(k2.dir) /\ \A e \in Entries : k2.dir[e] = k.dir[e]
    <3>1. CASE Linked(k.dir) /\ kind = "jj"
      <4>1. SetCur(p, SaveTarget(k))
        BY <1>6, <3>1 DEF Detach, Cur
      <4> QED
        BY <1>3, <4>1, SaveTargetFacts
    <3>2. CASE Linked(k.dir) /\ kind # "jj"
      <4> DEFINE d2 == [k.dir EXCEPT !["link"] = Gone]
                 k2 == [k EXCEPT !.dir = d2]
      <4>1. SetCur(p, k2)
        BY <1>3, <1>6, <3>2 DEF Detach, Cur, Folders
      <4>2. k.dir \in [Items -> Contents] /\ Gone \in Contents
        BY <1>3, <3>2, DirFacts, CheckoutAssumption DEF Linked, Folders, Gone, Contents
      <4>3. d2 \in [Items -> Contents] /\ \A e \in Entries : d2[e] = k.dir[e]
        BY <4>2, DirFacts
      <4> HIDE DEF d2
      <4>4. d2 \in Dirs /\ Exists(d2)
        BY <4>3, DirFacts
      <4>5. k2 \in Folders /\ k2.dir = d2 /\ k2.backup = k.backup
        BY <1>3, <4>4 DEF Folders
      <4> HIDE DEF k2
      <4>6. Exists(k2.dir) /\ \A e \in Entries : k2.dir[e] = k.dir[e]
        BY <4>3, <4>4, <4>5
      <4> QED
        BY <4>1, <4>5, <4>6
    <3>3. CASE ~Linked(k.dir)
      <4>1. SetCur(p, k)
        BY <1>6, <3>3 DEF Detach, Cur
      <4> QED
        BY <1>3, <4>1
    <3> QED
      BY <3>1, <3>2, <3>3
  <2>3. PICK k2 \in Folders : /\ SetCur(p, k2) /\ k2.backup = k.backup
                              /\ Exists(k.dir) => Exists(k2.dir) /\ \A e \in Entries : k2.dir[e] = k.dir[e]
    BY <2>2
  <2>4. co'[op[p].at] = k2 /\ \A c \in Checkouts \ {op[p].at} : co'[c] = co[c]
    BY <1>1, <2>3, SetCurFacts DEF TypesInv
  <2>5. \A c \in Checkouts : Tidy(co[c], mine[c]) => Tidy(co'[c], mine'[c])
    BY <2>1, <2>3, <2>4 DEF Tidy, Whole
  <2> QED
    BY <1>1, <1>2, <2>5, StillFiles
<1>7. CASE Remove(p)
  <2> DEFINE k2 == [k EXCEPT !.dir = NoDir, !.reg = @ /\ ~Linked(k.dir)]
  <2>1. mine' = mine /\ SetCur(p, k2) /\ op[p].what = "delete"
    BY <1>1, <1>7, StageOf DEF Remove, At, Step, NoFault, Cur, TypesInv
  <2>2. (k.reg /\ ~Linked(k.dir)) \in BOOLEAN
    BY DEF Linked, Exists
  <2>3. k2 \in Folders /\ k2.backup = k.backup
    BY <1>3, <2>2, DirFacts DEF Folders
  <2>4. co'[op[p].at] = k2 /\ \A c \in Checkouts \ {op[p].at} : co'[c] = co[c]
    BY <1>1, <2>1, <2>3, SetCurFacts DEF TypesInv
  <2>5. \A e \in Entries : m[e] = Gone
    BY <1>1, <1>3, <2>1, AtWork DEF GivenUp, OwnedBy
  <2> HIDE DEF k2
  <2>6. \A c \in Checkouts : Tidy(co[c], mine[c]) => Tidy(co'[c], mine'[c])
    BY <2>1, <2>3, <2>4, <2>5 DEF Tidy, Whole
  <2> QED
    BY <1>1, <1>2, <2>6, StillFiles
<1> QED
  BY <1>4, <1>5, <1>6, <1>7

LEMMA BoxFiles ==
  ASSUME FilesBefore, NEW p \in Procs,
         Container(p) \/ StopContainer(p) \/ RemoveContainer(p) \/ Last(p) \/ Commit(p)
  PROVE  FilesInv'
<1> USE DEF FilesBefore
<1>1. OnlyTask(p, op[p].task)
  BY ContainerTypes, StopContainerTypes, RemoveContainerTypes, LastTypes, CommitTypes DEF TypesInv
<1>2. Busy(p) /\ mine' = mine /\ op[p].stage \notin Moving
  BY DEF Container, StopContainer, RemoveContainer, Last, Commit, At, NoFault, history, Moving
<1>3. op'[p] # Idle => op'[p].stage \notin Moving \cup {"rebackup", "prepare"}
  <2>1. End(p) \/ \E s \in {"list", "rm", "commit"} : Goto(p, s)
    BY DEF Container, StopContainer, RemoveContainer, Last, Commit
  <2>2. {"list", "rm", "commit"} \subseteq Stages
    BY DEF Stages, Infallible
  <2> QED
    BY <1>2, <2>1, <2>2, GotoFacts, EndFacts DEF TypesInv, Moving
<1>4. CASE ~Last(p)
  <2>1. co' = co
    BY <1>4 DEF Container, StopContainer, RemoveContainer, Commit
  <2> QED
    BY <1>1, <1>2, <1>3, <2>1, StillFiles
<1>5. CASE Last(p)
  <2>1. ASSUME NEW c \in Checkouts, Tidy(co[c], mine[c])
        PROVE  Tidy(co'[c], mine'[c])
    <3>1. CASE op[p].what = "delete" /\ Owner[c] = op[p].task
      <4>1. \A e \in Entries : mine[c][e] = Gone
        BY <1>2, <3>1, AtWork DEF GivenUp, OwnedBy
      <4>2. co'[c].backup = NoDir
        BY <1>5, <3>1 DEF Last, NoCheckout
      <4> QED
        BY <1>2, <4>1, <4>2, DirFacts DEF Tidy, Whole
    <3>2. CASE ~(op[p].what = "delete" /\ Owner[c] = op[p].task)
      <4>1. co'[c] = co[c]
        BY <1>5, <3>2 DEF Last
      <4> QED
        BY <1>2, <2>1, <4>1
    <3> QED
      BY <3>1, <3>2
  <2> QED
    BY <1>1, <1>2, <1>3, <2>1, StillFiles
<1> QED
  BY <1>4, <1>5

LEMMA BeginsFiles ==
  ASSUME FilesBefore, NEW p \in Procs, Begins(p)
  PROVE  FilesInv'
<1> USE DEF FilesBefore
<1>1. PICK t \in Tasks : OnlyTask(p, t)
  BY BeginsTypes DEF TypesInv
<1>2. ~Busy(p) /\ co' = co /\ hurt' = hurt
  BY DEF Begins, CreateTask, Archive, Restore, OpenTerminal, Delete, AddSibling, history
<1>3. PICK what \in Operations, u \in Tasks, s \in {"provision", "stop", "list", "recover"}, c \in Checkouts :
        /\ op' = [op EXCEPT ![p] = [what |-> what, task |-> u, left |-> {}, at |-> c, stage |-> s]]
        /\ IF what = "delete"
           THEN mine' = [d \in Checkouts |-> IF Owner[d] = u THEN EmptyDir ELSE mine[d]]
           ELSE mine' = mine
  BY BeginsOps
<1>4. op'[p] = [what |-> what, task |-> u, left |-> {}, at |-> c, stage |-> s]
  BY <1>3 DEF TypesInv, Types
<1>5. op'[p] # Idle /\ op'[p].stage = s /\ op'[p].stage \notin Moving
  BY <1>4 DEF Idle, Operations, Moving
<1>6. \A k, m : MovesWhole(op'[p], k, m)
  BY <1>5 DEF MovesWhole
<1>7. ASSUME NEW d \in Checkouts \ hurt', Owner[d] = t
      PROVE  Tidy(co'[d], mine'[d])
  <2>1. \A q \in Procs \ {p} : Busy(q) => op[q].task # t
    BY <1>1, <1>5 DEF Apart, OnlyTask, Busy
  <2>2. \A q \in Procs : Busy(q) => op[q].at # d
    BY <1>2, <1>7, <2>1 DEF TypesInv, Assigned, OwnedBy
  <2>3. Tidy(co[d], mine[d])
    BY <1>2, <1>7, <2>2 DEF FilesInv
  <2>4. CASE what = "delete"
    BY <1>2, <1>3, <2>3, <2>4, DirFacts DEF Tidy, Whole
  <2>5. CASE what # "delete"
    BY <1>2, <1>3, <2>3, <2>5
  <2> QED
    BY <2>4, <2>5
<1> QED
  BY <1>1, <1>5, <1>6, <1>7, FilesStep

LEMMA NextFiles ==
  ASSUME FilesBefore, [Next]_vars
  PROVE  FilesInv'
<1> USE DEF FilesBefore
<1>1. ASSUME NEW p \in Procs, Proceeds(p)
      PROVE  FilesInv'
  <2>1. CASE Relinks(p)
    BY <2>1, RecoverFiles, MoveBackFiles, CheckFiles, PrepareFiles, MoveOutFiles, PruneFiles, LinkFiles,
       EditChangeFiles, OverlayFiles, RefreshFiles, ReattachedFiles DEF Relinks
  <2> QED
    BY <1>1, <2>1, QuietFiles, BoxFiles, ForgetFiles DEF Proceeds
<1>2. ASSUME NEW p \in Procs, Die(p) \/ Fail(p)
      PROVE  FilesInv'
  <2>1. Busy(p) /\ OnlyTask(p, op[p].task) /\ op[p].task \in Tasks
    BY <1>2, DieTypes, FailTypes, StageOf DEF TypesInv, Die, Fail
  <2>2. \A c \in Checkouts \ hurt' : Owner[c] # op[p].task
    BY <1>2 DEF Die, Fail, Hurt, OwnedBy
  <2> QED
    BY <2>1, <2>2, FilesStep
<1>3. ASSUME NEW c \in Checkouts, NEW e \in Entries, UserEdit(c, e)
      PROVE  FilesInv'
  <2>1. /\ op' = op /\ hurt' = hurt /\ kind' = kind
        /\ \A d \in Checkouts \ {c} : co'[d] = co[d] /\ mine'[d] = mine[d]
        /\ Exists(co'[c].dir) /\ co'[c].backup = co[c].backup
        /\ co'[c].dir[e] = mine'[c][e]
        /\ \A i \in Items \ {e} : co'[c].dir[i] = co[c].dir[i] /\ mine'[c][i] = mine[c][i]
    BY <1>3, UserEditFacts DEF TypesInv
  <2>2. \A p \in Procs : Busy(p) => op[p].at # c
    <3>1. \A p \in Procs : Busy(p) => op[p].task # Owner[c]
      BY <1>3 DEF UserEdit
    <3> QED
      BY <3>1 DEF TypesInv, Assigned, OwnedBy
  <2>3. Tidy(co[c], mine[c]) => Tidy(co'[c], mine'[c])
    BY <2>1, DirFacts DEF Tidy, Whole
  <2>4. ASSUME NEW d \in Checkouts \ hurt
        PROVE  /\ \A p \in Procs : Busy(p) /\ op[p].at = d => FilesAt(op[p], co'[d], mine'[d])
               /\ (\A p \in Procs : Busy(p) => op[p].at # d) => Tidy(co'[d], mine'[d])
    <3>1. CASE d # c
      BY <2>1, <3>1 DEF FilesInv
    <3>2. CASE d = c
      BY <2>2, <2>3, <3>2 DEF FilesInv
    <3> QED
      BY <3>1, <3>2
  <2> QED
    BY <2>1, <2>4 DEF FilesInv, FilesAt, MovesWhole, Tidy, Whole, Busy
<1>4. CASE UNCHANGED vars
  BY <1>4 DEF vars, history, FilesInv, FilesAt, MovesWhole, Tidy, Whole, Busy
<1> QED
  BY <1>1, <1>2, <1>3, <1>4, BeginsFiles DEF Next

LEMMA InitFiles == Init => FilesInv
<1> SUFFICES ASSUME Init PROVE FilesInv
  OBVIOUS
<1>1. \A c \in Checkouts : ~Exists(co[c].backup) /\ \A e \in Entries : mine[c][e] = Gone
  BY DirFacts DEF Init, NoCheckout
<1> QED
  BY <1>1 DEF Init, FilesInv, Tidy, Whole, Busy

\* As long as no two operations are on one task at a time: however often a task is archived, restored
\* and opened, a checkout that no command failed for has every entry as its user left it and no
\* backup beside it.
THEOREM FilesComeBack == Spec /\ []Apart => []FilesRestored
<1>1. Init => FilesInv
  BY InitFiles
<1>2. TypesInv /\ TypesInv' /\ Apart /\ Apart' /\ WorkInv /\ FilesInv /\ [Next]_vars => FilesInv'
  BY NextFiles DEF FilesBefore
<1>3. TypesInv /\ TypesInv' /\ Apart /\ Apart' /\ WorkInv /\ [Next]_vars => WorkInv'
  BY NextWork
<1>4. TypesInv /\ FilesInv => FilesRestored
  <2> SUFFICES ASSUME TypesInv, FilesInv, NEW c \in Checkouts, Settled(c)
               PROVE  /\ ~Exists(co[c].backup)
                      /\ \A e \in Entries : mine[c][e] # Gone => co[c].dir[e] = mine[c][e]
    BY DEF FilesRestored
  <2>1. \A p \in Procs : Busy(p) => op[p].at # c
    BY DEF Settled, Quiet, TypesInv, Assigned, OwnedBy
  <2> QED
    BY <2>1 DEF Settled, FilesInv, Tidy, Whole
<1> QED
  BY <1>1, <1>2, <1>3, <1>4, InitWork, TypesHold, PTL DEF Spec

-----------------------------------------------------------------------------
(* A jj workspace comes back on the change it was on, when nothing failed. *)

Relinked == {"edit", "overlay", "refresh", "done"}

\* The sidecar brings a checkout back to pl; a registered one is usable and there already.
Saved(k, pl) == pl.edit = k.saved.edit /\ pl.base = RestoreBase(k)
Remembered(k, pl) == IF k.reg THEN Linked(k.dir) /\ k.rev = pl ELSE Saved(k, pl)

\* When a checkout with a .jj directory must be registered: while its task is open, until an archive
\* comes to it, and from when a restore has relinked it.
Due(o, st, c) ==
    \/ (o = Idle \/ o.what \in {"open", "add"}) /\ st # "archived"
    \/ o # Idle /\ o.what = "create"
    \/ /\ o # Idle /\ o.what = "archive"
       /\ o.stage \in {"stop", "list"} \/ c \in o.left \/ (o.stage = "detach" /\ o.at = c)
    \/ /\ o # Idle /\ o.what = "restore"
       /\ \/ o.stage \in {"last", "commit"}
          \/ o.stage # "list" /\ c \notin o.left /\ ~(o.at = c /\ o.stage \in Relinking \ Relinked)

\* The checkout an operation is at: saved before it is forgotten, linked before it is edited.
InPlace(o, c, k, pl) ==
    CASE o # Idle /\ o.at = c /\ o.stage = "forget" -> o.what = "archive" /\ Saved(k, pl)
      [] o # Idle /\ o.at = c /\ o.stage = "edit" ->
            Attached(k) /\ k.rev.base = pl.base /\ k.saved.edit = pl.edit
      [] OTHER -> Remembered(k, pl)

\* The status of a task while o is on it.
InTime(o, st) ==
    o # Idle =>
        /\ o.what # "delete" => st # "deleted"
        /\ o.what = "restore" => st = "archived"
        /\ o.what = "archive" /\ o.stage # "each" => o.at \notin o.left

PlaceRight(o, st, c, k, pl) ==
    /\ InTime(o, st)
    /\ st # "deleted" /\ ~(o # Idle /\ o.what = "delete") =>
        /\ InPlace(o, c, k, pl)
        /\ o # Idle /\ o.at = c /\ o.stage \in Relinked => k.reg
        /\ Due(o, st, c) /\ Linked(k.dir) => k.reg

PlaceInv ==
    kind = "jj" => \A c \in Checkouts \ hurt :
        /\ \A p \in Procs : Busy(p) /\ op[p].task = Owner[c] =>
              PlaceRight(op[p], status[Owner[c]], c, co[c], place[c])
        /\ Alone(Owner[c]) => PlaceRight(Idle, status[Owner[c]], c, co[c], place[c])

\* Another task's prune forgets nothing that is in its place.
LEMMA PlaceUntouched ==
  ASSUME NEW o, NEW st, NEW c \in Checkouts, Untouched(c), PlaceRight(o, st, c, co[c], place[c])
  PROVE  PlaceRight(o, st, c, co'[c], place'[c])
<1> DEFINE k == co[c]
           k2 == co'[c]
<1>1. k2.dir = k.dir /\ k2.rev = k.rev /\ k2.saved = k.saved /\ (k2.reg = k.reg \/ (~k2.reg /\ ~(k.reg /\ Linked(k.dir))))
      /\ place'[c] = place[c]
  BY DEF Untouched, Attached
<1>2. RestoreBase(k2) = RestoreBase(k)
  BY <1>1 DEF RestoreBase
<1> HIDE DEF k, k2
<1>3. Saved(k, place[c]) => Saved(k2, place[c])
  BY <1>1, <1>2 DEF Saved
<1>4. Remembered(k, place[c]) => Remembered(k2, place[c]) /\ (k.reg => k2.reg)
  BY <1>1, <1>3 DEF Remembered
<1>5. InPlace(o, c, k, place[c]) => InPlace(o, c, k2, place[c])
  BY <1>1, <1>3, <1>4 DEF InPlace, Attached
<1>6. InPlace(o, c, k, place[c]) /\ (o # Idle /\ o.at = c /\ o.stage \in Relinked => k.reg)
        => (o # Idle /\ o.at = c /\ o.stage \in Relinked => k2.reg)
  BY <1>1, <1>4 DEF InPlace, Attached, Relinked
<1>7. (Due(o, st, c) /\ Linked(k.dir) => k.reg) => (Due(o, st, c) /\ Linked(k2.dir) => k2.reg)
  BY <1>1
<1>8. PlaceRight(o, st, c, k, place[c])
  BY DEF k
<1> QED
  BY <1>1, <1>5, <1>6, <1>7, <1>8 DEF PlaceRight, k2

\* A step on one task: the checkouts of the others are as right as they were.
LEMMA PlaceStep ==
  ASSUME TypesInv, TypesInv', Apart, Apart', PlaceInv, NEW p \in Procs, NEW t \in Tasks, OnlyTask(p, t),
         Busy(p) \/ op'[p] # Idle,
         \A c \in Checkouts \ hurt' : kind = "jj" /\ Owner[c] = t /\ PlaceRight(op[p], status[t], c, co[c], place[c])
            => PlaceRight(op'[p], status'[t], c, co'[c], place'[c])
  PROVE  PlaceInv'
<1> SUFFICES ASSUME kind = "jj", NEW c \in Checkouts \ hurt'
             PROVE  /\ \A q \in Procs : op'[q] # Idle /\ op'[q].task = Owner[c] =>
                          PlaceRight(op'[q], status'[Owner[c]], c, co'[c], place'[c])
                    /\ (\A q \in Procs : op'[q] # Idle => op'[q].task # Owner[c])
                          => PlaceRight(Idle, status'[Owner[c]], c, co'[c], place'[c])
  <2>1. kind' = kind
    BY DEF OnlyTask
  <2>2. \A o, st, d, k, pl : PlaceRight(o, st, d, k, pl) <=> PlaceRight(o, st, d, k, pl)'
    OBVIOUS
  <2> QED
    BY <2>1 DEF PlaceInv, Alone, Busy
<1>1. c \notin hurt /\ Owner[c] \in Tasks
  BY CheckoutAssumption DEF OnlyTask
<1>2. CASE Owner[c] # t
  <2>1. Untouched(c) /\ status'[Owner[c]] = status[Owner[c]]
    BY <1>1, <1>2 DEF OnlyTask
  <2>2. \A q \in Procs : (op'[q] # Idle /\ op'[q].task = Owner[c]) <=> (op[q] # Idle /\ op[q].task = Owner[c])
    BY <1>2 DEF OnlyTask, Busy
  <2>3. \A q \in Procs : op'[q] # Idle /\ op'[q].task = Owner[c] => op'[q] = op[q]
    BY <1>2 DEF OnlyTask, Busy
  <2>4. \A o : PlaceRight(o, status[Owner[c]], c, co[c], place[c]) => PlaceRight(o, status'[Owner[c]], c, co'[c], place'[c])
    BY <2>1, PlaceUntouched
  <2> QED
    BY <1>1, <2>2, <2>3, <2>4 DEF PlaceInv, Alone, Busy
<1>3. CASE Owner[c] = t
  <2>1. \A q \in Procs \ {p} : ~(op[q] # Idle /\ op[q].task = t)
    BY DEF Apart, OnlyTask, Busy
  <2>2. PlaceRight(op[p], status[t], c, co[c], place[c])
    <3>1. CASE Busy(p)
      BY <1>1, <1>3, <3>1 DEF PlaceInv, OnlyTask
    <3>2. CASE ~Busy(p)
      <4>1. Alone(t) /\ op[p] = Idle
        BY <2>1, <3>2 DEF Alone, Busy
      <4> QED
        BY <1>1, <1>3, <4>1 DEF PlaceInv
    <3> QED
      BY <3>1, <3>2
  <2>3. PlaceRight(op'[p], status'[t], c, co'[c], place'[c])
    BY <1>3, <2>2
  <2>4. \A q \in Procs : op'[q] # Idle /\ op'[q].task = t => q = p
    BY <2>1 DEF OnlyTask
  <2>5. (\A q \in Procs : op'[q] # Idle => op'[q].task # t) => op'[p] = Idle
    BY DEF OnlyTask
  <2> QED
    BY <1>3, <2>3, <2>4, <2>5
<1> QED
  BY <1>2, <1>3

\* What a relink leaves behind for the checkouts of the task that it is not at.
LEMMA RelinkElsewhere ==
  ASSUME TypesInv, NEW p \in Procs, Relinks(p), NEW st, NEW c \in Checkouts, c # op[p].at, NEW k, NEW pl,
         PlaceRight(op[p], st, c, k, pl)
  PROVE  PlaceRight(op'[p], st, c, k, pl)
<1>1. /\ Busy(p) /\ op[p].what \in {"restore", "open"} /\ op[p].stage \in Relinking \ {"forget"}
      /\ op' = op \/ End(p) \/ \E s \in Relinking \cup {"each"} : Goto(p, s)
  BY RelinksOps
<1>2. Relinking \cup {"each"} \subseteq Stages
  BY DEF Relinking, Stages, Infallible
<1>3. CASE op' = op
  BY <1>3
<1>4. CASE End(p)
  <2>1. op'[p] = Idle
    BY <1>4, EndFacts DEF TypesInv
  <2> QED
    BY <1>1, <2>1 DEF PlaceRight, InTime, InPlace, Due, Busy
<1>5. ASSUME NEW s \in Relinking \cup {"each"}, Goto(p, s)
      PROVE  PlaceRight(op'[p], st, c, k, pl)
  <2>1. /\ op'[p] # Idle /\ op'[p].stage = s /\ op'[p].what = op[p].what
        /\ op'[p].at = op[p].at /\ op'[p].left = op[p].left
    BY <1>1, <1>2, <1>5, GotoFacts DEF TypesInv
  <2>2. InTime(op'[p], st) /\ (InPlace(op[p], c, k, pl) => InPlace(op'[p], c, k, pl))
    BY <1>1, <2>1 DEF PlaceRight, InTime, InPlace, Busy
  <2>3. Due(op'[p], st, c) => Due(op[p], st, c)
    BY <1>1, <1>5, <2>1 DEF Due, Relinking, Busy
  <2> QED
    BY <1>1, <2>1, <2>2, <2>3 DEF PlaceRight, Busy
<1> QED
  BY <1>1, <1>3, <1>4, <1>5

\* A step of a relink on the checkout that it is at.
LEMMA RelinkPlace ==
  ASSUME FilesBefore, PlaceInv, NEW p \in Procs, Relinks(p), OnlyTask(p, op[p].task),
         NEW k \in Folders, SetCur(p, k) \/ (co' = co /\ k = co[op[p].at]),
         kind = "jj" /\ op[p].at \notin hurt
            /\ PlaceRight(op[p], status[op[p].task], op[p].at, co[op[p].at], place[op[p].at])
            => PlaceRight(op'[p], status[op[p].task], op[p].at, k, place[op[p].at])
  PROVE  PlaceInv'
<1> USE DEF FilesBefore
<1>1. Busy(p) /\ status' = status /\ place' = place /\ hurt' = hurt
  BY RelinksOps DEF Step, Running, NoFault
<1>2. op[p].task \in Tasks /\ co'[op[p].at] = k /\ \A c \in Checkouts \ {op[p].at} : co'[c] = co[c]
  BY <1>1, StageOf, SetCurFacts DEF TypesInv
<1>3. ASSUME NEW c \in Checkouts \ hurt, kind = "jj", Owner[c] = op[p].task,
             PlaceRight(op[p], status[op[p].task], c, co[c], place[c])
      PROVE  PlaceRight(op'[p], status[op[p].task], c, co'[c], place[c])
  <2>1. CASE c = op[p].at
    BY <1>2, <1>3, <2>1
  <2>2. CASE c # op[p].at
    BY <1>2, <1>3, <2>2, RelinkElsewhere
  <2> QED
    BY <2>1, <2>2
<1> QED
  BY <1>1, <1>2, <1>3, PlaceStep

\* From one stage of a relink to another, neither of them one that a workspace is forgotten or linked at.
LEMMA RelinkOn ==
  ASSUME NEW o, NEW o2, NEW st, NEW c, NEW k, NEW k2, NEW pl, PlaceRight(o, st, c, k, pl),
         o # Idle, o.at = c, o.what \in {"restore", "open"}, o.stage \in Relinking \ {"forget", "edit"},
         o2 # Idle, o2.at = c, o2.what = o.what, o2.left = o.left, o2.stage \in (Relinking \ {"forget", "edit"}) \cup {"each"},
         o2.stage \in Relinked \cup {"each"} => k.reg,
         k2.reg = k.reg, k2.rev = k.rev, k2.saved = k.saved \/ k.reg, k.reg => (Linked(k.dir) => Linked(k2.dir)),
         ~k.reg => (Linked(k2.dir) => Linked(k.dir))
  PROVE  PlaceRight(o2, st, c, k2, pl)
<1>1. InPlace(o, c, k, pl) <=> Remembered(k, pl)
  BY DEF InPlace
<1>2. InPlace(o2, c, k2, pl) <=> Remembered(k2, pl)
  BY DEF InPlace
<1>3. Remembered(k, pl) => Remembered(k2, pl)
  BY DEF Remembered, Saved, RestoreBase
<1>4. InTime(o2, st)
  BY DEF PlaceRight, InTime
<1>5. Due(o2, st, c) => k.reg \/ Due(o, st, c)
  BY DEF Due, Relinking, Relinked
<1>6. (Due(o, st, c) /\ Linked(k.dir) => k.reg) => (Due(o2, st, c) /\ Linked(k2.dir) => k2.reg)
  BY <1>5
<1>7. o2.stage \in Relinked => k2.reg
  OBVIOUS
<1> QED
  BY <1>1, <1>2, <1>3, <1>4, <1>6, <1>7 DEF PlaceRight

LEMMA RecoverPlace ==
  ASSUME FilesBefore, PlaceInv, NEW p \in Procs, Recover(p)
  PROVE  PlaceInv'
<1> USE DEF FilesBefore
<1> DEFINE k == co[op[p].at]
           next == IF op[p].stage = "recover" THEN "check" ELSE "prepare"
<1>1. Busy(p) /\ op[p].stage \in {"recover", "rebackup"} /\ Relinks(p)
  BY DEF Recover, At, Relinks
<1>2. k \in Folders /\ (op[p].at \notin hurt => FilesAt(op[p], k, mine[op[p].at]))
  BY <1>1, AtFiles
<1>3. OnlyTask(p, op[p].task) /\ op[p].what \in {"restore", "open"}
  BY <1>1, RecoverTypes, RelinksOps DEF TypesInv
<1>4. CASE Exists(k.backup)
  <2>1. op[p].at \in hurt
    BY <1>1, <1>2, <1>4 DEF FilesAt, Tidy, Moving
  <2>2. \E k2 \in Folders : SetCur(p, k2) \/ (co' = co /\ k2 = k)
    <3>1. [k EXCEPT !.backup = NoDir] \in Folders /\ [k EXCEPT !.dir = EmptyDir] \in Folders
      BY <1>2, DirFacts DEF Folders
    <3> QED
      BY <1>2, <3>1 DEF Recover, Cur
  <2> QED
    BY <1>1, <1>3, <2>1, <2>2, RelinkPlace
<1>5. CASE ~Exists(k.backup)
  <2>1. co' = co /\ Goto(p, next)
    BY <1>5 DEF Recover, Cur
  <2>2. next \in {"check", "prepare"} /\ next \in Stages
    BY DEF Stages, Infallible
  <2> HIDE DEF next
  <2>3. op'[p] # Idle /\ op'[p].stage = next /\ op'[p].what = op[p].what
        /\ op'[p].at = op[p].at /\ op'[p].left = op[p].left
    BY <1>1, <2>1, <2>2, GotoFacts DEF TypesInv
  <2>4. next \in Relinking \ ({"forget", "edit"} \cup Relinked) /\ op[p].stage \in Relinking \ {"forget", "edit"}
        /\ next # "each"
    BY <1>1, <2>2 DEF Relinking, Relinked
  <2>5. ASSUME PlaceRight(op[p], status[op[p].task], op[p].at, k, place[op[p].at])
        PROVE  PlaceRight(op'[p], status[op[p].task], op[p].at, k, place[op[p].at])
    BY <1>1, <1>3, <2>3, <2>4, <2>5, RelinkOn DEF Busy
  <2> QED
    BY <1>1, <1>2, <1>3, <2>1, <2>5, RelinkPlace
<1> QED
  BY <1>4, <1>5

LEMMA MoveBackPlace ==
  ASSUME FilesBefore, PlaceInv, NEW p \in Procs, MoveBack(p)
  PROVE  PlaceInv'
<1> USE DEF FilesBefore
<1> DEFINE k == co[op[p].at]
<1>1. Busy(p) /\ op[p].stage \in {"moveback", "removeback", "rollback"} /\ Relinks(p)
  BY DEF MoveBack, At, Relinks
<1>2. k \in Folders /\ Exists(k.backup) /\ op[p].at \in hurt
  BY <1>1, AtFiles DEF FilesAt, MovesWhole, KeepsWork
<1>3. OnlyTask(p, op[p].task)
  BY MoveBackTypes DEF TypesInv
<1>4. \E k2 \in Folders : SetCur(p, k2)
  <2>1. CASE HasEntries(k.backup)
    <3>1. PICK i \in Items : SetCur(p, MovedBack(k, i))
      BY <2>1 DEF MoveBack, Cur, MovedBack
    <3> QED
      BY <1>2, <3>1, MovedBackFacts
  <2>2. CASE ~HasEntries(k.backup)
    <3>1. [k EXCEPT !.backup = NoDir] \in Folders
      BY <1>2, DirFacts DEF Folders
    <3> QED
      BY <2>2, <3>1 DEF MoveBack, Cur
  <2> QED
    BY <2>1, <2>2
<1> QED
  BY <1>1, <1>2, <1>3, <1>4, RelinkPlace

\* A registered workspace in its place is usable: none is forgotten without being saved.
LEMMA CheckPlace ==
  ASSUME FilesBefore, PlaceInv, NEW p \in Procs, Check(p)
  PROVE  PlaceInv'
<1> USE DEF FilesBefore
<1> DEFINE k == co[op[p].at]
           s == IF Attached(k) THEN "done" ELSE IF kind = "jj" /\ k.reg THEN "forget" ELSE "rebackup"
<1>1. Busy(p) /\ op[p].stage = "check" /\ Relinks(p) /\ co' = co /\ Goto(p, s)
  BY DEF Check, At, Cur, Relinks
<1>2. k \in Folders
  BY <1>1, AtFiles
<1>3. OnlyTask(p, op[p].task) /\ op[p].what \in {"restore", "open"}
  BY <1>1, CheckTypes, RelinksOps DEF TypesInv
<1>4. s \in Stages /\ s \in {"done", "forget", "rebackup"}
      /\ (kind = "jj" /\ s = "forget" => k.reg /\ ~Linked(k.dir)) /\ (s = "done" => k.reg)
  BY DEF Stages, Infallible, Attached
<1> HIDE DEF s
<1>5. op'[p] # Idle /\ op'[p].stage = s /\ op'[p].what = op[p].what
      /\ op'[p].at = op[p].at /\ op'[p].left = op[p].left
  BY <1>1, <1>4, GotoFacts DEF TypesInv
<1>6. ASSUME kind = "jj", PlaceRight(op[p], status[op[p].task], op[p].at, k, place[op[p].at])
      PROVE  PlaceRight(op'[p], status[op[p].task], op[p].at, k, place[op[p].at])
  <2>1. status[op[p].task] # "deleted"
    BY <1>1, <1>3, <1>6 DEF PlaceRight, InTime, Busy
  <2>2. Remembered(k, place[op[p].at])
    BY <1>1, <1>3, <1>6, <2>1 DEF PlaceRight, InPlace, Busy
  <2>3. s # "forget"
    BY <1>4, <1>6, <2>2 DEF Remembered
  <2>4. s \in Relinking \ {"forget", "edit"} /\ (s \in Relinked \cup {"each"} => k.reg)
        /\ op[p].stage \in Relinking \ {"forget", "edit"}
    BY <1>1, <1>4, <2>3 DEF Relinking, Relinked
  <2> QED
    BY <1>1, <1>3, <1>5, <1>6, <2>4, RelinkOn DEF Busy
<1> QED
  BY <1>1, <1>2, <1>3, <1>6, RelinkPlace

LEMMA PreparePlace ==
  ASSUME FilesBefore, PlaceInv, NEW p \in Procs, Prepare(p)
  PROVE  PlaceInv'
<1> USE DEF FilesBefore
<1> DEFINE k == co[op[p].at]
           k2 == [k EXCEPT !.backup = EmptyDir]
<1>1. Busy(p) /\ op[p].stage = "prepare" /\ Relinks(p)
  BY DEF Prepare, At, Relinks
<1>2. k \in Folders /\ (op[p].at \notin hurt => FilesAt(op[p], k, mine[op[p].at]))
  BY <1>1, AtFiles
<1>3. OnlyTask(p, op[p].task) /\ op[p].what \in {"restore", "open"}
  BY <1>1, PrepareTypes, RelinksOps DEF TypesInv
<1>4. k2 \in Folders /\ k2.dir = k.dir /\ k2.reg = k.reg /\ k2.rev = k.rev /\ k2.saved = k.saved
  BY <1>2, DirFacts DEF Folders
<1> HIDE DEF k2
<1>5. CASE HasEntries(k.backup) /\ HasEntries(k.dir)
  <2>1. Exists(k.backup)
    BY <1>2, <1>5, MoreDirFacts
  <2>2. op[p].at \in hurt
    BY <1>1, <1>2, <2>1 DEF FilesAt, Tidy, Moving
  <2>3. co' = co
    BY <1>5 DEF Prepare, Cur
  <2> QED
    BY <1>1, <1>2, <1>3, <2>2, <2>3, RelinkPlace
<1>6. CASE ~(HasEntries(k.backup) /\ HasEntries(k.dir))
  <2>1. SetCur(p, k2) /\ Goto(p, "moveout")
    BY <1>6 DEF Prepare, Cur, k2
  <2>2. op'[p] # Idle /\ op'[p].stage = "moveout" /\ op'[p].what = op[p].what
        /\ op'[p].at = op[p].at /\ op'[p].left = op[p].left
    BY <1>1, <2>1, GotoFacts DEF TypesInv, Stages
  <2>3. {"prepare", "moveout"} \subseteq Relinking \ ({"forget", "edit"} \cup Relinked)
    BY DEF Relinking, Relinked
  <2>4. ASSUME PlaceRight(op[p], status[op[p].task], op[p].at, k, place[op[p].at])
        PROVE  PlaceRight(op'[p], status[op[p].task], op[p].at, k2, place[op[p].at])
    BY <1>1, <1>3, <1>4, <2>2, <2>3, <2>4, RelinkOn DEF Busy
  <2> QED
    BY <1>1, <1>3, <1>4, <2>1, <2>4, RelinkPlace
<1> QED
  BY <1>5, <1>6

LEMMA MoveOutPlace ==
  ASSUME FilesBefore, PlaceInv, NEW p \in Procs, MoveOut(p)
  PROVE  PlaceInv'
<1> USE DEF FilesBefore
<1> DEFINE k == co[op[p].at]
<1>1. Busy(p) /\ op[p].stage = "moveout" /\ Relinks(p)
  BY DEF MoveOut, At, Relinks
<1>2. k \in Folders /\ Exists(k.backup) /\ (op[p].at \notin hurt => FilesAt(op[p], k, mine[op[p].at]))
  BY <1>1, AtFiles DEF KeepsWork
<1>3. OnlyTask(p, op[p].task) /\ op[p].what \in {"restore", "open"}
  BY <1>1, MoveOutTypes, RelinksOps DEF TypesInv
<1>4. op[p].at \notin hurt /\ kind = "jj" => ~k.reg
  BY <1>1, <1>2 DEF FilesAt, MovesWhole
<1>5. {"moveout", "prune", "link"} \subseteq Relinking \ ({"forget", "edit"} \cup Relinked)
  BY DEF Relinking, Relinked
<1>6. CASE HasEntries(k.dir)
  <2>1. PICK i \in Items : SetCur(p, MovedOut(k, i)) /\ k.dir[i] # Gone /\ op' = op
    BY <1>2, <1>6 DEF MoveOut, Cur, MovedOut
  <2>2. Exists(k.dir)
    BY <1>2, <1>6, MoreDirFacts
  <2> DEFINE k2 == MovedOut(k, i)
  <2>3. /\ k2 \in Folders /\ k2.reg = k.reg /\ k2.rev = k.rev /\ k2.saved = k.saved
        /\ k2.dir[i] = Gone /\ \A j \in Items \ {i} : k2.dir[j] = k.dir[j]
    BY <1>2, <2>2, MovedOutFacts
  <2>4. SetCur(p, k2)
    BY <2>1
  <2> HIDE DEF k2
  <2>5. Linked(k2.dir) => Linked(k.dir)
    BY <2>2, <2>3, DirFacts DEF Linked
  <2>6. ASSUME kind = "jj", op[p].at \notin hurt, PlaceRight(op[p], status[op[p].task], op[p].at, k, place[op[p].at])
        PROVE  PlaceRight(op'[p], status[op[p].task], op[p].at, k2, place[op[p].at])
    BY <1>1, <1>3, <1>4, <1>5, <2>1, <2>3, <2>5, <2>6, RelinkOn DEF Busy
  <2> QED
    BY <1>1, <1>3, <2>3, <2>4, <2>6, RelinkPlace
<1>7. CASE ~HasEntries(k.dir)
  <2> DEFINE k2 == IF kind = "git" THEN [k EXCEPT !.dir = NoDir] ELSE k
             s == IF kind = "git" THEN "prune" ELSE "link"
  <2>1. SetCur(p, k2) /\ Goto(p, s)
    BY <1>7 DEF MoveOut, Cur
  <2>2. k2 \in Folders /\ (kind = "jj" => k2 = k)
    BY <1>2, DirFacts DEF Folders
  <2>3. s \in {"prune", "link"} /\ s \in Stages
    BY DEF Stages
  <2> HIDE DEF k2, s
  <2>4. op'[p] # Idle /\ op'[p].stage = s /\ op'[p].what = op[p].what
        /\ op'[p].at = op[p].at /\ op'[p].left = op[p].left
    BY <1>1, <2>1, <2>3, GotoFacts DEF TypesInv
  <2>5. ASSUME kind = "jj", PlaceRight(op[p], status[op[p].task], op[p].at, k, place[op[p].at])
        PROVE  PlaceRight(op'[p], status[op[p].task], op[p].at, k2, place[op[p].at])
    BY <1>1, <1>3, <1>5, <2>2, <2>3, <2>4, <2>5, RelinkOn DEF Busy
  <2> QED
    BY <1>1, <1>3, <2>1, <2>2, <2>5, RelinkPlace
<1> QED
  BY <1>6, <1>7

\* `git worktree prune` is not run on a jj source, and would forget none of its workspaces.
LEMMA PrunePlace ==
  ASSUME FilesBefore, PlaceInv, NEW p \in Procs, Prune(p)
  PROVE  PlaceInv'
<1> USE DEF FilesBefore
<1>1. Busy(p) /\ op[p].stage = "prune" /\ Relinks(p) /\ co' = Pruned(co) /\ Goto(p, "link")
      /\ status' = status /\ place' = place /\ hurt' = hurt /\ mine' = mine
  BY DEF Prune, At, Step, Running, NoFault, Relinks
<1>2. OnlyTask(p, op[p].task) /\ op[p].what \in {"restore", "open"} /\ op[p].task \in Tasks
  BY <1>1, PruneTypes, RelinksOps, StageOf DEF TypesInv
<1>3. op'[p] # Idle /\ op'[p].stage = "link" /\ op'[p].what = op[p].what
      /\ op'[p].at = op[p].at /\ op'[p].left = op[p].left
  BY <1>1, GotoFacts DEF TypesInv, Stages
<1>4. {"prune", "link"} \subseteq Relinking \ ({"forget", "edit"} \cup Relinked)
  BY DEF Relinking, Relinked
<1>5. ASSUME NEW c \in Checkouts \ hurt', PlaceRight(op[p], status[op[p].task], c, co[c], place[c])
      PROVE  PlaceRight(op'[p], status'[op[p].task], c, co'[c], place'[c])
  <2>1. /\ co'[c].dir = co[c].dir /\ co'[c].backup = co[c].backup
        /\ co'[c].rev = co[c].rev /\ co'[c].saved = co[c].saved /\ co'[c].named = co[c].named
        /\ co'[c].reg <=> Attached(co[c])
    BY <1>1, PrunedFacts DEF TypesInv, Types
  <2>2. co[c].reg \in BOOLEAN /\ co'[c].reg \in BOOLEAN
    BY DEF TypesInv, Types, Folders
  <2>3. Untouched(c)
    BY <1>1, <2>1, <2>2 DEF Untouched, Attached
  <2>4. PlaceRight(op[p], status[op[p].task], c, co'[c], place'[c])
    BY <1>5, <2>3, PlaceUntouched
  <2>5. CASE c # op[p].at
    BY <1>1, <2>4, <2>5, RelinkElsewhere
  <2>6. CASE c = op[p].at
    BY <1>1, <1>2, <1>3, <1>4, <2>4, <2>6, RelinkOn DEF Busy
  <2> QED
    BY <2>5, <2>6
<1> QED
  BY <1>1, <1>2, <1>5, PlaceStep

LEMMA LinkPlace ==
  ASSUME FilesBefore, PlaceInv, NEW p \in Procs, Link(p)
  PROVE  PlaceInv'
<1> USE DEF FilesBefore
<1> DEFINE k == co[op[p].at]
           pl == place[op[p].at]
<1>1. Busy(p) /\ op[p].stage = "link" /\ Relinks(p)
  BY DEF Link, At, Relinks
<1>2. k \in Folders /\ (op[p].at \notin hurt => FilesAt(op[p], k, mine[op[p].at])) /\ KeepsWork(op[p], k, mine[op[p].at])
  BY <1>1, AtFiles
<1>3. OnlyTask(p, op[p].task) /\ op[p].what \in {"restore", "open"}
  BY <1>1, LinkTypes, RelinksOps DEF TypesInv
<1>4. op[p].at \notin hurt => ~k.reg
  BY <1>1, <1>2 DEF FilesAt, MovesWhole
<1>5. ~HasEntries(k.dir)
  BY <1>1, <1>2 DEF KeepsWork
<1>6. CASE CanAdd(k)
  <2> DEFINE k2 == Add(k, RestoreBase(k))
  <2>1. SetCur(p, k2) /\ Goto(p, "edit")
    BY <1>6 DEF Link, Cur
  <2>2. k2 \in Folders /\ k2.dir = Fresh /\ k2.reg /\ k2.saved = k.saved /\ k2.rev.base = RestoreBase(k)
    BY <1>2, RestoreBaseFacts, AddFacts
  <2> HIDE DEF k2
  <2>3. op'[p] # Idle /\ op'[p].stage = "edit" /\ op'[p].what = op[p].what
        /\ op'[p].at = op[p].at /\ op'[p].left = op[p].left
    BY <1>1, <2>1, GotoFacts DEF TypesInv, Stages
  <2>4. Attached(k2)
    BY <2>2, DirFacts DEF Attached, Linked, Base, Gone
  <2>5. ASSUME op[p].at \notin hurt, PlaceRight(op[p], status[op[p].task], op[p].at, k, pl)
        PROVE  PlaceRight(op'[p], status[op[p].task], op[p].at, k2, pl)
    <3>1. InTime(op[p], status[op[p].task]) /\ status[op[p].task] # "deleted" /\ op[p] # Idle
      BY <1>1, <1>3, <2>5 DEF PlaceRight, InTime, Busy
    <3>2. InPlace(op[p], op[p].at, k, pl)
      BY <1>3, <2>5, <3>1 DEF PlaceRight
    <3>3. Saved(k, pl)
      BY <1>1, <1>4, <2>5, <3>2 DEF InPlace, Remembered
    <3>4. InPlace(op'[p], op[p].at, k2, pl)
      BY <2>2, <2>3, <2>4, <3>3 DEF InPlace, Saved
    <3>5. InTime(op'[p], status[op[p].task])
      BY <1>3, <2>3, <3>1 DEF InTime
    <3> QED
      BY <2>2, <3>4, <3>5 DEF PlaceRight
  <2> QED
    BY <1>1, <1>3, <2>1, <2>2, <2>5, RelinkPlace
<1>7. CASE ~CanAdd(k)
  <2>1. op[p].at \in hurt \/ kind # "jj"
    BY <1>4, <1>5, <1>7 DEF CanAdd
  <2>2. co' = co
    BY <1>7 DEF Link, Cur
  <2> QED
    BY <1>1, <1>2, <1>3, <2>1, <2>2, RelinkPlace
<1> QED
  BY <1>6, <1>7

\* The change that was saved is the one that is edited.
LEMMA EditChangePlace ==
  ASSUME FilesBefore, PlaceInv, NEW p \in Procs, EditChange(p)
  PROVE  PlaceInv'
<1> USE DEF FilesBefore
<1> DEFINE k == co[op[p].at]
           pl == place[op[p].at]
           k2 == [k EXCEPT !.rev.edit = kind = "jj" /\ k.saved.edit]
<1>1. Busy(p) /\ op[p].stage = "edit" /\ Relinks(p) /\ SetCur(p, k2) /\ Goto(p, "overlay")
  BY DEF EditChange, At, Cur, Relinks
<1>2. k \in Folders /\ op[p].at \in Checkouts
  BY <1>1, AtFiles, StageOf DEF TypesInv
<1>3. OnlyTask(p, op[p].task) /\ op[p].what \in {"restore", "open"}
  BY <1>1, EditChangeTypes, RelinksOps DEF TypesInv
<1>4. k2 \in Folders /\ k2.dir = k.dir /\ k2.reg = k.reg /\ k2.rev.base = k.rev.base
      /\ (kind = "jj" => k2.rev.edit = k.saved.edit)
  <2> HIDE DEF k
  <2> QED
    BY <1>2, EditFacts DEF TypesInv
<1> HIDE DEF k2
<1>5. op'[p] # Idle /\ op'[p].stage = "overlay" /\ op'[p].what = op[p].what
      /\ op'[p].at = op[p].at /\ op'[p].left = op[p].left
  BY <1>1, GotoFacts DEF TypesInv, Stages
<1>6. pl \in Revisions /\ k2.rev \in Revisions
  BY <1>2, <1>4 DEF TypesInv, Types, Folders
<1>7. ASSUME kind = "jj", PlaceRight(op[p], status[op[p].task], op[p].at, k, pl)
      PROVE  PlaceRight(op'[p], status[op[p].task], op[p].at, k2, pl)
  <2>1. InTime(op[p], status[op[p].task]) /\ status[op[p].task] # "deleted" /\ op[p] # Idle
    BY <1>1, <1>3, <1>7 DEF PlaceRight, InTime, Busy
  <2>2. InPlace(op[p], op[p].at, k, pl)
    BY <1>3, <1>7, <2>1 DEF PlaceRight
  <2>3. Attached(k) /\ k.rev.base = pl.base /\ k.saved.edit = pl.edit
    BY <1>1, <2>1, <2>2 DEF InPlace
  <2>4. k2.rev = pl
    BY <1>4, <1>6, <1>7, <2>3 DEF Revisions
  <2>5. InPlace(op'[p], op[p].at, k2, pl) /\ k2.reg
    BY <1>4, <1>5, <2>3, <2>4 DEF InPlace, Remembered, Attached
  <2>6. InTime(op'[p], status[op[p].task])
    BY <1>3, <1>5, <2>1 DEF InTime
  <2> QED
    BY <2>5, <2>6 DEF PlaceRight
<1> QED
  BY <1>1, <1>3, <1>4, <1>7, RelinkPlace

LEMMA OverlayPlace ==
  ASSUME FilesBefore, PlaceInv, NEW p \in Procs, Overlay(p)
  PROVE  PlaceInv'
<1> USE DEF FilesBefore
<1> DEFINE k == co[op[p].at]
           pl == place[op[p].at]
           rest == {i \in DOMAIN k.backup \ {"link"} : k.backup[i] # Gone}
<1>1. Busy(p) /\ op[p].stage = "overlay" /\ Relinks(p)
  BY DEF Overlay, At, Relinks
<1>2. k \in Folders /\ Exists(k.backup) /\ Exists(k.dir)
  BY <1>1, AtFiles DEF KeepsWork
<1>3. OnlyTask(p, op[p].task) /\ op[p].what \in {"restore", "open"}
  BY <1>1, OverlayTypes, RelinksOps DEF TypesInv
<1>4. {"overlay", "refresh"} \subseteq Relinking \ {"forget", "edit"}
  BY DEF Relinking
<1>5. rest = {i \in Items \ {"link"} : k.backup[i] # Gone}
  BY <1>2, MoreDirFacts
<1>6. PlaceRight(op[p], status[op[p].task], op[p].at, k, pl) => k.reg
  BY <1>1, <1>3 DEF PlaceRight, InTime, Busy, Relinked
<1>7. CASE rest # {}
  <2>1. PICK i \in rest : SetCur(p, MovedBack(k, i)) /\ op' = op
    BY <1>2, <1>7 DEF Overlay, Cur, MovedBack
  <2> DEFINE k2 == MovedBack(k, i)
  <2>2. i \in Items /\ i # "link"
    BY <1>5
  <2>3. /\ k2 \in Folders /\ k2.reg = k.reg /\ k2.rev = k.rev /\ k2.saved = k.saved
        /\ k2.dir \in [Items -> Contents]
        /\ \A j \in Items \ {i} : k2.dir[j] = IF Exists(k.dir) THEN k.dir[j] ELSE Gone
    BY <1>2, <2>2, MovedBackFacts
  <2>4. SetCur(p, k2)
    BY <2>1
  <2> HIDE DEF k2, rest
  <2>5. Linked(k.dir) => Linked(k2.dir)
    BY <1>2, <2>2, <2>3, DirFacts DEF Linked
  <2>6. ASSUME PlaceRight(op[p], status[op[p].task], op[p].at, k, pl)
        PROVE  PlaceRight(op'[p], status[op[p].task], op[p].at, k2, pl)
    BY <1>1, <1>3, <1>4, <1>6, <2>1, <2>3, <2>5, <2>6, RelinkOn DEF Busy
  <2> QED
    BY <1>1, <1>3, <2>3, <2>4, <2>6, RelinkPlace
<1>8. CASE rest = {}
  <2> DEFINE k2 == [k EXCEPT !.backup = NoDir]
  <2>1. SetCur(p, k2) /\ Goto(p, "refresh")
    BY <1>2, <1>8 DEF Overlay, Cur
  <2>2. k2 \in Folders /\ k2.dir = k.dir /\ k2.reg = k.reg /\ k2.rev = k.rev /\ k2.saved = k.saved
    BY <1>2, DirFacts DEF Folders
  <2> HIDE DEF k2, rest
  <2>3. op'[p] # Idle /\ op'[p].stage = "refresh" /\ op'[p].what = op[p].what
        /\ op'[p].at = op[p].at /\ op'[p].left = op[p].left
    BY <1>1, <2>1, GotoFacts DEF TypesInv, Stages
  <2>4. ASSUME PlaceRight(op[p], status[op[p].task], op[p].at, k, pl)
        PROVE  PlaceRight(op'[p], status[op[p].task], op[p].at, k2, pl)
    BY <1>1, <1>3, <1>4, <1>6, <2>2, <2>3, <2>4, RelinkOn DEF Busy
  <2> QED
    BY <1>1, <1>3, <2>1, <2>2, <2>4, RelinkPlace
<1> QED
  BY <1>7, <1>8

LEMMA RefreshPlace ==
  ASSUME FilesBefore, PlaceInv, NEW p \in Procs, Refresh(p)
  PROVE  PlaceInv'
<1> USE DEF FilesBefore
<1> DEFINE k == co[op[p].at]
           pl == place[op[p].at]
           k2 == IF kind = "jj" THEN SaveTarget(k) ELSE k
<1>1. Busy(p) /\ op[p].stage = "refresh" /\ Relinks(p) /\ SetCur(p, k2) /\ Goto(p, "done")
  BY DEF Refresh, At, Cur, Relinks
<1>2. k \in Folders
  BY <1>1, AtFiles
<1>3. OnlyTask(p, op[p].task) /\ op[p].what \in {"restore", "open"}
  BY <1>1, RefreshTypes, RelinksOps DEF TypesInv
<1>4. k2 \in Folders /\ k2.dir = k.dir /\ k2.reg = k.reg /\ k2.rev = k.rev
  BY <1>2, SaveTargetFacts
<1> HIDE DEF k2
<1>5. op'[p] # Idle /\ op'[p].stage = "done" /\ op'[p].what = op[p].what
      /\ op'[p].at = op[p].at /\ op'[p].left = op[p].left
  BY <1>1, GotoFacts DEF TypesInv, Stages, Infallible
<1>6. {"refresh", "done"} \subseteq Relinking \ {"forget", "edit"}
  BY DEF Relinking
<1>7. PlaceRight(op[p], status[op[p].task], op[p].at, k, pl) => k.reg
  BY <1>1, <1>3 DEF PlaceRight, InTime, Busy, Relinked
<1>8. ASSUME PlaceRight(op[p], status[op[p].task], op[p].at, k, pl)
      PROVE  PlaceRight(op'[p], status[op[p].task], op[p].at, k2, pl)
  BY <1>1, <1>3, <1>4, <1>5, <1>6, <1>7, <1>8, RelinkOn DEF Busy
<1> QED
  BY <1>1, <1>3, <1>4, <1>8, RelinkPlace

LEMMA ReattachedPlace ==
  ASSUME FilesBefore, PlaceInv, NEW p \in Procs, Reattached(p)
  PROVE  PlaceInv'
<1> USE DEF FilesBefore
<1> DEFINE k == co[op[p].at]
           pl == place[op[p].at]
<1>1. Busy(p) /\ op[p].stage = "done" /\ Relinks(p) /\ co' = co /\ (End(p) \/ Goto(p, "each"))
  BY DEF Reattached, At, Relinks
<1>2. k \in Folders
  BY <1>1, AtFiles
<1>3. OnlyTask(p, op[p].task) /\ op[p].what \in {"restore", "open"}
  BY <1>1, ReattachedTypes, RelinksOps DEF TypesInv
<1>4. "done" \in Relinking \ {"forget", "edit"}
  BY DEF Relinking
<1>5. PlaceRight(op[p], status[op[p].task], op[p].at, k, pl) => k.reg
  BY <1>1, <1>3 DEF PlaceRight, InTime, Busy, Relinked
<1>6. ASSUME PlaceRight(op[p], status[op[p].task], op[p].at, k, pl)
      PROVE  PlaceRight(op'[p], status[op[p].task], op[p].at, k, pl)
  <2>1. CASE End(p)
    <3>1. op'[p] = Idle
      BY <2>1, EndFacts DEF TypesInv
    <3> QED
      BY <1>1, <1>3, <1>5, <1>6, <3>1 DEF PlaceRight, InTime, InPlace, Busy
  <2>2. CASE Goto(p, "each")
    <3>1. op'[p] # Idle /\ op'[p].stage = "each" /\ op'[p].what = op[p].what
          /\ op'[p].at = op[p].at /\ op'[p].left = op[p].left
      BY <1>1, <2>2, GotoFacts DEF TypesInv, Stages, Infallible
    <3> QED
      BY <1>1, <1>3, <1>4, <1>5, <1>6, <3>1, RelinkOn DEF Busy
  <2> QED
    BY <1>1, <2>1, <2>2
<1> QED
  BY <1>1, <1>2, <1>3, <1>6, RelinkPlace

\* A step to a stage at which nothing is forgotten or linked, and no more is due.
LEMMA OtherStage ==
  ASSUME NEW o, NEW o2, NEW st, NEW st2, NEW c, NEW k, NEW pl, PlaceRight(o, st, c, k, pl),
         o # Idle, o.what # "delete", o.stage \notin {"forget", "edit"},
         InTime(o2, st2), o2 # Idle => o2.stage \notin Relinked \cup {"forget"},
         Due(o2, st2, c) => k.reg \/ ~Linked(k.dir) \/ Due(o, st, c)
  PROVE  PlaceRight(o2, st2, c, k, pl)
<1>1. st # "deleted"
  BY DEF PlaceRight, InTime
<1>2. Remembered(k, pl) /\ (Due(o, st, c) /\ Linked(k.dir) => k.reg)
  BY <1>1 DEF PlaceRight, InPlace
<1>3. InPlace(o2, c, k, pl)
  BY <1>2 DEF InPlace, Relinked
<1> QED
  BY <1>2, <1>3 DEF PlaceRight

LEMMA ProvisionPlace ==
  ASSUME FilesBefore, PlaceInv, NEW p \in Procs, Provision(p)
  PROVE  PlaceInv'
<1> USE DEF FilesBefore
<1> DEFINE k == co[op[p].at]
<1>1. Busy(p) /\ op[p].stage = "provision" /\ status' = status
  BY DEF Provision, At, Running
<1>2. OnlyTask(p, op[p].task) /\ op[p].task \in Tasks /\ op[p].what \in {"create", "add"} /\ k \in Folders
      /\ op[p].at \in Checkouts
  BY <1>1, ProvisionTypes, StageOf DEF TypesInv
<1>3. k = Cur(p)
  BY DEF Cur
<1>4. op'[p] = Idle \/ (/\ op'[p] # Idle /\ op'[p].stage = "container" /\ op'[p].what = op[p].what
                        /\ op'[p].at = op[p].at /\ op'[p].left = op[p].left)
  <2>1. Goto(p, "container") \/ End(p)
    BY DEF Provision
  <2> QED
    BY <1>1, <2>1, GotoFacts, EndFacts DEF TypesInv, Stages
<1>5. ASSUME NEW c, NEW k1, NEW pl, PlaceRight(op[p], status[op[p].task], c, k1, pl)
      PROVE  /\ PlaceRight(op'[p], status[op[p].task], c, k1, pl)
             /\ Remembered(k1, pl)
  <2>1. InTime(op'[p], status[op[p].task]) /\ (op'[p] # Idle => op'[p].stage \notin Relinked \cup {"forget"})
        /\ status[op[p].task] # "deleted"
    BY <1>1, <1>2, <1>4, <1>5 DEF PlaceRight, InTime, Relinked, Busy
  <2>2. Due(op'[p], status[op[p].task], c) => Due(op[p], status[op[p].task], c)
    BY <1>1, <1>2, <1>4 DEF Due, Busy
  <2>3. PlaceRight(op'[p], status[op[p].task], c, k1, pl)
    BY <1>1, <1>2, <1>5, <2>1, <2>2, OtherStage DEF Busy
  <2>4. Remembered(k1, pl)
    BY <1>1, <1>2, <1>5, <2>1 DEF PlaceRight, InPlace, Busy
  <2> QED
    BY <2>3, <2>4
<1>6. CASE ~(Reusable(k) \/ (~Exists(k.dir) /\ CanAdd(k)))
  <2>1. co' = co /\ place' = place
    BY <1>3, <1>6 DEF Provision
  <2> QED
    BY <1>1, <1>2, <1>5, <2>1, PlaceStep
<1>7. CASE Reusable(k) \/ (~Exists(k.dir) /\ CanAdd(k))
  <2> DEFINE k2 == Provisioned(p)
  <2>1. SetCur(p, k2)
    BY <1>3, <1>7 DEF Provision
  <2>2. /\ k2 \in Folders /\ Exists(k2.dir) /\ k2.saved = k.saved
        /\ Exists(k.dir) => /\ k2.reg = k.reg /\ k2.rev = k.rev
                            /\ \A i \in Items : k.dir[i] # Gone => k2.dir[i] = k.dir[i]
        /\ ~Exists(k.dir) => k2.reg /\ \A i \in Items : k2.dir[i] # Gone \/ i \in Untracked
    BY <1>1, <1>2, <1>3, ProvisionFacts DEF TypesInv
  <2> HIDE DEF k2
  <2>3. co'[op[p].at] = k2 /\ \A c \in Checkouts \ {op[p].at} : co'[c] = co[c]
    BY <1>1, <2>1, <2>2, SetCurFacts DEF TypesInv
  <2>4. \A c \in Checkouts \ {op[p].at} : place'[c] = place[c]
    BY <1>2 DEF Provision, TypesInv, Types
  <2>5. "link" \in Items /\ "link" \notin Untracked
    BY CheckoutAssumption DEF Items, Entries
  <2>6. ASSUME kind = "jj", PlaceRight(op[p], status[op[p].task], op[p].at, k, place[op[p].at])
        PROVE  PlaceRight(op'[p], status[op[p].task], op[p].at, k2, place'[op[p].at])
    <3>1. k2.reg /\ Linked(k2.dir) /\ k2.rev = place'[op[p].at]
      <4>1. CASE Exists(k.dir)
        <5>1. k.reg /\ Linked(k.dir)
          BY <1>7, <2>6, <4>1 DEF Reusable
        <5>2. place' = place
          BY <1>3, <4>1 DEF Provision
        <5>3. k.rev = place[op[p].at]
          BY <1>5, <2>6, <5>1 DEF Remembered
        <5> QED
          BY <2>2, <2>5, <4>1, <5>1, <5>2, <5>3 DEF Linked
      <4>2. CASE ~Exists(k.dir)
        <5>1. CanAdd(k)
          BY <1>7, <4>2 DEF Reusable, Linked
        <5>2. place'[op[p].at] = k2.rev
          BY <1>2, <1>3, <2>3, <4>2, <5>1 DEF Provision, TypesInv, Types
        <5> QED
          BY <2>2, <2>5, <4>2, <5>2 DEF Linked
      <4> QED
        BY <4>1, <4>2
    <3>2. Remembered(k2, place'[op[p].at])
      BY <3>1 DEF Remembered
    <3>3. InPlace(op'[p], op[p].at, k2, place'[op[p].at])
      BY <1>4, <3>2 DEF InPlace
    <3>4. InTime(op'[p], status[op[p].task])
      BY <1>5, <2>6 DEF PlaceRight
    <3> QED
      BY <3>1, <3>3, <3>4 DEF PlaceRight
  <2>7. ASSUME NEW c \in Checkouts, kind = "jj", PlaceRight(op[p], status[op[p].task], c, co[c], place[c])
        PROVE  PlaceRight(op'[p], status[op[p].task], c, co'[c], place'[c])
    BY <1>5, <2>3, <2>4, <2>6, <2>7
  <2> QED
    BY <1>1, <1>2, <2>7, PlaceStep
<1> QED
  BY <1>6, <1>7

LEMMA BoxPlace ==
  ASSUME FilesBefore, PlaceInv, NEW p \in Procs,
         Container(p) \/ StopContainer(p) \/ RemoveContainer(p) \/ Last(p) \/ Commit(p)
  PROVE  PlaceInv'
<1> USE DEF FilesBefore
<1> DEFINE t == op[p].task
<1>1. OnlyTask(p, t)
  BY ContainerTypes, StopContainerTypes, RemoveContainerTypes, LastTypes, CommitTypes DEF TypesInv
<1>2. Busy(p) /\ op[p] # Idle /\ op[p].stage \in {"container", "stop", "rm", "last", "commit"} /\ place' = place
  BY DEF Container, StopContainer, RemoveContainer, Last, Commit, At, NoFault, history, Busy
<1>3. t \in Tasks /\ op[p].what \in {"create", "add", "archive", "restore", "delete"}
  BY <1>2, StageOf DEF TypesInv
<1>4. op[p].what # "delete" => co' = co
  <2>1. Last(p) /\ op[p].what # "delete" => co' = co
    BY DEF Last, TypesInv, Types
  <2> QED
    BY <2>1 DEF Container, StopContainer, RemoveContainer, Commit
<1>5. ASSUME NEW c \in Checkouts, NEW k, NEW pl, PlaceRight(op[p], status[t], c, k, pl), op[p].what # "delete"
      PROVE  PlaceRight(op'[p], status'[t], c, k, pl)
  <2>1. op[p].stage \notin {"forget", "edit"}
    BY <1>2
  <2>2. InTime(op[p], status[t])
    BY <1>5 DEF PlaceRight
  <2>3. CASE Container(p)
    <3>1. op'[p] = Idle /\ op[p].what \in {"create", "add"}
      BY <1>2, <2>3, StageOf, EndFacts DEF Container, At, TypesInv
    <3>2. op[p].what = "add" => status' = status
      BY <2>3 DEF Container
    <3>3. Due(op'[p], status'[t], c) => Due(op[p], status[t], c)
      BY <1>2, <3>1, <3>2 DEF Due
    <3>4. InTime(op'[p], status'[t])
      BY <3>1 DEF InTime
    <3> QED
      BY <1>2, <1>5, <2>1, <3>1, <3>3, <3>4, OtherStage
  <2>4. CASE StopContainer(p) \/ RemoveContainer(p)
    <3>1. op[p].what = "archive" /\ op[p].stage = "stop" /\ status' = status /\ Goto(p, "list")
      BY <1>2, <1>5, <2>4, StageOf DEF StopContainer, RemoveContainer, At, TypesInv
    <3>2. op'[p] # Idle /\ op'[p].stage = "list" /\ op'[p].what = op[p].what
          /\ op'[p].at = op[p].at /\ op'[p].left = op[p].left
      BY <1>2, <3>1, GotoFacts DEF TypesInv, Stages
    <3>3. Due(op'[p], status'[t], c) => Due(op[p], status[t], c)
      BY <1>2, <3>1, <3>2 DEF Due
    <3>4. InTime(op'[p], status'[t]) /\ op'[p].stage \notin Relinked \cup {"forget"}
      BY <1>2, <2>2, <3>1, <3>2 DEF InTime, Relinked
    <3> QED
      BY <1>2, <1>5, <2>1, <3>1, <3>3, <3>4, OtherStage
  <2>5. CASE Last(p)
    <3>1. op[p].what \in {"archive", "restore"} /\ op[p].stage = "last" /\ status' = status /\ Goto(p, "commit")
      BY <1>2, <1>5, <2>5, StageOf DEF Last, At, TypesInv
    <3>2. op'[p] # Idle /\ op'[p].stage = "commit" /\ op'[p].what = op[p].what
          /\ op'[p].at = op[p].at /\ op'[p].left = op[p].left
      BY <1>2, <3>1, GotoFacts DEF TypesInv, Stages, Infallible
    <3>3. Due(op'[p], status'[t], c) => Due(op[p], status[t], c)
      BY <1>2, <3>1, <3>2 DEF Due
    <3>4. InTime(op'[p], status'[t]) /\ op'[p].stage \notin Relinked \cup {"forget"}
      BY <1>2, <2>2, <3>1, <3>2 DEF InTime, Relinked
    <3> QED
      BY <1>2, <1>5, <2>1, <3>1, <3>3, <3>4, OtherStage
  <2>6. CASE Commit(p)
    <3>1. op'[p] = Idle /\ op[p].stage = "commit" /\ op[p].what \in {"archive", "restore"}
      BY <1>2, <1>5, <2>6, StageOf, EndFacts DEF Commit, At, TypesInv
    <3>2. status'[t] = Outcome[op[p].what]
      BY <1>3, <2>6 DEF Commit, TypesInv, Types
    <3>3. op[p].what = "archive" => status'[t] = "archived"
      BY <3>2 DEF Outcome
    <3>4. Due(op'[p], status'[t], c) => Due(op[p], status[t], c)
      BY <1>2, <3>1, <3>3 DEF Due
    <3>5. InTime(op'[p], status'[t])
      BY <3>1 DEF InTime
    <3> QED
      BY <1>2, <1>5, <2>1, <3>1, <3>4, <3>5, OtherStage
  <2> QED
    BY <2>3, <2>4, <2>5, <2>6
<1>6. ASSUME NEW c \in Checkouts, op[p].what = "delete"
      PROVE  PlaceRight(op'[p], status'[t], c, co'[c], place'[c])
  <2>1. CASE Commit(p)
    <3>1. op'[p] = Idle
      BY <2>1, EndFacts DEF Commit, TypesInv
    <3>2. status'[t] = "deleted"
      BY <1>3, <1>6, <2>1 DEF Commit, TypesInv, Types, Outcome
    <3> QED
      BY <3>1, <3>2 DEF PlaceRight, InTime
  <2>2. CASE ~Commit(p)
    <3>1. ~Container(p)
      BY <1>2, <1>6, StageOf DEF Container, At, TypesInv
    <3>2. \E s \in {"list", "rm", "commit"} : Goto(p, s)
      BY <2>2, <3>1 DEF StopContainer, RemoveContainer, Last
    <3>3. {"list", "rm", "commit"} \subseteq Stages
      BY DEF Stages, Infallible
    <3>4. op'[p] # Idle /\ op'[p].what = "delete"
      BY <1>2, <1>6, <3>2, <3>3, GotoFacts DEF TypesInv
    <3> QED
      BY <3>4 DEF PlaceRight, InTime
  <2> QED
    BY <2>1, <2>2
<1>7. ASSUME NEW c \in Checkouts, PlaceRight(op[p], status[t], c, co[c], place[c])
      PROVE  PlaceRight(op'[p], status'[t], c, co'[c], place'[c])
  BY <1>2, <1>4, <1>5, <1>6, <1>7
<1> QED
  BY <1>1, <1>2, <1>3, <1>7, PlaceStep

\* A restore lists what is registered or has a .jj directory: what it leaves out has none.
LEMMA ListPlace ==
  ASSUME FilesBefore, PlaceInv, NEW p \in Procs, List(p)
  PROVE  PlaceInv'
<1> USE DEF FilesBefore
<1> DEFINE t == op[p].task
<1>1. Busy(p) /\ op[p] # Idle /\ op[p].stage = "list" /\ status' = status /\ co' = co /\ place' = place
  BY DEF List, At, Running, Busy
<1>2. OnlyTask(p, t) /\ t \in Tasks /\ op[p].what \in {"archive", "restore", "delete"} /\ op[p] \in Works
  BY <1>1, ListTypes, StageOf DEF TypesInv
<1>3. CASE Unnamed(t)
  <2>1. \A c \in Checkouts \ hurt' : Owner[c] # t
    BY <1>3 DEF List, Hurt, OwnedBy
  <2> QED
    BY <1>1, <1>2, <2>1, PlaceStep
<1>4. CASE ~Unnamed(t)
  <2>1. op' = [op EXCEPT ![p].left = OwnedCheckouts(t), ![p].stage = "each"]
    BY <1>4 DEF List
  <2>2. op'[p] = [op[p] EXCEPT !.left = OwnedCheckouts(t), !.stage = "each"]
    BY <2>1 DEF TypesInv, Types
  <2>3. op'[p].what = op[p].what /\ op'[p].at = op[p].at /\ op'[p].left = OwnedCheckouts(t) /\ op'[p].stage = "each"
    BY <1>2, <2>2 DEF Works
  <2>4. op'[p] # Idle
    BY <1>2, <2>3 DEF Idle
  <2>5. ASSUME NEW c \in Checkouts, kind = "jj", Owner[c] = t,
               PlaceRight(op[p], status[t], c, co[c], place[c])
        PROVE  PlaceRight(op'[p], status[t], c, co[c], place[c])
    <3>1. CASE op[p].what = "delete"
      BY <2>3, <2>4, <3>1 DEF PlaceRight, InTime
    <3>2. CASE op[p].what # "delete"
      <4>1. InTime(op'[p], status[t]) /\ op'[p].stage \notin Relinked \cup {"forget"}
        BY <1>1, <2>3, <2>4, <2>5 DEF PlaceRight, InTime, Relinked
      <4>2. c \notin OwnedCheckouts(t) => ~Linked(co[c].dir)
        BY <2>5 DEF OwnedCheckouts, Listed, Forgotten, OwnedBy
      <4>3. Due(op'[p], status[t], c) => ~Linked(co[c].dir) \/ Due(op[p], status[t], c)
        BY <1>1, <1>2, <2>3, <2>4, <4>2 DEF Due
      <4> QED
        BY <1>1, <2>5, <3>2, <4>1, <4>3, OtherStage
    <3> QED
      BY <3>1, <3>2
  <2> QED
    BY <1>1, <1>2, <2>5, PlaceStep
<1> QED
  BY <1>3, <1>4

LEMMA EachPlace ==
  ASSUME FilesBefore, PlaceInv, NEW p \in Procs, Each(p)
  PROVE  PlaceInv'
<1> USE DEF FilesBefore
<1> DEFINE t == op[p].task
<1>1. Busy(p) /\ op[p] # Idle /\ op[p].stage = "each" /\ status' = status /\ co' = co /\ place' = place
  BY DEF Each, At, Step, Running, NoFault, Busy
<1>2. OnlyTask(p, t) /\ t \in Tasks /\ op[p].what \in {"archive", "restore", "delete"} /\ op[p] \in Works
  BY <1>1, EachTypes, StageOf DEF TypesInv
<1>3. \E d, s : /\ op'[p] # Idle /\ op'[p].what = op[p].what /\ op'[p].at = d /\ op'[p].stage = s
                /\ \/ op[p].left = {} /\ s = "last" /\ d = op[p].at /\ op'[p].left = op[p].left
                   \/ s = First[op[p].what] /\ d \in op[p].left /\ op'[p].left = op[p].left \ {d}
  <2>1. CASE op[p].left = {}
    <3>1. Goto(p, "last")
      BY <2>1 DEF Each
    <3> QED
      BY <1>1, <2>1, <3>1, GotoFacts DEF TypesInv, Stages
  <2>2. CASE op[p].left # {}
    <3>1. PICK d \in op[p].left :
            op' = [op EXCEPT ![p].left = @ \ {d}, ![p].at = d, ![p].stage = First[op[p].what]]
      BY <2>2 DEF Each
    <3>2. op'[p] = [op[p] EXCEPT !.left = @ \ {d}, !.at = d, !.stage = First[op[p].what]]
      BY <3>1 DEF TypesInv, Types
    <3>3. op'[p].what = op[p].what /\ op'[p].at = d /\ op'[p].left = op[p].left \ {d}
          /\ op'[p].stage = First[op[p].what]
      BY <1>2, <3>2 DEF Works
    <3>4. op'[p] # Idle
      BY <1>2, <3>3 DEF Idle
    <3> QED
      BY <3>3, <3>4
  <2> QED
    BY <2>1, <2>2
<1>4. PICK d, s : /\ op'[p] # Idle /\ op'[p].what = op[p].what /\ op'[p].at = d /\ op'[p].stage = s
                  /\ \/ op[p].left = {} /\ s = "last" /\ d = op[p].at /\ op'[p].left = op[p].left
                     \/ s = First[op[p].what] /\ d \in op[p].left /\ op'[p].left = op[p].left \ {d}
  BY <1>3
<1>5. First["archive"] = "detach" /\ First["restore"] = "recover"
  BY DEF First
<1>6. ASSUME NEW c \in Checkouts, PlaceRight(op[p], status[t], c, co[c], place[c])
      PROVE  PlaceRight(op'[p], status[t], c, co[c], place[c])
  <2>1. CASE op[p].what = "delete"
    BY <1>4, <2>1 DEF PlaceRight, InTime
  <2>2. CASE op[p].what = "archive"
    <3>1. s \in {"last", "detach"}
      BY <1>4, <1>5, <2>2
    <3>2. InTime(op'[p], status[t]) /\ op'[p].stage \notin Relinked \cup {"forget"}
      BY <1>1, <1>4, <1>6, <2>2, <3>1 DEF PlaceRight, InTime, Relinked
    <3>3. Due(op'[p], status[t], c) => Due(op[p], status[t], c)
      BY <1>1, <1>4, <2>2, <3>1 DEF Due
    <3> QED
      BY <1>1, <1>6, <2>2, <3>2, <3>3, OtherStage
  <2>3. CASE op[p].what = "restore"
    <3>1. s \in {"last", "recover"}
      BY <1>4, <1>5, <2>3
    <3>2. InTime(op'[p], status[t]) /\ op'[p].stage \notin Relinked \cup {"forget"}
      BY <1>1, <1>4, <1>6, <2>3, <3>1 DEF PlaceRight, InTime, Relinked
    <3>3. Due(op'[p], status[t], c) => Due(op[p], status[t], c)
      <4>1. "recover" \in Relinking \ Relinked /\ "each" \notin Relinking
        BY DEF Relinking, Relinked
      <4> QED
        BY <1>1, <1>4, <1>5, <2>3, <3>1, <4>1 DEF Due
    <3> QED
      BY <1>1, <1>6, <2>3, <3>2, <3>3, OtherStage
  <2> QED
    BY <1>2, <2>1, <2>2, <2>3
<1> QED
  BY <1>1, <1>2, <1>6, PlaceStep

\* An archive saves what is registered, and forgets what it has saved.
LEMMA DetachPlace ==
  ASSUME FilesBefore, PlaceInv, NEW p \in Procs, Detach(p) \/ Forget(p)
  PROVE  PlaceInv'
<1> USE DEF FilesBefore
<1> DEFINE t == op[p].task
           k == co[op[p].at]
           pl == place[op[p].at]
<1>1. Busy(p) /\ op[p] # Idle /\ op[p].stage \in {"detach", "forget"} /\ status' = status /\ place' = place
  BY DEF Detach, Forget, At, Step, Running, NoFault, Busy
<1>2. OnlyTask(p, t) /\ t \in Tasks /\ op[p].what \in {"archive", "restore", "open"} /\ k \in Folders
      /\ op[p].at \in Checkouts
  BY <1>1, DetachTypes, ForgetTypes, StageOf DEF TypesInv
<1>3. op[p].stage = "detach" => op[p].what = "archive"
  BY <1>1, StageOf DEF TypesInv
<1>4. pl \in Revisions
  BY <1>2 DEF TypesInv, Types
\* The checkouts that the operation is not at, and what it goes on to do.
<1>5. ASSUME NEW s \in {"each", "forget"}, op'[p] # Idle, op'[p].stage = s, op'[p].what = op[p].what,
             op'[p].at = op[p].at, op'[p].left = op[p].left, op[p].what = "archive",
             NEW c, c # op[p].at, NEW k1, NEW pl1, PlaceRight(op[p], status[t], c, k1, pl1)
      PROVE  PlaceRight(op'[p], status[t], c, k1, pl1)
  <2>1. InTime(op[p], status[t]) /\ status[t] # "deleted" /\ InPlace(op[p], c, k1, pl1)
        /\ (Due(op[p], status[t], c) /\ Linked(k1.dir) => k1.reg)
    BY <1>1, <1>5 DEF PlaceRight, InTime
  <2>2. InPlace(op'[p], c, k1, pl1)
    BY <1>5, <2>1 DEF InPlace
  <2>3. Due(op'[p], status[t], c) => Due(op[p], status[t], c)
    BY <1>1, <1>5 DEF Due
  <2>4. InTime(op'[p], status[t])
    BY <1>1, <1>5, <2>1 DEF InTime
  <2> QED
    BY <1>5, <2>1, <2>2, <2>3, <2>4 DEF PlaceRight
<1>6. CASE Detach(p) /\ kind = "jj"
  <2>1. op[p].stage = "detach" /\ op[p].what = "archive"
    BY <1>3, <1>6 DEF Detach, At
  <2>2. CASE Linked(k.dir)
    <3> DEFINE k2 == SaveTarget(k)
    <3>1. SetCur(p, k2) /\ Goto(p, "forget")
      BY <1>6, <2>2 DEF Detach, Cur
    <3>2. k2 \in Folders /\ k2.saved = Target(k)
      BY <1>2, SaveTargetFacts
    <3> HIDE DEF k2
    <3>3. op'[p] # Idle /\ op'[p].stage = "forget" /\ op'[p].what = op[p].what
          /\ op'[p].at = op[p].at /\ op'[p].left = op[p].left
      BY <1>1, <3>1, GotoFacts DEF TypesInv, Stages
    <3>4. co'[op[p].at] = k2 /\ \A c \in Checkouts \ {op[p].at} : co'[c] = co[c]
      BY <1>1, <3>1, <3>2, SetCurFacts DEF TypesInv
    <3>5. ASSUME PlaceRight(op[p], status[t], op[p].at, k, pl)
          PROVE  PlaceRight(op'[p], status[t], op[p].at, k2, pl)
      <4>1. InTime(op[p], status[t]) /\ status[t] # "deleted"
        BY <1>1, <2>1, <3>5 DEF PlaceRight, InTime
      <4>2. InPlace(op[p], op[p].at, k, pl) /\ (Due(op[p], status[t], op[p].at) => k.reg)
        BY <2>1, <2>2, <3>5, <4>1 DEF PlaceRight
      <4>3. Due(op[p], status[t], op[p].at)
        BY <1>1, <2>1 DEF Due
      <4>4. Remembered(k, pl)
        BY <2>1, <4>2 DEF InPlace
      <4>5. k.reg /\ k.rev = pl
        BY <4>2, <4>3, <4>4 DEF Remembered
      <4>6. k2.saved = pl
        BY <3>2, <4>5 DEF Target
      <4>7. Saved(k2, pl)
        BY <1>4, <4>6 DEF Saved, RestoreBase, Revisions
      <4>8. InPlace(op'[p], op[p].at, k2, pl)
        BY <2>1, <3>3, <4>7 DEF InPlace
      <4>9. ~Due(op'[p], status[t], op[p].at) /\ InTime(op'[p], status[t])
        BY <1>1, <2>1, <3>3, <4>1 DEF Due, InTime
      <4> QED
        BY <3>3, <4>8, <4>9 DEF PlaceRight, Relinked
    <3>6. ASSUME NEW c \in Checkouts, PlaceRight(op[p], status[t], c, co[c], place[c])
          PROVE  PlaceRight(op'[p], status'[t], c, co'[c], place'[c])
      <4>1. CASE c = op[p].at
        BY <1>1, <3>4, <3>5, <3>6, <4>1
      <4>2. CASE c # op[p].at
        BY <1>1, <1>5, <2>1, <3>3, <3>4, <3>6, <4>2
      <4> QED
        BY <4>1, <4>2
    <3> QED
      BY <1>1, <1>2, <3>6, PlaceStep
  <2>3. CASE ~Linked(k.dir)
    <3>1. SetCur(p, k) /\ Goto(p, "each")
      BY <1>6, <2>3 DEF Detach, Cur
    <3>2. op'[p] # Idle /\ op'[p].stage = "each" /\ op'[p].what = op[p].what
          /\ op'[p].at = op[p].at /\ op'[p].left = op[p].left
      BY <1>1, <3>1, GotoFacts DEF TypesInv, Stages, Infallible
    <3>3. \A c \in Checkouts : co'[c] = co[c]
      BY <1>1, <1>2, <3>1, SetCurFacts DEF TypesInv
    <3>4. ASSUME NEW c \in Checkouts, PlaceRight(op[p], status[t], c, co[c], place[c])
          PROVE  PlaceRight(op'[p], status[t], c, co[c], place[c])
      <4>1. Due(op'[p], status[t], c) => Due(op[p], status[t], c)
        BY <1>1, <2>1, <3>2 DEF Due
      <4>2. InTime(op'[p], status[t]) /\ op'[p].stage \notin Relinked \cup {"forget"}
        BY <1>1, <2>1, <3>2, <3>4 DEF PlaceRight, InTime, Relinked
      <4> QED
        BY <1>1, <2>1, <3>4, <4>1, <4>2, OtherStage
    <3> QED
      BY <1>1, <1>2, <3>3, <3>4, PlaceStep
  <2> QED
    BY <2>2, <2>3
<1>7. CASE Forget(p)
  <2> DEFINE k2 == [k EXCEPT !.reg = FALSE]
             s == IF op[p].what = "archive" THEN "each" ELSE "rebackup"
  <2>1. op[p].stage = "forget" /\ SetCur(p, k2) /\ Goto(p, s)
    BY <1>7 DEF Forget, At, Cur
  <2>2. k2 \in Folders /\ ~k2.reg /\ k2.saved = k.saved /\ k2.dir = k.dir
    BY <1>2 DEF Folders
  <2>3. s \in Stages /\ (op[p].what = "archive" => s = "each") /\ s \in {"each", "rebackup"}
    BY DEF Stages, Infallible
  <2> HIDE DEF k2, s
  <2>4. op'[p] # Idle /\ op'[p].stage = s /\ op'[p].what = op[p].what
        /\ op'[p].at = op[p].at /\ op'[p].left = op[p].left
    BY <1>1, <2>1, <2>3, GotoFacts DEF TypesInv
  <2>5. co'[op[p].at] = k2 /\ \A c \in Checkouts \ {op[p].at} : co'[c] = co[c]
    BY <1>1, <2>1, <2>2, SetCurFacts DEF TypesInv
  <2>6. ASSUME PlaceRight(op[p], status[t], op[p].at, k, pl)
        PROVE  op[p].what = "archive" /\ PlaceRight(op'[p], status[t], op[p].at, k2, pl)
    <3>1. InTime(op[p], status[t]) /\ status[t] # "deleted"
      BY <1>1, <1>2, <2>6 DEF PlaceRight, InTime
    <3>2. InPlace(op[p], op[p].at, k, pl)
      BY <1>2, <2>6, <3>1 DEF PlaceRight
    <3>3. op[p].what = "archive" /\ Saved(k, pl)
      BY <1>1, <2>1, <3>2 DEF InPlace
    <3>4. Remembered(k2, pl)
      BY <2>2, <3>3 DEF Remembered, Saved, RestoreBase
    <3>5. op'[p].stage = "each" /\ op'[p].what = "archive"
      BY <2>3, <2>4, <3>3
    <3>6. InPlace(op'[p], op[p].at, k2, pl)
      BY <3>4, <3>5 DEF InPlace
    <3>7. op[p].at \notin op[p].left
      BY <1>1, <2>1, <3>1, <3>3 DEF InTime
    <3>8. ~Due(op'[p], status[t], op[p].at) /\ InTime(op'[p], status[t])
      BY <2>4, <3>1, <3>5, <3>7 DEF Due, InTime
    <3> QED
      BY <3>3, <3>5, <3>6, <3>8 DEF PlaceRight, Relinked
  <2>7. CASE op[p].what = "archive"
    <3>1. ASSUME NEW c \in Checkouts, PlaceRight(op[p], status[t], c, co[c], place[c])
          PROVE  PlaceRight(op'[p], status'[t], c, co'[c], place'[c])
      <4>1. CASE c = op[p].at
        BY <1>1, <2>5, <2>6, <3>1, <4>1
      <4>2. CASE c # op[p].at
        BY <1>1, <1>5, <2>3, <2>4, <2>5, <2>7, <3>1, <4>2
      <4> QED
        BY <4>1, <4>2
    <3> QED
      BY <1>1, <1>2, <3>1, PlaceStep
  <2>8. CASE op[p].what # "archive"
    <3>1. op[p].what \in {"restore", "open"} /\ op'[p].stage \in {"each", "rebackup"}
      BY <1>2, <2>3, <2>4, <2>8
    <3>2. ASSUME NEW c \in Checkouts, c # op[p].at, PlaceRight(op[p], status[t], c, co[c], place[c])
          PROVE  PlaceRight(op'[p], status'[t], c, co'[c], place'[c])
      <4>1. InTime(op[p], status[t]) /\ status[t] # "deleted" /\ InPlace(op[p], c, co[c], place[c])
            /\ (Due(op[p], status[t], c) /\ Linked(co[c].dir) => co[c].reg)
        BY <1>1, <3>1, <3>2 DEF PlaceRight, InTime
      <4>2. InPlace(op'[p], c, co[c], place[c])
        BY <2>4, <3>2, <4>1 DEF InPlace
      <4>3. Due(op'[p], status[t], c) => Due(op[p], status[t], c)
        BY <1>1, <2>1, <2>4, <3>1, <3>2 DEF Due
      <4>4. InTime(op'[p], status[t])
        BY <1>1, <2>4, <3>1, <4>1 DEF InTime
      <4>5. PlaceRight(op'[p], status[t], c, co[c], place[c])
        BY <2>4, <3>2, <4>1, <4>2, <4>3, <4>4 DEF PlaceRight
      <4> QED
        BY <1>1, <2>5, <3>2, <4>5
    <3>3. ~PlaceRight(op[p], status[t], op[p].at, k, pl)
      BY <2>6, <2>8
    <3> QED
      BY <1>1, <1>2, <3>2, <3>3, PlaceStep
  <2> QED
    BY <2>7, <2>8
<1>8. CASE Detach(p) /\ kind # "jj"
  BY <1>1, <1>2, <1>8, PlaceStep
<1> QED
  BY <1>6, <1>7, <1>8

LEMMA RemovePlace ==
  ASSUME FilesBefore, PlaceInv, NEW p \in Procs, Remove(p)
  PROVE  PlaceInv'
<1> USE DEF FilesBefore
<1>1. Busy(p) /\ op[p].stage = "remove" /\ Goto(p, "each")
  BY DEF Remove, At
<1>2. OnlyTask(p, op[p].task) /\ op[p].task \in Tasks /\ op[p].what = "delete"
  BY <1>1, RemoveTypes, StageOf DEF TypesInv
<1>3. op'[p] # Idle /\ op'[p].what = "delete"
  BY <1>1, <1>2, GotoFacts DEF TypesInv, Stages, Infallible
<1>4. \A st, c, k, pl : PlaceRight(op'[p], st, c, k, pl)
  BY <1>3 DEF PlaceRight, InTime
<1> QED
  BY <1>1, <1>2, <1>4, PlaceStep

LEMMA BeginsPlace ==
  ASSUME FilesBefore, PlaceInv, NEW p \in Procs, Begins(p)
  PROVE  PlaceInv'
<1> USE DEF FilesBefore
<1>1. PICK t \in Tasks : OnlyTask(p, t)
  BY BeginsTypes DEF TypesInv
<1>2. ~Busy(p) /\ co' = co /\ place' = place /\ op[p] = Idle
  BY DEF Begins, CreateTask, Archive, Restore, OpenTerminal, Delete, AddSibling, history, Busy
\* What the operation is, and what it requires of the task.
<1>3. \E what, u, s, d :
        /\ op' = [op EXCEPT ![p] = [what |-> what, task |-> u, left |-> {}, at |-> d, stage |-> s]]
        /\ u \in Tasks
        /\ \/ what = "create" /\ s = "provision" /\ status[u] = "none" /\ status'[u] = "creating"
           \/ what = "archive" /\ s = "stop" /\ status[u] = "active" /\ status' = status
           \/ what = "restore" /\ s = "list" /\ status[u] = "archived" /\ status' = status
           \/ what = "open" /\ s = "recover" /\ status[u] \in {"active", "archived"} /\ status' = status
           \/ what = "add" /\ s = "provision" /\ status[u] \in {"active", "archived"} /\ status' = status
           \/ what = "delete"
  <2>1. ASSUME NEW u \in Tasks, CreateTask(p, u)
        PROVE  /\ op' = [op EXCEPT ![p] = [what |-> "create", task |-> u, left |-> {}, at |-> Primary[u], stage |-> "provision"]]
               /\ status[u] = "none" /\ status'[u] = "creating"
    BY <2>1 DEF CreateTask, Begin, TypesInv, Types
  <2>2. ASSUME NEW u \in Tasks, Archive(p, u)
        PROVE  /\ op' = [op EXCEPT ![p] = [what |-> "archive", task |-> u, left |-> {}, at |-> Primary[u], stage |-> "stop"]]
               /\ status[u] = "active" /\ status' = status
    BY <2>2 DEF Archive, Begin, Running
  <2>3. ASSUME NEW u \in Tasks, Restore(p, u)
        PROVE  /\ op' = [op EXCEPT ![p] = [what |-> "restore", task |-> u, left |-> {}, at |-> Primary[u], stage |-> "list"]]
               /\ status[u] = "archived" /\ status' = status
    BY <2>3 DEF Restore, Begin, Running
  <2>4. ASSUME NEW u \in Tasks, OpenTerminal(p, u)
        PROVE  /\ op' = [op EXCEPT ![p] = [what |-> "open", task |-> u, left |-> {}, at |-> Primary[u], stage |-> "recover"]]
               /\ status[u] \in {"active", "archived"} /\ status' = status
    BY <2>4 DEF OpenTerminal, Begin, Running
  <2>5. ASSUME NEW u \in Tasks, Delete(p, u)
        PROVE  op' = [op EXCEPT ![p] = [what |-> "delete", task |-> u, left |-> {}, at |-> Primary[u], stage |-> "stop"]]
    BY <2>5 DEF Delete, Begin
  <2>6. ASSUME NEW c \in Checkouts, AddSibling(p, c)
        PROVE  /\ op' = [op EXCEPT ![p] = [what |-> "add", task |-> Owner[c], left |-> {}, at |-> c, stage |-> "provision"]]
               /\ Owner[c] \in Tasks /\ status[Owner[c]] \in {"active", "archived"} /\ status' = status
    <3>1. [Begin("add", Owner[c], {}, "provision") EXCEPT !.at = c]
            = [what |-> "add", task |-> Owner[c], left |-> {}, at |-> c, stage |-> "provision"]
      BY DEF Begin
    <3>2. Owner[c] \in Tasks
      BY CheckoutAssumption
    <3>3. op' = [op EXCEPT ![p] = [Begin("add", Owner[c], {}, "provision") EXCEPT !.at = c]]
          /\ status[Owner[c]] \in {"active", "archived"} /\ status' = status
      BY <2>6 DEF AddSibling, Running
    <3> QED
      BY <3>1, <3>2, <3>3
  <2>7. CASE \E u \in Tasks : CreateTask(p, u)
    BY <2>1, <2>7
  <2>8. CASE \E u \in Tasks : Archive(p, u)
    BY <2>2, <2>8
  <2>9. CASE \E u \in Tasks : Restore(p, u)
    BY <2>3, <2>9
  <2>10. CASE \E u \in Tasks : OpenTerminal(p, u)
    BY <2>4, <2>10
  <2>11. CASE \E u \in Tasks : Delete(p, u)
    BY <2>5, <2>11
  <2>12. CASE \E c \in Checkouts : AddSibling(p, c)
    BY <2>6, <2>12
  <2> QED
    BY <2>7, <2>8, <2>9, <2>10, <2>11, <2>12 DEF Begins
<1>4. PICK what, u, s, d :
        /\ op' = [op EXCEPT ![p] = [what |-> what, task |-> u, left |-> {}, at |-> d, stage |-> s]]
        /\ u \in Tasks
        /\ \/ what = "create" /\ s = "provision" /\ status[u] = "none" /\ status'[u] = "creating"
           \/ what = "archive" /\ s = "stop" /\ status[u] = "active" /\ status' = status
           \/ what = "restore" /\ s = "list" /\ status[u] = "archived" /\ status' = status
           \/ what = "open" /\ s = "recover" /\ status[u] \in {"active", "archived"} /\ status' = status
           \/ what = "add" /\ s = "provision" /\ status[u] \in {"active", "archived"} /\ status' = status
           \/ what = "delete"
  BY <1>3
<1>5. op'[p] = [what |-> what, task |-> u, left |-> {}, at |-> d, stage |-> s]
  BY <1>4 DEF TypesInv, Types
<1>6. op'[p] # Idle /\ op'[p].stage = s /\ op'[p].what = what /\ op'[p].at = d /\ op'[p].left = {} /\ u = t
  <2>1. op'[p].task = u /\ op'[p].stage = s /\ op'[p].what = what /\ op'[p].at = d /\ op'[p].left = {}
    BY <1>5
  <2>2. what # "idle"
    BY <1>4, <1>5 DEF TypesInv, Types, Works, Operations, Idle
  <2>3. op'[p] # Idle
    BY <2>1, <2>2 DEF Idle
  <2> QED
    BY <1>1, <2>1, <2>3 DEF OnlyTask
<1>7. ASSUME NEW c \in Checkouts, PlaceRight(Idle, status[t], c, co[c], place[c])
      PROVE  PlaceRight(op'[p], status'[t], c, co[c], place[c])
  <2>1. CASE what = "delete"
    BY <1>6, <2>1 DEF PlaceRight, InTime
  <2>2. CASE what # "delete"
    <3>1. status[t] # "deleted" /\ (what = "create" => status[t] = "none") /\ (what = "archive" => status[t] = "active")
          /\ (what = "restore" => status[t] = "archived" /\ s = "list") /\ (what # "create" => status' = status)
          /\ (what = "create" => status'[t] = "creating")
          /\ s \in {"provision", "stop", "list", "recover"} /\ what \in {"create", "archive", "restore", "open", "add"}
      BY <1>4, <1>6, <2>2
    <3>2. Remembered(co[c], place[c]) /\ (Due(Idle, status[t], c) /\ Linked(co[c].dir) => co[c].reg)
      BY <1>7, <3>1 DEF PlaceRight, InPlace
    <3>3. InPlace(op'[p], c, co[c], place[c])
      BY <1>6, <3>1, <3>2 DEF InPlace
    <3>4. Due(op'[p], status'[t], c) => Due(Idle, status[t], c)
      BY <1>6, <3>1 DEF Due
    <3>5. InTime(op'[p], status'[t])
      BY <1>6, <3>1 DEF InTime
    <3> QED
      BY <1>6, <3>1, <3>2, <3>3, <3>4, <3>5 DEF PlaceRight, Relinked
  <2> QED
    BY <2>1, <2>2
<1> QED
  BY <1>1, <1>2, <1>6, <1>7, PlaceStep

LEMMA NextPlace ==
  ASSUME FilesBefore, PlaceInv, [Next]_vars
  PROVE  PlaceInv'
<1> USE DEF FilesBefore
<1>1. ASSUME NEW p \in Procs, Proceeds(p)
      PROVE  PlaceInv'
  <2>1. CASE Relinks(p)
    BY <2>1, RecoverPlace, MoveBackPlace, CheckPlace, PreparePlace, MoveOutPlace, PrunePlace, LinkPlace,
       EditChangePlace, OverlayPlace, RefreshPlace, ReattachedPlace DEF Relinks
  <2> QED
    BY <1>1, <2>1, ProvisionPlace, BoxPlace, ListPlace, EachPlace, DetachPlace, RemovePlace DEF Proceeds
<1>2. ASSUME NEW p \in Procs, Die(p) \/ Fail(p)
      PROVE  PlaceInv'
  <2>1. Busy(p) /\ OnlyTask(p, op[p].task) /\ op[p].task \in Tasks
    BY <1>2, DieTypes, FailTypes, StageOf DEF TypesInv, Die, Fail
  <2>2. \A c \in Checkouts \ hurt' : Owner[c] # op[p].task
    BY <1>2 DEF Die, Fail, Hurt, OwnedBy
  <2> QED
    BY <2>1, <2>2, PlaceStep
<1>3. ASSUME NEW c \in Checkouts, NEW e \in Entries, UserEdit(c, e)
      PROVE  PlaceInv'
  <2> DEFINE k == co[c]
             k2 == co'[c]
  <2>1. /\ op' = op /\ hurt' = hurt /\ kind' = kind /\ status' = status
        /\ \A d \in Checkouts \ {c} : co'[d] = co[d] /\ place'[d] = place[d]
        /\ Exists(k2.dir) /\ k2.reg = k.reg /\ k2.saved = k.saved
        /\ \A i \in Items \ {e} : k2.dir[i] = k.dir[i]
        /\ k2.rev.base = k.rev.base /\ place'[c].base = place[c].base
        /\ IF kind = "jj" /\ k.reg THEN place'[c].edit = k2.rev.edit ELSE place'[c] = place[c]
        /\ ~(kind = "jj" /\ k.reg) => k2.rev = k.rev
    BY <1>3, UserEditFacts DEF TypesInv
  <2>2. Alone(Owner[c]) /\ Exists(k.dir) /\ status[Owner[c]] = "active"
    BY <1>3 DEF UserEdit, Alone
  <2>3. Linked(k2.dir) <=> Linked(k.dir)
    BY <2>1, <2>2, DirFacts DEF Linked
  <2>4. place[c] \in Revisions /\ place'[c] \in Revisions /\ k2.rev \in Revisions
    BY DEF TypesInv, Types, Folders
  <2>5. ASSUME kind = "jj", PlaceRight(Idle, status[Owner[c]], c, k, place[c])
        PROVE  PlaceRight(Idle, status[Owner[c]], c, k2, place'[c])
    <3>1. Remembered(k, place[c]) /\ (Due(Idle, status[Owner[c]], c) /\ Linked(k.dir) => k.reg)
      BY <2>2, <2>5 DEF PlaceRight, InPlace
    <3>2. Remembered(k2, place'[c])
      <4>1. CASE k.reg
        <5>1. k2.rev = place'[c]
          BY <2>1, <2>4, <2>5, <3>1, <4>1 DEF Remembered, Revisions
        <5> QED
          BY <2>1, <2>3, <3>1, <4>1, <5>1 DEF Remembered
      <4>2. CASE ~k.reg
        BY <2>1, <2>5, <3>1, <4>2 DEF Remembered, Saved, RestoreBase
      <4> QED
        BY <4>1, <4>2
    <3> QED
      BY <2>1, <2>3, <3>1, <3>2 DEF PlaceRight, InTime, InPlace
  <2>6. ASSUME kind = "jj", NEW d \in Checkouts \ hurt
        PROVE  /\ \A p \in Procs : Busy(p) /\ op[p].task = Owner[d] =>
                     PlaceRight(op[p], status[Owner[d]], d, co'[d], place'[d])
               /\ Alone(Owner[d]) => PlaceRight(Idle, status[Owner[d]], d, co'[d], place'[d])
    <3>1. CASE d # c
      BY <2>1, <2>6, <3>1 DEF PlaceInv
    <3>2. CASE d = c
      BY <2>2, <2>5, <2>6, <3>2 DEF PlaceInv, Alone
    <3> QED
      BY <3>1, <3>2
  <2> QED
    BY <2>1, <2>6 DEF PlaceInv, Alone, Busy
<1>4. CASE UNCHANGED vars
  BY <1>4 DEF vars, history, PlaceInv, Alone, Busy
<1> QED
  BY <1>1, <1>2, <1>3, <1>4, BeginsPlace DEF Next

\* As long as no two operations are on one task at a time: however often a task is archived, restored
\* and opened, a jj workspace that no command failed for comes back on the change its user was on, an
\* empty one on the base it was on.
THEOREM PlacesComeBack == Spec /\ []Apart => []PlaceKept
<1>1. Init => FilesInv
  BY InitFiles
<1>2. Init => PlaceInv
  <2> SUFFICES ASSUME Init, NEW c \in Checkouts
               PROVE  PlaceRight(Idle, status[Owner[c]], c, co[c], place[c]) /\ \A p \in Procs : ~Busy(p)
    BY DEF PlaceInv
  <2>1. co[c] = NoCheckout /\ place[c] = NoCheckout.rev /\ \A p \in Procs : ~Busy(p)
    BY DEF Init, Busy
  <2>2. ~co[c].reg /\ ~Linked(co[c].dir) /\ co[c].saved = NoTarget /\ place[c] = [edit |-> FALSE, base |-> "trunk"]
    BY <2>1, DirFacts DEF NoCheckout, Linked
  <2>3. Saved(co[c], place[c])
    BY <2>2 DEF Saved, RestoreBase, NoTarget
  <2> QED
    BY <2>1, <2>2, <2>3 DEF PlaceRight, InTime, InPlace, Remembered
<1>3. TypesInv /\ TypesInv' /\ Apart /\ Apart' /\ WorkInv /\ FilesInv /\ [Next]_vars => FilesInv'
  BY NextFiles DEF FilesBefore
<1>4. TypesInv /\ TypesInv' /\ Apart /\ Apart' /\ WorkInv /\ [Next]_vars => WorkInv'
  BY NextWork
<1>5. TypesInv /\ TypesInv' /\ Apart /\ Apart' /\ WorkInv /\ FilesInv /\ PlaceInv /\ [Next]_vars => PlaceInv'
  BY NextPlace DEF FilesBefore
<1>6. PlaceInv => PlaceKept
  <2> SUFFICES ASSUME PlaceInv, NEW c \in Checkouts, kind = "jj", Settled(c)
               PROVE  co[c].rev = place[c]
    BY DEF PlaceKept
  <2>1. Alone(Owner[c]) /\ c \notin hurt /\ status[Owner[c]] = "active" /\ co[c].reg
    BY DEF Settled, Quiet, Alone, Attached
  <2>2. PlaceRight(Idle, status[Owner[c]], c, co[c], place[c])
    BY <2>1 DEF PlaceInv
  <2> QED
    BY <2>1, <2>2 DEF PlaceRight, InPlace, Remembered
<1> QED
  BY <1>1, <1>2, <1>3, <1>4, <1>5, <1>6, InitWork, TypesHold, PTL DEF Spec
=============================================================================
