------------------------- MODULE TaskServiceProofs --------------------------
(***************************************************************************)
(* Proofs about TaskService.  Every reachable state is well typed, for every *)
(* value of the constants.  With the daemon as the only writer of state.db   *)
(* (Alone) every session it saves is consistent; no save is based on a stale *)
(* snapshot, no update is lost and state.db behaves as the atomic            *)
(* TaskRegistry.  An active task keeps its checkout (HomeInv) unless a save  *)
(* fails or the daemon dies, and recovery is complete when it says so        *)
(* (RecoverInv) unless a step fails.                                         *)
(***************************************************************************)
EXTENDS TaskService, TLAPS

USE ConstantsAssumption

\* The daemon is the only writer of state.db: no command line process writes
\* it, and no config change builds a second mutex.
Alone == Writers = {} /\ MaxReloads = 0

Good(s) == s \in Session /\ (Alone => Consistent(s))

-----------------------------------------------------------------------------
(* The edits preserve good sessions. *)

LEMMA EmptyGood == Good(EmptySession)
  BY DEF Good, Session, EmptySession, Consistent, Live, Active, Spaces, Statuses

LEMMA SetTaskspaceGood ==
  ASSUME NEW s, Good(s), NEW c \in Spaces, Alone => c \in Live(s) \cup {Default},
         NEW r \in SetTaskspace(s, c)
  PROVE  /\ Good(r)
         /\ r.status = s.status
         /\ r.cur = c
<1>1. PICK K \in SUBSET (TaskKey(s.cur) \cup TaskKey(c)) :
        r = [s EXCEPT !.cur = c, !.keys = @ \cup K]
  BY DEF SetTaskspace
<1>2. Alone => K \subseteq Live(s)
  BY DEF Good, Consistent, TaskKey, Live
<1>3. /\ r.status = s.status /\ r.cur = c /\ r.keys = s.keys \cup K /\ r.wins = s.wins
      /\ r \in Session
  BY <1>1 DEF Good, Session, Spaces, Live, TaskKey
<1>4. Live(r) = Live(s) /\ Active(r) = Active(s)
  BY <1>3 DEF Live, Active
<1> QED
  BY <1>2, <1>3, <1>4 DEF Good, Consistent

LEMMA EnteredGood ==
  ASSUME NEW s, Good(s), NEW t \in Live(s), NEW r \in Entered(s, t)
  PROVE  /\ Good(r)
         /\ r.status = s.status
         /\ r.cur = t
<1>1. PICK q \in SetTaskspace(s, t) : r = [q EXCEPT !.keys = @ \cup {t}]
  BY DEF Entered
<1>2. Good(q) /\ q.status = s.status /\ q.cur = t
  BY SetTaskspaceGood DEF Live, Spaces
<1>3. /\ r.status = q.status /\ r.cur = t /\ r.keys = q.keys \cup {t} /\ r.wins = q.wins
      /\ r \in Session
  BY <1>1, <1>2 DEF Good, Session, Live
<1>4. Live(r) = Live(q) /\ Active(r) = Active(q) /\ t \in Live(q)
  BY <1>2, <1>3 DEF Live, Active
<1> QED
  BY <1>2, <1>3, <1>4 DEF Good, Consistent

LEMMA FollowedGood ==
  ASSUME NEW s, Good(s), NEW c, NEW r \in Followed(s, c)
  PROVE  /\ Good(r)
         /\ r.status = s.status
         /\ r.cur \in Active(s) \cup {Default, s.cur}
<1>1. PICK d \in ({c} \cap (Active(s) \cup {Default})) \cup {s.cur} : r \in SetTaskspace(s, d)
  BY DEF Followed
<1>2. d \in Spaces /\ (Alone => d \in Live(s) \cup {Default})
  BY <1>1 DEF Good, Session, Spaces, Consistent, Live, Active
<1> QED
  BY <1>1, <1>2, SetTaskspaceGood

LEMMA ActivatedGood ==
  ASSUME NEW s, Good(s), NEW t \in Tasks
  PROVE  LET r == SetStatus(s, t, "active")
         IN  /\ Good(r)
             /\ r.status = [s.status EXCEPT ![t] = "active"]
             /\ r.cur = s.cur
<1> DEFINE r == SetStatus(s, t, "active")
<1>1. /\ r.status = [s.status EXCEPT ![t] = "active"]
      /\ r.cur = s.cur /\ r.keys = s.keys /\ r.wins = s.wins
      /\ r \in Session
  BY DEF SetStatus, Good, Session, Statuses
<1>2. Live(s) \subseteq Live(r) /\ Active(s) \subseteq Active(r)
  BY <1>1 DEF Live, Active, Good, Session
<1> QED
  BY <1>1, <1>2 DEF Good, Consistent

LEMMA ArchivedGood ==
  ASSUME NEW s, Good(s), NEW t \in Live(s)
  PROVE  LET r == Archived(s, t)
         IN  /\ Good(r)
             /\ r.status = [s.status EXCEPT ![t] = "archived"]
             /\ r.cur = s.cur
<1> DEFINE r == Archived(s, t)
<1>1. /\ r.status = [s.status EXCEPT ![t] = "archived"]
      /\ r.cur = s.cur /\ r.keys = s.keys /\ r.wins = s.wins \ {t}
      /\ r \in Session
  BY DEF Archived, SetStatus, Good, Session, Statuses
<1>2. Live(s) = Live(r) /\ Active(r) = Active(s) \ {t}
  BY <1>1 DEF Live, Active, Good, Session
<1> QED
  BY <1>1, <1>2 DEF Good, Consistent

LEMMA DeletedGood ==
  ASSUME NEW s, Good(s), NEW t \in Tasks
  PROVE  LET r == Deleted(s, t)
         IN  /\ Good(r)
             /\ r.status = [s.status EXCEPT ![t] = "absent"]
             /\ r.cur = IF s.cur = t THEN Default ELSE s.cur
<1> DEFINE r == Deleted(s, t)
<1>1. /\ r.status = [s.status EXCEPT ![t] = "absent"]
      /\ r.cur = (IF s.cur = t THEN Default ELSE s.cur)
      /\ r.keys = s.keys \ {t} /\ r.wins = s.wins \ {t}
      /\ r \in Session
  BY DEF Deleted, Good, Session, Statuses, Spaces
<1>2. Live(r) = Live(s) \ {t} /\ Active(r) = Active(s) \ {t}
  BY <1>1 DEF Live, Active, Good, Session
<1> QED
  BY <1>1, <1>2 DEF Good, Consistent

LEMMA UpkeepGood ==
  ASSUME NEW s, Good(s), NEW kind,
         NEW k \in KeysAfter(s, kind), NEW w \in WinsAfter(s, kind)
  PROVE  LET r == [s EXCEPT !.keys = k, !.wins = w]
         IN  /\ Good(r)
             /\ r.status = s.status
             /\ r.cur = s.cur
<1> DEFINE r == [s EXCEPT !.keys = k, !.wins = w]
<1>1. k \subseteq s.keys \cup TaskKey(s.cur)
  BY DEF KeysAfter
<1>2. w \subseteq s.wins \cup Active(s)
  BY DEF WinsAfter
<1>3. Alone => TaskKey(s.cur) \subseteq Live(s)
  BY DEF Good, Consistent, TaskKey
<1>4. Alone => k \subseteq Live(s) /\ w \subseteq Active(s)
  BY <1>1, <1>2, <1>3 DEF Good, Consistent
<1>5. r \in Session /\ r.status = s.status /\ r.cur = s.cur /\ r.keys = k /\ r.wins = w
  BY <1>1, <1>2 DEF Good, Session, TaskKey, Active
<1>6. Live(r) = Live(s) /\ Active(r) = Active(s)
  BY <1>5 DEF Live, Active
<1> QED
  BY <1>4, <1>5, <1>6 DEF Good, Consistent

LEMMA CurAfterGood ==
  ASSUME NEW s, Good(s), NEW r, NEW c \in CurAfter(s, r)
  PROVE  LET q == [s EXCEPT !.cur = c]
         IN  /\ Good(q)
             /\ q.status = s.status
             /\ q.cur = c
<1> DEFINE q == [s EXCEPT !.cur = c]
<1>1. c \in {s.cur, Default} \cup Active(s)
  BY DEF CurAfter
<1>2. q \in Session /\ q.status = s.status /\ q.cur = c /\ q.keys = s.keys /\ q.wins = s.wins
  BY <1>1 DEF Good, Session, Spaces, Active
<1>3. Live(q) = Live(s) /\ Active(q) = Active(s) /\ Active(s) \subseteq Live(s)
  BY <1>2 DEF Live, Active
<1> QED
  BY <1>1, <1>2, <1>3 DEF Good, Consistent

LEMMA FetchedGood ==
  ASSUME Good(db), NEW p \in Rpcs \cup Writers
  PROVE  Good(Fetched(p))
<1>1. CASE p \in Writers
  <2>1. SessionRow(db) \in Session
    BY EmptyGood DEF SessionRow, Good, Session
  <2> QED
    BY <1>1, <2>1 DEF Fetched, Good, Alone
<1>2. CASE p \notin Writers
  BY <1>2 DEF Fetched
<1> QED
  BY <1>1, <1>2

-----------------------------------------------------------------------------
(* The inductive invariant. *)

\* Steps at which a process works on the task its request names.
TaskSteps ==
    {"provision", "creating", "entering", "switching", "preparing", "teardown", "complete",
     "completing", "reattach", "restoring", "deleting", "removing", "purging"}

\* What the next step of a process may rely on.
Shaped(p) ==
    /\ pc[p] = "waiting" => req[p] \in DaemonRequests
    /\ pc[p] \in TaskSteps => req[p].arg \in Tasks
    /\ pc[p] \in {"switching", "completing"} => req[p].arg \in Live(snap[p])

ProcInv ==
    /\ pc \in [Procs -> Steps]
    /\ req \in [Procs -> Requests]
    /\ snap \in [Procs -> Session]
    /\ holder \in [Servers -> Procs \cup {None}]
    /\ \A p \in Procs : Good(snap[p]) /\ Shaped(p)

EnvInv ==
    /\ disk \in [Tasks -> {"none", "attached", "detached"}]
    /\ used \subseteq Tasks
    /\ inst \in [Rpcs -> Servers]
    /\ server \in Servers
    /\ todo \subseteq Tasks
    /\ bootStale \in BOOLEAN
    /\ stops \in Nat

IInv == Good(db) /\ ProcInv /\ EnvInv

LEMMA RequestTypes ==
  /\ DaemonRequests \subseteq Requests
  /\ NoRequest \in Requests
  /\ \A r \in DaemonRequests :
        /\ r.kind \in DOMAIN FirstStep
        /\ r.kind \in TaskKinds => r.arg \in Tasks
  BY DEF DaemonRequests, Requests, NoRequest, Kinds, TaskKinds, WriterKinds, MemoryKinds, ListenerKinds,
         Spaces, FirstStep

LEMMA FirstStepType ==
  ASSUME NEW k \in DOMAIN FirstStep
  PROVE  /\ FirstStep[k] \in Steps \ {"waiting", "entering", "completing"}
         /\ FirstStep[k] \in TaskSteps => k \in TaskKinds
         /\ FirstStep[k] = "switching" => k = "switch"
<1>1. k \in {"create", "switch", "archive", "restore", "delete", "rename", "default", "follow",
             "remember", "goto", "reset", "windows", "topology"}
  BY DEF FirstStep
<1>2. CASE k = "create" BY <1>2 DEF FirstStep, Steps, TaskSteps, TaskKinds
<1>3. CASE k = "switch" BY <1>3 DEF FirstStep, Steps, TaskSteps, TaskKinds
<1>4. CASE k = "archive" BY <1>4 DEF FirstStep, Steps, TaskSteps, TaskKinds
<1>5. CASE k = "restore" BY <1>5 DEF FirstStep, Steps, TaskSteps, TaskKinds
<1>6. CASE k = "delete" BY <1>6 DEF FirstStep, Steps, TaskSteps, TaskKinds
<1>7. CASE k = "rename" BY <1>7 DEF FirstStep, Steps, TaskSteps, TaskKinds
<1>8. CASE k = "default" BY <1>8 DEF FirstStep, Steps, TaskSteps, TaskKinds
<1>9. CASE k = "follow" BY <1>9 DEF FirstStep, Steps, TaskSteps, TaskKinds
<1>10. CASE k = "remember" BY <1>10 DEF FirstStep, Steps, TaskSteps, TaskKinds
<1>11. CASE k \in {"goto", "reset", "windows", "topology"}
  BY <1>11 DEF FirstStep, Steps, TaskSteps, TaskKinds
<1> QED
  BY <1>1, <1>2, <1>3, <1>4, <1>5, <1>6, <1>7, <1>8, <1>9, <1>10, <1>11

-----------------------------------------------------------------------------
(* What the three ways of ending a step do to the processes. *)

LEMMA UnlockType ==
  ASSUME ProcInv, NEW p \in Procs, Unlock(p)
  PROVE  holder' \in [Servers -> Procs \cup {None}]
  BY DEF ProcInv, Unlock

LEMMA LockType ==
  ASSUME ProcInv, EnvInv, NEW p \in Rpcs \cup {Main}, Lock(p)
  PROVE  holder' \in [Servers -> Procs \cup {None}]
  BY DEF ProcInv, EnvInv, Lock, Instance, Procs

LEMMA FinishInv ==
  ASSUME ProcInv, NEW p \in Procs, Finish(p)
  PROVE  ProcInv'
<1>1. /\ pc' \in [Procs -> Steps]
      /\ req' \in [Procs -> Requests]
      /\ snap' \in [Procs -> Session]
  BY RequestTypes, EmptyGood DEF ProcInv, Finish, Goto, Steps, Good
<1>2. holder' \in [Servers -> Procs \cup {None}]
  BY UnlockType DEF Finish
<1>3. ASSUME NEW q \in Procs PROVE Good(snap'[q]) /\ Shaped(q)'
  <2>1. CASE q = p
    BY <2>1, EmptyGood DEF ProcInv, Finish, Goto, Shaped, TaskSteps
  <2>2. CASE q # p
    BY <2>2 DEF ProcInv, Finish, Goto, Shaped
  <2> QED
    BY <2>1, <2>2
<1> QED
  BY <1>1, <1>2, <1>3 DEF ProcInv, Good

LEMMA ProceedInv ==
  ASSUME ProcInv, NEW p \in Procs, NEW s, Good(s), NEW step \in Steps \ {"waiting"},
         step \in TaskSteps => req[p].arg \in Tasks,
         step \in {"switching", "completing"} => req[p].arg \in Live(s),
         Proceed(p, s, step)
  PROVE  ProcInv'
<1>1. /\ pc' \in [Procs -> Steps]
      /\ req' \in [Procs -> Requests]
      /\ snap' \in [Procs -> Session]
      /\ holder' \in [Servers -> Procs \cup {None}]
  BY DEF ProcInv, Proceed, Goto, Good
<1>2. ASSUME NEW q \in Procs PROVE Good(snap'[q]) /\ Shaped(q)'
  <2>1. CASE q = p
    BY <2>1 DEF ProcInv, Proceed, Goto, Shaped
  <2>2. CASE q # p
    BY <2>2 DEF ProcInv, Proceed, Goto, Shaped
  <2> QED
    BY <2>1, <2>2
<1> QED
  BY <1>1, <1>2 DEF ProcInv, Good

LEMMA SuspendInv ==
  ASSUME ProcInv, NEW p \in Procs, NEW step \in {"teardown", "complete"},
         req[p].arg \in Tasks, Suspend(p, step)
  PROVE  ProcInv'
<1>1. /\ pc' \in [Procs -> Steps]
      /\ req' \in [Procs -> Requests]
      /\ snap' \in [Procs -> Session]
  BY EmptyGood DEF ProcInv, Suspend, Goto, Steps, Good
<1>2. holder' \in [Servers -> Procs \cup {None}]
  BY UnlockType DEF Suspend
<1>3. ASSUME NEW q \in Procs PROVE Good(snap'[q]) /\ Shaped(q)'
  <2>1. CASE q = p
    BY <2>1, EmptyGood DEF ProcInv, Suspend, Goto, Shaped
  <2>2. CASE q # p
    BY <2>2 DEF ProcInv, Suspend, Goto, Shaped
  <2> QED
    BY <2>1, <2>2
<1> QED
  BY <1>1, <1>2, <1>3 DEF ProcInv, Good

-----------------------------------------------------------------------------
(* One lemma per group of actions: each step preserves IInv. *)

LEMMA InitInv == Init => IInv
<1> SUFFICES ASSUME Init PROVE IInv
  OBVIOUS
<1>1. Good(db)
  BY DEF Init, Good, Session, Consistent, Live, Active, Statuses, Spaces
<1>2. ProcInv
  <2>1. pc \in [Procs -> Steps]
    BY DEF Init, Steps
  <2>2. req \in [Procs -> Requests] /\ snap \in [Procs -> Session]
    BY RequestTypes, EmptyGood DEF Init, Good
  <2>3. holder \in [Servers -> Procs \cup {None}]
    BY DEF Init
  <2>4. ASSUME NEW p \in Procs PROVE Good(snap[p]) /\ Shaped(p)
    BY EmptyGood DEF Init, Shaped, TaskSteps
  <2> QED
    BY <2>1, <2>2, <2>3, <2>4 DEF ProcInv
<1>3. EnvInv
  <2>1. \A t \in Tasks : disk[t] \in {"none", "attached", "detached"}
    <3> SUFFICES ASSUME NEW t \in Tasks PROVE disk[t] \in {"none", "attached", "detached"}
      OBVIOUS
    <3>1. db.status[t] \in {"absent", "active", "archived"}
      BY <1>1 DEF Good, Session, Statuses
    <3>2. disk[t] = HomeOf(db.status[t])
      BY DEF Init
    <3> QED
      BY <3>1, <3>2 DEF HomeOf
  <2>2. disk \in [Tasks -> {"none", "attached", "detached"}]
    BY <2>1 DEF Init
  <2>3. 0 \in Servers
    BY DEF Servers
  <2> QED
    BY <2>2, <2>3 DEF Init, EnvInv, Live
<1> QED
  BY <1>1, <1>2, <1>3 DEF IInv

LEMMA ReceiveInv ==
  ASSUME IInv, NEW p \in Rpcs, Receive(p)
  PROVE  IInv'
<1> USE DEF IInv, Receive
<1>1. PICK r \in DaemonRequests :
        /\ r.kind = "create" => FreshId(r.arg)
        /\ used' = IF r.kind = "create" THEN used \cup {r.arg} ELSE used
        /\ req' = [req EXCEPT ![p] = r]
  OBVIOUS
<1>2. p \in Procs /\ p # Main
  BY DEF Procs
<1>3. used' \subseteq Tasks
  BY <1>1, RequestTypes DEF EnvInv, TaskKinds
<1>4. EnvInv'
  BY <1>3 DEF EnvInv
<1>5. ProcInv'
  <2>1. pc' \in [Procs -> Steps] /\ req' \in [Procs -> Requests]
    BY <1>1, <1>2, RequestTypes DEF ProcInv, Goto, Steps
  <2>2. ASSUME NEW q \in Procs PROVE Good(snap'[q]) /\ Shaped(q)'
    <3>1. CASE q = p
      BY <1>1, <3>1 DEF ProcInv, Goto, Shaped, TaskSteps
    <3>2. CASE q # p
      BY <1>1, <3>2 DEF ProcInv, Goto, Shaped
    <3> QED
      BY <3>1, <3>2
  <2> QED
    BY <2>1, <2>2 DEF ProcInv
<1> QED
  BY <1>4, <1>5

LEMMA AdmitInv ==
  ASSUME IInv, NEW p \in Rpcs, Admit(p)
  PROVE  IInv'
<1> DEFINE k == req[p].kind
           step == FirstStep[k]
<1>1. p \in Procs /\ p # Main
  BY DEF Procs
<1>2. /\ req[p] \in DaemonRequests
      /\ Accepts(db, req[p])
      /\ pc' = [pc EXCEPT ![p] = step]
      /\ snap' = [snap EXCEPT ![p] = db]
      /\ req' = [req EXCEPT ![p].arg = IF k \in MemoryKinds THEN db.cur ELSE @]
  BY <1>1 DEF IInv, ProcInv, Shaped, Admit, Goto
<1>3. /\ step \in Steps \ {"waiting", "entering", "completing"}
      /\ step \in TaskSteps => k \in TaskKinds
      /\ step = "switching" => k = "switch"
  BY <1>2, RequestTypes, FirstStepType
<1>4. EnvInv' /\ Good(db)' /\ holder' \in [Servers -> Procs \cup {None}]
  BY LockType DEF IInv, EnvInv, Admit, DbStep, EnvSame
<1>5. ProcInv'
  <2>1. /\ req'[p].arg \in Spaces
        /\ req'[p].kind = k
        /\ k \in TaskKinds => req'[p].arg = req[p].arg /\ req[p].arg \in Tasks
    BY <1>1, <1>2, RequestTypes DEF IInv, ProcInv, Good, Session, Requests, TaskKinds, MemoryKinds
  <2>2. req' \in [Procs -> Requests]
    BY <1>1, <1>2, <2>1 DEF IInv, ProcInv, Requests
  <2>3. pc' \in [Procs -> Steps] /\ snap' \in [Procs -> Session]
    BY <1>1, <1>2, <1>3 DEF IInv, ProcInv, Good
  <2>4. k = "switch" => req[p].arg \in Live(db)
    BY <1>2, <2>1 DEF Accepts, Live, TaskKinds
  <2>5. ASSUME NEW q \in Procs PROVE Good(snap'[q]) /\ Shaped(q)'
    <3>1. CASE q = p
      <4>1. pc'[p] = step /\ snap'[p] = db
        BY <1>1, <1>2 DEF IInv, ProcInv
      <4>2. step = "switching" => k \in TaskKinds
        BY <1>3 DEF TaskSteps
      <4> QED
        BY <1>3, <2>1, <2>4, <3>1, <4>1, <4>2 DEF IInv, Shaped
    <3>2. CASE q # p
      BY <1>2, <3>2 DEF IInv, ProcInv, Shaped
    <3> QED
      BY <3>1, <3>2
  <2> QED
    BY <1>4, <2>2, <2>3, <2>5 DEF ProcInv
<1> QED
  BY <1>4, <1>5 DEF IInv

\* A step of thread or process p that leaves the environment alone and ends in
\* one of the three ways, with db untouched or set to a good session.
LEMMA DbStepInv ==
  ASSUME IInv, DbStep, NEW s, Good(s), db' \in {db, s}, ProcInv'
  PROVE  IInv'
  BY DEF IInv, EnvInv, DbStep, EnvSame, Good, Session, Consistent, Live, Active

LEMMA DiskStepInv ==
  ASSUME IInv, DiskStep, ProcInv', disk' \in [Tasks -> {"none", "attached", "detached"}]
  PROVE  IInv'
  BY DEF IInv, EnvInv, DiskStep, EnvSame, Good, Session, Consistent, Live, Active

LEMMA RefuseInv ==
  ASSUME IInv, NEW p \in Rpcs, Refuse(p)
  PROVE  IInv'
<1>1. ProcInv'
  BY FinishInv DEF IInv, Refuse, Procs
<1> QED
  BY <1>1, DbStepInv DEF IInv, Refuse

LEMMA CreateInv ==
  ASSUME IInv, NEW p \in Rpcs, Provision(p) \/ CommitCreate(p)
  PROVE  IInv'
<1>1. p \in Procs
  BY DEF Procs
<1>2. CASE Provision(p)
  <2>1. req[p].arg \in Tasks /\ Good(snap[p])
    BY <1>1, <1>2 DEF IInv, ProcInv, Shaped, Provision, TaskSteps
  <2>2. disk' \in [Tasks -> {"none", "attached", "detached"}]
    BY <1>2, <2>1 DEF IInv, EnvInv, Provision
  <2>3. ProcInv'
    BY <1>1, <1>2, <2>1, FinishInv, ProceedInv DEF IInv, Provision, Steps
  <2> QED
    BY <1>2, <2>2, <2>3, DiskStepInv DEF Provision
<1>3. CASE CommitCreate(p)
  <2> DEFINE s == SetStatus(snap[p], req[p].arg, "active")
  <2>1. req[p].arg \in Tasks /\ Good(snap[p])
    BY <1>1, <1>3 DEF IInv, ProcInv, Shaped, CommitCreate, TaskSteps
  <2>2. Good(s)
    BY <2>1, ActivatedGood
  <2>3. db' \in {db, s} /\ (Finish(p) \/ Proceed(p, s, "entering"))
    BY <1>3 DEF CommitCreate, Commit
  <2>4. ProcInv'
    BY <1>1, <2>1, <2>2, <2>3, FinishInv, ProceedInv DEF IInv, Steps
  <2> QED
    BY <1>3, <2>2, <2>3, <2>4, DbStepInv DEF CommitCreate
<1> QED
  BY <1>2, <1>3

LEMMA EnterInv ==
  ASSUME IInv, NEW p \in Rpcs, EnterLoad(p) \/ CommitSwitch(p)
  PROVE  IInv'
<1>1. p \in Procs
  BY DEF Procs
<1>2. CASE EnterLoad(p)
  <2>1. req[p].arg \in Tasks /\ Good(db)
    BY <1>1, <1>2 DEF IInv, ProcInv, Shaped, EnterLoad, TaskSteps
  <2>2. CASE db.status[req[p].arg] = "active"
    <3>1. req[p].arg \in Live(db) /\ Proceed(p, db, "switching")
      BY <1>2, <2>1, <2>2 DEF EnterLoad, Live
    <3>2. ProcInv'
      BY <1>1, <2>1, <3>1, ProceedInv DEF IInv, Steps
    <3> QED
      BY <1>2, <2>1, <3>2, DbStepInv DEF EnterLoad
  <2>3. CASE db.status[req[p].arg] # "active"
    <3>1. ProcInv'
      BY <1>1, <1>2, <2>3, FinishInv DEF IInv, EnterLoad
    <3> QED
      BY <1>2, <2>1, <3>1, DbStepInv DEF EnterLoad
  <2> QED
    BY <2>2, <2>3
<1>3. CASE CommitSwitch(p)
  <2>1. Good(snap[p]) /\ req[p].arg \in Live(snap[p])
    BY <1>1, <1>3 DEF IInv, ProcInv, Shaped, CommitSwitch
  <2>2. PICK s \in Entered(snap[p], req[p].arg) : Commit(p, s, Finish(p))
    BY <1>3 DEF CommitSwitch
  <2>3. Good(s)
    BY <2>1, <2>2, EnteredGood
  <2>4. db' \in {db, s} /\ Finish(p)
    BY <2>2 DEF Commit
  <2>5. ProcInv'
    BY <1>1, <2>4, FinishInv DEF IInv
  <2> QED
    BY <1>3, <2>3, <2>4, <2>5, DbStepInv DEF CommitSwitch
<1> QED
  BY <1>2, <1>3

LEMMA LeaveInv ==
  ASSUME IInv, NEW p \in Rpcs, CommitLeave(p) \/ CommitFollow(p)
  PROVE  IInv'
<1>1. p \in Procs /\ Good(snap[p])
  BY DEF Procs, IInv, ProcInv
<1>2. CASE CommitLeave(p)
  <2>1. PICK s \in SetTaskspace(snap[p], Default) : Commit(p, s, Finish(p))
    BY <1>2 DEF CommitLeave
  <2>2. Good(s)
    BY <1>1, <2>1, SetTaskspaceGood DEF Spaces
  <2>3. db' \in {db, s} /\ Finish(p)
    BY <2>1 DEF Commit
  <2>4. ProcInv'
    BY <1>1, <2>3, FinishInv DEF IInv
  <2> QED
    BY <1>2, <2>2, <2>3, <2>4, DbStepInv DEF CommitLeave
<1>3. CASE CommitFollow(p)
  <2>1. PICK s \in Followed(snap[p], req[p].arg) : Commit(p, s, Finish(p))
    BY <1>3 DEF CommitFollow
  <2>2. Good(s)
    BY <1>1, <2>1, FollowedGood
  <2>3. db' \in {db, s} /\ Finish(p)
    BY <2>1 DEF Commit
  <2>4. ProcInv'
    BY <1>1, <2>3, FinishInv DEF IInv
  <2> QED
    BY <1>3, <2>2, <2>3, <2>4, DbStepInv DEF CommitFollow
<1> QED
  BY <1>2, <1>3

LEMMA ArchiveInv ==
  ASSUME IInv, NEW p \in Rpcs \cup {Main}, ArchiveStep(p)
  PROVE  IInv'
<1>1. p \in Procs /\ Good(snap[p])
  BY DEF Procs, IInv, ProcInv
<1>2. req[p].arg \in Tasks
  BY <1>1 DEF ArchiveStep, PrepareArchive, ArchiveTeardown, CompleteLoad, CommitArchive,
              IInv, ProcInv, Shaped, TaskSteps
<1>3. CASE PrepareArchive(p)
  <2>1. CASE \E s \in SetTaskspace(snap[p], Default) : Commit(p, s, Suspend(p, "teardown"))
    <3>1. PICK s \in SetTaskspace(snap[p], Default) : Commit(p, s, Suspend(p, "teardown"))
      BY <2>1
    <3>2. Good(s)
      BY <1>1, <3>1, SetTaskspaceGood DEF Spaces
    <3>3. db' \in {db, s} /\ (Finish(p) \/ Suspend(p, "teardown"))
      BY <3>1 DEF Commit
    <3>4. ProcInv'
      BY <1>1, <1>2, <3>3, FinishInv, SuspendInv DEF IInv
    <3> QED
      BY <1>3, <3>2, <3>3, <3>4, DbStepInv DEF PrepareArchive
  <2>2. CASE Suspend(p, "teardown") /\ UNCHANGED db
    <3>1. ProcInv'
      BY <1>1, <1>2, <2>2, SuspendInv DEF IInv
    <3> QED
      BY <1>3, <2>2, <3>1, DbStepInv DEF PrepareArchive, IInv
  <2> QED
    BY <1>3, <2>1, <2>2 DEF PrepareArchive
<1>4. CASE ArchiveTeardown(p)
  <2>1. disk' \in [Tasks -> {"none", "attached", "detached"}]
    BY <1>2, <1>4 DEF IInv, EnvInv, ArchiveTeardown
  <2>2. ProcInv'
    BY <1>1, <1>2, <1>4, FinishInv, SuspendInv DEF IInv, ArchiveTeardown
  <2> QED
    BY <1>4, <2>1, <2>2, DiskStepInv DEF ArchiveTeardown
<1>5. CASE CompleteLoad(p)
  <2>1. CASE req[p].arg \in Live(db)
    <3>1. /\ holder' \in [Servers -> Procs \cup {None}]
          /\ pc' = [pc EXCEPT ![p] = "completing"]
          /\ snap' = [snap EXCEPT ![p] = db]
          /\ UNCHANGED req
      BY <1>5, <2>1, LockType DEF IInv, CompleteLoad, Goto
    <3>2. pc' \in [Procs -> Steps] /\ snap' \in [Procs -> Session]
      BY <1>1, <3>1 DEF IInv, ProcInv, Steps, Good
    <3>3. ASSUME NEW q \in Procs PROVE Good(snap'[q]) /\ Shaped(q)'
      <4>1. CASE q = p
        BY <1>2, <2>1, <3>1, <4>1 DEF IInv, ProcInv, Shaped
      <4>2. CASE q # p
        BY <3>1, <4>2 DEF IInv, ProcInv, Shaped
      <4> QED
        BY <4>1, <4>2
    <3>4. ProcInv'
      BY <3>1, <3>2, <3>3 DEF IInv, ProcInv
    <3> QED
      BY <1>5, <3>4, DbStepInv DEF CompleteLoad, IInv
  <2>2. CASE req[p].arg \notin Live(db)
    <3>1. ProcInv'
      BY <1>1, <1>5, <2>2, FinishInv DEF IInv, CompleteLoad
    <3> QED
      BY <1>5, <3>1, DbStepInv DEF CompleteLoad, IInv
  <2> QED
    BY <2>1, <2>2
<1>6. CASE CommitArchive(p)
  <2> DEFINE s == Archived(snap[p], req[p].arg)
  <2>1. req[p].arg \in Live(snap[p])
    BY <1>1, <1>6 DEF IInv, ProcInv, Shaped, CommitArchive
  <2>2. Good(s)
    BY <1>1, <2>1, ArchivedGood
  <2>3. db' \in {db, s} /\ Finish(p)
    BY <1>6 DEF CommitArchive, Commit
  <2>4. ProcInv'
    BY <1>1, <2>3, FinishInv DEF IInv
  <2> QED
    BY <1>6, <2>2, <2>3, <2>4, DbStepInv DEF CommitArchive
<1> QED
  BY <1>3, <1>4, <1>5, <1>6 DEF ArchiveStep

LEMMA RestoreInv ==
  ASSUME IInv, NEW p \in Rpcs, Reattach(p) \/ CommitRestore(p)
  PROVE  IInv'
<1>1. p \in Procs /\ Good(snap[p])
  BY DEF Procs, IInv, ProcInv
<1>2. req[p].arg \in Tasks
  BY <1>1 DEF Reattach, CommitRestore, IInv, ProcInv, Shaped, TaskSteps
<1>3. CASE Reattach(p)
  <2>1. disk' \in [Tasks -> {"none", "attached", "detached"}]
    BY <1>2, <1>3 DEF IInv, EnvInv, Reattach
  <2>2. ProcInv'
    BY <1>1, <1>2, <1>3, FinishInv, ProceedInv DEF IInv, Reattach, Steps
  <2> QED
    BY <1>3, <2>1, <2>2, DiskStepInv DEF Reattach
<1>4. CASE CommitRestore(p)
  <2> DEFINE s == SetStatus(snap[p], req[p].arg, "active")
  <2>1. Good(s)
    BY <1>1, <1>2, ActivatedGood
  <2>2. db' \in {db, s} /\ (Finish(p) \/ Proceed(p, s, "entering"))
    BY <1>4 DEF CommitRestore, Commit
  <2>3. ProcInv'
    BY <1>1, <1>2, <2>1, <2>2, FinishInv, ProceedInv DEF IInv, Steps
  <2> QED
    BY <1>4, <2>1, <2>2, <2>3, DbStepInv DEF CommitRestore
<1> QED
  BY <1>3, <1>4

LEMMA DeleteInv ==
  ASSUME IInv, NEW p \in Rpcs, LeaveDeleted(p) \/ RemoveHome(p) \/ CommitDelete(p)
  PROVE  IInv'
<1>1. p \in Procs /\ Good(snap[p])
  BY DEF Procs, IInv, ProcInv
<1>2. req[p].arg \in Tasks
  BY <1>1 DEF LeaveDeleted, RemoveHome, CommitDelete, IInv, ProcInv, Shaped, TaskSteps
<1>3. CASE LeaveDeleted(p)
  <2>1. CASE \E s \in SetTaskspace(snap[p], Default) : Commit(p, s, Proceed(p, s, "removing"))
    <3>1. PICK s \in SetTaskspace(snap[p], Default) : Commit(p, s, Proceed(p, s, "removing"))
      BY <2>1
    <3>2. Good(s)
      BY <1>1, <3>1, SetTaskspaceGood DEF Spaces
    <3>3. db' \in {db, s} /\ (Finish(p) \/ Proceed(p, s, "removing"))
      BY <3>1 DEF Commit
    <3>4. ProcInv'
      BY <1>1, <1>2, <3>2, <3>3, FinishInv, ProceedInv DEF IInv, Steps
    <3> QED
      BY <1>3, <3>2, <3>3, <3>4, DbStepInv DEF LeaveDeleted
  <2>2. CASE Proceed(p, snap[p], "removing") /\ UNCHANGED db
    <3>1. ProcInv'
      BY <1>1, <1>2, <2>2, ProceedInv DEF IInv, Steps
    <3> QED
      BY <1>3, <2>2, <3>1, DbStepInv DEF LeaveDeleted, IInv
  <2> QED
    BY <1>3, <2>1, <2>2 DEF LeaveDeleted
<1>4. CASE RemoveHome(p)
  <2>1. disk' \in [Tasks -> {"none", "attached", "detached"}]
    BY <1>2, <1>4 DEF IInv, EnvInv, RemoveHome
  <2>2. ProcInv'
    BY <1>1, <1>2, <1>4, FinishInv, ProceedInv DEF IInv, RemoveHome, Steps
  <2> QED
    BY <1>4, <2>1, <2>2, DiskStepInv DEF RemoveHome
<1>5. CASE CommitDelete(p)
  <2> DEFINE s == Deleted(snap[p], req[p].arg)
  <2>1. Good(s)
    BY <1>1, <1>2, DeletedGood
  <2>2. db' \in {db, s} /\ Finish(p)
    BY <1>5 DEF CommitDelete, Commit
  <2>3. ProcInv'
    BY <1>1, <2>2, FinishInv DEF IInv
  <2> QED
    BY <1>5, <2>1, <2>2, <2>3, DbStepInv DEF CommitDelete
<1> QED
  BY <1>3, <1>4, <1>5

LEMMA MemoryInv ==
  ASSUME IInv, NEW p \in Rpcs \cup Writers, MemoryStep(p)
  PROVE  IInv'
<1>1. p \in Procs /\ Good(snap[p]) /\ Good(db)
  BY DEF Procs, IInv, ProcInv
<1>2. CASE RememberLoad(p)
  <2> DEFINE step == Then(p, "remembering")
  <2>1. step \in Steps \ {"waiting", "switching", "completing"} /\ step \notin TaskSteps
    BY DEF Then, Reading, Steps, TaskSteps
  <2>2. ProcInv'
    BY <1>1, <1>2, <2>1, FetchedGood, ProceedInv DEF IInv, RememberLoad
  <2> QED
    BY <1>1, <1>2, <2>2, DbStepInv DEF RememberLoad
<1>3. CASE RememberReload(p)
  <2> DEFINE same == db.cur = req[p].arg
             s == IF same THEN snap[p] ELSE Fetched(p)
             step == IF same THEN "saving" ELSE Then(p, "saving")
  <2>1. /\ Good(s)
        /\ step \in {"saving", "rereading"}
        /\ pc' = [pc EXCEPT ![p] = step]
        /\ snap' = [snap EXCEPT ![p] = s]
    <3>1. Good(s)
      BY <1>1, FetchedGood
    <3>2. step \in {"saving", "rereading"}
      BY DEF Then, Reading
    <3> QED
      BY <1>3, <3>1, <3>2 DEF RememberReload, Goto
  <2> HIDE DEF same, s, step
  <2>2. req' = [req EXCEPT ![p].arg = snap[p].cur] /\ snap[p].cur \in Spaces
    BY <1>1, <1>3 DEF RememberReload, Good, Session
  <2>3. pc' \in [Procs -> Steps] /\ req' \in [Procs -> Requests] /\ snap' \in [Procs -> Session]
    BY <1>1, <2>1, <2>2 DEF IInv, ProcInv, Steps, Requests, Good
  <2>4. ASSUME NEW q \in Procs PROVE Good(snap'[q]) /\ Shaped(q)'
    <3>1. CASE q = p
      BY <1>1, <2>1, <3>1 DEF IInv, ProcInv, Shaped, TaskSteps
    <3>2. CASE q # p
      BY <2>1, <2>2, <3>2 DEF IInv, ProcInv, Shaped
    <3> QED
      BY <3>1, <3>2
  <2>5. ProcInv'
    BY <1>3, <2>3, <2>4 DEF IInv, ProcInv, RememberReload
  <2> QED
    BY <1>1, <1>3, <2>5, DbStepInv DEF RememberReload
<1>4. CASE SaveUpkeep(p)
  <2>1. PICK c \in CurAfter(snap[p], req[p]) :
          LET s == [snap[p] EXCEPT !.cur = c] IN
          \E k \in KeysAfter(s, req[p].kind), w \in WinsAfter(s, req[p].kind) :
            Commit(p, [s EXCEPT !.keys = k, !.wins = w], Finish(p))
    BY <1>4 DEF SaveUpkeep
  <2> DEFINE s == [snap[p] EXCEPT !.cur = c]
  <2>2. Good(s)
    BY <1>1, CurAfterGood
  <2>3. PICK k \in KeysAfter(s, req[p].kind), w \in WinsAfter(s, req[p].kind) :
          Commit(p, [s EXCEPT !.keys = k, !.wins = w], Finish(p))
    BY <2>1
  <2> DEFINE r == [s EXCEPT !.keys = k, !.wins = w]
  <2>4. Good(r)
    BY <2>2, <2>3, UpkeepGood
  <2>5. db' \in {db, r} /\ Finish(p)
    BY <2>3 DEF Commit
  <2>6. ProcInv'
    BY <1>1, <2>5, FinishInv DEF IInv
  <2> QED
    BY <1>4, <2>4, <2>5, <2>6, DbStepInv DEF SaveUpkeep
<1> QED
  BY <1>2, <1>3, <1>4 DEF MemoryStep

LEMMA WriterInv ==
  ASSUME IInv, NEW w \in Writers, WriterLoad(w)
  PROVE  IInv'
<1>1. w \in Procs /\ Good(db)
  BY DEF Procs, IInv
<1>2. PICK kind \in WriterKinds, step \in {"keyed", "rereading"} :
        /\ pc' = [pc EXCEPT ![w] = step]
        /\ req' = [req EXCEPT ![w] = [kind |-> kind, arg |-> IF kind \in MemoryKinds THEN db.cur ELSE Default]]
  BY DEF WriterLoad, Goto
<1>3. Good(SessionRow(db))
  BY <1>1, FetchedGood DEF Fetched
<1>4. db.cur \in Spaces /\ Default \in Spaces
  BY <1>1 DEF Good, Session, Spaces
<1>5. pc' \in [Procs -> Steps] /\ req' \in [Procs -> Requests]
  BY <1>2, <1>4 DEF IInv, ProcInv, Steps, Requests, Kinds
<1>6. snap' = [snap EXCEPT ![w] = SessionRow(db)] /\ snap' \in [Procs -> Session]
  BY <1>3 DEF IInv, ProcInv, WriterLoad, Good
<1>7. ASSUME NEW q \in Procs PROVE Good(snap'[q]) /\ Shaped(q)'
  <2>1. CASE q = w
    BY <1>1, <1>2, <1>3, <1>6, <2>1 DEF IInv, ProcInv, Shaped, TaskSteps
  <2>2. CASE q # w
    BY <1>2, <1>6, <2>2 DEF IInv, ProcInv, Shaped
  <2> QED
    BY <2>1, <2>2
<1>8. ProcInv'
  BY <1>5, <1>6, <1>7 DEF IInv, ProcInv, WriterLoad
<1> QED
  BY <1>1, <1>8, DbStepInv DEF WriterLoad

LEMMA LoadRowsInv ==
  ASSUME IInv, NEW w \in Writers, LoadRows(w)
  PROVE  IInv'
<1>1. w \in Procs /\ Good(db) /\ Good(snap[w])
  BY DEF Procs, IInv, ProcInv
<1> DEFINE s == [snap[w] EXCEPT !.status = db.status, !.wins = db.wins]
<1>2. PICK step \in {"remembering", "saving"} : Proceed(w, s, step)
  BY DEF LoadRows, Reading
<1>3. Good(s)
  BY <1>1 DEF Good, Session, Alone
<1>4. ProcInv'
  BY <1>1, <1>2, <1>3, ProceedInv DEF IInv, Steps, TaskSteps
<1> QED
  BY <1>1, <1>4, DbStepInv DEF LoadRows

LEMMA KillInv ==
  ASSUME IInv, NEW dead, Kill(dead), Good(db)', bootStale' \in BOOLEAN, stops' \in Nat
  PROVE  IInv'
<1>1. EnvInv'
  BY DEF Kill, IInv, EnvInv
<1>2. pc' \in [Procs -> Steps] /\ req' \in [Procs -> Requests] /\ snap' \in [Procs -> Session]
  BY RequestTypes, EmptyGood DEF Kill, IInv, ProcInv, Steps, Good
<1>3. holder' \in [Servers -> Procs \cup {None}]
  BY DEF Kill
<1>4. ASSUME NEW q \in Procs PROVE Good(snap'[q]) /\ Shaped(q)'
  <2>1. CASE q \in dead
    <3>1. pc'[q] \in {"down", "done", "new"} /\ snap'[q] = EmptySession
      BY <2>1 DEF Kill, IInv, ProcInv
    <3> QED
      BY <3>1, EmptyGood DEF Shaped, TaskSteps
  <2>2. CASE q \notin dead
    <3>1. pc'[q] \in {"down", pc[q]} /\ snap'[q] = snap[q] /\ req'[q] = req[q]
      BY <2>2 DEF Kill, IInv, ProcInv
    <3> QED
      BY <3>1 DEF Shaped, TaskSteps, IInv, ProcInv
  <2> QED
    BY <2>1, <2>2
<1>5. ProcInv'
  BY <1>2, <1>3, <1>4 DEF ProcInv
<1> QED
  BY <1>1, <1>5 DEF IInv

\* A step of the main thread that leaves db alone and goes to a step that
\* works on no task.
LEMMA MainInv ==
  ASSUME IInv, NEW step \in {"restarting", "initializing", "booting", "recover", "serving"},
         pc' = [pc EXCEPT ![Main] = step], UNCHANGED req,
         NEW s, Good(s), snap' \in {snap, [snap EXCEPT ![Main] = s]},
         holder' \in [Servers -> Procs \cup {None}]
  PROVE  ProcInv'
<1>1. Main \in Procs
  BY DEF Procs
<1>2. pc' \in [Procs -> Steps] /\ snap' \in [Procs -> Session]
  BY <1>1 DEF IInv, ProcInv, Steps, Good
<1>3. ASSUME NEW q \in Procs PROVE Good(snap'[q]) /\ Shaped(q)'
  <2>1. CASE q = Main
    BY <1>1, <2>1 DEF IInv, ProcInv, Shaped, TaskSteps
  <2>2. CASE q # Main
    BY <2>2 DEF IInv, ProcInv, Shaped
  <2> QED
    BY <2>1, <2>2
<1> QED
  BY <1>2, <1>3 DEF IInv, ProcInv

LEMMA StartInv ==
  ASSUME IInv, StartDaemon
  PROVE  IInv'
<1>1. Main \in Procs /\ Good(db)
  BY DEF IInv, Procs
<1>2. ProcInv'
  <2>1. holder' \in [Servers -> Procs \cup {None}]
    BY LockType DEF IInv, StartDaemon
  <2>2. /\ pc' = [pc EXCEPT ![Main] = "initializing"]
        /\ snap' = [snap EXCEPT ![Main] = db]
        /\ UNCHANGED req
    BY DEF StartDaemon, Goto
  <2> QED
    BY <1>1, <2>1, <2>2, MainInv
<1> QED
  BY <1>2 DEF IInv, EnvInv, StartDaemon, MainSame, Good, Session, Consistent, Live, Active

LEMMA InitializeInv ==
  ASSUME IInv, CommitInitialize
  PROVE  IInv'
<1>1. Main \in Procs /\ Good(snap[Main]) /\ Good(db)
  BY DEF IInv, ProcInv, Procs
<1>0. PICK c \in Spaces : \E s \in Followed(snap[Main], c) :
        \/ /\ db' = s
           /\ Goto(Main, "booting")
           /\ snap' = [snap EXCEPT ![Main] = EmptySession]
           /\ UNCHANGED <<req, holder, todo>> /\ MainSame
        \/ /\ db' \in {db, s}
           /\ Kill(Rpcs \cup {Main})
           /\ UNCHANGED stops
  BY DEF CommitInitialize
<1>2. PICK s \in Followed(snap[Main], c) :
        \/ /\ db' = s
           /\ Goto(Main, "booting")
           /\ snap' = [snap EXCEPT ![Main] = EmptySession]
           /\ UNCHANGED <<req, holder, todo>> /\ MainSame
        \/ /\ db' \in {db, s}
           /\ Kill(Rpcs \cup {Main})
           /\ UNCHANGED stops
  BY <1>0
<1>3. Good(s)
  BY <1>1, FollowedGood
<1>4. Good(db)'
  BY <1>1, <1>2, <1>3 DEF Good, Session, Consistent, Live, Active
<1>5. bootStale' \in BOOLEAN /\ stops' \in Nat
  BY <1>2 DEF CommitInitialize, IInv, EnvInv, MainSame
<1>6. CASE Goto(Main, "booting") /\ snap' = [snap EXCEPT ![Main] = EmptySession]
           /\ UNCHANGED <<req, holder, todo>> /\ MainSame
  <2>1. ProcInv'
    BY <1>6, EmptyGood, MainInv DEF Goto, IInv, ProcInv
  <2> QED
    BY <1>4, <1>5, <1>6, <2>1 DEF IInv, EnvInv, MainSame
<1>7. CASE Kill(Rpcs \cup {Main})
  BY <1>4, <1>5, <1>7, KillInv
<1> QED
  BY <1>2, <1>6, <1>7

LEMMA ServeType ==
  ASSUME IInv, Serve
  PROVE  /\ pc' = [pc EXCEPT ![Main] = "serving"]
         /\ holder' \in [Servers -> Procs \cup {None}]
  BY DEF IInv, ProcInv, Serve, Goto

LEMMA RecoveryInv ==
  ASSUME IInv, BeginRecovery \/ SkipRecovery \/ RecoverNext \/ EndRecovery
  PROVE  IInv'
<1>1. Main \in Procs /\ Good(db) /\ Good(snap[Main])
  BY DEF IInv, ProcInv, Procs
<1>2. CASE BeginRecovery
  <2>1. ProcInv'
    BY <1>1, <1>2, MainInv DEF BeginRecovery, Goto, IInv, ProcInv
  <2> QED
    BY <1>2, <2>1 DEF BeginRecovery, MainSame, IInv, EnvInv, Good, Session, Consistent, Live, Active
<1>3. CASE SkipRecovery
  <2>1. ProcInv'
    BY <1>1, <1>3, MainInv, ServeType DEF SkipRecovery
  <2> QED
    BY <1>3, <2>1 DEF SkipRecovery, MainSame, IInv, EnvInv, Good, Session, Consistent, Live, Active
<1>4. CASE RecoverNext
  <2>1. PICK t \in todo :
          /\ todo' = todo \ {t}
          /\ \/ /\ req' = [req EXCEPT ![Main] = [kind |-> "archive", arg |-> t]]
                /\ snap' = [snap EXCEPT ![Main] = db]
                /\ Goto(Main, "preparing")
             \/ UNCHANGED <<req, snap, pc>>
    BY <1>4 DEF RecoverNext
  <2>2. t \in Tasks /\ UNCHANGED holder
    BY <1>4, <2>1 DEF IInv, EnvInv, RecoverNext
  <2>3. ProcInv'
    <3>1. CASE UNCHANGED <<req, snap, pc>>
      BY <2>2, <3>1 DEF IInv, ProcInv, Shaped
    <3>2. CASE /\ req' = [req EXCEPT ![Main] = [kind |-> "archive", arg |-> t]]
               /\ snap' = [snap EXCEPT ![Main] = db]
               /\ Goto(Main, "preparing")
      <4>1. pc' \in [Procs -> Steps] /\ req' \in [Procs -> Requests] /\ snap' \in [Procs -> Session]
        BY <1>1, <2>2, <3>2 DEF IInv, ProcInv, Goto, Steps, Requests, Kinds, TaskKinds, Spaces, Good
      <4>2. ASSUME NEW q \in Procs PROVE Good(snap'[q]) /\ Shaped(q)'
        <5>1. CASE q = Main
          BY <1>1, <2>2, <3>2, <5>1 DEF IInv, ProcInv, Goto, Shaped
        <5>2. CASE q # Main
          BY <3>2, <5>2 DEF IInv, ProcInv, Goto, Shaped
        <5> QED
          BY <5>1, <5>2
      <4> QED
        BY <2>2, <4>1, <4>2 DEF IInv, ProcInv
    <3> QED
      BY <2>1, <3>1, <3>2
  <2> QED
    BY <1>4, <2>1, <2>3 DEF RecoverNext, MainSame, IInv, EnvInv, Good, Session, Consistent, Live, Active
<1>5. CASE EndRecovery
  <2>1. ProcInv'
    BY <1>1, <1>5, MainInv, ServeType DEF EndRecovery
  <2>2. bootStale' \in BOOLEAN
    BY <1>5 DEF EndRecovery
  <2> QED
    BY <1>5, <2>1, <2>2 DEF EndRecovery, MainSame, IInv, EnvInv, Good, Session, Consistent, Live, Active
<1> QED
  BY <1>2, <1>3, <1>4, <1>5

LEMMA ReloadInv ==
  ASSUME IInv, Reload
  PROVE  IInv'
<1>1. Main \in Procs /\ Good(db)
  BY DEF IInv, Procs
<1>2. ProcInv'
  BY <1>1, MainInv DEF Reload, Goto, IInv, ProcInv
<1>3. server' \in Servers
  BY DEF Reload, IInv, EnvInv, Servers
<1> QED
  BY <1>2, <1>3 DEF Reload, IInv, EnvInv, Good, Session, Consistent, Live, Active

LEMMA StopInv ==
  ASSUME IInv, Stop
  PROVE  IInv'
<1>1. Good(db)' /\ stops' \in Nat /\ bootStale' \in BOOLEAN
  <2>1. Good(db)'
    BY DEF Stop, IInv, Good, Session, Consistent, Live, Active
  <2>2. stops' \in Nat
    BY DEF Stop, IInv, EnvInv
  <2>3. bootStale' \in BOOLEAN
    BY Zenon DEF Stop, IInv, EnvInv
  <2> QED
    BY <2>1, <2>2, <2>3
<1>2. Kill(Rpcs \cup {Main}) \/ Kill(Procs)
  BY DEF Stop
<1> QED
  BY <1>1, <1>2, KillInv

LEMMA StutterInv ==
  ASSUME IInv, UNCHANGED vars
  PROVE  IInv'
<1>1. ProcInv'
  BY DEF IInv, ProcInv, Shaped, vars
<1> QED
  BY <1>1 DEF IInv, EnvInv, vars, Good, Session, Consistent, Live, Active

LEMMA NextInv == IInv /\ [Next]_vars => IInv'
<1> SUFFICES ASSUME IInv, [Next]_vars PROVE IInv'
  OBVIOUS
<1>1. CASE \E p \in Rpcs \cup {Main} : ArchiveStep(p)
  BY <1>1, ArchiveInv
<1>2. CASE \E p \in Rpcs : RpcStep(p)
  BY <1>2, ReceiveInv, AdmitInv, RefuseInv, CreateInv, EnterInv, LeaveInv, RestoreInv, DeleteInv
     DEF RpcStep
<1>3. CASE \E p \in Rpcs \cup Writers : MemoryStep(p)
  BY <1>3, MemoryInv
<1>4. CASE \E w \in Writers : WriterLoad(w) \/ LoadRows(w)
  BY <1>4, WriterInv, LoadRowsInv
<1>5. CASE MainStep
  BY <1>5, StartInv, InitializeInv, RecoveryInv DEF MainStep
<1>6. CASE Reload \/ Stop
  BY <1>6, ReloadInv, StopInv
<1>7. CASE Idle \/ UNCHANGED vars
  BY <1>7, StutterInv DEF Idle
<1> QED
  BY <1>1, <1>2, <1>3, <1>4, <1>5, <1>6, <1>7 DEF Next

-----------------------------------------------------------------------------
(* The theorems. *)

LEMMA Invariance == Spec => []IInv
  BY InitInv, NextInv, PTL DEF Spec

\* Every variable of the service keeps its type in every reachable state, with
\* any number of threads, command line writers, reloads, deaths and failures.
THEOREM TypeCorrect == Spec => []TypeOK
<1>1. IInv => TypeOK
  BY DEF IInv, ProcInv, EnvInv, Good, TypeOK
<1> QED
  BY <1>1, Invariance, PTL

\* However its threads, recovery and deaths interleave, the session the daemon
\* saves never points at a deleted task (delete_task), keeps no navigation
\* memory of one (purge_task_session_keys) and attributes windows to active
\* tasks only, as long as the daemon is the only writer of state.db.
THEOREM SessionAlwaysConsistent ==
  ASSUME Alone
  PROVE  Spec => []SessionConsistent
<1>1. IInv => SessionConsistent
  BY DEF IInv, Good, SessionConsistent
<1> QED
  BY <1>1, Invariance, PTL

-----------------------------------------------------------------------------
(* Who holds the service, and what follows of its snapshot: no command line  *)
(* process writes state.db and no config change builds a second mutex; any   *)
(* number of tasks, threads, faults and deaths.                              *)

\* Steps of a thread between its lock() and the drop of the guard.
Holding == Loaded \cup {"entering"}

\* Main owns the service from its start until it serves: it spawns no thread
\* and starts no listener before.
Owns(p) == IF p = Main THEN pc[Main] # "serving" ELSE pc[p] \in Holding

Exclusive ==
    \A p \in Rpcs :
        /\ pc[p] \in Holding => holder[0] = p
        /\ pc[Main] # "serving" => pc[p] \in {"new", "done"} /\ holder[0] # p

\* A thread whose create_task has not been committed yet.
Creating(p) ==
    \/ pc[p] \in {"provision", "creating"}
    \/ pc[p] = "waiting" /\ req[p].kind = "create"

\* unique_task_id: ids are not reused, so a create in flight owns its id.
Ids ==
    /\ Live(db) \subseteq used
    /\ \A p \in Rpcs : Creating(p) => req[p].arg \in used \ Live(db)
    /\ \A p \in Rpcs : \A q \in Rpcs \ {p} :
        Creating(p) /\ Creating(q) => req[p].arg # req[q].arg

\* What the checks at admission found still holds of the snapshot.
Claim(p) ==
    LET t == req[p].arg IN
    /\ pc[p] = "switching" => snap[p].status[t] = "active"
    /\ pc[p] \in {"reattach", "restoring"} => snap[p].status[t] = "archived"
    /\ pc[p] \in {"deleting", "removing", "purging"} => snap[p].status[t] # "absent"
    /\ pc[p] \in {"keyed", "remembering"} => snap[p].cur = t

DInv ==
    /\ Exclusive
    /\ SnapshotCurrent
    /\ Ids
    /\ \A p \in Procs : Claim(p)

\* What one step may do to the registry.
RegistryStep == [Registry!Next]_(Registry!vars)

StatusStep ==
    \A t \in Tasks : db'.status[t] # db.status[t] =>
        \E p \in Procs : /\ pc'[p] # pc[p]
                         /\ req[p].arg = t
                         /\ <<pc[p], db.status[t], db'.status[t]>> \in Transitions

Effect == RegistryStep /\ StatusStep

-----------------------------------------------------------------------------
(* Two owners at once are impossible. *)

LEMMA OneServer ==
  ASSUME Alone, IInv
  PROVE  /\ Servers = {0}
         /\ server = 0
         /\ \A p \in Procs : Instance(p) = 0
  BY DEF Alone, IInv, EnvInv, Servers, Instance, Procs

LEMMA Alone1 ==
  ASSUME Alone
  PROVE  Procs = Rpcs \cup {Main} /\ Main \notin Rpcs
  BY DEF Alone, Procs

LEMMA Quiet ==
  ASSUME Alone, DInv, NEW p \in Procs, Owns(p), NEW q \in Procs \ {p}
  PROVE  ~Owns(q) /\ pc[q] \notin Loaded
<1>1. CASE p = Main
  <2>1. q \in Rpcs /\ pc[q] \in {"new", "done"}
    BY <1>1, Alone1 DEF DInv, Exclusive, Owns
  <2> QED
    BY <2>1, Alone1 DEF Owns, Holding, Loaded
<1>2. CASE p # Main
  <2>1. p \in Rpcs /\ pc[p] \in Holding /\ holder[0] = p /\ pc[Main] = "serving"
    BY <1>2, Alone1 DEF DInv, Exclusive, Owns, Holding, Loaded
  <2>2. CASE q = Main
    BY <2>1, <2>2 DEF Owns, Loaded
  <2>3. CASE q # Main
    BY <2>1, <2>3, Alone1 DEF DInv, Exclusive, Owns, Holding
  <2> QED
    BY <2>2, <2>3
<1> QED
  BY <1>1, <1>2

\* A step of p that leaves every other process alone, touches db only while p
\* owns the service, and makes no id live but the one p creates.
Local(p) ==
    /\ \A q \in Procs \ {p} : pc'[q] = pc[q] /\ req'[q] = req[q] /\ snap'[q] = snap[q]
    /\ Owns(p) \/ db' = db
    /\ \A t \in Tasks : t \in Live(db') \ Live(db) =>
        p \in Rpcs /\ Creating(p) /\ req[p].arg = t

LEMMA LocalInv ==
  ASSUME Alone, DInv, NEW p \in Procs, Local(p), UNCHANGED used,
         \A q \in Rpcs \ {p} : holder[0] = q => holder'[0] = q,
         p \in Rpcs => pc[p] \notin {"new", "done"},
         pc'[p] \in Holding /\ p # Main => holder'[0] = p,
         p = Main => pc[Main] # "serving" /\ \A q \in Rpcs : holder'[0] # q,
         p \in Rpcs /\ Creating(p)' =>
            Creating(p) /\ req'[p].arg = req[p].arg /\ req[p].arg \notin Live(db'),
         pc'[p] \in Loaded => snap'[p] = db',
         Claim(p)'
  PROVE  DInv'
<1>1. Exclusive'
  <2> SUFFICES ASSUME NEW q \in Rpcs
               PROVE  /\ pc'[q] \in Holding => holder'[0] = q
                      /\ pc'[Main] # "serving" => pc'[q] \in {"new", "done"} /\ holder'[0] # q
    BY DEF Exclusive
  <2>1. CASE p = Main
    <3>1. pc'[q] = pc[q] /\ pc[q] \in {"new", "done"}
      BY <2>1, Alone1 DEF DInv, Exclusive, Local
    <3> QED
      BY <2>1, <3>1 DEF Holding, Loaded
  <2>2. CASE p # Main
    <3>1. p \in Rpcs /\ pc[Main] = "serving" /\ pc'[Main] = pc[Main]
      BY <2>2, Alone1 DEF DInv, Exclusive, Local
    <3>2. CASE q = p
      BY <2>2, <3>1, <3>2
    <3>3. CASE q # p
      BY <3>1, <3>3, Alone1 DEF DInv, Exclusive, Local
    <3> QED
      BY <3>2, <3>3
  <2> QED
    BY <2>1, <2>2
<1>2. SnapshotCurrent'
  <2> SUFFICES ASSUME NEW q \in Procs, pc'[q] \in Loaded PROVE snap'[q] = db'
    BY DEF SnapshotCurrent
  <2>1. CASE q = p
    BY <2>1
  <2>2. CASE q # p
    <3>1. pc[q] \in Loaded /\ snap'[q] = snap[q] /\ snap[q] = db
      BY <2>2 DEF DInv, SnapshotCurrent, Local
    <3>2. ~Owns(p)
      BY <2>2, <3>1, Quiet
    <3> QED
      BY <3>1, <3>2 DEF Local
  <2> QED
    BY <2>1, <2>2
<1>3. Ids'
  <2>1. \A q \in Rpcs \ {p} : (Creating(q)' <=> Creating(q)) /\ req'[q] = req[q]
    BY Alone1 DEF Local, Creating
  <2>2. Live(db') \subseteq used
    <3> SUFFICES ASSUME NEW t \in Live(db') PROVE t \in used
      OBVIOUS
    <3>1. t \in Tasks
      BY DEF Live
    <3>2. CASE t \in Live(db)
      BY <3>2 DEF DInv, Ids
    <3>3. CASE t \notin Live(db)
      BY <3>1, <3>3 DEF DInv, Ids, Local
    <3> QED
      BY <3>2, <3>3
  <2>3. ASSUME NEW q \in Rpcs, Creating(q)' PROVE req'[q].arg \in used \ Live(db')
    <3>1. CASE q = p
      BY <2>3, <3>1 DEF DInv, Ids
    <3>2. CASE q # p
      <4>1. Creating(q) /\ req'[q] = req[q] /\ req[q].arg \in used \ Live(db)
        BY <2>1, <2>3, <3>2 DEF DInv, Ids
      <4>2. p \in Rpcs /\ Creating(p) => req[p].arg # req[q].arg
        BY <3>2, <4>1 DEF DInv, Ids
      <4>3. req[q].arg \in Live(db') => req[q].arg \in Tasks
        BY DEF Live
      <4> QED
        BY <4>1, <4>2, <4>3 DEF Local
    <3> QED
      BY <3>1, <3>2
  <2>4. ASSUME NEW q \in Rpcs, NEW r \in Rpcs \ {q}, Creating(q)', Creating(r)'
        PROVE  req'[q].arg # req'[r].arg
    <3>1. CASE q = p
      BY <2>1, <2>4, <3>1 DEF DInv, Ids
    <3>2. CASE r = p
      BY <2>1, <2>4, <3>2 DEF DInv, Ids
    <3>3. CASE q # p /\ r # p
      BY <2>1, <2>4, <3>3 DEF DInv, Ids
    <3> QED
      BY <3>1, <3>2, <3>3
  <2>5. Live(db)' = Live(db')
    BY DEF Live
  <2> QED
    BY <2>2, <2>3, <2>4, <2>5 DEF Ids
<1>4. \A q \in Procs : Claim(q)'
  <2> SUFFICES ASSUME NEW q \in Procs \ {p} PROVE Claim(q)'
    OBVIOUS
  <2> QED
    BY DEF DInv, Claim, Local
<1> QED
  BY <1>1, <1>2, <1>3, <1>4 DEF DInv
-----------------------------------------------------------------------------
(* The ways a step can end. *)

\* A process in the middle of something.
Acts(p) == IF p = Main THEN pc[Main] # "serving" ELSE pc[p] \notin {"new", "done"}

\* Only the commit of a create makes an id live.
NewIds(p) ==
    \A t \in Tasks : t \in Live(db') \ Live(db) => p \in Rpcs /\ Creating(p) /\ req[p].arg = t

LEMMA OwnsActs ==
  ASSUME NEW p \in Procs, Owns(p)
  PROVE  Acts(p)
  BY DEF Owns, Acts, Holding, Loaded

LEMMA FinishD ==
  ASSUME Alone, IInv, DInv, NEW p \in Procs, Finish(p), Acts(p), UNCHANGED used,
         Owns(p) \/ db' = db, NewIds(p)
  PROVE  DInv'
<1>1. /\ pc' = [pc EXCEPT ![p] = IF p = Main THEN "recover" ELSE "done"]
      /\ req' = [req EXCEPT ![p] = NoRequest]
      /\ snap' = [snap EXCEPT ![p] = EmptySession]
      /\ \A q \in Rpcs \ {p} : holder[0] = q => holder'[0] = q
      /\ p = Main => holder' = holder
  BY OneServer DEF Finish, Goto, Unlock
<1>2. Local(p)
  BY <1>1 DEF IInv, ProcInv, Local, NewIds
<1>3. pc'[p] \in {"recover", "done"}
  BY <1>1 DEF IInv, ProcInv
<1>4. pc'[p] \notin Holding /\ pc'[p] \notin Loaded /\ Claim(p)' /\ ~Creating(p)'
  BY <1>3 DEF Holding, Loaded, Claim, Creating
<1>5. p = Main => pc[Main] # "serving" /\ \A q \in Rpcs : holder'[0] # q
  BY <1>1 DEF Acts, DInv, Exclusive
<1> QED
  BY <1>1, <1>2, <1>4, <1>5, LocalInv DEF Acts

LEMMA SuspendD ==
  ASSUME Alone, IInv, DInv, NEW p \in Procs, NEW step \in {"teardown", "complete"},
         Suspend(p, step), Acts(p), UNCHANGED used, Owns(p) \/ db' = db, NewIds(p)
  PROVE  DInv'
<1>1. /\ pc' = [pc EXCEPT ![p] = step]
      /\ req' = req
      /\ snap' = [snap EXCEPT ![p] = EmptySession]
      /\ \A q \in Rpcs \ {p} : holder[0] = q => holder'[0] = q
      /\ p = Main => holder' = holder
  BY OneServer DEF Suspend, Goto, Unlock
<1>2. Local(p)
  BY <1>1 DEF IInv, ProcInv, Local, NewIds
<1>3. pc'[p] = step
  BY <1>1 DEF IInv, ProcInv
<1>4. pc'[p] \notin Holding /\ pc'[p] \notin Loaded /\ Claim(p)' /\ ~Creating(p)'
  BY <1>3 DEF Holding, Loaded, Claim, Creating
<1>5. p = Main => pc[Main] # "serving" /\ \A q \in Rpcs : holder'[0] # q
  BY <1>1 DEF Acts, DInv, Exclusive
<1> QED
  BY <1>1, <1>2, <1>4, <1>5, LocalInv DEF Acts

LEMMA ProceedD ==
  ASSUME Alone, IInv, DInv, NEW p \in Rpcs, NEW s, NEW step \in Holding \ {"provision"},
         Proceed(p, s, step), pc[p] \in Holding, UNCHANGED used, db' = s, NewIds(p),
         step = "creating" => pc[p] = "provision" /\ db' = db,
         step = "switching" => s.status[req[p].arg] = "active",
         step \in {"reattach", "restoring"} => s.status[req[p].arg] = "archived",
         step \in {"deleting", "removing", "purging"} => s.status[req[p].arg] # "absent",
         step \in {"keyed", "remembering"} => s.cur = req[p].arg
  PROVE  DInv'
<1>1. /\ pc' = [pc EXCEPT ![p] = step]
      /\ req' = req /\ holder' = holder
      /\ snap' = [snap EXCEPT ![p] = s]
  BY DEF Proceed, Goto
<1>2. p \in Procs /\ p # Main /\ Owns(p)
  BY DEF Procs, Owns
<1>3. Local(p)
  BY <1>1, <1>2 DEF IInv, ProcInv, Local, NewIds
<1>4. pc'[p] = step /\ snap'[p] = db' /\ holder'[0] = p
  BY <1>1, <1>2 DEF IInv, ProcInv, DInv, Exclusive
<1>5. Claim(p)'
  BY <1>1, <1>2, <1>4 DEF Claim
<1>6. Creating(p)' => Creating(p) /\ req[p].arg \notin Live(db')
  <2>1. SUFFICES ASSUME Creating(p)' PROVE Creating(p) /\ req[p].arg \notin Live(db')
    OBVIOUS
  <2>2. step = "creating"
    BY <1>4, <2>1 DEF Creating, Holding, Loaded
  <2>3. Creating(p)
    BY <2>2 DEF Creating
  <2> QED
    BY <2>2, <2>3 DEF DInv, Ids
<1> QED
  BY <1>1, <1>2, <1>3, <1>4, <1>5, <1>6, LocalInv DEF Holding, Loaded

\* lock() returns: the snapshot is the state just loaded.
LEMMA LockD ==
  ASSUME Alone, IInv, DInv, NEW p \in Procs, Acts(p), CanLock(p), Lock(p), UNCHANGED <<db, used>>,
         NEW step \in Loaded, pc' = [pc EXCEPT ![p] = step], snap' = [snap EXCEPT ![p] = db],
         \A q \in Procs \ {p} : req'[q] = req[q],
         step \in {"provision", "creating"} /\ p \in Rpcs => Creating(p) /\ req'[p].arg = req[p].arg,
         step = "switching" => db.status[req'[p].arg] = "active",
         step \in {"reattach", "restoring"} => db.status[req'[p].arg] = "archived",
         step \in {"deleting", "removing", "purging"} => db.status[req'[p].arg] # "absent",
         step \in {"keyed", "remembering"} => db.cur = req'[p].arg
  PROVE  DInv'
<1>1. holder[0] \in {None, p} /\ holder' = [holder EXCEPT ![0] = p] /\ holder'[0] = p
  BY OneServer DEF CanLock, Lock, IInv, ProcInv
<1>2. /\ \A q \in Rpcs \ {p} : holder[0] = q => holder'[0] = q
      /\ p = Main => \A q \in Rpcs : holder'[0] # q
  BY <1>1 DEF Procs
<1>3. Local(p)
  BY DEF IInv, ProcInv, Local
<1>4. pc'[p] = step /\ snap'[p] = db
  BY DEF IInv, ProcInv
<1>5. Claim(p)'
  BY <1>4 DEF Claim
<1>6. p \in Rpcs /\ Creating(p)' => Creating(p) /\ req'[p].arg = req[p].arg /\ req[p].arg \notin Live(db')
  <2>1. SUFFICES ASSUME p \in Rpcs, Creating(p)'
                 PROVE  Creating(p) /\ req'[p].arg = req[p].arg /\ req[p].arg \notin Live(db')
    OBVIOUS
  <2>2. step \in {"provision", "creating"}
    BY <1>4, <2>1 DEF Creating, Loaded
  <2> QED
    BY <2>1, <2>2 DEF DInv, Ids
<1> QED
  BY <1>1, <1>2, <1>3, <1>4, <1>5, <1>6, LocalInv DEF Acts

-----------------------------------------------------------------------------
(* What a commit does to the registry. *)

LEMMA SameEffect ==
  ASSUME UNCHANGED db
  PROVE  Effect
  BY DEF Effect, RegistryStep, StatusStep, Registry!vars

LEMMA MoveEffect ==
  ASSUME IInv, db'.status = db.status, db'.cur \in Active(db) \cup {Default, db.cur}
  PROVE  Effect
<1>1. RegistryStep
  <2>1. CASE db'.cur = db.cur
    BY <2>1 DEF RegistryStep, Registry!vars
  <2>2. CASE db'.cur = Default
    BY <2>2 DEF RegistryStep, Registry!Next, Registry!Leave
  <2>3. CASE db'.cur \in Active(db)
    BY <2>3 DEF RegistryStep, Registry!Next, Registry!Enter, Active
  <2> QED
    BY <2>1, <2>2, <2>3
<1>2. StatusStep
  BY DEF StatusStep
<1> QED
  BY <1>1, <1>2 DEF Effect

\* A commit of p that changes one row the way Transitions allows.
LEMMA RowEffect ==
  ASSUME IInv, NEW p \in Procs, NEW t \in Tasks, req[p].arg = t, pc'[p] # pc[p],
         NEW v, db'.status = [db.status EXCEPT ![t] = v],
         db.status[t] = v \/ <<pc[p], db.status[t], v>> \in Transitions
  PROVE  StatusStep
<1> SUFFICES ASSUME NEW u \in Tasks, db'.status[u] # db.status[u]
             PROVE  /\ pc'[p] # pc[p]
                    /\ req[p].arg = u
                    /\ <<pc[p], db.status[u], db'.status[u]>> \in Transitions
  BY DEF StatusStep
<1>1. db.status \in [Tasks -> Statuses]
  BY DEF IInv, Good, Session
<1>2. u = t /\ db'.status[u] = v
  BY <1>1
<1> QED
  BY <1>2
-----------------------------------------------------------------------------
(* One lemma per group of actions: a step preserves DInv and is a step of   *)
(* the registry.                                                            *)

LEMMA ReceiveD ==
  ASSUME Alone, IInv, DInv, NEW p \in Rpcs, Receive(p)
  PROVE  DInv' /\ Effect
<1>1. PICK r \in DaemonRequests :
        /\ r.kind = "create" => FreshId(r.arg)
        /\ used' = IF r.kind = "create" THEN used \cup {r.arg} ELSE used
        /\ req' = [req EXCEPT ![p] = r]
  BY DEF Receive
<1>2. /\ p \in Procs /\ p # Main /\ pc[p] = "new" /\ pc[Main] = "serving"
      /\ pc' = [pc EXCEPT ![p] = "waiting"]
      /\ UNCHANGED <<db, snap, holder>>
  BY DEF Receive, Goto, Procs
<1>3. pc'[p] = "waiting" /\ req'[p] = r /\ pc'[Main] = "serving"
      /\ \A q \in Procs \ {p} : pc'[q] = pc[q] /\ req'[q] = req[q]
  BY <1>1, <1>2 DEF IInv, ProcInv, Procs
<1>4. Exclusive'
  <2> SUFFICES ASSUME NEW q \in Rpcs, pc'[q] \in Holding PROVE holder'[0] = q
    BY <1>3 DEF Exclusive
  <2>1. q # p
    BY <1>3 DEF Holding, Loaded
  <2> QED
    BY <1>2, <1>3, <2>1 DEF DInv, Exclusive, Procs
<1>5. SnapshotCurrent'
  <2> SUFFICES ASSUME NEW q \in Procs, pc'[q] \in Loaded PROVE snap'[q] = db'
    BY DEF SnapshotCurrent
  <2>1. q # p
    BY <1>3 DEF Loaded
  <2> QED
    BY <1>2, <1>3, <2>1 DEF DInv, SnapshotCurrent
<1>6. Ids'
  <2>1. Live(db') = Live(db) /\ used \subseteq used'
    BY <1>1, <1>2 DEF Live
  <2>2. Creating(p)' => req'[p].arg \in used' \ Live(db) /\ req'[p].arg \notin used
    BY <1>1, <1>3 DEF Creating, FreshId, Live
  <2>3. \A q \in Rpcs \ {p} : Creating(q)' => Creating(q) /\ req'[q] = req[q]
    BY <1>3 DEF Creating, Procs
  <2>4. \A q \in Rpcs : Creating(q)' => req'[q].arg \in used' \ Live(db')
    BY <2>1, <2>2, <2>3 DEF DInv, Ids
  <2>5. ASSUME NEW q \in Rpcs, NEW u \in Rpcs \ {q}, Creating(q)', Creating(u)'
        PROVE  req'[q].arg # req'[u].arg
    <3>1. CASE q = p
      BY <2>2, <2>3, <2>5, <3>1 DEF DInv, Ids
    <3>2. CASE u = p
      BY <2>2, <2>3, <2>5, <3>2 DEF DInv, Ids
    <3>3. CASE q # p /\ u # p
      BY <2>3, <2>5, <3>3 DEF DInv, Ids
    <3> QED
      BY <3>1, <3>2, <3>3
  <2>6. Live(db)' = Live(db') /\ Live(db)' \subseteq used'
    BY <2>1 DEF Live, DInv, Ids
  <2> QED
    BY <2>4, <2>5, <2>6 DEF Ids
<1>7. \A q \in Procs : Claim(q)'
  BY <1>2, <1>3 DEF DInv, Claim
<1> QED
  BY <1>2, <1>4, <1>5, <1>6, <1>7, SameEffect DEF DInv

LEMMA FirstStepD ==
  ASSUME NEW k \in DOMAIN FirstStep
  PROVE  /\ FirstStep[k] \in Loaded \ {"creating", "restoring", "removing", "purging", "remembering"}
         /\ FirstStep[k] = "provision" => k = "create"
         /\ FirstStep[k] = "switching" => k = "switch"
         /\ FirstStep[k] = "reattach" => k = "restore"
         /\ FirstStep[k] = "preparing" => k = "archive"
         /\ FirstStep[k] = "deleting" => k = "delete"
         /\ FirstStep[k] = "keyed" => k \in MemoryKinds
<1>1. k \in {"create", "switch", "archive", "restore", "delete", "rename", "default", "follow",
             "remember", "goto", "reset", "windows", "topology"}
  BY DEF FirstStep
<1>2. CASE k = "create" BY <1>2 DEF FirstStep, Loaded
<1>3. CASE k = "switch" BY <1>3 DEF FirstStep, Loaded
<1>4. CASE k = "archive" BY <1>4 DEF FirstStep, Loaded
<1>5. CASE k = "restore" BY <1>5 DEF FirstStep, Loaded
<1>6. CASE k = "delete" BY <1>6 DEF FirstStep, Loaded
<1>7. CASE k = "rename" BY <1>7 DEF FirstStep, Loaded
<1>8. CASE k = "default" BY <1>8 DEF FirstStep, Loaded
<1>9. CASE k = "follow" BY <1>9 DEF FirstStep, Loaded
<1>10. CASE k = "remember" BY <1>10 DEF FirstStep, Loaded, MemoryKinds
<1>11. CASE k \in {"goto", "reset", "windows", "topology"} BY <1>11 DEF FirstStep, Loaded, MemoryKinds
<1> QED
  BY <1>1, <1>2, <1>3, <1>4, <1>5, <1>6, <1>7, <1>8, <1>9, <1>10, <1>11

LEMMA AdmitD ==
  ASSUME Alone, IInv, DInv, NEW p \in Rpcs, Admit(p)
  PROVE  DInv' /\ Effect
<1> DEFINE k == req[p].kind
           step == FirstStep[k]
<1>1. p \in Procs /\ p # Main /\ pc[p] = "waiting" /\ Acts(p)
  BY DEF Admit, Procs, Acts
<1>2. /\ req[p] \in DaemonRequests /\ Accepts(db, req[p]) /\ CanLock(p) /\ Lock(p)
      /\ pc' = [pc EXCEPT ![p] = step] /\ snap' = [snap EXCEPT ![p] = db]
      /\ req' = [req EXCEPT ![p].arg = IF k \in MemoryKinds THEN db.cur ELSE @]
      /\ UNCHANGED <<db, used>>
  BY <1>1 DEF IInv, ProcInv, Shaped, Admit, Goto, DbStep, EnvSame
<1>3. k \in DOMAIN FirstStep
  BY <1>2, RequestTypes
<1>4. /\ step \in Loaded \ {"creating", "restoring", "removing", "purging", "remembering"}
      /\ step = "provision" => k = "create"
      /\ step = "switching" => k = "switch"
      /\ step = "reattach" => k = "restore"
      /\ step = "deleting" => k = "delete"
      /\ step = "keyed" => k \in MemoryKinds
  BY <1>3, FirstStepD
<1>5. req'[p].arg = IF k \in MemoryKinds THEN db.cur ELSE req[p].arg
  BY <1>1, <1>2 DEF IInv, ProcInv
<1>6. /\ step \in {"provision", "creating"} => Creating(p) /\ req'[p].arg = req[p].arg
      /\ step = "switching" => db.status[req'[p].arg] = "active"
      /\ step \in {"reattach", "restoring"} => db.status[req'[p].arg] = "archived"
      /\ step \in {"deleting", "removing", "purging"} => db.status[req'[p].arg] # "absent"
      /\ step \in {"keyed", "remembering"} => db.cur = req'[p].arg
  BY <1>1, <1>2, <1>4, <1>5 DEF Accepts, Creating, MemoryKinds
<1>7. \A q \in Procs \ {p} : req'[q] = req[q]
  BY <1>2 DEF IInv, ProcInv
<1>8. DInv'
  BY <1>1, <1>2, <1>4, <1>6, <1>7, LockD
<1> QED
  BY <1>2, <1>8, SameEffect

LEMMA RefuseD ==
  ASSUME Alone, IInv, DInv, NEW p \in Rpcs, Refuse(p)
  PROVE  DInv' /\ Effect
<1>1. p \in Procs /\ Acts(p) /\ Finish(p) /\ UNCHANGED <<db, used>>
  BY DEF Refuse, Procs, Acts, DbStep, EnvSame
<1>2. NewIds(p)
  BY <1>1 DEF NewIds
<1> QED
  BY <1>1, <1>2, FinishD, SameEffect
\* A step inside a critical section: the snapshot is state.db.
LEMMA Section ==
  ASSUME Alone, IInv, DInv, NEW p \in Rpcs, pc[p] \in Loaded
  PROVE  /\ p \in Procs /\ Owns(p) /\ Acts(p) /\ pc[p] \in Holding
         /\ snap[p] = db
  BY OwnsActs DEF Procs, Owns, Holding, DInv, SnapshotCurrent

\* A section that ends with a commit which moves no task.
LEMMA MoveD ==
  ASSUME Alone, IInv, DInv, NEW p \in Rpcs, pc[p] \in Loaded, Finish(p), DbStep,
         NEW s, Commit(p, s, Finish(p)),
         s.status = snap[p].status, s.cur \in Active(snap[p]) \cup {Default, snap[p].cur}
  PROVE  DInv' /\ Effect
<1>1. p \in Procs /\ Owns(p) /\ Acts(p) /\ snap[p] = db
  BY Section
<1>2. db' \in {db, s}
  BY DEF Commit
<1>3. db'.status = db.status /\ db'.cur \in Active(db) \cup {Default, db.cur}
  BY <1>1, <1>2
<1>4. NewIds(p)
  BY <1>3 DEF NewIds, Live
<1>5. UNCHANGED used
  BY DEF DbStep, EnvSame
<1> QED
  BY <1>1, <1>3, <1>4, <1>5, FinishD, MoveEffect

LEMMA CreateD ==
  ASSUME Alone, IInv, DInv, NEW p \in Rpcs, Provision(p) \/ CommitCreate(p)
  PROVE  DInv' /\ Effect
<1>1. pc[p] \in {"provision", "creating"}
  BY DEF Provision, CommitCreate
<1>2. p \in Procs /\ Owns(p) /\ Acts(p) /\ pc[p] \in Holding /\ snap[p] = db
  BY <1>1, Section DEF Loaded
<1>3. UNCHANGED used
  BY DEF Provision, CommitCreate, DiskStep, DbStep, EnvSame
<1>4. CASE Provision(p)
  <2>1. UNCHANGED db /\ pc[p] = "provision" /\ (Proceed(p, snap[p], "creating") \/ Finish(p))
    BY <1>4 DEF Provision, DiskStep
  <2>2. NewIds(p)
    BY <2>1 DEF NewIds
  <2>3. CASE Finish(p)
    BY <1>2, <1>3, <2>1, <2>2, <2>3, FinishD, SameEffect
  <2>4. CASE Proceed(p, snap[p], "creating")
    <3>1. DInv'
      BY <1>2, <1>3, <2>1, <2>2, <2>4, ProceedD DEF Holding, Loaded
    <3> QED
      BY <2>1, <3>1, SameEffect
  <2> QED
    BY <2>1, <2>3, <2>4
<1>5. CASE CommitCreate(p)
  <2> DEFINE t == req[p].arg
             s == SetStatus(db, t, "active")
  <2>1. pc[p] = "creating" /\ Creating(p)
    BY <1>5 DEF CommitCreate, Creating
  <2>2. t \in Tasks /\ t \notin Live(db) /\ db.status[t] = "absent" /\ Good(db)
    BY <1>2, <2>1 DEF DInv, Ids, Live, IInv, ProcInv, Shaped, TaskSteps
  <2>3. s.status = [db.status EXCEPT ![t] = "active"] /\ s.cur = db.cur
    BY <2>2, ActivatedGood
  <2>4. \/ db' = s /\ Proceed(p, s, "entering")
        \/ db' \in {db, s} /\ Finish(p)
    BY <1>2, <1>5 DEF CommitCreate, Commit
  <2>5. pc'[p] # pc[p]
    BY <1>2, <2>1, <2>4 DEF Proceed, Finish, Goto, IInv, ProcInv
  <2>6. NewIds(p)
    <3> SUFFICES ASSUME NEW u \in Tasks, u \in Live(db') \ Live(db) PROVE u = t
      BY <2>1 DEF NewIds
    <3> QED
      BY <2>2, <2>3, <2>4 DEF Live, Good, Session
  <2>7. Effect
    <3>1. CASE db' = db
      BY <3>1, SameEffect
    <3>2. CASE db' = s
      <4>1. RegistryStep
        BY <2>2, <2>3, <3>2 DEF RegistryStep, Registry!Next, Registry!Create
      <4>2. StatusStep
        BY <1>2, <2>1, <2>2, <2>3, <2>5, <3>2, RowEffect DEF Transitions
      <4> QED
        BY <4>1, <4>2 DEF Effect
    <3> QED
      BY <2>4, <3>1, <3>2
  <2>8. DInv'
    <3>1. CASE Finish(p)
      BY <1>2, <1>3, <2>4, <2>6, <3>1, FinishD
    <3>2. CASE db' = s /\ Proceed(p, s, "entering")
      BY <1>2, <1>3, <2>6, <3>2, ProceedD DEF Holding, Loaded
    <3> QED
      BY <2>4, <3>1, <3>2
  <2> QED
    BY <2>7, <2>8
<1> QED
  BY <1>4, <1>5

LEMMA EnterD ==
  ASSUME Alone, IInv, DInv, NEW p \in Rpcs, EnterLoad(p) \/ CommitSwitch(p)
  PROVE  DInv' /\ Effect
<1>1. CASE EnterLoad(p)
  <2>1. /\ p \in Procs /\ Owns(p) /\ Acts(p) /\ pc[p] = "entering" /\ pc[p] \in Holding
        /\ UNCHANGED <<db, used>> /\ NewIds(p)
    BY <1>1, OwnsActs DEF EnterLoad, DbStep, EnvSame, NewIds, Procs, Owns, Holding
  <2>2. CASE db.status[req[p].arg] = "active"
    <3>1. Proceed(p, db, "switching")
      BY <1>1, <2>2 DEF EnterLoad
    <3>2. DInv'
      BY <2>1, <2>2, <3>1, ProceedD DEF Holding, Loaded
    <3> QED
      BY <2>1, <3>2, SameEffect
  <2>3. CASE db.status[req[p].arg] # "active"
    BY <1>1, <2>1, <2>3, FinishD, SameEffect DEF EnterLoad
  <2> QED
    BY <2>2, <2>3
<1>2. CASE CommitSwitch(p)
  <2>1. pc[p] = "switching" /\ pc[p] \in Loaded /\ p \in Procs
    BY <1>2 DEF CommitSwitch, Loaded, Procs
  <2>2. /\ Good(snap[p]) /\ req[p].arg \in Live(snap[p]) /\ req[p].arg \in Tasks
        /\ snap[p].status[req[p].arg] = "active"
    BY <2>1 DEF IInv, ProcInv, Shaped, DInv, Claim, TaskSteps
  <2>3. PICK s \in Entered(snap[p], req[p].arg) : Commit(p, s, Finish(p))
    BY <1>2 DEF CommitSwitch
  <2>4. s.status = snap[p].status /\ s.cur = req[p].arg /\ req[p].arg \in Active(snap[p])
    BY <2>2, <2>3, EnteredGood DEF Active
  <2>5. Finish(p) /\ DbStep
    BY <1>2, <2>3 DEF CommitSwitch, Commit
  <2> QED
    BY <2>1, <2>3, <2>4, <2>5, MoveD
<1> QED
  BY <1>1, <1>2

LEMMA LeaveD ==
  ASSUME Alone, IInv, DInv, NEW p \in Rpcs, CommitLeave(p) \/ CommitFollow(p)
  PROVE  DInv' /\ Effect
<1>1. pc[p] \in Loaded /\ Good(snap[p]) /\ DbStep
  BY DEF CommitLeave, CommitFollow, Loaded, Procs, IInv, ProcInv
<1>2. CASE CommitLeave(p)
  <2>1. PICK s \in SetTaskspace(snap[p], Default) : Commit(p, s, Finish(p))
    BY <1>2 DEF CommitLeave
  <2>2. s.status = snap[p].status /\ s.cur = Default /\ Finish(p)
    BY <1>1, <2>1, SetTaskspaceGood DEF Commit, Spaces
  <2> QED
    BY <1>1, <2>1, <2>2, MoveD
<1>3. CASE CommitFollow(p)
  <2>1. PICK s \in Followed(snap[p], req[p].arg) : Commit(p, s, Finish(p))
    BY <1>3 DEF CommitFollow
  <2>2. s.status = snap[p].status /\ s.cur \in Active(snap[p]) \cup {Default, snap[p].cur}
        /\ Finish(p)
    BY <1>1, <2>1, FollowedGood DEF Commit
  <2> QED
    BY <1>1, <2>1, <2>2, MoveD
<1> QED
  BY <1>2, <1>3
LEMMA RestoreD ==
  ASSUME Alone, IInv, DInv, NEW p \in Rpcs, Reattach(p) \/ CommitRestore(p)
  PROVE  DInv' /\ Effect
<1>1. pc[p] \in {"reattach", "restoring"}
  BY DEF Reattach, CommitRestore
<1>2. p \in Procs /\ Owns(p) /\ Acts(p) /\ pc[p] \in Holding /\ snap[p] = db
  BY <1>1, Section DEF Loaded
<1>3. UNCHANGED used
  BY DEF Reattach, CommitRestore, DiskStep, DbStep, EnvSame
<1> DEFINE t == req[p].arg
<1>4. t \in Tasks /\ Good(db) /\ db.status[t] = "archived"
  BY <1>1, <1>2 DEF IInv, ProcInv, Shaped, TaskSteps, DInv, Claim
<1>5. CASE Reattach(p)
  <2>1. UNCHANGED db /\ (Proceed(p, snap[p], "restoring") \/ Finish(p))
    BY <1>5 DEF Reattach, DiskStep
  <2>2. NewIds(p)
    BY <2>1 DEF NewIds
  <2>3. CASE Finish(p)
    BY <1>2, <1>3, <2>1, <2>2, <2>3, FinishD, SameEffect
  <2>4. CASE Proceed(p, snap[p], "restoring")
    <3>1. DInv'
      BY <1>2, <1>3, <1>4, <2>1, <2>2, <2>4, ProceedD DEF Holding, Loaded
    <3> QED
      BY <2>1, <3>1, SameEffect
  <2> QED
    BY <2>1, <2>3, <2>4
<1>6. CASE CommitRestore(p)
  <2> DEFINE s == SetStatus(db, t, "active")
  <2>1. s.status = [db.status EXCEPT ![t] = "active"] /\ s.cur = db.cur
    BY <1>4, ActivatedGood
  <2>2. \/ db' = s /\ Proceed(p, s, "entering")
        \/ db' \in {db, s} /\ Finish(p)
    BY <1>2, <1>6 DEF CommitRestore, Commit
  <2>3. pc[p] = "restoring" /\ pc'[p] # pc[p]
    BY <1>2, <1>6, <2>2 DEF CommitRestore, Proceed, Finish, Goto, IInv, ProcInv
  <2>4. NewIds(p)
    BY <1>4, <2>1, <2>2 DEF NewIds, Live, Good, Session
  <2>5. Effect
    <3>1. CASE db' = db
      BY <3>1, SameEffect
    <3>2. CASE db' = s
      <4>1. RegistryStep
        BY <1>4, <2>1, <3>2 DEF RegistryStep, Registry!Next, Registry!Restore
      <4>2. StatusStep
        BY <1>2, <1>4, <2>1, <2>3, <3>2, RowEffect DEF Transitions
      <4> QED
        BY <4>1, <4>2 DEF Effect
    <3> QED
      BY <2>2, <3>1, <3>2
  <2>6. DInv'
    <3>1. CASE Finish(p)
      BY <1>2, <1>3, <2>2, <2>4, <3>1, FinishD
    <3>2. CASE db' = s /\ Proceed(p, s, "entering")
      BY <1>2, <1>3, <2>4, <3>2, ProceedD DEF Holding, Loaded
    <3> QED
      BY <2>2, <3>1, <3>2
  <2> QED
    BY <2>5, <2>6
<1> QED
  BY <1>5, <1>6

LEMMA DeleteD ==
  ASSUME Alone, IInv, DInv, NEW p \in Rpcs, LeaveDeleted(p) \/ RemoveHome(p) \/ CommitDelete(p)
  PROVE  DInv' /\ Effect
<1>1. pc[p] \in {"deleting", "removing", "purging"}
  BY DEF LeaveDeleted, RemoveHome, CommitDelete
<1>2. p \in Procs /\ Owns(p) /\ Acts(p) /\ pc[p] \in Holding /\ snap[p] = db
  BY <1>1, Section DEF Loaded
<1>3. UNCHANGED used
  BY DEF LeaveDeleted, RemoveHome, CommitDelete, DiskStep, DbStep, EnvSame
<1> DEFINE t == req[p].arg
<1>4. t \in Tasks /\ Good(db) /\ db.status[t] # "absent"
  BY <1>1, <1>2 DEF IInv, ProcInv, Shaped, TaskSteps, DInv, Claim
<1>5. CASE LeaveDeleted(p)
  <2>1. PICK s : /\ s.status = db.status
                 /\ s.cur \in {Default, db.cur}
                 /\ \/ db' = s /\ Proceed(p, s, "removing")
                    \/ db' \in {db, s} /\ Finish(p)
    <3>1. CASE \E r \in SetTaskspace(snap[p], Default) : Commit(p, r, Proceed(p, r, "removing"))
      <4>1. PICK r \in SetTaskspace(snap[p], Default) : Commit(p, r, Proceed(p, r, "removing"))
        BY <3>1
      <4>2. r.status = db.status /\ r.cur = Default
        BY <1>2, <1>4, <4>1, SetTaskspaceGood DEF Spaces
      <4> QED
        BY <4>1, <4>2 DEF Commit
    <3>2. CASE Proceed(p, snap[p], "removing") /\ UNCHANGED db
      BY <1>2, <3>2
    <3> QED
      BY <1>5, <3>1, <3>2 DEF LeaveDeleted
  <2>2. db'.status = db.status /\ db'.cur \in {Default, db.cur}
    BY <2>1
  <2>3. NewIds(p)
    BY <2>2 DEF NewIds, Live
  <2>4. CASE Finish(p)
    BY <1>2, <1>3, <2>2, <2>3, <2>4, FinishD, MoveEffect
  <2>5. CASE db' = s /\ Proceed(p, s, "removing")
    <3>1. s.status[t] # "absent"
      BY <1>4, <2>1
    <3>2. DInv'
      BY <1>2, <1>3, <2>3, <2>5, <3>1, ProceedD DEF Holding, Loaded
    <3> QED
      BY <2>2, <3>2, MoveEffect
  <2> QED
    BY <2>1, <2>4, <2>5
<1>6. CASE RemoveHome(p)
  <2>1. UNCHANGED db /\ (Proceed(p, snap[p], "purging") \/ Finish(p))
    BY <1>6 DEF RemoveHome, DiskStep
  <2>2. NewIds(p)
    BY <2>1 DEF NewIds
  <2>3. CASE Finish(p)
    BY <1>2, <1>3, <2>1, <2>2, <2>3, FinishD, SameEffect
  <2>4. CASE Proceed(p, snap[p], "purging")
    <3>1. DInv'
      BY <1>2, <1>3, <1>4, <2>1, <2>2, <2>4, ProceedD DEF Holding, Loaded
    <3> QED
      BY <2>1, <3>1, SameEffect
  <2> QED
    BY <2>1, <2>3, <2>4
<1>7. CASE CommitDelete(p)
  <2> DEFINE s == Deleted(db, t)
  <2>1. s.status = [db.status EXCEPT ![t] = "absent"] /\ s.cur = IF db.cur = t THEN Default ELSE db.cur
    BY <1>4, DeletedGood
  <2>2. db' \in {db, s} /\ Finish(p)
    BY <1>2, <1>7 DEF CommitDelete, Commit
  <2>3. pc[p] = "purging" /\ pc'[p] # pc[p]
    BY <1>2, <1>7, <2>2 DEF CommitDelete, Finish, Goto, IInv, ProcInv
  <2>4. NewIds(p)
    BY <1>4, <2>1, <2>2 DEF NewIds, Live, Good, Session
  <2>5. Effect
    <3>1. CASE db' = db
      BY <3>1, SameEffect
    <3>2. CASE db' = s
      <4>1. RegistryStep
        BY <1>4, <2>1, <3>2 DEF RegistryStep, Registry!Next, Registry!Delete
      <4>2. db.status[t] \in {"active", "archived"}
        BY <1>4 DEF Good, Session, Statuses
      <4>3. StatusStep
        BY <1>2, <1>4, <2>1, <2>3, <3>2, <4>2, RowEffect DEF Transitions
      <4> QED
        BY <4>1, <4>3 DEF Effect
    <3> QED
      BY <2>2, <3>1, <3>2
  <2> QED
    BY <1>2, <1>3, <2>2, <2>4, <2>5, FinishD
<1> QED
  BY <1>5, <1>6, <1>7

LEMMA ArchiveD ==
  ASSUME Alone, IInv, DInv, NEW p \in Rpcs \cup {Main}, ArchiveStep(p)
  PROVE  DInv' /\ Effect
<1>1. pc[p] \in {"preparing", "teardown", "complete", "completing"}
  BY DEF ArchiveStep, PrepareArchive, ArchiveTeardown, CompleteLoad, CommitArchive
<1>2. /\ p \in Procs /\ Acts(p)
      /\ pc[p] \in {"preparing", "completing"} => Owns(p) /\ snap[p] = db
  BY <1>1 DEF Procs, Acts, Owns, Holding, Loaded, DInv, SnapshotCurrent
<1>3. UNCHANGED used
  BY DEF ArchiveStep, PrepareArchive, ArchiveTeardown, CompleteLoad, CommitArchive,
         DiskStep, DbStep, EnvSame
<1> DEFINE t == req[p].arg
<1>4. t \in Tasks /\ Good(db)
  BY <1>1, <1>2 DEF IInv, ProcInv, Shaped, TaskSteps
<1>5. CASE PrepareArchive(p)
  <2>1. pc[p] = "preparing"
    BY <1>5 DEF PrepareArchive
  <2>2. /\ db'.status = db.status /\ db'.cur \in {Default, db.cur}
        /\ Finish(p) \/ Suspend(p, "teardown")
    <3>1. CASE \E s \in SetTaskspace(snap[p], Default) : Commit(p, s, Suspend(p, "teardown"))
      <4>1. PICK s \in SetTaskspace(snap[p], Default) : Commit(p, s, Suspend(p, "teardown"))
        BY <3>1
      <4>2. s.status = db.status /\ s.cur = Default
        BY <1>2, <1>4, <2>1, <4>1, SetTaskspaceGood DEF Spaces
      <4> QED
        BY <4>1, <4>2 DEF Commit
    <3>2. CASE Suspend(p, "teardown") /\ UNCHANGED db
      BY <3>2
    <3> QED
      BY <1>5, <3>1, <3>2 DEF PrepareArchive
  <2>3. NewIds(p)
    BY <2>2 DEF NewIds, Live
  <2>4. DInv'
    BY <1>2, <1>3, <2>1, <2>2, <2>3, FinishD, SuspendD
  <2> QED
    BY <2>2, <2>4, MoveEffect
<1>6. CASE ArchiveTeardown(p)
  <2>1. UNCHANGED db /\ (Suspend(p, "complete") \/ Finish(p))
    BY <1>6 DEF ArchiveTeardown, DiskStep
  <2>2. NewIds(p)
    BY <2>1 DEF NewIds
  <2>3. DInv'
    BY <1>2, <1>3, <2>1, <2>2, FinishD, SuspendD
  <2> QED
    BY <2>1, <2>3, SameEffect
<1>7. CASE CompleteLoad(p)
  <2>1. UNCHANGED db /\ NewIds(p) /\ CanLock(p)
    BY <1>7 DEF CompleteLoad, NewIds
  <2>2. CASE t \in Live(db)
    <3>1. /\ Lock(p) /\ pc' = [pc EXCEPT ![p] = "completing"]
          /\ snap' = [snap EXCEPT ![p] = db] /\ UNCHANGED req
      BY <1>7, <2>2 DEF CompleteLoad, Goto
    <3>2. DInv'
      BY <1>2, <1>3, <2>1, <3>1, LockD DEF Loaded
    <3> QED
      BY <2>1, <3>2, SameEffect
  <2>3. CASE t \notin Live(db)
    BY <1>2, <1>3, <1>7, <2>1, <2>3, FinishD, SameEffect DEF CompleteLoad
  <2> QED
    BY <2>2, <2>3
<1>8. CASE CommitArchive(p)
  <2> DEFINE s == Archived(db, t)
  <2>1. pc[p] = "completing" /\ snap[p] = db /\ Owns(p) /\ db.status[t] # "absent"
    BY <1>2, <1>8 DEF CommitArchive, IInv, ProcInv, Shaped, Live
  <2>2. s.status = [db.status EXCEPT ![t] = "archived"] /\ s.cur = db.cur
    BY <1>4, <2>1, ArchivedGood DEF Live
  <2>3. db' \in {db, s} /\ Finish(p)
    BY <1>8, <2>1 DEF CommitArchive, Commit
  <2>4. pc'[p] # pc[p]
    BY <1>2, <2>1, <2>3 DEF Finish, Goto, IInv, ProcInv
  <2>5. NewIds(p)
    BY <1>4, <2>1, <2>2, <2>3 DEF NewIds, Live, Good, Session
  <2>6. Effect
    <3>1. CASE db' = db
      BY <3>1, SameEffect
    <3>2. CASE db' = s
      <4>1. RegistryStep
        BY <1>4, <2>1, <2>2, <3>2 DEF RegistryStep, Registry!Next, Registry!Archive
      <4>2. db.status[t] \in {"active", "archived"}
        BY <1>4, <2>1 DEF Good, Session, Statuses
      <4>3. StatusStep
        BY <1>2, <1>4, <2>1, <2>2, <2>4, <3>2, <4>2, RowEffect DEF Transitions
      <4> QED
        BY <4>1, <4>3 DEF Effect
    <3> QED
      BY <2>3, <3>1, <3>2
  <2> QED
    BY <1>2, <1>3, <2>1, <2>3, <2>5, <2>6, FinishD
<1> QED
  BY <1>5, <1>6, <1>7, <1>8 DEF ArchiveStep
LEMMA MemoryD ==
  ASSUME Alone, IInv, DInv, NEW p \in Rpcs, MemoryStep(p)
  PROVE  DInv' /\ Effect
<1>1. pc[p] \in {"keyed", "remembering", "saving"} /\ UNCHANGED used /\ DbStep
  BY DEF MemoryStep, RememberLoad, RememberReload, SaveUpkeep, DbStep, EnvSame
<1>2. p \in Procs /\ Owns(p) /\ Acts(p) /\ pc[p] \in Holding /\ snap[p] = db /\ Good(db)
  BY <1>1, Section DEF Loaded, IInv
<1>3. CASE RememberLoad(p) \/ RememberReload(p)
  <2>0. snap[p].cur = req[p].arg
    BY <1>2, <1>3 DEF RememberLoad, RememberReload, DInv, Claim
  <2>1. PICK step \in {"remembering", "saving"} : Proceed(p, db, step) /\ UNCHANGED db
    <3>1. Fetched(p) = db /\ \A step \in {"remembering", "saving"} : Then(p, step) = step
      BY DEF Fetched, Then, Alone
    <3>2. CASE RememberLoad(p)
      BY <3>1, <3>2 DEF RememberLoad
    <3>3. CASE RememberReload(p)
      <4>1. [req EXCEPT ![p].arg = snap[p].cur] = req
        BY <1>2, <2>0 DEF IInv, ProcInv, Requests
      <4>2. [snap EXCEPT ![p] = snap[p]] = [snap EXCEPT ![p] = db]
        BY <1>2
      <4> QED
        BY <1>2, <2>0, <3>3, <4>1, <4>2 DEF RememberReload, Proceed
    <3> QED
      BY <1>3, <3>2, <3>3
  <2>2. NewIds(p)
    BY <2>1 DEF NewIds
  <2>3. DInv'
    BY <1>1, <1>2, <2>0, <2>1, <2>2, ProceedD DEF Holding, Loaded
  <2> QED
    BY <2>1, <2>3, SameEffect
<1>4. CASE SaveUpkeep(p)
  <2>1. PICK c \in CurAfter(snap[p], req[p]) :
          LET r == [snap[p] EXCEPT !.cur = c] IN
          \E k \in KeysAfter(r, req[p].kind), w \in WinsAfter(r, req[p].kind) :
            Commit(p, [r EXCEPT !.keys = k, !.wins = w], Finish(p))
    BY <1>4 DEF SaveUpkeep
  <2> DEFINE r == [snap[p] EXCEPT !.cur = c]
  <2>2. PICK k \in KeysAfter(r, req[p].kind), w \in WinsAfter(r, req[p].kind) :
          Commit(p, [r EXCEPT !.keys = k, !.wins = w], Finish(p))
    BY <2>1
  <2> DEFINE s == [r EXCEPT !.keys = k, !.wins = w]
  <2>3. s.status = db.status /\ s.cur = c /\ c \in {db.cur, Default} \cup Active(db)
    BY <1>2, <2>1 DEF Good, Session, CurAfter
  <2>4. Finish(p)
    BY <2>2 DEF Commit
  <2>5. pc[p] \in Loaded
    BY <1>1 DEF Loaded
  <2> QED
    BY <1>1, <1>2, <2>2, <2>3, <2>4, <2>5, MoveD
<1> QED
  BY <1>3, <1>4 DEF MemoryStep

\* Death: no thread is left in a section, and the ids in flight are lost.
LEMMA KillD ==
  ASSUME Alone, IInv, DInv, NEW dead, Kill(dead), Rpcs \cup {Main} \subseteq dead,
         db'.status = db.status
  PROVE  DInv'
<1>1. \A q \in Procs : pc'[q] \in {"down", "new", "done"} /\ snap'[q] = EmptySession
  BY Alone1 DEF Kill
<1>2. used' = used /\ Live(db') = Live(db)
  BY DEF Kill, Live
<1>3. Exclusive' /\ SnapshotCurrent'
  <2>1. \A q \in Rpcs : pc'[q] \in {"new", "done"} /\ pc'[q] \notin Holding
    <3> SUFFICES ASSUME NEW q \in Rpcs PROVE pc'[q] \in {"new", "done"}
      BY DEF Holding, Loaded
    <3>1. q \in Procs /\ q # Main /\ q \in dead
      BY DEF Procs
    <3> QED
      BY <3>1 DEF Kill
  <2>2. \A q \in Rpcs : holder'[0] # q
    BY OneServer DEF Kill, Procs
  <2> QED
    BY <1>1, <2>1, <2>2 DEF Exclusive, SnapshotCurrent, Loaded
<1>4. Ids'
  <2>1. \A q \in Rpcs : ~Creating(q)'
    BY <1>1, Alone1 DEF Creating
  <2>2. Live(db)' \subseteq used'
    BY <1>2 DEF DInv, Ids, Live
  <2> QED
    BY <2>1, <2>2 DEF Ids
<1>5. \A q \in Procs : Claim(q)'
  BY <1>1 DEF Claim
<1> QED
  BY <1>3, <1>4, <1>5 DEF DInv

\* A step of Main that changes no request and no id.
LEMMA MainLocalD ==
  ASSUME Alone, IInv, DInv, pc[Main] # "serving", UNCHANGED used,
         \A q \in Procs \ {Main} : pc'[q] = pc[q] /\ req'[q] = req[q] /\ snap'[q] = snap[q],
         holder'[0] \in {holder[0], None},
         db'.status = db.status,
         pc'[Main] \in Loaded => snap'[Main] = db',
         Claim(Main)'
  PROVE  DInv'
<1>1. Main \in Procs /\ Main \notin Rpcs
  BY DEF Procs
<1>2. Local(Main)
  BY DEF Local, Owns, Live
<1>3. \A q \in Rpcs : holder'[0] # q /\ holder[0] # q
  BY DEF DInv, Exclusive, Procs
<1> QED
  BY <1>1, <1>2, <1>3, LocalInv

LEMMA MainD ==
  ASSUME Alone, IInv, DInv, MainStep
  PROVE  DInv' /\ Effect
<1>1. Main \in Procs /\ Main \notin Rpcs /\ Good(db) /\ Good(snap[Main])
  BY DEF Procs, IInv, ProcInv
<1>2. CASE StartDaemon
  <2>1. /\ pc[Main] # "serving" /\ UNCHANGED <<db, req, used>>
        /\ pc' = [pc EXCEPT ![Main] = "initializing"] /\ snap' = [snap EXCEPT ![Main] = db]
        /\ CanLock(Main) /\ Lock(Main)
    BY <1>2 DEF StartDaemon, Goto, MainSame
  <2>2. DInv'
    BY <1>1, <2>1, LockD DEF Acts, Loaded
  <2> QED
    BY <2>1, <2>2, SameEffect
<1>3. CASE CommitInitialize
  <2>1. snap[Main] = db /\ pc[Main] = "initializing"
    BY <1>1, <1>3 DEF CommitInitialize, DInv, SnapshotCurrent, Loaded
  <2>2. PICK c \in Spaces : \E s \in Followed(snap[Main], c) :
          \/ /\ db' = s
             /\ Goto(Main, "booting")
             /\ snap' = [snap EXCEPT ![Main] = EmptySession]
             /\ UNCHANGED <<req, holder, todo>> /\ MainSame
          \/ /\ db' \in {db, s}
             /\ Kill(Rpcs \cup {Main})
    BY <1>3 DEF CommitInitialize
  <2>3. PICK s \in Followed(snap[Main], c) :
          \/ /\ db' = s
             /\ Goto(Main, "booting")
             /\ snap' = [snap EXCEPT ![Main] = EmptySession]
             /\ UNCHANGED <<req, holder, todo>> /\ MainSame
          \/ /\ db' \in {db, s}
             /\ Kill(Rpcs \cup {Main})
    BY <2>2
  <2>4. s.status = db.status /\ s.cur \in Active(db) \cup {Default, db.cur}
    BY <1>1, <2>1, <2>3, FollowedGood
  <2>5. db'.status = db.status /\ db'.cur \in Active(db) \cup {Default, db.cur}
    BY <2>3, <2>4
  <2>6. CASE Kill(Rpcs \cup {Main})
    BY <2>5, <2>6, KillD, MoveEffect
  <2>7. CASE /\ Goto(Main, "booting")
             /\ snap' = [snap EXCEPT ![Main] = EmptySession]
             /\ UNCHANGED <<req, holder, todo>> /\ MainSame
    <3>1. pc'[Main] = "booting"
          /\ \A q \in Procs \ {Main} : pc'[q] = pc[q] /\ req'[q] = req[q] /\ snap'[q] = snap[q]
      BY <1>1, <2>7 DEF Goto, IInv, ProcInv
    <3>2. DInv'
      BY <2>1, <2>5, <2>7, <3>1, MainLocalD DEF MainSame, Claim, Loaded
    <3> QED
      BY <2>5, <3>2, MoveEffect
  <2> QED
    BY <2>3, <2>6, <2>7
<1>4. CASE BeginRecovery
  <2>1. pc[Main] = "booting" /\ pc'[Main] = "recover" /\ UNCHANGED <<db, req, snap, holder, used>>
        /\ \A q \in Procs \ {Main} : pc'[q] = pc[q]
    BY <1>1, <1>4 DEF BeginRecovery, Goto, MainSame, IInv, ProcInv
  <2>2. DInv'
    BY <2>1, MainLocalD DEF Claim, Loaded
  <2> QED
    BY <2>1, <2>2, SameEffect
<1>5. CASE SkipRecovery \/ EndRecovery
  <2>1. /\ pc[Main] \in {"booting", "recover"} /\ pc'[Main] = "serving"
        /\ UNCHANGED <<db, req, snap, used>>
        /\ \A q \in Procs \ {Main} : pc'[q] = pc[q]
    BY <1>1, <1>5 DEF SkipRecovery, EndRecovery, Serve, Goto, MainSame, IInv, ProcInv
  <2>2. holder'[0] \in {holder[0], None}
    BY <1>5, OneServer DEF SkipRecovery, EndRecovery, Serve, IInv, ProcInv
  <2>3. DInv'
    BY <2>1, <2>2, MainLocalD DEF Claim, Loaded
  <2> QED
    BY <2>1, <2>3, SameEffect
<1>6. CASE RecoverNext
  <2>1. PICK t \in todo :
          IF t \in Active(db)
          THEN /\ req' = [req EXCEPT ![Main] = [kind |-> "archive", arg |-> t]]
               /\ snap' = [snap EXCEPT ![Main] = db]
               /\ Goto(Main, "preparing")
          ELSE UNCHANGED <<req, snap, pc>>
    BY <1>6 DEF RecoverNext
  <2>2. pc[Main] = "recover" /\ UNCHANGED <<db, holder, used>>
    BY <1>6 DEF RecoverNext, MainSame
  <2>3. /\ \A q \in Procs \ {Main} : pc'[q] = pc[q] /\ req'[q] = req[q] /\ snap'[q] = snap[q]
        /\ pc'[Main] \in {"recover", "preparing"}
        /\ pc'[Main] = "preparing" => snap'[Main] = db
    BY <1>1, <2>1, <2>2 DEF Goto, IInv, ProcInv
  <2>4. DInv'
    BY <2>2, <2>3, MainLocalD DEF Claim, Loaded
  <2> QED
    BY <2>2, <2>4, SameEffect
<1> QED
  BY <1>2, <1>3, <1>4, <1>5, <1>6 DEF MainStep
LEMMA InitD == Init => DInv
<1> SUFFICES ASSUME Init PROVE DInv
  OBVIOUS
<1>1. \A p \in Procs : pc[p] \in {"down", "new"} /\ (p # Main => pc[p] = "new")
  BY DEF Init
<1>2. Exclusive
  BY <1>1 DEF Init, Exclusive, Holding, Loaded, Procs, Servers
<1>3. SnapshotCurrent
  BY <1>1 DEF SnapshotCurrent, Loaded
<1>4. Ids
  BY <1>1 DEF Init, Ids, Creating, Procs
<1>5. \A p \in Procs : Claim(p)
  BY <1>1 DEF Claim
<1> QED
  BY <1>2, <1>3, <1>4, <1>5 DEF DInv

LEMMA StopD ==
  ASSUME Alone, IInv, DInv, Stop
  PROVE  DInv' /\ Effect
<1>1. UNCHANGED db /\ (Kill(Rpcs \cup {Main}) \/ Kill(Procs))
  BY DEF Stop
<1>2. Rpcs \cup {Main} \subseteq Procs
  BY DEF Procs
<1> QED
  BY <1>1, <1>2, KillD, SameEffect

LEMMA StutterD ==
  ASSUME DInv, UNCHANGED vars
  PROVE  DInv' /\ Effect
<1>1. Exclusive' /\ SnapshotCurrent' /\ (\A p \in Procs : Claim(p)')
  BY DEF DInv, Exclusive, SnapshotCurrent, Claim, vars
<1>2. Ids'
  BY DEF DInv, Ids, Creating, Live, vars
<1>3. UNCHANGED db
  BY DEF vars
<1> QED
  BY <1>1, <1>2, <1>3, SameEffect DEF DInv

LEMMA NextD ==
  ASSUME Alone
  PROVE  IInv /\ DInv /\ [Next]_vars => DInv' /\ Effect
<1> SUFFICES ASSUME IInv, DInv, [Next]_vars PROVE DInv' /\ Effect
  OBVIOUS
<1>1. CASE \E p \in Rpcs \cup {Main} : ArchiveStep(p)
  BY <1>1, ArchiveD
<1>2. CASE \E p \in Rpcs : RpcStep(p)
  BY <1>2, ReceiveD, AdmitD, RefuseD, CreateD, EnterD, LeaveD, RestoreD, DeleteD DEF RpcStep
<1>3. CASE \E p \in Rpcs \cup Writers : MemoryStep(p)
  BY <1>3, MemoryD DEF Alone
<1>4. CASE \E w \in Writers : WriterLoad(w) \/ LoadRows(w)
  BY <1>4 DEF Alone
<1>5. CASE MainStep
  BY <1>5, MainD
<1>6. CASE Reload
  BY <1>6, OneServer DEF Reload, Alone
<1>7. CASE Stop
  BY <1>7, StopD
<1>8. CASE Idle \/ UNCHANGED vars
  BY <1>8, StutterD DEF Idle
<1> QED
  BY <1>1, <1>2, <1>3, <1>4, <1>5, <1>6, <1>7, <1>8 DEF Next

-----------------------------------------------------------------------------
(* The task homes.  A task that is active, or about to be saved as active,  *)
(* has its checkout attached unless the process that took it away still has *)
(* to save what became of the task.                                         *)

Ending(p, t) == req[p].arg = t /\ pc[p] \in {"complete", "completing", "purging"}

Bringing(p, t) == req[p].arg = t /\ pc[p] \in {"creating", "restoring"}

Home(t) == disk[t] = "attached" \/ \E p \in Procs : Ending(p, t)

Wanted(t) == t \in Active(db) \/ \E p \in Procs : Bringing(p, t)

\* The steps of an archive belong to an archive request, those of a delete to
\* a delete.
Kinded(p) ==
    /\ pc[p] \in {"preparing", "teardown", "complete", "completing"} => req[p].kind = "archive"
    /\ pc[p] \in {"deleting", "removing", "purging"} => req[p].kind = "delete"

HomeInv ==
    /\ \A p \in Procs : Kinded(p)
    /\ stops = 0 => \A t \in Tasks : Wanted(t) => Home(t)

\* A step of p that leaves the steps and requests of the others alone.
Others(p) == \A q \in Procs \ {p} : pc'[q] = pc[q] /\ req'[q] = req[q]

\* A task becomes active only by the commit of a process that brings it.
LEMMA HomeStep ==
  ASSUME IInv, HomeInv, StatusStep, NEW p \in Procs, Others(p), UNCHANGED stops, Kinded(p)',
         \A t \in Tasks : Bringing(p, t)' => disk'[t] = "attached",
         \A t \in Tasks : (disk[t] = "attached" \/ Ending(p, t)) /\ Wanted(t)' => Home(t)'
  PROVE  HomeInv'
<1>1. \A q \in Procs : Kinded(q)'
  BY DEF HomeInv, Others, Kinded
<1>2. ASSUME stops' = 0, NEW t \in Tasks, Wanted(t)' PROVE Home(t)'
  <2>1. CASE Bringing(p, t)'
    BY <2>1 DEF Home
  <2>2. CASE ~Bringing(p, t)'
    <3>1. Wanted(t)
      <4>1. CASE t \in Active(db')
        <5>1. db'.status[t] = "active"
          BY <4>1 DEF Active
        <5>2. CASE db.status[t] = "active"
          BY <5>2 DEF Wanted, Active
        <5>3. CASE db.status[t] # "active"
          <6>1. PICK q \in Procs : /\ req[q].arg = t
                                   /\ <<pc[q], db.status[t], "active">> \in Transitions
            BY <5>1, <5>3 DEF StatusStep
          <6>2. pc[q] \in {"creating", "restoring"}
            BY <6>1 DEF Transitions
          <6> QED
            BY <6>1, <6>2 DEF Wanted, Bringing
        <5> QED
          BY <5>2, <5>3
      <4>2. CASE t \notin Active(db')
        <5>1. PICK q \in Procs : Bringing(q, t)'
          BY <1>2, <4>2 DEF Wanted, Active
        <5>2. q # p
          BY <2>2, <5>1
        <5>3. Bringing(q, t)
          BY <5>1, <5>2 DEF Bringing, Others
        <5> QED
          BY <5>3 DEF Wanted
      <4> QED
        BY <4>1, <4>2
    <3>2. Home(t)
      BY <1>2, <3>1 DEF HomeInv
    <3>3. CASE disk[t] = "attached" \/ Ending(p, t)
      BY <1>2, <3>3
    <3>4. CASE \E q \in Procs \ {p} : Ending(q, t)
      <4>1. PICK q \in Procs \ {p} : Ending(q, t)
        BY <3>4
      <4>2. Ending(q, t)'
        BY <4>1 DEF Ending, Others
      <4> QED
        BY <4>2 DEF Home
    <3> QED
      BY <3>2, <3>3, <3>4 DEF Home
  <2> QED
    BY <2>1, <2>2
<1> QED
  BY <1>1, <1>2 DEF HomeInv

\* Most steps neither touch a task home nor end or bring a task.
LEMMA PlainH ==
  ASSUME IInv, HomeInv, StatusStep, NEW p \in Procs, Others(p), UNCHANGED <<disk, stops>>,
         pc[p] \notin {"complete", "completing", "purging"},
         pc'[p] \notin {"creating", "restoring"}, Kinded(p)'
  PROVE  HomeInv'
<1>1. \A t \in Tasks : ~Bringing(p, t)' /\ ~Ending(p, t)
  BY DEF Bringing, Ending
<1>2. \A t \in Tasks : disk[t] = "attached" => Home(t)'
  BY DEF Home
<1> QED
  BY <1>1, <1>2, HomeStep

\* While p owns the service, or can take its mutex, nobody else is bringing a
\* task.
LEMMA NoOtherBrings ==
  ASSUME Alone, IInv, DInv, NEW p \in Procs, Owns(p) \/ (Acts(p) /\ CanLock(p)), NEW t,
         NEW q \in Procs \ {p}
  PROVE  ~Bringing(q, t)
<1>1. CASE Owns(p)
  <2>1. pc[q] \notin Loaded
    BY <1>1, Quiet
  <2> QED
    BY <2>1 DEF Bringing, Loaded
<1>2. CASE Acts(p) /\ CanLock(p)
  <2>1. holder[0] \in {None} \cup ({p} \cap {Main})
    BY <1>2, OneServer DEF CanLock
  <2>2. CASE q \in Rpcs
    <3>1. holder[0] # q
      BY <2>1, <2>2 DEF Procs
    <3>2. pc[q] \notin Holding
      BY <2>2, <3>1 DEF DInv, Exclusive
    <3> QED
      BY <3>2 DEF Bringing, Holding, Loaded
  <2>3. CASE q = Main
    <3>1. p \in Rpcs /\ pc[p] \notin {"new", "done"}
      BY <1>2, <2>3, Alone1 DEF Acts
    <3>2. pc[Main] = "serving"
      BY <3>1 DEF DInv, Exclusive
    <3> QED
      BY <2>3, <3>2 DEF Bringing
  <2> QED
    BY <2>2, <2>3, Alone1
<1> QED
  BY <1>1, <1>2

\* Where the three ways of ending a step lead.
LEMMA FinishMoves ==
  ASSUME IInv, NEW p \in Procs, Finish(p)
  PROVE  /\ Others(p) /\ pc'[p] \in {"recover", "done"} /\ req'[p] = NoRequest
         /\ Kinded(p)'
  BY DEF IInv, ProcInv, Finish, Goto, Others, Kinded

LEMMA ProceedMoves ==
  ASSUME IInv, NEW p \in Procs, NEW s, NEW step, Proceed(p, s, step)
  PROVE  Others(p) /\ pc'[p] = step /\ req'[p] = req[p]
  BY DEF IInv, ProcInv, Proceed, Goto, Others

LEMMA SuspendMoves ==
  ASSUME IInv, NEW p \in Procs, NEW step, Suspend(p, step)
  PROVE  Others(p) /\ pc'[p] = step /\ req'[p] = req[p]
  BY DEF IInv, ProcInv, Suspend, Goto, Others

\* The ends of an archive and of a delete: the task is no longer active, and
\* nobody is bringing it.
LEMMA EndedH ==
  ASSUME Alone, IInv, DInv, HomeInv, StatusStep, NEW p \in Procs, Finish(p),
         Owns(p) \/ (Acts(p) /\ CanLock(p)), UNCHANGED <<disk, stops>>, req[p].arg \notin Active(db')
  PROVE  HomeInv'
<1>1. Others(p) /\ pc'[p] \in {"recover", "done"} /\ Kinded(p)'
  BY FinishMoves
<1>2. \A t \in Tasks : ~Bringing(p, t)'
  BY <1>1 DEF Bringing
<1>3. ASSUME NEW t \in Tasks, Ending(p, t) PROVE ~Wanted(t)'
  <2>1. t = req[p].arg /\ t \notin Active(db)'
    BY <1>3 DEF Ending, Active
  <2>2. ASSUME NEW q \in Procs \ {p} PROVE ~Bringing(q, t)'
    <3>1. ~Bringing(q, t)
      BY NoOtherBrings
    <3> QED
      BY <1>1, <3>1 DEF Bringing, Others
  <2> QED
    BY <1>2, <2>1, <2>2 DEF Wanted
<1>4. \A t \in Tasks : disk[t] = "attached" => Home(t)'
  BY DEF Home
<1> QED
  BY <1>1, <1>2, <1>3, <1>4, HomeStep

LEMMA CreateH ==
  ASSUME Alone, "save" \notin Faults, IInv, DInv, HomeInv, StatusStep, NEW p \in Rpcs,
         Provision(p) \/ CommitCreate(p)
  PROVE  HomeInv'
<1>1. p \in Procs
  BY DEF Procs
<1>2. CASE Provision(p)
  <2> PICK t : t = req[p].arg
    OBVIOUS
  <2>1. pc[p] = "provision" /\ UNCHANGED <<db, stops>> /\ Owns(p) /\ Creating(p) /\ t \in Tasks
    BY <1>1, <1>2, Alone1 DEF Provision, DiskStep, EnvSame, Owns, Holding, Loaded, Creating,
       IInv, ProcInv, Shaped, TaskSteps
  <2>2. t \notin Live(db)
    BY <2>1 DEF DInv, Ids
  <2>3. \A u \in Tasks : ~Ending(p, u)
    BY <2>1 DEF Ending
  <2>4. \A u \in Tasks \ {t} : disk'[u] = disk[u]
    BY <1>2, <2>1 DEF Provision, IInv, EnvInv
  <2>5. CASE disk' = [disk EXCEPT ![t] = "attached"] /\ Proceed(p, snap[p], "creating")
    <3>1. Others(p) /\ pc'[p] = "creating" /\ req'[p] = req[p]
      BY <1>1, <2>5, ProceedMoves
    <3>2. disk'[t] = "attached"
      BY <2>1, <2>5 DEF IInv, EnvInv
    <3>3. Kinded(p)' /\ \A u \in Tasks : Bringing(p, u)' => disk'[u] = "attached"
      BY <3>1, <3>2 DEF Kinded, Bringing
    <3>4. \A u \in Tasks : disk[u] = "attached" => Home(u)'
      BY <2>4, <3>2 DEF Home
    <3> QED
      BY <1>1, <2>1, <2>3, <3>1, <3>3, <3>4, HomeStep
  <2>6. CASE Finish(p)
    <3>1. Others(p) /\ pc'[p] \in {"recover", "done"} /\ Kinded(p)'
      BY <1>1, <2>6, FinishMoves
    <3>2. \A u \in Tasks : ~Bringing(p, u)'
      BY <3>1 DEF Bringing
    <3>3. ~Wanted(t)'
      <4>1. ASSUME NEW q \in Procs \ {p} PROVE ~Bringing(q, t)'
        <5>1. Owns(p)
          BY <2>1
        <5>2. ~Bringing(q, t)
          BY <1>1, <5>1, NoOtherBrings
        <5> QED
          BY <3>1, <5>2 DEF Bringing, Others
      <4>2. t \notin Active(db)'
        BY <2>1, <2>2 DEF Active, Live
      <4> QED
        BY <2>1, <3>2, <4>1, <4>2 DEF Wanted
    <3>4. \A u \in Tasks : disk[u] = "attached" /\ Wanted(u)' => Home(u)'
      BY <2>4, <3>3 DEF Home
    <3> QED
      BY <1>1, <2>1, <2>3, <3>1, <3>2, <3>4, HomeStep
  <2> QED
    BY <1>2, <2>5, <2>6 DEF Provision
<1>3. CASE CommitCreate(p)
  <2>1. PICK s : Proceed(p, s, "entering") \/ Finish(p)
    BY <1>3 DEF CommitCreate, Commit
  <2>2. Others(p) /\ pc'[p] \in {"entering", "recover", "done"}
    BY <1>1, <2>1, FinishMoves, ProceedMoves
  <2>3. pc[p] = "creating" /\ UNCHANGED <<disk, stops>> /\ Kinded(p)'
    BY <1>3, <2>2 DEF CommitCreate, DbStep, EnvSame, Kinded
  <2> QED
    BY <1>1, <2>2, <2>3, PlainH
<1> QED
  BY <1>2, <1>3

LEMMA RestoreH ==
  ASSUME Alone, "save" \notin Faults, IInv, DInv, HomeInv, StatusStep, NEW p \in Rpcs,
         Reattach(p) \/ CommitRestore(p)
  PROVE  HomeInv'
<1>1. p \in Procs
  BY DEF Procs
<1>2. CASE Reattach(p)
  <2> DEFINE t == req[p].arg
  <2>1. pc[p] = "reattach" /\ UNCHANGED <<db, stops>> /\ t \in Tasks
    BY <1>1, <1>2 DEF Reattach, DiskStep, EnvSame, IInv, ProcInv, Shaped, TaskSteps
  <2>2. \A u \in Tasks : ~Ending(p, u)
    BY <2>1 DEF Ending
  <2>3. CASE disk' = [disk EXCEPT ![t] = "attached"] /\ Proceed(p, snap[p], "restoring")
    <3>1. Others(p) /\ pc'[p] = "restoring" /\ req'[p] = req[p]
      BY <1>1, <2>3, ProceedMoves
    <3>2. disk'[t] = "attached" /\ \A u \in Tasks : disk[u] = "attached" => disk'[u] = "attached"
      BY <2>1, <2>3 DEF IInv, EnvInv
    <3>3. Kinded(p)' /\ \A u \in Tasks : Bringing(p, u)' => disk'[u] = "attached"
      BY <3>1, <3>2 DEF Kinded, Bringing
    <3>4. \A u \in Tasks : disk[u] = "attached" => Home(u)'
      BY <3>2 DEF Home
    <3> QED
      BY <1>1, <2>1, <2>2, <3>1, <3>3, <3>4, HomeStep
  <2>4. CASE Finish(p) /\ UNCHANGED disk
    <3>1. Others(p) /\ pc'[p] \in {"recover", "done"} /\ Kinded(p)'
      BY <1>1, <2>4, FinishMoves
    <3> QED
      BY <1>1, <2>1, <2>4, <3>1, PlainH
  <2> QED
    BY <1>2, <2>3, <2>4 DEF Reattach
<1>3. CASE CommitRestore(p)
  <2>1. PICK s : Proceed(p, s, "entering") \/ Finish(p)
    BY <1>3 DEF CommitRestore, Commit
  <2>2. Others(p) /\ pc'[p] \in {"entering", "recover", "done"}
    BY <1>1, <2>1, FinishMoves, ProceedMoves
  <2>3. pc[p] = "restoring" /\ UNCHANGED <<disk, stops>> /\ Kinded(p)'
    BY <1>3, <2>2 DEF CommitRestore, DbStep, EnvSame, Kinded
  <2> QED
    BY <1>1, <2>2, <2>3, PlainH
<1> QED
  BY <1>2, <1>3

\* A step that takes the task home away leads to the commit that says so.
LEMMA TakenH ==
  ASSUME IInv, HomeInv, StatusStep, NEW p \in Procs, Others(p), UNCHANGED stops,
         req'[p] = req[p], pc'[p] \in {"complete", "purging"}, Kinded(p)',
         pc[p] \notin {"complete", "completing", "purging"},
         \A u \in Tasks \ {req[p].arg} : disk'[u] = disk[u]
  PROVE  HomeInv'
<1>1. \A t \in Tasks : ~Bringing(p, t)' /\ ~Ending(p, t)
  BY DEF Bringing, Ending
<1>2. Ending(p, req[p].arg)'
  BY DEF Ending
<1>3. \A t \in Tasks : disk[t] = "attached" => Home(t)'
  BY <1>2 DEF Home
<1> QED
  BY <1>1, <1>3, HomeStep

LEMMA DeleteH ==
  ASSUME Alone, "save" \notin Faults, IInv, DInv, HomeInv, StatusStep, NEW p \in Rpcs,
         LeaveDeleted(p) \/ RemoveHome(p) \/ CommitDelete(p)
  PROVE  HomeInv'
<1>1. p \in Procs /\ Kinded(p)
  BY DEF Procs, HomeInv
<1>2. CASE LeaveDeleted(p)
  <2>1. PICK s : Proceed(p, s, "removing") \/ Finish(p)
    BY <1>2 DEF LeaveDeleted, Commit
  <2>2. pc[p] = "deleting" /\ UNCHANGED <<disk, stops>>
    BY <1>2 DEF LeaveDeleted, DbStep, EnvSame
  <2>3. CASE Proceed(p, s, "removing")
    <3>1. Others(p) /\ pc'[p] = "removing" /\ req'[p] = req[p]
      BY <1>1, <2>3, ProceedMoves
    <3>2. Kinded(p)'
      BY <1>1, <2>2, <3>1 DEF Kinded
    <3> QED
      BY <1>1, <2>2, <3>1, <3>2, PlainH
  <2>4. CASE Finish(p)
    <3>1. Others(p) /\ pc'[p] \in {"recover", "done"} /\ Kinded(p)'
      BY <1>1, <2>4, FinishMoves
    <3> QED
      BY <1>1, <2>2, <3>1, PlainH
  <2> QED
    BY <2>1, <2>3, <2>4
<1>3. CASE RemoveHome(p)
  <2>1. pc[p] = "removing" /\ UNCHANGED stops
    BY <1>3 DEF RemoveHome, DiskStep, EnvSame
  <2>2. CASE Proceed(p, snap[p], "purging")
    <3>1. Others(p) /\ pc'[p] = "purging" /\ req'[p] = req[p]
      BY <1>1, <2>2, ProceedMoves
    <3>2. Kinded(p)'
      BY <1>1, <2>1, <3>1 DEF Kinded
    <3>3. \A u \in Tasks \ {req[p].arg} : disk'[u] = disk[u]
      BY <1>3 DEF RemoveHome, Finish, Proceed, IInv, EnvInv
    <3> QED
      BY <1>1, <2>1, <3>1, <3>2, <3>3, TakenH
  <2>3. CASE Finish(p) /\ UNCHANGED disk
    <3>1. Others(p) /\ pc'[p] \in {"recover", "done"} /\ Kinded(p)'
      BY <1>1, <2>3, FinishMoves
    <3> QED
      BY <1>1, <2>1, <2>3, <3>1, PlainH
  <2> QED
    BY <1>3, <2>2, <2>3 DEF RemoveHome
<1>4. CASE CommitDelete(p)
  <2>1. pc[p] = "purging" /\ pc[p] \in Loaded /\ UNCHANGED <<disk, stops>>
    BY <1>4 DEF CommitDelete, DbStep, EnvSame, Loaded
  <2>2. Finish(p) /\ db' = Deleted(snap[p], req[p].arg)
    BY <1>4 DEF CommitDelete, Commit
  <2>3. Owns(p) /\ snap[p] = db /\ Good(db) /\ req[p].arg \in Tasks
    BY <2>1, Section DEF IInv, ProcInv, Shaped, TaskSteps
  <2>4. db'.status = [db.status EXCEPT ![req[p].arg] = "absent"]
    BY <2>2, <2>3, DeletedGood
  <2>5. req[p].arg \notin Active(db')
    BY <2>3, <2>4 DEF Active, Good, Session
  <2> QED
    BY <1>1, <2>1, <2>2, <2>3, <2>5, EndedH
<1> QED
  BY <1>2, <1>3, <1>4

LEMMA ArchiveH ==
  ASSUME Alone, "save" \notin Faults, IInv, DInv, HomeInv, StatusStep, NEW p \in Rpcs \cup {Main},
         ArchiveStep(p)
  PROVE  HomeInv'
<1>1. p \in Procs /\ Kinded(p)
  BY DEF Procs, HomeInv
<1>2. CASE PrepareArchive(p)
  <2>1. Suspend(p, "teardown") \/ Finish(p)
    BY <1>2 DEF PrepareArchive, Commit
  <2>2. pc[p] = "preparing" /\ UNCHANGED <<disk, stops>>
    BY <1>2 DEF PrepareArchive, DbStep, EnvSame
  <2>3. CASE Suspend(p, "teardown")
    <3>1. Others(p) /\ pc'[p] = "teardown" /\ req'[p] = req[p]
      BY <1>1, <2>3, SuspendMoves
    <3>2. Kinded(p)'
      BY <1>1, <2>2, <3>1 DEF Kinded
    <3> QED
      BY <1>1, <2>2, <3>1, <3>2, PlainH
  <2>4. CASE Finish(p)
    <3>1. Others(p) /\ pc'[p] \in {"recover", "done"} /\ Kinded(p)'
      BY <1>1, <2>4, FinishMoves
    <3> QED
      BY <1>1, <2>2, <3>1, PlainH
  <2> QED
    BY <2>1, <2>3, <2>4
<1>3. CASE ArchiveTeardown(p)
  <2>1. pc[p] = "teardown" /\ UNCHANGED stops
    BY <1>3 DEF ArchiveTeardown, DiskStep, EnvSame
  <2>2. CASE Suspend(p, "complete")
    <3>1. Others(p) /\ pc'[p] = "complete" /\ req'[p] = req[p]
      BY <1>1, <2>2, SuspendMoves
    <3>2. Kinded(p)'
      BY <1>1, <2>1, <3>1 DEF Kinded
    <3>3. \A u \in Tasks \ {req[p].arg} : disk'[u] = disk[u]
      BY <1>3 DEF ArchiveTeardown, IInv, EnvInv
    <3> QED
      BY <1>1, <2>1, <3>1, <3>2, <3>3, TakenH
  <2>3. CASE Finish(p) /\ UNCHANGED disk
    <3>1. Others(p) /\ pc'[p] \in {"recover", "done"} /\ Kinded(p)'
      BY <1>1, <2>3, FinishMoves
    <3> QED
      BY <1>1, <2>1, <2>3, <3>1, PlainH
  <2> QED
    BY <1>3, <2>2, <2>3 DEF ArchiveTeardown
<1>4. CASE CompleteLoad(p)
  <2>1. pc[p] = "complete" /\ CanLock(p) /\ Acts(p) /\ UNCHANGED <<db, disk, stops>>
    BY <1>4 DEF CompleteLoad, DbStep, EnvSame, Acts
  <2>2. CASE req[p].arg \in Live(db)
    <3>1. pc' = [pc EXCEPT ![p] = "completing"] /\ req' = req
      BY <1>4, <2>2 DEF CompleteLoad, Goto
    <3>2. Others(p) /\ pc'[p] = "completing"
      BY <1>1, <3>1 DEF Others, IInv, ProcInv
    <3>3. Kinded(p)'
      BY <1>1, <2>1, <3>1, <3>2 DEF Kinded
    <3>4. \A t \in Tasks : ~Bringing(p, t)'
      BY <3>2 DEF Bringing
    <3>5. ASSUME NEW t \in Tasks, disk[t] = "attached" \/ Ending(p, t) PROVE Home(t)'
      <4>1. Ending(p, t) => Ending(p, t)'
        BY <3>1, <3>2 DEF Ending
      <4> QED
        BY <1>1, <2>1, <3>5, <4>1 DEF Home
    <3> QED
      BY <1>1, <2>1, <3>2, <3>3, <3>4, <3>5, HomeStep
  <2>3. CASE req[p].arg \notin Live(db)
    <3>1. Finish(p)
      BY <1>4, <2>3 DEF CompleteLoad
    <3>2. req[p].arg \notin Active(db')
      BY <2>1, <2>3 DEF Active, Live
    <3> QED
      BY <1>1, <2>1, <3>1, <3>2, EndedH
  <2> QED
    BY <2>2, <2>3
<1>5. CASE CommitArchive(p)
  <2>1. pc[p] = "completing" /\ UNCHANGED <<disk, stops>>
    BY <1>5 DEF CommitArchive, DbStep, EnvSame
  <2>2. Finish(p) /\ db' = Archived(snap[p], req[p].arg)
    BY <1>5 DEF CommitArchive, Commit
  <2>3. Owns(p) /\ snap[p] = db /\ Good(db) /\ req[p].arg \in Live(db)
    BY <1>1, <2>1 DEF Owns, Holding, Loaded, DInv, SnapshotCurrent, IInv, ProcInv, Shaped
  <2>4. db'.status = [db.status EXCEPT ![req[p].arg] = "archived"]
    BY <2>2, <2>3, ArchivedGood
  <2>5. req[p].arg \notin Active(db')
    BY <2>3, <2>4 DEF Active, Live, Good, Session
  <2> QED
    BY <1>1, <2>1, <2>2, <2>3, <2>5, EndedH
<1> QED
  BY <1>2, <1>3, <1>4, <1>5 DEF ArchiveStep

\* The other requests: none touches a task home, ends or brings a task.
LEMMA RequestH ==
  ASSUME Alone, IInv, HomeInv, StatusStep, NEW p \in Rpcs,
         Receive(p) \/ Refuse(p) \/ EnterLoad(p) \/ CommitSwitch(p) \/ CommitLeave(p)
            \/ CommitFollow(p) \/ MemoryStep(p)
  PROVE  HomeInv'
<1>1. p \in Procs /\ p # Main
  BY DEF Procs
<1>2. UNCHANGED <<disk, stops>>
  BY DEF Receive, Refuse, EnterLoad, CommitSwitch, CommitLeave, CommitFollow, MemoryStep, RememberLoad,
     RememberReload, SaveUpkeep, DbStep, EnvSame
<1>3. pc[p] \in {"new", "waiting", "entering", "switching", "leaving", "following", "keyed",
                 "remembering", "saving"}
  BY DEF Receive, Refuse, EnterLoad, CommitSwitch, CommitLeave, CommitFollow, MemoryStep, RememberLoad,
     RememberReload, SaveUpkeep
<1>4. Others(p) /\ pc'[p] \in {"waiting", "switching", "remembering", "saving", "recover", "done"}
  <2>1. CASE Receive(p)
    BY <1>1, <2>1 DEF Receive, Goto, Others, IInv, ProcInv
  <2>2. CASE EnterLoad(p)
    <3>1. Proceed(p, db, "switching") \/ Finish(p)
      BY <2>2 DEF EnterLoad
    <3> QED
      BY <1>1, <3>1, ProceedMoves, FinishMoves
  <2>3. CASE Refuse(p) \/ CommitSwitch(p) \/ CommitLeave(p) \/ CommitFollow(p) \/ SaveUpkeep(p)
    <3>1. Finish(p)
      BY <2>3 DEF Refuse, CommitSwitch, CommitLeave, CommitFollow, SaveUpkeep, Commit
    <3> QED
      BY <1>1, <3>1, FinishMoves
  <2>4. CASE RememberLoad(p)
    <3>1. Proceed(p, Fetched(p), "remembering")
      BY <2>4 DEF RememberLoad, Then, Alone
    <3> QED
      BY <1>1, <3>1, ProceedMoves
  <2>5. CASE RememberReload(p)
    <3>1. /\ req' = [req EXCEPT ![p].arg = snap[p].cur]
          /\ pc' = [pc EXCEPT ![p] = "saving"]
      BY <2>5 DEF RememberReload, Goto, Then, Alone
    <3> QED
      BY <1>1, <3>1 DEF Others, IInv, ProcInv
  <2> QED
    BY <2>1, <2>2, <2>3, <2>4, <2>5 DEF MemoryStep
<1>5. Kinded(p)'
  BY <1>4 DEF Kinded
<1> QED
  BY <1>1, <1>2, <1>3, <1>4, <1>5, PlainH

LEMMA AdmitH ==
  ASSUME IInv, HomeInv, StatusStep, NEW p \in Rpcs, Admit(p)
  PROVE  HomeInv'
<1> DEFINE k == req[p].kind
           step == FirstStep[k]
<1>1. p \in Procs /\ pc[p] = "waiting" /\ UNCHANGED <<disk, stops>>
  BY DEF Admit, Procs, DbStep, EnvSame
<1>2. /\ req[p] \in DaemonRequests
      /\ pc' = [pc EXCEPT ![p] = step]
      /\ req' = [req EXCEPT ![p].arg = IF k \in MemoryKinds THEN db.cur ELSE @]
  BY <1>1 DEF IInv, ProcInv, Shaped, Admit, Goto
<1>3. k \in DOMAIN FirstStep
  BY <1>2, RequestTypes
<1>4. /\ step \in Loaded \ {"creating", "restoring", "removing", "purging", "remembering"}
      /\ step = "preparing" => k = "archive"
      /\ step = "deleting" => k = "delete"
      /\ step # "completing"
  BY <1>3, FirstStepD, FirstStepType
<1>5. Others(p) /\ pc'[p] = step /\ req'[p].kind = k
  BY <1>1, <1>2 DEF Others, IInv, ProcInv, Requests
<1>6. Kinded(p)' /\ pc'[p] \notin {"creating", "restoring"}
  BY <1>4, <1>5 DEF Kinded, Loaded
<1> QED
  BY <1>1, <1>5, <1>6, PlainH

LEMMA MainH ==
  ASSUME "save" \notin Faults, IInv, HomeInv, StatusStep, MainStep
  PROVE  HomeInv'
<1>1. Main \in Procs /\ UNCHANGED <<disk, stops>>
  BY DEF Procs, MainStep, StartDaemon, CommitInitialize, BeginRecovery, SkipRecovery, RecoverNext,
     EndRecovery, MainSame
<1>2. pc[Main] \in {"down", "restarting", "initializing", "booting", "recover"}
  BY DEF MainStep, StartDaemon, CommitInitialize, BeginRecovery, SkipRecovery, RecoverNext, EndRecovery
<1>3. CASE RecoverNext
  <2>1. PICK t \in todo :
          IF t \in Active(db)
          THEN /\ req' = [req EXCEPT ![Main] = [kind |-> "archive", arg |-> t]]
               /\ Goto(Main, "preparing")
          ELSE UNCHANGED <<req, pc>>
    BY <1>3 DEF RecoverNext
  <2>2. CASE t \in Active(db)
    <3>1. Others(Main) /\ pc'[Main] = "preparing" /\ req'[Main].kind = "archive"
      BY <1>1, <2>1, <2>2 DEF Goto, Others, IInv, ProcInv
    <3>2. Kinded(Main)'
      BY <3>1 DEF Kinded
    <3> QED
      BY <1>1, <1>2, <3>1, <3>2, PlainH
  <2>3. CASE t \notin Active(db)
    <3>1. Others(Main) /\ pc'[Main] = pc[Main]
      BY <2>1, <2>3 DEF Others
    <3>2. Kinded(Main)'
      BY <1>2, <3>1 DEF Kinded
    <3> QED
      BY <1>1, <1>2, <3>1, <3>2, PlainH
  <2> QED
    BY <2>2, <2>3
<1>4. CASE StartDaemon \/ CommitInitialize \/ BeginRecovery \/ SkipRecovery \/ EndRecovery
  <2>1. PICK step \in {"initializing", "booting", "recover", "serving"} :
           pc' = [pc EXCEPT ![Main] = step] /\ UNCHANGED req
    BY <1>4 DEF StartDaemon, CommitInitialize, BeginRecovery, SkipRecovery, EndRecovery, Serve, Goto
  <2>2. Others(Main) /\ pc'[Main] = step
    BY <1>1, <2>1 DEF Others, IInv, ProcInv
  <2>3. Kinded(Main)'
    BY <2>2 DEF Kinded
  <2> QED
    BY <1>1, <1>2, <2>2, <2>3, PlainH
<1> QED
  BY <1>3, <1>4 DEF MainStep

LEMMA StopH ==
  ASSUME Alone, IInv, Stop
  PROVE  HomeInv'
<1>1. stops' # 0
  BY DEF Stop, IInv, EnvInv
<1>2. PICK dead \in {Rpcs \cup {Main}, Procs} : Kill(dead)
  BY DEF Stop
<1>3. \A q \in Procs : pc'[q] \in {"down", "new", "done"}
  BY <1>2, Alone1 DEF Kill
<1>4. \A q \in Procs : Kinded(q)'
  BY <1>3 DEF Kinded
<1> QED
  BY <1>1, <1>4 DEF HomeInv

LEMMA StutterH ==
  ASSUME HomeInv, UNCHANGED vars
  PROVE  HomeInv'
  BY DEF HomeInv, Kinded, Wanted, Bringing, Home, Ending, Active, vars

LEMMA InitH == Init => HomeInv
<1> SUFFICES ASSUME Init PROVE HomeInv
  OBVIOUS
<1>1. \A p \in Procs : pc[p] \in {"down", "new"}
  BY DEF Init
<1>2. \A p \in Procs : Kinded(p)
  BY <1>1 DEF Kinded
<1>3. ASSUME NEW t \in Tasks, Wanted(t) PROVE disk[t] = "attached"
  <2>1. t \in Active(db)
    BY <1>1, <1>3 DEF Wanted, Bringing
  <2>2. db.status[t] = "active"
    BY <2>1 DEF Active
  <2> QED
    BY <2>2 DEF Init, HomeOf
<1> QED
  BY <1>2, <1>3 DEF HomeInv, Home

LEMMA NextH ==
  ASSUME Alone, "save" \notin Faults
  PROVE  IInv /\ DInv /\ HomeInv /\ [Next]_vars => HomeInv'
<1> SUFFICES ASSUME IInv, DInv, HomeInv, [Next]_vars PROVE HomeInv'
  OBVIOUS
<1>0. StatusStep
  BY NextD DEF Effect
<1>1. CASE \E p \in Rpcs \cup {Main} : ArchiveStep(p)
  BY <1>0, <1>1, ArchiveH
<1>2. ASSUME NEW p \in Rpcs, RpcStep(p) PROVE HomeInv'
  <2>1. CASE Receive(p) \/ Refuse(p) \/ EnterLoad(p) \/ CommitSwitch(p) \/ CommitLeave(p) \/ CommitFollow(p)
    BY <1>0, <2>1, RequestH
  <2>2. CASE Admit(p)
    BY <1>0, <2>2, AdmitH
  <2>3. CASE Provision(p) \/ CommitCreate(p)
    BY <1>0, <2>3, CreateH
  <2>4. CASE Reattach(p) \/ CommitRestore(p)
    BY <1>0, <2>4, RestoreH
  <2>5. CASE LeaveDeleted(p) \/ RemoveHome(p) \/ CommitDelete(p)
    BY <1>0, <2>5, DeleteH
  <2> QED
    BY <1>2, <2>1, <2>2, <2>3, <2>4, <2>5 DEF RpcStep
<1>3. CASE \E p \in Rpcs \cup Writers : MemoryStep(p)
  BY <1>0, <1>3, RequestH DEF Alone
<1>4. CASE \E w \in Writers : WriterLoad(w) \/ LoadRows(w)
  BY <1>4 DEF Alone
<1>5. CASE MainStep
  BY <1>0, <1>5, MainH
<1>6. CASE Reload
  BY <1>6, OneServer DEF Reload, Alone
<1>7. CASE Stop
  BY <1>7, StopH
<1>8. CASE Idle \/ UNCHANGED vars
  BY <1>8, StutterH DEF Idle
<1> QED
  BY <1>1, <1>2, <1>3, <1>4, <1>5, <1>6, <1>7, <1>8 DEF Next

-----------------------------------------------------------------------------
(* Recovery after a reboot.  While Main archives, each active task is still  *)
(* to be archived or the one being archived, unless a step failed.           *)

Recovering == pc[Main] \in {"recover", "preparing", "teardown", "complete", "completing"}

Met(t) == t \in todo \/ (pc[Main] # "recover" /\ req[Main].arg = t)

RecoverInv == Faults = {} /\ Recovering => \A t \in Active(db) : Met(t)

\* A thread runs only while Main serves.
LEMMA ThreadMoves ==
  ASSUME Alone, IInv, DInv, NEW p \in Rpcs, ArchiveStep(p) \/ RpcStep(p) \/ MemoryStep(p)
  PROVE  pc[Main] = "serving" /\ pc'[Main] = pc[Main] /\ UNCHANGED bootStale
<1>1. p \in Procs /\ p # Main
  BY DEF Procs
<1>2. pc[p] \notin {"new", "done"} => pc[Main] = "serving"
  BY DEF DInv, Exclusive
<1>3. CASE Receive(p)
  BY <1>1, <1>3 DEF Receive, Goto, IInv, ProcInv
<1>4. CASE Admit(p)
  BY <1>1, <1>2, <1>4 DEF Admit, Goto, IInv, ProcInv, DbStep, EnvSame
<1>5. CASE RememberReload(p)
  BY <1>1, <1>2, <1>5 DEF RememberReload, Goto, IInv, ProcInv, DbStep, EnvSame
<1>6. CASE CompleteLoad(p)
  <2>1. pc[p] = "complete" /\ UNCHANGED bootStale
    BY <1>6 DEF CompleteLoad, DbStep, EnvSame
  <2>2. \E step : pc' = [pc EXCEPT ![p] = step]
    BY <1>6 DEF CompleteLoad, Finish, Goto
  <2> QED
    BY <1>1, <1>2, <2>1, <2>2 DEF IInv, ProcInv
<1>7. CASE \/ Refuse(p) \/ Provision(p) \/ CommitCreate(p) \/ EnterLoad(p) \/ CommitSwitch(p)
           \/ CommitLeave(p) \/ Reattach(p) \/ CommitRestore(p) \/ LeaveDeleted(p) \/ RemoveHome(p)
           \/ CommitDelete(p) \/ CommitFollow(p) \/ PrepareArchive(p) \/ ArchiveTeardown(p)
           \/ CommitArchive(p) \/ RememberLoad(p) \/ SaveUpkeep(p)
  <2>1. /\ pc[p] \notin {"new", "done"} /\ UNCHANGED bootStale
        /\ Finish(p) \/ (\E s, step : Proceed(p, s, step)) \/ (\E step : Suspend(p, step))
    BY <1>7 DEF Refuse, Provision, CommitCreate, EnterLoad, CommitSwitch, CommitLeave, Reattach,
       CommitRestore, LeaveDeleted, RemoveHome, CommitDelete, CommitFollow, PrepareArchive,
       ArchiveTeardown, CommitArchive, RememberLoad, SaveUpkeep, Commit, DbStep, DiskStep, EnvSame
  <2>2. Others(p)
    BY <1>1, <2>1, FinishMoves, ProceedMoves, SuspendMoves
  <2> QED
    BY <1>1, <1>2, <2>1, <2>2 DEF Others, Procs
<1> QED
  BY <1>3, <1>4, <1>5, <1>6, <1>7 DEF ArchiveStep, RpcStep, MemoryStep

LEMMA ArchiveR ==
  ASSUME Alone, IInv, DInv, RecoverInv, Faults = {}, ArchiveStep(Main)
  PROVE  RecoverInv' /\ UNCHANGED bootStale
<1> DEFINE t == req[Main].arg
<1>1. /\ Main \in Procs
      /\ pc[Main] \in {"preparing", "teardown", "complete", "completing"} /\ UNCHANGED <<todo, bootStale>>
  BY DEF Procs, ArchiveStep, PrepareArchive, ArchiveTeardown, CompleteLoad, CommitArchive, DbStep,
     DiskStep, EnvSame
<1>2. \A u \in Active(db) : u \in todo \/ u = t
  BY <1>1 DEF RecoverInv, Recovering, Met
<1>3. CASE PrepareArchive(Main)
  <2>1. /\ \/ \E s \in SetTaskspace(snap[Main], Default) : db' = s
           \/ UNCHANGED db
        /\ Suspend(Main, "teardown") /\ pc[Main] = "preparing"
    BY <1>3 DEF PrepareArchive, Commit
  <2>2. snap[Main] = db /\ Good(db)
    BY <1>1, <2>1 DEF DInv, SnapshotCurrent, Loaded, IInv
  <2>3. db'.status = db.status
    BY <2>1, <2>2, SetTaskspaceGood DEF Spaces
  <2>4. pc'[Main] = "teardown" /\ req'[Main] = req[Main]
    BY <1>1, <2>1, SuspendMoves
  <2> QED
    BY <1>1, <1>2, <2>3, <2>4 DEF RecoverInv, Met, Active
<1>4. CASE ArchiveTeardown(Main)
  <2>1. Suspend(Main, "complete") /\ UNCHANGED db
    BY <1>4 DEF ArchiveTeardown, DiskStep
  <2>2. pc'[Main] = "complete" /\ req'[Main] = req[Main]
    BY <1>1, <2>1, SuspendMoves
  <2> QED
    BY <1>1, <1>2, <2>1, <2>2 DEF RecoverInv, Met, Active
<1>5. CASE CompleteLoad(Main)
  <2>1. UNCHANGED db
    BY <1>5 DEF CompleteLoad
  <2>2. CASE t \in Live(db)
    <3>1. pc'[Main] = "completing" /\ UNCHANGED req
      BY <1>1, <1>5, <2>2 DEF CompleteLoad, Goto, IInv, ProcInv
    <3> QED
      BY <1>1, <1>2, <2>1, <3>1 DEF RecoverInv, Met, Active
  <2>3. CASE t \notin Live(db)
    <3>1. t \notin Active(db)
      BY <2>3 DEF Active, Live
    <3>2. \A u \in Active(db) : u \in todo
      BY <1>2, <3>1
    <3> QED
      BY <1>1, <2>1, <3>2 DEF RecoverInv, Met, Active
  <2> QED
    BY <2>2, <2>3
<1>6. CASE CommitArchive(Main)
  <2>1. pc[Main] = "completing" /\ db' = Archived(snap[Main], t)
    BY <1>6 DEF CommitArchive, Commit
  <2>2. snap[Main] = db /\ Good(db) /\ t \in Live(db)
    BY <1>1, <2>1 DEF DInv, SnapshotCurrent, Loaded, IInv, ProcInv, Shaped
  <2>3. db'.status = [db.status EXCEPT ![t] = "archived"]
    BY <2>1, <2>2, ArchivedGood
  <2>4. \A u \in Active(db') : u \in Active(db) /\ u # t
    BY <2>2, <2>3 DEF Active, Live, Good, Session
  <2>5. \A u \in Active(db') : u \in todo
    BY <1>2, <2>4
  <2>6. Active(db)' = Active(db')
    BY DEF Active
  <2> QED
    BY <1>1, <2>5, <2>6 DEF RecoverInv, Met
<1> QED
  BY <1>1, <1>3, <1>4, <1>5, <1>6 DEF ArchiveStep

\* Recovery ends only when each active task has been archived.
Recovered == bootStale /\ ~bootStale' /\ Faults = {} => Active(db') = {}

LEMMA MainR ==
  ASSUME IInv, RecoverInv, Faults = {}, MainStep
  PROVE  RecoverInv' /\ Recovered
<1>1. Main \in Procs
  BY DEF Procs
<1>2. CASE StartDaemon \/ CommitInitialize \/ SkipRecovery
  <2>1. PICK step \in {"initializing", "booting", "serving"} : pc' = [pc EXCEPT ![Main] = step]
    BY <1>2 DEF StartDaemon, CommitInitialize, SkipRecovery, Serve, Goto
  <2>2. pc'[Main] = step /\ UNCHANGED bootStale
    BY <1>1, <1>2, <2>1 DEF IInv, ProcInv, StartDaemon, CommitInitialize, SkipRecovery
  <2> QED
    BY <2>2 DEF RecoverInv, Recovering, Recovered
<1>3. CASE BeginRecovery
  <2>1. pc'[Main] = "recover" /\ todo' = Active(db) /\ UNCHANGED <<db, bootStale>>
    BY <1>1, <1>3 DEF BeginRecovery, Goto, IInv, ProcInv
  <2> QED
    BY <2>1 DEF RecoverInv, Met, Active, Recovered
<1>4. CASE RecoverNext
  <2>1. pc[Main] = "recover" /\ UNCHANGED <<db, bootStale>>
    BY <1>4 DEF RecoverNext
  <2>2. \A u \in Active(db) : u \in todo
    BY <2>1 DEF RecoverInv, Recovering, Met
  <2>3. PICK t \in todo :
          /\ todo' = todo \ {t}
          /\ IF t \in Active(db)
             THEN /\ req' = [req EXCEPT ![Main] = [kind |-> "archive", arg |-> t]]
                  /\ Goto(Main, "preparing")
             ELSE UNCHANGED <<req, pc>>
    BY <1>4 DEF RecoverNext
  <2>4. CASE t \in Active(db)
    <3>1. pc'[Main] = "preparing" /\ req'[Main].arg = t
      BY <1>1, <2>3, <2>4 DEF Goto, IInv, ProcInv
    <3>2. \A u \in Active(db) : Met(u)'
      BY <2>2, <2>3, <3>1 DEF Met
    <3> QED
      BY <2>1, <3>2 DEF RecoverInv, Active, Recovered
  <2>5. CASE t \notin Active(db)
    <3>1. \A u \in Active(db) : Met(u)'
      BY <2>2, <2>3, <2>5 DEF Met
    <3> QED
      BY <2>1, <3>1 DEF RecoverInv, Active, Recovered
  <2> QED
    BY <2>4, <2>5
<1>5. CASE EndRecovery
  <2>1. pc[Main] = "recover" /\ todo = {} /\ pc'[Main] = "serving" /\ UNCHANGED db
    BY <1>1, <1>5 DEF EndRecovery, Serve, Goto, IInv, ProcInv
  <2>2. Active(db) = {}
    BY <2>1 DEF RecoverInv, Recovering, Met
  <2> QED
    BY <2>1, <2>2 DEF RecoverInv, Recovering, Recovered
<1> QED
  BY <1>2, <1>3, <1>4, <1>5 DEF MainStep

LEMMA NextR ==
  ASSUME Alone
  PROVE  IInv /\ DInv /\ RecoverInv /\ [Next]_vars => RecoverInv' /\ Recovered
<1> SUFFICES ASSUME IInv, DInv, RecoverInv, [Next]_vars PROVE RecoverInv' /\ Recovered
  OBVIOUS
<1>0. CASE Faults # {}
  BY <1>0 DEF RecoverInv, Recovered
<1>1. ASSUME NEW p \in Rpcs, ArchiveStep(p) \/ RpcStep(p) \/ MemoryStep(p) PROVE RecoverInv' /\ Recovered
  <2>1. pc'[Main] = "serving" /\ UNCHANGED bootStale
    BY <1>1, ThreadMoves
  <2> QED
    BY <2>1 DEF RecoverInv, Recovering, Recovered
<1>2. CASE Faults = {} /\ ArchiveStep(Main)
  BY <1>2, ArchiveR DEF Recovered
<1>3. CASE Faults = {} /\ MainStep
  BY <1>3, MainR
<1>4. CASE \E w \in Writers : WriterLoad(w) \/ LoadRows(w)
  BY <1>4 DEF Alone
<1>5. CASE Reload
  BY <1>5, OneServer DEF Reload, Alone
<1>6. CASE Stop
  <2>1. PICK dead \in {Rpcs \cup {Main}, Procs} : Kill(dead) /\ (UNCHANGED bootStale \/ bootStale' = TRUE)
    BY <1>6 DEF Stop
  <2>2. pc'[Main] = "down"
    BY <2>1 DEF Kill, Procs
  <2> QED
    BY <2>1, <2>2 DEF RecoverInv, Recovering, Recovered
<1>7. CASE Idle \/ UNCHANGED vars
  BY <1>7 DEF Idle, vars, RecoverInv, Recovering, Met, Active, Recovered
<1> QED
  BY <1>0, <1>1, <1>2, <1>3, <1>4, <1>5, <1>6, <1>7 DEF Next, Alone

-----------------------------------------------------------------------------
(* The theorems. *)

\* The mutex is enough: whenever a thread of the only daemon is about to save,
\* what it holds in memory is what state.db holds, across the two or three
\* commits of create_task, restore_task and delete_task and the window, docker
\* and checkout work between them.
THEOREM SnapshotAlwaysCurrent ==
  ASSUME Alone PROVE Spec => []SnapshotCurrent
<1>1. IInv /\ DInv /\ [Next]_vars => DInv'
  BY NextD
<1>2. DInv => SnapshotCurrent
  BY DEF DInv
<1> QED
  BY <1>1, <1>2, InitD, Invariance, PTL DEF Spec

\* A task row changes only by the commit of a request about that task: no save
\* of the daemon undoes a create, an archive, a restore or a delete.
THEOREM NoUpdateLost ==
  ASSUME Alone PROVE Spec => NoLostUpdate
<1>1. IInv /\ DInv /\ [Next]_vars => DInv' /\ StatusStep
  BY NextD DEF Effect
<1>2. IInv /\ DInv /\ [Next]_vars =>
        [\A t \in Tasks : db'.status[t] # db.status[t] =>
           \E p \in Procs : /\ pc'[p] # pc[p]
                            /\ req[p].arg = t
                            /\ <<pc[p], db.status[t], db'.status[t]>> \in Transitions]_vars
  BY <1>1 DEF StatusStep
<1> QED
  BY <1>1, <1>2, InitD, Invariance, PTL DEF Spec, NoLostUpdate

\* The taskspace entered is always that of a task active at that moment.
THEOREM OnlyActiveEntered ==
  ASSUME Alone PROVE Spec => EnterOnlyActive
<1>1. IInv /\ DInv /\ [Next]_vars => DInv' /\ RegistryStep
  BY NextD DEF Effect
<1>2. RegistryStep =>
        [db'.cur # db.cur => db'.cur \in Active(db') \cup {Default}]_vars
  <2> SUFFICES ASSUME RegistryStep, db'.cur # db.cur
               PROVE  db'.cur \in Active(db') \cup {Default}
    OBVIOUS
  <2>1. CASE Registry!Leave
    BY <2>1 DEF Registry!Leave
  <2>2. ASSUME NEW t \in Tasks, Registry!Enter(t) PROVE db'.cur \in Active(db')
    BY <2>2 DEF Registry!Enter, Active
  <2>3. ASSUME NEW t \in Tasks,
               Registry!Create(t) \/ Registry!Archive(t) \/ Registry!Restore(t) \/ Registry!Delete(t)
        PROVE  db'.cur = Default
    BY <2>3 DEF Registry!Create, Registry!Archive, Registry!Restore, Registry!Delete
  <2> QED
    BY <2>1, <2>2, <2>3 DEF RegistryStep, Registry!Next, Registry!vars
<1> QED
  BY <1>1, <1>2, InitD, Invariance, PTL DEF Spec, EnterOnlyActive

\* state.db behaves as the atomic registry of tasks, although every operation
\* loads, edits and saves the whole session in several steps and archive_task
\* lets go of the mutex half way.
THEOREM ImplementsRegistry ==
  ASSUME Alone PROVE Spec => RefinesRegistry
<1>1. Init => Registry!Init
  BY DEF Init, Registry!Init, Statuses, Active
<1>2. IInv /\ DInv /\ [Next]_vars => DInv' /\ [Registry!Next]_(Registry!vars)
  BY NextD DEF Effect, RegistryStep
<1> QED
  BY <1>1, <1>2, InitD, Invariance, PTL DEF Spec, RefinesRegistry, Registry!Spec
\* An active task has its checkout, whatever archives, restores and deletes of
\* other and of the same task run meanwhile and whichever of their steps fail:
\* only a save that fails after the checkout is gone, or a daemon that dies
\* then, leaves an active task without one.
THEOREM ActiveHasHome ==
  ASSUME Alone, "save" \notin Faults PROVE Spec => []ActiveAttached
<1>1. IInv /\ DInv /\ [Next]_vars => DInv'
  BY NextD
<1>2. IInv /\ DInv /\ HomeInv /\ [Next]_vars => HomeInv'
  BY NextH
<1>3. HomeInv => ActiveAttached
  <2> SUFFICES ASSUME HomeInv, stops = 0, NEW t \in Active(db)
               PROVE  \/ disk[t] = "attached"
                      \/ \E p \in Procs : req[p].arg = t /\ req[p].kind \in {"archive", "delete"}
    BY DEF ActiveAttached
  <2>1. Home(t)
    BY DEF HomeInv, Wanted, Active
  <2>2. \A p \in Procs : Ending(p, t) => req[p].arg = t /\ req[p].kind \in {"archive", "delete"}
    BY DEF HomeInv, Kinded, Ending
  <2> QED
    BY <2>1, <2>2 DEF Home
<1> QED
  BY <1>1, <1>2, <1>3, InitD, InitH, Invariance, PTL DEF Spec
\* Recovery records the boot id only once every task the reboot found active
\* has been archived, and it archives while nobody can activate another one.
THEOREM RecoveryIsComplete ==
  ASSUME Alone PROVE Spec => RecoveryComplete
<1>1. IInv /\ DInv /\ [Next]_vars => DInv'
  BY NextD
<1>2. IInv /\ DInv /\ RecoverInv /\ [Next]_vars =>
        RecoverInv' /\ [bootStale /\ ~bootStale' /\ Faults = {} => Active(db') = {}]_vars
  BY NextR DEF Recovered
<1>3. Init => RecoverInv
  BY DEF Init, RecoverInv, Recovering, Procs
<1> QED
  BY <1>1, <1>2, <1>3, InitD, Invariance, PTL DEF Spec, RecoveryComplete
=============================================================================
