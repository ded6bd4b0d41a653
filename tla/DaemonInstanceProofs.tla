------------------------ MODULE DaemonInstanceProofs ------------------------
(***************************************************************************)
(* Proofs about DaemonInstance, for any number of daemons and stops and any *)
(* set of config texts: at most one process acts as the daemon, and it owns *)
(* the socket and the pid file until somebody runs `tsk daemon stop`.       *)
(***************************************************************************)
EXTENDS DaemonInstance, TLAPS

USE InstanceAssumption

-----------------------------------------------------------------------------
(* The inductive invariant. *)

\* The steps of run_once between acquire_daemon_lock and its end.
Locked(p) ==
    pc[p] \in {"scanning", "probing", "removing", "writing", "binding",
               "initializing", "serving", "cleaning", "unlocking"}

\* Nobody has run stop_daemon yet.
NoStop == \A s \in Stoppers : pc[s] = "new"

LockHeld == \A p \in Daemons : Locked(p) => lock = p

PidWritten ==
    NoStop => \A p \in Daemons : pc[p] \in {"binding", "initializing", "serving"} => pid = p

SocketBound ==
    NoStop => \A p \in Daemons : pc[p] \in {"initializing", "serving"} => socket = p

Inv == TypeOK /\ LockHeld /\ PidWritten /\ SocketBound

-----------------------------------------------------------------------------
LEMMA InitInv == Init => Inv
  BY DEF Init, Inv, TypeOK, LockHeld, PidWritten, SocketBound, Locked, Contents

\* No step leads a stop back to its start.
LEMMA StopsStart == TypeOK /\ [Next]_vars => (NoStop' => NoStop)
<1> SUFFICES ASSUME TypeOK, [Next]_vars, NEW s \in Stoppers, pc'[s] = "new"
             PROVE  pc[s] = "new"
  BY DEF NoStop
<1>1. CASE \E p \in Daemons : Launch(p) \/ StartStep(p)
  BY <1>1 DEF TypeOK, Launch, StartStep, Lock, Scan, Probe, RemoveStale, WritePid, Bind,
              Initialize, Exit, Proceed, Goto
<1>2. CASE \E p \in Daemons : WatchStep(p) \/ ReloadStep(p) \/ Die(p)
  BY <1>2 DEF TypeOK, WatchStep, WatchStart, WatchCheck, WatchAgain, ReloadStep, Reload, Clean,
              Die, Exit, Goto
<1>3. CASE \E q \in Stoppers : StopStep(q)
  BY <1>3 DEF TypeOK, StopStep, StopRead, StopSignal, StopClean, Goto
<1>4. CASE Edit \/ Over \/ UNCHANGED vars
  BY <1>4 DEF Edit, Over, vars
<1> QED
  BY <1>1, <1>2, <1>3, <1>4 DEF Next

\* One lemma per group of steps.
LEMMA StartInv ==
  ASSUME Inv, NoStop' => NoStop, NEW p \in Daemons, Launch(p) \/ StartStep(p)
  PROVE  Inv'
<1> USE DEF Inv, TypeOK, LockHeld, PidWritten, SocketBound, Locked, Contents, Exit, Proceed,
            Goto, Loadable, Loaded, configs, files, watcher
<1>1. CASE Launch(p)
  BY <1>1 DEF Launch
<1>2. CASE Lock(p)
  BY <1>2 DEF Lock
<1>3. CASE Scan(p)
  BY <1>3 DEF Scan
<1>4. CASE Probe(p)
  BY <1>4 DEF Probe
<1>5. CASE RemoveStale(p)
  BY <1>5 DEF RemoveStale
<1>6. CASE WritePid(p)
  BY <1>6 DEF WritePid
<1>7. CASE Bind(p)
  BY <1>7 DEF Bind
<1>8. CASE Initialize(p)
  BY <1>8 DEF Initialize
<1> QED
  BY <1>1, <1>2, <1>3, <1>4, <1>5, <1>6, <1>7, <1>8 DEF StartStep

LEMMA WatchInv ==
  ASSUME Inv, NEW p \in Daemons, WatchStep(p)
  PROVE  Inv'
  BY DEF Inv, TypeOK, LockHeld, PidWritten, SocketBound, Locked, NoStop, Contents, WatchStep,
         WatchStart, WatchCheck, WatchAgain, configs, files

LEMMA ReloadInv ==
  ASSUME Inv, NoStop' => NoStop, NEW p \in Daemons, ReloadStep(p)
  PROVE  Inv'
<1> USE DEF Inv, TypeOK, LockHeld, PidWritten, SocketBound, Locked, Contents, Goto, Loadable,
            Loaded, configs, files, watcher
<1>1. CASE Reload(p)
  BY <1>1 DEF Reload
<1>2. CASE Clean(p)
  BY <1>2 DEF Clean
<1> QED
  BY <1>1, <1>2 DEF ReloadStep

LEMMA DieInv ==
  ASSUME Inv, NoStop' => NoStop, NEW p \in Daemons, Die(p)
  PROVE  Inv'
  BY DEF Inv, TypeOK, LockHeld, PidWritten, SocketBound, Locked, Contents, Die, Exit, Goto, configs

\* After the first step of a stop NoStop is false: only the lock is left.
LEMMA StopInv ==
  ASSUME Inv, NEW s \in Stoppers, StopStep(s)
  PROVE  Inv'
<1>1. TypeOK' /\ LockHeld' /\ pc'[s] # "new"
  <2> USE DEF Inv, TypeOK, LockHeld, Locked, Contents, Goto, Loadable, Loaded, configs, watcher
  <2>1. CASE StopRead(s)
    BY <2>1 DEF StopRead
  <2>2. CASE StopSignal(s)
    BY <2>2 DEF StopSignal
  <2>3. CASE StopClean(s)
    BY <2>3 DEF StopClean
  <2> QED
    BY <2>1, <2>2, <2>3 DEF StopStep
<1>2. ~NoStop'
  BY <1>1 DEF NoStop
<1> QED
  BY <1>1, <1>2 DEF Inv, PidWritten, SocketBound

LEMMA NextInv == Inv /\ [Next]_vars => Inv'
<1> SUFFICES ASSUME Inv, [Next]_vars PROVE Inv'
  OBVIOUS
<1>1. NoStop' => NoStop
  BY StopsStart DEF Inv
<1>2. CASE \E p \in Daemons : Launch(p) \/ StartStep(p)
  BY <1>1, <1>2, StartInv
<1>3. CASE \E p \in Daemons : WatchStep(p) \/ ReloadStep(p) \/ Die(p)
  BY <1>1, <1>3, WatchInv, ReloadInv, DieInv
<1>4. CASE \E s \in Stoppers : StopStep(s)
  BY <1>4, StopInv
<1>5. CASE Edit
  BY <1>5 DEF Edit, Inv, TypeOK, LockHeld, PidWritten, SocketBound, Locked, NoStop, Contents,
              files, watcher
<1>6. CASE Over \/ UNCHANGED vars
  BY <1>6 DEF Over, vars, files, configs, watcher, Inv, TypeOK, LockHeld, PidWritten, SocketBound,
              Locked, NoStop
<1> QED
  BY <1>2, <1>3, <1>4, <1>5, <1>6 DEF Next

LEMMA Invariance == Spec => []Inv
  BY InitInv, NextInv, PTL DEF Spec

-----------------------------------------------------------------------------
(* The theorems. *)

\* Every process stays at a step of run_once, of the watcher or of stop_daemon, and the lock, the
\* socket and the pid file belong to a process or to nobody, however often the daemon is started.
THEOREM TypeCorrect == Spec => []TypeOK
<1>1. Inv => TypeOK
  BY DEF Inv
<1> QED
  BY <1>1, Invariance, PTL

\* However many `tsk daemon run` are started, killed, stopped and reloaded, at
\* most one of them is between its bind and the end of its run_once, also when
\* the /proc scan misses the other: the flock alone excludes "the dual-daemon
\* revert bug".
THEOREM AtMostOneDaemon == Spec => []OneDaemon
<1>1. Inv => OneDaemon
  BY DEF Inv, LockHeld, Locked, OneDaemon, Serving
<1> QED
  BY <1>1, Invariance, PTL

\* Until somebody runs `tsk daemon stop` a daemon in its accept loop owns the
\* socket and the pid file: no start, death or reload of another takes them.
THEOREM AlwaysPublished == Spec => []Published
<1>1. Inv => Published
  BY DEF Inv, PidWritten, SocketBound, NoStop, Published
<1> QED
  BY <1>1, Invariance, PTL
=============================================================================
