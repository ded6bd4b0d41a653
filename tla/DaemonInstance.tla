--------------------------- MODULE DaemonInstance ---------------------------
(***************************************************************************)
(* Which process is the daemon: `tsk daemon run` processes and the lock     *)
(* file, socket and pid file they compete for (run_once and stop_daemon in  *)
(* daemon/server.rs), and the config.toml each of them was built from and   *)
(* watches (daemon/config_watch.rs).                                        *)
(*                                                                          *)
(* The lock is a flock and goes with its process; the socket and the pid    *)
(* file are paths, which outlive their process and which anybody removes.   *)
(* The production profile is modelled, and edits that leave the path of the *)
(* socket alone.                                                            *)
(***************************************************************************)
EXTENDS Naturals

CONSTANTS
    Daemons,   \* processes of `tsk daemon run`, each started at most once
    Hidden,    \* those started by an alias, whose argv the /proc scan misses
    Stoppers,  \* processes of `tsk daemon stop`
    Texts,     \* texts of config.toml that parse
    Fresh,     \* default_config_contents()
    Broken,    \* any text that does not parse
    Missing,   \* no config.toml
    None,      \* no process
    MaxEdits   \* bound: changes of config.toml by the user

ASSUME InstanceAssumption ==
    /\ Hidden \subseteq Daemons
    /\ Daemons \cap Stoppers = {}
    /\ None \notin Daemons
    /\ Fresh \in Texts
    /\ Broken \notin Texts
    /\ Missing \notin Texts

VARIABLES
    pc,      \* next step of each process
    lock,    \* who holds daemon.lock
    socket,  \* who bound the file at the socket path
    pid,     \* whose id daemon.pid holds
    config,  \* the contents of config.toml
    cfg,     \* cfg[p]: the text the DaemonServer of p was built from
    watch,   \* watch[p]: the config watcher of p
    seen,    \* seen[p]: the watcher's Snapshot
    victim,  \* victim[s]: the process stop_daemon signals
    edits    \* changes of config.toml so far

files == <<lock, socket, pid>>
configs == <<config, cfg, edits>>
watcher == <<watch, seen>>
vars == <<pc, files, configs, watcher, victim>>

Contents == Texts \cup {Broken, Missing}
Alive(p) == pc[p] \notin {"new", "dead"}
Goto(p, step) == pc' = [pc EXCEPT ![p] = step]

\* load_config: ensure_config writes the defaults when there is no file.
Loadable == config # Broken
Loaded == IF config = Missing THEN Fresh ELSE config

-----------------------------------------------------------------------------
(* run_once, up to the accept loop. *)

\* The end of a process, by an error or a signal: the kernel drops its lock.
Exit(p) ==
    /\ Goto(p, "dead")
    /\ lock' = IF lock = p THEN None ELSE lock
    /\ watch' = [watch EXCEPT ![p] = "off"]
    /\ UNCHANGED <<socket, pid, seen>>

Proceed(p, step) == Goto(p, step) /\ UNCHANGED <<files, watcher>>

\* DaemonServer::new, before anything else.
Launch(p) ==
    /\ pc[p] = "new"
    /\ IF Loadable
       THEN Proceed(p, "locking") /\ config' = Loaded /\ cfg' = [cfg EXCEPT ![p] = Loaded]
       ELSE Exit(p) /\ UNCHANGED <<config, cfg>>
    /\ UNCHANGED <<edits, victim>>

\* Mutant: the lock file is opened and not locked.
LockNothing(p) == pc[p] = "locking" /\ Proceed(p, "scanning") /\ UNCHANGED <<configs, victim>>

\* acquire_daemon_lock, on the path daemon_socket_path loads the config for.
Lock(p) ==
    /\ pc[p] = "locking"
    /\ IF Loadable /\ lock = None
       THEN /\ lock' = p
            /\ Goto(p, "scanning")
            /\ UNCHANGED <<socket, pid, watcher>>
       ELSE Exit(p)
    /\ config' = IF Loadable THEN Loaded ELSE config
    /\ UNCHANGED <<cfg, edits, victim>>

\* refuse_existing_daemon.
Scan(p) ==
    /\ pc[p] = "scanning"
    /\ IF \E q \in Daemons \ ({p} \cup Hidden) : Alive(q) THEN Exit(p) ELSE Proceed(p, "probing")
    /\ UNCHANGED <<configs, victim>>

\* A ping is answered by the accept loop of the process that bound the socket.
Probe(p) ==
    /\ pc[p] = "probing"
    /\ IF socket = None THEN Proceed(p, "writing")
       ELSE IF pc[socket] = "serving" THEN Exit(p)
       ELSE Proceed(p, "removing")
    /\ UNCHANGED <<configs, victim>>

RemoveStale(p) ==
    /\ pc[p] = "removing"
    /\ IF socket = None THEN Exit(p)
       ELSE socket' = None /\ Goto(p, "writing") /\ UNCHANGED <<lock, pid, watcher>>
    /\ UNCHANGED <<configs, victim>>

WritePid(p) ==
    /\ pc[p] = "writing"
    /\ pid' = p
    /\ Goto(p, "binding")
    /\ UNCHANGED <<lock, socket, watcher, configs, victim>>

\* bind fails on an existing file; ConfigWatch::start spawns the watcher.
Bind(p) ==
    /\ pc[p] = "binding"
    /\ IF socket = None
       THEN /\ socket' = p
            /\ watch' = [watch EXCEPT ![p] = "starting"]
            /\ Goto(p, "initializing")
            /\ UNCHANGED <<lock, pid, seen>>
       ELSE Exit(p)
    /\ UNCHANGED <<configs, victim>>

\* initialize may fail, and the process leaves its files behind.  Otherwise
\* recovery, the Hyprland listener and the accept loop follow.
Initialize(p) ==
    /\ pc[p] = "initializing"
    /\ Proceed(p, "serving") \/ Exit(p)
    /\ UNCHANGED <<configs, victim>>

-----------------------------------------------------------------------------
(* The config watcher and the restart in the same process. *)

\* watch_loop takes its Snapshot when its thread gets to run.
WatchStart(p) ==
    /\ watch[p] = "starting"
    /\ watch' = [watch EXCEPT ![p] = "watching"]
    /\ seen' = [seen EXCEPT ![p] = config]
    /\ UNCHANGED <<pc, files, configs, victim>>

\* evaluate_restart, after an event in the directory or a stale Snapshot.  A
\* file that is missing or does not parse leaves everything as it is.
WatchCheck(p) ==
    /\ watch[p] = "watching"
    /\ \/ /\ config = seen[p]
          /\ watch' = [watch EXCEPT ![p] = "unchanged"]
       \/ /\ config \in Texts \ {seen[p]}
          /\ watch' = [watch EXCEPT ![p] = "fired"]
    /\ UNCHANGED <<pc, files, configs, seen, victim>>

\* WatchDecision::Unchanged reads the file again.
WatchAgain(p) ==
    /\ watch[p] = "unchanged"
    /\ watch' = [watch EXCEPT ![p] = "watching"]
    /\ seen' = [seen EXCEPT ![p] = config]
    /\ UNCHANGED <<pc, files, configs, victim>>

\* The watcher has returned; without a new one nobody looks again.
\* Mutant: a reload that failed leaves it at that.
ReloadOnce(p) ==
    /\ pc[p] = "serving"
    /\ watch[p] = "fired"
    /\ watch' = [watch EXCEPT ![p] = "off"]
    /\ IF Loadable
       THEN config' = Loaded /\ cfg' = [cfg EXCEPT ![p] = Loaded] /\ Goto(p, "cleaning")
       ELSE UNCHANGED <<pc, config, cfg>>
    /\ UNCHANGED <<files, seen, edits, victim>>

\* The accept loop sees the flag and builds the next server.
Reload(p) ==
    /\ pc[p] = "serving"
    /\ watch[p] = "fired"
    /\ IF Loadable
       THEN /\ config' = Loaded
            /\ cfg' = [cfg EXCEPT ![p] = Loaded]
            /\ watch' = [watch EXCEPT ![p] = "off"]
            /\ Goto(p, "cleaning")
       ELSE /\ watch' = [watch EXCEPT ![p] = "starting"]
            /\ UNCHANGED <<pc, config, cfg>>
    /\ UNCHANGED <<files, seen, edits, victim>>

\* Mutant: the lock is given back before the files are removed.
CleanUnlocked(p) ==
    \/ /\ pc[p] = "cleaning"
       /\ lock' = None
       /\ Goto(p, "unlocking")
       /\ UNCHANGED <<socket, pid, watcher, configs, victim>>
    \/ /\ pc[p] = "unlocking"
       /\ socket' = None
       /\ pid' = None
       /\ Goto(p, "locking")
       /\ UNCHANGED <<lock, watcher, configs, victim>>

\* cleanup_socket_runtime, then the end of run_once drops the lock.
Clean(p) ==
    \/ /\ pc[p] = "cleaning"
       /\ socket' = None
       /\ pid' = None
       /\ Goto(p, "unlocking")
       /\ UNCHANGED <<lock, watcher, configs, victim>>
    \/ /\ pc[p] = "unlocking"
       /\ lock' = None
       /\ Goto(p, "locking")
       /\ UNCHANGED <<socket, pid, watcher, configs, victim>>

-----------------------------------------------------------------------------
(* stop_daemon, and what else happens to the processes and to the file. *)

\* Without a pid file whatever is left is removed.
StopRead(s) ==
    /\ pc[s] = "new"
    /\ IF Loadable /\ pid # None
       THEN victim' = [victim EXCEPT ![s] = pid] /\ Goto(s, "signal") /\ UNCHANGED socket
       ELSE socket' = (IF Loadable THEN None ELSE socket) /\ Goto(s, "dead") /\ UNCHANGED victim
    /\ config' = IF Loadable THEN Loaded ELSE config
    /\ UNCHANGED <<lock, pid, cfg, edits, watcher>>

\* SIGTERM has its default disposition.
StopSignal(s) ==
    /\ pc[s] = "signal"
    /\ LET p == victim[s] IN
        /\ pc' = [pc EXCEPT ![s] = "waiting", ![p] = "dead"]
        /\ lock' = IF lock = p THEN None ELSE lock
        /\ watch' = [watch EXCEPT ![p] = "off"]
    /\ UNCHANGED <<socket, pid, seen, configs, victim>>

\* The poll that finds the victim dead, some time after its death, removes the
\* files that are there now.
StopClean(s) ==
    /\ pc[s] = "waiting"
    /\ IF pid = None THEN UNCHANGED <<socket, pid>> ELSE socket' = None /\ pid' = None
    /\ Goto(s, "dead")
    /\ UNCHANGED <<lock, watcher, configs, victim>>

\* Any other end: a crash, SIGKILL, `systemctl stop`.
Die(p) == Alive(p) /\ Exit(p) /\ UNCHANGED <<configs, victim>>

Edit ==
    /\ edits < MaxEdits
    /\ edits' = edits + 1
    /\ config' \in Contents \ {config}
    /\ UNCHANGED <<pc, files, cfg, watcher, victim>>

\* Every process has come to its end.
Over == (\A p \in Daemons \cup Stoppers : pc[p] = "dead") /\ UNCHANGED vars

-----------------------------------------------------------------------------
Init ==
    /\ pc = [p \in Daemons \cup Stoppers |-> "new"]
    /\ lock = None
    /\ socket = None
    /\ pid = None
    /\ config \in Contents
    /\ cfg = [p \in Daemons |-> Missing]
    /\ watch = [p \in Daemons |-> "off"]
    /\ seen = [p \in Daemons |-> Missing]
    /\ victim = [s \in Stoppers |-> None]
    /\ edits = 0

StartStep(p) ==
    Lock(p) \/ Scan(p) \/ Probe(p) \/ RemoveStale(p) \/ WritePid(p) \/ Bind(p) \/ Initialize(p)

WatchStep(p) == WatchStart(p) \/ WatchCheck(p) \/ WatchAgain(p)
ReloadStep(p) == Reload(p) \/ Clean(p)
StopStep(s) == StopRead(s) \/ StopSignal(s) \/ StopClean(s)

Next ==
    \/ \E p \in Daemons : Launch(p) \/ StartStep(p) \/ WatchStep(p) \/ ReloadStep(p) \/ Die(p)
    \/ \E s \in Stoppers : StopStep(s)
    \/ Edit \/ Over

Spec == Init /\ [][Next]_vars

\* Threads that are ready run.  Nobody has to start or stop a daemon.
Fairness ==
    \A p \in Daemons : WF_vars(StartStep(p)) /\ WF_vars(WatchStep(p)) /\ WF_vars(ReloadStep(p))

FairSpec == Spec /\ Fairness

-----------------------------------------------------------------------------
(* Properties. *)

TypeOK ==
    /\ pc \in [Daemons \cup Stoppers ->
          {"new", "dead", "locking", "scanning", "probing", "removing", "writing", "binding",
           "initializing", "serving", "cleaning", "unlocking", "signal", "waiting"}]
    /\ lock \in Daemons \cup {None}
    /\ socket \in Daemons \cup {None}
    /\ pid \in Daemons \cup {None}
    /\ config \in Contents
    /\ cfg \in [Daemons -> Texts \cup {Missing}]
    /\ watch \in [Daemons -> {"off", "starting", "watching", "unchanged", "fired"}]
    /\ seen \in [Daemons -> Contents]
    /\ victim \in [Stoppers -> Daemons \cup {None}]
    /\ edits \in Nat

\* Between the bind and the end of run_once a process reacts to Hyprland and
\* writes state.db.
Serving(p) == pc[p] \in {"initializing", "serving", "cleaning", "unlocking"}

\* Two daemons never act on one session ("the dual-daemon revert bug"),
\* however they are started, killed and reloaded.
OneDaemon == \A p, q \in Daemons : Serving(p) /\ Serving(q) => p = q

\* As long as nobody runs `tsk daemon stop`, a daemon that serves can be
\* reached and stopped: the socket and the pid file are its own.
Published ==
    (\A s \in Stoppers : pc[s] = "new") =>
        \A p \in Daemons : pc[p] = "serving" => socket = p /\ pid = p

\* The watcher's next read is its Snapshot: the first one of a watcher that starts,
\* also after a reload that failed, or the second read of a file found unchanged.
\* An edit of this moment goes into the Snapshot without being loaded, and the
\* daemon keeps the old config until the file changes once more.
Absorbing(p) == watch[p] \in {"starting", "unchanged"}

\* A text that differs from the watcher's Snapshot is loaded, unless the daemon ends
\* or the user changes the file again; a reload that fails does not lose the repair.
\* Not promised of an edit made while the watcher is Absorbing.
ChangeLoaded ==
    \A p \in Daemons : \A text \in Texts :
        (pc[p] = "serving" /\ config = text /\ seen[p] # text /\ ~Absorbing(p))
            ~> (cfg[p] = text \/ config # text \/ pc[p] = "dead")
=============================================================================
