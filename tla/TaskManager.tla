----------------------------- MODULE TaskManager -----------------------------
(***************************************************************************)
(* The task manager (tsk-tui): a terminal program that shows copies of the  *)
(* task lists and sends requests to the daemon, while walker, other         *)
(* terminals and Hyprland change the same tasks.                            *)
(*                                                                          *)
(* The daemon is the abstract registry (TaskRegistry): a request is a       *)
(* sequence of its steps, and the daemon may die between two of them.       *)
(***************************************************************************)
EXTENDS Naturals, Sequences, FiniteSets, SequencesExt

CONSTANTS
    Tasks,
    Default,    \* the default taskspace, a row of the list as well
    RepoOrder,  \* every checkout there may be, sorted by name
    Scratch,    \* the source of scratch tasks
    Source,     \* the checkout each task was created from
    Fresh,      \* tasks that are not created yet
    None,
    Background, \* the background check of the daemon runs
    MaxOthers   \* bound: steps of other programs, and faults

Repos == ToSet(RepoOrder)
RepoChoices == Repos \cup {Scratch}

ASSUME ManagerAssumption ==
    /\ IsFiniteSet(Tasks)
    /\ RepoOrder \in Seq(Repos) /\ IsInjective(RepoOrder) /\ Scratch \notin Repos
    /\ Source \in [Tasks -> RepoChoices]
    /\ Fresh \subseteq Tasks
    /\ Default \notin Tasks
    /\ None \notin Tasks \cup RepoChoices \cup {Default}
    /\ Background \in BOOLEAN /\ MaxOthers \in Nat

VARIABLES
    status, cur,  \* the registry
    fresh,        \* ids that no task has had yet
    order,        \* tasks, newest listed_at first
    registered,   \* rows of `repos`
    dirs,         \* checkouts that are directories
    up,           \* a daemon answers
    jobs,         \* requests the daemon works on
    window,       \* of the task manager: "floating", "terminal", "closed"
    panel, screen,
    repos, rows, mark,    \* the lists, and the highlighted index (0: none)
    load,         \* the reload under way
    call,         \* the request under way
    known,        \* daemon_status
    checker,      \* AsyncDaemonChecker
    cached,       \* the reachability cache says the daemon is up
    others,
    calm          \* history: no change since the last reload that it could not see

registry == <<status, cur, fresh, order>>
disk == <<registered, dirs>>
lists == <<repos, rows, mark>>
daemon == <<known, checker, cached>>
vars == <<registry, disk, up, jobs, window, panel, screen, lists, load, call, daemon, others, calm>>

Registry == INSTANCE TaskRegistry

Panels == {"tasks", "repos", "archived"}
Main == [at |-> "main", on |-> None, sub |-> ""]
Dialogs == {"archive", "restore", "delete"}
Screens ==
    {Main}
    \cup [at : {"picker", "pick"}, on : {None}, sub : {""}]
    \cup [at : Dialogs, on : Tasks, sub : {"confirm", "cancel"}]
    \cup [at : {"rename"}, on : Tasks, sub : {""}]
    \cup [at : {"unregister"}, on : Repos, sub : {"confirm", "cancel", "checked"}]
    \cup [at : {"form"}, on : RepoChoices, sub : {"", "container"}]
    \cup [at : {"setup"}, on : Tasks, sub : {"running", "ok", "failed"}]

-----------------------------------------------------------------------------
(* Lists: a header before the tasks of each checkout, the scratch tasks last. *)

Header(label) == [header |-> label]
Row(t) == [task |-> t]
IsTask(row) == "task" \in DOMAIN row

Section(label, ts) ==
    IF ts = <<>> THEN <<>> ELSE <<Header(label)>> \o [i \in DOMAIN ts |-> Row(ts[i])]

\* The members of a list that are in S, in their order.
Only(ts, S) ==
    LET at == {i \in DOMAIN ts : ts[i] \in S}
        Nth(n) == CHOOSE i \in at : Cardinality({j \in at : j <= i}) = n
    IN  [n \in 1..Cardinality(at) |-> ts[Nth(n)]]

From(source, ts) == Only(ts, {t \in Tasks : Source[t] = source})

Grouped(rs, ts) ==
    FlattenSeq([i \in DOMAIN rs |-> Section(rs[i], From(rs[i], ts))])
        \o Section(Scratch, From(Scratch, ts))

Listing(rs, active, archived) ==
    [tasks |-> <<Header("host"), Row(Default)>> \o Grouped(rs, active),
     archived |-> Grouped(rs, archived)]

In(st) == Only(order, {t \in Tasks : status[t] = st})

\* Registered checkouts and those the tasks came from, as long as they exist.
\* Mutant: a checkout is shown only when it is registered.
LoadRegistered(ts) == Only(RepoOrder, registered \cap dirs)

LoadRepos(ts) == Only(RepoOrder, (registered \cup {Source[t] : t \in ToSet(ts)}) \cap dirs)

TaskAt(rs, i) == IF i \in DOMAIN rs /\ IsTask(rs[i]) THEN rs[i].task ELSE None
Marked(p) == TaskAt(rows[p], mark[p])
MarkedRepo == IF mark.repos = 0 THEN None ELSE repos[mark.repos]

TaskRows(rs) == {i \in DOMAIN rs : IsTask(rs[i])}
Least(s) == IF s = {} THEN 0 ELSE CHOOSE i \in s : \A j \in s : i <= j
Greatest(s) == IF s = {} THEN 0 ELSE CHOOSE i \in s : \A j \in s : j <= i

\* Mutant: the first row, header or not.
FirstRow(rs) == Least(DOMAIN rs)

First(rs) == Least(TaskRows(rs))
Where(rs, t) == Least({i \in TaskRows(rs) : rs[i].task = t})

\* The index of the first of these tasks that is listed, or of the first task.
Mark(rs, wanted) ==
    LET found == {i \in DOMAIN wanted : Where(rs, wanted[i]) # 0}
    IN  IF found = {} THEN First(rs) ELSE Where(rs, wanted[Least(found)])

\* The row of the default taskspace has no id, so it is not looked for.
\* Mutant: the highlight keeps its index.
KeepIndex(p, rs, current) == IF mark[p] \in TaskRows(rs) THEN mark[p] ELSE First(rs)

Keep(p, rs, current) ==
    Mark(rs, IF Marked(p) \in Tasks THEN <<Marked(p)>> \o current ELSE current)

KeepRepo(rs) ==
    IF mark.repos \in DOMAIN rs THEN {mark.repos}
    ELSE IF rs = <<>> THEN {0} ELSE DOMAIN rs   \* the checkout of the cwd, or the first

-----------------------------------------------------------------------------
(* The program is one loop: a key, a reload or a request at a time. *)

NoLoad == [step |-> 0, cur |-> Default, active |-> <<>>, archived |-> <<>>]
NoCall == [got |-> "", on |-> None]

Open == window # "closed"
Loading == load.step # 0
Free == Open /\ ~Loading /\ call = NoCall
At(s) == Free /\ screen.at = s
Show(at, on, sub) == screen' = [at |-> at, on |-> on, sub |-> sub]

Changed == calm' = FALSE

Lists == UNCHANGED <<registry, disk, up, jobs, others>>   \* a step of the program
Still == UNCHANGED <<lists, panel>>
Quiet == UNCHANGED <<load, call, window, calm>>

\* reload: the session, the active tasks, the archived tasks and the checkouts
\* are four reads; main: the screen goes back to the lists at the end.
BeginReload ==
    /\ load' = [NoLoad EXCEPT !.step = 1]
    /\ calm' = TRUE

ReadTasks ==
    /\ Open
    /\ load.step \in 1..3
    /\ load' = CASE load.step = 1 -> [load EXCEPT !.step = 2, !.cur = cur]
                 [] load.step = 2 -> [load EXCEPT !.step = 3, !.active = In("active")]
                 [] OTHER -> [load EXCEPT !.step = 4, !.archived = In("archived")]
    /\ Lists /\ Still
    /\ UNCHANGED <<screen, call, window, calm, daemon>>

ShowLists ==
    /\ Open
    /\ load.step = 4
    /\ \E rs \in {LoadRepos(load.active \o load.archived)} :
       \E new \in {Listing(rs, load.active, load.archived)}, r \in KeepRepo(rs) :
          /\ repos' = rs
          /\ rows' = new
          /\ mark' = [tasks |-> Keep("tasks", new.tasks, <<load.cur>>),
                      archived |-> Keep("archived", new.archived, <<>>),
                      repos |-> r]
    /\ load' = NoLoad
    /\ screen' = Main
    /\ panel' = IF screen.at = "picker" THEN "repos" ELSE panel
    /\ Lists
    /\ UNCHANGED <<call, window, calm, daemon>>

\* state.db is busy or a repo.toml does not parse: nothing is replaced, the
\* dialog stays open, and a program that was starting ends.
ReloadFails ==
    /\ Open
    /\ Loading
    /\ others < MaxOthers
    /\ others' = others + 1
    /\ load' = NoLoad
    /\ window' = IF rows.tasks = <<>> THEN "closed" ELSE window
    /\ Changed
    /\ UNCHANGED <<registry, disk, up, jobs, call, daemon, lists, panel, screen>>

-----------------------------------------------------------------------------
(* Requests.  Every client call pings the daemon first, unless the cache says *)
(* it is up; a connection that fails empties the cache.                      *)

Job(by, method, x) == [by |-> by, method |-> method, on |-> x, step |-> 1]

Send(method, x) ==
    /\ cached' = up
    /\ jobs' = IF up THEN jobs \cup {Job("tui", method, x)} ELSE jobs
    /\ call' = [got |-> IF up THEN "waiting" ELSE "err", on |-> x]
    /\ UNCHANGED <<registry, disk, up, others, lists, panel, screen, load, window, calm, known, checker>>

\* require_daemon: a task manager that does not know yet asks.
DaemonKnown == known = "running" \/ (known = "unknown" /\ (cached \/ up))

Quit == window' = "closed" /\ UNCHANGED <<screen, load, calm>>

Accepted ==
    CASE screen.at \in {"archive", "delete", "rename"} ->
            BeginReload /\ UNCHANGED <<screen, window>>
      [] screen.at = "form" /\ screen.sub = "container" ->
            Show("setup", call.on, "running") /\ UNCHANGED <<load, window, calm>>
      [] OTHER -> Quit

\* The answer is ok, or an error or a timeout that leads back to the lists.
Answer ==
    /\ Open
    /\ call.got \in {"ok", "err"}
    /\ call' = NoCall
    /\ IF call.got = "ok"
       THEN /\ Accepted
            /\ known' = IF screen.at = "archive" THEN "running" ELSE known
       ELSE /\ screen' = Main
            /\ Changed
            /\ UNCHANGED <<load, window, known>>
    /\ Lists /\ Still
    /\ UNCHANGED <<checker, cached>>

Own == {j \in jobs : j.by = "tui"}

\* RPC_TIMEOUT: the daemon goes on with the request.
Timeout ==
    /\ Open
    /\ call.got = "waiting"
    /\ others < MaxOthers
    /\ others' = others + 1
    /\ call' = [call EXCEPT !.got = "err"]
    /\ jobs' = (jobs \ Own) \cup {[j EXCEPT !.by = "other"] : j \in Own}
    /\ Changed
    /\ UNCHANGED <<registry, disk, up, window, panel, screen, lists, load, daemon>>

-----------------------------------------------------------------------------
(* The main screen. *)

SwitchPanel(p) ==
    /\ At("main")
    /\ p # panel
    /\ panel' = p
    /\ Lists /\ Quiet
    /\ UNCHANGED <<screen, lists, daemon>>

Move(p) ==
    /\ At("main")
    /\ panel = p
    /\ \E i \in IF p = "repos" THEN DOMAIN repos ELSE TaskRows(rows[p]) :
          LET all == IF p = "repos" THEN DOMAIN repos ELSE TaskRows(rows[p])
          IN  /\ i \in {Least({j \in all : j > mark[p]}), Greatest({j \in all : j < mark[p]})}
              /\ mark' = [mark EXCEPT ![p] = i]
    /\ Lists /\ Quiet
    /\ UNCHANGED <<screen, panel, repos, rows, daemon>>

Refresh ==
    /\ At("main")
    /\ BeginReload
    /\ Lists /\ Still
    /\ UNCHANGED <<screen, call, window, daemon>>

Close ==
    /\ At("main")
    /\ Quit
    /\ Lists /\ Still
    /\ UNCHANGED <<call, daemon>>

\* Enter on a task; archived ones are not switched to.
SwitchSelected ==
    /\ At("main")
    /\ panel = "tasks"
    /\ DaemonKnown
    /\ Marked("tasks") # None
    /\ Send(IF Marked("tasks") = Default THEN "default" ELSE "switch", Marked("tasks"))

DialogIn(at, p) ==
    CASE at = "archive" -> p = "tasks"
      [] at = "restore" -> p = "archived"
      [] OTHER -> p # "repos"

\* d, r, D and e: all but rename ask the daemon what there is to lose first.
OpenDialog(at) ==
    /\ At("main")
    /\ DialogIn(at, panel)
    /\ DaemonKnown
    /\ Marked(panel) \in Tasks
    /\ IF at = "rename" THEN Show(at, Marked(panel), "") /\ UNCHANGED cached
       ELSE /\ cached' = up
            /\ IF up /\ status[Marked(panel)] # "absent"
               THEN Show(at, Marked(panel), "confirm") ELSE UNCHANGED screen
    /\ Lists /\ Still /\ Quiet
    /\ UNCHANGED <<known, checker>>

BeginNew ==
    /\ At("main")
    /\ panel # "repos"
    /\ DaemonKnown
    /\ Show("pick", None, "")
    /\ cached' = (cached \/ (known = "unknown" /\ up))
    /\ Lists /\ Still /\ Quiet
    /\ UNCHANGED <<known, checker>>

-----------------------------------------------------------------------------
(* Dialogs and forms. *)

Keys == {"enter", "y", "n", "esc", "arrow"}
Confirms(key) == key = "y" \/ (key = "enter" /\ screen.sub = "confirm")
Cancels(key) == key \in {"n", "esc"} \/ (key = "enter" /\ screen.sub = "cancel")

Turn(key) ==
    /\ Free
    /\ screen.sub \in {"confirm", "cancel"}
    /\ \/ key = "arrow" /\ Show(screen.at, screen.on, IF screen.sub = "confirm" THEN "cancel" ELSE "confirm")
       \/ Cancels(key) /\ screen' = Main
    /\ Lists /\ Still /\ Quiet
    /\ UNCHANGED daemon

Confirm(key) ==
    /\ Free
    /\ screen.at \in Dialogs
    /\ Confirms(key)
    /\ Send(screen.at, screen.on)

SubmitRename == At("rename") /\ Send("rename", screen.on)

\* Esc, Cancel, or a name that is empty.
Dismiss ==
    /\ Free
    /\ screen.at \in {"picker", "pick", "form", "rename"}
    /\ screen' = Main
    /\ Lists /\ Still /\ Quiet
    /\ UNCHANGED daemon

Choose(c) ==
    /\ At("pick")
    /\ c \in ToSet(repos) \cup {Scratch}
    /\ \E sub \in {"", "container"} : Show("form", c, sub)
    /\ Lists /\ Still /\ Quiet
    /\ UNCHANGED daemon

SubmitTask ==
    /\ At("form")
    /\ Send(IF screen.sub = "" THEN "create" ELSE "defer", screen.on)

\* The thread that runs distrobox ends; the keys do nothing before.
SetupEnds ==
    /\ Open
    /\ screen.at = "setup" /\ screen.sub = "running"
    /\ \E result \in {"ok", "failed"} : Show("setup", screen.on, result)
    /\ Lists /\ Still /\ Quiet
    /\ UNCHANGED daemon

LeaveSetup ==
    /\ At("setup")
    /\ \/ screen.sub = "ok" /\ Send("switch", screen.on)
       \/ /\ screen.sub = "failed"
          /\ screen' = Main
          /\ Lists /\ Still /\ Quiet
          /\ UNCHANGED daemon

-----------------------------------------------------------------------------
(* Checkouts.  Registering and removing them goes to state.db directly. *)

Used(r) == \E t \in Tasks : status[t] # "absent" /\ Source[t] = r

BeginRegister ==
    /\ At("main") /\ panel = "repos"
    /\ Show("picker", None, "")
    /\ Lists /\ Still /\ Quiet
    /\ UNCHANGED daemon

Register(r) ==
    /\ At("picker")
    /\ r \in dirs
    /\ registered' = registered \cup {r}
    /\ BeginReload
    /\ UNCHANGED <<registry, dirs, up, jobs, others, lists, panel, screen, call, window, daemon>>

BeginUnregister ==
    /\ At("main") /\ panel = "repos"
    /\ MarkedRepo # None
    /\ ~Used(MarkedRepo)
    /\ Show("unregister", MarkedRepo, "confirm")
    /\ Lists /\ Still /\ Quiet
    /\ UNCHANGED daemon

CheckUnregister(key) ==
    /\ At("unregister")
    /\ Confirms(key)
    /\ ~Used(screen.on)
    /\ Show("unregister", screen.on, "checked")
    /\ Lists /\ Still /\ Quiet
    /\ UNCHANGED daemon

Unregister ==
    /\ At("unregister") /\ screen.sub = "checked"
    /\ registered' = registered \ {screen.on}
    /\ BeginReload
    /\ UNCHANGED <<registry, dirs, up, jobs, others, lists, panel, screen, call, window, daemon>>

-----------------------------------------------------------------------------
(* The background check of the daemon. *)

\* Mutant: the daemon is checked until something is known.
SpawnOnce ==
    /\ Background
    /\ Free
    /\ checker = "idle"
    /\ known = "unknown"
    /\ checker' = "probing"
    /\ Lists /\ Still /\ Quiet
    /\ UNCHANGED <<screen, known, cached>>

\* At the start, every five seconds and after a reload; dropped while one runs.
Spawn ==
    /\ Background
    /\ Free
    /\ checker = "idle"
    /\ checker' = "probing"
    /\ Lists /\ Still /\ Quiet
    /\ UNCHANGED <<screen, known, cached>>

Probe ==
    /\ Open
    /\ checker = "probing"
    /\ checker' = IF cached \/ up THEN "up" ELSE "down"
    /\ cached' = (cached \/ up)
    /\ Lists /\ Still /\ Quiet
    /\ UNCHANGED <<screen, known>>

Poll ==
    /\ Free
    /\ checker \in {"up", "down"}
    /\ known' = IF checker = "up" THEN "running" ELSE "stopped"
    /\ checker' = "idle"
    /\ Lists /\ Still /\ Quiet
    /\ UNCHANGED <<screen, cached>>

\* REACHABILITY_TTL.
Expire ==
    /\ Open
    /\ cached
    /\ cached' = FALSE
    /\ Lists /\ Still /\ Quiet
    /\ UNCHANGED <<screen, known, checker>>

-----------------------------------------------------------------------------
(* The daemon. *)

Script == [create |-> <<"Create", "Enter">>, switch |-> <<"Enter">>, default |-> <<"Leave">>,
           archive |-> <<"Leave", "Archive">>, restore |-> <<"Restore", "Enter">>,
           delete |-> <<"Leave", "Delete">>, rename |-> <<"Rename">>,
           defer |-> <<"Create">>]

\* set_taskspace closes the floating task managers.
CloseFloating == window' = IF window = "floating" THEN "closed" ELSE window
NoSwitch == UNCHANGED <<cur, window>>

Without(t) == Only(order, Tasks \ {t})

Do(step, t) ==
    CASE step = "Create" ->
            /\ Registry!Create(t) /\ fresh' = fresh \ {t} /\ order' = <<t>> \o order
            /\ UNCHANGED window
      [] step = "Enter" -> Registry!Enter(t) /\ CloseFloating /\ UNCHANGED <<fresh, order>>
      [] step = "Leave" /\ t \in {cur, Default} ->
            Registry!Leave /\ CloseFloating /\ UNCHANGED <<fresh, order>>
      [] step = "Leave" /\ t \notin {cur, Default} ->
            status[t] # "absent" /\ UNCHANGED <<registry, window>>
      [] step = "Archive" -> Registry!Archive(t) /\ UNCHANGED <<fresh, order, window>>
      [] step = "Restore" ->
            /\ Registry!Restore(t) /\ order' = <<t>> \o Without(t)
            /\ UNCHANGED <<fresh, window>>
      [] step = "Delete" ->
            /\ Registry!Delete(t) /\ order' = Without(t)
            /\ UNCHANGED <<fresh, window>>
      [] OTHER -> status[t] # "absent" /\ UNCHANGED <<registry, window>>

\* An id that is new, a checkout that is there.
Targets(j) ==
    IF Script[j.method][j.step] # "Create" THEN {j.on}
    ELSE {t \in fresh : Source[t] = j.on /\ j.on \in dirs \cup {Scratch}}

Refused(j) ==
    \/ Targets(j) = {}
    \/ j.method = "archive" /\ j.step = 1 /\ status[j.on] # "active"
    \/ /\ Script[j.method][j.step] \notin {"Create", "Leave"}
       /\ \/ status[j.on] = "absent"
          \/ Script[j.method][j.step] = "Enter" /\ status[j.on] # "active"
          \/ Script[j.method][j.step] = "Restore" /\ status[j.on] # "archived"
    \/ Script[j.method][j.step] = "Leave" /\ j.on # Default /\ status[j.on] = "absent"

\* Only an archive gives up the service lock in the middle.
Unlocked(j) == \A i \in jobs \ {j} : i.step = 1 \/ i.method = "archive"

Reply(j, got, x) == call' = IF j.by = "tui" THEN [got |-> got, on |-> x] ELSE call

Serve(j) ==
    /\ up /\ Unlocked(j) /\ ~Refused(j)
    /\ \E t \in Targets(j) :
          /\ Do(Script[j.method][j.step], t)
          /\ IF j.step = Len(Script[j.method])
             THEN jobs' = jobs \ {j} /\ Reply(j, "ok", t)
             ELSE /\ jobs' = (jobs \ {j}) \cup {[j EXCEPT !.on = t, !.step = @ + 1]}
                  /\ UNCHANGED call
    /\ calm' = (calm /\ j.by = "tui" /\ j.method # "defer")
    /\ UNCHANGED <<disk, up, panel, screen, lists, load, daemon, others>>

\* The request is refused, or one of its commands fails.
Fail(j) ==
    /\ up /\ Unlocked(j)
    /\ \/ Refused(j) /\ UNCHANGED others
       \/ ~Refused(j) /\ others < MaxOthers /\ others' = others + 1
    /\ jobs' = jobs \ {j}
    /\ Reply(j, "err", j.on)
    /\ UNCHANGED <<registry, disk, up, window, panel, screen, lists, load, daemon, calm>>

-----------------------------------------------------------------------------
(* Other programs. *)

Other ==
    /\ Open
    /\ others < MaxOthers
    /\ others' = others + 1
    /\ Changed
    /\ UNCHANGED <<registry, window, panel, screen, lists, load, daemon>>

\* walker, a terminal or Hyprland asks for a task to be changed.
Request(method, x) ==
    /\ up
    /\ x \in IF method \in {"create", "defer"} THEN RepoChoices
             ELSE IF method = "default" THEN {Default} ELSE Tasks \ fresh
    /\ jobs' = jobs \cup {Job("other", method, x)}
    /\ Other
    /\ UNCHANGED <<disk, up, call>>

AddRepo(r) ==
    /\ r \in dirs \ registered
    /\ registered' = registered \cup {r}
    /\ Other
    /\ UNCHANGED <<dirs, up, jobs, call>>

RemoveRepo(r) ==
    /\ r \in registered \cap dirs
    /\ ~Used(r)
    /\ registered' = registered \ {r}
    /\ Other
    /\ UNCHANGED <<dirs, up, jobs, call>>

\* The user moves a checkout away, or back.
MoveCheckout(r) ==
    /\ dirs' = IF r \in dirs THEN dirs \ {r} ELSE dirs \cup {r}
    /\ Other
    /\ UNCHANGED <<registered, up, jobs, call>>

DaemonStarts ==
    /\ ~up
    /\ up' = TRUE
    /\ Other
    /\ UNCHANGED <<disk, jobs, call>>

DaemonStops ==
    /\ up
    /\ up' = FALSE
    /\ jobs' = {}
    /\ call' = IF call.got = "waiting" THEN [call EXCEPT !.got = "err"] ELSE call
    /\ Other
    /\ UNCHANGED disk

-----------------------------------------------------------------------------
Init ==
    /\ Registry!Init
    /\ \A t \in Fresh : status[t] = "absent"
    /\ \A t \in Tasks \ Fresh : status[t] # "absent"
    /\ fresh = Fresh
    /\ order = SetToSeq(Tasks \ Fresh)
    /\ registered \in SUBSET Repos
    /\ dirs = Repos
    /\ up \in BOOLEAN
    /\ jobs = {}
    /\ window \in {"floating", "terminal"}
    /\ panel = "tasks"
    /\ screen = Main
    /\ repos = <<>>
    /\ rows = [tasks |-> <<>>, archived |-> <<>>]
    /\ mark = [tasks |-> 0, archived |-> 0, repos |-> 0]
    /\ load = [NoLoad EXCEPT !.step = 1]
    /\ call = NoCall
    /\ known = "unknown"
    /\ checker = "idle"
    /\ cached = FALSE
    /\ others = 0
    /\ calm = TRUE

Key ==
    \/ Refresh \/ Close \/ SwitchSelected \/ BeginNew \/ BeginRegister \/ BeginUnregister
    \/ Dismiss \/ SubmitRename \/ SubmitTask \/ LeaveSetup
    \/ \E p \in Panels : SwitchPanel(p) \/ Move(p)
    \/ \E at \in Dialogs \cup {"rename"} : OpenDialog(at)
    \/ \E key \in Keys : Turn(key) \/ Confirm(key) \/ CheckUnregister(key)
    \/ \E c \in RepoChoices : Choose(c)
    \/ \E r \in Repos : Register(r)

Loop == ReadTasks \/ ShowLists \/ Answer \/ Unregister
Daemon == \E j \in jobs : Serve(j) \/ Fail(j)

Environment ==
    \/ ReloadFails \/ Timeout \/ DaemonStarts \/ DaemonStops
    \/ \E method \in DOMAIN Script, x \in Tasks \cup RepoChoices \cup {Default} : Request(method, x)
    \/ \E r \in Repos : AddRepo(r) \/ RemoveRepo(r) \/ MoveCheckout(r)

Next ==
    \/ Key \/ Loop \/ SetupEnds
    \/ Spawn \/ Probe \/ Poll \/ Expire
    \/ Open /\ (Daemon \/ Environment)

\* The loop polls the checker in every round, so between any two keys.
Fairness ==
    /\ WF_vars(Loop) /\ WF_vars(Open /\ Daemon)
    /\ SF_vars(Spawn) /\ WF_vars(Probe) /\ SF_vars(Poll) /\ WF_vars(Expire)

Spec == Init /\ [][Next]_vars
FairSpec == Spec /\ Fairness

-----------------------------------------------------------------------------
(* Every highlight is on a task, and what is open is about something listed. *)
TypeOK ==
    /\ status \in [Tasks -> {"absent", "active", "archived"}]
    /\ cur \in Tasks \cup {Default}
    /\ fresh \subseteq Fresh
    /\ ToSet(order) = {t \in Tasks : status[t] # "absent"}
    /\ screen \in Screens
    /\ panel \in Panels
    /\ load.step \in 0..4
    /\ known \in {"unknown", "running", "stopped"}
    /\ checker \in {"idle", "probing", "up", "down"}
    /\ mark.repos \in DOMAIN repos \cup {0}
    /\ \A p \in {"tasks", "archived"} :
          mark[p] \in TaskRows(rows[p]) \cup (IF TaskRows(rows[p]) = {} THEN {0} ELSE {})

(* The lists show every task whose checkout is there, once, where it belongs, *)
(* as long as nothing changed since the last reload began (app.rs, reload).  *)
ListsShowRegistry ==
    Free /\ screen = Main /\ calm =>
        \A t \in Tasks : \A p \in {"tasks", "archived"} :
            LET shown == {i \in TaskRows(rows[p]) : rows[p][i].task = t}
            IN  IF /\ status[t] = (IF p = "tasks" THEN "active" ELSE "archived")
                   /\ Source[t] \in dirs \cup {Scratch}
                THEN \E i \in shown : shown = {i}
                ELSE shown = {}

(* A reload leaves the highlight on the task it was on, when that is still   *)
(* listed: d, D, e and Enter act on what the user was looking at.            *)
SelectionStays ==
    [][load # NoLoad /\ load' = NoLoad /\ rows' # rows =>
        \A p \in {"tasks", "archived"} :
            Marked(p) \in Tasks /\ Where(rows'[p], Marked(p)) # 0 => Marked(p)' = Marked(p)]_vars

(* The banner ends up telling whether the daemon runs, whatever answers,     *)
(* cached pings and reloads come in between (daemon_check.rs, app.rs).       *)
BannerFollowsDaemon ==
    /\ <>[](Open /\ up) => <>[](known = "running")
    /\ <>[](Open /\ ~up) => <>[](known = "stopped")

=============================================================================
