------------------------------- MODULE Browser ------------------------------
(* The windows of a taskspace's browser and the file that remembers them.    *)
(* The Chromium helper sends its windows to a native host, which writes the  *)
(* live list and a snapshot for every task; archiving freezes the snapshot;  *)
(* a launch through the menu, the walker or `tsk open` reopens it. Hosts,    *)
(* requests of the daemon and launchers are processes of their own: they     *)
(* share files without a lock, and each may die between two of its steps.    *)
EXTENDS Naturals, Sequences, FiniteSets, TLC

LOCAL INSTANCE SequencesExt
LOCAL INSTANCE FiniteSetsExt

CONSTANTS
    Tasks,
    Pages,         \* what a tab shows; different pages have unrelated titles
    Hosts,         \* native hosts that can run at the same time, one for each message
    Launchers,     \* `tsk launch`, `tsk open` and `tsk chromium` commands
    Daemon,        \* the thread of the daemon that archives, restores or deletes
    Desk,          \* the default taskspace
    None,
    MaxWindows,    \* bound: windows open or on their way
    MaxActs,       \* bound: what the user does
    MaxPushes,     \* bound: messages of the helper
    MaxFaults      \* bound: processes that die

ASSUME ProcAssumption == Daemon \notin Hosts \cup Launchers

ASSUME BoundsAssumption ==
    /\ Desk \notin Tasks /\ None \notin Tasks
    /\ MaxWindows \in Nat \ {0} /\ MaxActs \in Nat /\ MaxPushes \in Nat /\ MaxFaults \in Nat

VARIABLES
    status,    \* of each task in the registry: "active", "archived" or "deleted"
    here,      \* the taskspace the user is in
    wins,      \* the windows of the compositor, in the order Chromium lists its own
    coming,    \* windows asked for that the compositor does not have yet
    live,      \* live-windows.json
    file,      \* browser-session.json of each task
    proc,      \* what each process is doing
    bounds,    \* acts, messages and deaths so far
    frozen     \* history: the snapshot the last archiving of a task left, until somebody may replace it

vars == <<status, here, wins, coming, live, file, proc, bounds, frozen>>
---------------------------------------------------------------------------
Procs == Hosts \cup Launchers \cup {Daemon}
Spaces == Tasks \cup {Desk}
Ids == 1..MaxWindows
Tabs == (SUBSET Pages) \ {{}}
\* A browser window shows the title of its top tab; a task's terminal is titled after the task.
Windows == [app : {"browser"}, space : Spaces, tabs : Tabs, top : Pages, owner : {None}]
    \cup [app : {"terminal", "other"}, space : Spaces, tabs : {{}}, top : {None}, owner : Tasks \cup {None}]
\* A file is missing, whole, or cut short: fs::write truncates before it writes.
Missing == [kind |-> "missing"]
Torn == [kind |-> "torn"]
Listed(list) == [kind |-> "whole", list |-> list]
\* The windows of a session are named by the window each was matched with.
Saved(list, pending) == [kind |-> "whole", list |-> list, pending |-> pending]
Lists == UNION {[ids -> Tabs] : ids \in SUBSET Ids}
NoWindows == [i \in {} |-> {}]

Idle == [pc |-> "idle", task |-> None, todo |-> {}, list |-> NoWindows, found |-> NoWindows,
         pending |-> FALSE, known |-> {}, url |-> None, then |-> "idle"]
\* Process p goes on with the fields new over what it knows.
Goes(p, new) ==
    proc' = [proc EXCEPT ![p] = [x \in DOMAIN Idle |-> IF x \in DOMAIN new THEN new[x] ELSE proc[p][x]]]
Ends(p) == proc' = [proc EXCEPT ![p] = Idle]
At(p, pc) == proc[p].pc = pc

Open == DOMAIN wins
Browsers == {i \in Open : wins[i].app = "browser"}
\* client_belongs_to_task: by the workspace, or by a title that starts with the task.
ClientsOf(t) == {i \in Open : wins[i].space = t \/ wins[i].owner = t}
BrowsersOf(t) == Browsers \cap ClientsOf(t)
Act == bounds.acts < MaxActs /\ bounds' = [bounds EXCEPT !.acts = @ + 1]
\* A window asked for beyond the bound does not come.
Ask(w) == coming' = IF Len(coming) + Cardinality(Open) < MaxWindows THEN Append(coming, w) ELSE coming
AskBrowser(tabs) == \E top \in tabs : Ask([app |-> "browser", space |-> Desk, tabs |-> tabs, top |-> top, owner |-> None])
---------------------------------------------------------------------------
(* Matching windows with the live list                                       *)

\* 300 for the active tab of a listed window, 200 for another tab; titles that contain each other do not occur.
Score(title, w) == IF title = w.top THEN 300 ELSE IF title \in w.tabs THEN 200 ELSE 0
\* The last of the best, as max_by_key gives it.
Best(title, list, unused) ==
    LET top == Max({Score(title, list[i]) : i \in unused})
    IN  Max({i \in unused : Score(title, list[i]) = top})
\* Windows take their match one after another, each from what is left.
Matched(order, list) ==
    FoldLeft(LAMBDA acc, c :
        IF \A i \in acc.unused : Score(wins[c].top, list[i]) = 0 THEN acc
        ELSE LET i == Best(wins[c].top, list, acc.unused)
             IN  [unused |-> acc.unused \ {i}, out |-> (c :> list[i].tabs) @@ acc.out],
        [unused |-> DOMAIN list, out |-> NoWindows], order).out
\* hyprctl lists the windows in any order.
Assigned(t, list) == {Matched(order, list) : order \in SetToSeqs(BrowsersOf(t))}
---------------------------------------------------------------------------
(* Writing a file                                                            *)

\* What another process wrote since the truncation may stick out behind a shorter text.
Written(old, new) == IF old = Torn THEN {new} ELSE {new, Torn}
Truncate(p) ==
    /\ At(p, "save")
    /\ file' = [file EXCEPT ![proc[p].task] = Torn]
    /\ Goes(p, [pc |-> "write"])
    /\ UNCHANGED <<status, here, wins, coming, live, bounds, frozen>>

\* Another process that has read the session of t and is about to write it.
Meanwhile(p, t) == \E q \in Procs \ {p} : proc[q].task = t /\ proc[q].pc \in {"capture", "look", "save", "write"}
Freeze(p, t) ==
    frozen' = IF p # Daemon \/ file'[t] = Torn THEN frozen
              ELSE [frozen EXCEPT ![t] = [session |-> file'[t], alone |-> ~Meanwhile(p, t)]]
Write(p) ==
    LET t == proc[p].task IN
    /\ At(p, "write")
    /\ \E new \in Written(file[t], Saved(proc[p].found, proc[p].pending)) : file' = [file EXCEPT ![t] = new]
    /\ Freeze(p, t)
    /\ Goes(p, [pc |-> proc[p].then])
    /\ UNCHANGED <<status, here, wins, coming, live, bounds>>
---------------------------------------------------------------------------
(* The helper and its native hosts                                           *)

Push(h) ==
    /\ At(h, "idle") /\ bounds.pushes < MaxPushes
    /\ bounds' = [bounds EXCEPT !.pushes = @ + 1]
    /\ Goes(h, [pc |-> "live", list |-> [i \in Browsers |-> [tabs |-> wins[i].tabs, top |-> wins[i].top]]])
    /\ UNCHANGED <<status, here, wins, coming, live, file, frozen>>

TruncateLive(h) ==
    /\ At(h, "live")
    /\ live' = Torn /\ Goes(h, [pc |-> "list"])
    /\ UNCHANGED <<status, here, wins, coming, file, bounds, frozen>>

WriteLive(h) ==
    /\ At(h, "list")
    /\ live' \in Written(live, Listed(proc[h].list))
    /\ Goes(h, [pc |-> "tasks"])
    /\ UNCHANGED <<status, here, wins, coming, file, bounds, frozen>>

\* The refresh goes through the active tasks as the registry has them now.
LoadTasks(h) ==
    /\ At(h, "tasks")
    /\ Goes(h, [pc |-> "each", todo |-> {t \in Tasks : status[t] = "active"}])
    /\ UNCHANGED <<status, here, wins, coming, live, file, bounds, frozen>>

\* Mutant: a pending session is refreshed like any other.
CheckPresent(h, t) ==
    /\ IF file[t] = Torn THEN Ends(h)
       ELSE Goes(h, [pc |-> "look", task |-> t, todo |-> proc[h].todo \ {t}])
    /\ UNCHANGED <<status, here, wins, coming, live, file, bounds, frozen>>

\* The refresh of all later tasks ends at a session it cannot read.
CheckSession(h, t) ==
    /\ CASE file[t] = Torn -> Ends(h)
         [] file[t].kind = "whole" /\ file[t].pending -> Goes(h, [todo |-> proc[h].todo \ {t}])
         [] OTHER -> Goes(h, [pc |-> "look", task |-> t, todo |-> proc[h].todo \ {t}])
    /\ UNCHANGED <<status, here, wins, coming, live, file, bounds, frozen>>

\* hyprctl now, the live list of the message: a task without a match keeps its snapshot.
Look(h) ==
    /\ At(h, "look")
    /\ \E found \in Assigned(proc[h].task, proc[h].list) :
         IF found = NoWindows THEN Goes(h, [pc |-> "each", task |-> None])
         ELSE Goes(h, [pc |-> "save", found |-> found, pending |-> FALSE, then |-> "each"])
    /\ UNCHANGED <<status, here, wins, coming, live, file, bounds, frozen>>

HostEnds(h) ==
    /\ At(h, "each") /\ proc[h].todo = {}
    /\ Ends(h)
    /\ UNCHANGED <<status, here, wins, coming, live, file, bounds, frozen>>

Host(h) ==
    \/ Push(h) \/ TruncateLive(h) \/ WriteLive(h) \/ LoadTasks(h) \/ Look(h) \/ HostEnds(h)
    \/ At(h, "each") /\ \E t \in proc[h].todo : CheckSession(h, t)
---------------------------------------------------------------------------
(* The daemon's requests, and `tsk chromium snapshot`                        *)

BeginArchive(t) ==
    /\ At(Daemon, "idle") /\ status[t] = "active" /\ Act
    /\ Goes(Daemon, [pc |-> "capture", task |-> t, then |-> "leave"])
    /\ frozen' = [frozen EXCEPT ![t] = None]
    /\ UNCHANGED <<status, here, wins, coming, live, file>>

BeginSnapshot(l) ==
    /\ At(l, "idle") /\ here \in Tasks /\ status[here] = "active" /\ live.kind = "whole" /\ Act
    /\ Goes(l, [pc |-> "capture", task |-> here])
    /\ frozen' = [frozen EXCEPT ![here] = None]
    /\ UNCHANGED <<status, here, wins, coming, live, file>>

\* A capture that finds nothing keeps the windows of the session; one that cannot read a file saves nothing.
Capture(p) ==
    LET t == proc[p].task
        Take(found) == Goes(p, [pc |-> "save", found |-> found, pending |-> TRUE])
        Old == IF file[t].kind = "whole" THEN file[t].list ELSE NoWindows
    IN
    /\ At(p, "capture")
    /\ \/ live = Torn /\ Goes(p, [pc |-> proc[p].then])
       \/ /\ live # Torn
          /\ \E found \in Assigned(t, IF live = Missing THEN NoWindows ELSE live.list) :
               CASE found # NoWindows -> Take(found)
                 [] found = NoWindows /\ file[t] = Torn -> Goes(p, [pc |-> proc[p].then])
                 [] OTHER -> Take(Old)
    /\ UNCHANGED <<status, here, wins, coming, live, file, bounds, frozen>>

BeginDelete(t) ==
    /\ At(Daemon, "idle") /\ status[t] # "deleted" /\ Act
    /\ Goes(Daemon, [pc |-> "leave", task |-> t, then |-> "remove"])
    /\ UNCHANGED <<status, here, wins, coming, live, file, frozen>>

Leave ==
    /\ At(Daemon, "leave")
    /\ here' = IF here = proc[Daemon].task THEN Desk ELSE here
    /\ Goes(Daemon, [pc |-> "close"])
    /\ UNCHANGED <<status, wins, coming, live, file, bounds, frozen>>

CloseWindows ==
    /\ At(Daemon, "close")
    /\ wins' = [i \in Open \ ClientsOf(proc[Daemon].task) |-> wins[i]]
    /\ Goes(Daemon, [pc |-> IF proc[Daemon].then = "remove" THEN "remove" ELSE "complete"])
    /\ UNCHANGED <<status, here, coming, live, file, bounds, frozen>>

\* Deleting removes the task's directory, then the task.
RemoveHome ==
    LET t == proc[Daemon].task IN
    /\ At(Daemon, "remove")
    /\ file' = [file EXCEPT ![t] = Missing]
    /\ frozen' = [frozen EXCEPT ![t] = None]
    /\ Goes(Daemon, [pc |-> "complete"])
    /\ UNCHANGED <<status, here, wins, coming, live, bounds>>

Complete ==
    /\ At(Daemon, "complete")
    /\ status' = [status EXCEPT ![proc[Daemon].task] = IF proc[Daemon].then = "remove" THEN "deleted" ELSE "archived"]
    /\ Ends(Daemon)
    /\ UNCHANGED <<here, wins, coming, live, file, bounds, frozen>>

Restore(t) ==
    /\ At(Daemon, "idle") /\ status[t] = "archived" /\ Act
    /\ status' = [status EXCEPT ![t] = "active"] /\ here' = t
    /\ Goes(Daemon, [pc |-> "hook", task |-> t])
    /\ UNCHANGED <<wins, coming, live, file, frozen>>
\* An on_restore hook, where there is one, goes to the workspace of its task once more.
RunHook ==
    /\ At(Daemon, "hook")
    /\ here' \in {here, proc[Daemon].task}
    /\ Ends(Daemon)
    /\ UNCHANGED <<status, wins, coming, live, file, bounds, frozen>>

Requests ==
    \/ \E t \in Tasks : BeginArchive(t) \/ BeginDelete(t) \/ Restore(t)
    \/ Capture(Daemon) \/ Truncate(Daemon) \/ Write(Daemon)
    \/ Leave \/ CloseWindows \/ RemoveHome \/ Complete \/ RunHook
---------------------------------------------------------------------------
(* Launching                                                                 *)

\* What an entry of the menu or a command line looks like, and whether it has arguments of its own.
Entries == [looks : SUBSET {"terminal", "browser", "editor"}, args : BOOLEAN]
Integration(e) ==
    IF "terminal" \in e.looks THEN "terminal"
    ELSE IF "browser" \in e.looks THEN "browser"
    ELSE IF "editor" \in e.looks THEN "editor" ELSE "generic"
\* The task a launch belongs to: the one whose taskspace the user is in.
Context == IF here \in Tasks /\ status[here] = "active" THEN here ELSE None
AskTerminal(owner) == Ask([app |-> "terminal", space |-> Desk, tabs |-> {}, top |-> None, owner |-> owner])
AskApp == Ask([app |-> "other", space |-> Desk, tabs |-> {}, top |-> None, owner |-> None])

Start(l, e, kind) == At(l, "idle") /\ Integration(e) = kind /\ Act
Started == UNCHANGED <<status, here, wins, live, file, proc, frozen>>

\* A terminal, or a command in one, on the host or in the task's container; its title names the task.
LaunchTerminal(l, e) == Start(l, e, "terminal") /\ AskTerminal(Context) /\ Started
\* The editor gets the checkout, or the path it was given.
LaunchEditor(l, e) == Start(l, e, "editor") /\ AskApp /\ Started
\* Anything else runs as it is, under a helper that reports an early failure.
LaunchGeneric(l, e) == Start(l, e, "generic") /\ AskApp /\ Started
\* A browser with arguments, or outside a task, is started and left alone.
LaunchPlain(l, e) ==
    /\ Start(l, e, "browser") /\ (e.args \/ Context = None)
    /\ \E page \in Pages : AskBrowser({page})
    /\ Started

\* `tsk launch` of a browser or `tsk task browser`; with a URL, `tsk open`. A task may also be named.
LaunchBrowser(l, t, url) ==
    /\ At(l, "idle") /\ status[t] # "deleted" /\ Act
    /\ Goes(l, [pc |-> "find", task |-> t, url |-> url])
    /\ UNCHANGED <<status, here, wins, coming, live, file, frozen>>

\* Outside a task, a URL goes to the system's opener.
Delegate(l, url) ==
    /\ At(l, "idle") /\ Context = None /\ Act
    /\ AskBrowser({url})
    /\ UNCHANGED <<status, here, wins, live, file, proc, frozen>>

\* Chromium puts a URL into the window activated last, the one just focused.
ShowIn(i, url) ==
    /\ here' = wins[i].space
    /\ wins' = IF url = None THEN wins ELSE [wins EXCEPT ![i].tabs = @ \cup {url}, ![i].top = url]

\* A window of the task is focused, one on the active workspace first.
Find(l) ==
    LET mine == BrowsersOf(proc[l].task)
        near == {i \in mine : wins[i].space = here}
    IN
    /\ At(l, "find")
    /\ IF mine = {} THEN Goes(l, [pc |-> "session"]) /\ UNCHANGED <<here, wins>>
       ELSE /\ \E i \in IF near = {} THEN mine ELSE near : ShowIn(i, proc[l].url)
            /\ Ends(l)
    /\ UNCHANGED <<status, coming, live, file, bounds, frozen>>

\* `tsk chromium restore` reopens the session even beside open windows.
BeginReopen(l, t) ==
    /\ At(l, "idle") /\ status[t] # "deleted" /\ file[t].kind = "whole" /\ file[t].list # NoWindows /\ Act
    /\ Goes(l, [pc |-> "open", task |-> t, list |-> file[t].list, todo |-> DOMAIN file[t].list, then |-> "consume"])
    /\ UNCHANGED <<status, here, wins, coming, live, file, frozen>>

\* The session is reopened whether or not it is pending.
ReadSession(l) ==
    LET s == file[proc[l].task] IN
    /\ At(l, "session")
    /\ CASE s = Torn -> Ends(l)
         [] s # Torn /\ (s = Missing \/ s.list = NoWindows) -> Goes(l, [pc |-> "first"])
         [] OTHER -> Goes(l, [pc |-> "open", list |-> s.list, todo |-> DOMAIN s.list, then |-> "consume"])
    /\ UNCHANGED <<status, here, wins, coming, live, file, bounds, frozen>>

OpenSaved(l) ==
    /\ At(l, "open") /\ proc[l].todo # {}
    /\ here' = proc[l].task
    /\ LET i == Min(proc[l].todo) IN
       AskBrowser(proc[l].list[i]) /\ Goes(l, [pc |-> "place", todo |-> proc[l].todo \ {i}, known |-> Browsers])
    /\ UNCHANGED <<status, wins, live, file, bounds, frozen>>

\* No session: the URL, or the tabs the repository configures, its web page or a new tab.
OpenFirst(l) ==
    /\ At(l, "first")
    /\ here' = proc[l].task
    /\ \E tabs \in IF proc[l].url = None THEN Tabs ELSE {{proc[l].url}} : AskBrowser(tabs)
    /\ Goes(l, [pc |-> "place", known |-> Browsers, then |-> "idle"])
    /\ UNCHANGED <<status, wins, live, file, bounds, frozen>>

\* The first window that was not there is moved to the task's workspace and focused; after a second nobody waits.
PlaceOf(l) == IF proc[l].todo # {} THEN "open" ELSE proc[l].then
Place(l) ==
    /\ At(l, "place")
    /\ \E i \in Browsers \ proc[l].known :
         /\ wins' = [wins EXCEPT ![i].space = proc[l].task]
         /\ here' = proc[l].task
    /\ Goes(l, [pc |-> PlaceOf(l)])
    /\ UNCHANGED <<status, coming, live, file, bounds, frozen>>
GiveUp(l) ==
    /\ At(l, "place")
    /\ Goes(l, [pc |-> PlaceOf(l)])
    /\ UNCHANGED <<status, here, wins, coming, live, file, bounds, frozen>>

\* A reopened session is no longer pending; a URL then joins its window, or gets one of its own.
Consume(l) ==
    LET t == proc[l].task
        s == file[t]
    IN
    /\ At(l, "consume")
    /\ CASE s = Torn -> Ends(l) /\ UNCHANGED frozen
         [] s # Torn /\ (s = Missing \/ ~s.pending) -> Goes(l, [pc |-> "url"]) /\ UNCHANGED frozen
         [] OTHER -> /\ Goes(l, [pc |-> "save", found |-> s.list, pending |-> FALSE, then |-> "url"])
                     /\ frozen' = [frozen EXCEPT ![t] = None]
    /\ UNCHANGED <<status, here, wins, coming, live, file, bounds>>
AddUrl(l) ==
    LET mine == BrowsersOf(proc[l].task)
        url == proc[l].url
    IN
    /\ At(l, "url")
    /\ CASE url = None -> UNCHANGED <<here, wins, coming>>
         [] url # None /\ mine # {} -> (\E i \in mine : ShowIn(i, url)) /\ UNCHANGED coming
         [] OTHER -> AskBrowser({url}) /\ UNCHANGED <<here, wins>>
    /\ Ends(l)
    /\ UNCHANGED <<status, live, file, bounds, frozen>>

Launcher(l) ==
    \/ \E e \in Entries : LaunchTerminal(l, e) \/ LaunchEditor(l, e) \/ LaunchGeneric(l, e) \/ LaunchPlain(l, e)
    \/ \E t \in Tasks, url \in Pages \cup {None} : LaunchBrowser(l, t, url)
    \/ \E url \in Pages : Delegate(l, url)
    \/ \E t \in Tasks : BeginReopen(l, t)
    \/ BeginSnapshot(l) \/ Capture(l) \/ Truncate(l) \/ Write(l)
    \/ Find(l) \/ ReadSession(l) \/ OpenSaved(l) \/ OpenFirst(l) \/ Place(l) \/ GiveUp(l) \/ Consume(l) \/ AddUrl(l)
---------------------------------------------------------------------------
(* The compositor, the user and failures                                     *)

\* A window appears where the user is by then.
Arrive ==
    /\ coming # <<>> /\ Open # Ids
    /\ LET w == Head(coming)
           i == Min(Ids \ Open)
       IN  wins' = (i :> [w EXCEPT !.space = here]) @@ wins
    /\ coming' = Tail(coming)
    /\ UNCHANGED <<status, here, live, file, proc, bounds, frozen>>

SwitchTo(s) ==
    /\ s # here /\ (s \in Tasks => status[s] = "active") /\ Act
    /\ here' = s
    /\ UNCHANGED <<status, wins, coming, live, file, proc, frozen>>
Browse(i, tabs, top) ==
    /\ top \in tabs /\ Act
    /\ wins' = [wins EXCEPT ![i].tabs = tabs, ![i].top = top]
    /\ UNCHANGED <<status, here, coming, live, file, proc, frozen>>
CloseWindow(i) ==
    /\ Act
    /\ wins' = [j \in Open \ {i} |-> wins[j]]
    /\ UNCHANGED <<status, here, coming, live, file, proc, frozen>>
MoveWindow(i, s) ==
    /\ s # wins[i].space /\ Act
    /\ wins' = [wins EXCEPT ![i].space = s]
    /\ UNCHANGED <<status, here, coming, live, file, proc, frozen>>
User ==
    \/ \E s \in Spaces : SwitchTo(s)
    \/ \E i \in Browsers, tabs \in Tabs, top \in Pages : Browse(i, tabs, top)
    \/ \E i \in Open : CloseWindow(i) \/ \E s \in Spaces : MoveWindow(i, s)

\* A process dies; the daemon's next life finds the task as it left it.
Die(p) ==
    /\ ~At(p, "idle") /\ bounds.faults < MaxFaults
    /\ bounds' = [bounds EXCEPT !.faults = @ + 1]
    /\ Ends(p)
    /\ UNCHANGED <<status, here, wins, coming, live, file, frozen>>
---------------------------------------------------------------------------
\* A task may have been archived before, its windows saved.
Before == [t \in Tasks |-> IF status[t] = "active" THEN Missing ELSE Saved(1 :> Pages, TRUE)]
Init ==
    /\ status \in [Tasks -> {"active", "archived"}]
    /\ here = Desk /\ coming = <<>> /\ live = Missing
    /\ wins \in {<<>>} \cup {1 :> w : w \in {v \in Windows :
                v.app = "browser" /\ v.top \in v.tabs /\ (v.space = Desk \/ status[v.space] = "active")}}
    /\ file = Before
    /\ frozen = [t \in Tasks |-> IF status[t] = "active" THEN None ELSE [session |-> Before[t], alone |-> TRUE]]
    /\ proc = [p \in Procs |-> Idle]
    /\ bounds = [acts |-> 0, pushes |-> 0, faults |-> 0]

Next ==
    \/ \E h \in Hosts : Host(h) \/ Truncate(h) \/ Write(h)
    \/ Requests
    \/ \E l \in Launchers : Launcher(l)
    \/ Arrive \/ User \/ \E p \in Procs : Die(p)

Spec == Init /\ [][Next]_vars
---------------------------------------------------------------------------
(* The snapshot an archiving leaves, when nobody else was about to write it, *)
(* stays as it is, pending, until a launch takes it, the task is archived or *)
(* snapshotted again, or deleted: hosts whose message was older, late or cut *)
(* short pass it by (docs/install.md: "Archiving freezes that snapshot").    *)
SnapshotFrozen == \A t \in Tasks : frozen[t] # None /\ frozen[t].alone => file[t] = frozen[t].session
=============================================================================
