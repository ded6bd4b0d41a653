---------------------------- MODULE BrowserProofs ---------------------------
(* For any number of tasks, hosts and launchers, a snapshot that an archive  *)
(* froze undisturbed stays. What makes it inductive: as long as it is frozen *)
(* nobody is between reading and writing it, and it is pending, which is     *)
(* what keeps everybody who comes later from getting there.                  *)
EXTENDS Browser, TLAPS

\* The steps at which a process writes, or has decided to write, its task's session.
Writing == {"capture", "look", "save", "write"}
Kept(t) == frozen[t] # None /\ frozen[t].alone

Domains == DOMAIN proc = Procs /\ DOMAIN file = Tasks /\ DOMAIN frozen = Tasks
KeptWhole == \A t \in Tasks : Kept(t) =>
    file[t] = frozen[t].session /\ file[t].kind = "whole" /\ file[t].pending
KeptAlone == \A t \in Tasks : Kept(t) =>
    \A p \in Procs : proc[p].task = t => proc[p].pc \notin Writing
Returns == \A p \in Procs : proc[p].then \notin Writing
ArchivesPending == proc[Daemon].pc \in {"save", "write"} => proc[Daemon].pending
IInv == Domains /\ KeptWhole /\ KeptAlone /\ Returns /\ ArchivesPending
---------------------------------------------------------------------------
\* A step of one process keeps the invariant when what stays frozen is left alone, and the process
\* does not start to write what is frozen.
LEMMA OneStep ==
  ASSUME IInv, NEW p \in Procs, NEW v, proc' = [proc EXCEPT ![p] = v],
         DOMAIN file' = Tasks, DOMAIN frozen' = Tasks,
         \A t \in Tasks : Kept(t)' => Kept(t) /\ frozen'[t] = frozen[t] /\ file'[t] = file[t],
         v.pc \in Writing => \A t \in Tasks : v.task = t => ~Kept(t)',
         v.then \notin Writing,
         p = Daemon /\ v.pc \in {"save", "write"} => v.pending
  PROVE  IInv'
<1>1. /\ DOMAIN proc' = Procs /\ proc'[p] = v
      /\ \A q \in Procs \ {p} : proc'[q] = proc[q]
  BY DEF IInv, Domains
<1>2. Domains'
  BY <1>1 DEF Domains
<1>3. KeptWhole'
  BY DEF IInv, KeptWhole
<1>4. KeptAlone'
  BY <1>1 DEF IInv, KeptAlone
<1>5. Returns'
  BY <1>1 DEF IInv, Returns
<1>6. ArchivesPending'
  BY <1>1 DEF IInv, ArchivesPending, Procs
<1> QED BY <1>2, <1>3, <1>4, <1>5, <1>6 DEF IInv

\* A step that writes nothing and does not come near a session.
LEMMA Aside ==
  ASSUME IInv, NEW p \in Procs, NEW v, proc' = [proc EXCEPT ![p] = v],
         v.pc \notin Writing, v.then \notin Writing, UNCHANGED <<file, frozen>>
  PROVE  IInv'
<1>1. /\ DOMAIN file' = Tasks /\ DOMAIN frozen' = Tasks
      /\ \A t \in Tasks : Kept(t)' => Kept(t) /\ frozen'[t] = frozen[t] /\ file'[t] = file[t]
  BY DEF IInv, Domains, Kept
<1>2. ~(v.pc \in {"save", "write"})
  BY DEF Writing
<1> QED BY <1>1, <1>2, OneStep

\* A step of nobody, or of the environment.
LEMMA Elsewhere ==
  ASSUME IInv, UNCHANGED <<proc, file, frozen>>
  PROVE  IInv'
BY DEF IInv, Domains, KeptWhole, KeptAlone, Returns, ArchivesPending, Kept

LEMMA EndsAside ==
  ASSUME IInv, NEW p \in Procs, Ends(p), UNCHANGED <<file, frozen>>
  PROVE  IInv'
<1>1. Idle.pc \notin Writing /\ Idle.then \notin Writing
  BY DEF Idle, Writing
<1> QED BY <1>1, Aside DEF Ends

\* A process that goes on, no file written: it does not start to write what is frozen.
LEMMA GoesAside ==
  ASSUME IInv, NEW p \in Procs, NEW new, Goes(p, new),
         "pc" \in DOMAIN new => new["pc"] \notin Writing,
         "pc" \notin DOMAIN new => proc[p].pc \notin Writing,
         "then" \in DOMAIN new => new["then"] \notin Writing,
         UNCHANGED <<file, frozen>>
  PROVE  IInv'
<1> DEFINE v == [x \in DOMAIN Idle |-> IF x \in DOMAIN new THEN new[x] ELSE proc[p][x]]
<1>1. "pc" \in DOMAIN Idle /\ "then" \in DOMAIN Idle
  BY DEF Idle
<1>2. v.pc \notin Writing /\ v.then \notin Writing
  BY <1>1 DEF IInv, Returns
<1>3. proc' = [proc EXCEPT ![p] = v]
  BY DEF Goes
<1> HIDE DEF v
<1> QED BY <1>2, <1>3, Aside

\* A process that goes on where it may write, files written or frozen on the way.
LEMMA GoesWriting ==
  ASSUME IInv, NEW p \in Procs, NEW new, Goes(p, new),
         "pc" \in DOMAIN new,
         "then" \in DOMAIN new => new["then"] \notin Writing,
         new["pc"] \in Writing =>
            \A t \in Tasks : (IF "task" \in DOMAIN new THEN new["task"] ELSE proc[p].task) = t => ~Kept(t)',
         p = Daemon /\ new["pc"] \in {"save", "write"} =>
            IF "pending" \in DOMAIN new THEN new["pending"] ELSE proc[p].pending,
         DOMAIN file' = Tasks, DOMAIN frozen' = Tasks,
         \A t \in Tasks : Kept(t)' => Kept(t) /\ frozen'[t] = frozen[t] /\ file'[t] = file[t]
  PROVE  IInv'
<1> DEFINE v == [x \in DOMAIN Idle |-> IF x \in DOMAIN new THEN new[x] ELSE proc[p][x]]
<1>1. {"pc", "task", "then", "pending"} \subseteq DOMAIN Idle
  BY DEF Idle
<1>2. /\ v.pc = new["pc"] /\ v.then \notin Writing
      /\ v.task = IF "task" \in DOMAIN new THEN new["task"] ELSE proc[p].task
      /\ v.pending = IF "pending" \in DOMAIN new THEN new["pending"] ELSE proc[p].pending
  BY <1>1 DEF IInv, Returns
<1>3. proc' = [proc EXCEPT ![p] = v]
  BY DEF Goes
<1> HIDE DEF v
<1>4. v.pc \in Writing => \A t \in Tasks : v.task = t => ~Kept(t)'
  BY <1>2
<1>5. p = Daemon /\ v.pc \in {"save", "write"} => v.pending
  BY <1>2
<1> QED BY <1>2, <1>3, <1>4, <1>5, OneStep
---------------------------------------------------------------------------
(* The steps that touch sessions                                             *)

\* A process about to write a task's session is not about to write a frozen one.
LEMMA WriterFree ==
  ASSUME IInv, NEW p \in Procs, proc[p].pc \in Writing, NEW t \in Tasks, proc[p].task = t
  PROVE  ~Kept(t)
BY DEF IInv, KeptAlone

LEMMA KeptStays ==
  ASSUME IInv, UNCHANGED <<file, frozen>>
  PROVE  /\ DOMAIN file' = Tasks /\ DOMAIN frozen' = Tasks
         /\ \A t \in Tasks : (Kept(t)' <=> Kept(t)) /\ frozen'[t] = frozen[t] /\ file'[t] = file[t]
BY DEF IInv, Domains, Kept

\* Neither truncating nor writing a session changes another one, or one that is frozen.
LEMMA TruncateStep ==
  ASSUME IInv, NEW p \in Procs, Truncate(p)
  PROVE  IInv'
<1> DEFINE new == [pc |-> "write"]
<1>1. Goes(p, new) /\ UNCHANGED frozen /\ proc[p].pc \in Writing
  BY DEF Truncate, At, Writing
<1>2. \A t \in Tasks : proc[p].task = t => ~Kept(t)
  BY <1>1, WriterFree
<1>3. \A t \in Tasks : Kept(t)' => Kept(t) /\ frozen'[t] = frozen[t] /\ file'[t] = file[t]
  BY <1>1, <1>2 DEF Truncate, IInv, Domains, Kept
<1>4. DOMAIN file' = Tasks /\ DOMAIN frozen' = Tasks
  BY <1>1 DEF Truncate, IInv, Domains
<1>5. \A t \in Tasks : proc[p].task = t => ~Kept(t)'
  BY <1>1, <1>2 DEF Kept
<1>6. p = Daemon => proc[p].pending
  BY DEF Truncate, At, IInv, ArchivesPending
<1> QED BY <1>1, <1>3, <1>4, <1>5, <1>6, GoesWriting

LEMMA AloneField ==
  ASSUME NEW s, NEW alone \in BOOLEAN, NEW f, f = [session |-> s, alone |-> alone], f.alone
  PROVE  alone
OBVIOUS

\* The daemon's own write freezes what it wrote, alone or not; nobody who comes later writes it.
LEMMA WriteStep ==
  ASSUME IInv, NEW p \in Procs, Write(p)
  PROVE  IInv'
<1> DEFINE new == [pc |-> proc[p].then]
           t0 == proc[p].task
           s0 == Saved(proc[p].found, proc[p].pending)
<1>1. Goes(p, new) /\ proc[p].pc = "write" /\ proc[p].pc \in Writing /\ new.pc \notin Writing
  BY DEF Write, At, Writing, IInv, Returns
<1>2. \A t \in Tasks : t0 = t => ~Kept(t)
  BY <1>1, WriterFree
<1>3. PICK text \in Written(file[t0], s0) : file' = [file EXCEPT ![t0] = text]
  BY DEF Write
<1>4. text \in {s0, Torn}
  BY <1>3 DEF Written
<1>5. Freeze(p, t0)
  BY DEF Write
<1>6. /\ DOMAIN proc' = Procs
      /\ proc'[p].pc = proc[p].then /\ proc'[p].then = proc[p].then /\ proc'[p].task = t0
      /\ \A q \in Procs \ {p} : proc'[q] = proc[q]
  BY <1>1 DEF Goes, Idle, IInv, Domains
<1>7. DOMAIN file' = Tasks /\ DOMAIN frozen' = Tasks
  BY <1>3, <1>5 DEF Freeze, IInv, Domains
<1>8. \A t \in Tasks : t # t0 => file'[t] = file[t] /\ frozen'[t] = frozen[t]
  BY <1>3, <1>5 DEF Freeze, IInv, Domains
<1>9. ASSUME NEW t \in Tasks, Kept(t)', t = t0
      PROVE  /\ p = Daemon /\ file'[t] # Torn /\ file'[t] = text
             /\ frozen'[t] = [session |-> file'[t], alone |-> ~Meanwhile(p, t)]
  BY <1>9, <1>2, <1>3, <1>5 DEF Freeze, IInv, Domains, Kept
<1>10. Domains'
  BY <1>6, <1>7 DEF Domains
<1>11. KeptWhole'
  <2> SUFFICES ASSUME NEW t \in Tasks, Kept(t)'
               PROVE  file'[t] = frozen'[t].session /\ file'[t].kind = "whole" /\ file'[t].pending
    BY DEF KeptWhole
  <2>1. CASE t # t0
    BY <2>1, <1>8 DEF IInv, KeptWhole, Kept
  <2>2. CASE t = t0
    <3>1. /\ p = Daemon /\ file'[t] # Torn /\ file'[t] = text
          /\ frozen'[t] = [session |-> file'[t], alone |-> ~Meanwhile(p, t)]
      BY <2>2, <1>9
    <3>2. file'[t] = s0
      BY <3>1, <1>4
    <3>3. frozen'[t].session = file'[t]
      BY <3>1
    <3>4. proc[p].pending
      BY <3>1, <1>1 DEF IInv, ArchivesPending
    <3> QED BY <3>2, <3>3, <3>4 DEF Saved
  <2> QED BY <2>1, <2>2
<1>12. KeptAlone'
  <2> SUFFICES ASSUME NEW t \in Tasks, Kept(t)', NEW q \in Procs, proc'[q].task = t
               PROVE  proc'[q].pc \notin Writing
    BY DEF KeptAlone
  <2>1. CASE q = p
    BY <2>1, <1>1, <1>6
  <2>2. CASE q # p /\ t # t0
    BY <2>2, <1>6, <1>8 DEF IInv, KeptAlone, Kept
  <2>3. CASE q # p /\ t = t0
    <3>1. frozen'[t] = [session |-> file'[t], alone |-> ~Meanwhile(p, t)]
      BY <2>3, <1>9
    <3>2. frozen'[t].alone
      BY DEF Kept
    <3>3. ~Meanwhile(p, t)
      <4>1. (~Meanwhile(p, t)) \in BOOLEAN
        BY Zenon DEF Meanwhile
      <4> QED BY <3>1, <3>2, <4>1, AloneField
    <3> QED BY <2>3, <3>3, <1>6 DEF Meanwhile, Writing
  <2> QED BY <2>1, <2>2, <2>3
<1>13. Returns'
  BY <1>6 DEF IInv, Returns
<1>14. ArchivesPending'
  <2>1. CASE p = Daemon
    BY <2>1, <1>1, <1>6 DEF ArchivesPending, Writing
  <2>2. CASE p # Daemon
    BY <2>2, <1>6 DEF IInv, ArchivesPending, Procs
  <2> QED BY <2>1, <2>2
<1> QED BY <1>10, <1>11, <1>12, <1>13, <1>14 DEF IInv

LEMMA CaptureStep ==
  ASSUME IInv, NEW p \in Procs, Capture(p)
  PROVE  IInv'
<1>1. UNCHANGED <<file, frozen>> /\ proc[p].pc \in Writing
  BY DEF Capture, At, Writing
<1>2. \A t \in Tasks : proc[p].task = t => ~Kept(t)'
  BY <1>1, WriterFree, KeptStays
<1>3. \/ Goes(p, [pc |-> proc[p].then])
      \/ \E found : Goes(p, [pc |-> "save", found |-> found, pending |-> TRUE])
  BY DEF Capture
<1>4. CASE Goes(p, [pc |-> proc[p].then])
  BY <1>1, <1>4, GoesAside DEF IInv, Returns
<1>5. CASE \E found : Goes(p, [pc |-> "save", found |-> found, pending |-> TRUE])
  <2>1. PICK found : Goes(p, [pc |-> "save", found |-> found, pending |-> TRUE])
    BY <1>5
  <2> DEFINE new == [pc |-> "save", found |-> found, pending |-> TRUE]
  <2>2. /\ "pc" \in DOMAIN new /\ new["pc"] = "save"
        /\ "task" \notin DOMAIN new /\ "then" \notin DOMAIN new
        /\ "pending" \in DOMAIN new /\ new["pending"]
    OBVIOUS
  <2> HIDE DEF new
  <2>3. Goes(p, new)
    BY <2>1 DEF new
  <2> QED BY <1>1, <1>2, <2>2, <2>3, KeptStays, GoesWriting
<1> QED BY <1>3, <1>4, <1>5
---------------------------------------------------------------------------
(* The native hosts                                                          *)

LEMMA HostStep ==
  ASSUME IInv, NEW h \in Hosts, Host(h)
  PROVE  IInv'
<1>1. h \in Procs /\ h # Daemon
  BY ProcAssumption DEF Procs
<1>2. CASE Push(h)
  <2> DEFINE new == [pc |-> "live", list |-> [i \in Browsers |-> [tabs |-> wins[i].tabs, top |-> wins[i].top]]]
  <2>1. Goes(h, new) /\ UNCHANGED <<file, frozen>>
    BY <1>2 DEF Push
  <2>2. "pc" \in DOMAIN new /\ new["pc"] \notin Writing /\ "then" \notin DOMAIN new
    BY DEF Writing
  <2> HIDE DEF new
  <2> QED BY <1>1, <2>1, <2>2, GoesAside
<1>3. CASE TruncateLive(h)
  BY <1>1, <1>3, GoesAside DEF TruncateLive, Writing
<1>4. CASE WriteLive(h)
  BY <1>1, <1>4, GoesAside DEF WriteLive, Writing
<1>5. CASE LoadTasks(h)
  <2> DEFINE new == [pc |-> "each", todo |-> {t \in Tasks : status[t] = "active"}]
  <2>1. Goes(h, new) /\ UNCHANGED <<file, frozen>>
    BY <1>5 DEF LoadTasks
  <2>2. "pc" \in DOMAIN new /\ new["pc"] \notin Writing /\ "then" \notin DOMAIN new
    BY DEF Writing
  <2> HIDE DEF new
  <2> QED BY <1>1, <2>1, <2>2, GoesAside
<1>6. CASE Look(h)
  <2>1. UNCHANGED <<file, frozen>> /\ proc[h].pc \in Writing
    BY <1>6 DEF Look, At, Writing
  <2>2. \A t \in Tasks : proc[h].task = t => ~Kept(t)'
    BY <1>1, <2>1, WriterFree, KeptStays
  <2>3. \/ Goes(h, [pc |-> "each", task |-> None])
        \/ \E found : Goes(h, [pc |-> "save", found |-> found, pending |-> FALSE, then |-> "each"])
    BY <1>6 DEF Look
  <2>4. CASE Goes(h, [pc |-> "each", task |-> None])
    BY <1>1, <2>1, <2>4, GoesAside DEF Writing
  <2>5. ASSUME NEW found, Goes(h, [pc |-> "save", found |-> found, pending |-> FALSE, then |-> "each"])
        PROVE  IInv'
    <3> DEFINE new == [pc |-> "save", found |-> found, pending |-> FALSE, then |-> "each"]
    <3>1. /\ "pc" \in DOMAIN new /\ "task" \notin DOMAIN new
          /\ "then" \in DOMAIN new /\ new["then"] \notin Writing
      BY DEF Writing
    <3>2. Goes(h, new)
      BY <2>5
    <3> HIDE DEF new
    <3> QED BY <1>1, <2>1, <2>2, <3>1, <3>2, KeptStays, GoesWriting
  <2> QED BY <2>3, <2>4, <2>5
<1>7. CASE HostEnds(h)
  BY <1>1, <1>7, EndsAside DEF HostEnds
<1>8. ASSUME NEW t, At(h, "each"), CheckSession(h, t)
      PROVE  IInv'
  <2>1. UNCHANGED <<file, frozen>> /\ proc[h].pc \notin Writing
    BY <1>8 DEF CheckSession, At, Writing
  <2>2. \/ Ends(h)
        \/ Goes(h, [todo |-> proc[h].todo \ {t}])
        \/ /\ ~(file[t].kind = "whole" /\ file[t].pending)
           /\ Goes(h, [pc |-> "look", task |-> t, todo |-> proc[h].todo \ {t}])
    BY <1>8 DEF CheckSession
  <2>3. CASE Ends(h)
    BY <1>1, <2>1, <2>3, EndsAside
  <2>4. CASE Goes(h, [todo |-> proc[h].todo \ {t}])
    <3> DEFINE new == [todo |-> proc[h].todo \ {t}]
    <3>1. "pc" \notin DOMAIN new /\ "then" \notin DOMAIN new
      OBVIOUS
    <3>2. Goes(h, new)
      BY <2>4
    <3> HIDE DEF new
    <3> QED BY <1>1, <2>1, <3>1, <3>2, GoesAside
  <2>5. CASE /\ ~(file[t].kind = "whole" /\ file[t].pending)
             /\ Goes(h, [pc |-> "look", task |-> t, todo |-> proc[h].todo \ {t}])
    <3> DEFINE new == [pc |-> "look", task |-> t, todo |-> proc[h].todo \ {t}]
    <3>1. /\ "pc" \in DOMAIN new /\ new["pc"] = "look" /\ "then" \notin DOMAIN new
          /\ "task" \in DOMAIN new /\ new["task"] = t
      OBVIOUS
    <3>2. \A u \in Tasks : t = u => ~Kept(u)'
      BY <2>1, <2>5, KeptStays DEF IInv, KeptWhole
    <3>3. Goes(h, new)
      BY <2>5
    <3> HIDE DEF new
    <3> QED BY <1>1, <2>1, <3>1, <3>2, <3>3, KeptStays, GoesWriting
  <2> QED BY <2>2, <2>3, <2>4, <2>5
<1> QED BY <1>2, <1>3, <1>4, <1>5, <1>6, <1>7, <1>8 DEF Host
---------------------------------------------------------------------------
(* The daemon                                                                *)

LEMMA RequestStep ==
  ASSUME IInv, Requests
  PROVE  IInv'
<1>1. Daemon \in Procs
  BY DEF Procs
<1>2. ASSUME NEW t \in Tasks, BeginArchive(t)
      PROVE  IInv'
  <2> DEFINE new == [pc |-> "capture", task |-> t, then |-> "leave"]
  <2>1. Goes(Daemon, new) /\ UNCHANGED file /\ frozen' = [frozen EXCEPT ![t] = None]
    BY <1>2 DEF BeginArchive
  <2>2. /\ "pc" \in DOMAIN new /\ new["pc"] \notin {"save", "write"}
        /\ "then" \in DOMAIN new /\ new["then"] \notin Writing
        /\ "task" \in DOMAIN new /\ new["task"] = t
    BY DEF Writing
  <2> HIDE DEF new
  <2>3. ~Kept(t)' /\ DOMAIN file' = Tasks /\ DOMAIN frozen' = Tasks
    BY <2>1 DEF IInv, Domains, Kept
  <2>4. \A u \in Tasks : Kept(u)' => Kept(u) /\ frozen'[u] = frozen[u] /\ file'[u] = file[u]
    BY <2>1, <2>3 DEF IInv, Domains, Kept
  <2> QED BY <1>1, <2>1, <2>2, <2>3, <2>4, GoesWriting
<1>3. ASSUME NEW t \in Tasks, BeginDelete(t)
      PROVE  IInv'
  <2> DEFINE new == [pc |-> "leave", task |-> t, then |-> "remove"]
  <2>1. Goes(Daemon, new) /\ UNCHANGED <<file, frozen>>
    BY <1>3 DEF BeginDelete
  <2>2. /\ "pc" \in DOMAIN new /\ new["pc"] \notin Writing
        /\ "then" \in DOMAIN new /\ new["then"] \notin Writing
    BY DEF Writing
  <2> HIDE DEF new
  <2> QED BY <1>1, <2>1, <2>2, GoesAside
<1>4. ASSUME NEW t \in Tasks, Restore(t)
      PROVE  IInv'
  <2> DEFINE new == [pc |-> "hook", task |-> t]
  <2>1. Goes(Daemon, new) /\ UNCHANGED <<file, frozen>>
    BY <1>4 DEF Restore
  <2>2. "pc" \in DOMAIN new /\ new["pc"] \notin Writing /\ "then" \notin DOMAIN new
    BY DEF Writing
  <2> HIDE DEF new
  <2> QED BY <1>1, <2>1, <2>2, GoesAside
<1>5. CASE Leave
  BY <1>1, <1>5, GoesAside DEF Leave, Writing
<1>6. CASE CloseWindows
  <2> DEFINE new == [pc |-> IF proc[Daemon].then = "remove" THEN "remove" ELSE "complete"]
  <2>1. Goes(Daemon, new) /\ UNCHANGED <<file, frozen>>
    BY <1>6 DEF CloseWindows
  <2>2. "pc" \in DOMAIN new /\ new["pc"] \notin Writing /\ "then" \notin DOMAIN new
    BY DEF Writing
  <2> HIDE DEF new
  <2> QED BY <1>1, <2>1, <2>2, GoesAside
<1>7. CASE RemoveHome
  <2> DEFINE new == [pc |-> "complete"]
             t == proc[Daemon].task
  <2>1. /\ Goes(Daemon, new) /\ file' = [file EXCEPT ![t] = Missing]
        /\ frozen' = [frozen EXCEPT ![t] = None]
    BY <1>7 DEF RemoveHome
  <2>2. "pc" \in DOMAIN new /\ new["pc"] \notin Writing /\ new["pc"] \notin {"save", "write"} /\ "then" \notin DOMAIN new
    BY DEF Writing
  <2> HIDE DEF new
  <2>3. DOMAIN file' = Tasks /\ DOMAIN frozen' = Tasks
    BY <2>1 DEF IInv, Domains
  <2>4. \A u \in Tasks : Kept(u)' => Kept(u) /\ frozen'[u] = frozen[u] /\ file'[u] = file[u]
    BY <2>1, <2>3 DEF IInv, Domains, Kept
  <2> QED BY <1>1, <2>1, <2>2, <2>3, <2>4, GoesWriting
<1>8. CASE Complete
  BY <1>1, <1>8, EndsAside DEF Complete
<1>9. CASE RunHook
  BY <1>1, <1>9, EndsAside DEF RunHook
<1> QED BY <1>1, <1>2, <1>3, <1>4, <1>5, <1>6, <1>7, <1>8, <1>9, CaptureStep, TruncateStep, WriteStep DEF Requests
---------------------------------------------------------------------------
(* The launchers                                                             *)

\* Taking a pending session ends its time as a frozen one before anything is written.
LEMMA ConsumeStep ==
  ASSUME IInv, NEW l \in Launchers, Consume(l)
  PROVE  IInv'
<1> DEFINE t == proc[l].task
           s == file[t]
           new == [pc |-> "save", found |-> s.list, pending |-> FALSE, then |-> "url"]
<1>1. l \in Procs /\ l # Daemon /\ UNCHANGED file
  BY ProcAssumption DEF Procs, Consume
<1>2. \/ Ends(l) /\ UNCHANGED frozen
      \/ Goes(l, [pc |-> "url"]) /\ UNCHANGED frozen
      \/ Goes(l, new) /\ frozen' = [frozen EXCEPT ![t] = None]
  BY DEF Consume
<1>3. CASE Ends(l) /\ UNCHANGED frozen
  BY <1>1, <1>3, EndsAside
<1>4. CASE Goes(l, [pc |-> "url"]) /\ UNCHANGED frozen
  BY <1>1, <1>4, GoesAside DEF Writing
<1>5. CASE Goes(l, new) /\ frozen' = [frozen EXCEPT ![t] = None]
  <2>1. DOMAIN file' = Tasks /\ DOMAIN frozen' = Tasks
    BY <1>1, <1>5 DEF IInv, Domains
  <2>2. \A u \in Tasks : Kept(u)' => Kept(u) /\ frozen'[u] = frozen[u] /\ file'[u] = file[u] /\ u # t
    BY <1>1, <1>5, <2>1 DEF IInv, Domains, Kept
  <2>3. /\ "pc" \in DOMAIN new /\ "task" \notin DOMAIN new
        /\ "then" \in DOMAIN new /\ new["then"] \notin Writing
    BY DEF Writing
  <2> HIDE DEF new
  <2> QED BY <1>1, <1>5, <2>1, <2>2, <2>3, GoesWriting
<1> QED BY <1>2, <1>3, <1>4, <1>5

\* A snapshot by hand is not frozen, and the one it replaces no longer is.
LEMMA SnapshotStep ==
  ASSUME IInv, NEW l \in Launchers, BeginSnapshot(l)
  PROVE  IInv'
<1> DEFINE new == [pc |-> "capture", task |-> here]
<1>1. l \in Procs /\ l # Daemon
  BY ProcAssumption DEF Procs
<1>2. Goes(l, new) /\ UNCHANGED file /\ frozen' = [frozen EXCEPT ![here] = None]
  BY DEF BeginSnapshot
<1>3. /\ "pc" \in DOMAIN new /\ "then" \notin DOMAIN new
      /\ "task" \in DOMAIN new /\ new["task"] = here
  OBVIOUS
<1> HIDE DEF new
<1>4. DOMAIN file' = Tasks /\ DOMAIN frozen' = Tasks
  BY <1>2 DEF IInv, Domains
<1>5. \A u \in Tasks : Kept(u)' => Kept(u) /\ frozen'[u] = frozen[u] /\ file'[u] = file[u] /\ u # here
  BY <1>2, <1>4 DEF IInv, Domains, Kept
<1> QED BY <1>1, <1>2, <1>3, <1>4, <1>5, GoesWriting

\* Launching reads sessions, opens and places windows.
LEMMA LaunchStep ==
  ASSUME IInv, NEW l \in Launchers,
         \/ \E t \in Tasks, url \in Pages \cup {None} : LaunchBrowser(l, t, url)
         \/ \E t \in Tasks : BeginReopen(l, t)
         \/ Find(l) \/ ReadSession(l) \/ OpenSaved(l) \/ OpenFirst(l) \/ Place(l) \/ GiveUp(l) \/ AddUrl(l)
  PROVE  IInv'
<1>1. l \in Procs
  BY DEF Procs
<1>2. ASSUME NEW t, NEW url, LaunchBrowser(l, t, url)
      PROVE  IInv'
  <2> DEFINE new == [pc |-> "find", task |-> t, url |-> url]
  <2>1. Goes(l, new) /\ UNCHANGED <<file, frozen>>
    BY <1>2 DEF LaunchBrowser
  <2>2. "pc" \in DOMAIN new /\ new["pc"] \notin Writing /\ "then" \notin DOMAIN new
    BY DEF Writing
  <2> HIDE DEF new
  <2> QED BY <1>1, <2>1, <2>2, GoesAside
<1>3. ASSUME NEW t, BeginReopen(l, t)
      PROVE  IInv'
  <2> DEFINE new == [pc |-> "open", task |-> t, list |-> file[t].list, todo |-> DOMAIN file[t].list, then |-> "consume"]
  <2>1. Goes(l, new) /\ UNCHANGED <<file, frozen>>
    BY <1>3 DEF BeginReopen
  <2>2. /\ "pc" \in DOMAIN new /\ new["pc"] \notin Writing
        /\ "then" \in DOMAIN new /\ new["then"] \notin Writing
    BY DEF Writing
  <2> HIDE DEF new
  <2> QED BY <1>1, <2>1, <2>2, GoesAside
<1>4. CASE Find(l)
  <2>1. \/ Goes(l, [pc |-> "session"]) /\ UNCHANGED <<file, frozen>>
        \/ Ends(l) /\ UNCHANGED <<file, frozen>>
    BY <1>4 DEF Find
  <2> QED BY <1>1, <2>1, GoesAside, EndsAside DEF Writing
<1>5. CASE ReadSession(l)
  <2> DEFINE s == file[proc[l].task]
             new == [pc |-> "open", list |-> s.list, todo |-> DOMAIN s.list, then |-> "consume"]
  <2>1. UNCHANGED <<file, frozen>> /\ (Ends(l) \/ Goes(l, [pc |-> "first"]) \/ Goes(l, new))
    BY <1>5 DEF ReadSession
  <2>2. /\ "pc" \in DOMAIN new /\ new["pc"] \notin Writing
        /\ "then" \in DOMAIN new /\ new["then"] \notin Writing
    BY DEF Writing
  <2> HIDE DEF new
  <2>3. CASE Goes(l, new)
    BY <1>1, <2>1, <2>2, <2>3, GoesAside
  <2>4. CASE Goes(l, [pc |-> "first"])
    BY <1>1, <2>1, <2>4, GoesAside DEF Writing
  <2> QED BY <1>1, <2>1, <2>3, <2>4, EndsAside
<1>6. CASE OpenSaved(l)
  <2>1. /\ \E i : Goes(l, [pc |-> "place", todo |-> proc[l].todo \ {i}, known |-> Browsers])
        /\ UNCHANGED <<file, frozen>>
    BY <1>6 DEF OpenSaved
  <2> PICK i : Goes(l, [pc |-> "place", todo |-> proc[l].todo \ {i}, known |-> Browsers])
    BY <2>1
  <2> DEFINE new == [pc |-> "place", todo |-> proc[l].todo \ {i}, known |-> Browsers]
  <2>2. "pc" \in DOMAIN new /\ new["pc"] \notin Writing /\ "then" \notin DOMAIN new
    BY DEF Writing
  <2>3. Goes(l, new)
    OBVIOUS
  <2> HIDE DEF new
  <2> QED BY <1>1, <2>1, <2>2, <2>3, GoesAside
<1>7. CASE OpenFirst(l)
  <2> DEFINE new == [pc |-> "place", known |-> Browsers, then |-> "idle"]
  <2>1. Goes(l, new) /\ UNCHANGED <<file, frozen>>
    BY <1>7 DEF OpenFirst
  <2>2. /\ "pc" \in DOMAIN new /\ new["pc"] \notin Writing
        /\ "then" \in DOMAIN new /\ new["then"] \notin Writing
    BY DEF Writing
  <2> HIDE DEF new
  <2> QED BY <1>1, <2>1, <2>2, GoesAside
<1>8. CASE Place(l) \/ GiveUp(l)
  <2> DEFINE new == [pc |-> PlaceOf(l)]
  <2>1. Goes(l, new) /\ UNCHANGED <<file, frozen>>
    BY <1>8 DEF Place, GiveUp
  <2>2. "pc" \in DOMAIN new /\ new["pc"] \notin Writing /\ "then" \notin DOMAIN new
    BY <1>1 DEF PlaceOf, Writing, IInv, Returns
  <2> HIDE DEF new
  <2> QED BY <1>1, <2>1, <2>2, GoesAside
<1>9. CASE AddUrl(l)
  BY <1>1, <1>9, EndsAside DEF AddUrl
<1> QED BY <1>2, <1>3, <1>4, <1>5, <1>6, <1>7, <1>8, <1>9

LEMMA LauncherStep ==
  ASSUME IInv, NEW l \in Launchers, Launcher(l)
  PROVE  IInv'
<1>1. l \in Procs
  BY DEF Procs
<1>2. ASSUME NEW e, LaunchTerminal(l, e) \/ LaunchEditor(l, e) \/ LaunchGeneric(l, e) \/ LaunchPlain(l, e)
      PROVE  IInv'
  BY <1>2, Elsewhere DEF LaunchTerminal, LaunchEditor, LaunchGeneric, LaunchPlain, Started
<1>3. ASSUME NEW url, Delegate(l, url)
      PROVE  IInv'
  BY <1>3, Elsewhere DEF Delegate
<1> QED BY <1>1, <1>2, <1>3, SnapshotStep, CaptureStep, TruncateStep, WriteStep, ConsumeStep, LaunchStep DEF Launcher
---------------------------------------------------------------------------
(* The invariant                                                             *)

LEMMA Initially == Init => IInv
<1> SUFFICES ASSUME Init PROVE IInv
  OBVIOUS
<1>1. Domains
  BY DEF Init, Before, Domains
<1>2. KeptWhole
  BY DEF Init, Before, Saved, KeptWhole, Kept
<1>3. proc = [p \in Procs |-> Idle] /\ Daemon \in Procs
  BY DEF Init, Procs
<1>4. KeptAlone
  BY <1>3 DEF KeptAlone, Idle, Writing
<1>5. Returns
  BY <1>3 DEF Returns, Idle, Writing
<1>6. ArchivesPending
  BY <1>3 DEF ArchivesPending, Idle
<1> QED BY <1>1, <1>2, <1>4, <1>5, <1>6 DEF IInv

LEMMA Stays == IInv /\ [Next]_vars => IInv'
<1> SUFFICES ASSUME IInv, [Next]_vars PROVE IInv'
  OBVIOUS
<1>1. ASSUME NEW h \in Hosts, Host(h) \/ Truncate(h) \/ Write(h)
      PROVE  IInv'
  <2>1. h \in Procs
    BY DEF Procs
  <2> QED BY <1>1, <2>1, HostStep, TruncateStep, WriteStep
<1>2. CASE Requests
  BY <1>2, RequestStep
<1>3. ASSUME NEW l \in Launchers, Launcher(l)
      PROVE  IInv'
  BY <1>3, LauncherStep
<1>4. CASE Arrive
  BY <1>4, Elsewhere DEF Arrive
<1>5. CASE User
  BY <1>5, Elsewhere DEF User, SwitchTo, Browse, CloseWindow, MoveWindow
<1>6. ASSUME NEW p \in Procs, Die(p)
      PROVE  IInv'
  BY <1>6, EndsAside DEF Die
<1>7. CASE UNCHANGED vars
  BY <1>7, Elsewhere DEF vars
<1> QED BY <1>1, <1>2, <1>3, <1>4, <1>5, <1>6, <1>7 DEF Next

\* The snapshot the last archiving of a task left stays, for any number of tasks, hosts and launchers,
\* wherever each of them is when it is taken (browser_session.rs: capture_and_save, refresh_snapshots_from_live, mark_session_consumed).
THEOREM SnapshotAlwaysFrozen == Spec => []SnapshotFrozen
<1>1. IInv => SnapshotFrozen
  BY DEF IInv, KeptWhole, Kept, SnapshotFrozen
<1> QED BY <1>1, Initially, Stays, PTL DEF Spec
=============================================================================
