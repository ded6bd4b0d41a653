-------------------------- MODULE TaskManagerProofs ---------------------------
(***************************************************************************)
(* Proofs about TaskManager, for any finite set of tasks, any checkouts and *)
(* any number of changes, faults and late answers by anyone: its types       *)
(* (TypesInv), that a reload shows every task once where it belongs          *)
(* (ListsInv), and that it leaves the highlight where it was.                *)
(*                                                                           *)
(* ListsInv speaks of the history variable calm: nothing has changed since   *)
(* the last reload began that it could not see.  Types are needed for it     *)
(* because a request of the task manager excludes its reloads, and because   *)
(* the form that has just created a task has not reloaded the lists yet.     *)
(***************************************************************************)
EXTENDS TaskManager, FiniteSetTheorems, NaturalsInduction, SequenceTheorems, TLAPS

\* Rows of the lists, and the requests the daemon may be working on.
RowSet == [header : {"host"} \cup RepoChoices] \cup [task : Tasks \cup {Default}]
Somewhere == Tasks \cup RepoChoices \cup {Default}
Jobs == [by : {"tui", "other"}, method : DOMAIN Script, on : Somewhere, step : {1, 2}]

\* What the step of a job is about: the checkout of a task to come, the default taskspace, a task.
JobRight(j) ==
    /\ j.step \in DOMAIN Script[j.method]
    /\ j.on \in IF Script[j.method][j.step] = "Create" THEN RepoChoices
                ELSE IF j.method = "default" THEN {Default} ELSE Tasks

Present == {t \in Tasks : status[t] # "absent"}

RegistryTypes ==
    /\ status \in [Tasks -> {"absent", "active", "archived"}]
    /\ cur \in Tasks \cup {Default}
    /\ fresh \subseteq Fresh
    /\ order \in Seq(Tasks) /\ IsInjective(order) /\ ToSet(order) = Present

JobTypes ==
    /\ jobs \subseteq Jobs
    /\ \A j \in jobs : JobRight(j)
    /\ \A i, j \in Own : i = j

ScreenTypes ==
    /\ screen \in Screens
    /\ panel \in Panels
    /\ known \in {"unknown", "running", "stopped"}
    /\ checker \in {"idle", "probing", "up", "down"}

MarkRight(rs, i) == i \in TaskRows(rs) \cup (IF TaskRows(rs) = {} THEN {0} ELSE {})

ListTypes ==
    /\ repos \in Seq(Repos)
    /\ rows \in [tasks : Seq(RowSet), archived : Seq(RowSet)]
    /\ mark \in [tasks : Nat, archived : Nat, repos : DOMAIN repos \cup {0}]
    /\ MarkRight(rows.tasks, mark.tasks) /\ MarkRight(rows.archived, mark.archived)

\* A reload and a request exclude each other; a request of the task manager is
\* the daemon's only one of it, and a form that waits for its task has sent it to create one.
RequestTypes ==
    /\ load \in [step : 0..4, cur : Tasks \cup {Default}, active : Seq(Tasks), archived : Seq(Tasks)]
    /\ call \in [got : {"", "waiting", "ok", "err"}, on : Somewhere \cup {None}]
    /\ IsInjective(load.active) /\ IsInjective(load.archived)
    /\ calm \in BOOLEAN
    /\ Loading => call = NoCall
    /\ Own # {} => call.got = "waiting"
    /\ screen.at = "form" /\ screen.sub = "container" =>
          /\ \A j \in Own : j.method = "defer"
          /\ call.got = "ok" => call.on \in Tasks /\ ~calm

TypesInv == RegistryTypes /\ JobTypes /\ ScreenTypes /\ ListTypes /\ RequestTypes

\* The rows of t in a list, and whether it is there once or not at all.
Shown(rs, t) == {i \in TaskRows(rs) : rs[i].task = t}
Once(rs, t) == \E i \in Shown(rs, t) : Shown(rs, t) = {i}
Never(rs, t) == Shown(rs, t) = {}
Placed(rs, t, st) ==
    IF status[t] = st /\ Source[t] \in dirs \cup {Scratch} THEN Once(rs, t) ELSE Never(rs, t)
Match == \A t \in Tasks : Placed(rows.tasks, t, "active") /\ Placed(rows.archived, t, "archived")

ListsInv ==
    calm =>
        /\ load.step >= 3 => load.active = In("active")
        /\ load.step = 4 => load.archived = In("archived")
        /\ Open /\ ~Loading /\ call = NoCall => Match

-----------------------------------------------------------------------------
(* Least elements, and the members of a list that are in a set. *)

\* Numbers have a least one.
LEMMA LeastExists ==
  ASSUME NEW S \in SUBSET Nat, S # {}
  PROVE  \E x \in S : \A y \in S : x <= y
<1>1. \E x \in S : \A y \in S : ~(<<y, x>> \in OpToRel(<, Nat))
  BY WFMin, NatLessThanWellFounded, Zenon
<1>2. PICK x \in S : \A y \in S : ~(y < x)
  BY <1>1, Zenon DEF OpToRel
<1>3. \A y \in S : x <= y
  BY <1>2
<1> QED
  BY <1>3

LEMMA LeastIn ==
  ASSUME NEW S \in SUBSET Nat, S # {}
  PROVE  Least(S) \in S /\ \A y \in S : Least(S) <= y
<1>1. \E x \in S : \A y \in S : x <= y
  BY LeastExists
<1> QED
  BY <1>1 DEF Least

\* The members of a set of numbers are counted by how many are not above them.
LEMMA Counted ==
  ASSUME NEW at, IsFiniteSet(at), at \in SUBSET Nat
  PROVE  /\ Cardinality(at) \in Nat
         /\ \A i \in at : Cardinality({j \in at : j <= i}) \in 1..Cardinality(at)
         /\ \A n \in 1..Cardinality(at) : \E i \in at : Cardinality({j \in at : j <= i}) = n
<1> DEFINE upto(k) == {j \in at : j <= k}
           nr == [i \in at |-> Cardinality(upto(i))]
<1>1. \A k \in at : upto(k) \in SUBSET at /\ IsFiniteSet(upto(k)) /\ k \in upto(k)
  BY FS_Subset
<1>2. ASSUME NEW j \in at, NEW k \in at, j < k
      PROVE  upto(j) \in SUBSET upto(k) /\ k \notin upto(j)
  <2>1. j \in Nat /\ k \in Nat /\ \A i \in at : i \in Nat
    OBVIOUS
  <2>2. (\A i \in at : i <= j => i <= k) /\ ~(k <= j)
    BY <1>2, <2>1
  <2> QED
    BY <2>2
<1>0. Cardinality(at) \in Nat
  BY FS_CardinalityType
<1>h. \A i \in at : nr[i] = Cardinality(upto(i)) /\ Cardinality(upto(i)) = Cardinality({j \in at : j <= i})
  OBVIOUS
<1>f. nr = [i \in at |-> nr[i]]
  OBVIOUS
<1> HIDE DEF upto, nr
<1>3. ASSUME NEW k \in at PROVE nr[k] \in 1..Cardinality(at)
  <2>1. Cardinality(upto(k)) \in Nat /\ Cardinality(at) \in Nat /\ Cardinality(upto(k)) <= Cardinality(at)
    BY <1>1, FS_CardinalityType, FS_Subset
  <2>2. Cardinality(upto(k)) # 0
    BY <1>1, FS_EmptySet
  <2>3. nr[k] = Cardinality(upto(k))
    BY <1>h
  <2> QED
    BY <2>1, <2>2, <2>3
<1>4. ASSUME NEW j \in at, NEW k \in at, j < k
      PROVE  nr[j] # nr[k]
  <2>1. upto(j) # upto(k)
    BY <1>1, <1>2, <1>4
  <2>2. Cardinality(upto(k)) # Cardinality(upto(j))
    BY <1>1, <1>2, <1>4, <2>1, FS_Subset
  <2> QED
    BY <1>h, <2>2
<1>5. nr \in Injection(at, 1..Cardinality(at))
  <2>1. nr \in [at -> 1..Cardinality(at)]
    BY <1>f, <1>3
  <2>2. ASSUME NEW j \in at, NEW k \in at, nr[j] = nr[k] PROVE j = k
    <3>1. j \in Nat /\ k \in Nat
      OBVIOUS
    <3>2. j < k \/ k < j \/ j = k
      BY <3>1
    <3> QED
      BY <1>4, <2>2, <3>2
  <2> QED
    BY <2>1, <2>2 DEF Injection, IsInjective
<1>6. nr \in Surjection(at, 1..Cardinality(at))
  <2>1. IsFiniteSet(1..Cardinality(at)) /\ Cardinality(1..Cardinality(at)) = Cardinality(at)
    BY <1>0, FS_Interval
  <2> QED
    BY <1>5, <2>1, FS_Injection
<1>7. \A n \in 1..Cardinality(at) : \E i \in at : nr[i] = n
  BY <1>6 DEF Surjection
<1> QED
  BY <1>0, <1>3, <1>7, <1>h

\* Only selects the members that are in a set, each of them once.
LEMMA OnlyThose ==
  ASSUME NEW S, NEW T, NEW ts \in Seq(S)
  PROVE  /\ Only(ts, T) \in Seq(S)
         /\ ToSet(Only(ts, T)) = ToSet(ts) \cap T
         /\ IsInjective(ts) => IsInjective(Only(ts, T))
<1> DEFINE at == {i \in DOMAIN ts : ts[i] \in T}
           Nth(n) == CHOOSE i \in at : Cardinality({j \in at : j <= i}) = n
           n == Cardinality(at)
           f == [k \in 1..n |-> ts[Nth(k)]]
<1>1. Only(ts, T) = f
  BY DEF Only
<1>2. at \in SUBSET Nat /\ IsFiniteSet(at) /\ DOMAIN ts = 1..Len(ts) /\ Len(ts) \in Nat
  <2>1. DOMAIN ts = 1..Len(ts) /\ Len(ts) \in Nat
    BY LenProperties
  <2>2. IsFiniteSet(DOMAIN ts)
    BY <2>1, FS_Interval
  <2>3. at \in SUBSET DOMAIN ts
    OBVIOUS
  <2> QED
    BY <2>1, <2>2, <2>3, FS_Subset
<1>3. n \in Nat /\ \A k \in 1..n : Nth(k) \in at /\ Cardinality({j \in at : j <= Nth(k)}) = k
  <2> HIDE DEF at
  <2>1. n \in Nat /\ \A k \in 1..n : \E i \in at : Cardinality({j \in at : j <= i}) = k
    BY <1>2, Counted
  <2> QED
    BY <2>1, Zenon
<1>4. \A i \in at : \E k \in 1..n : Nth(k) = i
  <2>1. TAKE i \in at
  <2> DEFINE k == Cardinality({j \in at : j <= i})
  <2>2. k \in 1..n
    BY <1>2, Counted
  <2>3. Nth(k) \in at /\ Cardinality({j \in at : j <= Nth(k)}) = k
    BY <1>3, <2>2
  <2>4. Nth(k) = i
    <3>0. Nth(k) \in Nat /\ i \in Nat
      BY <1>2, <2>3
    <3> DEFINE upto(m) == {j \in at : j <= m}
    <3>1. IsFiniteSet(upto(i)) /\ IsFiniteSet(upto(Nth(k)))
      BY <1>2, FS_Subset
    <3>2. CASE i < Nth(k)
      <4>1. upto(i) \in SUBSET upto(Nth(k)) /\ Nth(k) \notin upto(i) /\ Nth(k) \in upto(Nth(k))
        <5> HIDE DEF Nth, k
        <5> QED
          BY <1>2, <2>3, <3>0, <3>2
      <4> QED
        BY <2>3, <3>1, <4>1, FS_Subset
    <3>3. CASE Nth(k) < i
      <4>1. upto(Nth(k)) \in SUBSET upto(i) /\ i \notin upto(Nth(k)) /\ i \in upto(i)
        <5> HIDE DEF Nth, k
        <5> QED
          BY <1>2, <2>3, <3>0, <3>3
      <4> QED
        BY <2>3, <3>1, <4>1, FS_Subset
    <3> QED
      BY <3>0, <3>2, <3>3
  <2> QED
    BY <2>2, <2>4
<1>5. \A k \in 1..n : ts[Nth(k)] \in S /\ ts[Nth(k)] \in T /\ Nth(k) \in DOMAIN ts
  BY <1>2, <1>3, ElementOfSeq
<1>6. f \in Seq(S)
  <2>1. f \in [1..n -> S]
    BY <1>5
  <2> HIDE DEF f, n
  <2> QED
    BY <1>3, <2>1, SeqDef
<1> HIDE DEF Nth
<1>d. DOMAIN f = 1..n /\ \A k \in 1..n : f[k] = ts[Nth(k)]
  OBVIOUS
<1> HIDE DEF f, n
<1>7. ToSet(f) = ToSet(ts) \cap T
  <2>1. \A k \in DOMAIN f : f[k] \in ToSet(ts) \cap T
    BY <1>5, <1>d DEF ToSet
  <2>2. ASSUME NEW x \in ToSet(ts) \cap T PROVE \E k \in DOMAIN f : f[k] = x
    <3>1. PICK i \in at : ts[i] = x
      BY DEF ToSet
    <3>2. PICK k \in 1..n : Nth(k) = i
      BY <1>4, <3>1
    <3> QED
      BY <1>d, <3>1, <3>2
  <2> QED
    BY <2>1, <2>2 DEF ToSet
<1>8. ASSUME IsInjective(ts) PROVE IsInjective(f)
  <2>1. SUFFICES ASSUME NEW k \in 1..n, NEW m \in 1..n, f[k] = f[m] PROVE k = m
    BY <1>d DEF IsInjective
  <2>2. Nth(k) = Nth(m)
    BY <1>5, <1>8, <1>d, <2>1 DEF IsInjective
  <2> QED
    BY <1>3, <2>2
<1> QED
  BY <1>1, <1>6, <1>7, <1>8

LEMMA ConstantFacts ==
  /\ IsFiniteSet(Tasks) /\ Fresh \in SUBSET Tasks
  /\ RepoOrder \in Seq(Repos) /\ IsInjective(RepoOrder) /\ Scratch \notin Repos
  /\ Source \in [Tasks -> RepoChoices]
  /\ Default \notin Tasks /\ None \notin Tasks /\ None \notin RepoChoices /\ None # Default
  /\ Repos \in SUBSET RepoChoices /\ Scratch \in RepoChoices
BY ManagerAssumption DEF RepoChoices

\* A finite set as a list: every member once.
LEMMA SetListed ==
  ASSUME NEW S, IsFiniteSet(S)
  PROVE  SetToSeq(S) \in Seq(S) /\ IsInjective(SetToSeq(S)) /\ ToSet(SetToSeq(S)) = S
<1> DEFINE n == Cardinality(S)
           s == SetToSeq(S)
<1>1. n \in Nat /\ ExistsBijection(1..n, S)
  BY FS_CardinalityType
<1>2. PICK f \in [1..n -> S] : IsInjective(f)
  BY <1>1 DEF ExistsBijection, Bijection, Injection
<1>3. s \in [1..n -> S] /\ IsInjective(s)
  BY <1>2 DEF SetToSeq
<1> HIDE DEF s, n
<1>4. s \in Seq(S)
  BY <1>1, <1>3, SeqDef
<1>5. s \in Injection(1..n, S)
  BY <1>3 DEF Injection
<1>6. Cardinality(1..n) = Cardinality(S)
  BY <1>1, FS_Interval DEF n
<1>7. s \in Surjection(1..n, S)
  BY <1>5, <1>6, FS_Injection
<1>8. ToSet(s) = S
  BY <1>3, <1>7 DEF Surjection, ToSet
<1> QED
  BY <1>3, <1>4, <1>8 DEF s

\* A task that is listed first, as create_task and restore_task do.
LEMMA Prepended ==
  ASSUME NEW S, NEW ts \in Seq(S), NEW t \in S
  PROVE  /\ <<t>> \o ts \in Seq(S)
         /\ ToSet(<<t>> \o ts) = {t} \cup ToSet(ts)
         /\ IsInjective(ts) /\ t \notin ToSet(ts) => IsInjective(<<t>> \o ts)
<1> DEFINE s == <<t>> \o ts
           n == Len(ts)
<1>1. <<t>> \in Seq(S) /\ Len(<<t>>) = 1 /\ <<t>>[1] = t
  OBVIOUS
<1>2. n \in Nat /\ DOMAIN ts = 1..n
  BY LenProperties
<1>3. s \in Seq(S) /\ Len(s) = n + 1 /\ \A i \in 1..n+1 : s[i] = IF i <= 1 THEN <<t>>[i] ELSE ts[i - 1]
  BY <1>1, <1>2, ConcatProperties
<1>4. DOMAIN s = 1..n+1
  BY <1>2, <1>3, LenProperties
<1>5. s[1] = t /\ (\A i \in 1..n : s[i + 1] = ts[i]) /\ \A i \in 1..n+1 : i # 1 => i - 1 \in 1..n /\ s[i] = ts[i - 1]
  BY <1>1, <1>2, <1>3
<1> HIDE DEF s, n
<1>6. ToSet(s) = {t} \cup ToSet(ts)
  <2>1. \A i \in DOMAIN s : s[i] \in {t} \cup ToSet(ts)
    BY <1>2, <1>4, <1>5 DEF ToSet
  <2>2. t \in ToSet(s)
    BY <1>2, <1>4, <1>5 DEF ToSet
  <2>3. \A i \in DOMAIN ts : ts[i] \in ToSet(s)
    <3>1. \A i \in 1..n : i + 1 \in 1..n+1
      BY <1>2
    <3> QED
      BY <1>2, <1>4, <1>5, <3>1 DEF ToSet
  <2> QED
    BY <2>1, <2>2, <2>3 DEF ToSet
<1>7. ASSUME IsInjective(ts), t \notin ToSet(ts) PROVE IsInjective(s)
  <2>1. SUFFICES ASSUME NEW i \in 1..n+1, NEW j \in 1..n+1, s[i] = s[j] PROVE i = j
    BY <1>4 DEF IsInjective
  <2>2. \A k \in 1..n : ts[k] # t
    BY <1>2, <1>7 DEF ToSet
  <2>3. CASE i # 1 /\ j # 1
    <3>0. \A k, l \in 1..n : ts[k] = ts[l] => k = l
      BY <1>2, <1>7 DEF IsInjective
    <3>2. i - 1 \in 1..n /\ j - 1 \in 1..n /\ ts[i - 1] = ts[j - 1]
      BY <1>5, <2>1, <2>3
    <3>1. i - 1 = j - 1
      BY <3>0, <3>2
    <3> QED
      BY <1>2, <3>1
  <2> QED
    BY <1>5, <2>1, <2>2, <2>3
<1> QED
  BY <1>3, <1>6, <1>7 DEF s

-----------------------------------------------------------------------------
(* Rows. *)

LEMMA RowFacts ==
  /\ \A t : IsTask(Row(t)) /\ Row(t).task = t
  /\ \A l : ~IsTask(Header(l))
  /\ \A t \in Tasks \cup {Default} : Row(t) \in RowSet
  /\ \A l \in {"host"} \cup RepoChoices : Header(l) \in RowSet
  /\ \A row \in RowSet : IsTask(row) => row.task \in Tasks \cup {Default}
BY DEF RowSet, Row, Header, IsTask

LEMMA TaskRowFacts ==
  ASSUME NEW S, NEW rs \in Seq(S)
  PROVE  TaskRows(rs) \in SUBSET Nat /\ TaskRows(rs) \in SUBSET (1..Len(rs))
BY LenProperties DEF TaskRows

LEMMA ShownJoined ==
  ASSUME NEW a \in Seq(RowSet), NEW b \in Seq(RowSet), NEW t
  PROVE  /\ \A i \in 1..Len(a) : i \in Shown(a \o b, t) <=> i \in Shown(a, t)
         /\ \A i \in 1..Len(b) : Len(a) + i \in Shown(a \o b, t) <=> i \in Shown(b, t)
         /\ Shown(a \o b, t) \in SUBSET (1..Len(a) + Len(b))
         /\ Shown(a, t) \in SUBSET (1..Len(a)) /\ Shown(b, t) \in SUBSET (1..Len(b))
<1> DEFINE s == a \o b
           m == Len(a)
           n == Len(b)
<1>1. m \in Nat /\ n \in Nat /\ DOMAIN a = 1..m /\ DOMAIN b = 1..n
  BY LenProperties
<1>2. s \in Seq(RowSet) /\ Len(s) = m + n /\ \A i \in 1..m+n : s[i] = IF i <= m THEN a[i] ELSE b[i - m]
  BY ConcatProperties
<1>3. DOMAIN s = 1..m+n
  BY <1>2, LenProperties
<1>4. \A i \in 1..m : i \in 1..m+n /\ s[i] = a[i]
  BY <1>1, <1>2
<1>5. \A i \in 1..n : m + i \in 1..m+n /\ s[m + i] = b[i]
  <2>1. \A i \in 1..n : m + i \in 1..m+n /\ ~(m + i <= m) /\ m + i - m = i
    BY <1>1
  <2> QED
    BY <1>2, <2>1
<1> HIDE DEF s, m, n
<1>6. \A rs, i : i \in Shown(rs, t) <=> i \in DOMAIN rs /\ IsTask(rs[i]) /\ rs[i].task = t
  BY DEF Shown, TaskRows
<1>7. \A i \in 1..m : i \in Shown(s, t) <=> i \in Shown(a, t)
  BY <1>1, <1>3, <1>4, <1>6
<1>8. \A i \in 1..n : m + i \in Shown(s, t) <=> i \in Shown(b, t)
  BY <1>1, <1>3, <1>5, <1>6
<1> QED
  BY <1>1, <1>3, <1>6, <1>7, <1>8 DEF s, m, n

\* A task is listed once if one of two lists has it once and the other has not.
LEMMA Joined ==
  ASSUME NEW a \in Seq(RowSet), NEW b \in Seq(RowSet), NEW t
  PROVE  /\ Never(a, t) /\ Never(b, t) => Never(a \o b, t)
         /\ Once(a, t) /\ Never(b, t) => Once(a \o b, t)
         /\ Never(a, t) /\ Once(b, t) => Once(a \o b, t)
<1> DEFINE s == a \o b
           m == Len(a)
           n == Len(b)
<1>1. m \in Nat /\ n \in Nat
  BY LenProperties
<1>2. /\ \A i \in 1..m : i \in Shown(s, t) <=> i \in Shown(a, t)
      /\ \A i \in 1..n : m + i \in Shown(s, t) <=> i \in Shown(b, t)
      /\ Shown(s, t) \in SUBSET (1..m + n)
      /\ Shown(a, t) \in SUBSET (1..m) /\ Shown(b, t) \in SUBSET (1..n)
  BY ShownJoined
<1> HIDE DEF s, m, n
<1>3. \A i \in 1..m+n : i \in 1..m \/ \E k \in 1..n : i = m + k
  <2>1. TAKE i \in 1..m+n
  <2>2. CASE ~(i <= m)
    <3>1. i - m \in 1..n /\ i = m + (i - m)
      BY <1>1, <2>2
    <3> QED
      BY <3>1
  <2> QED
    BY <1>1, <2>2
<1>4. ASSUME Never(a, t), Never(b, t) PROVE Never(s, t)
  BY <1>2, <1>3, <1>4 DEF Never
<1>5. ASSUME Once(a, t), Never(b, t) PROVE Once(s, t)
  <2>1. PICK i \in Shown(a, t) : Shown(a, t) = {i}
    BY <1>5 DEF Once
  <2>2. i \in Shown(s, t)
    BY <1>2, <2>1
  <2>3. \A k \in Shown(s, t) : k = i
    BY <1>2, <1>3, <1>5, <2>1 DEF Never
  <2> QED
    BY <2>2, <2>3 DEF Once
<1>6. ASSUME Never(a, t), Once(b, t) PROVE Once(s, t)
  <2>1. PICK i \in Shown(b, t) : Shown(b, t) = {i}
    BY <1>6 DEF Once
  <2>2. m + i \in Shown(s, t)
    BY <1>2, <2>1
  <2>3. \A k \in Shown(s, t) : k = m + i
    BY <1>2, <1>3, <1>6, <2>1 DEF Never
  <2> QED
    BY <2>2, <2>3 DEF Once
<1> QED
  BY <1>4, <1>5, <1>6 DEF s

\* Under its header every task of a section is once.
LEMMA SectionShows ==
  ASSUME NEW label \in {"host"} \cup RepoChoices, NEW ts \in Seq(Tasks)
  PROVE  /\ Section(label, ts) \in Seq(RowSet)
         /\ \A t : t \notin ToSet(ts) => Never(Section(label, ts), t)
         /\ IsInjective(ts) => \A t \in ToSet(ts) : Once(Section(label, ts), t)
<1> DEFINE g == [i \in DOMAIN ts |-> Row(ts[i])]
<1>1. Len(ts) \in Nat /\ DOMAIN ts = 1..Len(ts) /\ \A i \in 1..Len(ts) : ts[i] \in Tasks
  BY LenProperties, ElementOfSeq
<1>2. CASE ts = <<>>
  <2>1. Section(label, ts) = <<>> /\ <<>> \in Seq(RowSet)
    BY <1>2 DEF Section
  <2>2. DOMAIN ts = {} /\ DOMAIN <<>> = {}
    BY <1>2
  <2>3. \A t : Never(<<>>, t)
    BY <2>2 DEF Never, Shown, TaskRows
  <2>4. ToSet(ts) = {}
    BY <2>2 DEF ToSet
  <2> QED
    BY <2>1, <2>3, <2>4
<1>3. CASE ts # <<>>
  <2> DEFINE h == <<Header(label)>>
  <2>0. h \in Seq(RowSet) /\ DOMAIN h = {1} /\ h[1] = Header(label)
    BY RowFacts
  <2>1. \A t : Never(h, t)
    BY <2>0, RowFacts DEF Never, Shown, TaskRows
  <2>2. g \in [1..Len(ts) -> RowSet]
    BY <1>1, RowFacts
  <2>3. Section(label, ts) = h \o g
    BY <1>3 DEF Section
  <2>4. DOMAIN g = DOMAIN ts /\ \A i \in DOMAIN ts : g[i] = Row(ts[i])
    OBVIOUS
  <2> HIDE DEF g, h
  <2>5. g \in Seq(RowSet)
    BY <1>1, <2>2, SeqDef
  <2>6. \A t : Shown(g, t) = {i \in DOMAIN ts : ts[i] = t}
    BY <2>4, RowFacts DEF Shown, TaskRows
  <2>7. \A t : t \notin ToSet(ts) => Never(g, t)
    BY <2>6 DEF Never, ToSet
  <2>8. ASSUME IsInjective(ts), NEW t \in ToSet(ts) PROVE Once(g, t)
    <3>1. PICK i \in DOMAIN ts : ts[i] = t
      BY DEF ToSet
    <3>2. Shown(g, t) = {i}
      BY <2>6, <2>8, <3>1 DEF IsInjective
    <3> QED
      BY <3>2 DEF Once
  <2> QED
    BY <2>0, <2>1, <2>3, <2>5, <2>7, <2>8, Joined, ConcatProperties
<1> QED
  BY <1>2, <1>3

-----------------------------------------------------------------------------
(* A list put together from several. *)

\* Its recursive function: every prefix of the lists, put together.
LEMMA Flattening ==
  ASSUME NEW R, NEW secs \in Seq(Seq(R)), Len(secs) # 0
  PROVE  \E g \in [1..Len(secs) -> Seq(R)] :
            /\ g = [i \in 1..Len(secs) |-> IF i = 1 THEN secs[i] ELSE g[i - 1] \o secs[i]]
            /\ FlattenSeq(secs) = g[Len(secs)]
<1> DEFINE n == Len(secs)
           Eq(f, m) == \A i \in 1..m : f[i] = IF i = 1 THEN secs[i] ELSE f[i - 1] \o secs[i]
           Ex(m) == \E f \in [1..m -> Seq(R)] : Eq(f, m)
           bad == {m \in 1..n : ~Ex(m)}
<1>1. n \in Nat \ {0} /\ \A i \in 1..n : secs[i] \in Seq(R)
  BY LenProperties, ElementOfSeq
<1>2. Ex(1)
  <2> DEFINE f == [i \in 1..1 |-> secs[i]]
  <2>1. f \in [1..1 -> Seq(R)] /\ Eq(f, 1)
    BY <1>1
  <2> QED
    BY <2>1
<1>3. ASSUME NEW m \in 1..n, m + 1 \in 1..n, Ex(m) PROVE Ex(m + 1)
  <2>1. PICK f \in [1..m -> Seq(R)] : Eq(f, m)
    BY <1>3
  <2> DEFINE h == [i \in 1..m+1 |-> IF i = m + 1 THEN f[m] \o secs[m + 1] ELSE f[i]]
  <2>2. m \in 1..m /\ f[m] \in Seq(R) /\ secs[m + 1] \in Seq(R)
    BY <1>1, <1>3, <2>1
  <2>3. f[m] \o secs[m + 1] \in Seq(R)
    BY <2>2, ConcatProperties
  <2>4. h \in [1..m+1 -> Seq(R)]
    BY <2>1, <2>3
  <2>5. \A i \in 1..m : h[i] = f[i] /\ (i # 1 => i - 1 \in 1..m)
    BY <1>1
  <2>6. h[m + 1] = f[m] \o secs[m + 1] /\ m + 1 # 1 /\ m + 1 - 1 = m
    BY <1>1
  <2> HIDE DEF h
  <2>7. \A i \in 1..m : h[i] = IF i = 1 THEN secs[i] ELSE h[i - 1] \o secs[i]
    BY <2>1, <2>5
  <2>8. \A i \in 1..m+1 : i \in 1..m \/ i = m + 1
    BY <1>1
  <2>9. Eq(h, m + 1)
    <3>1. SUFFICES ASSUME NEW i \in 1..m+1
                   PROVE  h[i] = IF i = 1 THEN secs[i] ELSE h[i - 1] \o secs[i]
      OBVIOUS
    <3>2. CASE i \in 1..m
      BY <2>7, <3>2
    <3>3. CASE i = m + 1
      <4>1. h[i] = h[i - 1] \o secs[i]
        <5>1. i - 1 = m /\ h[m] = f[m]
          BY <2>2, <2>5, <2>6, <3>3
        <5>2. h[i] = f[m] \o secs[i]
          BY <2>6, <3>3
        <5> QED
          BY <5>1, <5>2
      <4> QED
        BY <2>6, <3>3, <4>1
    <3> QED
      BY <2>8, <3>2, <3>3
  <2> QED
    BY <2>4, <2>9
<1>4. Ex(n)
  <2> HIDE DEF Ex
  <2>1. SUFFICES ASSUME bad # {} PROVE FALSE
    <3>1. n \in 1..n
      BY <1>1
    <3> QED
      BY <3>1
  <2>2. PICK m \in bad : \A k \in bad : m <= k
    <3>1. bad \in SUBSET Nat
      BY <1>1
    <3> HIDE DEF bad
    <3> QED
      BY <2>1, <3>1, LeastExists
  <2>3. m # 1
    BY <1>2, <2>2
  <2>4. m - 1 \in 1..n /\ m - 1 + 1 = m /\ ~(m <= m - 1)
    BY <1>1, <2>2, <2>3
  <2>5. Ex(m - 1)
    BY <2>2, <2>4
  <2> QED
    BY <1>3, <2>2, <2>4, <2>5
<1>5. PICK f \in [1..n -> Seq(R)] : Eq(f, n)
  BY <1>4
<1> DEFINE Right(g) == g = [i \in 1..n |-> IF i = 1 THEN secs[i] ELSE g[i - 1] \o secs[i]]
           g == CHOOSE x : Right(x)
<1>6. Right(f)
  <2>1. f = [i \in 1..n |-> f[i]]
    OBVIOUS
  <2> QED
    BY <1>5, <2>1
<1>7. Right(g)
  BY <1>6
<1>8. FlattenSeq(secs) = g[n]
  BY DEF FlattenSeq
<1> HIDE DEF g
<1>9. DOMAIN g = 1..n /\ \A i \in 1..n : g[i] = IF i = 1 THEN secs[i] ELSE g[i - 1] \o secs[i]
  BY <1>7
<1>10. \A i \in 1..n : g[i] \in Seq(R)
  <2> DEFINE wrong == {i \in 1..n : g[i] \notin Seq(R)}
  <2>1. SUFFICES ASSUME wrong # {} PROVE FALSE
    OBVIOUS
  <2>2. PICK m \in wrong : \A k \in wrong : m <= k
    <3>1. wrong \in SUBSET Nat
      BY <1>1
    <3> HIDE DEF wrong
    <3> QED
      BY <2>1, <3>1, LeastExists
  <2>3. m # 1
    BY <1>1, <1>9, <2>2
  <2>4. m - 1 \in 1..n /\ ~(m <= m - 1)
    BY <1>1, <2>2, <2>3
  <2>5. g[m - 1] \in Seq(R) /\ secs[m] \in Seq(R)
    BY <1>1, <2>2, <2>4
  <2>6. g[m] = g[m - 1] \o secs[m]
    BY <1>9, <2>2, <2>3
  <2>7. g[m - 1] \o secs[m] \in Seq(R)
    BY <2>5, ConcatProperties
  <2> QED
    BY <2>2, <2>6, <2>7
<1>11. g \in [1..n -> Seq(R)]
  BY <1>7, <1>10
<1>12. g \in [1..Len(secs) -> Seq(R)]
  BY <1>11
<1> WITNESS g \in [1..Len(secs) -> Seq(R)]
<1> QED
  BY <1>7, <1>8

\* A task that is in one list, once, and in no other is once in all of them together.
LEMMA FlattenShows ==
  ASSUME NEW secs \in Seq(Seq(RowSet)), NEW t, NEW k \in Nat,
         k \in DOMAIN secs => Once(secs[k], t),
         \A i \in DOMAIN secs : i # k => Never(secs[i], t)
  PROVE  /\ FlattenSeq(secs) \in Seq(RowSet)
         /\ IF k \in DOMAIN secs THEN Once(FlattenSeq(secs), t) ELSE Never(FlattenSeq(secs), t)
<1> DEFINE n == Len(secs)
<1>1. n \in Nat /\ DOMAIN secs = 1..n /\ \A i \in 1..n : secs[i] \in Seq(RowSet)
  BY LenProperties, ElementOfSeq
<1>2. CASE n = 0
  <2>1. FlattenSeq(secs) = secs /\ secs = <<>> /\ DOMAIN secs = {}
    BY <1>1, <1>2 DEF FlattenSeq
  <2>2. Never(secs, t) /\ <<>> \in Seq(RowSet)
    BY <2>1 DEF Never, Shown, TaskRows
  <2> QED
    BY <2>1, <2>2
<1>3. CASE n # 0
  <2>1. PICK g \in [1..n -> Seq(RowSet)] :
          /\ g = [i \in 1..n |-> IF i = 1 THEN secs[i] ELSE g[i - 1] \o secs[i]]
          /\ FlattenSeq(secs) = g[n]
    BY <1>3, Flattening
  <2>2. \A i \in 1..n : g[i] = IF i = 1 THEN secs[i] ELSE g[i - 1] \o secs[i]
    BY <2>1
  <2> DEFINE Right(i) == IF k \in 1..i THEN Once(g[i], t) ELSE Never(g[i], t)
             wrong == {i \in 1..n : ~Right(i)}
  <2>3. wrong = {}
    <3>1. SUFFICES ASSUME wrong # {} PROVE FALSE
      OBVIOUS
    <3>2. PICK m \in wrong : \A i \in wrong : m <= i
      <4>1. wrong \in SUBSET Nat
        BY <1>1
      <4> HIDE DEF wrong
      <4> QED
        BY <3>1, <4>1, LeastExists
    <3>3. CASE m = 1
      <4>1. g[m] = secs[m] /\ (k \in 1..m <=> k = m) /\ m \in DOMAIN secs
        BY <1>1, <2>2, <3>2, <3>3
      <4> QED
        BY <3>2, <4>1
    <3>4. CASE m # 1
      <4>1. m - 1 \in 1..n /\ ~(m <= m - 1) /\ m \in 1..n
        BY <1>1, <3>2, <3>4
      <4>2. Right(m - 1)
        BY <3>2, <4>1
      <4>3. g[m] = g[m - 1] \o secs[m] /\ g[m - 1] \in Seq(RowSet) /\ secs[m] \in Seq(RowSet)
        BY <1>1, <2>1, <2>2, <3>4, <4>1
      <4>4. /\ k \in 1..m <=> k = m \/ k \in 1..m-1
            /\ k = m => k \notin 1..m-1
        BY <1>1, <4>1
      <4>5. (k = m => Once(secs[m], t)) /\ (k # m => Never(secs[m], t))
        BY <1>1, <4>1
      <4> HIDE DEF Once, Never
      <4>6. Right(m)
        BY <4>2, <4>3, <4>4, <4>5, Joined
      <4> QED
        BY <3>2, <4>6
    <3> QED
      BY <3>3, <3>4
  <2>4. n \in 1..n
    BY <1>1, <1>3
  <2>5. Right(n)
    BY <2>3, <2>4
  <2>6. FlattenSeq(secs) \in Seq(RowSet)
    BY <2>1, <2>4
  <2> HIDE DEF Once, Never
  <2> QED
    BY <1>1, <2>1, <2>5, <2>6
<1> QED
  BY <1>2, <1>3

-----------------------------------------------------------------------------
(* The lists show the tasks of the checkouts there are, once each. *)

\* The tasks of one checkout.
LEMMA FromThere ==
  ASSUME NEW source \in RepoChoices, NEW ts \in Seq(Tasks)
  PROVE  /\ From(source, ts) \in Seq(Tasks)
         /\ ToSet(From(source, ts)) = {t \in ToSet(ts) : Source[t] = source}
         /\ IsInjective(ts) => IsInjective(From(source, ts))
<1>1. \A t \in ToSet(ts) : t \in Tasks
  BY LenProperties, ElementOfSeq DEF ToSet
<1> QED
  BY <1>1, OnlyThose DEF From

\* The sections of the checkouts and of the scratch tasks show a task once, if its
\* checkout is among them, and no other task.
LEMMA GroupedShows ==
  ASSUME NEW rs \in Seq(Repos), IsInjective(rs), NEW ts \in Seq(Tasks), IsInjective(ts), NEW t
  PROVE  /\ Grouped(rs, ts) \in Seq(RowSet)
         /\ IF t \in ToSet(ts) /\ Source[t] \in ToSet(rs) \cup {Scratch}
            THEN Once(Grouped(rs, ts), t) ELSE Never(Grouped(rs, ts), t)
<1> DEFINE secs == [i \in DOMAIN rs |-> Section(rs[i], From(rs[i], ts))]
           a == FlattenSeq(secs)
           b == Section(Scratch, From(Scratch, ts))
<1>1. /\ DOMAIN rs = 1..Len(rs) /\ Len(rs) \in Nat
      /\ \A i \in DOMAIN rs : rs[i] \in Repos /\ rs[i] \in RepoChoices /\ rs[i] # Scratch
      /\ Scratch \in RepoChoices
  BY LenProperties, ElementOfSeq, ConstantFacts
<1>2. \A r \in RepoChoices :
         /\ Section(r, From(r, ts)) \in Seq(RowSet)
         /\ t \in ToSet(ts) /\ Source[t] = r => Once(Section(r, From(r, ts)), t)
         /\ ~(t \in ToSet(ts) /\ Source[t] = r) => Never(Section(r, From(r, ts)), t)
  <2>1. TAKE r \in RepoChoices
  <2>2. /\ From(r, ts) \in Seq(Tasks) /\ IsInjective(From(r, ts))
        /\ t \in ToSet(From(r, ts)) <=> t \in ToSet(ts) /\ Source[t] = r
    BY FromThere
  <2> QED
    BY <2>2, SectionShows
<1>3. secs \in Seq(Seq(RowSet)) /\ DOMAIN secs = DOMAIN rs
  <2>1. secs \in [1..Len(rs) -> Seq(RowSet)]
    BY <1>1, <1>2
  <2> HIDE DEF secs
  <2> QED
    BY <1>1, <2>1, SeqDef
<1>4. \A i \in DOMAIN rs : secs[i] = Section(rs[i], From(rs[i], ts))
  OBVIOUS
<1> HIDE DEF secs
<1>5. CASE t \in ToSet(ts) /\ Source[t] \in ToSet(rs)
  <2>1. PICK k \in DOMAIN rs : rs[k] = Source[t]
    BY <1>5 DEF ToSet
  <2>2. k \in Nat /\ Once(secs[k], t)
    BY <1>1, <1>2, <1>4, <1>5, <2>1
  <2>3. \A i \in DOMAIN rs : i # k => Never(secs[i], t)
    BY <1>1, <1>2, <1>4, <2>1 DEF IsInjective
  <2>4. a \in Seq(RowSet) /\ Once(a, t)
    BY <1>3, <2>1, <2>2, <2>3, FlattenShows
  <2>5. b \in Seq(RowSet) /\ Never(b, t)
    BY <1>1, <1>2, <2>1
  <2>6. a \o b \in Seq(RowSet) /\ Once(a \o b, t)
    BY <2>4, <2>5, Joined, ConcatProperties
  <2> QED
    BY <1>5, <2>6 DEF Grouped, secs
<1>6. CASE ~(t \in ToSet(ts) /\ Source[t] \in ToSet(rs))
  <2>1. \A i \in DOMAIN rs : Never(secs[i], t)
    BY <1>1, <1>2, <1>4, <1>6 DEF ToSet
  <2>2. 0 \in Nat /\ 0 \notin DOMAIN secs
    BY <1>1, <1>3
  <2>3. a \in Seq(RowSet) /\ Never(a, t)
    BY <1>3, <2>1, <2>2, FlattenShows
  <2>4. b \in Seq(RowSet) /\ IF t \in ToSet(ts) /\ Source[t] = Scratch THEN Once(b, t) ELSE Never(b, t)
    BY <1>1, <1>2
  <2>5. a \o b \in Seq(RowSet) /\ IF t \in ToSet(ts) /\ Source[t] = Scratch THEN Once(a \o b, t) ELSE Never(a \o b, t)
    BY <2>3, <2>4, Joined, ConcatProperties
  <2> QED
    BY <1>6, <2>5 DEF Grouped, secs
<1> QED
  BY <1>5, <1>6

\* The same of both lists a reload puts together; the default taskspace is a row of its own.
LEMMA ListingShows ==
  ASSUME NEW rs \in Seq(Repos), IsInjective(rs),
         NEW act \in Seq(Tasks), IsInjective(act), NEW arch \in Seq(Tasks), IsInjective(arch), NEW t,
         t # Default
  PROVE  LET new == Listing(rs, act, arch)
             there == Source[t] \in ToSet(rs) \cup {Scratch}
         IN  /\ new \in [tasks : Seq(RowSet), archived : Seq(RowSet)]
             /\ IF t \in ToSet(act) /\ there THEN Once(new.tasks, t) ELSE Never(new.tasks, t)
             /\ IF t \in ToSet(arch) /\ there THEN Once(new.archived, t) ELSE Never(new.archived, t)
<1> DEFINE h == <<Header("host"), Row(Default)>>
           g == Grouped(rs, act)
<1>1. h \in Seq(RowSet) /\ Never(h, t)
  <2>1. Header("host") \in RowSet /\ Row(Default) \in RowSet
    BY RowFacts
  <2>2. h \in Seq(RowSet)
    BY <2>1
  <2>3. DOMAIN h = {1, 2} /\ h[1] = Header("host") /\ h[2] = Row(Default)
    OBVIOUS
  <2> HIDE DEF h
  <2> QED
    BY <2>2, <2>3, RowFacts, ConstantFacts DEF Never, Shown, TaskRows
<1>2. g \in Seq(RowSet) /\ IF t \in ToSet(act) /\ Source[t] \in ToSet(rs) \cup {Scratch} THEN Once(g, t) ELSE Never(g, t)
  BY GroupedShows
<1>3. /\ Grouped(rs, arch) \in Seq(RowSet)
      /\ IF t \in ToSet(arch) /\ Source[t] \in ToSet(rs) \cup {Scratch}
         THEN Once(Grouped(rs, arch), t) ELSE Never(Grouped(rs, arch), t)
  BY GroupedShows
<1> HIDE DEF h, g
<1>4. h \o g \in Seq(RowSet) /\ IF t \in ToSet(act) /\ Source[t] \in ToSet(rs) \cup {Scratch} THEN Once(h \o g, t) ELSE Never(h \o g, t)
  BY <1>1, <1>2, Joined, ConcatProperties
<1>5. Listing(rs, act, arch) = [tasks |-> h \o g, archived |-> Grouped(rs, arch)]
  BY DEF Listing, h, g
<1> HIDE DEF Listing, Once, Never
<1> QED
  BY <1>3, <1>4, <1>5

\* load_repos: what is registered or has a task, and is there.
LEMMA ReposLoaded ==
  ASSUME NEW ts
  PROVE  /\ LoadRepos(ts) \in Seq(Repos) /\ IsInjective(LoadRepos(ts))
         /\ ToSet(LoadRepos(ts)) = Repos \cap (registered \cup {Source[t] : t \in ToSet(ts)}) \cap dirs
<1>1. ToSet(RepoOrder) = Repos
  BY DEF Repos
<1> QED
  BY <1>1, ConstantFacts, OnlyThose DEF LoadRepos

\* The highlight of a list.
LEMMA MarkFound ==
  ASSUME NEW S, NEW rs \in Seq(S), NEW R, NEW wanted \in Seq(R)
  PROVE  MarkRight(rs, Mark(rs, wanted)) /\ Mark(rs, wanted) \in Nat
<1> DEFINE found == {i \in DOMAIN wanted : Where(rs, wanted[i]) # 0}
<1>1. TaskRows(rs) \in SUBSET Nat
  BY TaskRowFacts
<1>2. \A t : Where(rs, t) # 0 => Where(rs, t) \in TaskRows(rs)
  <2>1. TAKE t
  <2> DEFINE at == {i \in TaskRows(rs) : rs[i].task = t}
  <2>2. at # {} => Least(at) \in at
    BY <1>1, LeastIn
  <2>3. at = {} => Least(at) = 0
    BY DEF Least
  <2> QED
    BY <2>2, <2>3 DEF Where
<1>3. CASE found = {}
  <2>1. Mark(rs, wanted) = First(rs)
    BY <1>3 DEF Mark
  <2>2. IF TaskRows(rs) = {} THEN First(rs) = 0 ELSE First(rs) \in TaskRows(rs)
    BY <1>1, LeastIn DEF First, Least
  <2> QED
    BY <1>1, <2>1, <2>2 DEF MarkRight
<1>4. CASE found # {}
  <2>1. found \in SUBSET Nat
    BY LenProperties
  <2>2. Least(found) \in found
    BY <1>4, <2>1, LeastIn
  <2>3. Mark(rs, wanted) = Where(rs, wanted[Least(found)])
    BY <1>4 DEF Mark
  <2>4. Mark(rs, wanted) \in TaskRows(rs)
    BY <1>2, <2>2, <2>3
  <2> QED
    BY <1>1, <2>4 DEF MarkRight
<1> QED
  BY <1>3, <1>4

\* The task in front is found, if it is listed at all.
LEMMA MarkStays ==
  ASSUME NEW S, NEW rs \in Seq(S), NEW R, NEW wanted \in Seq(R), NEW t \in R, Where(rs, t) # 0
  PROVE  TaskAt(rs, Mark(rs, <<t>> \o wanted)) = t
<1> DEFINE w == <<t>> \o wanted
           found == {i \in DOMAIN w : Where(rs, w[i]) # 0}
           at == {i \in TaskRows(rs) : rs[i].task = t}
<1>1. TaskRows(rs) \in SUBSET Nat
  BY TaskRowFacts
<1>2. <<t>> \in Seq(R) /\ Len(<<t>>) = 1 /\ <<t>>[1] = t
  OBVIOUS
<1>3. w \in Seq(R) /\ Len(w) = 1 + Len(wanted) /\ w[1] = t /\ Len(wanted) \in Nat
  BY <1>2, ConcatProperties, LenProperties
<1>4. DOMAIN w = 1..Len(w)
  BY <1>3, LenProperties
<1> HIDE DEF w
<1>5. 1 \in found /\ \A i \in found : i \in Nat /\ 1 <= i
  BY <1>3, <1>4
<1>6. Least(found) = 1
  <2>1. found \in SUBSET Nat
    BY <1>5
  <2>2. Least(found) \in found /\ Least(found) <= 1
    BY <1>5, <2>1, LeastIn
  <2> QED
    BY <1>5, <2>2
<1>7. Mark(rs, w) = Where(rs, t)
  BY <1>3, <1>5, <1>6 DEF Mark
<1>8. at # {}
  BY DEF Where, Least
<1>9. Where(rs, t) \in at
  BY <1>1, <1>8, LeastIn DEF Where
<1> QED
  BY <1>7, <1>9 DEF TaskAt, TaskRows, w

-----------------------------------------------------------------------------
(* What the steps of the program do to the registry, the requests and the lists. *)

\* Only requests for a new task create one, and it is the first thing they do.
LEMMA ScriptFacts ==
  /\ DOMAIN Script = {"create", "switch", "default", "archive", "restore", "delete", "rename", "defer"}
  /\ \A m \in DOMAIN Script :
        /\ Len(Script[m]) \in {1, 2} /\ DOMAIN Script[m] = 1..Len(Script[m])
        /\ Script[m][1] = "Create" <=> m \in {"create", "defer"}
        /\ Len(Script[m]) = 2 => Script[m][2] # "Create" /\ m # "default" /\ m # "defer"
  /\ Script["default"][1] = "Leave"
  /\ \A m \in DOMAIN Script : \A i \in DOMAIN Script[m] :
        Script[m][i] \in {"Create", "Enter", "Leave", "Archive", "Restore", "Delete", "Rename"}
BY DEF Script

\* A key or a background step that only changes what is on the screen.
Looks ==
    /\ UNCHANGED <<registry, disk, up, jobs, others, repos, rows, load, call, window, calm>>
    /\ screen' = screen \/ Free \/ screen'.at = "setup"

\* The request of a key.
Asks(method, x) ==
    /\ Free
    /\ Send(method, x)
    /\ method \in DOMAIN Script
    /\ JobRight(Job("tui", method, x)) /\ x \in Somewhere
    /\ screen.at = "form" /\ screen.sub = "container" => method = "defer"

Reloads ==
    /\ Free
    /\ BeginReload
    /\ UNCHANGED <<registry, dirs, up, jobs, others, lists, panel, screen, call, window, daemon>>

Closes ==
    /\ Free
    /\ window' = "closed"
    /\ UNCHANGED <<registry, disk, up, jobs, others, lists, panel, screen, load, call, calm, daemon>>

\* A dialog is about a task, a form about a checkout.
LEMMA Dialogue ==
  ASSUME screen \in Screens
  PROVE  /\ screen.at \in Dialogs => screen.on \in Tasks
         /\ screen.at \in {"rename", "setup"} => screen.on \in Tasks
         /\ screen.at = "form" => screen.on \in RepoChoices
         /\ screen.at = "unregister" => screen.on \in Repos
         /\ screen.sub \in {"confirm", "cancel"} => screen.at \in Dialogs \cup {"unregister"}
<1>0. CASE screen = Main
  BY <1>0 DEF Main, Dialogs
<1>1. CASE screen \in [at : {"picker", "pick"}, on : {None}, sub : {""}]
  <2>1. screen.at \in {"picker", "pick"} /\ screen.sub = ""
    BY <1>1
  <2> QED
    BY <2>1 DEF Dialogs
<1>2. CASE screen \in [at : Dialogs, on : Tasks, sub : {"confirm", "cancel"}]
  BY <1>2 DEF Dialogs
<1>3. CASE screen \in [at : {"rename"}, on : Tasks, sub : {""}]
  BY <1>3 DEF Dialogs
<1>4. CASE screen \in [at : {"unregister"}, on : Repos, sub : {"confirm", "cancel", "checked"}]
  BY <1>4 DEF Dialogs
<1>5. CASE screen \in [at : {"form"}, on : RepoChoices, sub : {"", "container"}]
  BY <1>5 DEF Dialogs
<1>6. CASE screen \in [at : {"setup"}, on : Tasks, sub : {"running", "ok", "failed"}]
  BY <1>6 DEF Dialogs
<1> QED
  BY <1>0, <1>1, <1>2, <1>3, <1>4, <1>5, <1>6 DEF Screens

LEMMA RowAt ==
  ASSUME NEW rs \in Seq(RowSet), NEW i, TaskAt(rs, i) # None
  PROVE  TaskAt(rs, i) \in Tasks \cup {Default}
<1>1. i \in DOMAIN rs /\ IsTask(rs[i]) /\ TaskAt(rs, i) = rs[i].task
  BY DEF TaskAt
<1>2. rs[i] \in RowSet
  BY <1>1, LenProperties, ElementOfSeq
<1> QED
  BY <1>1, <1>2, RowFacts

\* A key sends a request the daemon knows, about a task or checkout of the right kind.
LEMMA AsksRight ==
  ASSUME TypesInv, SwitchSelected \/ SubmitRename \/ SubmitTask \/ \E key \in Keys : Confirm(key)
  PROVE  \E method, x : Asks(method, x)
<1>0. screen \in Screens /\ rows.tasks \in Seq(RowSet)
  BY DEF TypesInv, ScreenTypes, ListTypes
<1>1. \A method \in DOMAIN Script \ {"create", "defer", "default"}, x \in Tasks :
         JobRight(Job("tui", method, x)) /\ x \in Somewhere
  BY ScriptFacts DEF JobRight, Job, Somewhere
<1>2. JobRight(Job("tui", "default", Default)) /\ Default \in Somewhere
  BY ScriptFacts DEF JobRight, Job, Somewhere
<1>3. \A method \in {"create", "defer"}, x \in RepoChoices :
         JobRight(Job("tui", method, x)) /\ x \in Somewhere
  BY ScriptFacts DEF JobRight, Job, Somewhere
<1>4. CASE SwitchSelected
  <2> DEFINE x == Marked("tasks")
             m == IF x = Default THEN "default" ELSE "switch"
  <2>1. Free /\ Send(m, x) /\ screen.at = "main" /\ x # None
    BY <1>4 DEF SwitchSelected, At
  <2>2. x \in Tasks \cup {Default}
    BY <1>0, <2>1, RowAt DEF Marked
  <2> HIDE DEF x
  <2>3. Asks(m, x)
    BY <1>1, <1>2, <2>1, <2>2, ScriptFacts DEF Asks
  <2> QED
    BY <2>3
<1>5. CASE SubmitRename
  <2>1. Asks("rename", screen.on)
    BY <1>0, <1>1, <1>5, Dialogue, ScriptFacts DEF Asks, SubmitRename, At
  <2> QED
    BY <2>1
<1>6. CASE SubmitTask
  <2>1. Asks(IF screen.sub = "" THEN "create" ELSE "defer", screen.on)
    BY <1>0, <1>3, <1>6, Dialogue, ScriptFacts DEF Asks, SubmitTask, At
  <2> QED
    BY <2>1
<1>7. CASE \E key \in Keys : Confirm(key)
  <2>1. Free /\ screen.at \in Dialogs /\ Send(screen.at, screen.on)
    BY <1>7 DEF Confirm
  <2>2. Asks(screen.at, screen.on)
    BY <1>0, <1>1, <2>1, Dialogue, ScriptFacts DEF Asks, Dialogs
  <2> QED
    BY <2>2
<1> QED
  BY <1>4, <1>5, <1>6, <1>7

Step == Key \/ Loop \/ SetupEnds \/ Spawn \/ Probe \/ Poll \/ Expire

\* Every step of the program is one of seven kinds.
LEMMA StepKinds ==
  ASSUME TypesInv, Step
  PROVE  Looks \/ (\E method, x : Asks(method, x)) \/ Reloads \/ Closes \/ ReadTasks \/ ShowLists \/ Answer
<1>1. CASE Refresh \/ (\E r \in Repos : Register(r)) \/ Unregister
  <2>1. Reloads
    BY <1>1 DEF Reloads, Refresh, Register, Unregister, At, BeginReload, Lists, Still, lists, disk, daemon
  <2> QED
    BY <2>1
<1>2. CASE Close
  BY <1>2 DEF Close, Closes, Quit, At, Lists, Still, disk, lists
<1>3. CASE SwitchSelected \/ SubmitRename \/ SubmitTask \/ \E key \in Keys : Confirm(key)
  BY <1>3, AsksRight
<1>4. CASE LeaveSetup
  <2>1. CASE screen.sub = "ok" /\ Send("switch", screen.on)
    <3>1. Asks("switch", screen.on)
      <4>1. screen.at = "setup" /\ screen.on \in Tasks /\ Free
        BY <1>4, Dialogue DEF LeaveSetup, At, TypesInv, ScreenTypes
      <4> QED
        BY <2>1, <4>1, ScriptFacts DEF Asks, JobRight, Job, Somewhere
    <3> QED
      BY <3>1
  <2>2. CASE ~(screen.sub = "ok" /\ Send("switch", screen.on))
    BY <1>4, <2>2 DEF LeaveSetup, At, Looks, Lists, Still, Quiet, lists
  <2> QED
    BY <2>1, <2>2
<1>5. CASE BeginNew \/ BeginRegister \/ BeginUnregister \/ Dismiss
  BY <1>5 DEF BeginNew, BeginRegister, BeginUnregister, Dismiss, At, Looks, Lists, Still, Quiet, lists
<1>6. CASE \/ \E p \in Panels : SwitchPanel(p) \/ Move(p)
           \/ \E at \in Dialogs \cup {"rename"} : OpenDialog(at)
           \/ \E key \in Keys : Turn(key) \/ CheckUnregister(key)
           \/ \E c \in RepoChoices : Choose(c)
  BY <1>6 DEF SwitchPanel, Move, OpenDialog, Turn, CheckUnregister, Choose, At, Looks, Lists, Still, Quiet, lists
<1>7. CASE SetupEnds \/ Spawn \/ Probe \/ Poll \/ Expire
  BY <1>7 DEF SetupEnds, Spawn, Probe, Poll, Expire, Show, Looks, Lists, Still, Quiet, lists
<1>8. CASE ReadTasks \/ ShowLists \/ Answer
  BY <1>8
<1> HIDE DEF Refresh, Register, Unregister, Close
<1> QED
  BY <1>1, <1>2, <1>3, <1>4, <1>5, <1>6, <1>7, <1>8 DEF Step, Key, Loop

-----------------------------------------------------------------------------
(* The daemon. *)

\* A step of a job, as the step of its script that is due.
LEMMA JobFacts ==
  ASSUME TypesInv, NEW j \in jobs
  PROVE  /\ j \in Jobs /\ j.method \in DOMAIN Script /\ j.step \in DOMAIN Script[j.method]
         /\ Script[j.method][j.step] \in {"Create", "Enter", "Leave", "Archive", "Restore", "Delete", "Rename"}
         /\ \A t \in Targets(j) :
               /\ Script[j.method][j.step] = "Create" => t \in fresh
               /\ Script[j.method][j.step] # "Create" => t = j.on
               /\ t \in Tasks \/ (t = Default /\ j.method = "default" /\ Script[j.method][j.step] = "Leave")
<1>1. j \in Jobs /\ JobRight(j) /\ fresh \in SUBSET Tasks
  BY ConstantFacts DEF TypesInv, JobTypes, RegistryTypes
<1>2. j.method \in DOMAIN Script /\ j.step \in DOMAIN Script[j.method]
  BY <1>1 DEF Jobs, JobRight
<1>3. j.method = "default" => j.step = 1 /\ Script[j.method][j.step] = "Leave"
  BY <1>2, ScriptFacts
<1>4. \A t \in Targets(j) :
         IF Script[j.method][j.step] = "Create" THEN t \in fresh
         ELSE t = j.on /\ IF j.method = "default" THEN t = Default ELSE t \in Tasks
  BY <1>1 DEF Targets, JobRight
<1>5. Script[j.method][j.step] \in {"Create", "Enter", "Leave", "Archive", "Restore", "Delete", "Rename"}
  BY <1>2, ScriptFacts
<1>6. ASSUME NEW t \in Targets(j)
      PROVE  /\ Script[j.method][j.step] = "Create" => t \in fresh
             /\ Script[j.method][j.step] # "Create" => t = j.on
             /\ t \in Tasks \/ (t = Default /\ j.method = "default" /\ Script[j.method][j.step] = "Leave")
  <2>1. fresh \in SUBSET Tasks
    BY <1>1
  <2>2. CASE Script[j.method][j.step] = "Create"
    <3>1. t \in fresh
      BY <1>4, <1>6, <2>2
    <3> QED
      BY <2>1, <2>2, <3>1
  <2>3. CASE Script[j.method][j.step] # "Create"
    <3>1. t = j.on /\ (j.method = "default" => t = Default) /\ (j.method # "default" => t \in Tasks)
      BY <1>4, <1>6, <2>3
    <3> QED
      BY <1>3, <2>3, <3>1
  <2> QED
    BY <2>2, <2>3
<1>7. j \in Jobs
  BY <1>1
<1> QED
  BY <1>2, <1>5, <1>6, <1>7

\* The order without a task.
LEMMA WithoutFacts ==
  ASSUME TypesInv, NEW t
  PROVE  /\ Without(t) \in Seq(Tasks) /\ IsInjective(Without(t))
         /\ ToSet(Without(t)) = Present \ {t}
<1>1. order \in Seq(Tasks) /\ IsInjective(order) /\ ToSet(order) = Present
  BY DEF TypesInv, RegistryTypes
<1> QED
  BY <1>1, OnlyThose DEF Without, Present

\* The steps of a request keep the registry and its order in agreement.
LEMMA DoTypes ==
  ASSUME TypesInv, NEW j \in jobs, NEW t \in Targets(j), Do(Script[j.method][j.step], t)
  PROVE  RegistryTypes'
<1> DEFINE step == Script[j.method][j.step]
<1>1. /\ status \in [Tasks -> {"absent", "active", "archived"}]
      /\ cur \in Tasks \cup {Default} /\ fresh \subseteq Fresh
      /\ order \in Seq(Tasks) /\ IsInjective(order) /\ ToSet(order) = Present
  BY DEF TypesInv, RegistryTypes
<1>2. /\ step \in {"Create", "Enter", "Leave", "Archive", "Restore", "Delete", "Rename"}
      /\ t \in Tasks \/ (t = Default /\ step = "Leave")
  BY JobFacts
<1>3. Do(step, t)
  OBVIOUS
<1> HIDE DEF step
<1>4. CASE step = "Create"
  <2>1. Registry!Create(t) /\ fresh' = fresh \ {t} /\ order' = <<t>> \o order
    BY <1>3, <1>4 DEF Do
  <2>2. status[t] = "absent" /\ status' = [status EXCEPT ![t] = "active"] /\ cur' = cur
    BY <2>1 DEF Registry!Create
  <2>3. t \in Tasks /\ t \notin Present
    BY <1>2, <1>4, <2>2 DEF Present
  <2>4. order' \in Seq(Tasks) /\ IsInjective(order') /\ ToSet(order') = Present \cup {t}
    BY <1>1, <2>1, <2>3, Prepended
  <2>5. Present' = Present \cup {t}
    BY <1>1, <2>2, <2>3 DEF Present
  <2> QED
    BY <1>1, <2>1, <2>2, <2>4, <2>5 DEF RegistryTypes
<1>5. CASE step = "Enter"
  <2>1. Registry!Enter(t) /\ UNCHANGED <<fresh, order>>
    BY <1>3, <1>5 DEF Do
  <2>2. cur' = t /\ UNCHANGED <<status, fresh, order>>
    BY <2>1 DEF Registry!Enter
  <2> QED
    BY <1>1, <1>2, <1>5, <2>2 DEF RegistryTypes, Present
<1>6. CASE step = "Leave"
  <2>1. UNCHANGED <<status, fresh, order>> /\ cur' \in {cur, Default}
    BY <1>3, <1>6 DEF Do, Registry!Leave, registry
  <2> QED
    BY <1>1, <2>1 DEF RegistryTypes, Present
<1>7. CASE step = "Archive"
  <2>1. Registry!Archive(t) /\ UNCHANGED <<fresh, order>>
    BY <1>3, <1>7 DEF Do
  <2>2. status[t] # "absent" /\ status' = [status EXCEPT ![t] = "archived"] /\ UNCHANGED <<cur, fresh, order>>
    BY <2>1 DEF Registry!Archive
  <2>3. Present' = Present
    BY <1>1, <2>2 DEF Present
  <2> QED
    BY <1>1, <2>2, <2>3 DEF RegistryTypes
<1>8. CASE step = "Restore"
  <2>1. Registry!Restore(t) /\ order' = <<t>> \o Without(t) /\ fresh' = fresh
    BY <1>3, <1>8 DEF Do
  <2>2. status[t] = "archived" /\ status' = [status EXCEPT ![t] = "active"] /\ cur' = cur
    BY <2>1 DEF Registry!Restore
  <2>3. t \in Tasks
    BY <1>2, <1>8
  <2>4. order' \in Seq(Tasks) /\ IsInjective(order') /\ ToSet(order') = {t} \cup (Present \ {t})
    BY <2>1, <2>3, WithoutFacts, Prepended
  <2>5. Present' = Present /\ t \in Present
    BY <1>1, <2>2, <2>3 DEF Present
  <2>6. ToSet(order') = Present'
    BY <2>4, <2>5
  <2> QED
    BY <1>1, <2>1, <2>2, <2>4, <2>6 DEF RegistryTypes
<1>9. CASE step = "Delete"
  <2>1. Registry!Delete(t) /\ order' = Without(t) /\ fresh' = fresh
    BY <1>3, <1>9 DEF Do
  <2>2. /\ status' = [status EXCEPT ![t] = "absent"]
        /\ cur' = IF cur = t THEN Default ELSE cur
    BY <2>1 DEF Registry!Delete
  <2>3. Present' = Present \ {t}
    BY <1>1, <2>2 DEF Present
  <2> QED
    BY <1>1, <2>1, <2>2, <2>3, WithoutFacts DEF RegistryTypes
<1>10. CASE step = "Rename"
  <2>1. UNCHANGED registry
    BY <1>3, <1>10 DEF Do
  <2> QED
    BY <1>1, <2>1 DEF RegistryTypes, Present, registry
<1> QED
  BY <1>2, <1>4, <1>5, <1>6, <1>7, <1>8, <1>9, <1>10

-----------------------------------------------------------------------------
(* Types, conjunct by conjunct. *)

\* Other programs and faults change no list, and the history knows of them.
LEMMA EnvironmentKinds ==
  ASSUME Environment
  PROVE  /\ UNCHANGED <<registry, lists, panel, screen, daemon>> /\ calm' = FALSE
         /\ \/ UNCHANGED <<jobs, call>> /\ load' \in {load, NoLoad}
            \/ Timeout /\ UNCHANGED load
            \/ UNCHANGED load /\ \E method \in DOMAIN Script : \E x : Request(method, x)
            \/ DaemonStops /\ UNCHANGED load
<1>1. CASE ReloadFails
  BY <1>1 DEF ReloadFails, Changed
<1>2. CASE Timeout
  BY <1>2 DEF Timeout, Changed
<1>3. CASE \E method \in DOMAIN Script, x \in Tasks \cup RepoChoices \cup {Default} : Request(method, x)
  BY <1>3 DEF Request, Other, Changed
<1>4. CASE DaemonStops
  BY <1>4 DEF DaemonStops, Other, Changed
<1>5. CASE DaemonStarts
  BY <1>5 DEF DaemonStarts, Other, Changed
<1>6. CASE \E r \in Repos : AddRepo(r) \/ RemoveRepo(r) \/ MoveCheckout(r)
  BY <1>6 DEF AddRepo, RemoveRepo, MoveCheckout, Other, Changed
<1> QED
  BY <1>1, <1>2, <1>3, <1>4, <1>5, <1>6 DEF Environment

\* Every step of the system, by kind.
LEMMA NextKinds ==
  ASSUME TypesInv, Next
  PROVE  \/ Looks \/ (\E method, x : Asks(method, x)) \/ Reloads \/ Closes
         \/ ReadTasks \/ ShowLists \/ Answer
         \/ \E j \in jobs : Serve(j) \/ Fail(j)
         \/ Environment
BY StepKinds DEF Next, Step, Daemon

LEMMA RegistrySame ==
  ASSUME TypesInv, UNCHANGED registry
  PROVE  RegistryTypes'
BY DEF TypesInv, RegistryTypes, registry, Present

LEMMA RegistryTyped ==
  ASSUME TypesInv, Next
  PROVE  RegistryTypes'
<1>1. CASE Looks \/ (\E method, x : Asks(method, x)) \/ Reloads \/ Closes
  BY <1>1, RegistrySame DEF Looks, Asks, Send, Reloads, Closes
<1>2. CASE ReadTasks \/ ShowLists \/ Answer
  BY <1>2, RegistrySame DEF ReadTasks, ShowLists, Answer, Lists
<1>3. ASSUME NEW j \in jobs, Serve(j) PROVE RegistryTypes'
  <2>1. PICK t \in Targets(j) : Do(Script[j.method][j.step], t)
    BY <1>3 DEF Serve
  <2> QED
    BY <2>1, DoTypes
<1>4. ASSUME NEW j \in jobs, Fail(j) PROVE RegistryTypes'
  BY <1>4, RegistrySame DEF Fail
<1>5. CASE Environment
  BY <1>5, EnvironmentKinds, RegistrySame
<1> QED
  BY <1>1, <1>2, <1>3, <1>4, <1>5, NextKinds

\* While the task manager waits the daemon has its request, which is the only one of it.
LEMMA OwnWaits ==
  ASSUME TypesInv
  PROVE  /\ call = NoCall => Own = {}
         /\ \A j \in jobs : j.by = "tui" => Own = {j} /\ call.got = "waiting" /\ ~Loading
<1>1. Own # {} => call.got = "waiting"
  BY DEF TypesInv, RequestTypes
<1>2. NoCall.got = ""
  BY DEF NoCall
<1>3. \A j \in jobs : j.by = "tui" => Own = {j}
  BY DEF TypesInv, JobTypes, Own
<1>4. Loading => call = NoCall
  BY DEF TypesInv, RequestTypes
<1> QED
  BY <1>1, <1>2, <1>3, <1>4

\* The next step of a job is about something it can be done to.
LEMMA NextJob ==
  ASSUME TypesInv, NEW j \in jobs, NEW t \in Targets(j), j.step # Len(Script[j.method])
  PROVE  LET k == [j EXCEPT !.on = t, !.step = @ + 1]
         IN  k \in Jobs /\ JobRight(k) /\ k.by = j.by /\ k.method = j.method
<1>1. j \in Jobs /\ j.method \in DOMAIN Script /\ j.step \in DOMAIN Script[j.method]
  BY JobFacts
<1>2. Len(Script[j.method]) = 2 /\ j.step = 1 /\ 2 \in DOMAIN Script[j.method]
      /\ Script[j.method][2] # "Create" /\ j.method # "default"
  <2>1. /\ Len(Script[j.method]) \in {1, 2} /\ DOMAIN Script[j.method] = 1..Len(Script[j.method])
        /\ Len(Script[j.method]) = 2 => Script[j.method][2] # "Create" /\ j.method # "default"
    BY <1>1, ScriptFacts
  <2> DEFINE n == Len(Script[j.method])
             s == j.step
  <2>2. s \in 1..n /\ n \in {1, 2} /\ s # n
    BY <1>1, <2>1
  <2> HIDE DEF n, s
  <2>3. n = 2 /\ s = 1 /\ 2 \in 1..n
    BY <2>2
  <2> QED
    BY <2>1, <2>3 DEF n, s
<1>3. t \in Tasks
  BY <1>2, JobFacts
<1> DEFINE k == [j EXCEPT !.on = t, !.step = @ + 1]
<1>4. \A i \in Jobs, x \in Somewhere : i.step + 1 \in {1, 2} =>
         LET k2 == [i EXCEPT !.on = x, !.step = @ + 1]
         IN  k2 \in Jobs /\ k2.by = i.by /\ k2.method = i.method /\ k2.on = x /\ k2.step = i.step + 1
  BY DEF Jobs
<1>5. j.step + 1 = 2 /\ t \in Somewhere
  BY <1>2, <1>3 DEF Somewhere
<1>6. k \in Jobs /\ k.by = j.by /\ k.method = j.method /\ k.on = t /\ k.step = 2
  BY <1>1, <1>4, <1>5
<1> HIDE DEF k
<1>7. JobRight(k)
  BY <1>2, <1>3, <1>6 DEF JobRight
<1> QED
  BY <1>6, <1>7 DEF k

LEMMA NewJob ==
  ASSUME NEW by \in {"tui", "other"}, NEW method \in DOMAIN Script, NEW x \in Somewhere
  PROVE  Job(by, method, x) \in Jobs /\ Job(by, method, x).by = by /\ Job(by, method, x).method = method
BY DEF Job, Jobs

LEMMA JobsTyped ==
  ASSUME TypesInv, Next
  PROVE  JobTypes'
<1>0. jobs \in SUBSET Jobs /\ (\A j \in jobs : JobRight(j)) /\ (\A i, j \in jobs : i.by = "tui" /\ j.by = "tui" => i = j)
  BY DEF TypesInv, JobTypes, Own
<1>1. SUFFICES /\ jobs' \in SUBSET Jobs /\ \A j \in jobs' : JobRight(j)
               /\ \A i, j \in jobs' : i.by = "tui" /\ j.by = "tui" => i = j
  BY DEF JobTypes, Own, JobRight
<1>2. CASE jobs' \in SUBSET jobs
  BY <1>0, <1>2
<1>3. ASSUME NEW method, NEW x, Asks(method, x) PROVE jobs' \in SUBSET jobs \/ JobTypes'
  <2> DEFINE j == Job("tui", method, x)
  <2>1. j \in Jobs /\ JobRight(j)
    BY <1>3, NewJob DEF Asks
  <2>2. jobs' = jobs \/ jobs' = jobs \cup {j}
    BY <1>3 DEF Asks, Send
  <2>3. \A i \in jobs : i.by # "tui"
    BY <1>3, OwnWaits DEF Asks, Free, Own
  <2> HIDE DEF j
  <2> QED
    BY <1>0, <2>1, <2>2, <2>3 DEF JobTypes, Own, JobRight
<1>4. ASSUME NEW j \in jobs, Serve(j) PROVE jobs' \in SUBSET jobs \/ JobTypes'
  <2>1. PICK t \in Targets(j) :
           IF j.step = Len(Script[j.method]) THEN jobs' = jobs \ {j}
           ELSE jobs' = (jobs \ {j}) \cup {[j EXCEPT !.on = t, !.step = @ + 1]}
    BY <1>4 DEF Serve
  <2> DEFINE k == [j EXCEPT !.on = t, !.step = @ + 1]
  <2>2. CASE j.step # Len(Script[j.method])
    <3>1. k \in Jobs /\ JobRight(k) /\ k.by = j.by
      BY <2>2, NextJob
    <3>2. jobs' = (jobs \ {j}) \cup {k}
      BY <2>1, <2>2
    <3> HIDE DEF k
    <3> QED
      BY <1>0, <3>1, <3>2 DEF JobTypes, Own, JobRight
  <2> QED
    BY <2>1, <2>2
<1>5. ASSUME Environment PROVE jobs' \in SUBSET jobs \/ JobTypes'
  <2>1. CASE Timeout
    <3> DEFINE other(j) == [j EXCEPT !.by = "other"]
    <3>1. jobs' = (jobs \ Own) \cup {other(j) : j \in Own}
      BY <2>1 DEF Timeout
    <3>2. \A j \in Jobs : other(j) \in Jobs /\ (JobRight(j) => JobRight(other(j))) /\ other(j).by = "other"
      BY DEF Jobs, JobRight
    <3> HIDE DEF other
    <3> QED
      BY <1>0, <3>1, <3>2 DEF JobTypes, Own, JobRight
  <2>2. ASSUME NEW method \in DOMAIN Script, NEW x, Request(method, x) PROVE JobTypes'
    <3> DEFINE j == Job("other", method, x)
    <3>1. jobs' = jobs \cup {j} /\ x \in IF method \in {"create", "defer"} THEN RepoChoices
                                         ELSE IF method = "default" THEN {Default} ELSE Tasks \ fresh
      BY <2>2 DEF Request
    <3>2. x \in Somewhere
      BY <3>1 DEF Somewhere
    <3>3. j \in Jobs /\ j.by = "other"
      BY <3>2, NewJob
    <3>4. JobRight(j)
      BY <3>1, ScriptFacts DEF Job, JobRight
    <3> HIDE DEF j
    <3> QED
      BY <1>0, <3>1, <3>3, <3>4 DEF JobTypes, Own, JobRight
  <2>3. CASE DaemonStops
    BY <2>3 DEF DaemonStops
  <2> QED
    BY <1>5, <2>1, <2>2, <2>3, EnvironmentKinds
<1>6. ASSUME NEW j \in jobs, Fail(j) PROVE jobs' \in SUBSET jobs
  BY <1>6 DEF Fail
<1>7. ASSUME Looks \/ Reloads \/ Closes \/ ReadTasks \/ ShowLists \/ Answer
      PROVE  jobs' \in SUBSET jobs
  BY <1>7 DEF Looks, Reloads, Closes, ReadTasks, ShowLists, Answer, Lists
<1>8. jobs' \in SUBSET jobs \/ JobTypes'
  BY <1>3, <1>4, <1>5, <1>6, <1>7, NextKinds
<1> QED
  BY <1>2, <1>8 DEF JobTypes, Own, JobRight

LEMMA ScreensHave ==
  /\ Main \in Screens
  /\ \A t \in Tasks, at \in Dialogs, sub \in {"confirm", "cancel"} : [at |-> at, on |-> t, sub |-> sub] \in Screens
  /\ \A t \in Tasks : [at |-> "rename", on |-> t, sub |-> ""] \in Screens
  /\ \A t \in Tasks, sub \in {"running", "ok", "failed"} : [at |-> "setup", on |-> t, sub |-> sub] \in Screens
  /\ \A c \in RepoChoices, sub \in {"", "container"} : [at |-> "form", on |-> c, sub |-> sub] \in Screens
  /\ \A r \in Repos, sub \in {"confirm", "cancel", "checked"} : [at |-> "unregister", on |-> r, sub |-> sub] \in Screens
  /\ \A at \in {"pick", "picker"} : [at |-> at, on |-> None, sub |-> ""] \in Screens
BY DEF Screens

\* The form whose task has been created has its id, and a reload is due.
LEMMA DoneForm ==
  ASSUME TypesInv, call.got = "ok", screen.at = "form", screen.sub = "container"
  PROVE  call.on \in Tasks /\ calm = FALSE
BY DEF TypesInv, RequestTypes

\* What a key opens is about a task or a checkout that is listed.
LEMMA KeyScreens ==
  ASSUME TypesInv, Key
  PROVE  screen' \in Screens /\ panel' \in Panels /\ UNCHANGED <<known, checker>>
<1>0. screen \in Screens /\ panel \in Panels /\ repos \in Seq(Repos) /\ mark.repos \in DOMAIN repos \cup {0}
  BY DEF TypesInv, ScreenTypes, ListTypes
<1>1. CASE Refresh \/ Close
  BY <1>0, <1>1 DEF Refresh, Close, Quit, Lists, Still, daemon
<1>2. CASE SwitchSelected \/ SubmitRename \/ SubmitTask \/ \E key \in Keys : Confirm(key)
  BY <1>0, <1>2 DEF SwitchSelected, SubmitRename, SubmitTask, Confirm, Send
<1>3. CASE LeaveSetup
  BY <1>0, <1>3, ScreensHave DEF LeaveSetup, Send, Still, daemon
<1>4. CASE BeginNew \/ BeginRegister \/ Dismiss
  BY <1>0, <1>4, ScreensHave DEF BeginNew, BeginRegister, Dismiss, Still, daemon, Show
<1>5. CASE BeginUnregister
  <2>1. MarkedRepo # None /\ Show("unregister", MarkedRepo, "confirm") /\ UNCHANGED <<panel, known, checker>>
    BY <1>5 DEF BeginUnregister, Still, daemon
  <2>2. MarkedRepo \in Repos
    <3>1. mark.repos \in DOMAIN repos /\ MarkedRepo = repos[mark.repos]
      BY <1>0, <2>1 DEF MarkedRepo
    <3> QED
      BY <1>0, <3>1, LenProperties, ElementOfSeq
  <2> QED
    BY <1>0, <2>1, <2>2, ScreensHave DEF Show
<1>6. CASE \E p \in Panels : SwitchPanel(p) \/ Move(p)
  BY <1>0, <1>6 DEF SwitchPanel, Move, daemon
<1>7. CASE \E at \in Dialogs \cup {"rename"} : OpenDialog(at)
  <2>1. PICK at \in Dialogs \cup {"rename"} : OpenDialog(at)
    BY <1>7
  <2>2. /\ Marked(panel) \in Tasks /\ UNCHANGED <<panel, known, checker>>
        /\ \/ at = "rename" /\ Show(at, Marked(panel), "")
           \/ at # "rename" /\ (Show(at, Marked(panel), "confirm") \/ UNCHANGED screen)
    BY <2>1 DEF OpenDialog, Still
  <2> QED
    BY <1>0, <2>1, <2>2, ScreensHave DEF Show
<1>8. CASE \E key \in Keys : Turn(key)
  <2>1. /\ UNCHANGED <<panel, known, checker>> /\ screen.sub \in {"confirm", "cancel"}
        /\ \/ \E sub \in {"confirm", "cancel"} : Show(screen.at, screen.on, sub)
           \/ screen' = Main
    BY <1>8 DEF Turn, Still, daemon
  <2>2. (screen.at \in Dialogs /\ screen.on \in Tasks) \/ (screen.at = "unregister" /\ screen.on \in Repos)
    BY <1>0, <2>1, Dialogue
  <2> QED
    BY <1>0, <2>1, <2>2, ScreensHave DEF Show
<1>9. CASE \E key \in Keys : CheckUnregister(key)
  <2>1. UNCHANGED <<panel, known, checker>> /\ screen.at = "unregister" /\ Show("unregister", screen.on, "checked")
    BY <1>9 DEF CheckUnregister, At, Still, daemon
  <2> QED
    BY <1>0, <2>1, Dialogue, ScreensHave DEF Show
<1>10. CASE \E c \in RepoChoices : Choose(c)
  BY <1>0, <1>10, ScreensHave DEF Choose, Show, Still, daemon
<1>11. CASE \E r \in Repos : Register(r)
  BY <1>0, <1>11 DEF Register, daemon
<1> HIDE DEF Refresh, Close, SwitchSelected, SubmitRename, SubmitTask, LeaveSetup, BeginNew, BeginRegister, Dismiss, BeginUnregister
<1> QED
  BY <1>1, <1>2, <1>3, <1>4, <1>5, <1>6, <1>7, <1>8, <1>9, <1>10, <1>11 DEF Key

LEMMA ScreenTyped ==
  ASSUME TypesInv, Next
  PROVE  ScreenTypes'
<1>0. /\ screen \in Screens /\ panel \in Panels
      /\ known \in {"unknown", "running", "stopped"} /\ checker \in {"idle", "probing", "up", "down"}
  BY DEF TypesInv, ScreenTypes
<1>s. ASSUME UNCHANGED <<screen, panel, known, checker>> PROVE ScreenTypes'
  BY <1>0, <1>s DEF ScreenTypes, Screens, Main
<1>k. ASSUME screen' \in Screens, panel' \in Panels, known' \in {"unknown", "running", "stopped"},
             checker' \in {"idle", "probing", "up", "down"}
      PROVE  ScreenTypes'
  BY <1>k DEF ScreenTypes, Screens, Main
<1>1. CASE Key
  BY <1>0, <1>1, <1>k, KeyScreens
<1>2. CASE ReadTasks \/ Unregister
  BY <1>2, <1>s DEF ReadTasks, Unregister, Still, daemon
<1>3. CASE ShowLists
  BY <1>0, <1>3, <1>k, ScreensHave DEF ShowLists, daemon, Panels
<1>4. CASE Answer
  <2>1. panel' = panel /\ checker' = checker /\ known' \in {known, "running"}
    BY <1>4 DEF Answer, Still
  <2>2. CASE call.got = "ok" /\ screen.at = "form" /\ screen.sub = "container"
    <3>1. Show("setup", call.on, "running")
      BY <1>4, <2>2 DEF Answer, Accepted
    <3>2. screen' \in Screens
      BY <2>2, <3>1, DoneForm, ScreensHave DEF Show
    <3> QED
      BY <1>0, <1>k, <2>1, <3>2
  <2>3. CASE ~(call.got = "ok" /\ screen.at = "form" /\ screen.sub = "container")
    <3>1. screen' \in {screen, Main}
      BY <1>4, <2>3 DEF Answer, Accepted, Quit
    <3> QED
      BY <1>0, <1>k, <2>1, <3>1, ScreensHave
  <2> QED
    BY <2>2, <2>3
<1>5. CASE SetupEnds
  <2>1. /\ UNCHANGED <<panel, known, checker>> /\ screen.at = "setup"
        /\ \E result \in {"ok", "failed"} : Show("setup", screen.on, result)
    BY <1>5 DEF SetupEnds, Still, daemon
  <2>2. screen' \in Screens
    BY <1>0, <2>1, Dialogue, ScreensHave DEF Show
  <2> QED
    BY <1>0, <1>k, <2>1, <2>2
<1>6. CASE Spawn \/ Probe \/ Poll \/ Expire
  BY <1>0, <1>6, <1>k DEF Spawn, Probe, Poll, Expire, Still
<1>7. ASSUME NEW j \in jobs, Serve(j) \/ Fail(j) PROVE ScreenTypes'
  BY <1>7, <1>s DEF Serve, Fail, daemon
<1>8. CASE Environment
  BY <1>8, <1>s, EnvironmentKinds DEF daemon
<1> QED
  BY <1>1, <1>2, <1>3, <1>4, <1>5, <1>6, <1>7, <1>8 DEF Next, Loop, Daemon

LEMMA ListsSame ==
  ASSUME TypesInv, UNCHANGED lists
  PROVE  ListTypes'
BY DEF TypesInv, ListTypes, lists, MarkRight, TaskRows

\* A reload puts every highlight on a task, if there is one.
LEMMA ListsLoaded ==
  ASSUME TypesInv, ShowLists
  PROVE  ListTypes'
<1> DEFINE rs == LoadRepos(load.active \o load.archived)
           new == Listing(rs, load.active, load.archived)
<1>1. /\ load.cur \in Tasks \cup {Default}
      /\ load.active \in Seq(Tasks) /\ IsInjective(load.active)
      /\ load.archived \in Seq(Tasks) /\ IsInjective(load.archived)
  BY DEF TypesInv, RequestTypes
<1>2. PICK r \in KeepRepo(rs) :
        /\ repos' = rs /\ rows' = new
        /\ mark' = [tasks |-> Keep("tasks", new.tasks, <<load.cur>>),
                    archived |-> Keep("archived", new.archived, <<>>), repos |-> r]
  BY DEF ShowLists
<1>3. rs \in Seq(Repos) /\ IsInjective(rs)
  BY ReposLoaded
<1> HIDE DEF rs
<1>4. new \in [tasks : Seq(RowSet), archived : Seq(RowSet)]
  BY <1>1, <1>3, ListingShows, ConstantFacts
<1>5. r \in DOMAIN rs \cup {0}
  BY <1>2 DEF KeepRepo
<1> HIDE DEF new
<1>6. ASSUME NEW p \in {"tasks", "archived"}, NEW list \in Seq(RowSet), NEW current \in Seq(Tasks \cup {Default})
      PROVE  MarkRight(list, Keep(p, list, current)) /\ Keep(p, list, current) \in Nat
  <2> DEFINE w == IF Marked(p) \in Tasks THEN <<Marked(p)>> \o current ELSE current
  <2>1. w \in Seq(Tasks \cup {Default})
    <3>1. CASE Marked(p) \in Tasks
      <4>1. <<Marked(p)>> \in Seq(Tasks \cup {Default})
        BY <3>1
      <4> QED
        BY <3>1, <4>1, ConcatProperties
    <3> QED
      BY <3>1
  <2>2. Keep(p, list, current) = Mark(list, w)
    BY DEF Keep
  <2> HIDE DEF w
  <2> QED
    BY <2>1, <2>2, MarkFound
<1>7. <<load.cur>> \in Seq(Tasks \cup {Default}) /\ <<>> \in Seq(Tasks \cup {Default})
  BY <1>1
<1> DEFINE a == Keep("tasks", new.tasks, <<load.cur>>)
           b == Keep("archived", new.archived, <<>>)
<1>8. a \in Nat /\ b \in Nat /\ MarkRight(new.tasks, a) /\ MarkRight(new.archived, b)
  BY <1>4, <1>6, <1>7
<1>9. mark' = [tasks |-> a, archived |-> b, repos |-> r]
  BY <1>2
<1> HIDE DEF a, b
<1> QED
  BY <1>2, <1>3, <1>4, <1>5, <1>8, <1>9 DEF ListTypes, MarkRight, TaskRows, IsTask

LEMMA MoveTyped ==
  ASSUME TypesInv, NEW p \in Panels, Move(p)
  PROVE  ListTypes'
<1>1. /\ repos \in Seq(Repos) /\ rows \in [tasks : Seq(RowSet), archived : Seq(RowSet)]
      /\ mark \in [tasks : Nat, archived : Nat, repos : DOMAIN repos \cup {0}]
      /\ MarkRight(rows.tasks, mark.tasks) /\ MarkRight(rows.archived, mark.archived)
  BY DEF TypesInv, ListTypes
<1>2. repos' = repos /\ rows' = rows
      /\ \E i \in IF p = "repos" THEN DOMAIN repos ELSE TaskRows(rows[p]) : mark' = [mark EXCEPT ![p] = i]
  BY DEF Move
<1>3. PICK i \in IF p = "repos" THEN DOMAIN repos ELSE TaskRows(rows[p]) : mark' = [mark EXCEPT ![p] = i]
  BY <1>2
<1>4. p \in {"tasks", "repos", "archived"}
  BY DEF Panels
<1>5. CASE p = "repos"
  <2>1. mark' = [mark EXCEPT !.repos = i] /\ i \in DOMAIN repos
    BY <1>3, <1>5
  <2>2. mark'.tasks = mark.tasks /\ mark'.archived = mark.archived
        /\ mark' \in [tasks : Nat, archived : Nat, repos : DOMAIN repos \cup {0}]
    BY <1>1, <2>1
  <2> QED
    BY <1>1, <1>2, <2>2 DEF ListTypes, MarkRight, TaskRows, IsTask
<1>6. CASE p = "tasks"
  <2>1. mark' = [mark EXCEPT !.tasks = i] /\ i \in TaskRows(rows.tasks)
    BY <1>3, <1>6
  <2>2. i \in Nat
    BY <1>1, <2>1, TaskRowFacts
  <2>3. mark'.tasks = i /\ mark'.archived = mark.archived
        /\ mark' \in [tasks : Nat, archived : Nat, repos : DOMAIN repos \cup {0}]
    BY <1>1, <2>1, <2>2
  <2> QED
    BY <1>1, <1>2, <2>1, <2>3 DEF ListTypes, MarkRight, TaskRows, IsTask
<1>7. CASE p = "archived"
  <2>1. mark' = [mark EXCEPT !.archived = i] /\ i \in TaskRows(rows.archived)
    BY <1>3, <1>7
  <2>2. i \in Nat
    BY <1>1, <2>1, TaskRowFacts
  <2>3. mark'.archived = i /\ mark'.tasks = mark.tasks
        /\ mark' \in [tasks : Nat, archived : Nat, repos : DOMAIN repos \cup {0}]
    BY <1>1, <2>1, <2>2
  <2> QED
    BY <1>1, <1>2, <2>1, <2>3 DEF ListTypes, MarkRight, TaskRows, IsTask
<1> QED
  BY <1>4, <1>5, <1>6, <1>7

LEMMA KeyLists ==
  ASSUME Key
  PROVE  UNCHANGED lists \/ \E p \in Panels : Move(p)
<1>1. CASE Refresh \/ Close \/ SwitchSelected \/ BeginNew \/ BeginRegister \/ BeginUnregister
           \/ Dismiss \/ SubmitRename \/ SubmitTask \/ LeaveSetup
  BY <1>1 DEF Refresh, Close, SwitchSelected, BeginNew, BeginRegister, BeginUnregister, Dismiss,
              SubmitRename, SubmitTask, LeaveSetup, Send, Still
<1>2. CASE \/ \E p \in Panels : SwitchPanel(p)
           \/ \E at \in Dialogs \cup {"rename"} : OpenDialog(at)
           \/ \E key \in Keys : Turn(key) \/ Confirm(key) \/ CheckUnregister(key)
           \/ \E c \in RepoChoices : Choose(c)
           \/ \E r \in Repos : Register(r)
  BY <1>2 DEF SwitchPanel, OpenDialog, Turn, Confirm, CheckUnregister, Choose, Register, Send, Still
<1> HIDE DEF Refresh, Close, SwitchSelected, SubmitRename, SubmitTask, LeaveSetup, BeginNew, BeginRegister, Dismiss, BeginUnregister
<1> QED
  BY <1>1, <1>2 DEF Key

LEMMA ListTyped ==
  ASSUME TypesInv, Next
  PROVE  ListTypes'
<1>1. CASE Key
  BY <1>1, KeyLists, ListsSame, MoveTyped
<1>2. CASE ReadTasks \/ Answer \/ Unregister \/ SetupEnds \/ Spawn \/ Probe \/ Poll \/ Expire
  BY <1>2, ListsSame DEF ReadTasks, Answer, Unregister, SetupEnds, Spawn, Probe, Poll, Expire, Still
<1>3. CASE ShowLists
  BY <1>3, ListsLoaded
<1>4. ASSUME NEW j \in jobs, Serve(j) \/ Fail(j) PROVE ListTypes'
  BY <1>4, ListsSame DEF Serve, Fail
<1>5. CASE Environment
  BY <1>5, EnvironmentKinds, ListsSame
<1> QED
  BY <1>1, <1>2, <1>3, <1>4, <1>5 DEF Next, Loop, Daemon

-----------------------------------------------------------------------------
(* Reloads and requests. *)

LEMMA RequestFacts ==
  ASSUME TypesInv
  PROVE  /\ load \in [step : 0..4, cur : Tasks \cup {Default}, active : Seq(Tasks), archived : Seq(Tasks)]
         /\ call \in [got : {"", "waiting", "ok", "err"}, on : Somewhere \cup {None}]
         /\ IsInjective(load.active) /\ IsInjective(load.archived)
         /\ calm \in BOOLEAN
         /\ Loading => call = NoCall
         /\ Own # {} => call.got = "waiting"
         /\ screen.at = "form" /\ screen.sub = "container" =>
               /\ \A j \in Own : j.method = "defer"
               /\ call.got = "ok" => call.on \in Tasks /\ ~calm
BY DEF TypesInv, RequestTypes

LEMMA LoadFacts ==
  /\ NoLoad \in [step : 0..4, cur : Tasks \cup {Default}, active : Seq(Tasks), archived : Seq(Tasks)]
  /\ [NoLoad EXCEPT !.step = 1] \in [step : 0..4, cur : Tasks \cup {Default}, active : Seq(Tasks), archived : Seq(Tasks)]
  /\ NoLoad.step = 0 /\ NoLoad.active = <<>> /\ NoLoad.archived = <<>>
  /\ [NoLoad EXCEPT !.step = 1].step = 1 /\ [NoLoad EXCEPT !.step = 1].active = <<>> /\ [NoLoad EXCEPT !.step = 1].archived = <<>>
  /\ NoCall \in [got : {"", "waiting", "ok", "err"}, on : Somewhere \cup {None}] /\ NoCall.got = ""
  /\ IsInjective(<<>>)
<1> DEFINE L == [step : 0..4, cur : Tasks \cup {Default}, active : Seq(Tasks), archived : Seq(Tasks)]
<1>1. IsInjective(<<>>)
  BY DEF IsInjective
<1>2. <<>> \in Seq(Tasks) /\ Default \in Tasks \cup {Default}
  OBVIOUS
<1>3. NoLoad \in L /\ NoLoad.step = 0 /\ NoLoad.active = <<>> /\ NoLoad.archived = <<>>
  BY <1>2 DEF NoLoad
<1>4. \A l \in L : /\ [l EXCEPT !.step = 1] \in L /\ [l EXCEPT !.step = 1].step = 1
                  /\ [l EXCEPT !.step = 1].active = l.active /\ [l EXCEPT !.step = 1].archived = l.archived
  OBVIOUS
<1>5. NoCall \in [got : {"", "waiting", "ok", "err"}, on : Somewhere \cup {None}] /\ NoCall.got = ""
  BY DEF NoCall
<1> HIDE DEF L
<1>6. /\ [NoLoad EXCEPT !.step = 1] \in L /\ [NoLoad EXCEPT !.step = 1].step = 1
      /\ [NoLoad EXCEPT !.step = 1].active = <<>> /\ [NoLoad EXCEPT !.step = 1].archived = <<>>
  BY <1>3, <1>4
<1> QED
  BY <1>1, <1>3, <1>5, <1>6 DEF L

\* What has to be shown when the reload and the own requests stay.
LEMMA RequestSame ==
  ASSUME TypesInv, UNCHANGED <<load, call>>, calm' \in BOOLEAN, calm' => calm, Own' \in SUBSET Own,
         screen' = screen \/ ~(screen'.at = "form" /\ screen'.sub = "container")
                          \/ call = NoCall
  PROVE  RequestTypes'
<1>1. call = NoCall => Own = {} /\ call.got = ""
  BY OwnWaits, LoadFacts
<1> QED
  BY <1>1, RequestFacts DEF RequestTypes, Loading, NoCall

LEMMA AsksTyped ==
  ASSUME TypesInv, NEW method, NEW x, Asks(method, x)
  PROVE  RequestTypes'
<1> DEFINE j == Job("tui", method, x)
<1>1. /\ Free /\ x \in Somewhere
      /\ jobs' = IF up THEN jobs \cup {j} ELSE jobs
      /\ call' = [got |-> IF up THEN "waiting" ELSE "err", on |-> x]
      /\ UNCHANGED <<load, screen, calm>>
      /\ screen.at = "form" /\ screen.sub = "container" => method = "defer"
  BY DEF Asks, Send
<1>2. Own = {} /\ ~Loading
  BY <1>1, OwnWaits DEF Free
<1>3. j.method = method
  BY DEF Job
<1> HIDE DEF j
<1>4. CASE up
  <2>1. Own' \in SUBSET {j} /\ call' = [got |-> "waiting", on |-> x]
    BY <1>1, <1>2, <1>4 DEF Own
  <2>2. call'.got = "waiting" /\ call' \in [got : {"", "waiting", "ok", "err"}, on : Somewhere \cup {None}]
    BY <1>1, <2>1
  <2> QED
    BY <1>1, <1>2, <1>3, <2>1, <2>2, RequestFacts DEF RequestTypes, Loading
<1>5. CASE ~up
  <2>1. Own' = {} /\ call' = [got |-> "err", on |-> x]
    BY <1>1, <1>2, <1>5 DEF Own
  <2>2. call'.got = "err" /\ call' \in [got : {"", "waiting", "ok", "err"}, on : Somewhere \cup {None}]
    BY <1>1, <2>1
  <2> QED
    BY <1>1, <1>2, <2>1, <2>2, RequestFacts DEF RequestTypes, Loading
<1> QED
  BY <1>4, <1>5

LEMMA ReloadsTyped ==
  ASSUME TypesInv, call' = NoCall, Own' = {}, calm' \in BOOLEAN,
         load' \in {NoLoad, [NoLoad EXCEPT !.step = 1]}
  PROVE  RequestTypes'
BY LoadFacts DEF RequestTypes, Loading, NoCall

\* A reload reads every task of a status once.
LEMMA InFacts ==
  ASSUME TypesInv, NEW st
  PROVE  /\ In(st) \in Seq(Tasks) /\ IsInjective(In(st))
         /\ st # "absent" => ToSet(In(st)) = {t \in Tasks : status[t] = st}
<1>1. order \in Seq(Tasks) /\ IsInjective(order) /\ ToSet(order) = Present
  BY DEF TypesInv, RegistryTypes
<1> QED
  BY <1>1, OnlyThose DEF In, Present

\* The records of a reload, after each of its reads.
LEMMA ReadSteps ==
  ASSUME NEW N, NEW C, NEW S, NEW l \in [step : N, cur : C, active : S, archived : S],
         NEW n \in N, NEW x \in C, NEW s \in S
  PROVE  /\ [l EXCEPT !.step = n, !.cur = x] \in [step : N, cur : C, active : S, archived : S]
         /\ [l EXCEPT !.step = n, !.cur = x].active = l.active
         /\ [l EXCEPT !.step = n, !.cur = x].archived = l.archived
         /\ [l EXCEPT !.step = n, !.active = s] \in [step : N, cur : C, active : S, archived : S]
         /\ [l EXCEPT !.step = n, !.active = s].active = s
         /\ [l EXCEPT !.step = n, !.active = s].archived = l.archived
         /\ [l EXCEPT !.step = n, !.archived = s] \in [step : N, cur : C, active : S, archived : S]
         /\ [l EXCEPT !.step = n, !.archived = s].active = l.active
         /\ [l EXCEPT !.step = n, !.archived = s].archived = s
<1>1. /\ [l EXCEPT !.step = n, !.cur = x] \in [step : N, cur : C, active : S, archived : S]
      /\ [l EXCEPT !.step = n, !.active = s] \in [step : N, cur : C, active : S, archived : S]
      /\ [l EXCEPT !.step = n, !.archived = s] \in [step : N, cur : C, active : S, archived : S]
  OBVIOUS
<1>2. /\ [l EXCEPT !.step = n, !.cur = x].active = l.active
      /\ [l EXCEPT !.step = n, !.cur = x].archived = l.archived
      /\ [l EXCEPT !.step = n, !.active = s].active = s
      /\ [l EXCEPT !.step = n, !.active = s].archived = l.archived
      /\ [l EXCEPT !.step = n, !.archived = s].active = l.active
      /\ [l EXCEPT !.step = n, !.archived = s].archived = s
  OBVIOUS
<1> QED
  BY <1>1, <1>2

LEMMA ReadTyped ==
  ASSUME TypesInv, ReadTasks
  PROVE  RequestTypes'
<1> DEFINE L == [step : 0..4, cur : Tasks \cup {Default}, active : Seq(Tasks), archived : Seq(Tasks)]
<1>1. /\ load.step \in 1..3 /\ UNCHANGED <<jobs, screen, call, calm>>
      /\ load' = CASE load.step = 1 -> [load EXCEPT !.step = 2, !.cur = cur]
                   [] load.step = 2 -> [load EXCEPT !.step = 3, !.active = In("active")]
                   [] OTHER -> [load EXCEPT !.step = 4, !.archived = In("archived")]
  BY DEF ReadTasks, Lists
<1>2. load \in L /\ IsInjective(load.active) /\ IsInjective(load.archived) /\ cur \in Tasks \cup {Default}
  BY RequestFacts DEF TypesInv, RegistryTypes
<1>3. load' \in L /\ IsInjective(load'.active) /\ IsInjective(load'.archived)
  <2> DEFINE a == In("active")
             b == In("archived")
  <2>1. a \in Seq(Tasks) /\ IsInjective(a) /\ b \in Seq(Tasks) /\ IsInjective(b)
    BY InFacts
  <2> HIDE DEF a, b
  <2>2. 2 \in 0..4 /\ 3 \in 0..4 /\ 4 \in 0..4
    OBVIOUS
  <2>3. CASE load' = [load EXCEPT !.step = 2, !.cur = cur]
    BY <1>2, <2>1, <2>2, <2>3, ReadSteps
  <2>4. CASE load' = [load EXCEPT !.step = 3, !.active = a]
    BY <1>2, <2>1, <2>2, <2>4, ReadSteps
  <2>5. CASE load' = [load EXCEPT !.step = 4, !.archived = b]
    BY <1>2, <2>1, <2>2, <2>5, ReadSteps
  <2> QED
    BY <1>1, <2>3, <2>4, <2>5 DEF a, b
<1>4. call = NoCall
  <2>1. load.step # 0
    BY <1>1
  <2> QED
    BY <2>1, RequestFacts DEF Loading
<1>5. Own' = Own
  BY <1>1 DEF Own
<1> QED
  BY <1>1, <1>3, <1>4, <1>5, RequestFacts DEF RequestTypes, Loading, NoCall

LEMMA AnswerTyped ==
  ASSUME TypesInv, Answer
  PROVE  RequestTypes'
<1>1. /\ call.got \in {"ok", "err"} /\ call' = NoCall /\ jobs' = jobs
      /\ calm' \in {calm, TRUE, FALSE} /\ load' \in {load, [NoLoad EXCEPT !.step = 1]}
  BY DEF Answer, Accepted, Quit, BeginReload, Changed, Lists
<1>2. Own = {} /\ ~Loading /\ calm \in BOOLEAN
  BY <1>1, RequestFacts, LoadFacts
<1>3. Own' = {}
  BY <1>1, <1>2 DEF Own
<1> QED
  BY <1>1, <1>2, <1>3, LoadFacts, RequestFacts DEF RequestTypes, Loading, NoCall

LEMMA ServeTyped ==
  ASSUME TypesInv, NEW j \in jobs, Serve(j)
  PROVE  RequestTypes'
<1>1. PICK t \in Targets(j) :
          IF j.step = Len(Script[j.method]) THEN jobs' = jobs \ {j} /\ Reply(j, "ok", t)
          ELSE jobs' = (jobs \ {j}) \cup {[j EXCEPT !.on = t, !.step = @ + 1]} /\ UNCHANGED call
  BY DEF Serve
<1>2. calm' = (calm /\ j.by = "tui" /\ j.method # "defer") /\ UNCHANGED <<screen, load>>
  BY DEF Serve
<1>3. calm' \in BOOLEAN /\ (calm' => calm) /\ (calm' => j.method # "defer")
  BY <1>2, RequestFacts
<1>4. CASE j.step = Len(Script[j.method])
  <2>1. jobs' = jobs \ {j} /\ call' = IF j.by = "tui" THEN [got |-> "ok", on |-> t] ELSE call
    BY <1>1, <1>4 DEF Reply
  <2>2. CASE j.by = "tui"
    <3>1. Own = {j} /\ ~Loading /\ j \in Own
      BY <2>2, OwnWaits DEF Own
    <3>2. Own' = {}
      BY <2>1, <3>1 DEF Own
    <3>3. call' = [got |-> "ok", on |-> t] /\ t \in Somewhere
      BY <2>1, <2>2, JobFacts DEF Somewhere
    <3>4. call'.got = "ok" /\ call'.on = t /\ call' \in [got : {"", "waiting", "ok", "err"}, on : Somewhere \cup {None}]
      BY <3>3
    <3>5. j.method = "defer" => t \in Tasks
      BY JobFacts
    <3> QED
      BY <1>2, <1>3, <3>1, <3>2, <3>4, <3>5, RequestFacts DEF RequestTypes, Loading
  <2>3. CASE j.by # "tui"
    <3>1. call' = call /\ Own' = Own
      BY <2>1, <2>3 DEF Own
    <3> QED
      BY <1>2, <1>3, <3>1, RequestSame
  <2> QED
    BY <2>2, <2>3
<1>5. CASE j.step # Len(Script[j.method])
  <2> DEFINE k == [j EXCEPT !.on = t, !.step = @ + 1]
  <2>1. jobs' = (jobs \ {j}) \cup {k} /\ call' = call
    BY <1>1, <1>5
  <2>2. k.by = j.by /\ k.method = j.method
    BY <1>5, NextJob
  <2> HIDE DEF k
  <2>3. CASE j.by = "tui"
    <3>1. Own = {j} /\ call.got = "waiting" /\ ~Loading /\ j \in Own
      BY <2>3, OwnWaits DEF Own
    <3>2. Own' = {k}
      BY <2>1, <2>2, <2>3, <3>1 DEF Own
    <3> QED
      BY <1>2, <1>3, <2>1, <2>2, <3>1, <3>2, RequestFacts DEF RequestTypes, Loading
  <2>4. CASE j.by # "tui"
    <3>1. Own' = Own
      BY <2>1, <2>2, <2>4 DEF Own
    <3> QED
      BY <1>2, <1>3, <2>1, <3>1, RequestSame
  <2> QED
    BY <2>3, <2>4
<1> QED
  BY <1>4, <1>5

LEMMA FailTyped ==
  ASSUME TypesInv, NEW j \in jobs, Fail(j)
  PROVE  RequestTypes'
<1>1. /\ jobs' = jobs \ {j} /\ UNCHANGED <<screen, load, calm>>
      /\ call' = IF j.by = "tui" THEN [got |-> "err", on |-> j.on] ELSE call
  BY DEF Fail, Reply
<1>2. CASE j.by = "tui"
  <2>1. Own = {j} /\ ~Loading
    BY <1>2, OwnWaits
  <2>2. Own' = {}
    BY <1>1, <2>1 DEF Own
  <2>3. call' = [got |-> "err", on |-> j.on] /\ j.on \in Somewhere
    BY <1>1, <1>2, JobFacts DEF Jobs
  <2>4. call'.got = "err" /\ call' \in [got : {"", "waiting", "ok", "err"}, on : Somewhere \cup {None}]
    BY <2>3
  <2> QED
    BY <1>1, <2>1, <2>2, <2>4, RequestFacts DEF RequestTypes, Loading
<1>3. CASE j.by # "tui"
  <2>1. call' = call /\ Own' = Own
    BY <1>1, <1>3 DEF Own
  <2> QED
    BY <1>1, <2>1, RequestFacts, RequestSame
<1> QED
  BY <1>2, <1>3

LEMMA EnvironmentTyped ==
  ASSUME TypesInv, Environment
  PROVE  RequestTypes'
<1>1. screen' = screen /\ calm' = FALSE
  BY EnvironmentKinds
<1>2. CASE UNCHANGED <<jobs, call>> /\ load' \in {load, NoLoad}
  <2>1. Own' = Own
    BY <1>2 DEF Own
  <2> QED
    BY <1>1, <1>2, <2>1, LoadFacts, RequestFacts DEF RequestTypes, Loading, NoCall
<1>3. CASE Timeout /\ UNCHANGED load
  <2>1. call.got = "waiting" /\ call' = [call EXCEPT !.got = "err"]
        /\ jobs' = (jobs \ Own) \cup {[j EXCEPT !.by = "other"] : j \in Own}
    BY <1>3 DEF Timeout
  <2>2. call'.got = "err" /\ call' \in [got : {"", "waiting", "ok", "err"}, on : Somewhere \cup {None}]
    BY <2>1, RequestFacts
  <2>3. Own' = {}
    <3>1. \A j \in Own : j \in Jobs
      BY DEF Own, TypesInv, JobTypes
    <3>2. \A j \in Jobs : [j EXCEPT !.by = "other"].by = "other"
      BY DEF Jobs
    <3> QED
      BY <2>1, <3>1, <3>2 DEF Own
  <2>4. ~Loading
    BY <2>1, RequestFacts, LoadFacts
  <2> QED
    BY <1>1, <1>3, <2>2, <2>3, <2>4, RequestFacts DEF RequestTypes, Loading
<1>4. ASSUME UNCHANGED load, NEW method \in DOMAIN Script, NEW x, Request(method, x)
      PROVE  RequestTypes'
  <2>1. jobs' = jobs \cup {Job("other", method, x)} /\ call' = call
    BY <1>4 DEF Request
  <2>2. Own' = Own
    BY <2>1 DEF Own, Job
  <2> QED
    BY <1>1, <1>4, <2>1, <2>2, RequestSame
<1>5. CASE DaemonStops /\ UNCHANGED load
  <2>1. jobs' = {} /\ call' = IF call.got = "waiting" THEN [call EXCEPT !.got = "err"] ELSE call
    BY <1>5 DEF DaemonStops
  <2>2. Own' = {}
    BY <2>1 DEF Own
  <2>3. CASE call.got = "waiting"
    <3>1. call' = [call EXCEPT !.got = "err"]
      BY <2>1, <2>3
    <3>2. call'.got = "err" /\ call' \in [got : {"", "waiting", "ok", "err"}, on : Somewhere \cup {None}]
      BY <3>1, RequestFacts
    <3>3. ~Loading
      BY <2>3, RequestFacts, LoadFacts
    <3> QED
      BY <1>1, <1>5, <2>2, <3>2, <3>3, RequestFacts DEF RequestTypes, Loading
  <2>4. CASE call.got # "waiting"
    BY <1>1, <1>5, <2>1, <2>2, <2>4, RequestSame
  <2> QED
    BY <2>3, <2>4
<1> QED
  BY <1>2, <1>3, <1>4, <1>5, EnvironmentKinds

LEMMA RequestTyped ==
  ASSUME TypesInv, Next
  PROVE  RequestTypes'
<1>0. calm \in BOOLEAN
  BY RequestFacts
<1>1. CASE Looks
  <2>1. Own' = Own /\ UNCHANGED <<load, call, calm>>
    BY <1>1 DEF Looks, Own
  <2>2. screen' = screen \/ screen'.at # "form" \/ call = NoCall
    BY <1>1 DEF Looks, Free
  <2> QED
    BY <1>0, <2>1, <2>2, RequestSame
<1>2. ASSUME NEW method, NEW x, Asks(method, x) PROVE RequestTypes'
  BY <1>2, AsksTyped
<1>3. CASE Reloads
  <2>1. call' = NoCall /\ jobs' = jobs /\ calm' = TRUE /\ load' = [NoLoad EXCEPT !.step = 1] /\ Own = {}
    BY <1>3, OwnWaits DEF Reloads, Free, BeginReload
  <2>2. Own' = {}
    BY <2>1 DEF Own
  <2> QED
    BY <2>1, <2>2, ReloadsTyped
<1>4. CASE Closes
  <2>1. Own' = Own /\ UNCHANGED <<load, call, calm, screen>>
    BY <1>4 DEF Closes, Own
  <2> QED
    BY <1>0, <2>1, RequestSame
<1>5. CASE ReadTasks
  BY <1>5, ReadTyped
<1>6. CASE ShowLists
  <2>1. load.step = 4 /\ load' = NoLoad /\ UNCHANGED <<jobs, call, calm>>
    BY <1>6 DEF ShowLists, Lists
  <2>2. call = NoCall /\ Own = {}
    <3>1. load.step # 0
      BY <2>1
    <3> QED
      BY <3>1, RequestFacts, OwnWaits DEF Loading
  <2>3. Own' = {}
    BY <2>1, <2>2 DEF Own
  <2> QED
    BY <1>0, <2>1, <2>2, <2>3, ReloadsTyped
<1>7. CASE Answer
  BY <1>7, AnswerTyped
<1>8. ASSUME NEW j \in jobs, Serve(j) \/ Fail(j) PROVE RequestTypes'
  BY <1>8, ServeTyped, FailTyped
<1>9. CASE Environment
  BY <1>9, EnvironmentTyped
<1> QED
  BY <1>1, <1>2, <1>3, <1>4, <1>5, <1>6, <1>7, <1>8, <1>9, NextKinds

\* TypesInv is inductive: nothing happens, the start, and Next.
LEMMA Stuttering ==
  ASSUME TypesInv, UNCHANGED vars
  PROVE  TypesInv'
<1>1. UNCHANGED <<registry, jobs, screen, panel, known, checker, lists, load, call, calm>>
  BY DEF vars, daemon
<1>2. RegistryTypes' /\ ListTypes'
  BY <1>1, RegistrySame, ListsSame
<1>3. JobTypes'
  BY <1>1 DEF TypesInv, JobTypes, Own, JobRight
<1>4. ScreenTypes'
  BY <1>1 DEF TypesInv, ScreenTypes, Screens, Main
<1>5. RequestTypes'
  <2>1. Own' = Own
    BY <1>1 DEF Own
  <2> QED
    BY <1>1, <2>1, RequestFacts, RequestSame
<1> QED
  BY <1>2, <1>3, <1>4, <1>5 DEF TypesInv

LEMMA Starting ==
  ASSUME Init
  PROVE  TypesInv
<1>1. RegistryTypes
  <2>1. /\ status \in [Tasks -> {"absent", "active", "archived"}]
        /\ cur \in {Default} \cup {t \in Tasks : status[t] # "absent"}
    BY DEF Init, Registry!Init
  <2>2. /\ \A t \in Fresh : status[t] = "absent"
        /\ \A t \in Tasks \ Fresh : status[t] # "absent"
        /\ fresh = Fresh /\ order = SetToSeq(Tasks \ Fresh)
    BY DEF Init
  <2>3. Present = Tasks \ Fresh
    BY <2>2, ConstantFacts DEF Present
  <2> DEFINE S == Tasks \ Fresh
  <2>4. IsFiniteSet(S) /\ S \in SUBSET Tasks
    BY ConstantFacts, FS_Difference
  <2> HIDE DEF S
  <2>5. SetToSeq(S) \in Seq(S) /\ IsInjective(SetToSeq(S)) /\ ToSet(SetToSeq(S)) = S
    BY <2>4, SetListed
  <2>6. order = SetToSeq(S) /\ Present = S
    BY <2>2, <2>3 DEF S
  <2>7. order \in Seq(Tasks)
    BY <2>4, <2>5, <2>6
  <2> QED
    BY <2>1, <2>2, <2>5, <2>6, <2>7 DEF RegistryTypes
<1>2. JobTypes
  BY DEF Init, JobTypes, Own
<1>3. ScreenTypes
  BY ScreensHave DEF Init, ScreenTypes, Panels
<1>4. ListTypes
  <2>1. repos = <<>> /\ rows = [tasks |-> <<>>, archived |-> <<>>] /\ mark = [tasks |-> 0, archived |-> 0, repos |-> 0]
    BY DEF Init
  <2>2. TaskRows(<<>>) = {}
    BY DEF TaskRows
  <2> QED
    BY <2>1, <2>2 DEF ListTypes, MarkRight
<1>5. RequestTypes
  <2>1. load = [NoLoad EXCEPT !.step = 1] /\ call = NoCall /\ jobs = {} /\ screen = Main /\ calm = TRUE
    BY DEF Init
  <2>2. Own = {} /\ screen.at = "main"
    BY <2>1 DEF Own, Main
  <2> QED
    BY <2>1, <2>2, LoadFacts DEF RequestTypes
<1> QED
  BY <1>1, <1>2, <1>3, <1>4, <1>5 DEF TypesInv

\* Types hold in every reachable state.
LEMMA Typed == Spec => []TypesInv
<1>1. Init => TypesInv
  BY Starting
<1>2. TypesInv /\ [Next]_vars => TypesInv'
  BY Stuttering, RegistryTyped, JobsTyped, ScreenTyped, ListTyped, RequestTyped DEF TypesInv
<1> QED
  BY <1>1, <1>2, PTL DEF Spec

\* Whatever is pressed, answered, lost or changed by others, the screen is about a task
\* or checkout of the right kind and every highlight is on a task, or on nothing only when
\* its list has none (App::handle_key, App::reload): d, D, r and e never act on a header.
THEOREM ManagerTypeOK == Spec => []TypeOK
<1>1. ASSUME TypesInv PROVE TypeOK
  <2>1. RegistryTypes /\ ScreenTypes /\ ListTypes /\ load.step \in 0..4
    BY <1>1, RequestFacts DEF TypesInv
  <2>2. \A p \in {"tasks", "archived"} : MarkRight(rows[p], mark[p])
    BY <2>1 DEF ListTypes
  <2>3. mark.repos \in DOMAIN repos \cup {0}
    BY <2>1 DEF ListTypes
  <2> QED
    BY <2>1, <2>2, <2>3 DEF TypeOK, RegistryTypes, ScreenTypes, MarkRight, Present
<1> QED
  BY <1>1, Typed, PTL

-----------------------------------------------------------------------------
(* What the lists show. *)

LEMMA InSame ==
  ASSUME UNCHANGED <<status, order>>
  PROVE  In("active")' = In("active") /\ In("archived")' = In("archived")
BY DEF In

LEMMA MatchSame ==
  ASSUME Match, UNCHANGED <<status, dirs, rows>>
  PROVE  Match'
BY DEF Match, Placed, Once, Never, Shown, TaskRows, IsTask

\* Steps that change nothing a list is made of.
LEMMA ListsKept ==
  ASSUME ListsInv, UNCHANGED <<status, order, dirs, rows, load>>, calm' => calm,
         Open' /\ call' = NoCall => Open /\ call = NoCall
  PROVE  ListsInv'
BY InSame, MatchSame DEF ListsInv, Loading

\* A reload that has read nothing yet.
LEMMA ListsBegin ==
  ASSUME load' = [NoLoad EXCEPT !.step = 1]
  PROVE  ListsInv'
<1>1. load'.step = 1
  BY LoadFacts
<1> QED
  BY <1>1 DEF ListsInv, Loading

\* What a reload has read, nothing having changed since, is what there is.
LEMMA ListsRead ==
  ASSUME TypesInv, ListsInv, ReadTasks
  PROVE  ListsInv'
<1> DEFINE a == In("active")
           b == In("archived")
<1>1. /\ load.step \in 1..3 /\ UNCHANGED <<status, order, calm>>
      /\ load' = CASE load.step = 1 -> [load EXCEPT !.step = 2, !.cur = cur]
                   [] load.step = 2 -> [load EXCEPT !.step = 3, !.active = a]
                   [] OTHER -> [load EXCEPT !.step = 4, !.archived = b]
  BY DEF ReadTasks, Lists, registry
<1>2. a' = a /\ b' = b
  BY <1>1, InSame
<1>3. /\ load \in [step : 0..4, cur : Tasks \cup {Default}, active : Seq(Tasks), archived : Seq(Tasks)]
      /\ cur \in Tasks \cup {Default} /\ a \in Seq(Tasks) /\ b \in Seq(Tasks)
  BY RequestFacts, InFacts DEF TypesInv, RegistryTypes
<1>4. calm => (load.step = 3 => load.active = a)
  BY DEF ListsInv
<1> HIDE DEF a, b
<1>5. CASE load.step = 1
  <2>1. load' = [load EXCEPT !.step = 2, !.cur = cur]
    BY <1>1, <1>5
  <2>2. load'.step = 2
    BY <1>3, <2>1
  <2> QED
    BY <2>2 DEF ListsInv, Loading
<1>6. CASE load.step = 2
  <2>1. load' = [load EXCEPT !.step = 3, !.active = a]
    BY <1>1, <1>6
  <2>2. load'.step = 3
    BY <1>3, <2>1
  <2>3. load'.active = a
    BY <1>3, <2>1, ReadSteps
  <2> QED
    BY <1>2, <2>2, <2>3 DEF ListsInv, Loading, a
<1>7. CASE load.step = 3
  <2>1. load' = [load EXCEPT !.step = 4, !.archived = b]
    BY <1>1, <1>7
  <2>2. load'.step = 4
    BY <1>3, <2>1
  <2>3. load'.active = load.active /\ load'.archived = b
    BY <1>3, <2>1, ReadSteps
  <2> QED
    BY <1>1, <1>2, <1>4, <1>7, <2>2, <2>3 DEF ListsInv, Loading, a, b
<1> QED
  BY <1>1, <1>5, <1>6, <1>7

\* The lists of a reload during which nothing changed are complete.
LEMMA ListsShown ==
  ASSUME TypesInv, ListsInv, ShowLists
  PROVE  ListsInv'
<1> DEFINE rs == LoadRepos(load.active \o load.archived)
           new == Listing(rs, load.active, load.archived)
<1>1. /\ load.step = 4 /\ load' = NoLoad /\ UNCHANGED <<status, order, dirs, calm>> /\ rows' = new
  BY DEF ShowLists, Lists, registry, disk
<1>2. load'.step = 0
  BY <1>1, LoadFacts
<1>3. ASSUME calm PROVE Match'
  <2>1. load.active = In("active") /\ load.archived = In("archived")
    BY <1>1, <1>3 DEF ListsInv
  <2>2. /\ load.active \in Seq(Tasks) /\ IsInjective(load.active)
        /\ load.archived \in Seq(Tasks) /\ IsInjective(load.archived)
        /\ ToSet(load.active) = {t \in Tasks : status[t] = "active"}
        /\ ToSet(load.archived) = {t \in Tasks : status[t] = "archived"}
    BY <2>1, InFacts
  <2>3. ToSet(load.active \o load.archived) = ToSet(load.active) \cup ToSet(load.archived)
    <3> DEFINE s == load.active
               u == load.archived
    <3>1. /\ s \o u \in Seq(Tasks) /\ Len(s \o u) = Len(s) + Len(u)
          /\ \A i \in 1..Len(s) : (s \o u)[i] = s[i]
          /\ \A i \in 1..Len(u) : (s \o u)[Len(s) + i] = u[i]
          /\ DOMAIN s = 1..Len(s) /\ DOMAIN u = 1..Len(u) /\ DOMAIN (s \o u) = 1..Len(s \o u)
          /\ Len(s) \in Nat /\ Len(u) \in Nat
      <4>1. s \in Seq(Tasks) /\ u \in Seq(Tasks)
        BY <2>2
      <4> HIDE DEF s, u
      <4> QED
        BY <4>1, LenProperties, ConcatProperties
    <3> HIDE DEF s, u
    <3>2. ASSUME NEW i \in DOMAIN (s \o u) PROVE (s \o u)[i] \in ToSet(s) \cup ToSet(u)
      <4>1. CASE i \in 1..Len(s)
        BY <3>1, <4>1 DEF ToSet
      <4>2. CASE i \notin 1..Len(s)
        <5>1. i - Len(s) \in 1..Len(u) /\ i = Len(s) + (i - Len(s))
          BY <3>1, <4>2
        <5> QED
          BY <3>1, <5>1 DEF ToSet
      <4> QED
        BY <4>1, <4>2
    <3>3. \A i \in DOMAIN s : s[i] \in ToSet(s \o u)
      BY <3>1 DEF ToSet
    <3>4. \A i \in DOMAIN u : u[i] \in ToSet(s \o u)
      BY <3>1 DEF ToSet
    <3>5. ToSet(s \o u) = ToSet(s) \cup ToSet(u)
      BY <3>2, <3>3, <3>4 DEF ToSet
    <3> QED
      BY <3>5 DEF s, u
  <2>4. /\ rs \in Seq(Repos) /\ IsInjective(rs)
        /\ ToSet(rs) = Repos \cap (registered \cup {Source[t] : t \in ToSet(load.active \o load.archived)}) \cap dirs
    BY ReposLoaded
  <2> HIDE DEF rs
  <2>5. SUFFICES ASSUME NEW t \in Tasks
                 PROVE  /\ Placed(new.tasks, t, "active") /\ Placed(new.archived, t, "archived")
    BY <1>1 DEF Match, Placed, Once, Never, Shown, TaskRows, IsTask
  <2>6. Source[t] \in RepoChoices /\ t # Default
    BY ConstantFacts
  <2>7. t \in ToSet(load.active) \cup ToSet(load.archived) =>
           (Source[t] \in ToSet(rs) \cup {Scratch} <=> Source[t] \in dirs \cup {Scratch})
    BY <2>3, <2>4, <2>6 DEF RepoChoices
  <2>8. LET there == Source[t] \in ToSet(rs) \cup {Scratch}
        IN  /\ IF t \in ToSet(load.active) /\ there THEN Once(new.tasks, t) ELSE Never(new.tasks, t)
            /\ IF t \in ToSet(load.archived) /\ there THEN Once(new.archived, t) ELSE Never(new.archived, t)
    BY <2>2, <2>4, <2>6, ListingShows
  <2> HIDE DEF new
  <2> QED
    BY <2>2, <2>7, <2>8 DEF Placed
<1> QED
  BY <1>1, <1>2, <1>3 DEF ListsInv

\* An answer leads to a reload, to the end of the program, to the setup of a task whose
\* lists are known to be old, or to an error that may have changed anything.
LEMMA ListsAnswered ==
  ASSUME TypesInv, ListsInv, Answer
  PROVE  ListsInv'
<1>1. /\ call.got \in {"ok", "err"} /\ UNCHANGED <<status, order, dirs, rows>>
  BY DEF Answer, Lists, Still, registry, disk, lists
<1>2. CASE call.got # "ok"
  <2>1. calm' = FALSE
    BY <1>2 DEF Answer, Changed
  <2> QED
    BY <2>1 DEF ListsInv
<1>3. CASE call.got = "ok" /\ screen.at \in {"archive", "delete", "rename"}
  <2>1. load' = [NoLoad EXCEPT !.step = 1]
    BY <1>3 DEF Answer, Accepted, BeginReload
  <2> QED
    BY <2>1, ListsBegin
<1>4. CASE call.got = "ok" /\ screen.at = "form" /\ screen.sub = "container"
  <2>1. calm' = calm
    BY <1>4 DEF Answer, Accepted
  <2> QED
    BY <1>4, <2>1, DoneForm DEF ListsInv
<1>5. CASE /\ call.got = "ok" /\ screen.at \notin {"archive", "delete", "rename"}
           /\ ~(screen.at = "form" /\ screen.sub = "container")
  <2>1. window' = "closed" /\ UNCHANGED <<load, calm>>
    BY <1>5 DEF Answer, Accepted, Quit
  <2> QED
    BY <1>1, <2>1, ListsKept DEF Open
<1> QED
  BY <1>2, <1>3, <1>4, <1>5

\* While the daemon works on a request of the task manager, its lists are not looked at.
LEMMA ListsServed ==
  ASSUME TypesInv, ListsInv, NEW j \in jobs, Serve(j)
  PROVE  ListsInv'
<1>1. calm' = (calm /\ j.by = "tui" /\ j.method # "defer") /\ load' = load
  BY DEF Serve
<1>2. CASE calm'
  <2>1. j.by = "tui"
    BY <1>1, <1>2
  <2>2. call.got = "waiting" /\ ~Loading
    BY <2>1, OwnWaits
  <2>3. call' = call \/ \E t : call' = [got |-> "ok", on |-> t]
    BY <2>1 DEF Serve, Reply
  <2>4. call'.got # ""
    <3>1. \A t : [got |-> "ok", on |-> t].got = "ok"
      OBVIOUS
    <3> QED
      BY <2>2, <2>3, <3>1
  <2>5. call' # NoCall
    BY <2>4, LoadFacts
  <2>6. load'.step = 0
    BY <1>1, <2>2 DEF Loading
  <2> QED
    BY <2>5, <2>6 DEF ListsInv
<1> QED
  BY <1>2 DEF ListsInv

LEMMA ListsStep ==
  ASSUME TypesInv, ListsInv, Next
  PROVE  ListsInv'
<1>1. CASE Looks
  BY <1>1, ListsKept DEF Looks, Open, registry, disk
<1>2. ASSUME NEW method, NEW x, Asks(method, x) PROVE ListsInv'
  <2>1. /\ call' = [got |-> IF up THEN "waiting" ELSE "err", on |-> x]
        /\ UNCHANGED <<status, order, dirs, rows, load, window, calm>>
    BY <1>2 DEF Asks, Send, registry, disk, lists
  <2>2. call'.got # ""
    BY <2>1
  <2>3. call' # NoCall
    BY <2>2, LoadFacts
  <2> QED
    BY <2>1, <2>3, ListsKept
<1>3. CASE Reloads
  BY <1>3, ListsBegin DEF Reloads, BeginReload
<1>4. CASE Closes
  BY <1>4, ListsKept DEF Closes, Open, registry, disk, lists
<1>5. CASE ReadTasks \/ ShowLists \/ Answer
  BY <1>5, ListsRead, ListsShown, ListsAnswered
<1>6. ASSUME NEW j \in jobs, Serve(j) PROVE ListsInv'
  BY <1>6, ListsServed
<1>7. ASSUME NEW j \in jobs, Fail(j) PROVE ListsInv'
  <2>1. /\ call' = call \/ call' = [got |-> "err", on |-> j.on]
        /\ UNCHANGED <<status, order, dirs, rows, load, window, calm>>
    BY <1>7 DEF Fail, Reply, registry, disk, lists
  <2>2. call' = call \/ call'.got # ""
    <3>1. [got |-> "err", on |-> j.on].got = "err"
      OBVIOUS
    <3> QED
      BY <2>1, <3>1
  <2>3. call' = NoCall => call = NoCall
    BY <2>2, LoadFacts
  <2> QED
    BY <2>1, <2>3, ListsKept DEF Open
<1>8. CASE Environment
  BY <1>8, EnvironmentKinds DEF ListsInv
<1> QED
  BY <1>1, <1>2, <1>3, <1>4, <1>5, <1>6, <1>7, <1>8, NextKinds

\* After a reload (App::reload) during and since which nothing changed that it could not
\* see, the lists have every task whose checkout is there once, under its status, and no
\* other task, whatever requests, failures, late answers and reloads came before.
THEOREM ListsComplete == Spec => []ListsShowRegistry
<1>1. Init => ListsInv
  <2>1. Init => load = [NoLoad EXCEPT !.step = 1]
    BY DEF Init
  <2>2. Init => load.step = 1
    BY <2>1, LoadFacts
  <2> QED
    BY <2>2 DEF ListsInv, Loading
<1>2. TypesInv /\ ListsInv /\ [Next]_vars => ListsInv'
  <2>1. ASSUME ListsInv, UNCHANGED vars PROVE ListsInv'
    BY <2>1, ListsKept DEF vars, Open, registry, disk, lists
  <2> QED
    BY <2>1, ListsStep
<1>3. TypesInv /\ ListsInv => ListsShowRegistry
  <2>1. SUFFICES ASSUME TypesInv, ListsInv, Free, calm PROVE ListsShowRegistry
    BY DEF ListsShowRegistry
  <2>2. Match
    BY <2>1 DEF ListsInv, Free
  <2> QED
    BY <2>2 DEF ListsShowRegistry, Match, Placed, Once, Never, Shown
<1> QED
  BY <1>1, <1>2, <1>3, Typed, PTL DEF Spec

-----------------------------------------------------------------------------
(* What a reload does to the highlight. *)

\* Only a reload replaces the lists.
LEMMA ListsChange ==
  ASSUME TypesInv, Next, rows' # rows
  PROVE  ShowLists
<1>1. CASE Looks \/ (\E method, x : Asks(method, x)) \/ Reloads \/ Closes
  BY <1>1 DEF Looks, Asks, Send, Reloads, Closes, lists
<1>2. CASE ReadTasks \/ Answer
  BY <1>2 DEF ReadTasks, Answer, Still, lists
<1>3. ASSUME NEW j \in jobs, Serve(j) \/ Fail(j) PROVE rows' = rows
  BY <1>3 DEF Serve, Fail, lists
<1>4. CASE Environment
  BY <1>4, EnvironmentKinds DEF lists
<1> QED
  BY <1>1, <1>2, <1>3, <1>4, NextKinds

\* It finds the highlighted task again.
LEMMA Kept ==
  ASSUME TypesInv, ShowLists, NEW p \in {"tasks", "archived"},
         Marked(p) \in Tasks, Where(rows'[p], Marked(p)) # 0
  PROVE  Marked(p)' = Marked(p)
<1> DEFINE t == Marked(p)
           current == IF p = "tasks" THEN <<load.cur>> ELSE <<>>
<1>1. mark'[p] = Keep(p, rows'[p], current)
  BY DEF ShowLists
<1>2. Keep(p, rows'[p], current) = Mark(rows'[p], <<t>> \o current)
  BY DEF Keep
<1>3. rows'[p] \in Seq(RowSet)
  BY ListsLoaded DEF ListTypes
<1>4. current \in Seq(Tasks \cup {Default})
  <2>1. load.cur \in Tasks \cup {Default}
    BY RequestFacts
  <2>2. <<load.cur>> \in Seq(Tasks \cup {Default}) /\ <<>> \in Seq(Tasks \cup {Default})
    BY <2>1
  <2> QED
    BY <2>2
<1> HIDE DEF current
<1>5. Marked(p)' = TaskAt(rows'[p], mark'[p])
  BY DEF Marked
<1> HIDE DEF t
<1>6. t \in Tasks \cup {Default} /\ Where(rows'[p], t) # 0
  BY DEF t
<1>7. TaskAt(rows'[p], Mark(rows'[p], <<t>> \o current)) = t
  BY <1>3, <1>4, <1>6, MarkStays
<1> QED
  BY <1>1, <1>2, <1>5, <1>7 DEF t

\* A reload (App::reload, ensure_selection_on_task_in) leaves the highlight on the task it
\* was on wherever that task has moved to, as long as it is listed.
THEOREM HighlightStays == Spec => SelectionStays
<1>1. TypesInv /\ [Next]_vars =>
         [load # NoLoad /\ load' = NoLoad /\ rows' # rows =>
            \A p \in {"tasks", "archived"} :
               Marked(p) \in Tasks /\ Where(rows'[p], Marked(p)) # 0 => Marked(p)' = Marked(p)]_vars
  BY ListsChange, Kept
<1> QED
  BY <1>1, Typed, PTL DEF Spec, SelectionStays
=============================================================================
