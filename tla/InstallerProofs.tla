--------------------------- MODULE InstallerProofs --------------------------
(***************************************************************************)
(* Proofs about Installer, for any number of terminals, commands and faults *)
(* and every kind of desktop.  What a command still has to do is a sequence *)
(* of steps that only gets shorter, in one order (Rank), so that invariants *)
(* speak of the set of steps that are left (Ahead).                         *)
(***************************************************************************)
EXTENDS Installer, TLAPS

\* The order in which commands take their steps: uninstalls beside installs. An uninstall
\* that puts prod's line back reads and strips hyprland.conf a second time.
Rank == [stopDev |-> 0, detect |-> 1, main |-> 2,
    schema |-> 4, share |-> 5, openers |-> 6, editor |-> 7,
    prodBar |-> 3, seed |-> 4, restoreBar |-> 5, unpatchBar |-> 6, dropBar |-> 7, patchProd |-> 4, dropDevBar |-> 5,
    loadHypr |-> 8, restore |-> 9, dropHypr |-> 10, backup |-> 10, readDev |-> 11, stripDev |-> 12,
    stripProdBlock |-> 12, block |-> 13, readProd |-> 13, stripProd |-> 14, append |-> 15, gestures |-> 16,
    hyprManifest |-> 17,
    stripDevBlock |-> 13, disable |-> 14, unpatchMenu |-> 15, ensureProd |-> 16, addProd |-> 17, removeShare |-> 18,
    barBackup |-> 18, pristine |-> 19, patchBar |-> 20, barManifest |-> 21, elephant |-> 22, walkerManifest |-> 23,
    shell |-> 18, tui |-> 18, enable |-> 19, patchMenu |-> 20, systemd |-> 21,
    extension |-> 22, externalJson |-> 23, hostJson |-> 24, helperManifest |-> 25,
    exit |-> 26, unmark |-> 27, startProd |-> 28, done |-> 29,
    mark |-> 27, serve |-> 28, wait |-> 29, stopProd |-> 0]
Steps == DOMAIN Rank

\* The steps of installs and sessions, and those of uninstalls and teardowns.
Both == {"main", "readDev", "stripDev", "exit"}
Doing == Both \cup {"schema", "share", "openers", "editor", "backup", "stripProdBlock", "block", "readProd",
    "stripProd", "append", "gestures", "hyprManifest", "barBackup", "pristine", "patchBar", "barManifest",
    "elephant", "walkerManifest", "shell", "tui", "enable", "patchMenu", "systemd", "extension",
    "externalJson", "hostJson", "helperManifest", "mark", "serve", "wait", "stopProd"}
Undoing == Both \cup {"stopDev", "detect", "prodBar", "seed", "restoreBar", "unpatchBar", "dropBar", "patchProd",
    "dropDevBar", "loadHypr", "restore", "dropHypr", "stripDevBlock", "disable", "unpatchMenu", "ensureProd", "addProd",
    "removeShare", "unmark", "startProd", "done"}

\* The steps that are left.
Ahead(s) == {s[i] : i \in DOMAIN s}
\* One step is taken before another; entering a session stops prod twice, before and after it installs.
Earlier(x, y) == x = "stopProd" \/ (y = "stopProd" /\ Rank[x] <= 26) \/ Rank[x] < Rank[y]
Sorted(s) == \A i, j \in DOMAIN s : i < j => Earlier(s[i], s[j])

-----------------------------------------------------------------------------
(* Sequences of steps. *)

LEMMA StepNumbers == \A x \in Steps : Rank[x] \in Nat
BY SMT DEF Steps, Rank

LEMMA StepKinds == Doing \subseteq Steps /\ Undoing \subseteq Steps
BY SMT DEF Doing, Undoing, Both, Steps, Rank


LEMMA AheadCat ==
  ASSUME NEW S, NEW s \in Seq(S), NEW r \in Seq(S)
  PROVE  /\ s \o r \in Seq(S)
         /\ Ahead(s \o r) = Ahead(s) \cup Ahead(r)
<1>1. ASSUME NEW i \in DOMAIN s PROVE i \in DOMAIN (s \o r) /\ (s \o r)[i] = s[i]
  OBVIOUS
<1>2. ASSUME NEW i \in DOMAIN r PROVE i + Len(s) \in DOMAIN (s \o r) /\ (s \o r)[i + Len(s)] = r[i]
  OBVIOUS
<1>3. ASSUME NEW i \in DOMAIN (s \o r) PROVE (s \o r)[i] \in Ahead(s) \cup Ahead(r)
  <2>1. CASE i <= Len(s)
    BY <2>1 DEF Ahead
  <2>2. CASE ~(i <= Len(s))
    <3>1. i - Len(s) \in DOMAIN r /\ (s \o r)[i] = r[i - Len(s)]
      BY <2>2
    <3> QED
      BY <3>1 DEF Ahead
  <2> QED
    BY <2>1, <2>2
<1>4. ASSUME NEW x \in Ahead(s) PROVE x \in Ahead(s \o r)
  BY <1>1 DEF Ahead
<1>5. ASSUME NEW x \in Ahead(r) PROVE x \in Ahead(s \o r)
  <2>1. PICK i \in DOMAIN r : x = r[i]
    BY DEF Ahead
  <2> QED
    BY <1>2, <2>1 DEF Ahead
<1>6. ASSUME NEW x \in Ahead(s \o r) PROVE x \in Ahead(s) \cup Ahead(r)
  BY <1>3 DEF Ahead
<1> QED
  BY <1>4, <1>5, <1>6

LEMMA SortedCat ==
  ASSUME NEW s \in Seq(Steps), NEW r \in Seq(Steps), Sorted(s), Sorted(r),
         \A x \in Ahead(s), y \in Ahead(r) : Earlier(x, y)
  PROVE  Sorted(s \o r)
<1> SUFFICES ASSUME NEW i \in DOMAIN (s \o r), NEW j \in DOMAIN (s \o r), i < j
             PROVE  Earlier((s \o r)[i], (s \o r)[j])
  BY DEF Sorted
<1>1. CASE j <= Len(s)
  BY <1>1 DEF Sorted
<1>2. CASE i <= Len(s) /\ ~(j <= Len(s))
  <2>1. i \in DOMAIN s /\ (s \o r)[i] = s[i] /\ j - Len(s) \in DOMAIN r /\ (s \o r)[j] = r[j - Len(s)]
    BY <1>2
  <2> QED
    BY <2>1 DEF Ahead
<1>3. CASE ~(i <= Len(s))
  <2>1. /\ i - Len(s) \in DOMAIN r /\ (s \o r)[i] = r[i - Len(s)]
        /\ j - Len(s) \in DOMAIN r /\ (s \o r)[j] = r[j - Len(s)]
        /\ i - Len(s) < j - Len(s)
    BY <1>3
  <2> QED
    BY <2>1 DEF Sorted
<1> QED
  BY <1>1, <1>2, <1>3

\* The end of a sequence, from its n-th step on.
LEMMA Ending ==
  ASSUME NEW s \in Seq(Steps), Sorted(s), NEW n \in DOMAIN s
  PROVE  LET e == SubSeq(s, n, Len(s)) IN
         /\ e \in Seq(Steps) /\ e # <<>> /\ Head(e) = s[n] /\ Sorted(e)
         /\ Ahead(e) = {s[i] : i \in {k \in DOMAIN s : n <= k}}
<1> DEFINE e == SubSeq(s, n, Len(s))
<1>1. /\ e \in Seq(Steps) /\ Len(e) = Len(s) - n + 1
      /\ \A i \in DOMAIN e : e[i] = s[i + n - 1] /\ i + n - 1 \in DOMAIN s
  OBVIOUS
<1>2. e # <<>> /\ Head(e) = s[n]
  BY <1>1
<1>3. Sorted(e)
  <2> SUFFICES ASSUME NEW i \in DOMAIN e, NEW j \in DOMAIN e, i < j
               PROVE  Earlier(e[i], e[j])
    BY DEF Sorted
  <2>1. i + n - 1 < j + n - 1
    BY <1>1
  <2> QED
    BY <1>1, <2>1 DEF Sorted
<1>4. ASSUME NEW k \in DOMAIN s, n <= k PROVE s[k] \in Ahead(e)
  <2>1. k - n + 1 \in DOMAIN e /\ e[k - n + 1] = s[k]
    BY <1>1, <1>4
  <2> QED
    BY <2>1 DEF Ahead
<1>5. ASSUME NEW x \in Ahead(e) PROVE \E k \in DOMAIN s : n <= k /\ x = s[k]
  <2>1. PICK i \in DOMAIN e : x = e[i]
    BY DEF Ahead
  <2>2. n <= i + n - 1
    BY <1>1
  <2> QED
    BY <1>1, <2>1, <2>2
<1>6. Ahead(e) = {s[i] : i \in {k \in DOMAIN s : n <= k}}
  BY <1>4, <1>5
<1> HIDE DEF e
<1> QED
  BY <1>1, <1>2, <1>3, <1>6 DEF e

LEMMA Rest ==
  ASSUME NEW s \in Seq(Steps), s # <<>>, Sorted(s)
  PROVE  /\ Tail(s) \in Seq(Steps) /\ Sorted(Tail(s)) /\ Head(s) \in Steps
         /\ Ahead(s) = Ahead(Tail(s)) \cup {Head(s)}
         /\ \A x \in Ahead(Tail(s)) : Earlier(Head(s), x)
<1>1. /\ Tail(s) \in Seq(Steps) /\ Len(Tail(s)) = Len(s) - 1
      /\ \A i \in DOMAIN Tail(s) : Tail(s)[i] = s[i + 1] /\ i + 1 \in DOMAIN s
  OBVIOUS
<1>2. 1 \in DOMAIN s /\ Head(s) = s[1]
  OBVIOUS
<1>3. Sorted(Tail(s))
  <2> SUFFICES ASSUME NEW i \in DOMAIN Tail(s), NEW j \in DOMAIN Tail(s), i < j
               PROVE  Earlier(Tail(s)[i], Tail(s)[j])
    BY DEF Sorted
  <2>1. i + 1 < j + 1
    BY <1>1
  <2> QED
    BY <1>1, <2>1 DEF Sorted
<1>4. ASSUME NEW x \in Ahead(Tail(s)) PROVE x \in Ahead(s) /\ Earlier(Head(s), x)
  <2>1. PICK i \in DOMAIN Tail(s) : x = Tail(s)[i]
    BY DEF Ahead
  <2>2. x = s[i + 1] /\ i + 1 \in DOMAIN s /\ 1 < i + 1
    BY <1>1, <2>1
  <2> QED
    BY <1>2, <2>2 DEF Ahead, Sorted
<1>5. ASSUME NEW x \in Ahead(s), x # Head(s) PROVE x \in Ahead(Tail(s))
  <2>1. PICK i \in DOMAIN s : x = s[i]
    BY DEF Ahead
  <2>2. i - 1 \in DOMAIN Tail(s) /\ Tail(s)[i - 1] = s[i]
    BY <1>1, <1>2, <1>5, <2>1
  <2> QED
    BY <2>1, <2>2 DEF Ahead
<1>6. Head(s) \in Ahead(s)
  BY <1>2 DEF Ahead
<1> QED
  BY <1>1, <1>2, <1>3, <1>4, <1>5, <1>6

\* From a step that is left, once: everything later stays.
LEMMA FromStep ==
  ASSUME NEW s \in Seq(Steps), Sorted(s), NEW x \in Ahead(s), x # "stopProd"
  PROVE  /\ From(s, x) \in Seq(Steps) /\ From(s, x) # <<>> /\ Head(From(s, x)) = x /\ Sorted(From(s, x))
         /\ Ahead(From(s, x)) \subseteq Ahead(s)
         /\ \A y \in Ahead(s) \ Ahead(From(s, x)) : Earlier(y, x)
<1> DEFINE First(j) == s[j] = x /\ \A k \in 1..(j - 1) : s[k] # x
           n == CHOOSE j \in DOMAIN s : First(j)
<1>1. PICK i \in DOMAIN s : s[i] = x
  BY DEF Ahead
<1>2. \A k \in 1..(i - 1) : s[k] # x
  <2> SUFFICES ASSUME NEW k \in 1..(i - 1), s[k] = x PROVE FALSE
    OBVIOUS
  <2>1. k \in DOMAIN s /\ k < i
    BY <1>1
  <2>2. Earlier(x, x)
    BY <1>1, <2>1 DEF Sorted
  <2>3. Rank[x] \in Nat
    BY <1>1, StepNumbers
  <2> QED
    BY <2>2, <2>3 DEF Earlier
<1>3. n \in DOMAIN s /\ First(n)
  BY <1>1, <1>2
<1>4. From(s, x) = SubSeq(s, n, Len(s))
  BY DEF From
<1> HIDE DEF n
<1>5. /\ From(s, x) \in Seq(Steps) /\ From(s, x) # <<>> /\ Head(From(s, x)) = x /\ Sorted(From(s, x))
      /\ Ahead(From(s, x)) = {s[k] : k \in {m \in DOMAIN s : n <= m}}
  BY <1>3, <1>4, Ending
<1>6. Ahead(From(s, x)) \subseteq Ahead(s)
  BY <1>5 DEF Ahead
<1>7. ASSUME NEW y \in Ahead(s), y \notin Ahead(From(s, x)) PROVE Earlier(y, x)
  <2>1. PICK k \in DOMAIN s : y = s[k]
    BY DEF Ahead
  <2>2. k < n
    BY <1>3, <1>5, <1>7, <2>1
  <2> QED
    BY <1>3, <2>1, <2>2 DEF Sorted
<1> QED
  BY <1>5, <1>6, <1>7

-----------------------------------------------------------------------------
(* The commands: their steps, in the order of Rank. *)

Within(s, lo, hi) ==
    s \in Seq(Steps) /\ Sorted(s) /\ \A x \in Ahead(s) : x = "stopProd" \/ (lo <= Rank[x] /\ Rank[x] <= hi)

LEMMA WithinCat ==
  ASSUME NEW s, NEW r, NEW a \in Nat, NEW b \in Nat, NEW c \in Nat, NEW d \in Nat,
         Within(s, a, b), Within(r, c, d), b < c, a <= c, b <= d, b <= 26
  PROVE  Within(s \o r, a, d) /\ Ahead(s \o r) = Ahead(s) \cup Ahead(r)
<1>1. /\ s \in Seq(Steps) /\ Sorted(s) /\ r \in Seq(Steps) /\ Sorted(r)
  BY DEF Within
<1>2. s \o r \in Seq(Steps) /\ Ahead(s \o r) = Ahead(s) \cup Ahead(r)
  BY <1>1, AheadCat
<1>3. Ahead(s) \subseteq Steps /\ Ahead(r) \subseteq Steps
  BY <1>1 DEF Ahead
<1>4. \A x \in Ahead(s), y \in Ahead(r) : Earlier(x, y)
  BY <1>3, StepNumbers DEF Within, Earlier
<1>5. Sorted(s \o r)
  BY <1>1, <1>4, SortedCat
<1>6. ASSUME NEW x \in Ahead(s \o r) PROVE x = "stopProd" \/ (a <= Rank[x] /\ Rank[x] <= d)
  BY <1>2, <1>3, StepNumbers DEF Within
<1> QED
  BY <1>2, <1>5, <1>6 DEF Within

LEMMA Ranks ==
  /\ Rank["stopDev"] = 0 /\ Rank["detect"] = 1 /\ Rank["main"] = 2 /\ Rank["schema"] = 4
  /\ Rank["share"] = 5 /\ Rank["openers"] = 6 /\ Rank["editor"] = 7 /\ Rank["prodBar"] = 3
  /\ Rank["seed"] = 4 /\ Rank["restoreBar"] = 5 /\ Rank["unpatchBar"] = 6
  /\ Rank["dropBar"] = 7 /\ Rank["patchProd"] = 4 /\ Rank["dropDevBar"] = 5 /\ Rank["loadHypr"] = 8
  /\ Rank["restore"] = 9 /\ Rank["dropHypr"] = 10 /\ Rank["backup"] = 10
  /\ Rank["readDev"] = 11 /\ Rank["stripDev"] = 12 /\ Rank["stripProdBlock"] = 12
  /\ Rank["block"] = 13 /\ Rank["readProd"] = 13 /\ Rank["stripProd"] = 14
  /\ Rank["append"] = 15 /\ Rank["gestures"] = 16 /\ Rank["hyprManifest"] = 17
  /\ Rank["stripDevBlock"] = 13 /\ Rank["disable"] = 14 /\ Rank["unpatchMenu"] = 15
  /\ Rank["ensureProd"] = 16 /\ Rank["addProd"] = 17 /\ Rank["removeShare"] = 18
  /\ Rank["barBackup"] = 18 /\ Rank["pristine"] = 19 /\ Rank["patchBar"] = 20
  /\ Rank["barManifest"] = 21 /\ Rank["elephant"] = 22 /\ Rank["walkerManifest"] = 23
  /\ Rank["shell"] = 18 /\ Rank["tui"] = 18 /\ Rank["enable"] = 19 /\ Rank["patchMenu"] = 20
  /\ Rank["systemd"] = 21 /\ Rank["extension"] = 22 /\ Rank["externalJson"] = 23
  /\ Rank["hostJson"] = 24 /\ Rank["helperManifest"] = 25 /\ Rank["exit"] = 26
  /\ Rank["unmark"] = 27 /\ Rank["startProd"] = 28 /\ Rank["done"] = 29 /\ Rank["mark"] = 27
  /\ Rank["serve"] = 28 /\ Rank["wait"] = 29 /\ Rank["stopProd"] = 0
BY SMT DEF Rank

LEMMA Wider ==
  ASSUME NEW s, NEW a \in Nat, NEW b \in Nat, NEW c \in Nat, NEW d \in Nat, Within(s, a, b), c <= a, b <= d
  PROVE  Within(s, c, d)
BY StepNumbers DEF Within, Ahead

LEMMA Nothing ==
  ASSUME NEW a, NEW b
  PROVE  Within(<<>>, a, b) /\ Ahead(<<>>) = {}
BY DEF Within, Sorted, Ahead

LEMMA OneStep ==
  ASSUME NEW x \in Steps
  PROVE  Within(<<x>>, Rank[x], Rank[x]) /\ Ahead(<<x>>) = {x}
<1>1. <<x>> \in Seq(Steps) /\ Ahead(<<x>>) = {x}
  BY DEF Ahead
<1>2. Sorted(<<x>>)
  BY DEF Sorted
<1> QED
  BY <1>1, <1>2, StepNumbers DEF Within

LEMMA BinsSteps ==
  Within(InstallBins, 4, 7) /\ Ahead(InstallBins) = {"schema", "share", "openers", "editor"}
<1>1. InstallBins \in Seq(Steps) /\ Ahead(InstallBins) = {"schema", "share", "openers", "editor"}
  BY DEF InstallBins, Ahead, Steps, Rank
<1>2. Sorted(InstallBins)
  BY DEF InstallBins, Sorted, Earlier, Rank
<1> QED
  BY <1>1, <1>2 DEF Within, Rank

\* Steps written out.
LEMMA TwoSteps ==
  ASSUME NEW x \in Steps, NEW y \in Steps, Rank[x] < Rank[y]
  PROVE  Within(<<x, y>>, Rank[x], Rank[y]) /\ Ahead(<<x, y>>) = {x, y}
<1>1. <<x, y>> \in Seq(Steps) /\ Ahead(<<x, y>>) = {x, y}
  BY DEF Ahead
<1>2. Sorted(<<x, y>>)
  BY DEF Sorted, Earlier
<1> QED
  BY <1>1, <1>2, StepNumbers DEF Within

LEMMA ThreeSteps ==
  ASSUME NEW x \in Steps, NEW y \in Steps, NEW z \in Steps, Rank[x] < Rank[y], Rank[y] < Rank[z]
  PROVE  Within(<<x, y, z>>, Rank[x], Rank[z]) /\ Ahead(<<x, y, z>>) = {x, y, z}
<1>1. <<x, y, z>> \in Seq(Steps) /\ Ahead(<<x, y, z>>) = {x, y, z}
  BY DEF Ahead
<1>2. Rank[x] < Rank[z]
  BY StepNumbers
<1>3. Sorted(<<x, y, z>>)
  BY <1>2 DEF Sorted, Earlier
<1> QED
  BY <1>1, <1>2, <1>3, StepNumbers DEF Within

LEMMA FourSteps ==
  ASSUME NEW x \in Steps, NEW y \in Steps, NEW z \in Steps, NEW w \in Steps,
         Rank[x] < Rank[y], Rank[y] < Rank[z], Rank[z] < Rank[w]
  PROVE  Within(<<x, y, z, w>>, Rank[x], Rank[w]) /\ Ahead(<<x, y, z, w>>) = {x, y, z, w}
<1>1. <<x, y, z, w>> \in Seq(Steps) /\ Ahead(<<x, y, z, w>>) = {x, y, z, w}
  BY DEF Ahead
<1>2. Rank[x] < Rank[z] /\ Rank[x] < Rank[w] /\ Rank[y] < Rank[w]
  BY StepNumbers
<1>3. Sorted(<<x, y, z, w>>)
  BY <1>2 DEF Sorted, Earlier
<1> QED
  BY <1>1, <1>2, <1>3, StepNumbers DEF Within

LEMMA HyprSteps ==
  ASSUME NEW p \in Profiles
  PROVE  /\ Within(InstallHypr(p), 10, 17)
         /\ p = "Prod" => Ahead(InstallHypr(p)) = {"backup", "hyprManifest"} \cup
                (IF desk.kind = "lua" THEN {"block"} ELSE {"readProd", "stripProd", "append", "gestures"})
         /\ Ahead(InstallHypr(p)) \subseteq {"backup", "stripProdBlock", "block", "readDev", "stripDev", "readProd",
                "stripProd", "append", "gestures", "hyprManifest"}
         /\ "block" \in Ahead(InstallHypr(p)) => desk.kind = "lua"
<1> DEFINE Cleared == IF p = "Dev" THEN <<"stripProdBlock">> ELSE <<>>
           Stripped == IF p = "Dev" THEN <<"readDev", "stripDev">> ELSE <<>>
           Appended == <<"readProd", "stripProd", "append", "gestures">>
           Middle == IF desk.kind = "lua" THEN Cleared \o <<"block">> ELSE Stripped \o Appended
<1>0. InstallHypr(p) = <<"backup">> \o Middle \o <<"hyprManifest">>
  BY Zenon DEF InstallHypr
<1>a. Within(Cleared, 12, 12) /\ Ahead(Cleared) \subseteq {"stripProdBlock"} /\ (p = "Prod" => Ahead(Cleared) = {})
  <2>1. CASE p = "Dev"
    <3>1. Within(<<"stripProdBlock">>, 12, 12) /\ Ahead(<<"stripProdBlock">>) = {"stripProdBlock"}
      BY OneStep, Ranks, StepKinds DEF Doing
    <3> QED
      BY <2>1, <3>1
  <2>2. CASE p # "Dev"
    BY <2>2, Nothing, Zenon
  <2> QED
    BY <2>1, <2>2
<1>b. Within(Stripped, 11, 12) /\ Ahead(Stripped) \subseteq {"readDev", "stripDev"} /\ (p = "Prod" => Ahead(Stripped) = {})
  <2>1. CASE p = "Dev"
    <3>1. "readDev" \in Steps /\ "stripDev" \in Steps
      BY StepKinds DEF Doing, Both
    <3>2. Within(<<"readDev", "stripDev">>, 11, 12) /\ Ahead(<<"readDev", "stripDev">>) = {"readDev", "stripDev"}
      BY <3>1, TwoSteps, Ranks
    <3> QED
      BY <2>1, <3>2
  <2>2. CASE p # "Dev"
    BY <2>2, Nothing, Zenon
  <2> QED
    BY <2>1, <2>2
<1>c. Within(Appended, 13, 16) /\ Ahead(Appended) = {"readProd", "stripProd", "append", "gestures"}
  <2>1. "readProd" \in Steps /\ "stripProd" \in Steps /\ "append" \in Steps /\ "gestures" \in Steps
    BY StepKinds DEF Doing
  <2> QED
    BY <2>1, FourSteps, Ranks
<1> HIDE DEF Cleared, Stripped, Appended
<1>1. /\ Within(Middle, 11, 16)
      /\ p = "Prod" => Ahead(Middle) =
            (IF desk.kind = "lua" THEN {"block"} ELSE {"readProd", "stripProd", "append", "gestures"})
      /\ Ahead(Middle) \subseteq {"stripProdBlock", "block", "readDev", "stripDev", "readProd",
                "stripProd", "append", "gestures"}
      /\ "block" \in Ahead(Middle) => desk.kind = "lua"
  <2>1. CASE desk.kind = "lua"
    <3>1. Within(<<"block">>, 13, 13) /\ Ahead(<<"block">>) = {"block"}
      BY OneStep, Ranks, StepKinds DEF Doing
    <3>2. Middle = Cleared \o <<"block">>
      BY <2>1
    <3> HIDE DEF Middle
    <3>3. Within(Middle, 12, 13) /\ Ahead(Middle) = Ahead(Cleared) \cup {"block"}
      BY <1>a, <3>1, <3>2, WithinCat
    <3>4. Within(Middle, 11, 16)
      BY <3>3, Wider
    <3> QED
      BY <1>a, <2>1, <3>3, <3>4
  <2>2. CASE desk.kind # "lua"
    <3>1. Middle = Stripped \o Appended
      BY <2>2
    <3> HIDE DEF Middle
    <3>2. Within(Middle, 11, 16) /\ Ahead(Middle) = Ahead(Stripped) \cup Ahead(Appended)
      BY <1>b, <1>c, <3>1, WithinCat
    <3> QED
      BY <1>b, <1>c, <2>2, <3>2
  <2> QED
    BY <2>1, <2>2
<1> HIDE DEF Middle
<1>2. Within(<<"backup">>, 10, 10) /\ Ahead(<<"backup">>) = {"backup"}
  BY OneStep, Ranks, StepKinds DEF Doing, Undoing
<1>3. Within(<<"hyprManifest">>, 17, 17) /\ Ahead(<<"hyprManifest">>) = {"hyprManifest"}
  BY OneStep, Ranks, StepKinds DEF Doing, Undoing
<1>4. Within(<<"backup">> \o Middle, 10, 16) /\ Ahead(<<"backup">> \o Middle) = {"backup"} \cup Ahead(Middle)
  BY <1>1, <1>2, WithinCat
<1>5. /\ Within(InstallHypr(p), 10, 17)
      /\ Ahead(InstallHypr(p)) = {"backup"} \cup Ahead(Middle) \cup {"hyprManifest"}
  BY <1>0, <1>3, <1>4, WithinCat
<1> QED
  BY <1>1, <1>5

LEMMA WaybarSteps ==
  /\ Within(InstallWaybar, 18, 21) /\ Ahead(InstallWaybar) = {"barBackup", "pristine", "patchBar", "barManifest"}
  /\ Within(InstallWalker, 22, 23) /\ Ahead(InstallWalker) = {"elephant", "walkerManifest"}
<1>1. /\ "barBackup" \in Steps /\ "pristine" \in Steps /\ "patchBar" \in Steps /\ "barManifest" \in Steps
      /\ "elephant" \in Steps /\ "walkerManifest" \in Steps
  BY StepKinds DEF Doing
<1>2. Within(InstallWaybar, 18, 21) /\ Ahead(InstallWaybar) = {"barBackup", "pristine", "patchBar", "barManifest"}
  BY <1>1, FourSteps, Ranks DEF InstallWaybar
<1>3. Within(InstallWalker, 22, 23) /\ Ahead(InstallWalker) = {"elephant", "walkerManifest"}
  BY <1>1, TwoSteps, Ranks DEF InstallWalker
<1> QED
  BY <1>2, <1>3

LEMMA PluginSteps ==
  ASSUME NEW ui \in Uis
  PROVE  /\ Within(InstallPlugin(ui), 18, 20) /\ Ahead(InstallPlugin(ui)) = {ui, "enable", "patchMenu"}
         /\ Within(InstallChromium, 22, 25)
         /\ Ahead(InstallChromium) = {"extension", "externalJson", "hostJson", "helperManifest"}
<1>1. ui \in Steps /\ Rank[ui] = 18 /\ "enable" \in Steps /\ "patchMenu" \in Steps
  BY StepKinds, Ranks DEF Doing, Uis
<1>2. Within(InstallPlugin(ui), 18, 20) /\ Ahead(InstallPlugin(ui)) = {ui, "enable", "patchMenu"}
  BY <1>1, ThreeSteps, Ranks DEF InstallPlugin
<1>3. "extension" \in Steps /\ "externalJson" \in Steps /\ "hostJson" \in Steps /\ "helperManifest" \in Steps
  BY StepKinds DEF Doing
<1>4. /\ Within(InstallChromium, 22, 25)
      /\ Ahead(InstallChromium) = {"extension", "externalJson", "hostJson", "helperManifest"}
  BY <1>3, FourSteps, Ranks DEF InstallChromium
<1> QED
  BY <1>2, <1>4

LEMMA EdgeSteps ==
  /\ Within(<<"main">>, 2, 2) /\ Ahead(<<"main">>) = {"main"}
  /\ Within(<<"exit">>, 26, 26) /\ Ahead(<<"exit">>) = {"exit"}
BY OneStep, Ranks, StepKinds DEF Doing, Both

\* The steps of `tsk install all`.
InstallSteps(ui) ==
    {"main", "schema", "share", "openers", "editor", "backup", "hyprManifest", ui, "enable", "patchMenu",
        "extension", "externalJson", "hostJson", "helperManifest", "exit"}
      \cup (IF desk.kind = "lua" THEN {"block"} ELSE {"readProd", "stripProd", "append", "gestures"})
      \cup (IF desk.packaged THEN {"systemd"} ELSE {})

LEMMA InstallAllSteps ==
  ASSUME NEW ui \in Uis
  PROVE  Within(InstallAll(ui), 2, 26) /\ Ahead(InstallAll(ui)) = InstallSteps(ui)
<1> DEFINE Unit == IF desk.packaged THEN <<"systemd">> ELSE <<>>
<1>0. InstallAll(ui) = <<"main">> \o InstallBins \o InstallHypr("Prod") \o InstallPlugin(ui) \o Unit
            \o InstallChromium \o <<"exit">>
  BY Zenon DEF InstallAll
<1>1. Within(Unit, 21, 21) /\ Ahead(Unit) = IF desk.packaged THEN {"systemd"} ELSE {}
  <2>1. CASE desk.packaged
    <3>1. Within(<<"systemd">>, 21, 21) /\ Ahead(<<"systemd">>) = {"systemd"}
      BY OneStep, Ranks, StepKinds DEF Doing
    <3> QED
      BY <2>1, <3>1
  <2>2. CASE ~desk.packaged
    BY <2>2, Nothing, Zenon
  <2> QED
    BY <2>1, <2>2
<1> HIDE DEF Unit
<1>2. /\ Within(<<"main">> \o InstallBins, 2, 7)
      /\ Ahead(<<"main">> \o InstallBins) = {"main"} \cup Ahead(InstallBins)
  BY EdgeSteps, BinsSteps, WithinCat
<1>3. /\ Within(InstallHypr("Prod"), 10, 17)
      /\ Ahead(InstallHypr("Prod")) = {"backup", "hyprManifest"} \cup
                (IF desk.kind = "lua" THEN {"block"} ELSE {"readProd", "stripProd", "append", "gestures"})
  BY HyprSteps DEF Profiles
<1> DEFINE A == <<"main">> \o InstallBins \o InstallHypr("Prod")
           B == A \o InstallPlugin(ui)
           C == B \o Unit
           D == C \o InstallChromium
<1>4. Within(A, 2, 17) /\ Ahead(A) = {"main"} \cup Ahead(InstallBins) \cup Ahead(InstallHypr("Prod"))
  BY <1>2, <1>3, WithinCat
<1> HIDE DEF A
<1>5. Within(B, 2, 20) /\ Ahead(B) = Ahead(A) \cup {ui, "enable", "patchMenu"}
  BY <1>4, PluginSteps, WithinCat
<1> HIDE DEF B
<1>6. Within(C, 2, 21) /\ Ahead(C) = Ahead(B) \cup Ahead(Unit)
  BY <1>1, <1>5, WithinCat
<1> HIDE DEF C
<1>7. Within(D, 2, 25) /\ Ahead(D) = Ahead(C) \cup Ahead(InstallChromium)
  BY <1>6, PluginSteps, WithinCat
<1>8. InstallAll(ui) = D \o <<"exit">>
  BY <1>0 DEF A, B, C
<1> HIDE DEF D
<1>9. Within(InstallAll(ui), 2, 26) /\ Ahead(InstallAll(ui)) = Ahead(D) \cup {"exit"}
  BY <1>7, <1>8, EdgeSteps, WithinCat
<1> QED
  BY <1>1, <1>3, <1>4, <1>5, <1>6, <1>7, <1>9, BinsSteps, PluginSteps DEF InstallSteps

\* `tsk dev install all`, and a session around it.
LEMMA DevInstallSteps ==
  /\ Within(DevInstallAll, 2, 26)
  /\ Ahead(DevInstallAll) \subseteq Doing \ {"wait", "serve", "mark", "stopProd"}
  /\ {"main", "share", "exit"} \subseteq Ahead(DevInstallAll)
  /\ "block" \in Ahead(DevInstallAll) => desk.kind = "lua"
<1> DEFINE Seen == IF desk.kind = "lua" THEN InstallPlugin("shell") ELSE InstallWaybar \o InstallWalker
           A == <<"main">> \o InstallBins
           B == A \o InstallHypr("Dev")
           C == B \o Seen
<1>0. DevInstallAll = C \o <<"exit">>
  BY Zenon DEF DevInstallAll
<1>1. /\ Within(Seen, 18, 23)
      /\ Ahead(Seen) \subseteq {"shell", "enable", "patchMenu", "barBackup", "pristine", "patchBar", "barManifest",
            "elephant", "walkerManifest"}
  <2>1. CASE desk.kind = "lua"
    <3>1. Within(InstallPlugin("shell"), 18, 20) /\ Ahead(InstallPlugin("shell")) = {"shell", "enable", "patchMenu"}
      BY PluginSteps DEF Uis
    <3>2. Within(InstallPlugin("shell"), 18, 23)
      BY <3>1, Wider
    <3> QED
      BY <2>1, <3>1, <3>2
  <2>2. CASE desk.kind # "lua"
    <3>1. /\ Within(InstallWaybar \o InstallWalker, 18, 23)
          /\ Ahead(InstallWaybar \o InstallWalker) = Ahead(InstallWaybar) \cup Ahead(InstallWalker)
      BY WaybarSteps, WithinCat
    <3> QED
      BY <2>2, <3>1, WaybarSteps
  <2> QED
    BY <2>1, <2>2
<1> HIDE DEF Seen
<1>2. Within(A, 2, 7) /\ Ahead(A) = {"main"} \cup Ahead(InstallBins)
  BY EdgeSteps, BinsSteps, WithinCat
<1> HIDE DEF A
<1>3. /\ Within(InstallHypr("Dev"), 10, 17)
      /\ Ahead(InstallHypr("Dev")) \subseteq {"backup", "stripProdBlock", "block", "readDev", "stripDev", "readProd",
                "stripProd", "append", "gestures", "hyprManifest"}
      /\ "block" \in Ahead(InstallHypr("Dev")) => desk.kind = "lua"
  BY HyprSteps DEF Profiles
<1>4. Within(B, 2, 17) /\ Ahead(B) = Ahead(A) \cup Ahead(InstallHypr("Dev"))
  BY <1>2, <1>3, WithinCat
<1> HIDE DEF B
<1>5. Within(C, 2, 23) /\ Ahead(C) = Ahead(B) \cup Ahead(Seen)
  BY <1>1, <1>4, WithinCat
<1> HIDE DEF C
<1>6. Within(DevInstallAll, 2, 26) /\ Ahead(DevInstallAll) = Ahead(C) \cup {"exit"}
  BY <1>0, <1>5, EdgeSteps, WithinCat
<1>7. Ahead(DevInstallAll) = {"main", "schema", "share", "openers", "editor", "exit"}
                              \cup Ahead(InstallHypr("Dev")) \cup Ahead(Seen)
  BY <1>2, <1>4, <1>5, <1>6, BinsSteps
<1>8. Ahead(DevInstallAll) \subseteq Doing
  BY <1>1, <1>3, <1>7 DEF Doing, Both
<1>9. Ahead(DevInstallAll) \cap {"wait", "serve", "mark", "stopProd"} = {}
  BY <1>1, <1>3, <1>7
<1>10. "block" \in Ahead(DevInstallAll) => desk.kind = "lua"
  BY <1>1, <1>3, <1>7
<1> QED
  BY <1>6, <1>7, <1>8, <1>9, <1>10

LEMMA EnterSteps ==
  /\ Within(Enter, 0, 29)
  /\ Ahead(Enter) \subseteq Doing
  /\ {"share", "exit", "mark", "wait"} \subseteq Ahead(Enter)
  /\ "block" \in Ahead(Enter) => desk.kind = "lua"
  /\ Head(Enter) = "stopProd" /\ Enter # <<>>
<1> DEFINE A == <<"stopProd">> \o DevInstallAll
           B == <<"stopProd", "mark", "serve", "wait">>
<1>1. Within(<<"stopProd">>, 0, 0) /\ Ahead(<<"stopProd">>) = {"stopProd"}
  BY OneStep, Ranks, StepKinds DEF Doing
<1>2. "stopProd" \in Steps /\ "mark" \in Steps /\ "serve" \in Steps /\ "wait" \in Steps
  BY StepKinds DEF Doing
<1>3. Within(B, 0, 29) /\ Ahead(B) = {"stopProd", "mark", "serve", "wait"}
  BY <1>2, FourSteps, Ranks
<1> HIDE DEF B
<1>4. Within(B, 27, 29)
  <2>1. B \in Seq(Steps) /\ Sorted(B)
    BY <1>3, Zenon DEF Within
  <2>2. \A x \in Ahead(B) : x = "stopProd" \/ (27 <= Rank[x] /\ Rank[x] <= 29)
    <3>1. /\ Rank["mark"] = 27 /\ Rank["serve"] = 28 /\ Rank["wait"] = 29
      BY Ranks, Zenon
    <3>2. \A x \in Ahead(B) : x \in {"stopProd", "mark", "serve", "wait"}
      BY <1>3, Zenon
    <3> QED
      BY <3>1, <3>2
  <2> QED
    BY <2>1, <2>2, Zenon DEF Within
<1>5. Within(A, 0, 26) /\ Ahead(A) = {"stopProd"} \cup Ahead(DevInstallAll)
  BY <1>1, DevInstallSteps, WithinCat
<1>6. Enter = A \o B
  BY Zenon DEF Enter, B
<1>7. A # <<>> /\ Head(A) = "stopProd"
  <2>1. DevInstallAll \in Seq(Steps)
    BY DevInstallSteps DEF Within
  <2> QED
    BY <1>2, <2>1
<1> HIDE DEF A
<1>8. Within(Enter, 0, 29) /\ Ahead(Enter) = Ahead(A) \cup Ahead(B)
  BY <1>4, <1>5, <1>6, WithinCat
<1>9. Head(Enter) = "stopProd" /\ Enter # <<>>
  <2>1. A \in Seq(Steps) /\ B \in Seq(Steps)
    BY <1>4, <1>5 DEF Within
  <2> QED
    BY <1>6, <1>7, <2>1
<1>10. "stopProd" \in Doing /\ "mark" \in Doing /\ "serve" \in Doing /\ "wait" \in Doing
  BY DEF Doing
<1> QED
  BY <1>3, <1>5, <1>8, <1>9, <1>10, DevInstallSteps

\* The part of an uninstall that is about Hyprland, and the commands that hold it.
UninstallSteps ==
    {"loadHypr", "restore", "dropHypr", "readDev", "stripDev", "ensureProd", "removeShare"}
      \cup (IF desk.kind = "lua" THEN {"stripDevBlock", "disable", "unpatchMenu"} ELSE {})
WaybarUninstallSteps == {"prodBar", "seed", "restoreBar", "unpatchBar", "dropBar"}

LEMMA UninstallHyprSteps ==
  Within(UninstallHypr, 8, 18) /\ Ahead(UninstallHypr) = UninstallSteps
<1> DEFINE Plugin == IF desk.kind = "lua" THEN <<"stripDevBlock", "disable", "unpatchMenu">> ELSE <<>>
           A == <<"loadHypr", "restore", "dropHypr", "readDev", "stripDev">>
           B == <<"ensureProd", "removeShare">>
<1>0. UninstallHypr = A \o Plugin \o B
  BY Zenon DEF UninstallHypr
<1>1. /\ "loadHypr" \in Steps /\ "restore" \in Steps /\ "dropHypr" \in Steps /\ "readDev" \in Steps /\ "stripDev" \in Steps
      /\ "stripDevBlock" \in Steps /\ "disable" \in Steps /\ "unpatchMenu" \in Steps
      /\ "ensureProd" \in Steps /\ "removeShare" \in Steps
  BY StepKinds DEF Undoing, Both
<1>2. Within(A, 8, 12) /\ Ahead(A) = {"loadHypr", "restore", "dropHypr", "readDev", "stripDev"}
  <2>1. Within(<<"loadHypr">>, 8, 8) /\ Ahead(<<"loadHypr">>) = {"loadHypr"}
    BY <1>1, OneStep, Ranks
  <2>2. /\ Within(<<"restore", "dropHypr", "readDev", "stripDev">>, 9, 12)
        /\ Ahead(<<"restore", "dropHypr", "readDev", "stripDev">>) = {"restore", "dropHypr", "readDev", "stripDev"}
    BY <1>1, FourSteps, Ranks
  <2>3. A = <<"loadHypr">> \o <<"restore", "dropHypr", "readDev", "stripDev">>
    OBVIOUS
  <2> HIDE DEF A
  <2> QED
    BY <2>1, <2>2, <2>3, WithinCat
<1>3. Within(B, 16, 18) /\ Ahead(B) = {"ensureProd", "removeShare"}
  BY <1>1, TwoSteps, Ranks
<1>4. /\ Within(Plugin, 13, 15)
      /\ Ahead(Plugin) = IF desk.kind = "lua" THEN {"stripDevBlock", "disable", "unpatchMenu"} ELSE {}
  <2>1. CASE desk.kind = "lua"
    <3>1. /\ Within(<<"stripDevBlock", "disable", "unpatchMenu">>, 13, 15)
          /\ Ahead(<<"stripDevBlock", "disable", "unpatchMenu">>) = {"stripDevBlock", "disable", "unpatchMenu"}
      BY <1>1, ThreeSteps, Ranks
    <3> QED
      BY <2>1, <3>1
  <2>2. CASE desk.kind # "lua"
    BY <2>2, Nothing, Zenon
  <2> QED
    BY <2>1, <2>2
<1> HIDE DEF A, B, Plugin
<1>5. Within(A \o Plugin, 8, 15) /\ Ahead(A \o Plugin) = Ahead(A) \cup Ahead(Plugin)
  BY <1>2, <1>4, WithinCat
<1>6. Within(UninstallHypr, 8, 18) /\ Ahead(UninstallHypr) = Ahead(A \o Plugin) \cup Ahead(B)
  BY <1>0, <1>3, <1>5, WithinCat
<1> QED
  BY <1>2, <1>3, <1>4, <1>5, <1>6 DEF UninstallSteps

LEMMA DevUninstallHyprSteps ==
  /\ Within(DevUninstallHypr, 2, 26) /\ DevUninstallHypr # <<>>
  /\ Ahead(DevUninstallHypr) = {"main", "exit"} \cup UninstallSteps
<1> DEFINE A == <<"main">> \o UninstallHypr
<1>1. Within(A, 2, 18) /\ Ahead(A) = {"main"} \cup UninstallSteps
  BY EdgeSteps, UninstallHyprSteps, WithinCat
<1>2. DevUninstallHypr = A \o <<"exit">>
  BY Zenon DEF DevUninstallHypr
<1> HIDE DEF A
<1>3. Within(DevUninstallHypr, 2, 26) /\ Ahead(DevUninstallHypr) = Ahead(A) \cup {"exit"}
  BY <1>1, <1>2, EdgeSteps, WithinCat
<1>4. DevUninstallHypr # <<>>
  BY <1>3, Nothing
<1> QED
  BY <1>1, <1>3, <1>4

LEMMA LeaveSteps ==
  /\ Within(Leave, 0, 29) /\ Leave # <<>>
  /\ Ahead(Leave) = {"stopDev", "detect", "main", "exit", "unmark", "startProd", "done"}
                      \cup WaybarUninstallSteps \cup UninstallSteps
<1> DEFINE A == <<"main">> \o UninstallWaybar
           B == A \o UninstallHypr
           C == <<"stopDev", "detect">> \o DevUninstallAll
           D == <<"unmark", "startProd", "done">>
<1>1. /\ "stopDev" \in Steps /\ "detect" \in Steps /\ "unmark" \in Steps /\ "startProd" \in Steps
      /\ "done" \in Steps
  BY StepKinds DEF Undoing
<1>2. Within(UninstallWaybar, 3, 7) /\ Ahead(UninstallWaybar) = WaybarUninstallSteps
  <2>1. UninstallWaybar \in Seq(Steps) /\ Ahead(UninstallWaybar) = WaybarUninstallSteps
    BY DEF UninstallWaybar, Ahead, Steps, Rank, WaybarUninstallSteps
  <2>2. Sorted(UninstallWaybar)
    BY DEF UninstallWaybar, Sorted, Earlier, Rank
  <2> QED
    BY <2>1, <2>2 DEF Within, Rank, WaybarUninstallSteps
<1>3. Within(A, 2, 7) /\ Ahead(A) = {"main"} \cup WaybarUninstallSteps
  BY <1>2, EdgeSteps, WithinCat
<1> HIDE DEF A
<1>4. Within(B, 2, 18) /\ Ahead(B) = Ahead(A) \cup UninstallSteps
  BY <1>3, UninstallHyprSteps, WithinCat
<1>5. DevUninstallAll = B \o <<"exit">>
  BY Zenon DEF DevUninstallAll, A
<1> HIDE DEF B
<1>6. Within(DevUninstallAll, 2, 26) /\ Ahead(DevUninstallAll) = Ahead(B) \cup {"exit"}
  BY <1>4, <1>5, EdgeSteps, WithinCat
<1>7. Within(<<"stopDev", "detect">>, 0, 1) /\ Ahead(<<"stopDev", "detect">>) = {"stopDev", "detect"}
  BY <1>1, TwoSteps, Ranks
<1>8. Within(C, 0, 26) /\ Ahead(C) = {"stopDev", "detect"} \cup Ahead(DevUninstallAll)
  BY <1>6, <1>7, WithinCat
<1>9. Within(D, 27, 29) /\ Ahead(D) = {"unmark", "startProd", "done"}
  BY <1>1, ThreeSteps, Ranks
<1>10. Leave = C \o D
  BY Zenon DEF Leave
<1> HIDE DEF C, D
<1>11. Within(Leave, 0, 29) /\ Ahead(Leave) = Ahead(C) \cup Ahead(D)
  BY <1>8, <1>9, <1>10, WithinCat
<1>12. Leave # <<>>
  BY <1>9, <1>11, Nothing
<1> QED
  BY <1>3, <1>4, <1>6, <1>8, <1>9, <1>11, <1>12

-----------------------------------------------------------------------------
(* What a command is like at any time. *)

Runs == [name : {"none", "install", "devInstall", "uninstall", "leave", "enter"}, todo : Seq(Steps),
         buffer : Lines, backup : Backups, bar : File(Bars), had : BOOLEAN, restored : BOOLEAN,
         was : BOOLEAN, torn : BOOLEAN, tearing : BOOLEAN, whole : BOOLEAN]

\* The steps a command may hold: those of a session belong to enter alone.
Scope(r) ==
    IF r.name \in {"install", "devInstall"} THEN Doing \ {"mark", "serve", "wait", "stopProd"}
    ELSE IF r.name = "enter" /\ ~r.tearing THEN Doing ELSE Undoing

\* A command that holds one step holds the one its errors and detours lead to.
Closed(S) ==
    /\ "detect" \in S => "unmark" \in S
    /\ "prodBar" \in S => "dropBar" \in S
    /\ "dropBar" \in S => "exit" \in S
    /\ "barBackup" \in S => "exit" \in S
    /\ "ensureProd" \in S => "addProd" \notin S

Good(r) == Sorted(r.todo) /\ Ahead(r.todo) \subseteq Scope(r) /\ Closed(Ahead(r.todo))

\* Nothing runs beside an install, nor beside a session that is not yet waiting for its daemon.
Waits(r) == r.todo # <<>> /\ Head(r.todo) = "wait"
Busy(r) == r.name \in {"install", "devInstall", "enter"} /\ ~Waits(r)
Shape ==
    \A t \in Terminals : Good(run[t]) /\ (Busy(run[t]) => \A u \in Terminals \ {t} : run[u] = Idle)

RunsOK == run \in [Terminals -> Runs] /\ Shape

\* The files keep their types; the commands keep theirs, and their shape.
FilesOK ==
    /\ binds \in [conf : Lines, lua : Lines, native : BOOLEAN]
    /\ bar \in File(Bars)
    /\ menu \in [elephant : {"absent", "own", "Dev"}, ui : Uis \cup {"none"}, on : BOOLEAN,
                 spaces : BOOLEAN, patched : BOOLEAN]
    /\ tools \in [schema : BOOLEAN, devShare : BOOLEAN, openers : SUBSET Profiles,
                  editor : Profiles \cup {"own", "unset"}, helper : SUBSET Helper, enabled : BOOLEAN]
    /\ saved \in [hypr : [Profiles -> File(Backups)], bar : [Profiles -> File(File(Bars))],
                  plain : [Profiles -> File(Bars)], pristine : [Profiles -> File(Bars)],
                  walker : SUBSET Profiles, ui : [Profiles -> Uis]]
    /\ session \in [marker : BOOLEAN, prodUp : BOOLEAN, devUp : BOOLEAN, noted : BOOLEAN]
BoundsOK == bounds \in [commands : 0..MaxCommands, faults : 0..MaxFaults]
Facts == {"installed", "bar", "hypr", "session", "left"}
TypeInv ==
    /\ desk \in [kind : Desks, packaged : BOOLEAN]
    /\ FilesOK /\ BoundsOK /\ past \subseteq Facts /\ RunsOK

LEMMA IdleFine == Idle \in Runs /\ Good(Idle) /\ ~Busy(Idle)
<1>1. Idle.todo = <<>> /\ Idle.name = "none"
  BY DEF Idle
<1>2. Idle \in Runs
  <2>1. {} \in Lines /\ {} \in File(Bars) /\ [text |-> {}, native |-> FALSE] \in Backups
    BY DEF Lines, File, Backups
  <2>2. <<>> \in Seq(Steps)
    OBVIOUS
  <2> QED
    BY <2>1, <2>2 DEF Idle, Runs
<1>3. Sorted(<<>>) /\ Ahead(<<>>) = {}
  BY DEF Sorted, Ahead
<1> QED
  BY <1>1, <1>2, <1>3 DEF Good, Closed, Busy

\* One command changes: the others keep what they had.
LEMMA Replace ==
  ASSUME RunsOK, NEW t \in Terminals, NEW r \in Runs, Good(r), run' = [run EXCEPT ![t] = r],
         Busy(r) => \A u \in Terminals \ {t} : run[u] = Idle,
         r = Idle \/ \A u \in Terminals \ {t} : ~Busy(run[u])
  PROVE  RunsOK'
<1>1. run' \in [Terminals -> Runs]
  BY DEF RunsOK
<1>2. ASSUME NEW u \in Terminals PROVE run'[u] = IF u = t THEN r ELSE run[u]
  BY DEF RunsOK
<1>3. ASSUME NEW u \in Terminals PROVE Good(run'[u])
  <2>1. CASE u = t
    BY <1>2, <2>1
  <2>2. CASE u # t
    BY <1>2, <2>2 DEF RunsOK, Shape
  <2> QED
    BY <2>1, <2>2
<1>4. ASSUME NEW u \in Terminals, Busy(run'[u]), NEW v \in Terminals \ {u} PROVE run'[v] = Idle
  <2>1. CASE u = t
    BY <1>2, <1>4, <2>1
  <2>2. CASE u # t /\ v = t
    <3>1. Busy(run[u])
      BY <1>2, <1>4, <2>2
    <3> QED
      BY <1>2, <2>2, <3>1
  <2>3. CASE u # t /\ v # t
    <3>1. Busy(run[u]) /\ run'[v] = run[v]
      BY <1>2, <1>4, <2>3
    <3> QED
      BY <3>1 DEF RunsOK, Shape
  <2> QED
    BY <2>1, <2>2, <2>3
<1>5. Shape'
  BY <1>3, <1>4 DEF Shape
<1> QED
  BY <1>1, <1>5 DEF RunsOK

\* A command that is under way is the only one that could be busy.
LEMMA OthersWait ==
  ASSUME RunsOK, NEW t \in Terminals, run[t] # Idle
  PROVE  \A u \in Terminals \ {t} : ~Busy(run[u])
BY DEF RunsOK, Shape

\* The next step: it is in the command's scope, and everything else comes after it.
LEMMA NextStep ==
  ASSUME RunsOK, NEW t \in Terminals, NEW s, At(t, s)
  PROVE  /\ run[t] # Idle /\ run[t] \in Runs /\ Good(run[t])
         /\ s \in Ahead(run[t].todo) /\ s \in Scope(run[t]) /\ s \in Steps
         /\ Tail(run[t].todo) \in Seq(Steps) /\ Sorted(Tail(run[t].todo))
         /\ Ahead(run[t].todo) = Ahead(Tail(run[t].todo)) \cup {s}
         /\ \A x \in Ahead(Tail(run[t].todo)) : Earlier(s, x)
         /\ s # "stopProd" => Ahead(Tail(run[t].todo)) = Ahead(run[t].todo) \ {s}
<1>1. run[t] \in Runs /\ Good(run[t])
  BY DEF RunsOK, Shape
<1>2. run[t].todo \in Seq(Steps) /\ run[t].todo # <<>> /\ Head(run[t].todo) = s /\ Sorted(run[t].todo)
  BY <1>1 DEF At, Runs, Good
<1>3. /\ Tail(run[t].todo) \in Seq(Steps) /\ Sorted(Tail(run[t].todo)) /\ s \in Steps
      /\ Ahead(run[t].todo) = Ahead(Tail(run[t].todo)) \cup {s}
      /\ \A x \in Ahead(Tail(run[t].todo)) : Earlier(s, x)
  BY <1>2, Rest
<1>4. s # "stopProd" => s \notin Ahead(Tail(run[t].todo))
  BY <1>3, StepNumbers DEF Earlier
<1>5. run[t] # Idle
  BY <1>2 DEF Idle
<1> QED
  BY <1>1, <1>3, <1>4, <1>5 DEF Good

\* What is left behind a step that is still to come.
LEMMA Behind ==
  ASSUME NEW s \in Seq(Steps), Sorted(s), NEW x \in Ahead(s), x # "stopProd"
  PROVE  LET e == Tail(From(s, x)) IN
         /\ e \in Seq(Steps) /\ Sorted(e) /\ Ahead(e) \subseteq Ahead(s)
         /\ \A y \in Ahead(e) : Earlier(x, y)
         /\ \A y \in Ahead(s) : y \in Ahead(e) \/ y = x \/ Earlier(y, x)
<1> DEFINE f == From(s, x)
<1>1. /\ f \in Seq(Steps) /\ f # <<>> /\ Head(f) = x /\ Sorted(f) /\ Ahead(f) \subseteq Ahead(s)
      /\ \A y \in Ahead(s) \ Ahead(f) : Earlier(y, x)
  BY FromStep
<1> HIDE DEF f
<1>2. /\ Tail(f) \in Seq(Steps) /\ Sorted(Tail(f)) /\ Ahead(f) = Ahead(Tail(f)) \cup {x}
      /\ \A y \in Ahead(Tail(f)) : Earlier(x, y)
  BY <1>1, Rest
<1>3. /\ Ahead(Tail(f)) \subseteq Ahead(s)
      /\ \A y \in Ahead(s) : y \in Ahead(Tail(f)) \/ y = x \/ Earlier(y, x)
  BY <1>1, <1>2
<1> QED
  BY <1>2, <1>3 DEF f

LEMMA TailClosed ==
  ASSUME NEW s \in Seq(Steps), s # <<>>, Sorted(s), Closed(Ahead(s))
  PROVE  Closed(Ahead(Tail(s)))
<1>1. /\ Ahead(s) = Ahead(Tail(s)) \cup {Head(s)}
      /\ \A x \in Ahead(Tail(s)) : Earlier(Head(s), x)
  BY Rest
<1>2. /\ ~Earlier("unmark", "detect") /\ ~Earlier("dropBar", "prodBar")
      /\ ~Earlier("exit", "dropBar") /\ ~Earlier("exit", "barBackup")
  BY Ranks DEF Earlier
<1> QED
  BY <1>1, <1>2 DEF Closed

\* Taking the next step, whatever it changes in the command's memory.
LEMMA PopFine ==
  ASSUME RunsOK, NEW t \in Terminals, NEW s, At(t, s), s # "wait", NEW r \in Runs,
         r.todo = run[t].todo, r.name = run[t].name, r.tearing = run[t].tearing,
         run' = [run EXCEPT ![t] = [r EXCEPT !.todo = Tail(@)]]
  PROVE  /\ RunsOK'
         /\ run'[t] = [r EXCEPT !.todo = Tail(@)]
         /\ Ahead(run'[t].todo) = Ahead(Tail(run[t].todo))
<1> DEFINE q == [r EXCEPT !.todo = Tail(@)]
<1>1. /\ run[t] # Idle /\ run[t] \in Runs /\ Good(run[t]) /\ Tail(run[t].todo) \in Seq(Steps)
      /\ Sorted(Tail(run[t].todo))
      /\ Ahead(run[t].todo) = Ahead(Tail(run[t].todo)) \cup {s}
  BY NextStep
<1>2. run' = [run EXCEPT ![t] = q]
  OBVIOUS
<1>3. q \in Runs /\ q.todo = Tail(run[t].todo) /\ q.name = run[t].name /\ q.tearing = run[t].tearing
  BY <1>1 DEF Runs
<1> HIDE DEF q
<1>4. Good(q)
  <2>1. Closed(Ahead(run[t].todo)) /\ Sorted(run[t].todo) /\ run[t].todo \in Seq(Steps) /\ run[t].todo # <<>>
    BY <1>1 DEF Good, Runs, At
  <2>2. Closed(Ahead(q.todo))
    BY <1>3, <2>1, TailClosed
  <2>3. Scope(q) = Scope(run[t])
    BY <1>3 DEF Scope
  <2>4. Ahead(run[t].todo) \subseteq Scope(run[t])
    BY <1>1 DEF Good
  <2> QED
    BY <1>1, <1>3, <2>2, <2>3, <2>4 DEF Good
<1>5. Busy(run[t]) \/ run[t].name \notin {"install", "devInstall", "enter"}
  BY DEF Busy, Waits, At
<1>6. Busy(q) => \A u \in Terminals \ {t} : run[u] = Idle
  BY <1>3, <1>5 DEF Busy, RunsOK, Shape
<1>7. RunsOK'
  BY <1>1, <1>2, <1>3, <1>4, <1>6, OthersWait, Replace
<1>8. run'[t] = q
  BY <1>2 DEF RunsOK
<1> QED
  BY <1>1, <1>2, <1>3, <1>7, <1>8 DEF q

LEMMA PlainPop ==
  ASSUME RunsOK, NEW t \in Terminals, NEW s, At(t, s), s # "wait", Pop(t)
  PROVE  /\ RunsOK' /\ run' = [run EXCEPT ![t] = [run[t] EXCEPT !.todo = Tail(@)]]
         /\ run'[t] = [run[t] EXCEPT !.todo = Tail(@)]
         /\ Ahead(run'[t].todo) = Ahead(Tail(run[t].todo))
         /\ UNCHANGED <<desk, bounds, past>>
<1>1. run[t] \in Runs
  BY DEF RunsOK
<1> QED
  BY <1>1, PopFine DEF Pop, PopWith

\* Going on with other steps instead.
LEMMA GotoFine ==
  ASSUME RunsOK, NEW t \in Terminals, NEW s, At(t, s), s # "wait",
         NEW todo \in Seq(Steps), Sorted(todo), Ahead(todo) \subseteq Scope(run[t]), Closed(Ahead(todo)),
         run' = [run EXCEPT ![t].todo = todo]
  PROVE  RunsOK' /\ run'[t] = [run[t] EXCEPT !.todo = todo]
<1> DEFINE q == [run[t] EXCEPT !.todo = todo]
<1>1. run[t] # Idle /\ run[t] \in Runs
  BY NextStep
<1>2. run' = [run EXCEPT ![t] = q]
  BY DEF RunsOK
<1>3. q \in Runs /\ q.todo = todo /\ q.name = run[t].name /\ q.tearing = run[t].tearing
  BY <1>1 DEF Runs
<1> HIDE DEF q
<1>4. Good(q)
  BY <1>3 DEF Good, Scope
<1>5. Busy(run[t]) \/ run[t].name \notin {"install", "devInstall", "enter"}
  BY DEF Busy, Waits, At
<1>6. Busy(q) => \A u \in Terminals \ {t} : run[u] = Idle
  BY <1>3, <1>5 DEF Busy, RunsOK, Shape
<1>7. RunsOK'
  BY <1>1, <1>2, <1>3, <1>4, <1>6, OthersWait, Replace
<1> QED
  BY <1>2, <1>7 DEF RunsOK, q

LEMMA StopFine ==
  ASSUME RunsOK, NEW t \in Terminals, run' = [run EXCEPT ![t] = Idle]
  PROVE  RunsOK' /\ run'[t] = Idle
<1>1. RunsOK'
  BY IdleFine, Replace
<1> QED
  BY <1>1 DEF RunsOK

\* Commands that begin, and teardowns that follow a session.
LEMMA InstallGood ==
  ASSUME NEW r \in Runs, \/ r.name = "install" /\ \E ui \in Uis : r.todo = InstallAll(ui)
                         \/ r.name = "devInstall" /\ r.todo = DevInstallAll
  PROVE  Good(r)
<1>1. CASE r.name = "install" /\ \E ui \in Uis : r.todo = InstallAll(ui)
  <2>1. PICK ui \in Uis : r.todo = InstallAll(ui)
    BY <1>1
  <2>2. Sorted(r.todo) /\ Ahead(r.todo) = InstallSteps(ui)
    BY <2>1, InstallAllSteps DEF Within
  <2>3. InstallSteps(ui) \subseteq Doing \ {"mark", "serve", "wait", "stopProd"}
    BY DEF InstallSteps, Doing, Both, Uis
  <2>4. Closed(InstallSteps(ui))
    BY DEF InstallSteps, Closed, Uis
  <2> QED
    BY <1>1, <2>2, <2>3, <2>4 DEF Good, Scope
<1>2. CASE r.name = "devInstall" /\ r.todo = DevInstallAll
  <2>1. /\ Sorted(r.todo) /\ Ahead(r.todo) \subseteq Doing \ {"wait", "serve", "mark", "stopProd"}
        /\ "exit" \in Ahead(r.todo)
    BY <1>2, DevInstallSteps DEF Within
  <2>2. {"detect", "prodBar", "dropBar", "ensureProd"} \cap Doing = {}
    BY DEF Doing, Both
  <2>3. Closed(Ahead(r.todo))
    BY <2>1, <2>2 DEF Closed
  <2> QED
    BY <1>2, <2>1, <2>3 DEF Good, Scope
<1> QED
  BY <1>1, <1>2

LEMMA EnterGood ==
  ASSUME NEW r \in Runs, r.name = "enter", ~r.tearing, r.todo = Enter
  PROVE  Good(r)
<1>1. Sorted(r.todo) /\ Ahead(r.todo) \subseteq Doing /\ "exit" \in Ahead(r.todo)
  BY EnterSteps DEF Within
<1>2. {"detect", "prodBar", "dropBar", "ensureProd"} \cap Doing = {}
  BY DEF Doing, Both
<1>3. Closed(Ahead(r.todo))
  BY <1>1, <1>2 DEF Closed
<1> QED
  BY <1>1, <1>3 DEF Good, Scope

LEMMA LeaveGood ==
  ASSUME NEW r \in Runs, \/ r.name = "uninstall" /\ r.todo = DevUninstallHypr
                         \/ (r.name = "leave" \/ (r.name = "enter" /\ r.tearing)) /\ r.todo = Leave
  PROVE  Good(r)
<1>1. {"main", "exit"} \cup UninstallSteps \subseteq Undoing /\ Closed({"main", "exit"} \cup UninstallSteps)
  BY DEF UninstallSteps, Undoing, Both, Closed
<1>2. LET all == {"stopDev", "detect", "main", "exit", "unmark", "startProd", "done"}
                      \cup WaybarUninstallSteps \cup UninstallSteps
      IN  all \subseteq Undoing /\ Closed(all)
  BY DEF WaybarUninstallSteps, UninstallSteps, Undoing, Both, Closed
<1>3. Scope(r) = Undoing
  BY DEF Scope
<1>4. CASE r.name = "uninstall" /\ r.todo = DevUninstallHypr
  BY <1>1, <1>3, <1>4, DevUninstallHyprSteps DEF Good, Within
<1>5. CASE r.todo = Leave
  BY <1>2, <1>3, <1>5, LeaveSteps DEF Good, Within
<1> QED
  BY <1>4, <1>5

\* A command as it begins.
Fresh(name, todo, tearing) == [Idle EXCEPT !.name = name, !.todo = todo, !.tearing = tearing]

LEMMA FreshFine ==
  ASSUME NEW name \in {"install", "devInstall", "uninstall", "leave", "enter"}, NEW todo \in Seq(Steps),
         NEW tearing \in BOOLEAN
  PROVE  LET r == Fresh(name, todo, tearing) IN
         r \in Runs /\ r = [Idle EXCEPT !.name = name, !.todo = todo, !.tearing = tearing]
BY IdleFine DEF Fresh, Runs, Idle

LEMMA BesideFine ==
  ASSUME RunsOK, NEW t \in Terminals, Alone(t) \/ Beside(t)
  PROVE  \A u \in Terminals \ {t} : ~Busy(run[u])
BY IdleFine DEF Alone, Beside, Busy, Waits, At

LEMMA BeginFine ==
  ASSUME RunsOK, NEW t \in Terminals, NEW name \in {"install", "devInstall", "uninstall", "leave", "enter"},
         NEW todo \in Seq(Steps), NEW tearing \in BOOLEAN, Begin(t, name, todo, tearing),
         Alone(t) \/ (Beside(t) /\ name \in {"uninstall", "leave"}), Good(Fresh(name, todo, tearing))
  PROVE  RunsOK' /\ run'[t] = Fresh(name, todo, tearing)
<1> DEFINE r == Fresh(name, todo, tearing)
<1>1. r \in Runs /\ r.name = name
  BY FreshFine DEF Fresh, Idle
<1>2. run' = [run EXCEPT ![t] = r]
  BY DEF Begin, Fresh
<1> HIDE DEF r
<1>3. Busy(r) => \A u \in Terminals \ {t} : run[u] = Idle
  BY <1>1 DEF Busy, Alone
<1>4. RunsOK'
  <2>1. Good(r)
    BY DEF r
  <2> QED
    BY <1>1, <1>2, <1>3, <2>1, BesideFine, Replace
<1> QED
  BY <1>2, <1>4 DEF RunsOK, r

LEMMA BeginsRuns ==
  ASSUME RunsOK, NEW t \in Terminals, Begins(t)
  PROVE  /\ RunsOK'
         /\ \/ BeginInstall(t) /\ \E ui \in Uis : run'[t] = Fresh("install", InstallAll(ui), FALSE)
            \/ BeginDevInstall(t) /\ run'[t] = Fresh("devInstall", DevInstallAll, FALSE)
            \/ BeginUninstall(t) /\ run'[t] = Fresh("uninstall", DevUninstallHypr, FALSE)
            \/ BeginLeave(t) /\ run'[t] = Fresh("leave", Leave, TRUE)
            \/ BeginEnter(t) /\ run'[t] \in {Fresh("enter", Leave, TRUE), Fresh("enter", Enter, FALSE)}
<1> USE DEF Fresh, Idle
<1>1. CASE BeginInstall(t)
  <2>1. PICK ui \in Uis : Begin(t, "install", InstallAll(ui), FALSE)
    BY <1>1 DEF BeginInstall
  <2>2. InstallAll(ui) \in Seq(Steps)
    BY InstallAllSteps DEF Within
  <2>3. Good(Fresh("install", InstallAll(ui), FALSE))
    BY <2>2, FreshFine, InstallGood
  <2> HIDE DEF Fresh, Idle
  <2>4. RunsOK' /\ run'[t] = Fresh("install", InstallAll(ui), FALSE)
    BY <1>1, <2>1, <2>2, <2>3, BeginFine DEF BeginInstall
  <2> QED
    BY <1>1, <2>4
<1>2. CASE BeginDevInstall(t)
  <2>1. DevInstallAll \in Seq(Steps)
    BY DevInstallSteps DEF Within
  <2>2. Good(Fresh("devInstall", DevInstallAll, FALSE))
    BY <2>1, FreshFine, InstallGood
  <2> HIDE DEF Fresh, Idle
  <2>3. RunsOK' /\ run'[t] = Fresh("devInstall", DevInstallAll, FALSE)
    BY <1>2, <2>1, <2>2, BeginFine DEF BeginDevInstall
  <2> QED
    BY <1>2, <2>3
<1>3. CASE BeginUninstall(t)
  <2>1. DevUninstallHypr \in Seq(Steps)
    BY DevUninstallHyprSteps DEF Within
  <2>2. Good(Fresh("uninstall", DevUninstallHypr, FALSE))
    BY <2>1, FreshFine, LeaveGood
  <2> HIDE DEF Fresh, Idle
  <2>3. RunsOK' /\ run'[t] = Fresh("uninstall", DevUninstallHypr, FALSE)
    BY <1>3, <2>1, <2>2, BeginFine DEF BeginUninstall
  <2> QED
    BY <1>3, <2>3
<1>4. Leave \in Seq(Steps) /\ Enter \in Seq(Steps)
  BY LeaveSteps, EnterSteps DEF Within
<1>5. CASE BeginLeave(t)
  <2>1. Good(Fresh("leave", Leave, TRUE))
    BY <1>4, FreshFine, LeaveGood
  <2> HIDE DEF Fresh, Idle
  <2>2. RunsOK' /\ run'[t] = Fresh("leave", Leave, TRUE)
    BY <1>4, <1>5, <2>1, BeginFine DEF BeginLeave
  <2> QED
    BY <1>5, <2>2
<1>6. CASE BeginEnter(t)
  <2>1. Good(Fresh("enter", Leave, TRUE)) /\ Good(Fresh("enter", Enter, FALSE))
    BY <1>4, FreshFine, LeaveGood, EnterGood
  <2> HIDE DEF Fresh, Idle
  <2>2. CASE Begin(t, "enter", Leave, TRUE)
    BY <1>4, <1>6, <2>1, <2>2, BeginFine DEF BeginEnter
  <2>3. CASE Begin(t, "enter", Enter, FALSE)
    BY <1>4, <1>6, <2>1, <2>3, BeginFine DEF BeginEnter
  <2> QED
    BY <1>6, <2>2, <2>3 DEF BeginEnter
<1> QED
  BY <1>1, <1>2, <1>3, <1>5, <1>6 DEF Begins

\* The teardown that follows a session, and one that follows a fault.
AfterSession(r) == [Idle EXCEPT !.name = "leave", !.todo = Leave, !.tearing = TRUE, !.was = r.was]
AfterFault(r) == [Idle EXCEPT !.name = "leave", !.todo = Leave, !.tearing = TRUE, !.was = r.was, !.whole = FALSE]

LEMMA AfterFine ==
  ASSUME NEW r \in Runs, NEW q \in {AfterSession(r), AfterFault(r)}
  PROVE  /\ q \in Runs /\ Good(q) /\ ~Busy(q)
         /\ q.todo = Leave /\ q.name = "leave" /\ q.tearing /\ q.buffer = {} /\ q.backup = Idle.backup
         /\ q = AfterFault(r) => ~q.whole
<1>1. Leave \in Seq(Steps) /\ r.was \in BOOLEAN
  BY LeaveSteps DEF Within, Runs
<1>2. q \in Runs
  <2>1. CASE q = AfterSession(r)
    BY <1>1, <2>1, IdleFine DEF AfterSession, Runs
  <2>2. CASE q = AfterFault(r)
    BY <1>1, <2>2, IdleFine DEF AfterFault, Runs
  <2> QED
    BY <2>1, <2>2
<1>3. q.todo = Leave /\ q.name = "leave" /\ q.tearing /\ q.buffer = {} /\ q.backup = Idle.backup
  BY DEF AfterSession, AfterFault, Idle
<1>4. Good(q) /\ ~Busy(q)
  BY <1>2, <1>3, LeaveGood DEF Busy
<1>5. AfterFault(r).whole = FALSE
  BY DEF AfterFault, Idle
<1> QED
  BY <1>2, <1>3, <1>4, <1>5

LEMMA EndOfEnterFine ==
  ASSUME RunsOK, NEW t \in Terminals, run[t] # Idle, EndOfEnter(t)
  PROVE  RunsOK' /\ run'[t] \in {Idle, AfterSession(run[t])}
<1>1. run[t] \in Runs
  BY DEF RunsOK
<1>3. CASE run[t].torn
  <2>1. run' = [run EXCEPT ![t] = Idle]
    BY <1>3 DEF EndOfEnter
  <2> QED
    BY <2>1, StopFine
<1>4. CASE ~run[t].torn
  <2>1. run' = [run EXCEPT ![t] = AfterSession(run[t])]
    BY <1>4, Zenon DEF EndOfEnter, AfterSession
  <2>2. RunsOK'
    BY <1>1, <2>1, AfterFine, OthersWait, Replace
  <2> QED
    BY <2>1, <2>2 DEF RunsOK
<1> QED
  BY <1>3, <1>4

\* A teardown goes on behind the tsk command that failed.
LEMMA OnFine ==
  ASSUME RunsOK, NEW t \in Terminals, "exit" \in Ahead(run[t].todo)
  PROVE  LET e == Tail(From(run[t].todo, "exit")) IN
         /\ e \in Seq(Steps) /\ Sorted(e) /\ Ahead(e) \subseteq Ahead(run[t].todo)
         /\ \A x \in Ahead(e) : Earlier("exit", x)
         /\ Ahead(e) \subseteq Scope(run[t]) /\ Closed(Ahead(e))
<1> DEFINE e == Tail(From(run[t].todo, "exit"))
<1>1. run[t].todo \in Seq(Steps) /\ Good(run[t])
  BY DEF RunsOK, Runs, Shape
<1>2. e \in Seq(Steps) /\ Sorted(e) /\ Ahead(e) \subseteq Ahead(run[t].todo) /\ \A x \in Ahead(e) : Earlier("exit", x)
  BY <1>1, Behind DEF Good
<1> HIDE DEF e
<1>3. Ahead(e) \subseteq Scope(run[t])
  BY <1>1, <1>2 DEF Good
<1>4. /\ ~Earlier("exit", "detect") /\ ~Earlier("exit", "prodBar") /\ ~Earlier("exit", "dropBar")
      /\ ~Earlier("exit", "barBackup") /\ ~Earlier("exit", "ensureProd")
  BY Ranks DEF Earlier
<1>5. Closed(Ahead(e))
  BY <1>2, <1>4 DEF Closed
<1> QED
  BY <1>2, <1>3, <1>5 DEF e

LEMMA AbortFine ==
  ASSUME RunsOK, NEW t \in Terminals, NEW s \in {"barBackup", "dropBar"}, At(t, s), Abort(t)
  PROVE  /\ RunsOK'
         /\ \/ run'[t] \in {Idle, AfterSession(run[t])}
            \/ run[t].tearing /\ run'[t] = [run[t] EXCEPT !.todo = Tail(From(@, "exit"))]
<1>0. s # "wait"
  OBVIOUS
<1>1. run[t] # Idle /\ run[t] \in Runs /\ Good(run[t]) /\ s \in Ahead(run[t].todo)
  BY NextStep
<1>2. "exit" \in Ahead(run[t].todo)
  BY <1>1 DEF Good, Closed
<1>3. CASE run[t].tearing
  <2> DEFINE e == Tail(From(run[t].todo, "exit"))
  <2>1. run' = [run EXCEPT ![t].todo = e]
    BY <1>3 DEF Abort, RunsOK
  <2>2. e \in Seq(Steps) /\ Sorted(e) /\ Ahead(e) \subseteq Scope(run[t]) /\ Closed(Ahead(e))
    BY <1>2, OnFine
  <2> HIDE DEF e
  <2>3. RunsOK' /\ run'[t] = [run[t] EXCEPT !.todo = e]
    BY <1>0, <2>1, <2>2, GotoFine
  <2> QED
    BY <1>3, <2>3 DEF e
<1>4. CASE run[t].name = "enter" /\ ~run[t].tearing
  <2>1. EndOfEnter(t)
    BY <1>4, Zenon DEF Abort
  <2> QED
    BY <1>1, <2>1, EndOfEnterFine
<1>5. CASE ~run[t].tearing /\ run[t].name # "enter"
  <2>1. run' = [run EXCEPT ![t] = Idle]
    BY <1>5 DEF Abort
  <2> QED
    BY <2>1, StopFine
<1> QED
  BY <1>3, <1>4, <1>5

LEMMA ExitFine ==
  ASSUME RunsOK, NEW t \in Terminals, Exit(t)
  PROVE  /\ RunsOK'
         /\ \/ run'[t] = Idle /\ Len(run[t].todo) <= 1
            \/ run'[t] = [run[t] EXCEPT !.todo = Tail(@)] /\ UNCHANGED past
<1>1. At(t, "exit") /\ run[t].todo \in Seq(Steps)
  BY DEF Exit, RunsOK, Runs
<1>2. CASE Len(run[t].todo) > 1
  <2>1. Pop(t)
    BY <1>2 DEF Exit
  <2>2. UNCHANGED past
    BY <2>1 DEF Pop, PopWith
  <2>3. RunsOK' /\ run'[t] = [run[t] EXCEPT !.todo = Tail(@)]
    BY <1>1, <2>1, PlainPop
  <2> QED
    BY <2>2, <2>3
<1>3. CASE ~(Len(run[t].todo) > 1)
  <2>1. run' = [run EXCEPT ![t] = Idle]
    BY <1>3 DEF Exit
  <2>2. RunsOK' /\ run'[t] = Idle
    BY <2>1, StopFine
  <2>3. Len(run[t].todo) <= 1
    BY <1>1, <1>3
  <2> QED
    BY <2>2, <2>3
<1> QED
  BY <1>2, <1>3

\* The session that its shell enters after it cleared a stale one.
EnterAgain(r) == [Idle EXCEPT !.name = "enter", !.todo = Enter, !.was = r.was, !.torn = TRUE]

LEMMA EnterAgainFine ==
  ASSUME NEW r \in Runs
  PROVE  LET q == EnterAgain(r) IN
         q \in Runs /\ Good(q) /\ q.name = "enter" /\ ~q.tearing /\ q.todo = Enter
           /\ q.buffer = {} /\ q.backup = Idle.backup
<1> DEFINE q == EnterAgain(r)
<1>1. Enter \in Seq(Steps) /\ r.was \in BOOLEAN
  BY EnterSteps DEF Within, Runs
<1>2. q \in Runs
  BY <1>1, IdleFine DEF EnterAgain, Runs
<1>3. q.name = "enter" /\ ~q.tearing /\ q.todo = Enter /\ q.buffer = {} /\ q.backup = Idle.backup
  BY DEF EnterAgain, Idle
<1> HIDE DEF q
<1>4. Good(q)
  BY <1>2, <1>3, EnterGood
<1> QED
  BY <1>2, <1>3, <1>4 DEF q

LEMMA DoneFine ==
  ASSUME RunsOK, NEW t \in Terminals, Done(t)
  PROVE  /\ RunsOK'
         /\ \/ run'[t] = EnterAgain(run[t]) /\ past' = {}
            \/ run'[t] = Idle
<1>1. At(t, "done") /\ run[t] \in Runs
  BY DEF Done, RunsOK
<1>2. CASE run[t].name = "enter"
  <2>1. run' = [run EXCEPT ![t] = EnterAgain(run[t])] /\ past' = {}
    BY <1>2 DEF Done, EnterAgain
  <2>2. Busy(run[t])
    BY <1>1, <1>2 DEF Busy, Waits, At
  <2>3. \A u \in Terminals \ {t} : run[u] = Idle
    BY <2>2 DEF RunsOK, Shape
  <2>4. RunsOK'
    BY <1>1, <2>1, <2>3, EnterAgainFine, IdleFine, Replace
  <2> QED
    BY <2>1, <2>4 DEF RunsOK
<1>3. CASE run[t].name # "enter"
  <2>1. run' = [run EXCEPT ![t] = Idle]
    BY <1>3 DEF Done
  <2> QED
    BY <2>1, StopFine
<1> QED
  BY <1>2, <1>3

\* A fault shakes every command that was under way; it changes nothing else about the others.
Dented(r) == IF r = Idle THEN Idle ELSE [r EXCEPT !.whole = FALSE]

LEMMA DentedFine ==
  ASSUME NEW r \in Runs, Good(r)
  PROVE  LET q == Dented(r) IN
         /\ q \in Runs /\ Good(q) /\ (Busy(q) <=> Busy(r)) /\ q.todo = r.todo /\ q.name = r.name
         /\ q.tearing = r.tearing /\ q.buffer = r.buffer /\ q.backup = r.backup /\ q.had = r.had
         /\ q.was = r.was /\ (q.whole => r = Idle)
<1>1. CASE r = Idle
  BY <1>1, IdleFine DEF Dented
<1>2. CASE r # Idle
  <2> DEFINE q == [r EXCEPT !.whole = FALSE]
  <2>1. /\ q \in Runs /\ q.todo = r.todo /\ q.name = r.name /\ q.tearing = r.tearing /\ q.buffer = r.buffer
        /\ q.backup = r.backup /\ q.had = r.had /\ q.was = r.was /\ ~q.whole
    BY DEF Runs
  <2>2. Dented(r) = q
    BY <1>2 DEF Dented
  <2> HIDE DEF q
  <2>3. Good(q) /\ (Busy(q) <=> Busy(r))
    BY <2>1 DEF Good, Scope, Busy, Waits
  <2> QED
    BY <2>1, <2>2, <2>3
<1> QED
  BY <1>1, <1>2

LEMMA ShakenFine ==
  ASSUME RunsOK, NEW t \in Terminals, NEW r \in Runs, Good(r), run[t] # Idle,
         run' = [Shaken(t) EXCEPT ![t] = r], Busy(r) => Busy(run[t]) \/ r = Idle
  PROVE  RunsOK' /\ run'[t] = r /\ \A u \in Terminals \ {t} : run'[u] = Dented(run[u])
<1>1. \A u \in Terminals : run'[u] = IF u = t THEN r ELSE Dented(run[u])
  BY DEF Shaken, Dented
<1>2. \A u \in Terminals : Dented(run[u]) \in Runs /\ Good(Dented(run[u])) /\ (Busy(Dented(run[u])) <=> Busy(run[u]))
  BY DentedFine DEF RunsOK, Shape
<1>3. run' \in [Terminals -> Runs]
  <2>1. run' = [u \in Terminals |-> run'[u]]
    BY DEF Shaken
  <2> QED
    BY <1>1, <1>2, <2>1
<1>4. ASSUME NEW u \in Terminals PROVE Good(run'[u])
  BY <1>1, <1>2
<1>5. ASSUME NEW u \in Terminals, Busy(run'[u]), NEW v \in Terminals \ {u} PROVE run'[v] = Idle
  <2>1. CASE u = t
    <3>1. Busy(run[t])
      BY <1>1, <1>5, <2>1, IdleFine
    <3>2. run[v] = Idle
      BY <2>1, <3>1 DEF RunsOK, Shape
    <3> QED
      BY <1>1, <2>1, <3>2 DEF Dented
  <2>2. CASE u # t
    <3>1. Busy(run[u])
      BY <1>1, <1>2, <1>5, <2>2
    <3>2. run[t] = Idle
      BY <2>2, <3>1 DEF RunsOK, Shape
    <3> QED
      BY <3>2
  <2> QED
    BY <2>1, <2>2
<1>6. Shape'
  BY <1>4, <1>5 DEF Shape
<1> QED
  BY <1>1, <1>3, <1>6 DEF RunsOK

\* A teardown whose tsk command failed.
GoesOn(r) == [r EXCEPT !.todo = Tail(From(@, "exit")), !.whole = FALSE]

LEMMA FailFine ==
  ASSUME RunsOK, NEW t \in Terminals, Fail(t)
  PROVE  /\ RunsOK' /\ \A u \in Terminals \ {t} : run'[u] = Dented(run[u])
         /\ \/ run'[t] \in {Idle, AfterFault(run[t])}
            \/ run[t].tearing /\ run'[t] = GoesOn(run[t]) /\ "exit" \in Ahead(run[t].todo)
<1>1. run[t] \in Runs /\ Good(run[t])
  BY DEF RunsOK, Shape
<1>2. "exit" \in Ahead(run[t].todo)
  BY DEF Fail, InCommand, Ahead
<1>3. run[t] # Idle
  BY DEF Fail, InCommand, Idle
<1>4. CASE run[t].tearing
  <2> DEFINE q == GoesOn(run[t])
             e == Tail(From(run[t].todo, "exit"))
  <2>1. run' = [Shaken(t) EXCEPT ![t] = q]
    BY <1>4 DEF Fail, GoesOn
  <2>2. e \in Seq(Steps) /\ Sorted(e) /\ Ahead(e) \subseteq Scope(run[t]) /\ Closed(Ahead(e))
    BY <1>2, OnFine
  <2>3. q \in Runs /\ q.todo = e /\ q.name = run[t].name /\ q.tearing = run[t].tearing
    <3> HIDE DEF e
    <3>1. q = [run[t] EXCEPT !.todo = e, !.whole = FALSE]
      BY DEF GoesOn, e
    <3> HIDE DEF q
    <3> QED
      BY <1>1, <2>2, <3>1 DEF Runs
  <2> HIDE DEF q, e
  <2>4. Good(q)
    BY <2>2, <2>3 DEF Good, Scope
  <2>5. Busy(q) => Busy(run[t])
    <3>1. "wait" \notin Ahead(run[t].todo) \/ ~run[t].tearing
      <4>1. "wait" \notin Doing \ {"mark", "serve", "wait", "stopProd"} /\ "wait" \notin Undoing
        BY DEF Undoing, Both
      <4> QED
        BY <1>1, <4>1 DEF Good, Scope
    <3>2. Waits(run[t]) => "wait" \in Ahead(run[t].todo)
      <4>1. run[t].todo \in Seq(Steps)
        BY <1>1 DEF Runs
      <4> QED
        BY <4>1 DEF Waits, Ahead
    <3> QED
      BY <1>4, <2>3, <3>1, <3>2 DEF Busy
  <2>6. RunsOK' /\ run'[t] = q /\ \A u \in Terminals \ {t} : run'[u] = Dented(run[u])
    BY <1>3, <2>1, <2>3, <2>4, <2>5, ShakenFine
  <2> QED
    BY <1>2, <1>4, <2>6 DEF q
<1>5. CASE run[t].name = "enter" /\ ~run[t].tearing /\ ~run[t].torn
  <2>1. run' = [Shaken(t) EXCEPT ![t] = AfterFault(run[t])]
    BY <1>5, Zenon DEF Fail, AfterFault
  <2> QED
    BY <1>1, <1>3, <2>1, AfterFine, ShakenFine
<1>6. CASE ~run[t].tearing /\ ~(run[t].name = "enter" /\ ~run[t].tearing /\ ~run[t].torn)
  <2>1. run' = [Shaken(t) EXCEPT ![t] = Idle]
    BY <1>6 DEF Fail
  <2> QED
    BY <1>3, <2>1, IdleFine, ShakenFine
<1> QED
  BY <1>4, <1>5, <1>6

LEMMA KillFine ==
  ASSUME RunsOK, NEW t \in Terminals, Kill(t)
  PROVE  RunsOK' /\ run'[t] = Idle /\ \A u \in Terminals \ {t} : run'[u] = Dented(run[u])
<1>1. run[t] # Idle /\ run' = [Shaken(t) EXCEPT ![t] = Idle]
  BY DEF Kill
<1> QED
  BY <1>1, IdleFine, ShakenFine

\* The two detours of an uninstall and the shortcut of a teardown.
LEMMA ProdBarFine ==
  ASSUME RunsOK, NEW t \in Terminals, ProdBar(t)
  PROVE  /\ RunsOK' /\ UNCHANGED past
         /\ LET e == Tail(From(run[t].todo, "dropBar")) IN
            \/ /\ Ahead(run'[t].todo) = {"patchProd", "dropDevBar"} \cup Ahead(e)
               /\ run'[t] = [run[t] EXCEPT !.todo = run'[t].todo]
               /\ \A x \in Ahead(e) : x \in Ahead(run[t].todo) /\ Earlier("dropBar", x)
               /\ \A x \in Ahead(run[t].todo) : x \in Ahead(e) \/ x = "dropBar" \/ Earlier(x, "dropBar")
               /\ desk.packaged /\ (saved.bar["Prod"] # {} \/ saved.pristine["Prod"] # {})
            \/ /\ run'[t] = [run[t] EXCEPT !.todo = Tail(@)] /\ UNCHANGED bar
               /\ ~(desk.packaged /\ (saved.bar["Prod"] # {} \/ saved.pristine["Prod"] # {}))
<1> DEFINE e == Tail(From(run[t].todo, "dropBar"))
           two == <<"patchProd", "dropDevBar">>
<1>1. At(t, "prodBar")
  BY DEF ProdBar
<1>2. run[t] \in Runs /\ Good(run[t]) /\ "prodBar" \in Ahead(run[t].todo) /\ "prodBar" \in Scope(run[t])
  BY <1>1, NextStep
<1>3. CASE desk.packaged /\ (saved.bar["Prod"] # {} \/ saved.pristine["Prod"] # {})
  <2>1. "dropBar" \in Ahead(run[t].todo) /\ "exit" \in Ahead(run[t].todo)
    BY <1>2 DEF Good, Closed
  <2>2. /\ e \in Seq(Steps) /\ Sorted(e) /\ Ahead(e) \subseteq Ahead(run[t].todo)
        /\ \A x \in Ahead(e) : Earlier("dropBar", x)
        /\ \A x \in Ahead(run[t].todo) : x \in Ahead(e) \/ x = "dropBar" \/ Earlier(x, "dropBar")
    BY <1>2, <2>1, Behind DEF Good, Runs
  <2>3. run' = [run EXCEPT ![t].todo = two \o e] /\ UNCHANGED past
    BY <1>3 DEF ProdBar, Goto
  <2>4. Within(two, 4, 5) /\ Ahead(two) = {"patchProd", "dropDevBar"}
    <3>1. "patchProd" \in Steps /\ "dropDevBar" \in Steps
      BY StepKinds DEF Undoing
    <3> QED
      BY <3>1, TwoSteps, Ranks
  <2> HIDE DEF e, two
  <2>5. two \o e \in Seq(Steps) /\ Ahead(two \o e) = {"patchProd", "dropDevBar"} \cup Ahead(e)
    BY <2>2, <2>4, AheadCat DEF Within
  <2>6. Sorted(two \o e)
    <3>1. ASSUME NEW x \in Ahead(e) PROVE Earlier("patchProd", x) /\ Earlier("dropDevBar", x)
      <4>1. x \in Steps /\ Earlier("dropBar", x)
        BY <2>2 DEF Ahead
      <4> QED
        BY <4>1, StepNumbers, Ranks DEF Earlier
    <3> QED
      BY <2>2, <2>4, <3>1, SortedCat DEF Within
  <2>7. Ahead(two \o e) \subseteq Scope(run[t])
    <3>1. "prodBar" \notin Doing /\ "patchProd" \in Undoing /\ "dropDevBar" \in Undoing
      BY DEF Doing, Undoing, Both
    <3>2. Scope(run[t]) = Undoing
      BY <1>2, <3>1 DEF Scope
    <3> QED
      BY <1>2, <2>2, <2>5, <3>1, <3>2 DEF Good
  <2>8. Closed(Ahead(two \o e))
    <3>1. ~Earlier("dropBar", "detect") /\ ~Earlier("dropBar", "prodBar") /\ ~Earlier("dropBar", "dropBar")
          /\ ~Earlier("exit", "dropBar")
      BY Ranks DEF Earlier
    <3>2. "exit" \in Ahead(e)
      BY <2>1, <2>2, <3>1
    <3>3. Closed(Ahead(run[t].todo))
      BY <1>2 DEF Good
    <3> QED
      BY <2>2, <2>5, <3>1, <3>2, <3>3 DEF Closed
  <2>9. RunsOK' /\ run'[t] = [run[t] EXCEPT !.todo = two \o e]
    BY <1>1, <2>3, <2>5, <2>6, <2>7, <2>8, GotoFine
  <2>10. run'[t].todo = two \o e
    BY <1>2, <2>9 DEF Runs
  <2> QED
    BY <1>3, <2>2, <2>3, <2>5, <2>9, <2>10 DEF e
<1>4. CASE ~(desk.packaged /\ (saved.bar["Prod"] # {} \/ saved.pristine["Prod"] # {}))
  <2>1. Pop(t) /\ UNCHANGED bar
    BY <1>4 DEF ProdBar
  <2>2. UNCHANGED past
    BY <2>1 DEF Pop, PopWith
  <2>3. RunsOK' /\ run'[t] = [run[t] EXCEPT !.todo = Tail(@)]
    BY <1>1, <2>1, PlainPop
  <2> QED
    BY <1>4, <2>1, <2>2, <2>3
<1> QED
  BY <1>3, <1>4

LEMMA DetectFine ==
  ASSUME RunsOK, NEW t \in Terminals, Detect(t)
  PROVE  /\ RunsOK' /\ UNCHANGED past
         /\ run'[t] = [run[t] EXCEPT !.todo = run'[t].todo]
         /\ \/ Stale /\ Ahead(run'[t].todo) = Ahead(run[t].todo) \ {"detect"}
            \/ /\ ~Stale /\ Ahead(run'[t].todo) \subseteq Ahead(run[t].todo)
               /\ \A x \in Ahead(run'[t].todo) : x = "unmark" \/ Earlier("unmark", x)
               /\ \A x \in Ahead(run[t].todo) : x \in Ahead(run'[t].todo) \/ Earlier(x, "unmark")
<1>1. At(t, "detect") /\ UNCHANGED past
  BY DEF Detect, Goto
<1>2. /\ run[t] \in Runs /\ Good(run[t]) /\ "detect" \in Ahead(run[t].todo)
      /\ Tail(run[t].todo) \in Seq(Steps) /\ Sorted(Tail(run[t].todo))
      /\ Ahead(Tail(run[t].todo)) = Ahead(run[t].todo) \ {"detect"}
  BY <1>1, NextStep
<1>3. CASE Stale
  <2>1. run' = [run EXCEPT ![t].todo = Tail(run[t].todo)]
    BY <1>3 DEF Detect, Goto
  <2>2. Ahead(Tail(run[t].todo)) \subseteq Scope(run[t]) /\ Closed(Ahead(Tail(run[t].todo)))
    <3>1. run[t].todo \in Seq(Steps) /\ run[t].todo # <<>>
      BY <1>1, <1>2 DEF Runs, At
    <3> QED
      BY <1>2, <3>1, TailClosed DEF Good
  <2>3. RunsOK' /\ run'[t] = [run[t] EXCEPT !.todo = Tail(run[t].todo)]
    BY <1>1, <1>2, <2>1, <2>2, GotoFine
  <2>4. run'[t].todo = Tail(run[t].todo)
    BY <1>2, <2>3 DEF Runs
  <2> QED
    BY <1>1, <1>2, <1>3, <2>3, <2>4
<1>4. CASE ~Stale
  <2> DEFINE f == From(run[t].todo, "unmark")
  <2>1. run' = [run EXCEPT ![t].todo = f]
    BY <1>4 DEF Detect, Goto
  <2>2. "unmark" \in Ahead(run[t].todo)
    BY <1>2 DEF Good, Closed
  <2>3. /\ f \in Seq(Steps) /\ f # <<>> /\ Head(f) = "unmark" /\ Sorted(f) /\ Ahead(f) \subseteq Ahead(run[t].todo)
        /\ \A x \in Ahead(run[t].todo) \ Ahead(f) : Earlier(x, "unmark")
    BY <1>2, <2>2, FromStep DEF Good, Runs
  <2> HIDE DEF f
  <2>4. \A x \in Ahead(f) : x = "unmark" \/ Earlier("unmark", x)
    BY <2>3, Rest
  <2>5. /\ ~Earlier("unmark", "detect") /\ ~Earlier("unmark", "prodBar") /\ ~Earlier("unmark", "dropBar")
        /\ ~Earlier("unmark", "barBackup") /\ ~Earlier("unmark", "ensureProd")
    BY Ranks DEF Earlier
  <2>6. Closed(Ahead(f)) /\ Ahead(f) \subseteq Scope(run[t])
    BY <1>2, <2>3, <2>4, <2>5 DEF Closed, Good
  <2>7. RunsOK' /\ run'[t] = [run[t] EXCEPT !.todo = f]
    BY <1>1, <2>1, <2>3, <2>6, GotoFine
  <2>8. run'[t].todo = f
    BY <1>2, <2>7 DEF Runs
  <2>9. \A x \in Ahead(run[t].todo) : x \in Ahead(f) \/ Earlier(x, "unmark")
    BY <2>3
  <2> QED
    BY <1>1, <1>4, <2>3, <2>4, <2>7, <2>8, <2>9
<1> QED
  BY <1>3, <1>4

LEMMA EnsureProdFine ==
  ASSUME RunsOK, NEW t \in Terminals, EnsureProd(t)
  PROVE  /\ RunsOK' /\ UNCHANGED past
         /\ run'[t] = [run[t] EXCEPT !.todo = run'[t].todo]
         /\ \/ saved.hypr["Prod"] = {} /\ Ahead(run'[t].todo) = Ahead(run[t].todo) \ {"ensureProd"}
            \/ /\ saved.hypr["Prod"] # {}
               /\ Ahead(run'[t].todo) = (Ahead(run[t].todo) \ {"ensureProd"}) \cup {"addProd"}
                      \cup (IF run[t].restored THEN {} ELSE {"readDev", "stripDev"})
<1>1. At(t, "ensureProd")
  BY DEF EnsureProd
<1> DEFINE e == Tail(run[t].todo)
<1>2. /\ run[t] \in Runs /\ Good(run[t]) /\ "ensureProd" \in Ahead(run[t].todo) /\ "ensureProd" \in Scope(run[t])
      /\ e \in Seq(Steps) /\ Sorted(e) /\ Ahead(e) = Ahead(run[t].todo) \ {"ensureProd"}
      /\ \A x \in Ahead(e) : Earlier("ensureProd", x)
  BY <1>1, NextStep
<1>3. CASE saved.hypr["Prod"] = {}
  <2>1. Pop(t)
    BY <1>3 DEF EnsureProd
  <2>2. UNCHANGED past
    BY <2>1 DEF Pop, PopWith
  <2>3. RunsOK' /\ run'[t] = [run[t] EXCEPT !.todo = e]
    BY <1>1, <2>1, PlainPop
  <2> HIDE DEF e
  <2>4. run'[t].todo = e
    BY <1>2, <2>3 DEF Runs
  <2> QED
    BY <1>2, <1>3, <2>2, <2>3, <2>4
<1>4. CASE saved.hypr["Prod"] # {}
  <2> DEFINE again == IF run[t].restored THEN <<>> ELSE <<"readDev", "stripDev">>
             two == again \o <<"addProd">>
  <2>1. run' = [run EXCEPT ![t].todo = two \o e] /\ UNCHANGED past
    BY <1>4 DEF EnsureProd, Goto
  <2>2. Within(again, 11, 12) /\ Ahead(again) = IF run[t].restored THEN {} ELSE {"readDev", "stripDev"}
    <3>1. CASE run[t].restored
      BY <3>1, Nothing, Zenon
    <3>2. CASE ~run[t].restored
      <4>1. "readDev" \in Steps /\ "stripDev" \in Steps
        BY StepKinds DEF Undoing, Both
      <4>2. /\ Within(<<"readDev", "stripDev">>, 11, 12)
            /\ Ahead(<<"readDev", "stripDev">>) = {"readDev", "stripDev"}
        BY <4>1, TwoSteps, Ranks
      <4> QED
        BY <3>2, <4>2
    <3> QED
      BY <3>1, <3>2
  <2> HIDE DEF again
  <2>3. Within(<<"addProd">>, 17, 17) /\ Ahead(<<"addProd">>) = {"addProd"}
    BY OneStep, Ranks, StepKinds DEF Undoing
  <2>4. Within(two, 11, 17) /\ Ahead(two) = Ahead(again) \cup {"addProd"}
    BY <2>2, <2>3, WithinCat
  <2> HIDE DEF two, e
  <2>5. two \o e \in Seq(Steps) /\ Ahead(two \o e) = Ahead(two) \cup Ahead(e)
    BY <1>2, <2>4, AheadCat DEF Within
  <2>6. Scope(run[t]) = Undoing
    <3>1. "ensureProd" \notin Doing
      BY DEF Doing, Both
    <3> QED
      BY <1>2, <3>1 DEF Scope
  <2>7. \A x \in Ahead(e) : x \in Undoing /\ x \in Ahead(run[t].todo) /\ x # "ensureProd" /\ x # "addProd"
    BY <1>2, <2>6 DEF Good, Closed
  <2>8. Sorted(two \o e)
    <3>1. ASSUME NEW y \in Ahead(two), NEW x \in Ahead(e) PROVE Earlier(y, x)
      <4>1. y \in {"readDev", "stripDev", "addProd"}
        BY <2>2, <2>4
      <4>2. x \in Undoing /\ x # "addProd" /\ Earlier("ensureProd", x)
        BY <1>2, <2>7
      <4>3. Rank[x] \in Nat /\ Rank[x] > 17
        <5>1. Rank[x] \in Nat /\ Rank[x] > 16
          <6>1. x # "stopProd" /\ Rank["ensureProd"] = 16 /\ x \in Steps
            BY <4>2, Ranks, StepKinds DEF Undoing, Both
          <6> QED
            BY <4>2, <6>1, StepNumbers DEF Earlier
        <5>2. x \in Undoing => Rank[x] # 17 \/ x = "addProd"
          BY Ranks DEF Undoing, Both
        <5> QED
          BY <4>2, <5>1, <5>2
      <4>4. Rank[y] <= 17
        BY <4>1, Ranks
      <4>5. y # "stopProd" /\ y \in Steps
        BY <4>1, StepKinds DEF Undoing, Both
      <4>6. Rank[y] \in Nat
        BY <4>5, StepNumbers
      <4> QED
        BY <4>3, <4>4, <4>6 DEF Earlier
    <3> QED
      BY <1>2, <2>4, <3>1, SortedCat DEF Within
  <2>9. Ahead(two \o e) \subseteq Scope(run[t])
    <3>1. {"readDev", "stripDev", "addProd"} \subseteq Undoing
      BY DEF Undoing, Both
    <3> QED
      BY <2>2, <2>4, <2>5, <2>6, <2>7, <3>1
  <2>10. Closed(Ahead(two \o e))
    <3>1. /\ ~Earlier("ensureProd", "detect") /\ ~Earlier("ensureProd", "prodBar")
          /\ ~Earlier("ensureProd", "dropBar")
      <4>1. Rank["detect"] = 1 /\ Rank["prodBar"] = 3 /\ Rank["dropBar"] = 7 /\ Rank["ensureProd"] = 16
        BY Ranks
      <4> QED
        BY <4>1 DEF Earlier
    <3>2. \A x \in {"detect", "prodBar", "dropBar", "ensureProd"} : x \notin Ahead(e)
      BY <1>2, <3>1
    <3>3. \A x \in {"detect", "prodBar", "dropBar", "barBackup", "ensureProd"} : x \notin Ahead(two)
      BY <2>2, <2>4
    <3>4. "barBackup" \notin Ahead(e)
      <4>1. "barBackup" \notin Undoing
        BY DEF Undoing, Both
      <4> QED
        BY <2>7, <4>1
    <3> QED
      BY <2>5, <3>2, <3>3, <3>4 DEF Closed
  <2>11. RunsOK' /\ run'[t] = [run[t] EXCEPT !.todo = two \o e]
    BY <1>1, <2>1, <2>5, <2>8, <2>9, <2>10, GotoFine
  <2>12. run'[t].todo = two \o e
    BY <1>2, <2>11 DEF Runs
  <2> QED
    BY <1>2, <1>4, <2>1, <2>2, <2>4, <2>5, <2>11, <2>12
<1> QED
  BY <1>3, <1>4

-----------------------------------------------------------------------------
(* Types. *)

LEMMA TypesFollow == TypeInv /\ late \in BOOLEAN => TypeOK
<1> SUFFICES ASSUME TypeInv, late \in BOOLEAN PROVE TypeOK
  OBVIOUS
<1>1. bounds.commands <= MaxCommands /\ bounds.faults <= MaxFaults
  BY BoundsAssumption DEF TypeInv, BoundsOK
<1>2. \A t \in Terminals : run[t].buffer \in Lines /\ run[t].backup \in Backups /\ run[t].bar \in File(Bars)
  BY DEF TypeInv, RunsOK, Runs
<1> QED
  BY <1>1, <1>2 DEF TypeInv, TypeOK, FilesOK, Facts

\* Files.
LEMMA FileFacts ==
  /\ \A S, c : c \in S => {c} \in File(S)
  /\ \A S : {} \in File(S)
  /\ \A S : \A f \in File(S) : f = {} \/ \E c \in S : f = {c}
BY DEF File

LEMMA LineFacts ==
  /\ \A l \in Lines : Content(l) \in SUBSET Profiles
  /\ \A S \in SUBSET Profiles : {S} \in Lines /\ Content({S}) = S
  /\ {} \in Lines /\ Content({}) = {}
  /\ \A l \in Lines, p \in Profiles : {lines \ {p} : lines \in l} \in Lines
<1>1. \A S : Content({S}) = S
  BY DEF Content
<1>2. Content({}) = {}
  BY DEF Content
<1>3. \A l \in Lines : l = {} \/ \E S \in SUBSET Profiles : l = {S}
  BY FileFacts DEF Lines
<1>4. \A S \in SUBSET Profiles : {S} \in Lines
  BY FileFacts DEF Lines
<1>5. {} \in Lines
  BY FileFacts DEF Lines
<1>6. ASSUME NEW l \in Lines PROVE Content(l) \in SUBSET Profiles
  <2>1. CASE l = {}
    BY <1>2, <2>1
  <2>2. CASE l # {}
    <3>1. PICK S \in SUBSET Profiles : l = {S}
      BY <1>3, <2>2
    <3>2. Content(l) = S
      BY <1>1, <3>1
    <3> QED
      BY <3>2
  <2> QED
    BY <2>1, <2>2
<1>7. ASSUME NEW l \in Lines, NEW p \in Profiles PROVE {lines \ {p} : lines \in l} \in Lines
  <2>1. CASE l = {}
    <3>1. {lines \ {p} : lines \in l} = {}
      BY <2>1
    <3> QED
      BY <1>5, <3>1
  <2>2. CASE l # {}
    <3>1. PICK S \in SUBSET Profiles : l = {S}
      BY <1>3, <2>2
    <3>2. {lines \ {p} : lines \in l} = {S \ {p}}
      BY <3>1
    <3>3. S \ {p} \in SUBSET Profiles
      OBVIOUS
    <3> QED
      BY <1>4, <3>2, <3>3
  <2> QED
    BY <2>1, <2>2
<1> QED
  BY <1>1, <1>2, <1>4, <1>5, <1>6, <1>7

LEMMA Popped ==
  ASSUME TypeInv, NEW t \in Terminals, NEW s, At(t, s), s # "wait", NEW r \in Runs,
         r.todo = run[t].todo, r.name = run[t].name, r.tearing = run[t].tearing, PopWith(t, r), FilesOK'
  PROVE  TypeInv'
<1>1. run' = [run EXCEPT ![t] = [r EXCEPT !.todo = Tail(@)]] /\ UNCHANGED <<desk, bounds, past>>
  BY DEF PopWith
<1>2. RunsOK'
  BY <1>1, PopFine DEF TypeInv
<1> QED
  BY <1>1, <1>2 DEF TypeInv, BoundsOK

LEMMA JustPopped ==
  ASSUME TypeInv, NEW t \in Terminals, NEW s, At(t, s), s # "wait", Pop(t), FilesOK'
  PROVE  TypeInv'
<1>1. run[t] \in Runs /\ PopWith(t, run[t])
  BY DEF TypeInv, RunsOK, Pop
<1> QED
  BY <1>1, Popped

LEMMA ProfileOf == \A t \in Terminals : Profile(t) \in Profiles
BY DEF Profile, Profiles

LEMMA ToolsTyped ==
  ASSUME TypeInv, NEW t \in Terminals,
         Schema(t) \/ Share(t) \/ Openers(t) \/ Editor(t) \/ \E piece \in Helper : Chromium(t, piece)
  PROVE  TypeInv'
<1>1. CASE Schema(t)
  <2>1. FilesOK'
    BY <1>1 DEF Schema, TypeInv, FilesOK
  <2> QED
    BY <1>1, <2>1, JustPopped DEF Schema
<1>2. CASE Share(t)
  <2> DEFINE d == tools.devShare \/ Profile(t) = "Dev"
  <2>1. d \in BOOLEAN /\ tools' = [tools EXCEPT !.devShare = d]
    BY <1>2 DEF Share
  <2> HIDE DEF d
  <2>2. FilesOK'
    BY <1>2, <2>1 DEF Share, TypeInv, FilesOK
  <2> QED
    BY <1>2, <2>2, JustPopped DEF Share
<1>3. CASE Openers(t)
  <2>1. FilesOK'
    BY <1>3, ProfileOf DEF Openers, TypeInv, FilesOK
  <2> QED
    BY <1>3, <2>1, JustPopped DEF Openers
<1>4. CASE Editor(t)
  <2>1. FilesOK'
    BY <1>4, ProfileOf DEF Editor, TypeInv, FilesOK
  <2> QED
    BY <1>4, <2>1, JustPopped DEF Editor
<1>5. ASSUME NEW piece \in Helper, Chromium(t, piece) PROVE TypeInv'
  <2>1. FilesOK'
    BY <1>5 DEF Chromium, TypeInv, FilesOK
  <2>2. (IF piece = "manifest" THEN "helperManifest" ELSE piece) # "wait"
    BY DEF Helper
  <2> QED
    BY <1>5, <2>1, <2>2, JustPopped DEF Chromium
<1> QED
  BY <1>1, <1>2, <1>3, <1>4, <1>5

LEMMA MenuTyped ==
  ASSUME TypeInv, NEW t \in Terminals,
         \/ Elephant(t) \/ WalkerManifest(t) \/ (\E ui \in Uis : CopyPlugin(t, ui)) \/ Enable(t) \/ PatchMenu(t)
         \/ Disable(t) \/ UnpatchMenu(t)
  PROVE  TypeInv'
<1>1. CASE Elephant(t)
  <2>1. FilesOK'
    BY <1>1 DEF Elephant, TypeInv, FilesOK
  <2> QED
    BY <1>1, <2>1, JustPopped DEF Elephant
<1>2. CASE WalkerManifest(t)
  <2>1. FilesOK'
    BY <1>2 DEF WalkerManifest, TypeInv, FilesOK, Profiles
  <2> QED
    BY <1>2, <2>1, JustPopped DEF WalkerManifest
<1>3. ASSUME NEW ui \in Uis, CopyPlugin(t, ui) PROVE TypeInv'
  <2>1. FilesOK'
    BY <1>3, ProfileOf DEF CopyPlugin, TypeInv, FilesOK
  <2>2. ui # "wait"
    BY DEF Uis
  <2> QED
    BY <1>3, <2>1, <2>2, JustPopped DEF CopyPlugin
<1>4. CASE Enable(t)
  <2>1. FilesOK'
    BY <1>4 DEF Enable, TypeInv, FilesOK
  <2> QED
    BY <1>4, <2>1, JustPopped DEF Enable
<1>5. CASE PatchMenu(t)
  <2>1. FilesOK'
    BY <1>5 DEF PatchMenu, TypeInv, FilesOK
  <2> QED
    BY <1>5, <2>1, JustPopped DEF PatchMenu
<1>6. CASE Disable(t)
  <2> DEFINE on == IF menu.ui = "none" THEN menu.on ELSE FALSE
  <2>1. on \in BOOLEAN /\ menu' = [menu EXCEPT !.on = on, !.spaces = TRUE]
    <3>1. menu.on \in BOOLEAN
      BY DEF TypeInv, FilesOK
    <3> QED
      BY <1>6, <3>1 DEF Disable
  <2> HIDE DEF on
  <2>2. FilesOK'
    BY <1>6, <2>1 DEF Disable, TypeInv, FilesOK
  <2> QED
    BY <1>6, <2>2, JustPopped DEF Disable
<1>7. CASE UnpatchMenu(t)
  <2>1. FilesOK'
    BY <1>7 DEF UnpatchMenu, TypeInv, FilesOK
  <2> QED
    BY <1>7, <2>1, JustPopped DEF UnpatchMenu
<1> QED
  BY <1>1, <1>2, <1>3, <1>4, <1>5, <1>6, <1>7

LEMMA SessionTyped ==
  ASSUME TypeInv, NEW t \in Terminals,
         \/ Main(t) \/ Systemd(t) \/ StopProd(t) \/ Mark(t) \/ Serve(t) \/ StopDev(t) \/ Unmark(t) \/ StartProd(t)
  PROVE  TypeInv'
<1>0. session \in [marker : BOOLEAN, prodUp : BOOLEAN, devUp : BOOLEAN, noted : BOOLEAN]
  BY DEF TypeInv, FilesOK
<1>1. CASE Main(t)
  <2> DEFINE m == session.marker /\ (session.devUp \/ ~session.prodUp)
  <2>1. m \in BOOLEAN /\ session' = [session EXCEPT !.marker = m]
    BY <1>1 DEF Main
  <2> HIDE DEF m
  <2>2. FilesOK'
    BY <1>1, <2>1 DEF Main, TypeInv, FilesOK
  <2> QED
    BY <1>1, <2>2, JustPopped DEF Main
<1>2. CASE Systemd(t)
  <2>1. FilesOK'
    BY <1>2 DEF Systemd, TypeInv, FilesOK
  <2> QED
    BY <1>2, <2>1, JustPopped DEF Systemd
<1>3. CASE StopProd(t)
  <2>1. FilesOK'
    <3>1. session' = [session EXCEPT !.prodUp = FALSE, !.noted = session.prodUp] /\ UNCHANGED <<binds, bar, menu, tools, saved>>
      BY <1>3 DEF StopProd
    <3>2. session' \in [marker : BOOLEAN, prodUp : BOOLEAN, devUp : BOOLEAN, noted : BOOLEAN]
      BY <1>0, <3>1
    <3> QED
      BY <3>1, <3>2 DEF TypeInv, FilesOK
  <2> DEFINE w == run[t].was \/ session.prodUp
             r == [run[t] EXCEPT !.was = w]
  <2>2. run[t] \in Runs
    BY DEF TypeInv, RunsOK
  <2>3. PopWith(t, r) /\ At(t, "stopProd")
    BY <1>3 DEF StopProd
  <2>4. w \in BOOLEAN
    OBVIOUS
  <2> HIDE DEF w
  <2>5. r \in Runs /\ r.todo = run[t].todo /\ r.name = run[t].name /\ r.tearing = run[t].tearing
    BY <2>2, <2>4 DEF Runs
  <2> HIDE DEF r
  <2> QED
    BY <2>1, <2>3, <2>5, Popped
<1>4. CASE Mark(t)
  <2>1. FilesOK'
    BY <1>4 DEF Mark, TypeInv, FilesOK
  <2> QED
    BY <1>4, <2>1, JustPopped DEF Mark
<1>5. CASE Serve(t)
  <2>1. FilesOK'
    BY <1>5 DEF Serve, TypeInv, FilesOK
  <2> QED
    BY <1>5, <2>1, JustPopped DEF Serve
<1>6. CASE StopDev(t)
  <2>1. FilesOK'
    <3>1. session' = [session EXCEPT !.devUp = FALSE] /\ UNCHANGED <<binds, bar, menu, tools, saved>>
      BY <1>6 DEF StopDev
    <3>2. session' \in [marker : BOOLEAN, prodUp : BOOLEAN, devUp : BOOLEAN, noted : BOOLEAN]
      BY <1>0, <3>1
    <3> QED
      BY <3>1, <3>2 DEF TypeInv, FilesOK
  <2> QED
    BY <1>6, <2>1, JustPopped DEF StopDev
<1>7. CASE Unmark(t)
  <2>1. FilesOK'
    <3>1. session' = [session EXCEPT !.marker = FALSE] /\ UNCHANGED <<binds, bar, menu, tools, saved>>
      BY <1>7 DEF Unmark
    <3>2. session' \in [marker : BOOLEAN, prodUp : BOOLEAN, devUp : BOOLEAN, noted : BOOLEAN]
      BY <1>0, <3>1
    <3> QED
      BY <3>1, <3>2 DEF TypeInv, FilesOK
  <2> QED
    BY <1>7, <2>1, JustPopped DEF Unmark
<1>8. CASE StartProd(t)
  <2> DEFINE p == session.prodUp \/ session.noted \/ run[t].was \/ tools.enabled
  <2>1. p \in BOOLEAN /\ session' = [session EXCEPT !.prodUp = p, !.noted = FALSE]
    BY <1>8 DEF StartProd
  <2> HIDE DEF p
  <2>2. FilesOK'
    BY <1>8, <2>1 DEF StartProd, TypeInv, FilesOK
  <2> QED
    BY <1>8, <2>2, JustPopped DEF StartProd
<1> QED
  BY <1>1, <1>2, <1>3, <1>4, <1>5, <1>6, <1>7, <1>8

\* Bindings, and what a command remembers of them.
BindsType == [conf : Lines, lua : Lines, native : BOOLEAN]

LEMMA BindsTyped ==
  ASSUME TypeInv, NEW t \in Terminals,
         \/ Backup(t) \/ AppendLines(t) \/ Gestures(t) \/ Block(t) \/ AddProd(t)
         \/ \E p \in Profiles : ReadConf(t, p) \/ StripConf(t, p) \/ StripBlock(t, p)
  PROVE  TypeInv'
<1>0. binds \in BindsType /\ run[t] \in Runs /\ Profile(t) \in Profiles
  BY ProfileOf DEF TypeInv, FilesOK, RunsOK, BindsType
<1>f. ASSUME binds' \in BindsType, UNCHANGED <<bar, menu, tools, saved, session>> PROVE FilesOK'
  BY <1>f DEF TypeInv, FilesOK, BindsType
<1>1. CASE Backup(t)
  <2> DEFINE b == [text |-> Bindings, native |-> FALSE]
             c == IF desk.kind # "lua" /\ binds.conf = {} THEN {{}} ELSE binds.conf
             r == [run[t] EXCEPT !.backup = b]
  <2>1. Bindings \in Lines
    BY <1>0 DEF Bindings, BindsType
  <2>2. b \in Backups
    BY <2>1 DEF Backups
  <2>3. c \in Lines
    <3>1. {{}} \in Lines
      BY FileFacts DEF Lines
    <3> QED
      BY <1>0, <3>1 DEF BindsType
  <2>4. binds' = [binds EXCEPT !.conf = c] /\ PopWith(t, r) /\ At(t, "backup")
    BY <1>1 DEF Backup
  <2> HIDE DEF b, c
  <2>5. r \in Runs /\ r.todo = run[t].todo /\ r.name = run[t].name /\ r.tearing = run[t].tearing
    BY <1>0, <2>2 DEF Runs
  <2>6. binds' \in BindsType
    BY <1>0, <2>3, <2>4 DEF BindsType
  <2>7. FilesOK'
    BY <1>1, <1>f, <2>6 DEF Backup
  <2> HIDE DEF r
  <2> QED
    BY <2>4, <2>5, <2>7, Popped
<1>2. CASE AppendLines(t)
  <2> DEFINE c == {Content(binds.conf) \cup {Profile(t)}}
  <2>1. c \in Lines
    BY <1>0, LineFacts DEF BindsType
  <2>2. binds' = [binds EXCEPT !.conf = c]
    BY <1>2 DEF AppendLines
  <2> HIDE DEF c
  <2>3. binds' \in BindsType
    BY <1>0, <2>1, <2>2 DEF BindsType
  <2> QED
    BY <1>2, <1>f, <2>3, JustPopped DEF AppendLines
<1>3. CASE Gestures(t)
  <2> DEFINE r == [run[t] EXCEPT !.backup.native = binds.native]
  <2>1. binds' = [binds EXCEPT !.native = FALSE] /\ PopWith(t, r) /\ At(t, "gestures")
    BY <1>3 DEF Gestures
  <2>2. r \in Runs /\ r.todo = run[t].todo /\ r.name = run[t].name /\ r.tearing = run[t].tearing
    <3>1. [run[t].backup EXCEPT !.native = binds.native] \in Backups
      BY <1>0 DEF Runs, Backups, BindsType
    <3>2. r = [run[t] EXCEPT !.backup = [run[t].backup EXCEPT !.native = binds.native]]
      OBVIOUS
    <3> HIDE DEF r
    <3> QED
      BY <1>0, <3>1, <3>2 DEF Runs
  <2> HIDE DEF r
  <2>3. binds' \in BindsType
    BY <1>0, <2>1 DEF BindsType
  <2>4. FilesOK'
    BY <1>3, <1>f, <2>3 DEF Gestures
  <2> QED
    BY <2>1, <2>2, <2>4, Popped
<1>4. CASE Block(t)
  <2> DEFINE c == {Content(binds.lua) \cup {Profile(t)}}
  <2>1. c \in Lines
    BY <1>0, LineFacts DEF BindsType
  <2>2. binds' = [binds EXCEPT !.lua = c]
    BY <1>4 DEF Block
  <2> HIDE DEF c
  <2>3. binds' \in BindsType
    BY <1>0, <2>1, <2>2 DEF BindsType
  <2> QED
    BY <1>4, <1>f, <2>3, JustPopped DEF Block
<1>5. CASE AddProd(t)
  <2> DEFINE c == {Content(binds.conf) \cup {"Prod"}}
  <2>1. c \in Lines
    BY <1>0, LineFacts DEF BindsType, Profiles
  <2>2. binds' = [binds EXCEPT !.conf = c]
    BY <1>5 DEF AddProd
  <2> HIDE DEF c
  <2>3. binds' \in BindsType
    BY <1>0, <2>1, <2>2 DEF BindsType
  <2> QED
    BY <1>5, <1>f, <2>3, JustPopped DEF AddProd
<1>6. ASSUME NEW p \in Profiles, ReadConf(t, p) PROVE TypeInv'
  <2> DEFINE r == [run[t] EXCEPT !.buffer = binds.conf]
             s == IF p = "Dev" THEN "readDev" ELSE "readProd"
  <2>1. PopWith(t, r) /\ At(t, s) /\ s # "wait" /\ UNCHANGED binds
    BY <1>6 DEF ReadConf
  <2>2. r \in Runs /\ r.todo = run[t].todo /\ r.name = run[t].name /\ r.tearing = run[t].tearing
    BY <1>0 DEF Runs, BindsType
  <2> HIDE DEF r, s
  <2>3. FilesOK'
    BY <1>0, <1>6, <1>f, <2>1 DEF ReadConf
  <2> QED
    BY <2>1, <2>2, <2>3, Popped
<1>7. ASSUME NEW p \in Profiles, StripConf(t, p) PROVE TypeInv'
  <2> DEFINE r == [run[t] EXCEPT !.buffer = {}]
             s == IF p = "Dev" THEN "stripDev" ELSE "stripProd"
             c == IF p \in Content(run[t].buffer) THEN {Content(run[t].buffer) \ {p}} ELSE binds.conf
  <2>1. PopWith(t, r) /\ At(t, s) /\ s # "wait" /\ binds' = [binds EXCEPT !.conf = c]
    BY <1>7 DEF StripConf
  <2>2. r \in Runs /\ r.todo = run[t].todo /\ r.name = run[t].name /\ r.tearing = run[t].tearing
    BY <1>0, LineFacts DEF Runs
  <2>3. c \in Lines
    <3>1. Content(run[t].buffer) \in SUBSET Profiles
      BY <1>0, LineFacts DEF Runs
    <3>2. {Content(run[t].buffer) \ {p}} \in Lines
      BY <3>1, LineFacts
    <3> QED
      BY <1>0, <3>2 DEF BindsType
  <2> HIDE DEF r, s, c
  <2>4. binds' \in BindsType
    BY <1>0, <2>1, <2>3 DEF BindsType
  <2>5. FilesOK'
    BY <1>7, <1>f, <2>4 DEF StripConf
  <2> QED
    BY <2>1, <2>2, <2>5, Popped
<1>8. ASSUME NEW p \in Profiles, StripBlock(t, p) PROVE TypeInv'
  <2> DEFINE c == {lines \ {p} : lines \in binds.lua}
             s == IF p = "Dev" THEN "stripDevBlock" ELSE "stripProdBlock"
  <2>1. c \in Lines
    BY <1>0, LineFacts DEF BindsType
  <2>2. binds' = [binds EXCEPT !.lua = c] /\ At(t, s) /\ s # "wait" /\ Pop(t)
    BY <1>8 DEF StripBlock
  <2> HIDE DEF c, s
  <2>3. binds' \in BindsType
    BY <1>0, <2>1, <2>2 DEF BindsType
  <2>4. FilesOK'
    BY <1>8, <1>f, <2>3 DEF StripBlock
  <2> QED
    BY <2>2, <2>4, JustPopped
<1> QED
  BY <1>1, <1>2, <1>3, <1>4, <1>5, <1>6, <1>7, <1>8

SavedType == [hypr : [Profiles -> File(Backups)], bar : [Profiles -> File(File(Bars))],
              plain : [Profiles -> File(Bars)], pristine : [Profiles -> File(Bars)],
              walker : SUBSET Profiles, ui : [Profiles -> Uis]]

LEMMA HyprTyped ==
  ASSUME TypeInv, NEW t \in Terminals, HyprManifest(t) \/ LoadHypr(t) \/ Restore(t) \/ DropHypr(t)
  PROVE  TypeInv'
<1>0. /\ binds \in BindsType /\ saved \in SavedType /\ run[t] \in Runs /\ Profile(t) \in Profiles
      /\ "Dev" \in Profiles
  BY ProfileOf DEF TypeInv, FilesOK, RunsOK, BindsType, SavedType, Profiles
<1>f. ASSUME saved' \in SavedType, UNCHANGED <<binds, bar, menu, tools, session>> PROVE FilesOK'
  BY <1>f DEF TypeInv, FilesOK, SavedType
<1>1. CASE HyprManifest(t)
  <2> DEFINE r == [run[t] EXCEPT !.backup = Idle.backup]
             c == {run[t].backup}
  <2>1. PopWith(t, r) /\ At(t, "hyprManifest") /\ saved' = [saved EXCEPT !.hypr[Profile(t)] = c]
    BY <1>1 DEF HyprManifest
  <2>2. Idle.backup \in Backups
    BY IdleFine DEF Runs
  <2>3. r \in Runs /\ r.todo = run[t].todo /\ r.name = run[t].name /\ r.tearing = run[t].tearing
    BY <1>0, <2>2 DEF Runs
  <2>4. c \in File(Backups)
    BY <1>0, FileFacts DEF Runs
  <2> HIDE DEF r, c
  <2>5. saved' \in SavedType
    BY <1>0, <2>1, <2>4 DEF SavedType
  <2>6. FilesOK'
    BY <1>1, <1>f, <2>5 DEF HyprManifest
  <2> QED
    BY <2>1, <2>3, <2>6, Popped
<1>2. CASE LoadHypr(t)
  <2> DEFINE S == IF saved.hypr["Dev"] = {} THEN {Idle.backup} ELSE saved.hypr["Dev"]
             h == saved.hypr["Dev"] # {}
  <2>1. PICK b \in S : PopWith(t, [run[t] EXCEPT !.had = h, !.backup = b])
    BY <1>2 DEF LoadHypr
  <2>2. At(t, "loadHypr") /\ UNCHANGED <<binds, bar, menu, tools, saved, session>>
    BY <1>2 DEF LoadHypr
  <2>3. b \in Backups
    <3>1. Idle.backup \in Backups
      BY IdleFine DEF Runs
    <3> QED
      BY <1>0, <3>1, FileFacts DEF SavedType
  <2> DEFINE r == [run[t] EXCEPT !.had = h, !.backup = b]
  <2>4. h \in BOOLEAN
    OBVIOUS
  <2> HIDE DEF S, h
  <2>5. r \in Runs /\ r.todo = run[t].todo /\ r.name = run[t].name /\ r.tearing = run[t].tearing
    BY <1>0, <2>3, <2>4 DEF Runs
  <2> HIDE DEF r
  <2>6. FilesOK'
    BY <2>2 DEF TypeInv, FilesOK
  <2> QED
    BY <2>1, <2>2, <2>5, <2>6, Popped DEF r
<1>3. CASE Restore(t)
  <2> DEFINE b == run[t].backup
  <2>1. b \in Backups /\ Idle.backup \in Backups
    BY <1>0, IdleFine DEF Runs
  <2> DEFINE back == b.text # {} \/ b.native
             r == [run[t] EXCEPT !.restored = back, !.backup = Idle.backup]
             conf == IF desk.kind # "lua" /\ b.text # {} THEN b.text ELSE binds.conf
             lua == IF desk.kind = "lua" /\ b.text # {} THEN b.text ELSE binds.lua
             native == binds.native \/ b.native
  <2>3. PopWith(t, r) /\ binds' = [conf |-> conf, lua |-> lua, native |-> native]
    BY <1>3 DEF Restore
  <2>4. conf \in Lines /\ lua \in Lines /\ native \in BOOLEAN /\ back \in BOOLEAN
    BY <1>0, <2>1 DEF BindsType, Backups
  <2> HIDE DEF b, back, conf, lua, native
  <2>5. r \in Runs /\ r.todo = run[t].todo /\ r.name = run[t].name /\ r.tearing = run[t].tearing
    BY <1>0, <2>1, <2>4 DEF Runs
  <2>6. binds' \in BindsType
    BY <2>3, <2>4 DEF BindsType
  <2>7. FilesOK' /\ At(t, "restore")
    BY <1>3, <2>6 DEF Restore, TypeInv, FilesOK, BindsType
  <2> HIDE DEF r
  <2> QED
    BY <2>3, <2>5, <2>7, Popped
<1>4. CASE DropHypr(t)
  <2> DEFINE r == [run[t] EXCEPT !.had = FALSE]
             c == IF run[t].had THEN {} ELSE saved.hypr["Dev"]
  <2>1. PopWith(t, r) /\ At(t, "dropHypr") /\ saved' = [saved EXCEPT !.hypr["Dev"] = c]
    BY <1>4 DEF DropHypr
  <2>2. r \in Runs /\ r.todo = run[t].todo /\ r.name = run[t].name /\ r.tearing = run[t].tearing
    BY <1>0 DEF Runs
  <2>3. c \in File(Backups)
    BY <1>0, FileFacts DEF SavedType
  <2> HIDE DEF r, c
  <2>4. saved' \in SavedType
    BY <1>0, <2>1, <2>3 DEF SavedType
  <2>5. FilesOK'
    BY <1>4, <1>f, <2>4 DEF DropHypr
  <2> QED
    BY <2>1, <2>2, <2>5, Popped
<1> QED
  BY <1>1, <1>2, <1>3, <1>4

LEMMA BarFacts ==
  /\ \A p \in Profiles : Patched(p) \in File(Bars)
  /\ {} \in File(Bars)
  /\ \A f \in File(Bars) : {[tsk |-> "none", stock |-> TRUE] : b \in f} \in File(Bars)
  /\ \A f \in File(File(Bars)) : UNION f \in File(Bars)
<1>1. {} \in File(Bars)
  BY FileFacts
<1>2. ASSUME NEW p \in Profiles PROVE Patched(p) \in File(Bars)
  <2>1. [tsk |-> p, stock |-> FALSE] \in Bars
    BY DEF Bars
  <2> QED
    BY <2>1, FileFacts DEF Patched
<1>3. ASSUME NEW f \in File(Bars) PROVE {[tsk |-> "none", stock |-> TRUE] : b \in f} \in File(Bars)
  <2> DEFINE none == [tsk |-> "none", stock |-> TRUE]
  <2>1. none \in Bars
    BY DEF Bars
  <2> HIDE DEF none
  <2>2. {none : b \in f} = {} \/ {none : b \in f} = {none}
    OBVIOUS
  <2>3. {none : b \in f} \in File(Bars)
    <3>1. {none} \in File(Bars)
      BY <2>1, FileFacts
    <3> QED
      BY <1>1, <2>2, <3>1
  <2> QED
    BY <2>3 DEF none
<1>4. ASSUME NEW f \in File(File(Bars)) PROVE UNION f \in File(Bars)
  <2>1. CASE f = {}
    BY <1>1, <2>1
  <2>2. CASE f # {}
    <3>1. PICK g \in File(Bars) : f = {g}
      BY <2>2, FileFacts
    <3>2. UNION f = g
      BY <3>1
    <3> QED
      BY <3>2
  <2> QED
    BY <2>1, <2>2
<1> QED
  BY <1>1, <1>2, <1>3, <1>4

LEMMA BarTyped ==
  ASSUME TypeInv, NEW t \in Terminals,
         \/ Pristine(t) \/ PatchBar(t) \/ BarManifest(t) \/ PatchProd(t) \/ Seed(t) \/ RestoreBar(t) \/ UnpatchBar(t)
  PROVE  TypeInv'
<1>0. /\ bar \in File(Bars) /\ saved \in SavedType /\ run[t] \in Runs /\ "Dev" \in Profiles /\ "Prod" \in Profiles
      /\ run[t].bar \in File(Bars)
  BY DEF TypeInv, FilesOK, RunsOK, SavedType, Profiles, Runs
<1>f. ASSUME saved' \in SavedType, UNCHANGED <<binds, bar, menu, tools, session>> PROVE FilesOK'
  BY <1>f DEF TypeInv, FilesOK, SavedType
<1>g. ASSUME bar' \in File(Bars), UNCHANGED <<binds, menu, tools, saved, session>> PROVE FilesOK'
  BY <1>g DEF TypeInv, FilesOK
<1>1. CASE Pristine(t)
  <2> DEFINE c == IF saved.pristine["Dev"] = {} /\ (\E b \in run[t].bar : b.tsk = "none") THEN bar
                  ELSE saved.pristine["Dev"]
  <2>1. saved' = [saved EXCEPT !.pristine["Dev"] = c] /\ Pop(t) /\ At(t, "pristine")
    BY <1>1 DEF Pristine
  <2>2. c \in File(Bars)
    BY <1>0 DEF SavedType
  <2> HIDE DEF c
  <2>3. saved' \in SavedType
    BY <1>0, <2>1, <2>2 DEF SavedType
  <2>4. FilesOK'
    BY <1>1, <1>f, <2>3 DEF Pristine
  <2> QED
    BY <2>1, <2>4, JustPopped
<1>2. CASE PatchBar(t)
  <2>1. FilesOK'
    BY <1>0, <1>2, <1>g, BarFacts DEF PatchBar
  <2> QED
    BY <1>2, <2>1, JustPopped DEF PatchBar
<1>3. CASE BarManifest(t)
  <2> DEFINE r == [run[t] EXCEPT !.bar = {}]
             c == {run[t].bar}
  <2>1. saved' = [saved EXCEPT !.bar["Dev"] = c] /\ PopWith(t, r) /\ At(t, "barManifest")
    BY <1>3 DEF BarManifest
  <2>2. c \in File(File(Bars))
    BY <1>0, FileFacts
  <2>3. r \in Runs /\ r.todo = run[t].todo /\ r.name = run[t].name /\ r.tearing = run[t].tearing
    BY <1>0, BarFacts DEF Runs
  <2> HIDE DEF r, c
  <2>4. saved' \in SavedType
    BY <1>0, <2>1, <2>2 DEF SavedType
  <2>5. FilesOK'
    BY <1>3, <1>f, <2>4 DEF BarManifest
  <2> QED
    BY <2>1, <2>3, <2>5, Popped
<1>4. CASE PatchProd(t)
  <2>1. FilesOK'
    BY <1>0, <1>4, <1>g, BarFacts DEF PatchProd
  <2> QED
    BY <1>4, <2>1, JustPopped DEF PatchProd
<1>5. CASE Seed(t)
  <2> DEFINE h == saved.bar["Dev"] # {}
             f == UNION saved.bar["Dev"]
             r == [run[t] EXCEPT !.had = h, !.bar = f]
             c == IF saved.pristine["Dev"] = {} THEN saved.plain["Dev"] ELSE saved.pristine["Dev"]
  <2>1. saved' = [saved EXCEPT !.pristine["Dev"] = c] /\ PopWith(t, r) /\ At(t, "seed")
    BY <1>5 DEF Seed
  <2>2. c \in File(Bars) /\ h \in BOOLEAN
    BY <1>0 DEF SavedType
  <2>3. f \in File(Bars)
    <3>1. saved.bar["Dev"] \in File(File(Bars))
      BY <1>0 DEF SavedType
    <3> QED
      BY <3>1, BarFacts
  <2> HIDE DEF h, f, c
  <2>4. r \in Runs /\ r.todo = run[t].todo /\ r.name = run[t].name /\ r.tearing = run[t].tearing
    BY <1>0, <2>2, <2>3 DEF Runs
  <2> HIDE DEF r
  <2>5. saved' \in SavedType
    BY <1>0, <2>1, <2>2 DEF SavedType
  <2>6. FilesOK'
    BY <1>5, <1>f, <2>5 DEF Seed
  <2> QED
    BY <2>1, <2>4, <2>6, Popped
<1>6. CASE RestoreBar(t)
  <2> DEFINE h == saved.pristine["Dev"] # {}
             r == [run[t] EXCEPT !.restored = h, !.bar = {}]
  <2>1. PopWith(t, r) /\ At(t, "restoreBar")
    BY <1>6 DEF RestoreBar
  <2>2. bar' = saved.pristine["Dev"] \/ bar' = run[t].bar \/ bar' = bar
    BY <1>6 DEF RestoreBar
  <2>3. bar' \in File(Bars)
    BY <1>0, <2>2 DEF SavedType
  <2>4. h \in BOOLEAN
    OBVIOUS
  <2> HIDE DEF h
  <2>5. r \in Runs /\ r.todo = run[t].todo /\ r.name = run[t].name /\ r.tearing = run[t].tearing
    BY <1>0, <2>4, BarFacts DEF Runs
  <2> HIDE DEF r
  <2>6. FilesOK'
    BY <1>6, <1>g, <2>3 DEF RestoreBar
  <2> QED
    BY <2>1, <2>5, <2>6, Popped
<1>7. CASE UnpatchBar(t)
  <2>1. FilesOK'
    BY <1>0, <1>7, <1>g, BarFacts DEF UnpatchBar
  <2> QED
    BY <1>7, <2>1, JustPopped DEF UnpatchBar
<1> QED
  BY <1>1, <1>2, <1>3, <1>4, <1>5, <1>6, <1>7

\* Steps that end something: what they establish, and where a command goes on after an error.
LEMMA EndsTyped ==
  ASSUME TypeInv, RunsOK', FilesOK', UNCHANGED <<desk, bounds>>,
         \/ past' = past \/ past' = {} \/ \E S \in SUBSET Facts : past' = past \cup S
  PROVE  TypeInv'
BY DEF TypeInv, BoundsOK

LEMMA BarEndsTyped ==
  ASSUME TypeInv, NEW t \in Terminals, BarBackup(t) \/ ProdBar(t) \/ DropDevBar(t) \/ DropBar(t)
  PROVE  TypeInv'
<1>0. /\ bar \in File(Bars) /\ saved \in SavedType /\ run[t] \in Runs /\ "Dev" \in Profiles /\ "Prod" \in Profiles
      /\ RunsOK
  BY DEF TypeInv, FilesOK, RunsOK, SavedType, Profiles
<1>f. ASSUME saved' \in SavedType, UNCHANGED <<binds, bar, menu, tools, session>> PROVE FilesOK'
  BY <1>f DEF TypeInv, FilesOK, SavedType
<1>g. ASSUME bar' \in File(Bars), UNCHANGED <<binds, menu, tools, saved, session>> PROVE FilesOK'
  BY <1>g DEF TypeInv, FilesOK
<1>h. \A S : Establish(t, S) => past' = past \/ past' = past \cup S
  BY DEF Establish
<1>a. ASSUME Abort(t) PROVE past' = past \/ \E S \in SUBSET Facts : past' = past \cup S
  <2>1. past' = past \/ EndOfEnter(t)
    BY <1>a DEF Abort
  <2>2. EndOfEnter(t) => past' = past \cup {"left"} \/ past' = past \cup {}
    BY DEF EndOfEnter
  <2>3. {"left"} \in SUBSET Facts /\ {} \in SUBSET Facts
    BY DEF Facts
  <2> QED
    BY <2>1, <2>2, <2>3
<1>1. CASE BarBackup(t) /\ bar = {}
  <2>1. At(t, "barBackup") /\ Abort(t) /\ UNCHANGED <<desk, binds, bar, menu, tools, session, bounds>> /\ saved' = saved
    BY <1>1 DEF BarBackup, Fails
  <2>2. RunsOK'
    BY <1>0, <2>1, AbortFine
  <2>3. FilesOK'
    BY <1>0, <1>f, <2>1
  <2> QED
    BY <1>a, <2>1, <2>2, <2>3, EndsTyped
<1>2. CASE BarBackup(t) /\ bar # {}
  <2> DEFINE r == [run[t] EXCEPT !.bar = bar]
             c == IF saved.plain["Dev"] = {} /\ ~HasTsk THEN bar ELSE saved.plain["Dev"]
  <2>1. saved' = [saved EXCEPT !.plain["Dev"] = c] /\ PopWith(t, r) /\ At(t, "barBackup")
    BY <1>2 DEF BarBackup
  <2>2. c \in File(Bars)
    BY <1>0 DEF SavedType
  <2>3. r \in Runs /\ r.todo = run[t].todo /\ r.name = run[t].name /\ r.tearing = run[t].tearing
    BY <1>0 DEF Runs
  <2> HIDE DEF r, c
  <2>4. saved' \in SavedType
    BY <1>0, <2>1, <2>2 DEF SavedType
  <2>5. FilesOK'
    BY <1>2, <1>f, <2>4 DEF BarBackup
  <2> QED
    BY <2>1, <2>3, <2>5, Popped
<1>3. CASE ProdBar(t)
  <2>1. RunsOK' /\ UNCHANGED past
    BY <1>0, <1>3, ProdBarFine
  <2>2. bar' \in File(Bars)
    <3>1. /\ saved.pristine["Prod"] \in File(Bars)
          /\ UNION saved.bar["Prod"] \in File(Bars)
      BY <1>0, BarFacts DEF SavedType
    <3>2. bar' = saved.pristine["Prod"] \/ bar' = UNION saved.bar["Prod"] \/ bar' = bar
      BY <1>3 DEF ProdBar
    <3> QED
      BY <1>0, <3>1, <3>2
  <2>3. UNCHANGED <<desk, bounds>>
    BY <1>3 DEF ProdBar, Goto, Pop, PopWith
  <2>4. FilesOK'
    BY <1>3, <1>g, <2>2 DEF ProdBar
  <2> QED
    BY <2>1, <2>3, <2>4, EndsTyped
<1>4. CASE DropDevBar(t)
  <2>1. saved' = [saved EXCEPT !.bar["Dev"] = {}] /\ At(t, "dropDevBar")
    BY <1>4 DEF DropDevBar
  <2>2. saved' \in SavedType
    BY <1>0, <2>1, FileFacts DEF SavedType
  <2>3. FilesOK'
    BY <1>4, <1>f, <2>2 DEF DropDevBar
  <2>4. run' = [run EXCEPT ![t] = [run[t] EXCEPT !.todo = Tail(@)]]
    BY <1>0, <1>4 DEF DropDevBar, RunsOK
  <2>5. RunsOK'
    BY <1>0, <2>1, <2>4, PopFine
  <2>6. past' = past \/ \E S \in SUBSET Facts : past' = past \cup S
    BY <1>4, <1>h DEF DropDevBar, Facts
  <2> QED
    BY <1>4, <2>3, <2>5, <2>6, EndsTyped DEF DropDevBar
<1>5. CASE DropBar(t)
  <2>1. saved' = [saved EXCEPT !.bar["Dev"] = {}] /\ At(t, "dropBar")
    BY <1>5 DEF DropBar
  <2>2. saved' \in SavedType
    BY <1>0, <2>1, FileFacts DEF SavedType
  <2>3. UNCHANGED <<desk, binds, bar, menu, tools, session, bounds>>
    BY <1>5 DEF DropBar, Fails
  <2>4. FilesOK'
    BY <1>f, <2>2, <2>3
  <2>5. RunsOK' /\ (past' = past \/ \E S \in SUBSET Facts : past' = past \cup S)
    <3>1. CASE Abort(t)
      BY <1>0, <1>a, <2>1, <3>1, AbortFine
    <3>2. CASE ~Abort(t)
      <4> DEFINE r == [run[t] EXCEPT !.had = FALSE, !.restored = FALSE]
      <4>1. /\ run' = [run EXCEPT ![t] = [run[t] EXCEPT !.todo = Tail(@), !.had = FALSE, !.restored = FALSE]]
            /\ Establish(t, {"bar"})
        BY <1>5, <3>2, Zenon DEF DropBar, Fails
      <4>2. [run[t] EXCEPT !.todo = Tail(@), !.had = FALSE, !.restored = FALSE] = [r EXCEPT !.todo = Tail(@)]
        BY <1>0 DEF Runs
      <4>3. r \in Runs /\ r.todo = run[t].todo /\ r.name = run[t].name /\ r.tearing = run[t].tearing
        BY <1>0 DEF Runs
      <4> HIDE DEF r
      <4>4. RunsOK'
        BY <1>0, <2>1, <4>1, <4>2, <4>3, PopFine
      <4>5. {"bar"} \in SUBSET Facts
        BY DEF Facts
      <4> QED
        BY <1>h, <4>1, <4>4, <4>5
    <3> QED
      BY <3>1, <3>2
  <2> QED
    BY <2>3, <2>4, <2>5, EndsTyped
<1> QED
  BY <1>1, <1>2, <1>3, <1>4, <1>5

LEMMA EndingsTyped ==
  ASSUME TypeInv, NEW t \in Terminals,
         \/ Begins(t) \/ Exit(t) \/ EnsureProd(t) \/ RemoveShare(t) \/ Wait(t) \/ Interrupt(t) \/ Detect(t)
         \/ Done(t) \/ Fail(t) \/ Kill(t)
  PROVE  TypeInv'
<1>0. RunsOK /\ run[t] \in Runs
  BY DEF TypeInv, RunsOK
<1>f. UNCHANGED <<binds, bar, menu, tools, saved, session>> => FilesOK'
  BY DEF TypeInv, FilesOK
<1>h. \A S : Establish(t, S) => past' = past \/ past' = past \cup S
  BY DEF Establish
<1>k. /\ {} \in SUBSET Facts /\ {"left"} \in SUBSET Facts /\ {"installed"} \in SUBSET Facts /\ {"hypr"} \in SUBSET Facts
      /\ {"session", "left"} \in SUBSET Facts
  BY DEF Facts
<1>e. ASSUME EndOfEnter(t) PROVE \E S \in SUBSET Facts : past' = past \cup S
  <2>1. past' = past \cup {"left"} \/ past' = past \cup {}
    BY <1>e DEF EndOfEnter
  <2> QED
    BY <1>k, <2>1
<1>1. CASE Begins(t)
  <2>1. RunsOK'
    BY <1>0, <1>1, BeginsRuns
  <2>2. PICK name, todo, tearing : Begin(t, name, todo, tearing)
    BY <1>1 DEF Begins, BeginInstall, BeginDevInstall, BeginUninstall, BeginLeave, BeginEnter
  <2>3. UNCHANGED <<desk, binds, bar, menu, tools, saved, session>> /\ past' = {}
    BY <2>2 DEF Begin
  <2>4. BoundsOK'
    <3>1. bounds' = [bounds EXCEPT !.commands = @ + 1] /\ bounds.commands + bounds.faults < MaxCommands
      BY <2>2 DEF Begin
    <3>2. bounds \in [commands : 0..MaxCommands, faults : 0..MaxFaults]
      BY DEF TypeInv, BoundsOK
    <3>3. bounds.commands + 1 \in 0..MaxCommands
      BY <3>1, <3>2, BoundsAssumption
    <3> QED
      BY <3>1, <3>2, <3>3 DEF BoundsOK
  <2> QED
    BY <1>f, <2>1, <2>3, <2>4 DEF TypeInv
<1>2. CASE Exit(t)
  <2>1. RunsOK'
    BY <1>0, <1>2, ExitFine
  <2>2. UNCHANGED <<desk, bounds, binds, bar, menu, tools, saved, session>>
    BY <1>2 DEF Exit, Pop, PopWith
  <2>3. past' = past \/ \E S \in SUBSET Facts : past' = past \cup S
    <3>1. CASE Len(run[t].todo) > 1
      BY <1>2, <3>1 DEF Exit, Pop, PopWith
    <3>2. CASE ~(Len(run[t].todo) > 1)
      <4>1. Establish(t, {"installed"}) \/ Establish(t, {})
        BY <1>2, <3>2 DEF Exit
      <4> QED
        BY <1>h, <1>k, <4>1
    <3> QED
      BY <3>1, <3>2
  <2> QED
    BY <1>f, <2>1, <2>2, <2>3, EndsTyped
<1>3. CASE EnsureProd(t)
  <2>1. RunsOK' /\ UNCHANGED past
    BY <1>0, <1>3, EnsureProdFine
  <2>2. UNCHANGED <<desk, bounds, binds, bar, menu, tools, saved, session>>
    BY <1>3 DEF EnsureProd, Goto, Pop, PopWith
  <2> QED
    BY <1>f, <2>1, <2>2, EndsTyped
<1>4. CASE RemoveShare(t)
  <2>1. tools' = [tools EXCEPT !.devShare = FALSE] /\ UNCHANGED <<desk, binds, bar, menu, saved, session, bounds>>
    BY <1>4 DEF RemoveShare
  <2>2. FilesOK'
    BY <2>1 DEF TypeInv, FilesOK
  <2>3. run' = [run EXCEPT ![t] = [run[t] EXCEPT !.todo = Tail(@)]] /\ At(t, "removeShare")
    BY <1>0, <1>4 DEF RemoveShare, RunsOK
  <2>4. RunsOK'
    BY <1>0, <2>3, PopFine
  <2>5. past' = past \/ \E S \in SUBSET Facts : past' = past \cup S
    BY <1>4, <1>h, <1>k DEF RemoveShare
  <2> QED
    BY <2>1, <2>2, <2>4, <2>5, EndsTyped
<1>5. CASE Wait(t)
  <2>1. EndOfEnter(t) /\ At(t, "wait") /\ UNCHANGED <<desk, bounds, binds, bar, menu, tools, saved, session>>
    BY <1>5 DEF Wait
  <2>2. run[t] # Idle
    BY <2>1 DEF At, Idle
  <2>3. RunsOK'
    BY <1>0, <2>1, <2>2, EndOfEnterFine
  <2> QED
    BY <1>e, <1>f, <2>1, <2>3, EndsTyped
<1>6. CASE Interrupt(t)
  <2>1. EndOfEnter(t) /\ run[t].name = "enter" /\ UNCHANGED <<desk, bounds, binds, bar, menu, tools, saved, session>>
    BY <1>6 DEF Interrupt
  <2>2. run[t] # Idle
    BY <2>1 DEF Idle
  <2>3. RunsOK'
    BY <1>0, <2>1, <2>2, EndOfEnterFine
  <2> QED
    BY <1>e, <1>f, <2>1, <2>3, EndsTyped
<1>7. CASE Detect(t)
  <2>1. RunsOK' /\ UNCHANGED past
    BY <1>0, <1>7, DetectFine
  <2>2. UNCHANGED <<desk, bounds, binds, bar, menu, tools, saved, session>>
    BY <1>7 DEF Detect, Goto
  <2> QED
    BY <1>f, <2>1, <2>2, EndsTyped
<1>8. CASE Done(t)
  <2>1. RunsOK'
    BY <1>0, <1>8, DoneFine
  <2>2. UNCHANGED <<desk, bounds, binds, bar, menu, tools, saved, session>>
    BY <1>8 DEF Done
  <2>3. past' = {} \/ past' = past \/ \E S \in SUBSET Facts : past' = past \cup S
    <3>1. past' = {} \/ Establish(t, {"session", "left"})
      BY <1>8 DEF Done
    <3> QED
      BY <1>h, <1>k, <3>1
  <2> QED
    BY <1>f, <2>1, <2>2, <2>3, EndsTyped
<1>9. CASE Fail(t) \/ Kill(t)
  <2>1. RunsOK'
    BY <1>0, <1>9, FailFine, KillFine
  <2>2. Fault
    BY <1>9 DEF Fail, Kill
  <2>3. BoundsOK'
    <3>1. bounds' = [bounds EXCEPT !.faults = @ + 1] /\ bounds.faults < MaxFaults
      BY <2>2 DEF Fault
    <3> QED
      BY <3>1, BoundsAssumption DEF TypeInv, BoundsOK
  <2> QED
    BY <1>f, <2>1, <2>2, <2>3 DEF Fault, TypeInv
<1> QED
  BY <1>1, <1>2, <1>3, <1>4, <1>5, <1>6, <1>7, <1>8, <1>9

LEMMA InitTyped == Init => TypeInv
<1> SUFFICES ASSUME Init PROVE TypeInv
  OBVIOUS
<1> DEFINE old == [tsk |-> "none", stock |-> TRUE]
<1>0. run = [t \in Terminals |-> Idle] /\ bounds = [commands |-> 0, faults |-> 0] /\ past = {}
  BY DEF Init
<1>1. PICK kind \in Desks, packaged \in BOOLEAN, prod \in BOOLEAN, own \in BOOLEAN :
        Machine(kind, packaged, prod, own)
  BY DEF Init
<1> DEFINE mine == IF prod THEN {"Prod"} ELSE {}
           lua == prod /\ kind = "lua"
           up == prod /\ packaged
           native == kind # "lua"
<1>2. /\ mine \in SUBSET Profiles /\ lua \in BOOLEAN /\ up \in BOOLEAN /\ native \in BOOLEAN
      /\ {mine} \in Lines /\ {{}} \in Lines /\ {} \in Lines
  <2>1. mine \in SUBSET Profiles /\ {} \in SUBSET Profiles
    BY DEF Profiles
  <2>2. {mine} \in Lines /\ {{}} \in Lines
    BY <2>1, LineFacts
  <2> QED
    BY <2>1, <2>2, LineFacts
<1>3. old \in Bars /\ [tsk |-> "Prod", stock |-> FALSE] \in Bars
  BY DEF Bars, Profiles
<1>4. {old} \in File(Bars) /\ {[tsk |-> "Prod", stock |-> FALSE]} \in File(Bars) /\ {} \in File(Bars)
  BY <1>3, FileFacts
<1>5. {{old}} \in File(File(Bars)) /\ {} \in File(File(Bars))
  BY <1>4, FileFacts
<1>6. {[text |-> {{}}, native |-> native]} \in File(Backups) /\ {} \in File(Backups)
  <2>1. [text |-> {{}}, native |-> native] \in Backups
    BY <1>2 DEF Backups
  <2> QED
    BY <2>1, FileFacts
<1>7. /\ menu = [elephant |-> IF kind = "waybar" THEN "own" ELSE "absent", ui |-> IF lua THEN "shell" ELSE "none",
                 on |-> lua, spaces |-> ~lua, patched |-> lua]
      /\ tools = [schema |-> prod, devShare |-> FALSE, openers |-> mine,
                  editor |-> IF own THEN "own" ELSE IF prod THEN "Prod" ELSE "unset", helper |-> {}, enabled |-> up]
      /\ session = [marker |-> FALSE, prodUp |-> up, devUp |-> FALSE, noted |-> FALSE]
      /\ binds = [conf |-> IF kind = "lua" THEN {} ELSE {mine},
                  lua |-> IF kind = "lua" THEN {mine} ELSE {}, native |-> ~prod]
      /\ saved = [hypr |-> [p \in Profiles |-> IF p \in mine THEN {[text |-> {{}}, native |-> native]} ELSE {}],
                  bar |-> [p \in Profiles |-> IF p \in mine /\ kind = "waybar" THEN {{old}} ELSE {}],
                  plain |-> [p \in Profiles |-> {}],
                  pristine |-> [p \in Profiles |-> IF p \in mine /\ kind = "waybar" THEN {old} ELSE {}],
                  walker |-> {}, ui |-> [p \in Profiles |-> "shell"]]
      /\ bar \in {{}, {[tsk |-> "Prod", stock |-> FALSE]}, {old}}
      /\ desk = [kind |-> kind, packaged |-> packaged]
  BY <1>1, Zenon DEF Machine
<1> HIDE DEF mine, lua, up, native, old
<1>8. FilesOK
  <2>1. binds \in [conf : Lines, lua : Lines, native : BOOLEAN]
    BY <1>2, <1>7
  <2>2. bar \in File(Bars)
    BY <1>4, <1>7
  <2>3. menu \in [elephant : {"absent", "own", "Dev"}, ui : Uis \cup {"none"}, on : BOOLEAN,
                  spaces : BOOLEAN, patched : BOOLEAN]
    BY <1>2, <1>7 DEF Uis
  <2>4. tools \in [schema : BOOLEAN, devShare : BOOLEAN, openers : SUBSET Profiles,
                   editor : Profiles \cup {"own", "unset"}, helper : SUBSET Helper, enabled : BOOLEAN]
    BY <1>2, <1>7 DEF Profiles
  <2>5. /\ saved.hypr \in [Profiles -> File(Backups)] /\ saved.bar \in [Profiles -> File(File(Bars))]
        /\ saved.plain \in [Profiles -> File(Bars)] /\ saved.pristine \in [Profiles -> File(Bars)]
        /\ saved.walker \in SUBSET Profiles /\ saved.ui \in [Profiles -> Uis]
    BY <1>4, <1>5, <1>6, <1>7 DEF Uis
  <2>6. saved = [hypr |-> saved.hypr, bar |-> saved.bar, plain |-> saved.plain, pristine |-> saved.pristine,
                 walker |-> saved.walker, ui |-> saved.ui]
    BY <1>7
  <2>7. session \in [marker : BOOLEAN, prodUp : BOOLEAN, devUp : BOOLEAN, noted : BOOLEAN]
    BY <1>2, <1>7
  <2>8. saved \in [hypr : [Profiles -> File(Backups)], bar : [Profiles -> File(File(Bars))],
                   plain : [Profiles -> File(Bars)], pristine : [Profiles -> File(Bars)],
                   walker : SUBSET Profiles, ui : [Profiles -> Uis]]
    BY <2>5, <2>6
  <2> QED
    BY <2>1, <2>2, <2>3, <2>4, <2>7, <2>8 DEF FilesOK
<1>9. RunsOK
  <2>1. run \in [Terminals -> Runs]
    BY <1>0, IdleFine
  <2>2. \A t \in Terminals : run[t] = Idle
    BY <1>0
  <2> QED
    BY <2>1, <2>2, IdleFine DEF RunsOK, Shape
<1>10. BoundsOK
  BY <1>0, BoundsAssumption DEF BoundsOK
<1>11. desk \in [kind : Desks, packaged : BOOLEAN] /\ past \subseteq Facts
  BY <1>0, <1>7
<1> QED
  BY <1>8, <1>9, <1>10, <1>11 DEF TypeInv

LEMMA NextTyped == TypeInv /\ [Next]_vars => TypeInv'
<1> SUFFICES ASSUME TypeInv, [Next]_vars PROVE TypeInv'
  OBVIOUS
<1>1. CASE UNCHANGED vars
  BY <1>1 DEF vars, TypeInv, FilesOK, BoundsOK, RunsOK, Shape
<1>2. ASSUME NEW t \in Terminals,
             Begins(t) \/ Installs(t) \/ Uninstalls(t) \/ Sessions(t) \/ Fail(t) \/ Kill(t)
      PROVE  TypeInv'
  <2>1. CASE Begins(t) \/ Fail(t) \/ Kill(t)
    BY <2>1, EndingsTyped
  <2>2. CASE Installs(t)
    BY <2>2, EndingsTyped, SessionTyped, ToolsTyped, BindsTyped, HyprTyped, BarEndsTyped, BarTyped, MenuTyped
       DEF Installs
  <2>3. CASE Uninstalls(t)
    BY <2>3, BarEndsTyped, BarTyped, HyprTyped, MenuTyped, EndingsTyped, BindsTyped DEF Uninstalls
  <2>4. CASE Sessions(t)
    BY <2>4, SessionTyped, EndingsTyped DEF Sessions
  <2> QED
    BY <1>2, <2>1, <2>2, <2>3, <2>4
<1> QED
  BY <1>1, <1>2 DEF Next

\* Only two steps change what is late.
LEMMA LateTyped == TypeInv /\ late \in BOOLEAN /\ [Next]_vars => (late \in BOOLEAN)'
<1> SUFFICES ASSUME late \in BOOLEAN, [Next]_vars PROVE late' \in BOOLEAN
  OBVIOUS
<1>1. CASE UNCHANGED vars
  BY <1>1 DEF vars
<1>2. ASSUME NEW t \in Terminals, Share(t) \/ Restore(t) PROVE late' \in BOOLEAN
  BY <1>2, Zenon DEF Share, Restore
<1>3. ASSUME NEW t \in Terminals, Begins(t) \/ Fail(t) \/ Kill(t) PROVE UNCHANGED late
  BY <1>3 DEF Begins, BeginInstall, BeginDevInstall, BeginUninstall, BeginLeave, BeginEnter, Begin, Fail, Kill, Fault
<1>4. ASSUME NEW t \in Terminals, Installs(t), ~Share(t) PROVE UNCHANGED late
  BY <1>4 DEF Installs, Main, Schema, Openers, Editor, Exit, Backup, AppendLines, Gestures, Block, HyprManifest,
              ReadConf, StripConf, StripBlock, BarBackup, Fails, Pristine, PatchBar, BarManifest, Elephant,
              WalkerManifest, CopyPlugin, Enable, PatchMenu, Systemd, Chromium
<1>5. ASSUME NEW t \in Terminals, Uninstalls(t), ~Restore(t) PROVE UNCHANGED late
  BY <1>5 DEF Uninstalls, ProdBar, PatchProd, DropDevBar, Seed, RestoreBar, UnpatchBar, DropBar, Fails, LoadHypr,
              DropHypr, Disable, UnpatchMenu, EnsureProd, AddProd, RemoveShare
<1>6. ASSUME NEW t \in Terminals, Sessions(t) PROVE UNCHANGED late
  BY <1>6 DEF Sessions, StopProd, Mark, Serve, Wait, Interrupt, StopDev, Detect, Unmark, StartProd, Done
<1> QED
  BY <1>1, <1>2, <1>3, <1>4, <1>5, <1>6 DEF Next

\* Files, manifests, the session and the commands keep their types (the whole of the installer).
THEOREM InstallerTypeOK == Spec => []TypeOK
<1>1. Init => TypeInv /\ late \in BOOLEAN
  BY InitTyped DEF Init
<1>2. TypeInv /\ late \in BOOLEAN /\ [Next]_vars => (TypeInv /\ late \in BOOLEAN)'
  BY NextTyped, LateTyped
<1>3. Spec => [](TypeInv /\ late \in BOOLEAN)
  BY <1>1, <1>2, PTL DEF Spec
<1> QED
  BY <1>3, TypesFollow, PTL

-----------------------------------------------------------------------------
(* Hyprland never sources what the installer has taken away. A command that  *)
(* adds lines of dev is alone and has copied the tree, or will before it     *)
(* adds them; one that removes the tree first puts away what could still     *)
(* bring such a line back: the manifest, the lines, and its own copy of them. *)

HasDev(file) == "Dev" \in Content(file)
Installing(r) == Busy(r) /\ ~(r.name = "enter" /\ r.tearing)

There == tools.devShare \/ late

FilesSafe ==
    /\ SourcedExists
    /\ \A b \in saved.hypr["Dev"] : HasDev(b.text) => There
    /\ desk.kind # "lua" => binds.lua = {}
InstallSafe(r) ==
    /\ HasDev(r.backup.text) \/ HasDev(r.buffer) => There
    /\ r.name # "install" /\ ("append" \in Ahead(r.todo) \/ "block" \in Ahead(r.todo)) =>
           tools.devShare \/ "share" \in Ahead(r.todo)
    /\ "block" \in Ahead(r.todo) => desk.kind = "lua"
RemoveSafe(r) ==
    /\ \/ saved.hypr["Dev"] = {} \/ "loadHypr" \in Ahead(r.todo)
       \/ (r.had /\ "dropHypr" \in Ahead(r.todo))
    /\ "seed" \in Ahead(r.todo) \/ "dropBar" \in Ahead(r.todo) => "loadHypr" \in Ahead(r.todo)
    /\ "loadHypr" \in Ahead(r.todo) => "dropHypr" \in Ahead(r.todo)
    /\ "dropHypr" \in Ahead(r.todo) =>
           "readDev" \in Ahead(r.todo) /\ (desk.kind = "lua" => "stripDevBlock" \in Ahead(r.todo))
    /\ late \/ (HasDev(binds.lua) => "stripDevBlock" \in Ahead(r.todo))
    /\ late \/ (HasDev(binds.conf) =>
                    "readDev" \in Ahead(r.todo) \/ ("stripDev" \in Ahead(r.todo) /\ HasDev(r.buffer)))
    /\ "readDev" \in Ahead(r.todo) => "stripDev" \in Ahead(r.todo)
\* A backup that was loaded may bring a line of dev back; without its manifest, that would be late.
CopySafe(r) == saved.hypr["Dev"] # {} /\ HasDev(r.backup.text) => There
RunSafe(r) ==
    /\ CopySafe(r)
    /\ Installing(r) => InstallSafe(r)
    /\ "removeShare" \in Ahead(r.todo) => RemoveSafe(r)
ShareInv == FilesSafe /\ \A t \in Terminals : RunSafe(run[t])

LEMMA TwoModes ==
  ASSUME RunsOK, NEW t \in Terminals, run[t] # Idle
  PROVE  /\ \A u \in Terminals \ {t} : ~Installing(run[u])
         /\ Installing(run[t]) =>
                (\A u \in Terminals \ {t} : run[u] = Idle) /\ "removeShare" \notin Ahead(run[t].todo)
<1>1. \A u \in Terminals \ {t} : ~Installing(run[u])
  BY OthersWait DEF Installing
<1>2. ASSUME Installing(run[t])
      PROVE  (\A u \in Terminals \ {t} : run[u] = Idle) /\ "removeShare" \notin Ahead(run[t].todo)
  <2>1. Busy(run[t]) /\ Good(run[t])
    BY <1>2 DEF RunsOK, Shape, Installing
  <2>2. \A u \in Terminals \ {t} : run[u] = Idle
    BY <2>1 DEF RunsOK, Shape
  <2>3. Scope(run[t]) \subseteq Doing
    BY <1>2 DEF Scope, Installing, Busy
  <2>4. "removeShare" \notin Doing
    BY DEF Doing, Both
  <2> QED
    BY <2>1, <2>2, <2>3, <2>4 DEF Good
<1> QED
  BY <1>1, <1>2

\* An uninstall is not an install.
LEMMA NotInstalling ==
  ASSUME RunsOK, NEW t \in Terminals, NEW s, s \in Ahead(run[t].todo), s \notin Doing
  PROVE  ~Installing(run[t])
<1>1. s \in Scope(run[t])
  BY DEF RunsOK, Shape, Good
<1> QED
  BY <1>1 DEF Scope, Installing, Busy

\* What a step that is taken leaves of its command.
Takes(t, s, r) ==
    /\ run[t] # Idle /\ run[t] \in Runs /\ run'[t] \in Runs
    /\ \A u \in Terminals \ {t} : run'[u] = run[u]
    /\ run'[t].name = r.name /\ run'[t].tearing = r.tearing /\ run'[t].buffer = r.buffer
    /\ run'[t].backup = r.backup /\ run'[t].had = r.had /\ run'[t].whole = r.whole
    /\ Ahead(run[t].todo) = Ahead(run'[t].todo) \cup {s}
    /\ s # "stopProd" => s \notin Ahead(run'[t].todo)
    /\ \A x \in Ahead(run'[t].todo) : Earlier(s, x)
    /\ Installing(run'[t]) => Installing(run[t])

LEMMA Taken ==
  ASSUME RunsOK, NEW t \in Terminals, NEW s, At(t, s), s # "wait", NEW r \in Runs,
         r.todo = run[t].todo, r.name = run[t].name, r.tearing = run[t].tearing,
         run' = [run EXCEPT ![t] = [r EXCEPT !.todo = Tail(@)]]
  PROVE  Takes(t, s, r)
<1>1. /\ run[t] # Idle /\ run[t] \in Runs
      /\ Ahead(run[t].todo) = Ahead(Tail(run[t].todo)) \cup {s}
      /\ \A x \in Ahead(Tail(run[t].todo)) : Earlier(s, x)
      /\ s # "stopProd" => Ahead(Tail(run[t].todo)) = Ahead(run[t].todo) \ {s}
  BY NextStep
<1>2. RunsOK' /\ run'[t] = [r EXCEPT !.todo = Tail(@)] /\ Ahead(run'[t].todo) = Ahead(Tail(run[t].todo))
  BY PopFine
<1>3. \A u \in Terminals \ {t} : run'[u] = run[u]
  BY DEF RunsOK
<1>4. /\ run'[t].name = r.name /\ run'[t].tearing = r.tearing /\ run'[t].buffer = r.buffer
      /\ run'[t].backup = r.backup /\ run'[t].had = r.had /\ run'[t].whole = r.whole
  BY <1>2 DEF Runs
<1>5. Installing(run'[t]) => Installing(run[t])
  BY <1>4 DEF Installing, Busy, Waits, At
<1>6. run'[t] \in Runs
  BY <1>2 DEF RunsOK
<1> QED
  BY <1>1, <1>2, <1>3, <1>4, <1>5, <1>6 DEF Takes

LEMMA IdleSafe ==
  ~Installing(Idle) /\ Ahead(Idle.todo) = {} /\ ~HasDev(Idle.backup.text) /\ ~HasDev({}) /\ RunSafe(Idle)
<1>1. Idle.todo = <<>> /\ Ahead(<<>>) = {}
  BY DEF Idle, Ahead
<1>2. ~HasDev(Idle.backup.text) /\ ~HasDev({})
  BY DEF Idle, HasDev, Content
<1> QED
  BY <1>1, <1>2, IdleFine DEF Installing, RunSafe, CopySafe

\* When the lines, dev's manifest and dev's tree stay, the other commands are as safe as before.
LEMMA OthersSafe ==
  ASSUME ShareInv, NEW t \in Terminals, UNCHANGED desk, binds'.conf = binds.conf, binds'.lua = binds.lua,
         saved.hypr["Dev"]' = saved.hypr["Dev"], tools.devShare' = tools.devShare, UNCHANGED late,
         \A u \in Terminals \ {t} : run'[u] = run[u], RunSafe(run[t])'
  PROVE  ShareInv'
<1>1. FilesSafe'
  BY DEF ShareInv, FilesSafe, There, SourcedExists, DevIntegrationInstalled
<1>2. ASSUME NEW u \in Terminals \ {t} PROVE RunSafe(run[u])'
  <2>1. run'[u] = run[u] /\ RunSafe(run[u])
    BY DEF ShareInv
  <2> QED
    BY <2>1 DEF RunSafe, CopySafe, There, InstallSafe, RemoveSafe
<1> QED
  BY <1>1, <1>2 DEF ShareInv

\* The steps that matter to the lines of dev; taking any other one changes nothing here.
Key == {"loadHypr", "restore", "dropHypr", "readDev", "stripDev", "stripDevBlock", "removeShare", "append", "block", "share"}

LEMMA StillSafe ==
  ASSUME ShareInv, NEW t \in Terminals, UNCHANGED desk, binds'.conf = binds.conf, binds'.lua = binds.lua,
         saved.hypr["Dev"]' = saved.hypr["Dev"], tools.devShare' = tools.devShare, UNCHANGED late,
         \A u \in Terminals \ {t} : run'[u] = run[u],
         Installing(run'[t]) => Installing(run[t]), run'[t].name = run[t].name,
         run'[t].buffer = run[t].buffer, run'[t].backup.text = run[t].backup.text,
         \A x \in Key : x \in Ahead(run'[t].todo) <=> x \in Ahead(run[t].todo),
         \A x \in {"seed", "dropBar"} : x \in Ahead(run'[t].todo) => x \in Ahead(run[t].todo),
         \/ run'[t].had = run[t].had
         \/ "seed" \in Ahead(run[t].todo) \/ "dropBar" \in Ahead(run[t].todo)
  PROVE  ShareInv'
<1>1. RunSafe(run[t])
  BY DEF ShareInv
<1>2. Installing(run[t])' => InstallSafe(run[t])'
  BY <1>1 DEF RunSafe, InstallSafe, There, Key
<1>3. ("removeShare" \in Ahead(run[t].todo))' => RemoveSafe(run[t])'
  <2> SUFFICES ASSUME "removeShare" \in Ahead(run'[t].todo) PROVE RemoveSafe(run[t])'
    OBVIOUS
  <2>1. RemoveSafe(run[t])
    BY <1>1 DEF RunSafe, Key
  <2> QED
    BY <2>1 DEF RemoveSafe, Key
<1>4. CopySafe(run[t])'
  BY <1>1 DEF RunSafe, CopySafe, There
<1>5. RunSafe(run[t])'
  BY <1>2, <1>3, <1>4 DEF RunSafe
<1> QED
  BY <1>5, OthersSafe

\* One of those steps.
LEMMA PopSafe ==
  ASSUME RunsOK, ShareInv, NEW t \in Terminals, NEW s, At(t, s), s # "wait", s \notin Key, NEW r \in Runs,
         r.todo = run[t].todo, r.name = run[t].name, r.tearing = run[t].tearing,
         r.buffer = run[t].buffer, r.backup.text = run[t].backup.text,
         r.had = run[t].had \/ s \in {"seed", "dropBar"},
         run' = [run EXCEPT ![t] = [r EXCEPT !.todo = Tail(@)]],
         UNCHANGED desk, binds'.conf = binds.conf, binds'.lua = binds.lua,
         saved.hypr["Dev"]' = saved.hypr["Dev"], tools.devShare' = tools.devShare, UNCHANGED late
  PROVE  ShareInv'
<1>1. Takes(t, s, r)
  BY Taken
<1>2. run'[t].had = run[t].had \/ "seed" \in Ahead(run[t].todo) \/ "dropBar" \in Ahead(run[t].todo)
  BY <1>1 DEF Takes
<1>3. \A x \in Key : x \in Ahead(run'[t].todo) <=> x \in Ahead(run[t].todo)
  BY <1>1 DEF Takes
<1> QED
  BY <1>1, <1>2, <1>3, StillSafe DEF Takes

LEMMA PlainSafe ==
  ASSUME RunsOK, ShareInv, NEW t \in Terminals, NEW s, At(t, s), s # "wait", s \notin Key, Pop(t),
         UNCHANGED binds, saved.hypr["Dev"]' = saved.hypr["Dev"], tools.devShare' = tools.devShare, UNCHANGED late
  PROVE  ShareInv'
<1>1. run[t] \in Runs /\ run' = [run EXCEPT ![t] = [run[t] EXCEPT !.todo = Tail(@)]] /\ UNCHANGED desk
  BY DEF RunsOK, Pop, PopWith
<1> QED
  BY <1>1, PopSafe

\* The steps that touch neither a line of dev, nor dev's manifest, nor dev's tree.
LEMMA PlainShare ==
  ASSUME TypeInv, ShareInv, NEW t \in Terminals,
         \/ Main(t) \/ Schema(t) \/ Openers(t) \/ Editor(t)
         \/ Elephant(t) \/ WalkerManifest(t) \/ Enable(t) \/ PatchMenu(t) \/ Disable(t) \/ UnpatchMenu(t)
         \/ Systemd(t) \/ Mark(t) \/ Serve(t) \/ StopDev(t) \/ Unmark(t) \/ StartProd(t)
         \/ Pristine(t) \/ PatchBar(t) \/ PatchProd(t) \/ UnpatchBar(t)
         \/ (\E ui \in Uis : CopyPlugin(t, ui)) \/ (\E piece \in Helper : Chromium(t, piece))
  PROVE  ShareInv'
<1>0. RunsOK /\ saved \in SavedType
      /\ tools \in [schema : BOOLEAN, devShare : BOOLEAN, openers : SUBSET Profiles,
                    editor : Profiles \cup {"own", "unset"}, helper : SUBSET Helper, enabled : BOOLEAN]
  BY DEF TypeInv, FilesOK, SavedType
<1> DEFINE Same == /\ UNCHANGED binds /\ saved.hypr["Dev"]' = saved.hypr["Dev"]
                   /\ tools.devShare' = tools.devShare /\ UNCHANGED late
<1>a. ASSUME NEW s, s \notin Key \cup {"wait"}, At(t, s), Pop(t), Same PROVE ShareInv'
  BY <1>0, <1>a, PlainSafe
<1>b. UNCHANGED <<binds, saved, tools, late>> => Same
  OBVIOUS
<1>c. UNCHANGED <<binds, tools, late>> /\ saved.hypr' = saved.hypr => Same
  OBVIOUS
<1>d. UNCHANGED <<binds, saved, late>> /\ tools'.devShare = tools.devShare => Same
  OBVIOUS
<1> HIDE DEF Same
<1> USE DEF Key
<1>1. CASE Main(t)
  BY <1>1, <1>a, <1>b DEF Main
<1>2. CASE Schema(t)
  <2>1. tools'.devShare = tools.devShare
    BY <1>0, <1>2 DEF Schema
  <2> QED
    BY <1>2, <1>a, <1>d, <2>1 DEF Schema
<1>3. CASE Openers(t)
  <2>1. tools'.devShare = tools.devShare
    BY <1>0, <1>3 DEF Openers
  <2> QED
    BY <1>3, <1>a, <1>d, <2>1 DEF Openers
<1>4. CASE Editor(t)
  <2>1. tools'.devShare = tools.devShare
    BY <1>0, <1>4 DEF Editor
  <2> QED
    BY <1>4, <1>a, <1>d, <2>1 DEF Editor
<1>5. CASE Elephant(t)
  BY <1>5, <1>a, <1>b DEF Elephant
<1>6. CASE WalkerManifest(t)
  <2>1. saved'.hypr = saved.hypr
    BY <1>0, <1>6 DEF WalkerManifest, SavedType
  <2> QED
    BY <1>6, <1>a, <1>c, <2>1 DEF WalkerManifest
<1>7. CASE Enable(t)
  BY <1>7, <1>a, <1>b DEF Enable
<1>8. CASE PatchMenu(t)
  BY <1>8, <1>a, <1>b DEF PatchMenu
<1>9. CASE Disable(t)
  BY <1>9, <1>a, <1>b DEF Disable
<1>10. CASE UnpatchMenu(t)
  BY <1>10, <1>a, <1>b DEF UnpatchMenu
<1>11. CASE Systemd(t)
  <2>1. tools'.devShare = tools.devShare
    BY <1>0, <1>11 DEF Systemd
  <2> QED
    BY <1>11, <1>a, <1>d, <2>1 DEF Systemd
<1>12. CASE Mark(t)
  BY <1>12, <1>a, <1>b DEF Mark
<1>13. CASE Serve(t)
  BY <1>13, <1>a, <1>b DEF Serve
<1>14. CASE StopDev(t)
  BY <1>14, <1>a, <1>b DEF StopDev
<1>15. CASE Unmark(t)
  BY <1>15, <1>a, <1>b DEF Unmark
<1>16. CASE StartProd(t)
  BY <1>16, <1>a, <1>b DEF StartProd
<1>17. CASE Pristine(t)
  <2>1. saved'.hypr = saved.hypr
    BY <1>0, <1>17 DEF Pristine, SavedType
  <2> QED
    BY <1>17, <1>a, <1>c, <2>1 DEF Pristine
<1>18. CASE PatchBar(t)
  BY <1>18, <1>a, <1>b DEF PatchBar
<1>19. CASE PatchProd(t)
  BY <1>19, <1>a, <1>b DEF PatchProd
<1>20. CASE UnpatchBar(t)
  BY <1>20, <1>a, <1>b DEF UnpatchBar
<1>21. ASSUME NEW ui \in Uis, CopyPlugin(t, ui) PROVE ShareInv'
  <2>1. saved'.hypr = saved.hypr
    BY <1>0, <1>21 DEF CopyPlugin, SavedType
  <2>2. ui \notin Key \cup {"wait"}
    BY DEF Uis
  <2> HIDE DEF Key
  <2> QED
    BY <1>21, <1>a, <1>c, <2>1, <2>2 DEF CopyPlugin
<1>22. ASSUME NEW piece \in Helper, Chromium(t, piece) PROVE ShareInv'
  <2> DEFINE s == IF piece = "manifest" THEN "helperManifest" ELSE piece
  <2>1. tools'.devShare = tools.devShare
    BY <1>0, <1>22 DEF Chromium
  <2>2. s \notin Key \cup {"wait"}
    BY DEF Helper
  <2>3. At(t, s)
    BY <1>22 DEF Chromium
  <2> HIDE DEF Key, s
  <2> QED
    BY <1>22, <1>a, <1>d, <2>1, <2>2, <2>3 DEF Chromium
<1> QED
  BY <1>1, <1>2, <1>3, <1>4, <1>5, <1>6, <1>7, <1>8, <1>9, <1>10, <1>11, <1>12, <1>13, <1>14, <1>15, <1>16,
     <1>17, <1>18, <1>19, <1>20, <1>21, <1>22

LEMMA NotedShare ==
  ASSUME TypeInv, ShareInv, NEW t \in Terminals,
         \/ StopProd(t) \/ Gestures(t) \/ BarManifest(t) \/ Seed(t) \/ RestoreBar(t) \/ DropDevBar(t)
         \/ BarBackup(t) /\ bar # {}
         \/ DropBar(t) /\ ~Abort(t)
  PROVE  ShareInv'
<1>0. RunsOK /\ saved \in SavedType /\ run[t] \in Runs
  BY DEF TypeInv, FilesOK, SavedType, RunsOK
<1> DEFINE Like(r) == /\ r \in Runs /\ r.todo = run[t].todo /\ r.name = run[t].name /\ r.tearing = run[t].tearing
                      /\ r.buffer = run[t].buffer /\ r.backup.text = run[t].backup.text
<1>b. ASSUME NEW s, s \notin Key \cup {"wait"}, At(t, s), NEW r, Like(r),
             r.had = run[t].had \/ s \in {"seed", "dropBar"}, PopWith(t, r) \/ run' = [run EXCEPT ![t] = [r EXCEPT !.todo = Tail(@)]],
             UNCHANGED <<desk, tools, late>>, saved'.hypr = saved.hypr, binds'.conf = binds.conf, binds'.lua = binds.lua
      PROVE  ShareInv'
  <2>1. run' = [run EXCEPT ![t] = [r EXCEPT !.todo = Tail(@)]]
    BY <1>b DEF PopWith
  <2> QED
    BY <1>0, <1>b, <2>1, PopSafe
<1>1. CASE StopProd(t)
  <2> DEFINE w == run[t].was \/ session.prodUp
             r == [run[t] EXCEPT !.was = w]
  <2>1. PopWith(t, r) /\ At(t, "stopProd") /\ UNCHANGED <<desk, tools, late, binds, saved>>
    BY <1>1 DEF StopProd, PopWith
  <2>2. w \in BOOLEAN
    OBVIOUS
  <2> HIDE DEF w
  <2>3. Like(r) /\ r.had = run[t].had
    BY <1>0, <2>2 DEF Runs
  <2>4. "stopProd" \notin Key \cup {"wait"}
    BY DEF Key
  <2> HIDE DEF r, Like
  <2> QED
    BY <1>b, <2>1, <2>3, <2>4
<1>2. CASE BarManifest(t)
  <2> DEFINE r == [run[t] EXCEPT !.bar = {}]
  <2>1. PopWith(t, r) /\ At(t, "barManifest") /\ UNCHANGED <<desk, tools, late, binds>> /\ saved'.hypr = saved.hypr
    BY <1>0, <1>2 DEF BarManifest, PopWith, SavedType
  <2>2. Like(r) /\ r.had = run[t].had
    BY <1>0, BarFacts DEF Runs
  <2>3. "barManifest" \notin Key \cup {"wait"}
    BY DEF Key
  <2> HIDE DEF r, Like
  <2> QED
    BY <1>b, <2>1, <2>2, <2>3
<1>3. CASE Seed(t)
  <2> DEFINE h == saved.bar["Dev"] # {}
             f == UNION saved.bar["Dev"]
             r == [run[t] EXCEPT !.had = h, !.bar = f]
  <2>1. PopWith(t, r) /\ At(t, "seed") /\ UNCHANGED <<desk, tools, late, binds>> /\ saved'.hypr = saved.hypr
    BY <1>0, <1>3 DEF Seed, PopWith, SavedType
  <2>2. h \in BOOLEAN /\ f \in File(Bars)
    <3>1. saved.bar["Dev"] \in File(File(Bars))
      BY <1>0 DEF SavedType, Profiles
    <3> QED
      BY <3>1, BarFacts
  <2> HIDE DEF h, f
  <2>3. Like(r)
    BY <1>0, <2>2 DEF Runs
  <2>4. "seed" \notin Key \cup {"wait"}
    BY DEF Key
  <2> HIDE DEF r, Like
  <2> QED
    BY <1>b, <2>1, <2>3, <2>4
<1>4. CASE RestoreBar(t)
  <2> DEFINE h == saved.pristine["Dev"] # {}
             r == [run[t] EXCEPT !.restored = h, !.bar = {}]
  <2>1. PopWith(t, r) /\ At(t, "restoreBar") /\ UNCHANGED <<desk, tools, late, binds, saved>>
    BY <1>4 DEF RestoreBar, PopWith
  <2>2. h \in BOOLEAN
    OBVIOUS
  <2> HIDE DEF h
  <2>3. Like(r) /\ r.had = run[t].had
    BY <1>0, <2>2, BarFacts DEF Runs
  <2>4. "restoreBar" \notin Key \cup {"wait"}
    BY DEF Key
  <2> HIDE DEF r, Like
  <2> QED
    BY <1>b, <2>1, <2>3, <2>4
<1>5. CASE DropDevBar(t)
  <2> DEFINE r == run[t]
  <2>1. At(t, "dropDevBar") /\ UNCHANGED <<desk, tools, late, binds>> /\ saved'.hypr = saved.hypr
    BY <1>0, <1>5 DEF DropDevBar, SavedType
  <2>2. run' = [run EXCEPT ![t] = [r EXCEPT !.todo = Tail(@)]]
    BY <1>0, <1>5 DEF DropDevBar, RunsOK
  <2>3. Like(r) /\ r.had = run[t].had
    BY <1>0
  <2>4. "dropDevBar" \notin Key \cup {"wait"}
    BY DEF Key
  <2> HIDE DEF r, Like
  <2> QED
    BY <1>b, <2>1, <2>2, <2>3, <2>4
<1>6. CASE BarBackup(t) /\ bar # {}
  <2> DEFINE r == [run[t] EXCEPT !.bar = bar]
  <2>1. PopWith(t, r) /\ At(t, "barBackup") /\ UNCHANGED <<desk, tools, late, binds>> /\ saved'.hypr = saved.hypr
    BY <1>0, <1>6 DEF BarBackup, PopWith, SavedType
  <2>2. Like(r) /\ r.had = run[t].had
    BY <1>0 DEF Runs, TypeInv, FilesOK
  <2>3. "barBackup" \notin Key \cup {"wait"}
    BY DEF Key
  <2> HIDE DEF r, Like
  <2> QED
    BY <1>b, <2>1, <2>2, <2>3
<1>7. CASE DropBar(t) /\ ~Abort(t)
  <2> DEFINE r == [run[t] EXCEPT !.had = FALSE, !.restored = FALSE]
  <2>1. At(t, "dropBar") /\ UNCHANGED <<desk, tools, late, binds>> /\ saved'.hypr = saved.hypr
    BY <1>0, <1>7 DEF DropBar, SavedType, Fails
  <2>2. run' = [run EXCEPT ![t] = [run[t] EXCEPT !.todo = Tail(@), !.had = FALSE, !.restored = FALSE]]
    BY <1>7, Zenon DEF DropBar, Fails
  <2>3. [run[t] EXCEPT !.todo = Tail(@), !.had = FALSE, !.restored = FALSE] = [r EXCEPT !.todo = Tail(@)]
    BY <1>0 DEF Runs
  <2>4. Like(r)
    BY <1>0 DEF Runs
  <2>5. "dropBar" \notin Key \cup {"wait"}
    BY DEF Key
  <2> HIDE DEF r, Like
  <2> QED
    BY <1>b, <2>1, <2>2, <2>3, <2>4, <2>5
<1>8. CASE Gestures(t)
  <2> DEFINE r == [run[t] EXCEPT !.backup.native = binds.native]
  <2>1. PopWith(t, r) /\ At(t, "gestures") /\ UNCHANGED <<desk, tools, late, saved>> /\ binds' = [binds EXCEPT !.native = FALSE]
    BY <1>8 DEF Gestures, PopWith
  <2>2. binds'.conf = binds.conf /\ binds'.lua = binds.lua
    BY <2>1 DEF TypeInv, FilesOK
  <2>3. Like(r) /\ r.had = run[t].had
    <3>1. [run[t].backup EXCEPT !.native = binds.native] \in Backups
      BY <1>0 DEF Runs, Backups, TypeInv, FilesOK
    <3>2. r = [run[t] EXCEPT !.backup = [run[t].backup EXCEPT !.native = binds.native]]
      OBVIOUS
    <3> HIDE DEF r
    <3>3. [run[t].backup EXCEPT !.native = binds.native].text = run[t].backup.text
      BY <1>0 DEF Runs, Backups
    <3> QED
      BY <1>0, <3>1, <3>2, <3>3 DEF Runs
  <2> HIDE DEF r
  <2>4. "gestures" \notin Key \cup {"wait"}
    BY DEF Key
  <2> HIDE DEF r, Like
  <2> QED
    BY <1>b, <2>1, <2>2, <2>3, <2>4
<1> QED
  BY <1>1, <1>2, <1>3, <1>4, <1>5, <1>6, <1>7, <1>8

\* A command that has the same steps left, and the same copies of the files.
Twin(q, r) ==
    /\ q.todo = r.todo /\ q.name = r.name /\ q.tearing = r.tearing /\ q.buffer = r.buffer
    /\ q.backup = r.backup /\ q.had = r.had

\* The lines of dev, its manifest and its tree stay; one command becomes another, the others go on.
LEMMA Onward ==
  ASSUME ShareInv, NEW t \in Terminals, UNCHANGED desk, binds'.conf = binds.conf, binds'.lua = binds.lua,
         saved.hypr["Dev"]' = saved.hypr["Dev"], tools.devShare' = tools.devShare, UNCHANGED late,
         \A u \in Terminals \ {t} : Twin(run'[u], run[u]), NEW r, RunSafe(r), run'[t] = r
  PROVE  ShareInv'
<1>1. FilesSafe'
  BY DEF ShareInv, FilesSafe, There, SourcedExists, DevIntegrationInstalled
<1>2. ASSUME NEW u \in Terminals, NEW q, RunSafe(q), Twin(run'[u], q) PROVE RunSafe(run[u])'
  <2>1. Installing(run'[u]) => Installing(q)
    BY <1>2 DEF Twin, Installing, Busy, Waits
  <2> QED
    BY <1>2, <2>1 DEF RunSafe, CopySafe, There, InstallSafe, RemoveSafe, Twin
<1>3. ASSUME NEW u \in Terminals \ {t} PROVE RunSafe(run[u])'
  BY <1>2, <1>3 DEF ShareInv
<1>4. RunSafe(run[t])'
  BY <1>2 DEF Twin
<1> QED
  BY <1>1, <1>3, <1>4 DEF ShareInv

\* Commands that begin: an uninstall holds everything that takes the lines of dev away, an install
\* copies the tree first.
LEMMA FreshSafe ==
  ASSUME FilesSafe, NEW r, r.buffer = {}, r.backup = Idle.backup,
         \/ r.name = "install" /\ \E ui \in Uis : r.todo = InstallAll(ui)
         \/ r.name = "devInstall" /\ r.todo = DevInstallAll
         \/ r.name = "enter" /\ ~r.tearing /\ r.todo = Enter
         \/ r.name = "uninstall" /\ r.todo = DevUninstallHypr
         \/ (r.name = "leave" \/ (r.name = "enter" /\ r.tearing)) /\ r.todo = Leave
  PROVE  RunSafe(r)
<1>1. ~HasDev(r.backup.text) /\ ~HasDev(r.buffer)
  BY IdleSafe
<1>2. "removeShare" \notin Doing
  BY DEF Doing, Both
<1>3. ASSUME "share" \in Ahead(r.todo), Ahead(r.todo) \subseteq Doing,
             "block" \in Ahead(r.todo) => desk.kind = "lua"
      PROVE  RunSafe(r)
  BY <1>1, <1>2, <1>3 DEF RunSafe, CopySafe, InstallSafe
<1>4. ASSUME r.name \notin {"install", "devInstall", "enter"} \/ (r.name = "enter" /\ r.tearing),
             UninstallSteps \subseteq Ahead(r.todo)
      PROVE  RunSafe(r)
  <2>1. ~Installing(r)
    BY <1>4 DEF Installing, Busy
  <2>2. HasDev(binds.lua) => desk.kind = "lua"
    BY DEF FilesSafe, HasDev, Content
  <2>3. /\ "loadHypr" \in UninstallSteps /\ "dropHypr" \in UninstallSteps
        /\ "readDev" \in UninstallSteps /\ "stripDev" \in UninstallSteps
        /\ desk.kind = "lua" => "stripDevBlock" \in UninstallSteps
    BY DEF UninstallSteps
  <2>4. RemoveSafe(r)
    BY <1>4, <2>2, <2>3 DEF RemoveSafe
  <2> QED
    BY <1>1, <2>1, <2>4 DEF RunSafe, CopySafe
<1>5. ASSUME NEW ui \in Uis, r.todo = InstallAll(ui) PROVE RunSafe(r)
  <2>1. Ahead(r.todo) = InstallSteps(ui)
    BY <1>5, InstallAllSteps
  <2>2. InstallSteps(ui) \subseteq Doing /\ "share" \in InstallSteps(ui)
        /\ ("block" \in InstallSteps(ui) => desk.kind = "lua")
    BY <1>5 DEF InstallSteps, Doing, Both, Uis
  <2> QED
    BY <1>3, <2>1, <2>2
<1>6. CASE r.todo = DevInstallAll
  BY <1>3, <1>6, DevInstallSteps
<1>7. CASE r.todo = Enter
  BY <1>3, <1>7, EnterSteps
<1>8. CASE r.name = "uninstall" /\ r.todo = DevUninstallHypr
  BY <1>4, <1>8, DevUninstallHyprSteps
<1>9. CASE (r.name = "leave" \/ (r.name = "enter" /\ r.tearing)) /\ r.todo = Leave
  BY <1>4, <1>9, LeaveSteps
<1> QED
  BY <1>5, <1>6, <1>7, <1>8, <1>9

\* Commands that end, fail or die, and those that follow them.
LEMMA NextShare ==
  ASSUME TypeInv, ShareInv, NEW t \in Terminals, NEW r \in Runs, run[t] # Idle,
         UNCHANGED <<desk, binds, tools, late>>, saved'.hypr = saved.hypr, run'[t] = r,
         \A u \in Terminals \ {t} : run'[u] = run[u] \/ run'[u] = Dented(run[u]),
         \/ r \in {Idle, AfterSession(run[t]), AfterFault(run[t]), EnterAgain(run[t])}
         \/ /\ "exit" \in Ahead(run[t].todo)
            /\ r.todo = Tail(From(run[t].todo, "exit"))
            /\ r.name = run[t].name /\ r.tearing = run[t].tearing
            /\ r.buffer = run[t].buffer /\ r.backup = run[t].backup
  PROVE  ShareInv'
<1>0. RunsOK /\ run[t] \in Runs /\ RunSafe(run[t]) /\ FilesSafe
  BY DEF TypeInv, RunsOK, ShareInv
<1>1. \A u \in Terminals \ {t} : Twin(run'[u], run[u])
  <2> SUFFICES ASSUME NEW u \in Terminals \ {t} PROVE Twin(run'[u], run[u])
    OBVIOUS
  <2>1. run[u] \in Runs /\ Good(run[u])
    BY <1>0 DEF RunsOK, Shape
  <2> QED
    BY <2>1, DentedFine DEF Twin
<1>3. RunSafe(r)
  <2>1. CASE r = Idle
    BY <2>1, IdleSafe
  <2>2. CASE r \in {AfterSession(run[t]), AfterFault(run[t])}
    <3>1. r.todo = Leave /\ r.name = "leave" /\ r.buffer = {} /\ r.backup = Idle.backup
      BY <1>0, <2>2, AfterFine
    <3> QED
      BY <1>0, <3>1, FreshSafe
  <2>3. CASE r = EnterAgain(run[t])
    <3>1. r.todo = Enter /\ r.name = "enter" /\ ~r.tearing /\ r.buffer = {} /\ r.backup = Idle.backup
      BY <1>0, <2>3, EnterAgainFine
    <3> QED
      BY <1>0, <3>1, FreshSafe
  <2>4. CASE /\ "exit" \in Ahead(run[t].todo)
             /\ r.todo = Tail(From(run[t].todo, "exit"))
             /\ r.name = run[t].name /\ r.tearing = run[t].tearing
             /\ r.buffer = run[t].buffer /\ r.backup = run[t].backup
    <3>1. \A x \in Ahead(r.todo) : Earlier("exit", x)
      BY <1>0, <2>4, OnFine
    <3>2. /\ ~Earlier("exit", "append") /\ ~Earlier("exit", "block") /\ ~Earlier("exit", "removeShare")
          /\ ~Earlier("wait", "exit")
      BY Ranks DEF Earlier
    <3>3. ~Waits(run[t])
      <4>1. SUFFICES ASSUME At(t, "wait") PROVE FALSE
        BY DEF Waits, At
      <4>2. Ahead(run[t].todo) = Ahead(Tail(run[t].todo)) \cup {"wait"}
            /\ \A x \in Ahead(Tail(run[t].todo)) : Earlier("wait", x)
        BY <1>0, <4>1, NextStep
      <4> QED
        BY <2>4, <3>2, <4>2
    <3>4. Installing(r) => Installing(run[t])
      BY <2>4, <3>3 DEF Installing, Busy
    <3> QED
      BY <1>0, <2>4, <3>1, <3>2, <3>4 DEF RunSafe, CopySafe, InstallSafe
  <2> QED
    BY <2>1, <2>2, <2>3, <2>4
<1> QED
  BY <1>0, <1>1, <1>3, Onward DEF ShareInv

LEMMA EndingShare ==
  ASSUME TypeInv, ShareInv, NEW t \in Terminals,
         \/ Exit(t) \/ Done(t) \/ Fail(t) \/ Kill(t) \/ Wait(t) \/ Interrupt(t)
         \/ BarBackup(t) /\ bar = {}
         \/ DropBar(t) /\ Abort(t)
  PROVE  ShareInv'
<1>0. RunsOK /\ run[t] \in Runs /\ saved \in SavedType
  BY DEF TypeInv, RunsOK, FilesOK, SavedType
<1>1. AfterSession(run[t]) \in Runs /\ AfterFault(run[t]) \in Runs /\ EnterAgain(run[t]) \in Runs /\ Idle \in Runs
  BY <1>0, AfterFine, EnterAgainFine, IdleFine
<1>2. CASE Exit(t)
  <2>1. At(t, "exit") /\ UNCHANGED <<binds, bar, menu, tools, saved, session, late>>
    BY <1>2 DEF Exit
  <2>2. CASE Len(run[t].todo) > 1
    <3>1. Pop(t)
      BY <1>2, <2>2 DEF Exit
    <3>2. "exit" \notin Key
      BY DEF Key
    <3> QED
      BY <1>0, <2>1, <3>1, <3>2, PlainSafe
  <2>3. CASE ~(Len(run[t].todo) > 1)
    <3>1. run' = [run EXCEPT ![t] = Idle] /\ UNCHANGED desk
      BY <1>2, <2>3 DEF Exit
    <3>2. run'[t] = Idle /\ \A u \in Terminals \ {t} : run'[u] = run[u]
      BY <1>0, <3>1 DEF RunsOK
    <3>3. run[t] # Idle
      BY <1>0, <2>1, NextStep
    <3> QED
      BY <1>1, <2>1, <3>1, <3>2, <3>3, NextShare
  <2> QED
    BY <2>2, <2>3
<1>3. CASE Done(t)
  <2>1. run[t] # Idle /\ UNCHANGED <<desk, binds, tools, late, saved>>
    BY <1>0, <1>3, NextStep DEF Done
  <2>2. run'[t] \in {Idle, EnterAgain(run[t])}
    BY <1>0, <1>3, DoneFine
  <2>3. \A u \in Terminals \ {t} : run'[u] = run[u]
    BY <1>0, <1>3 DEF Done, RunsOK
  <2> QED
    BY <1>1, <2>1, <2>2, <2>3, NextShare
<1>4. CASE Kill(t)
  <2>1. run[t] # Idle /\ UNCHANGED <<desk, binds, tools, late, saved>>
    BY <1>4 DEF Kill, Fault
  <2> QED
    BY <1>0, <1>1, <1>4, <2>1, KillFine, NextShare
<1>5. CASE Fail(t)
  <2>1. UNCHANGED <<desk, binds, tools, late, saved>> /\ run[t] # Idle
    BY <1>5 DEF Fail, Fault, InCommand, Idle
  <2>2. /\ RunsOK' /\ \A u \in Terminals \ {t} : run'[u] = Dented(run[u])
        /\ \/ run'[t] \in {Idle, AfterFault(run[t])}
           \/ run'[t] = GoesOn(run[t]) /\ "exit" \in Ahead(run[t].todo)
    BY <1>0, <1>5, FailFine
  <2>3. run'[t] \in Runs
    BY <2>2 DEF RunsOK
  <2>4. LET r == GoesOn(run[t]) IN
        /\ r.todo = Tail(From(run[t].todo, "exit")) /\ r.name = run[t].name /\ r.tearing = run[t].tearing
        /\ r.buffer = run[t].buffer /\ r.backup = run[t].backup
    BY <1>0 DEF GoesOn, Runs
  <2> QED
    BY <2>1, <2>2, <2>3, <2>4, NextShare
<1>6. ASSUME run[t] # Idle, UNCHANGED <<desk, binds, tools, late>>, saved'.hypr = saved.hypr, EndOfEnter(t)
      PROVE  ShareInv'
  <2>1. run'[t] \in {Idle, AfterSession(run[t])}
    BY <1>0, <1>6, EndOfEnterFine
  <2>2. \A u \in Terminals \ {t} : run'[u] = run[u]
    BY <1>0, <1>6 DEF EndOfEnter, RunsOK
  <2> QED
    BY <1>1, <1>6, <2>1, <2>2, NextShare
<1>7. CASE Wait(t)
  BY <1>0, <1>6, <1>7, NextStep DEF Wait
<1>8. CASE Interrupt(t)
  BY <1>6, <1>8 DEF Interrupt, Idle
<1>9. ASSUME NEW s \in {"barBackup", "dropBar"}, At(t, s), Abort(t), UNCHANGED <<desk, binds, tools, late>>,
             saved'.hypr = saved.hypr
      PROVE  ShareInv'
  <2>0. run[t] # Idle /\ s \in Ahead(run[t].todo) /\ Good(run[t])
    BY <1>0, <1>9, NextStep
  <2>1. CASE run[t].tearing
    <3> DEFINE e == Tail(From(run[t].todo, "exit"))
               r == [run[t] EXCEPT !.todo = e]
    <3>1. run' = [run EXCEPT ![t] = r]
      BY <1>0, <1>9, <2>1 DEF Abort, RunsOK
    <3>2. "exit" \in Ahead(run[t].todo)
      BY <2>0 DEF Good, Closed
    <3>3. e \in Seq(Steps)
      BY <1>0, <3>2, OnFine
    <3> HIDE DEF e
    <3>4. /\ r \in Runs /\ r.todo = e /\ r.name = run[t].name /\ r.tearing = run[t].tearing
          /\ r.buffer = run[t].buffer /\ r.backup = run[t].backup
      BY <1>0, <3>3 DEF Runs
    <3> HIDE DEF r
    <3>5. run'[t] = r /\ \A u \in Terminals \ {t} : run'[u] = run[u]
      BY <1>0, <3>1 DEF RunsOK
    <3> QED
      BY <1>9, <2>0, <3>2, <3>4, <3>5, NextShare DEF e
  <2>2. CASE run[t].name = "enter" /\ ~run[t].tearing
    <3>1. EndOfEnter(t)
      BY <1>9, <2>2, Zenon DEF Abort
    <3> QED
      BY <1>6, <1>9, <2>0, <3>1
  <2>3. CASE ~run[t].tearing /\ run[t].name # "enter"
    <3>1. run' = [run EXCEPT ![t] = Idle]
      BY <1>9, <2>3 DEF Abort
    <3>2. run'[t] = Idle /\ \A u \in Terminals \ {t} : run'[u] = run[u]
      BY <1>0, <3>1 DEF RunsOK
    <3> QED
      BY <1>1, <1>9, <2>0, <3>2, NextShare
  <2> QED
    BY <2>1, <2>2, <2>3
<1>10. CASE BarBackup(t) /\ bar = {}
  BY <1>9, <1>10 DEF BarBackup, Fails
<1>11. CASE DropBar(t) /\ Abort(t)
  <2>1. At(t, "dropBar") /\ UNCHANGED <<desk, binds, tools, late>>
    BY <1>11 DEF DropBar, Fails
  <2>2. saved'.hypr = saved.hypr
    BY <1>0, <1>11 DEF DropBar, SavedType
  <2> QED
    BY <1>9, <1>11, <2>1, <2>2
<1> QED
  BY <1>2, <1>3, <1>4, <1>5, <1>7, <1>8, <1>10, <1>11

LEMMA BeginsShare ==
  ASSUME TypeInv, ShareInv, NEW t \in Terminals, Begins(t)
  PROVE  ShareInv'
<1>0. RunsOK
  BY DEF TypeInv
<1>1. /\ UNCHANGED <<desk, binds, tools, late, saved>>
      /\ \A u \in Terminals \ {t} : run'[u] = run[u]
  <2>1. PICK name, todo, tearing : Begin(t, name, todo, tearing)
    BY Zenon DEF Begins, BeginInstall, BeginDevInstall, BeginUninstall, BeginLeave, BeginEnter
  <2>2. UNCHANGED <<desk, binds, tools, late, saved>>
    BY <2>1 DEF Begin
  <2>3. \E r : run' = [run EXCEPT ![t] = r]
    BY <2>1, Zenon DEF Begin
  <2> QED
    BY <1>0, <2>2, <2>3 DEF RunsOK
<1>2. /\ run'[t].buffer = {} /\ run'[t].backup = Idle.backup
      /\ \/ run'[t].name = "install" /\ \E ui \in Uis : run'[t].todo = InstallAll(ui)
         \/ run'[t].name = "devInstall" /\ run'[t].todo = DevInstallAll
         \/ run'[t].name = "enter" /\ ~run'[t].tearing /\ run'[t].todo = Enter
         \/ run'[t].name = "uninstall" /\ run'[t].todo = DevUninstallHypr
         \/ (run'[t].name = "leave" \/ (run'[t].name = "enter" /\ run'[t].tearing)) /\ run'[t].todo = Leave
  <2>2. \/ \E ui \in Uis : run'[t] = Fresh("install", InstallAll(ui), FALSE)
        \/ run'[t] = Fresh("devInstall", DevInstallAll, FALSE)
        \/ run'[t] = Fresh("uninstall", DevUninstallHypr, FALSE)
        \/ run'[t] = Fresh("leave", Leave, TRUE)
        \/ run'[t] = Fresh("enter", Leave, TRUE) \/ run'[t] = Fresh("enter", Enter, FALSE)
    BY <1>0, BeginsRuns
  <2>3. CASE \E ui \in Uis : run'[t] = Fresh("install", InstallAll(ui), FALSE)
    <3>1. PICK ui \in Uis : run'[t] = Fresh("install", InstallAll(ui), FALSE)
      BY <2>3
    <3>2. run'[t].buffer = {} /\ run'[t].backup = Idle.backup /\ run'[t].name = "install" /\ run'[t].todo = InstallAll(ui)
      BY <3>1 DEF Fresh, Idle
    <3> QED
      BY <3>2
  <2>4. CASE run'[t] = Fresh("devInstall", DevInstallAll, FALSE)
    <3>1. /\ run'[t].buffer = {} /\ run'[t].backup = Idle.backup
          /\ run'[t].name = "devInstall" /\ run'[t].todo = DevInstallAll /\ ~run'[t].tearing
      BY <2>4 DEF Fresh, Idle
    <3> QED
      BY <3>1
  <2>5. CASE run'[t] = Fresh("uninstall", DevUninstallHypr, FALSE)
    <3>1. /\ run'[t].buffer = {} /\ run'[t].backup = Idle.backup
          /\ run'[t].name = "uninstall" /\ run'[t].todo = DevUninstallHypr /\ ~run'[t].tearing
      BY <2>5 DEF Fresh, Idle
    <3> QED
      BY <3>1
  <2>6. CASE run'[t] = Fresh("leave", Leave, TRUE)
    <3>1. /\ run'[t].buffer = {} /\ run'[t].backup = Idle.backup
          /\ run'[t].name = "leave" /\ run'[t].todo = Leave /\ run'[t].tearing
      BY <2>6 DEF Fresh, Idle
    <3> QED
      BY <3>1
  <2>7. CASE run'[t] = Fresh("enter", Leave, TRUE)
    <3>1. /\ run'[t].buffer = {} /\ run'[t].backup = Idle.backup
          /\ run'[t].name = "enter" /\ run'[t].todo = Leave /\ run'[t].tearing
      BY <2>7 DEF Fresh, Idle
    <3> QED
      BY <3>1
  <2>8. CASE run'[t] = Fresh("enter", Enter, FALSE)
    <3>1. /\ run'[t].buffer = {} /\ run'[t].backup = Idle.backup
          /\ run'[t].name = "enter" /\ run'[t].todo = Enter /\ ~run'[t].tearing
      BY <2>8 DEF Fresh, Idle
    <3> QED
      BY <3>1
  <2> QED
    BY <2>2, <2>3, <2>4, <2>5, <2>6, <2>7, <2>8
<1>3. FilesSafe
  BY DEF ShareInv
<1>4. \A r : r = run'[t] => RunSafe(r)
  BY <1>2, <1>3, FreshSafe
<1> QED
  BY <1>1, <1>4, Onward DEF Twin

\* The detours of an uninstall, and the shortcut of a teardown that finds nothing of dev.
LEMMA DetourShare ==
  ASSUME TypeInv, ShareInv, NEW t \in Terminals, ProdBar(t) \/ Detect(t) \/ EnsureProd(t)
  PROVE  ShareInv'
<1>0. RunsOK /\ run[t] \in Runs /\ RunSafe(run[t])
  BY DEF TypeInv, RunsOK, ShareInv
<1>1. ASSUME NEW s, At(t, s), s \notin Doing, NEW r, run'[t] = r, r = [run[t] EXCEPT !.todo = r.todo],
             UNCHANGED <<desk, binds, tools, late, saved>>, \A u \in Terminals \ {t} : run'[u] = run[u],
             "removeShare" \in Ahead(r.todo) => RemoveSafe(r)
      PROVE  ShareInv'
  <2>1. s \in Scope(run[t])
    BY <1>0, <1>1, NextStep
  <2>2. r.name = run[t].name /\ r.tearing = run[t].tearing
    BY <1>0, <1>1 DEF Runs
  <2>3. ~Installing(r)
    BY <1>1, <2>1, <2>2 DEF Scope, Installing, Busy
  <2>4. RunSafe(r)
    <3>1. r.backup = run[t].backup
      BY <1>0, <1>1 DEF Runs
    <3> QED
      BY <1>0, <1>1, <2>3, <3>1 DEF RunSafe, CopySafe
  <2> QED
    BY <1>1, <2>4, Onward DEF Twin
<1> USE DEF Key
<1>2. ASSUME NEW r, r = [run[t] EXCEPT !.todo = r.todo] PROVE r.had = run[t].had /\ r.buffer = run[t].buffer
  BY <1>0, <1>2 DEF Runs
<1>3. CASE ProdBar(t)
  <2>0. At(t, "prodBar") /\ UNCHANGED <<desk, binds, tools, late, saved>> /\ \A u \in Terminals \ {t} : run'[u] = run[u]
    BY <1>0, <1>3 DEF ProdBar, Goto, Pop, PopWith, RunsOK
  <2>1. "prodBar" \notin Doing /\ "prodBar" \notin Key \cup {"wait"}
    BY DEF Doing, Both
  <2>2. CASE run'[t] = [run[t] EXCEPT !.todo = Tail(@)] /\ UNCHANGED bar
    <3> DEFINE r == run'[t]
    <3>1. r.todo = Tail(run[t].todo) /\ r = [run[t] EXCEPT !.todo = r.todo]
      BY <1>0, <2>2 DEF Runs
    <3>2. Ahead(run[t].todo) = Ahead(r.todo) \cup {"prodBar"}
      BY <1>0, <2>0, <3>1, NextStep
    <3> HIDE DEF r
    <3>3. r.had = run[t].had /\ r.buffer = run[t].buffer
      BY <1>2, <3>1
    <3>4. "removeShare" \in Ahead(r.todo) => RemoveSafe(r)
      BY <1>0, <3>2, <3>3 DEF RunSafe, RemoveSafe
    <3> QED
      BY <1>1, <2>0, <2>1, <3>1, <3>4 DEF r
  <2>3. CASE ~(run'[t] = [run[t] EXCEPT !.todo = Tail(@)] /\ UNCHANGED bar)
    <3> DEFINE r == run'[t]
               e == Tail(From(run[t].todo, "dropBar"))
    <3>1. /\ Ahead(r.todo) = {"patchProd", "dropDevBar"} \cup Ahead(e)
          /\ r = [run[t] EXCEPT !.todo = r.todo]
          /\ \A x \in Ahead(e) : x \in Ahead(run[t].todo) /\ Earlier("dropBar", x)
          /\ \A x \in Ahead(run[t].todo) : x \in Ahead(e) \/ x = "dropBar" \/ Earlier(x, "dropBar")
      BY <1>0, <1>3, <2>3, ProdBarFine
    <3> HIDE DEF r, e
    <3>2. /\ ~Earlier("loadHypr", "dropBar") /\ ~Earlier("dropHypr", "dropBar") /\ ~Earlier("readDev", "dropBar")
          /\ ~Earlier("stripDev", "dropBar") /\ ~Earlier("stripDevBlock", "dropBar")
          /\ ~Earlier("removeShare", "dropBar")
      BY Ranks DEF Earlier
    <3>3. r.had = run[t].had /\ r.buffer = run[t].buffer
      BY <1>2, <3>1
    <3>4. \A x \in {"loadHypr", "dropHypr", "readDev", "stripDev", "stripDevBlock", "removeShare"} :
              x \in Ahead(r.todo) <=> x \in Ahead(run[t].todo)
      BY <3>1, <3>2
    <3>5. \A x \in {"seed", "dropBar"} : x \in Ahead(r.todo) => x \in Ahead(run[t].todo)
      BY <3>1
    <3>6. "removeShare" \in Ahead(r.todo) => RemoveSafe(r)
      BY <1>0, <3>3, <3>4, <3>5 DEF RunSafe, RemoveSafe
    <3> QED
      BY <1>1, <2>0, <2>1, <3>1, <3>6 DEF r
  <2> QED
    BY <2>2, <2>3
<1>4. CASE Detect(t)
  <2>0. At(t, "detect") /\ UNCHANGED <<desk, binds, tools, late, saved>> /\ \A u \in Terminals \ {t} : run'[u] = run[u]
    BY <1>0, <1>4 DEF Detect, Goto, RunsOK
  <2>1. "detect" \notin Doing
    BY DEF Doing, Both
  <2> DEFINE r == run'[t]
  <2>2. /\ r = [run[t] EXCEPT !.todo = r.todo]
        /\ \/ Ahead(r.todo) = Ahead(run[t].todo) \ {"detect"}
           \/ \A x \in Ahead(r.todo) : x = "unmark" \/ Earlier("unmark", x)
    BY <1>0, <1>4, DetectFine
  <2> HIDE DEF r
  <2>3. r.had = run[t].had /\ r.buffer = run[t].buffer
    BY <1>2, <2>2
  <2>4. ~Earlier("unmark", "removeShare")
    BY Ranks DEF Earlier
  <2>5. "removeShare" \in Ahead(r.todo) => RemoveSafe(r)
    BY <1>0, <2>2, <2>3, <2>4 DEF RunSafe, RemoveSafe
  <2> QED
    BY <1>1, <2>0, <2>1, <2>2, <2>5 DEF r
<1>5. CASE EnsureProd(t)
  <2>0. At(t, "ensureProd") /\ UNCHANGED <<desk, binds, tools, late, saved>> /\ \A u \in Terminals \ {t} : run'[u] = run[u]
    BY <1>0, <1>5 DEF EnsureProd, Goto, Pop, PopWith, RunsOK
  <2>1. "ensureProd" \notin Doing
    BY DEF Doing, Both
  <2> DEFINE r == run'[t]
  <2>2. /\ r = [run[t] EXCEPT !.todo = r.todo]
        /\ \/ Ahead(r.todo) = Ahead(run[t].todo) \ {"ensureProd"}
           \/ Ahead(r.todo) = (Ahead(run[t].todo) \ {"ensureProd"}) \cup {"addProd"}
                      \cup (IF run[t].restored THEN {} ELSE {"readDev", "stripDev"})
    BY <1>0, <1>5, EnsureProdFine
  <2> HIDE DEF r
  <2>3. r.had = run[t].had /\ r.buffer = run[t].buffer
    BY <1>2, <2>2
  <2>4. "removeShare" \in Ahead(r.todo) => RemoveSafe(r)
    BY <1>0, <2>2, <2>3 DEF RunSafe, RemoveSafe
  <2> QED
    BY <1>1, <2>0, <2>1, <2>2, <2>4 DEF r
<1> QED
  BY <1>3, <1>4, <1>5

\* Where a step that only installs take is next, an install is under way.
LEMMA MustInstall ==
  ASSUME RunsOK, NEW t \in Terminals, NEW s, At(t, s), s \notin Undoing, s # "wait"
  PROVE  Installing(run[t])
<1>1. s \in Scope(run[t])
  BY NextStep
<1>2. ~Waits(run[t])
  BY DEF Waits, At
<1> QED
  BY <1>1, <1>2 DEF Scope, Installing, Busy

\* A step of an install: nobody else holds any step.
LEMMA InstallStep ==
  ASSUME RunsOK, ShareInv, NEW t \in Terminals, NEW s, NEW r, Takes(t, s, r), Installing(run[t]),
         r.name = run[t].name, UNCHANGED desk,
         tools.devShare => tools'.devShare, There => There',
         s = "share" => run[t].name = "install" \/ tools'.devShare,
         HasDev(r.buffer) \/ HasDev(r.backup.text) => There',
         HasDev(binds'.conf) \/ HasDev(binds'.lua) => There',
         \A b \in saved'.hypr["Dev"] : HasDev(b.text) => There',
         desk.kind # "lua" => binds'.lua = {}
  PROVE  ShareInv'
<1>1. /\ \A u \in Terminals \ {t} : run[u] = Idle
      /\ "removeShare" \notin Ahead(run[t].todo) /\ run[t] # Idle
  BY TwoModes DEF Takes
<1>2. FilesSafe'
  BY DEF FilesSafe, There, SourcedExists, DevIntegrationInstalled, HasDev
<1>3. InstallSafe(run[t])
  BY DEF ShareInv, RunSafe
<1>4. InstallSafe(run[t])'
  BY <1>3 DEF InstallSafe, Takes
<1>5. RunSafe(run[t])'
  BY <1>1, <1>4 DEF RunSafe, CopySafe, Takes
<1>6. ASSUME NEW u \in Terminals \ {t} PROVE RunSafe(run[u])'
  <2>1. run'[u] = Idle
    BY <1>1 DEF Takes
  <2> QED
    BY <2>1, IdleSafe DEF RunSafe, CopySafe
<1> QED
  BY <1>2, <1>5, <1>6 DEF ShareInv

\* A step of an uninstall: nobody installs.
LEMMA UndoStep ==
  ASSUME RunsOK, NEW t \in Terminals, NEW s, NEW r, Takes(t, s, r), ~Installing(run[t]), FilesSafe',
         \A u \in Terminals : CopySafe(run[u])',
         \A u \in Terminals : "removeShare" \in Ahead(run'[u].todo) => RemoveSafe(run[u])'
  PROVE  ShareInv'
<1>1. \A u \in Terminals \ {t} : ~Installing(run[u])
  BY TwoModes DEF Takes
<1>2. \A u \in Terminals : ~Installing(run'[u])
  BY <1>1 DEF Takes
<1> QED
  BY <1>2 DEF ShareInv, RunSafe

LEMMA DevLines ==
  /\ ~HasDev({}) /\ \A S : HasDev({S}) <=> "Dev" \in S
  /\ \A l, p : HasDev({Content(l) \cup {p}}) <=> HasDev(l) \/ p = "Dev"
  /\ \A l, p : HasDev({Content(l) \ {p}}) <=> HasDev(l) /\ p # "Dev"
  /\ \A l, p : HasDev({lines \ {p} : lines \in l}) => HasDev(l) /\ p # "Dev"
  /\ \A p : {lines \ {p} : lines \in {}} = {}
<1>1. ~HasDev({}) /\ \A S : HasDev({S}) <=> "Dev" \in S
  BY DEF HasDev, Content
<1>2. \A l, p : HasDev({Content(l) \cup {p}}) <=> HasDev(l) \/ p = "Dev"
  <2> SUFFICES ASSUME NEW l, NEW p PROVE "Dev" \in Content(l) \cup {p} <=> HasDev(l) \/ p = "Dev"
    BY <1>1
  <2> QED
    BY DEF HasDev
<1>3. \A l, p : HasDev({Content(l) \ {p}}) <=> HasDev(l) /\ p # "Dev"
  <2> SUFFICES ASSUME NEW l, NEW p PROVE "Dev" \in Content(l) \ {p} <=> HasDev(l) /\ p # "Dev"
    BY <1>1
  <2> QED
    BY DEF HasDev
<1>4. \A l, p : HasDev({lines \ {p} : lines \in l}) => HasDev(l) /\ p # "Dev"
  BY DEF HasDev, Content
<1>5. \A p : {lines \ {p} : lines \in {}} = {}
  OBVIOUS
<1> QED
  BY <1>1, <1>2, <1>3, <1>4, <1>5

LEMMA InstallsShare ==
  ASSUME TypeInv, ShareInv, NEW t \in Terminals,
         \/ Share(t) \/ Backup(t) \/ AppendLines(t) \/ Block(t) \/ HyprManifest(t)
         \/ \E p \in Profiles : (ReadConf(t, p) \/ StripConf(t, p) \/ StripBlock(t, p)) /\ Installing(run[t])
  PROVE  ShareInv'
<1>0. /\ RunsOK /\ run[t] \in Runs /\ saved \in SavedType /\ binds \in BindsType
      /\ tools \in [schema : BOOLEAN, devShare : BOOLEAN, openers : SUBSET Profiles,
                    editor : Profiles \cup {"own", "unset"}, helper : SUBSET Helper, enabled : BOOLEAN]
  BY DEF TypeInv, RunsOK, FilesOK, SavedType, BindsType
<1>1. /\ HasDev(binds.conf) \/ HasDev(binds.lua) => There
      /\ \A b \in saved.hypr["Dev"] : HasDev(b.text) => There
      /\ desk.kind # "lua" => binds.lua = {}
  BY DEF ShareInv, FilesSafe, There, SourcedExists, DevIntegrationInstalled, HasDev
<1>2. Installing(run[t]) => InstallSafe(run[t])
  BY DEF ShareInv, RunSafe
<1>3. /\ "share" \notin Undoing /\ "backup" \notin Undoing /\ "append" \notin Undoing
      /\ "block" \notin Undoing /\ "hyprManifest" \notin Undoing
  BY DEF Undoing, Both
\* Taking a step with r for the command's memory.
<1>4. ASSUME NEW s, At(t, s), s # "wait", NEW r \in Runs, r.todo = run[t].todo, r.name = run[t].name,
             r.tearing = run[t].tearing, PopWith(t, r)
      PROVE  Takes(t, s, r) /\ UNCHANGED desk
  BY <1>0, <1>4, Taken DEF PopWith
<1>5. CASE Share(t)
  <2> DEFINE w == tools.devShare \/ Profile(t) = "Dev"
  <2>1. At(t, "share") /\ Pop(t) /\ UNCHANGED <<binds, saved>> /\ tools' = [tools EXCEPT !.devShare = w]
    BY <1>5 DEF Share
  <2>2. w \in BOOLEAN
    OBVIOUS
  <2>3. tools.devShare => w
    OBVIOUS
  <2>4. run[t].name = "install" \/ w
    BY DEF Profile
  <2>10. Profile(t) = "Dev" => w
    OBVIOUS
  <2> HIDE DEF w
  <2>5. tools'.devShare = w
    BY <1>0, <2>1
  <2>9. There => There'
    <3>1. CASE w
      BY <2>5, <3>1 DEF There
    <3>2. CASE ~w
      <4>1. Profile(t) # "Dev" /\ late' = (late /\ Profile(t) # "Dev") /\ ~tools.devShare
        BY <1>5, <2>10, <2>3, <3>2 DEF Share
      <4>2. late => late'
        BY <4>1
      <4> QED
        BY <4>1, <4>2 DEF There
    <3> QED
      BY <3>1, <3>2
  <2>6. Installing(run[t])
    BY <1>0, <1>3, <2>1, MustInstall
  <2>7. Takes(t, "share", run[t]) /\ UNCHANGED desk
    BY <1>0, <1>4, <2>1 DEF Pop
  <2>8. HasDev(run[t].buffer) \/ HasDev(run[t].backup.text) => There
    BY <1>2, <2>6 DEF InstallSafe
  <2> QED
    BY <1>0, <1>1, <2>1, <2>3, <2>4, <2>5, <2>6, <2>7, <2>8, <2>9, InstallStep
\* The other steps leave the tree alone.
<1>6. ASSUME NEW s, At(t, s), s # "wait", s # "share", Installing(run[t]), NEW r \in Runs, r.todo = run[t].todo,
             r.name = run[t].name, r.tearing = run[t].tearing, PopWith(t, r), UNCHANGED <<tools, late>>,
             HasDev(r.buffer) \/ HasDev(r.backup.text) => There,
             HasDev(binds'.conf) \/ HasDev(binds'.lua) => There,
             \A b \in saved'.hypr["Dev"] : HasDev(b.text) => There,
             desk.kind # "lua" => binds'.lua = {}
      PROVE  ShareInv'
  <2>1. Takes(t, s, r) /\ UNCHANGED desk
    BY <1>4, <1>6
  <2> QED
    BY <1>0, <1>6, <2>1, InstallStep DEF There
<1>7. Installing(run[t]) => (HasDev(run[t].buffer) \/ HasDev(run[t].backup.text) => There)
  BY <1>2 DEF InstallSafe
<1>8. CASE Backup(t)
  <2> DEFINE b == [text |-> Bindings, native |-> FALSE]
             r == [run[t] EXCEPT !.backup = b]
             c == IF desk.kind # "lua" /\ binds.conf = {} THEN {{}} ELSE binds.conf
  <2>1. At(t, "backup") /\ PopWith(t, r) /\ UNCHANGED <<tools, late, saved>> /\ binds' = [binds EXCEPT !.conf = c]
    BY <1>8 DEF Backup
  <2>3. HasDev(c) => There
    BY <1>1, DevLines
  <2>4. b \in Backups
    BY <1>0 DEF Backups, Bindings, BindsType
  <2>5. HasDev(b.text) => There
    BY <1>1 DEF Bindings
  <2> HIDE DEF b, c
  <2>6. binds'.conf = c /\ binds'.lua = binds.lua
    BY <1>0, <2>1 DEF BindsType
  <2>7. /\ r \in Runs /\ r.todo = run[t].todo /\ r.name = run[t].name /\ r.tearing = run[t].tearing
        /\ r.buffer = run[t].buffer /\ r.backup = b
    BY <1>0, <2>4 DEF Runs
  <2> HIDE DEF r
  <2>8. Installing(run[t])
    BY <1>0, <1>3, <2>1, MustInstall
  <2> QED
    BY <1>1, <1>6, <1>7, <2>1, <2>3, <2>5, <2>6, <2>7, <2>8
<1>9. CASE AppendLines(t)
  <2> DEFINE c == {Content(binds.conf) \cup {Profile(t)}}
  <2>1. At(t, "append") /\ Pop(t) /\ UNCHANGED <<tools, late, saved>> /\ binds' = [binds EXCEPT !.conf = c]
    BY <1>9 DEF AppendLines
  <2>2. Installing(run[t])
    BY <1>0, <1>3, <2>1, MustInstall
  <2>3. HasDev(c) => HasDev(binds.conf) \/ Profile(t) = "Dev"
    BY DevLines
  <2>4. Profile(t) = "Dev" => There
    <3>1. ~Earlier("append", "share")
      BY Ranks DEF Earlier
    <3>2. "append" \in Ahead(run[t].todo) /\ "share" \notin Ahead(run[t].todo)
      BY <1>0, <2>1, <3>1, NextStep
    <3> QED
      BY <1>2, <2>2, <3>2 DEF InstallSafe, There, Profile
  <2> HIDE DEF c
  <2>5. binds'.conf = c /\ binds'.lua = binds.lua
    BY <1>0, <2>1 DEF BindsType
  <2> QED
    BY <1>0, <1>1, <1>6, <1>7, <2>1, <2>2, <2>3, <2>4, <2>5 DEF Pop
<1>10. CASE Block(t)
  <2> DEFINE c == {Content(binds.lua) \cup {Profile(t)}}
  <2>1. At(t, "block") /\ Pop(t) /\ UNCHANGED <<tools, late, saved>> /\ binds' = [binds EXCEPT !.lua = c]
    BY <1>10 DEF Block
  <2>2. Installing(run[t])
    BY <1>0, <1>3, <2>1, MustInstall
  <2>3. HasDev(c) => HasDev(binds.lua) \/ Profile(t) = "Dev"
    BY DevLines
  <2>4. (Profile(t) = "Dev" => There) /\ desk.kind = "lua"
    <3>1. ~Earlier("block", "share")
      BY Ranks DEF Earlier
    <3>2. "block" \in Ahead(run[t].todo) /\ "share" \notin Ahead(run[t].todo)
      BY <1>0, <2>1, <3>1, NextStep
    <3> QED
      BY <1>2, <2>2, <3>2 DEF InstallSafe, There, Profile
  <2> HIDE DEF c
  <2>5. binds'.lua = c /\ binds'.conf = binds.conf
    BY <1>0, <2>1 DEF BindsType
  <2> QED
    BY <1>0, <1>1, <1>6, <1>7, <2>1, <2>2, <2>3, <2>4, <2>5 DEF Pop
<1>11. CASE HyprManifest(t)
  <2> DEFINE r == [run[t] EXCEPT !.backup = Idle.backup]
  <2>1. /\ At(t, "hyprManifest") /\ PopWith(t, r) /\ UNCHANGED <<tools, late, binds>>
        /\ saved' = [saved EXCEPT !.hypr[Profile(t)] = {run[t].backup}]
    BY <1>11 DEF HyprManifest
  <2>2. saved'.hypr["Dev"] = IF Profile(t) = "Dev" THEN {run[t].backup} ELSE saved.hypr["Dev"]
    BY <1>0, <2>1 DEF SavedType, Profiles
  <2>3. /\ r \in Runs /\ r.todo = run[t].todo /\ r.name = run[t].name /\ r.tearing = run[t].tearing
        /\ r.buffer = run[t].buffer /\ r.backup = Idle.backup
    BY <1>0, IdleFine DEF Runs
  <2>4. ~HasDev(Idle.backup.text)
    BY DevLines DEF Idle
  <2> HIDE DEF r
  <2>5. Installing(run[t])
    BY <1>0, <1>3, <2>1, MustInstall
  <2>6. \A b \in saved'.hypr["Dev"] : HasDev(b.text) => There
    BY <1>1, <1>7, <2>2, <2>5
  <2> QED
    BY <1>1, <1>6, <1>7, <2>1, <2>3, <2>4, <2>5, <2>6
<1>12. ASSUME NEW p \in Profiles, ReadConf(t, p), Installing(run[t]) PROVE ShareInv'
  <2> DEFINE s == IF p = "Dev" THEN "readDev" ELSE "readProd"
             r == [run[t] EXCEPT !.buffer = binds.conf]
  <2>1. At(t, s) /\ PopWith(t, r) /\ UNCHANGED <<tools, late, binds, saved>>
    BY <1>12 DEF ReadConf
  <2>2. s # "wait" /\ s # "share"
    OBVIOUS
  <2>3. /\ r \in Runs /\ r.todo = run[t].todo /\ r.name = run[t].name /\ r.tearing = run[t].tearing
        /\ r.buffer = binds.conf /\ r.backup = run[t].backup
    BY <1>0 DEF Runs, BindsType
  <2> HIDE DEF r, s
  <2> QED
    BY <1>1, <1>6, <1>7, <1>12, <2>1, <2>2, <2>3
<1>13. ASSUME NEW p \in Profiles, StripConf(t, p), Installing(run[t]) PROVE ShareInv'
  <2> DEFINE s == IF p = "Dev" THEN "stripDev" ELSE "stripProd"
             r == [run[t] EXCEPT !.buffer = {}]
             c == IF p \in Content(run[t].buffer) THEN {Content(run[t].buffer) \ {p}} ELSE binds.conf
  <2>1. At(t, s) /\ PopWith(t, r) /\ UNCHANGED <<tools, late, saved>> /\ binds' = [binds EXCEPT !.conf = c]
    BY <1>13 DEF StripConf
  <2>2. s # "wait" /\ s # "share"
    OBVIOUS
  <2>3. /\ r \in Runs /\ r.todo = run[t].todo /\ r.name = run[t].name /\ r.tearing = run[t].tearing
        /\ r.buffer = {} /\ r.backup = run[t].backup
    BY <1>0, LineFacts DEF Runs
  <2>4. HasDev(c) => HasDev(run[t].buffer) \/ HasDev(binds.conf)
    BY DevLines
  <2> HIDE DEF r, s, c
  <2>5. binds'.conf = c /\ binds'.lua = binds.lua
    BY <1>0, <2>1 DEF BindsType
  <2> QED
    BY <1>1, <1>6, <1>7, <1>13, <2>1, <2>2, <2>3, <2>4, <2>5, DevLines
<1>14. ASSUME NEW p \in Profiles, StripBlock(t, p), Installing(run[t]) PROVE ShareInv'
  <2> DEFINE s == IF p = "Dev" THEN "stripDevBlock" ELSE "stripProdBlock"
             c == {lines \ {p} : lines \in binds.lua}
  <2>1. At(t, s) /\ Pop(t) /\ UNCHANGED <<tools, late, saved>> /\ binds' = [binds EXCEPT !.lua = c]
    BY <1>14 DEF StripBlock
  <2>2. s # "wait" /\ s # "share"
    OBVIOUS
  <2>3. (HasDev(c) => HasDev(binds.lua)) /\ (binds.lua = {} => c = {})
    <3>1. HasDev(c) => HasDev(binds.lua)
      BY DEF HasDev, Content
    <3>2. binds.lua = {} => c = {}
      OBVIOUS
    <3> QED
      BY <3>1, <3>2
  <2> HIDE DEF s, c
  <2>4. binds'.lua = c /\ binds'.conf = binds.conf
    BY <1>0, <2>1 DEF BindsType
  <2> QED
    BY <1>0, <1>1, <1>6, <1>7, <1>14, <2>1, <2>2, <2>3, <2>4 DEF Pop
<1> QED
  BY <1>5, <1>8, <1>9, <1>10, <1>11, <1>12, <1>13, <1>14

\* The steps that take the lines of dev away, or bring the user's own file back.
LEMMA UndoesShare ==
  ASSUME TypeInv, ShareInv, NEW t \in Terminals,
         \/ LoadHypr(t) \/ Restore(t) \/ DropHypr(t) \/ AddProd(t) \/ RemoveShare(t)
         \/ \E p \in Profiles : (ReadConf(t, p) \/ StripConf(t, p) \/ StripBlock(t, p)) /\ ~Installing(run[t])
  PROVE  ShareInv'
<1>0. /\ RunsOK /\ run[t] \in Runs /\ saved \in SavedType /\ binds \in BindsType
      /\ tools \in [schema : BOOLEAN, devShare : BOOLEAN, openers : SUBSET Profiles,
                    editor : Profiles \cup {"own", "unset"}, helper : SUBSET Helper, enabled : BOOLEAN]
  BY DEF TypeInv, RunsOK, FilesOK, SavedType, BindsType
<1>1. /\ HasDev(binds.conf) \/ HasDev(binds.lua) => There
      /\ \A b \in saved.hypr["Dev"] : HasDev(b.text) => There
      /\ desk.kind # "lua" => binds.lua = {}
  BY DEF ShareInv, FilesSafe, There, SourcedExists, DevIntegrationInstalled, HasDev
<1>2. \A u \in Terminals : "removeShare" \in Ahead(run[u].todo) => RemoveSafe(run[u])
  BY DEF ShareInv, RunSafe
<1>c. \A u \in Terminals : CopySafe(run[u])
  BY DEF ShareInv, RunSafe
<1>3. /\ "loadHypr" \notin Doing /\ "restore" \notin Doing /\ "dropHypr" \notin Doing /\ "addProd" \notin Doing /\ "removeShare" \notin Doing
      /\ "readProd" \notin Undoing /\ "stripProd" \notin Undoing /\ "stripProdBlock" \notin Undoing
  BY DEF Doing, Undoing, Both
\* No step comes twice, nor after one of a later rank.
<1>4. \A x \in {"loadHypr", "restore", "dropHypr", "readDev", "stripDev", "stripDevBlock", "removeShare"},
         y \in {"loadHypr", "restore", "dropHypr", "readDev", "stripDev", "stripDevBlock", "removeShare",
                "seed", "dropBar"} :
          Rank[y] <= Rank[x] => ~Earlier(x, y)
  BY Ranks DEF Earlier
<1>5. ASSUME NEW s, At(t, s), s # "wait", NEW r \in Runs, r.todo = run[t].todo, r.name = run[t].name,
             r.tearing = run[t].tearing, PopWith(t, r)
      PROVE  Takes(t, s, r) /\ UNCHANGED desk
  BY <1>0, <1>5, Taken DEF PopWith
\* The files are safe again, and every uninstall: the one that steps, and those beside it.
<1>6. ASSUME NEW s, s # "stopProd", NEW r, Takes(t, s, r), UNCHANGED desk, ~Installing(run[t]),
             There => There',
             HasDev(binds'.conf) \/ HasDev(binds'.lua) => There',
             \A b \in saved'.hypr["Dev"] : HasDev(b.text) => There',
             saved'.hypr["Dev"] # {} => saved.hypr["Dev"] # {},
             HasDev(r.backup.text) => HasDev(run[t].backup.text) \/ There',
             desk.kind # "lua" => binds'.lua = {},
             "removeShare" \in Ahead(run'[t].todo) => RemoveSafe(run[t])',
             \A u \in Terminals \ {t} : run'[u] = run[u] /\ RemoveSafe(run[u]) => RemoveSafe(run[u])'
      PROVE  ShareInv'
  <2>1. FilesSafe'
    BY <1>6 DEF FilesSafe, There, SourcedExists, DevIntegrationInstalled, HasDev
  <2>2. ASSUME NEW u \in Terminals, "removeShare" \in Ahead(run'[u].todo) PROVE RemoveSafe(run[u])'
    <3>1. CASE u = t
      BY <1>6, <2>2, <3>1
    <3>2. CASE u # t
      <4>1. run'[u] = run[u]
        BY <1>6, <3>2 DEF Takes
      <4> QED
        BY <1>2, <1>6, <2>2, <3>2, <4>1
    <3> QED
      BY <3>1, <3>2
  <2>3. ASSUME NEW u \in Terminals PROVE CopySafe(run[u])'
    BY <1>6, <1>c DEF CopySafe, Takes
  <2> QED
    BY <1>0, <1>6, <2>1, <2>2, <2>3, UndoStep
<1>k. UNCHANGED <<tools, late>> => (There <=> There')
  BY DEF There
<1>7. ASSUME NEW s, At(t, s), s \notin Doing PROVE ~Installing(run[t]) /\ s \in Ahead(run[t].todo)
  BY <1>0, <1>7, NextStep, NotInstalling
<1>8. CASE AddProd(t)
  <2> DEFINE c == {Content(binds.conf) \cup {"Prod"}}
  <2>1. At(t, "addProd") /\ Pop(t) /\ UNCHANGED <<tools, late, saved>> /\ binds' = [binds EXCEPT !.conf = c]
    BY <1>8 DEF AddProd
  <2>2. ~Installing(run[t])
    BY <1>3, <1>7, <2>1
  <2>3. Takes(t, "addProd", run[t]) /\ UNCHANGED desk
    BY <1>0, <1>5, <2>1 DEF Pop
  <2>4. HasDev(c) <=> HasDev(binds.conf)
    BY DevLines
  <2> HIDE DEF c
  <2>5. binds'.conf = c /\ binds'.lua = binds.lua
    BY <1>0, <2>1 DEF BindsType
  <2>6. "removeShare" \in Ahead(run'[t].todo) => RemoveSafe(run[t])'
    BY <1>2, <2>1, <2>3, <2>4, <2>5 DEF Takes, RemoveSafe
  <2>7. \A u \in Terminals \ {t} : run'[u] = run[u] /\ RemoveSafe(run[u]) => RemoveSafe(run[u])'
    BY <2>1, <2>3, <2>4, <2>5 DEF RemoveSafe
  <2> QED
    BY <1>1, <1>6, <1>k, <2>1, <2>2, <2>3, <2>4, <2>5, <2>6, <2>7
<1>9. ASSUME NEW p \in Profiles, ReadConf(t, p), ~Installing(run[t]) PROVE ShareInv'
  <2> DEFINE r == [run[t] EXCEPT !.buffer = binds.conf]
  <2>0. p = "Dev"
    BY <1>0, <1>3, <1>9, MustInstall DEF ReadConf, Profiles
  <2>1. At(t, "readDev") /\ PopWith(t, r) /\ UNCHANGED <<tools, late, binds, saved>>
    BY <1>9, <2>0 DEF ReadConf
  <2>2. /\ r \in Runs /\ r.todo = run[t].todo /\ r.name = run[t].name /\ r.tearing = run[t].tearing
        /\ r.buffer = binds.conf /\ r.had = run[t].had /\ r.backup = run[t].backup
    BY <1>0 DEF Runs, BindsType
  <2> HIDE DEF r
  <2>3. Takes(t, "readDev", r) /\ UNCHANGED desk
    BY <1>5, <2>1, <2>2
  <2>4. \A x \in {"loadHypr", "restore", "dropHypr", "seed", "dropBar"} : x \notin Ahead(run'[t].todo)
    BY <1>4, <2>3, Ranks DEF Takes
  <2>5. "removeShare" \in Ahead(run'[t].todo) => RemoveSafe(run[t])'
    BY <1>2, <2>1, <2>2, <2>3, <2>4 DEF Takes, RemoveSafe
  <2>6. \A u \in Terminals \ {t} : run'[u] = run[u] /\ RemoveSafe(run[u]) => RemoveSafe(run[u])'
    BY <2>1, <2>3 DEF RemoveSafe
  <2> QED
    BY <1>1, <1>6, <1>k, <1>9, <2>1, <2>2, <2>3, <2>5, <2>6
<1>10. ASSUME NEW p \in Profiles, StripConf(t, p), ~Installing(run[t]) PROVE ShareInv'
  <2> DEFINE r == [run[t] EXCEPT !.buffer = {}]
             c == IF "Dev" \in Content(run[t].buffer) THEN {Content(run[t].buffer) \ {"Dev"}} ELSE binds.conf
  <2>0. p = "Dev"
    BY <1>0, <1>3, <1>10, MustInstall DEF StripConf, Profiles
  <2>1. At(t, "stripDev") /\ PopWith(t, r) /\ UNCHANGED <<tools, late, saved>> /\ binds' = [binds EXCEPT !.conf = c]
    BY <1>10, <2>0 DEF StripConf
  <2>2. /\ r \in Runs /\ r.todo = run[t].todo /\ r.name = run[t].name /\ r.tearing = run[t].tearing
        /\ r.buffer = {} /\ r.had = run[t].had /\ r.backup = run[t].backup
    BY <1>0, LineFacts DEF Runs
  <2>3. HasDev(c) => HasDev(binds.conf) /\ ~HasDev(run[t].buffer)
    BY DevLines DEF HasDev
  <2> HIDE DEF r, c
  <2>4. binds'.conf = c /\ binds'.lua = binds.lua
    BY <1>0, <2>1 DEF BindsType
  <2>5. Takes(t, "stripDev", r) /\ UNCHANGED desk
    BY <1>5, <2>1, <2>2
  <2>6. \A x \in {"loadHypr", "restore", "dropHypr", "readDev", "seed", "dropBar"} :
            x \notin Ahead(run'[t].todo) /\ x \notin Ahead(run[t].todo)
    BY <1>4, <2>5, Ranks DEF Takes
  <2>7. "removeShare" \in Ahead(run'[t].todo) => RemoveSafe(run[t])'
    BY <1>2, <2>1, <2>2, <2>3, <2>4, <2>5, <2>6 DEF Takes, RemoveSafe
  <2>8. \A u \in Terminals \ {t} : run'[u] = run[u] /\ RemoveSafe(run[u]) => RemoveSafe(run[u])'
    BY <2>1, <2>3, <2>4, <2>5 DEF RemoveSafe
  <2> QED
    BY <1>1, <1>6, <1>k, <1>10, <2>1, <2>2, <2>3, <2>4, <2>5, <2>7, <2>8
<1>11. ASSUME NEW p \in Profiles, StripBlock(t, p), ~Installing(run[t]) PROVE ShareInv'
  <2> DEFINE c == {lines \ {"Dev"} : lines \in binds.lua}
  <2>0. p = "Dev"
    BY <1>0, <1>3, <1>11, MustInstall DEF StripBlock, Profiles
  <2>1. At(t, "stripDevBlock") /\ Pop(t) /\ UNCHANGED <<tools, late, saved>> /\ binds' = [binds EXCEPT !.lua = c]
    BY <1>11, <2>0 DEF StripBlock
  <2>2. ~HasDev(c)
    BY DEF HasDev, Content
  <2>3. binds.lua = {} => c = {}
    OBVIOUS
  <2> HIDE DEF c
  <2>4. binds'.lua = c /\ binds'.conf = binds.conf
    BY <1>0, <2>1 DEF BindsType
  <2>5. Takes(t, "stripDevBlock", run[t]) /\ UNCHANGED desk
    BY <1>0, <1>5, <2>1 DEF Pop
  <2>6. \A x \in {"loadHypr", "restore", "dropHypr", "seed", "dropBar"} : x \notin Ahead(run'[t].todo)
    BY <1>4, <2>5, Ranks DEF Takes
  <2>7. "removeShare" \in Ahead(run'[t].todo) => RemoveSafe(run[t])'
    BY <1>2, <2>1, <2>2, <2>4, <2>5, <2>6 DEF Takes, RemoveSafe
  <2>8. \A u \in Terminals \ {t} : run'[u] = run[u] /\ RemoveSafe(run[u]) => RemoveSafe(run[u])'
    BY <2>1, <2>2, <2>4, <2>5 DEF RemoveSafe
  <2> QED
    BY <1>1, <1>6, <1>k, <1>11, <2>1, <2>2, <2>3, <2>4, <2>5, <2>7, <2>8
<1>12. CASE DropHypr(t)
  <2> DEFINE r == [run[t] EXCEPT !.had = FALSE]
  <2>1. /\ At(t, "dropHypr") /\ PopWith(t, r) /\ UNCHANGED <<tools, late, binds>>
        /\ saved' = [saved EXCEPT !.hypr["Dev"] = IF run[t].had THEN {} ELSE @]
    BY <1>12 DEF DropHypr
  <2>2. saved'.hypr["Dev"] = IF run[t].had THEN {} ELSE saved.hypr["Dev"]
    BY <1>0, <2>1 DEF SavedType, Profiles
  <2>3. /\ r \in Runs /\ r.todo = run[t].todo /\ r.name = run[t].name /\ r.tearing = run[t].tearing
        /\ r.buffer = run[t].buffer /\ ~r.had /\ r.backup = run[t].backup
    BY <1>0 DEF Runs
  <2> HIDE DEF r
  <2>4. Takes(t, "dropHypr", r) /\ UNCHANGED desk
    BY <1>5, <2>1, <2>3
  <2>5. ~Installing(run[t])
    BY <1>3, <1>7, <2>1
  <2>6. \A x \in {"loadHypr", "restore", "seed", "dropBar"} : x \notin Ahead(run'[t].todo) /\ x \notin Ahead(run[t].todo)
    BY <1>4, <2>4, Ranks DEF Takes
  <2>7. "removeShare" \in Ahead(run'[t].todo) => RemoveSafe(run[t])'
    BY <1>2, <2>1, <2>2, <2>3, <2>4, <2>6 DEF Takes, RemoveSafe
  <2>8. \A u \in Terminals \ {t} : run'[u] = run[u] /\ RemoveSafe(run[u]) => RemoveSafe(run[u])'
    BY <2>1, <2>2, <2>4 DEF RemoveSafe
  <2> QED
    BY <1>1, <1>6, <1>k, <2>1, <2>2, <2>3, <2>4, <2>5, <2>7, <2>8
<1>13. CASE RemoveShare(t)
  <2>1. /\ At(t, "removeShare") /\ UNCHANGED <<desk, binds, saved, late>> /\ tools' = [tools EXCEPT !.devShare = FALSE]
        /\ run' = [run EXCEPT ![t].todo = Tail(@)]
    BY <1>13 DEF RemoveShare
  <2>2. run' = [run EXCEPT ![t] = [run[t] EXCEPT !.todo = Tail(@)]]
    BY <1>0, <2>1 DEF RunsOK
  <2>3. Takes(t, "removeShare", run[t])
    BY <1>0, <2>1, <2>2, Taken
  <2>4. ~Installing(run[t]) /\ RemoveSafe(run[t])
    BY <1>2, <1>3, <1>7, <2>1
  <2>5. /\ \A x \in {"loadHypr", "restore", "dropHypr", "readDev", "stripDev", "stripDevBlock"} :
            x \notin Ahead(run[t].todo)
        /\ "removeShare" \notin Ahead(run'[t].todo)
    BY <1>4, <2>3, Ranks DEF Takes
  <2>6. saved.hypr["Dev"] = {} /\ (late \/ (~HasDev(binds.lua) /\ ~HasDev(binds.conf)))
    BY <2>4, <2>5 DEF RemoveSafe
  <2>7. FilesSafe'
    BY <1>1, <2>1, <2>6 DEF FilesSafe, There, SourcedExists, DevIntegrationInstalled, HasDev
  <2>8. ASSUME NEW u \in Terminals, "removeShare" \in Ahead(run'[u].todo) PROVE RemoveSafe(run[u])'
    <3>1. u # t /\ run'[u] = run[u]
      BY <2>3, <2>5, <2>8 DEF Takes
    <3> QED
      BY <1>2, <2>1, <2>8, <3>1 DEF RemoveSafe
  <2>9. \A u \in Terminals : CopySafe(run[u])'
    BY <2>1, <2>6 DEF CopySafe
  <2> QED
    BY <1>0, <2>3, <2>4, <2>7, <2>8, <2>9, UndoStep
<1>14. CASE LoadHypr(t)
  <2> DEFINE S == IF saved.hypr["Dev"] = {} THEN {Idle.backup} ELSE saved.hypr["Dev"]
             h == saved.hypr["Dev"] # {}
  <2>1. PICK b \in S : PopWith(t, [run[t] EXCEPT !.had = h, !.backup = b])
    BY <1>14 DEF LoadHypr
  <2>2. At(t, "loadHypr") /\ UNCHANGED <<binds, tools, saved, late>> /\ ~Installing(run[t])
    BY <1>3, <1>7, <1>14 DEF LoadHypr
  <2>3. b \in Backups /\ h \in BOOLEAN
    <3>1. Idle.backup \in Backups
      BY IdleFine DEF Runs
    <3> QED
      BY <1>0, <3>1, FileFacts DEF SavedType, Profiles
  <2>4. HasDev(b.text) => There
    BY <1>1, <2>1, IdleSafe
  <2>5. h \/ saved.hypr["Dev"] = {}
    OBVIOUS
  <2> DEFINE r == [run[t] EXCEPT !.had = h, !.backup = b]
  <2> HIDE DEF S, h
  <2>6. /\ r \in Runs /\ r.todo = run[t].todo /\ r.name = run[t].name /\ r.tearing = run[t].tearing
        /\ r.buffer = run[t].buffer /\ r.had = h /\ r.backup = b
    BY <1>0, <2>3 DEF Runs
  <2>7. PopWith(t, r)
    BY <2>1
  <2> HIDE DEF r
  <2>8. Takes(t, "loadHypr", r) /\ UNCHANGED desk
    BY <1>5, <2>2, <2>6, <2>7
  <2>9. \A x \in {"loadHypr", "seed", "dropBar"} : x \notin Ahead(run'[t].todo)
    BY <1>4, <2>8, Ranks DEF Takes
  <2>10. "removeShare" \in Ahead(run'[t].todo) => RemoveSafe(run[t])'
    BY <1>2, <2>2, <2>5, <2>6, <2>8, <2>9 DEF Takes, RemoveSafe
  <2>11. \A u \in Terminals \ {t} : run'[u] = run[u] /\ RemoveSafe(run[u]) => RemoveSafe(run[u])'
    BY <2>2, <2>8 DEF RemoveSafe
  <2> QED
    BY <1>1, <1>6, <1>k, <2>2, <2>4, <2>6, <2>8, <2>10, <2>11
<1>15. CASE Restore(t)
  <2> DEFINE b == run[t].backup
             w == b.text # {} \/ b.native
             r == [run[t] EXCEPT !.restored = w, !.backup = Idle.backup]
             c == IF desk.kind # "lua" /\ b.text # {} THEN b.text ELSE binds.conf
             l == IF desk.kind = "lua" /\ b.text # {} THEN b.text ELSE binds.lua
  <2>1. /\ At(t, "restore") /\ UNCHANGED <<tools, saved>> /\ ~Installing(run[t])
        /\ late' = (late \/ (saved.hypr["Dev"] = {} /\ HasDev(b.text)))
    BY <1>3, <1>7, <1>15 DEF Restore, HasDev
  <2>2. PopWith(t, r) /\ binds'.conf = c /\ binds'.lua = l
    BY <1>15 DEF Restore
  <2>3. w \in BOOLEAN /\ Idle.backup \in Backups
    BY <1>0, IdleFine DEF Runs, Backups
  <2>4. There => There'
    BY <2>1 DEF There
  <2>5. HasDev(b.text) => There'
    <3>1. CASE saved.hypr["Dev"] = {}
      BY <2>1, <3>1 DEF There
    <3>2. CASE saved.hypr["Dev"] # {}
      BY <1>c, <2>4, <3>2 DEF CopySafe
    <3> QED
      BY <3>1, <3>2
  <2>6. (HasDev(c) \/ HasDev(l) => There') /\ (desk.kind # "lua" => l = {})
    BY <1>1, <2>4, <2>5
  \* Lines that come back are late, or the manifest of those who still remove it is there.
  <2>7. /\ HasDev(c) => HasDev(binds.conf) \/ late' \/ saved.hypr["Dev"] # {}
        /\ HasDev(l) => HasDev(binds.lua) \/ late' \/ saved.hypr["Dev"] # {}
        /\ HasDev(l) => HasDev(binds.lua) \/ desk.kind = "lua"
    BY <2>1
  <2>8. late => late'
    BY <2>1
  <2>9. /\ r \in Runs /\ r.todo = run[t].todo /\ r.name = run[t].name /\ r.tearing = run[t].tearing
        /\ r.buffer = run[t].buffer /\ r.had = run[t].had /\ r.backup = Idle.backup
    <3> HIDE DEF w
    <3> QED
      BY <1>0, <2>3 DEF Runs
  <2> HIDE DEF b, w, c, l, r
  <2>10. Takes(t, "restore", r) /\ UNCHANGED desk
    BY <1>5, <2>1, <2>2, <2>9
  <2>11. \A x \in {"loadHypr", "restore", "seed", "dropBar"} : x \notin Ahead(run'[t].todo) /\ x \notin Ahead(run[t].todo) \ {"restore"}
    BY <1>4, <2>10, Ranks DEF Takes
  <2>12. "removeShare" \in Ahead(run'[t].todo) => RemoveSafe(run[t])'
    BY <1>2, <2>1, <2>2, <2>7, <2>8, <2>9, <2>10, <2>11 DEF Takes, RemoveSafe
  <2>13. \A u \in Terminals \ {t} : run'[u] = run[u] /\ RemoveSafe(run[u]) => RemoveSafe(run[u])'
    BY <2>1, <2>2, <2>7, <2>8, <2>10 DEF RemoveSafe
  <2> QED
    BY <1>1, <1>6, <2>1, <2>2, <2>4, <2>6, <2>9, <2>10, <2>12, <2>13, IdleSafe
<1> QED
  BY <1>8, <1>9, <1>10, <1>11, <1>12, <1>13, <1>14, <1>15

LEMMA InitShare == Init => ShareInv
<1> SUFFICES ASSUME Init PROVE ShareInv
  OBVIOUS
<1>1. PICK kind \in Desks, packaged \in BOOLEAN, prod \in BOOLEAN, own \in BOOLEAN : Machine(kind, packaged, prod, own)
  BY DEF Init
<1> DEFINE mine == IF prod THEN {"Prod"} ELSE {}
<1>2. /\ desk.kind = kind
      /\ binds.conf = IF kind = "lua" THEN {} ELSE {mine}
      /\ binds.lua = IF kind = "lua" THEN {mine} ELSE {}
      /\ saved.hypr = [p \in Profiles |-> IF p \in mine THEN {[text |-> {{}}, native |-> kind # "lua"]} ELSE {}]
  BY <1>1 DEF Machine
<1>3. "Dev" \notin mine
  OBVIOUS
<1> HIDE DEF mine
<1>4. ~HasDev(binds.conf) /\ ~HasDev(binds.lua)
  BY <1>2, <1>3, DevLines
<1>5. saved.hypr["Dev"] = {}
  BY <1>2, <1>3 DEF Profiles
<1>6. FilesSafe
  BY <1>2, <1>4, <1>5 DEF FilesSafe, SourcedExists, DevIntegrationInstalled, HasDev
<1>7. \A t \in Terminals : run[t] = Idle
  BY DEF Init
<1> QED
  BY <1>6, <1>7, IdleSafe DEF ShareInv

LEMMA StepShare == TypeInv /\ ShareInv /\ [Next]_vars => ShareInv'
<1> SUFFICES ASSUME TypeInv, ShareInv, [Next]_vars PROVE ShareInv'
  OBVIOUS
<1>1. CASE UNCHANGED vars
  <2>1. UNCHANGED <<desk, binds, tools, saved, run, late>>
    BY <1>1 DEF vars
  <2> QED
    BY <2>1 DEF ShareInv, FilesSafe, There, SourcedExists, DevIntegrationInstalled, RunSafe, CopySafe, InstallSafe,
       RemoveSafe
<1>2. CASE Next
  <2>1. PICK t \in Terminals : Begins(t) \/ Installs(t) \/ Uninstalls(t) \/ Sessions(t) \/ Fail(t) \/ Kill(t)
    BY <1>2 DEF Next
  <2>2. CASE Installs(t)
    BY <2>2, PlainShare, NotedShare, EndingShare, InstallsShare, UndoesShare DEF Installs
  <2>3. CASE Uninstalls(t)
    BY <2>3, PlainShare, NotedShare, EndingShare, DetourShare, UndoesShare DEF Uninstalls
  <2>4. CASE Sessions(t)
    BY <2>4, PlainShare, NotedShare, EndingShare, DetourShare DEF Sessions
  <2>5. CASE Begins(t)
    BY <2>5, BeginsShare
  <2>6. CASE Fail(t) \/ Kill(t)
    BY <2>6, EndingShare
  <2> QED
    BY <2>1, <2>2, <2>3, <2>4, <2>5, <2>6
<1> QED
  BY <1>1, <1>2

\* Whatever installs and uninstalls fail or are killed half way, and although two uninstalls may run
\* beside each other: no file of the user's sources the dev tree when it is gone, unless a backup that
\* holds dev's line came back late, after another uninstall had removed its manifest (install_hypr,
\* uninstall_hypr, install_bins).
THEOREM ShareOutlivesItsLines == Spec => []SourcedExists
<1>1. TypeInv /\ ShareInv /\ [Next]_vars => TypeInv' /\ ShareInv'
  BY NextTyped, StepShare
<1>2. Init => TypeInv /\ ShareInv
  BY InitTyped, InitShare
<1>3. ShareInv => SourcedExists
  BY DEF ShareInv, FilesSafe
<1> QED
  BY <1>1, <1>2, <1>3, PTL DEF Spec

-----------------------------------------------------------------------------
(* The kinds of steps: the next one of the list is taken, the list changes,  *)
(* the command ends or another one takes its place, a command begins.        *)

\* Something of tsk is known of Waybar: the end of the uninstall of the bar is no error.
Known(t) == run[t].had \/ run[t].restored \/ HasTsk
Takings(t) ==
    \/ Main(t) \/ Schema(t) \/ Share(t) \/ Openers(t) \/ Editor(t)
    \/ Backup(t) \/ AppendLines(t) \/ Gestures(t) \/ Block(t) \/ HyprManifest(t)
    \/ \E p \in Profiles : ReadConf(t, p) \/ StripConf(t, p) \/ StripBlock(t, p)
    \/ Pristine(t) \/ PatchBar(t) \/ BarManifest(t) \/ Elephant(t) \/ WalkerManifest(t)
    \/ (\E ui \in Uis : CopyPlugin(t, ui)) \/ Enable(t) \/ PatchMenu(t) \/ Systemd(t)
    \/ \E piece \in Helper : Chromium(t, piece)
    \/ (Exit(t) /\ Len(run[t].todo) > 1) \/ (BarBackup(t) /\ bar # {})
    \/ PatchProd(t) \/ DropDevBar(t) \/ Seed(t) \/ RestoreBar(t) \/ UnpatchBar(t) \/ (DropBar(t) /\ Known(t))
    \/ LoadHypr(t) \/ Restore(t) \/ DropHypr(t) \/ Disable(t) \/ UnpatchMenu(t) \/ AddProd(t) \/ RemoveShare(t)
    \/ StopProd(t) \/ Mark(t) \/ Serve(t) \/ StopDev(t) \/ Unmark(t) \/ StartProd(t)
Detours(t) == ProdBar(t) \/ EnsureProd(t) \/ Detect(t)
Endings(t) ==
    \/ Exit(t) /\ ~(Len(run[t].todo) > 1)
    \/ BarBackup(t) /\ bar = {}
    \/ DropBar(t) /\ ~Known(t)
    \/ Wait(t) \/ Interrupt(t) \/ Done(t) \/ Fail(t) \/ Kill(t)

LEMMA KindsOfSteps ==
  ASSUME NEW t \in Terminals, Begins(t) \/ Installs(t) \/ Uninstalls(t) \/ Sessions(t) \/ Fail(t) \/ Kill(t)
  PROVE  Begins(t) \/ Takings(t) \/ Detours(t) \/ Endings(t)
<1>1. CASE Installs(t)
  BY <1>1, Zenon DEF Installs, Takings, Endings
<1>2. CASE Uninstalls(t)
  BY <1>2, Zenon DEF Uninstalls, Takings, Detours, Endings
<1>3. CASE Sessions(t)
  BY <1>3, Zenon DEF Sessions, Takings, Detours, Endings
<1>4. CASE Fail(t) \/ Kill(t)
  BY <1>4, Zenon DEF Endings
<1> QED
  BY <1>1, <1>2, <1>3, <1>4

\* What every step that is taken does to its command.
Taking(t, s) ==
    /\ At(t, s) /\ s # "wait" /\ s \in Scope(run[t]) /\ run[t] # Idle
    /\ \A u \in Terminals \ {t} : run'[u] = run[u]
    /\ run'[t].name = run[t].name /\ run'[t].tearing = run[t].tearing /\ run'[t].whole = run[t].whole
    /\ Ahead(run[t].todo) = Ahead(run'[t].todo) \cup {s}
    /\ s # "stopProd" => s \notin Ahead(run'[t].todo)
    /\ \A x \in Ahead(run'[t].todo) : Earlier(s, x)

LEMMA TakingIs ==
  ASSUME RunsOK, NEW t \in Terminals, NEW s, At(t, s), s # "wait",
         NEW r, run' = [run EXCEPT ![t] = [r EXCEPT !.todo = Tail(@)]],
         r.todo = run[t].todo, r.name = run[t].name, r.tearing = run[t].tearing, r.whole = run[t].whole,
         DOMAIN r = DOMAIN Idle
  PROVE  Taking(t, s)
<1> DEFINE q == [r EXCEPT !.todo = Tail(@)]
<1>1. /\ q.todo = Tail(run[t].todo) /\ q.name = run[t].name /\ q.tearing = run[t].tearing
      /\ q.whole = run[t].whole
  BY DEF Idle
<1>2. run' = [run EXCEPT ![t] = q]
  OBVIOUS
<1> HIDE DEF q
<1>3. run'[t] = q /\ \A u \in Terminals \ {t} : run'[u] = run[u]
  BY <1>2 DEF RunsOK
<1>4. run'[t].todo = Tail(run[t].todo)
  BY <1>1, <1>3
<1>5. /\ run[t] # Idle /\ s \in Scope(run[t])
      /\ Ahead(run[t].todo) = Ahead(Tail(run[t].todo)) \cup {s}
      /\ \A x \in Ahead(Tail(run[t].todo)) : Earlier(s, x)
      /\ s # "stopProd" => s \notin Ahead(Tail(run[t].todo))
  BY NextStep
<1>6. run'[t].name = run[t].name /\ run'[t].tearing = run[t].tearing /\ run'[t].whole = run[t].whole
  BY <1>1, <1>3
<1> HIDE DEF q
<1> QED
  BY <1>3, <1>4, <1>5, <1>6 DEF Taking

LEMMA TakingsTake ==
  ASSUME TypeInv, NEW t \in Terminals, Takings(t)
  PROVE  /\ \E s : Taking(t, s)
         /\ UNCHANGED desk
<1>0. RunsOK /\ run[t] \in Runs
  BY DEF TypeInv, RunsOK
<1>1. DOMAIN run[t] = DOMAIN Idle
  BY <1>0 DEF Runs, Idle
<1>2. ASSUME NEW s, At(t, s), s # "wait", Pop(t) PROVE (\E z : Taking(t, z)) /\ UNCHANGED desk
  <2>1. run' = [run EXCEPT ![t] = [run[t] EXCEPT !.todo = Tail(@)]] /\ UNCHANGED desk
    BY <1>2 DEF Pop, PopWith
  <2> QED
    BY <1>0, <1>1, <1>2, <2>1, TakingIs
<1>3. CASE \/ Main(t) \/ Schema(t) \/ Share(t) \/ Openers(t) \/ Editor(t) \/ AppendLines(t) \/ Block(t)
           \/ Pristine(t) \/ PatchBar(t) \/ Elephant(t) \/ WalkerManifest(t)
  <2>1. \E s : At(t, s) /\ s # "wait" /\ Pop(t)
    BY <1>3 DEF Main, Schema, Share, Openers, Editor, AppendLines, Block, Pristine, PatchBar, Elephant, WalkerManifest
  <2> QED
    BY <1>2, <2>1
<1>4. CASE \/ Enable(t) \/ PatchMenu(t) \/ Systemd(t) \/ PatchProd(t) \/ UnpatchBar(t) \/ Disable(t)
           \/ UnpatchMenu(t) \/ AddProd(t) \/ Mark(t) \/ Serve(t) \/ StopDev(t) \/ Unmark(t) \/ StartProd(t)
  <2>1. \E s : At(t, s) /\ s # "wait" /\ Pop(t)
    BY <1>4 DEF Enable, PatchMenu, Systemd, PatchProd, UnpatchBar, Disable, UnpatchMenu, AddProd, Mark, Serve,
                StopDev, Unmark, StartProd
  <2> QED
    BY <1>2, <2>1
<1>5. CASE \/ \E p \in Profiles : StripBlock(t, p)
           \/ \E ui \in Uis : CopyPlugin(t, ui)
           \/ \E piece \in Helper : Chromium(t, piece)
  <2>1. ASSUME NEW p \in Profiles, StripBlock(t, p)
        PROVE  At(t, IF p = "Dev" THEN "stripDevBlock" ELSE "stripProdBlock") /\ Pop(t)
    BY <2>1 DEF StripBlock
  <2>2. ASSUME NEW ui \in Uis, CopyPlugin(t, ui) PROVE At(t, ui) /\ Pop(t) /\ ui # "wait"
    BY <2>2 DEF CopyPlugin, Uis
  <2>3. ASSUME NEW piece \in Helper, Chromium(t, piece)
        PROVE  /\ At(t, IF piece = "manifest" THEN "helperManifest" ELSE piece) /\ Pop(t)
               /\ piece # "wait"
    BY <2>3 DEF Chromium, Helper
  <2> QED
    BY <1>2, <1>5, <2>1, <2>2, <2>3
<1>6. CASE Exit(t) /\ Len(run[t].todo) > 1
  BY <1>2, <1>6 DEF Exit
\* The steps that leave something in the command's memory.
<1>7. ASSUME NEW s, At(t, s), s # "wait", NEW r, PopWith(t, r), r.todo = run[t].todo, r.name = run[t].name,
             r.tearing = run[t].tearing, r.whole = run[t].whole, DOMAIN r = DOMAIN run[t]
      PROVE  (\E z : Taking(t, z)) /\ UNCHANGED desk
  <2>1. run' = [run EXCEPT ![t] = [r EXCEPT !.todo = Tail(@)]] /\ UNCHANGED desk
    BY <1>7 DEF PopWith
  <2> QED
    BY <1>0, <1>1, <1>7, <2>1, TakingIs
<1> DEFINE Like(r) == /\ r.todo = run[t].todo /\ r.name = run[t].name /\ r.tearing = run[t].tearing
                      /\ r.whole = run[t].whole /\ DOMAIN r = DOMAIN run[t]
<1>8. /\ \A v : Like([run[t] EXCEPT !.backup = v]) /\ Like([run[t] EXCEPT !.buffer = v])
                /\ Like([run[t] EXCEPT !.bar = v]) /\ Like([run[t] EXCEPT !.had = v])
                /\ Like([run[t] EXCEPT !.was = v])
      /\ \A v, w : Like([run[t] EXCEPT !.had = v, !.restored = w]) /\ Like([run[t] EXCEPT !.had = v, !.bar = w])
                   /\ Like([run[t] EXCEPT !.restored = v, !.bar = w])
                   /\ Like([run[t] EXCEPT !.had = v, !.backup = w])
                   /\ Like([run[t] EXCEPT !.restored = v, !.backup = w])
  BY <1>0 DEF Runs
<1>9. ASSUME NEW s, At(t, s), s # "wait", NEW r, PopWith(t, r), Like(r)
      PROVE  (\E z : Taking(t, z)) /\ UNCHANGED desk
  BY <1>7, <1>9
<1> HIDE DEF Like
<1>10. CASE Backup(t)
  BY <1>8, <1>9, <1>10 DEF Backup
<1>11. CASE Gestures(t)
  <2>1. [run[t] EXCEPT !.backup.native = binds.native]
            = [run[t] EXCEPT !.backup = [run[t].backup EXCEPT !.native = binds.native]]
    OBVIOUS
  <2>2. Like([run[t] EXCEPT !.backup.native = binds.native])
    BY <1>8, <2>1
  <2> QED
    BY <1>9, <1>11, <2>2 DEF Gestures
<1>12. CASE HyprManifest(t)
  BY <1>8, <1>9, <1>12 DEF HyprManifest
<1>13. CASE \E p \in Profiles : ReadConf(t, p)
  BY <1>8, <1>9, <1>13 DEF ReadConf
<1>14. CASE \E p \in Profiles : StripConf(t, p)
  BY <1>8, <1>9, <1>14 DEF StripConf
<1>15. CASE BarManifest(t)
  BY <1>8, <1>9, <1>15 DEF BarManifest
<1>16. CASE BarBackup(t) /\ bar # {}
  BY <1>8, <1>9, <1>16 DEF BarBackup
<1>17. CASE Seed(t)
  BY <1>8, <1>9, <1>17 DEF Seed
<1>18. CASE RestoreBar(t)
  BY <1>8, <1>9, <1>18 DEF RestoreBar
<1>19. CASE DropHypr(t)
  BY <1>8, <1>9, <1>19 DEF DropHypr
<1>20. CASE StopProd(t)
  BY <1>8, <1>9, <1>20 DEF StopProd
<1>21. CASE LoadHypr(t) \/ Restore(t)
  <2>1. CASE LoadHypr(t)
    <3>1. At(t, "loadHypr") /\ \E v, w : PopWith(t, [run[t] EXCEPT !.had = v, !.backup = w])
      BY <2>1, Zenon DEF LoadHypr
    <3> QED
      BY <1>8, <1>9, <3>1
  <2>2. CASE Restore(t)
    <3>1. At(t, "restore") /\ \E v, w : PopWith(t, [run[t] EXCEPT !.restored = v, !.backup = w])
      BY <2>2, Zenon DEF Restore
    <3> QED
      BY <1>8, <1>9, <3>1
  <2> QED
    BY <1>21, <2>1, <2>2
<1>22. CASE DropDevBar(t) \/ RemoveShare(t)
  <2>1. run' = [run EXCEPT ![t].todo = Tail(@)] /\ UNCHANGED desk
    BY <1>22 DEF DropDevBar, RemoveShare
  <2>2. run' = [run EXCEPT ![t] = [run[t] EXCEPT !.todo = Tail(@)]]
    BY <1>0, <2>1 DEF RunsOK
  <2>3. At(t, "dropDevBar") \/ At(t, "removeShare")
    BY <1>22 DEF DropDevBar, RemoveShare
  <2> QED
    BY <1>0, <1>1, <2>1, <2>2, <2>3, TakingIs
<1>23. CASE DropBar(t) /\ Known(t)
  <2>1. /\ run' = [run EXCEPT ![t] = [run[t] EXCEPT !.todo = Tail(@), !.had = FALSE, !.restored = FALSE]]
        /\ UNCHANGED desk
    BY <1>23, Zenon DEF DropBar, Known
  <2> DEFINE r == [run[t] EXCEPT !.had = FALSE, !.restored = FALSE]
  <2>2. [run[t] EXCEPT !.todo = Tail(@), !.had = FALSE, !.restored = FALSE] = [r EXCEPT !.todo = Tail(@)]
    BY <1>0 DEF Runs
  <2>3. Like(r)
    BY <1>8
  <2> HIDE DEF r
  <2>4. /\ r.todo = run[t].todo /\ r.name = run[t].name /\ r.tearing = run[t].tearing
        /\ r.whole = run[t].whole /\ DOMAIN r = DOMAIN Idle
    BY <1>1, <2>3 DEF Like
  <2>5. run' = [run EXCEPT ![t] = [r EXCEPT !.todo = Tail(@)]]
    BY <2>1, <2>2
  <2>6. At(t, "dropBar")
    BY <1>23 DEF DropBar
  <2> QED
    BY <1>0, <2>1, <2>4, <2>5, <2>6, TakingIs
<1> QED
  BY <1>3, <1>4, <1>5, <1>6, <1>10, <1>11, <1>12, <1>13, <1>14, <1>15, <1>16, <1>17, <1>18, <1>19, <1>20, <1>21,
     <1>22, <1>23 DEF Takings


\* What every end of a command leaves.
Ended(t) ==
    /\ run[t] # Idle /\ UNCHANGED <<desk, session, binds>>
    /\ \A u \in Terminals \ {t} : Twin(run'[u], run[u])
    /\ "installed" \in past' => "installed" \in past \/ (Exit(t) /\ run[t].name = "install" /\ run'[t] = Idle)
    /\ \/ run'[t] = Idle
       \/ run'[t].todo = Leave /\ run'[t].name = "leave"
       \/ run'[t].todo = Enter /\ run'[t].name = "enter" /\ ~run'[t].tearing
       \/ /\ run[t].tearing /\ run'[t].tearing /\ run'[t].name = run[t].name /\ ~At(t, "stopDev")
          /\ Ahead(run'[t].todo) \subseteq Ahead(run[t].todo)

LEMMA EndingsEnd ==
  ASSUME TypeInv, NEW t \in Terminals, Endings(t)
  PROVE  Ended(t)
<1>0. RunsOK /\ run[t] \in Runs
  BY DEF TypeInv, RunsOK
<1>a. \A u \in Terminals \ {t} : Twin(run[u], run[u]) /\ Twin(Dented(run[u]), run[u])
  <2> SUFFICES ASSUME NEW u \in Terminals \ {t} PROVE Twin(run[u], run[u]) /\ Twin(Dented(run[u]), run[u])
    OBVIOUS
  <2>1. run[u] \in Runs /\ Good(run[u])
    BY <1>0 DEF RunsOK, Shape
  <2> QED
    BY <2>1, DentedFine DEF Twin
<1>b. \A q \in {AfterSession(run[t]), AfterFault(run[t])} : q.todo = Leave /\ q.name = "leave"
  BY <1>0, AfterFine
<1>c. LET q == EnterAgain(run[t]) IN q.todo = Enter /\ q.name = "enter" /\ ~q.tearing
  BY <1>0, EnterAgainFine
<1>2. CASE Exit(t) /\ ~(Len(run[t].todo) > 1)
  <2>1. At(t, "exit") /\ run' = [run EXCEPT ![t] = Idle] /\ UNCHANGED <<desk, session, binds>>
    BY <1>2 DEF Exit
  <2>2. run'[t] = Idle /\ \A u \in Terminals \ {t} : run'[u] = run[u]
    BY <1>0, <2>1 DEF RunsOK
  <2>3. run[t] # Idle
    BY <1>0, <2>1, NextStep
  <2>4. Establish(t, IF run[t].name = "install" THEN {"installed"} ELSE {})
    BY <1>2 DEF Exit
  <2>5. "installed" \in past' => "installed" \in past \/ run[t].name = "install"
    BY <2>4 DEF Establish
  <2> QED
    BY <1>2, <1>a, <2>1, <2>2, <2>3, <2>5 DEF Ended
<1>3. CASE Done(t)
  <2>1. run[t] # Idle /\ UNCHANGED <<desk, session, binds>>
    BY <1>0, <1>3, NextStep DEF Done
  <2>2. run'[t] \in {Idle, EnterAgain(run[t])}
    BY <1>0, <1>3, DoneFine
  <2>3. \A u \in Terminals \ {t} : run'[u] = run[u]
    BY <1>0, <1>3 DEF Done, RunsOK
  <2>4. "installed" \in past' => "installed" \in past
    BY <1>3 DEF Done, Establish
  <2> QED
    BY <1>a, <1>c, <2>1, <2>2, <2>3, <2>4 DEF Ended
<1>4. CASE Kill(t)
  <2>1. run[t] # Idle /\ UNCHANGED <<desk, session, binds>> /\ past' = {}
    BY <1>4 DEF Kill, Fault
  <2> QED
    BY <1>0, <1>4, <1>a, <2>1, KillFine DEF Ended
<1>5. CASE Fail(t)
  <2>1. UNCHANGED <<desk, session, binds>> /\ run[t] # Idle /\ past' = {} /\ ~At(t, "stopDev")
    BY <1>5 DEF Fail, Fault, InCommand, Idle
  <2>2. /\ \A u \in Terminals \ {t} : run'[u] = Dented(run[u])
        /\ \/ run'[t] \in {Idle, AfterFault(run[t])}
           \/ run[t].tearing /\ run'[t] = GoesOn(run[t]) /\ "exit" \in Ahead(run[t].todo)
    BY <1>0, <1>5, FailFine
  <2>3. LET r == GoesOn(run[t]) IN
        r.todo = Tail(From(run[t].todo, "exit")) /\ r.name = run[t].name /\ r.tearing = run[t].tearing
    BY <1>0 DEF GoesOn, Runs
  <2>4. CASE run[t].tearing /\ run'[t] = GoesOn(run[t]) /\ "exit" \in Ahead(run[t].todo)
    <3>1. Ahead(run'[t].todo) \subseteq Ahead(run[t].todo)
      BY <1>0, <2>3, <2>4, OnFine
    <3> QED
      BY <1>a, <2>1, <2>2, <2>3, <2>4, <3>1 DEF Ended
  <2>5. CASE run'[t] \in {Idle, AfterFault(run[t])}
    BY <1>a, <1>b, <2>1, <2>2, <2>5 DEF Ended
  <2> QED
    BY <2>2, <2>4, <2>5
<1>6. ASSUME run[t] # Idle, UNCHANGED <<desk, session, binds>>, EndOfEnter(t),
             "installed" \in past' => "installed" \in past
      PROVE  Ended(t)
  <2>1. run'[t] \in {Idle, AfterSession(run[t])}
    BY <1>0, <1>6, EndOfEnterFine
  <2>2. \A u \in Terminals \ {t} : run'[u] = run[u]
    BY <1>0, <1>6 DEF EndOfEnter, RunsOK
  <2> QED
    BY <1>6, <1>a, <1>b, <2>1, <2>2 DEF Ended
<1>7. CASE Wait(t)
  BY <1>0, <1>6, <1>7, NextStep DEF Wait, EndOfEnter
<1>8. CASE Interrupt(t)
  BY <1>6, <1>8 DEF Interrupt, Idle, EndOfEnter
<1>9. ASSUME NEW s \in {"barBackup", "dropBar"}, At(t, s), Abort(t), UNCHANGED <<desk, session, binds>>,
             "installed" \in past' => "installed" \in past
      PROVE  Ended(t)
  <2>0. run[t] # Idle /\ s \in Ahead(run[t].todo) /\ Good(run[t])
    BY <1>0, <1>9, NextStep
  <2>1. CASE run[t].tearing
    <3> DEFINE e == Tail(From(run[t].todo, "exit"))
               r == [run[t] EXCEPT !.todo = e]
    <3>1. run' = [run EXCEPT ![t] = r]
      BY <1>0, <1>9, <2>1 DEF Abort, RunsOK
    <3>2. "exit" \in Ahead(run[t].todo)
      BY <2>0 DEF Good, Closed
    <3>3. Ahead(e) \subseteq Ahead(run[t].todo)
      BY <1>0, <3>2, OnFine
    <3> HIDE DEF e
    <3>4. r.todo = e /\ r.name = run[t].name /\ r.tearing = run[t].tearing
      BY <1>0 DEF Runs
    <3> HIDE DEF r
    <3>5. run'[t] = r /\ \A u \in Terminals \ {t} : run'[u] = run[u]
      BY <1>0, <3>1 DEF RunsOK
    <3>6. ~At(t, "stopDev")
      BY <1>9 DEF At
    <3> QED
      BY <1>9, <1>a, <2>0, <2>1, <3>3, <3>4, <3>5, <3>6 DEF Ended
  <2>2. CASE run[t].name = "enter" /\ ~run[t].tearing
    <3>1. EndOfEnter(t)
      BY <1>9, <2>2, Zenon DEF Abort
    <3> QED
      BY <1>6, <1>9, <2>0, <3>1
  <2>3. CASE ~run[t].tearing /\ run[t].name # "enter"
    <3>1. run' = [run EXCEPT ![t] = Idle]
      BY <1>9, <2>3 DEF Abort
    <3>2. run'[t] = Idle /\ \A u \in Terminals \ {t} : run'[u] = run[u]
      BY <1>0, <3>1 DEF RunsOK
    <3> QED
      BY <1>9, <1>a, <2>0, <3>2 DEF Ended
  <2> QED
    BY <2>1, <2>2, <2>3
<1>d. Abort(t) => ("installed" \in past' => "installed" \in past)
  BY DEF Abort, EndOfEnter
<1>10. CASE BarBackup(t) /\ bar = {}
  BY <1>9, <1>10, <1>d DEF BarBackup, Fails
<1>11. CASE DropBar(t) /\ ~Known(t)
  BY <1>9, <1>11, <1>d DEF DropBar, Known, Fails
<1> QED
  BY <1>2, <1>3, <1>4, <1>5, <1>7, <1>8, <1>10, <1>11 DEF Endings

-----------------------------------------------------------------------------
(* The dev daemon runs under the marker only: a session marks before it      *)
(* serves, a teardown stops the daemon before it removes the marker, and an   *)
(* install, which no marker lets begin, meets no dev daemon.                  *)

MarkedRun(r) ==
    /\ "serve" \in Ahead(r.todo) => session.marker \/ "mark" \in Ahead(r.todo)
    /\ "serve" \in Ahead(r.todo) /\ "main" \in Ahead(r.todo) => "mark" \in Ahead(r.todo)
    /\ "unmark" \in Ahead(r.todo) => ~session.devUp \/ "stopDev" \in Ahead(r.todo)
    /\ r.name = "install" => ~session.devUp
    /\ r.tearing => r.name \in {"leave", "enter"}
Marked == (session.devUp => session.marker) /\ \A t \in Terminals : MarkedRun(run[t])

\* The daemons and the marker: which steps change them.
Switches(t) ==
    \/ Main(t) \/ Systemd(t) \/ StopProd(t) \/ Mark(t) \/ Serve(t) \/ StopDev(t) \/ Unmark(t) \/ StartProd(t)

LEMMA OthersSwitchNothing ==
  ASSUME NEW t \in Terminals, Takings(t), ~Switches(t)
  PROVE  UNCHANGED session /\ ~At(t, "mark") /\ ~At(t, "stopDev")
<1>1. CASE \/ Schema(t) \/ Share(t) \/ Openers(t) \/ Editor(t) \/ AppendLines(t) \/ Block(t)
           \/ Pristine(t) \/ PatchBar(t) \/ Elephant(t) \/ WalkerManifest(t)
           \/ Backup(t) \/ Gestures(t) \/ HyprManifest(t) \/ BarManifest(t)
  BY <1>1 DEF Schema, Share, Openers, Editor, AppendLines, Block, Pristine, PatchBar, Elephant, WalkerManifest,
              Backup, Gestures, HyprManifest, BarManifest, At
<1>2. CASE \/ Enable(t) \/ PatchMenu(t) \/ PatchProd(t) \/ UnpatchBar(t) \/ Disable(t)
           \/ UnpatchMenu(t) \/ AddProd(t) \/ DropDevBar(t) \/ Seed(t) \/ RestoreBar(t)
           \/ DropHypr(t) \/ RemoveShare(t)
  BY <1>2 DEF Enable, PatchMenu, PatchProd, UnpatchBar, Disable, UnpatchMenu, AddProd, DropDevBar, Seed, RestoreBar,
              DropHypr, RemoveShare, At
<1>3. CASE \E p \in Profiles : ReadConf(t, p) \/ StripConf(t, p) \/ StripBlock(t, p)
  BY <1>3 DEF ReadConf, StripConf, StripBlock, At
<1>4. CASE (\E ui \in Uis : CopyPlugin(t, ui)) \/ (\E piece \in Helper : Chromium(t, piece))
  BY <1>4 DEF CopyPlugin, Chromium, Uis, Helper, At
<1>5. CASE (Exit(t) /\ Len(run[t].todo) > 1) \/ (BarBackup(t) /\ bar # {})
  BY <1>5 DEF Exit, BarBackup, At
<1>6. CASE DropBar(t) /\ Known(t)
  BY <1>6 DEF DropBar, Known, At
<1>7. CASE LoadHypr(t) \/ Restore(t)
  BY <1>7 DEF LoadHypr, Restore, At
<1> QED
  BY <1>1, <1>2, <1>3, <1>4, <1>5, <1>6, <1>7 DEF Takings, Switches

\* Who serves, or installs, is alone.
LEMMA AloneInSession ==
  ASSUME RunsOK, NEW t \in Terminals, "serve" \in Ahead(run[t].todo) \/ run[t].name = "install"
  PROVE  /\ \A u \in Terminals \ {t} : run[u] = Idle
         /\ "unmark" \notin Ahead(run[t].todo) /\ "stopDev" \notin Ahead(run[t].todo)
<1>1. run[t] \in Runs /\ Good(run[t])
  BY DEF RunsOK, Shape
<1>2. "serve" \notin Undoing /\ "unmark" \notin Doing /\ "stopDev" \notin Doing
  BY DEF Undoing, Doing, Both
<1>3. run[t].name = "install" \/ (run[t].name = "enter" /\ ~run[t].tearing)
  BY <1>1, <1>2 DEF Good, Scope
<1>4. ~Waits(run[t])
  <2> SUFFICES ASSUME At(t, "wait") PROVE FALSE
    BY DEF Waits, At
  <2>1. /\ "wait" \in Scope(run[t]) /\ Ahead(run[t].todo) = Ahead(Tail(run[t].todo)) \cup {"wait"}
        /\ \A x \in Ahead(Tail(run[t].todo)) : Earlier("wait", x)
    BY NextStep
  <2>2. ~Earlier("wait", "serve")
    BY Ranks DEF Earlier
  <2> QED
    BY <2>1, <2>2 DEF Scope
<1>5. Busy(run[t])
  BY <1>3, <1>4 DEF Busy
<1> QED
  BY <1>1, <1>2, <1>3, <1>5 DEF RunsOK, Shape, Good, Scope

\* Stopping the dev daemon is the first thing a teardown does.
LEMMA StopsFirst ==
  ASSUME RunsOK, NEW t \in Terminals, "stopDev" \in Ahead(run[t].todo)
  PROVE  At(t, "stopDev")
<1>1. run[t] \in Runs /\ Good(run[t])
  BY DEF RunsOK, Shape
<1>2. run[t].todo # <<>>
  BY DEF Ahead
<1> DEFINE h == Head(run[t].todo)
<1>3. At(t, h)
  BY <1>2 DEF At
<1> HIDE DEF h
<1>4. /\ h \in Scope(run[t]) /\ h \in Steps
      /\ Ahead(run[t].todo) = Ahead(Tail(run[t].todo)) \cup {h}
      /\ \A x \in Ahead(Tail(run[t].todo)) : Earlier(h, x)
  BY <1>3, NextStep
<1>5. "stopDev" \notin Doing /\ "stopProd" \notin Undoing
  BY DEF Doing, Undoing, Both
<1>6. h # "stopProd"
  BY <1>1, <1>4, <1>5 DEF Good, Scope
<1>7. Rank[h] \in Nat /\ Rank["stopDev"] = 0
  BY <1>4, StepNumbers, Ranks
<1>8. ~Earlier(h, "stopDev")
  BY <1>6, <1>7 DEF Earlier
<1> QED
  BY <1>3, <1>4, <1>8

\* What every command that begins leaves alone.
LEMMA BeginsAlone ==
  ASSUME RunsOK, NEW t \in Terminals, Begins(t)
  PROVE  /\ run[t] = Idle /\ past' = {}
         /\ UNCHANGED <<desk, binds, bar, menu, tools, saved, session>>
         /\ \A u \in Terminals \ {t} : run'[u] = run[u]
<1>1. PICK name, todo, tearing : Begin(t, name, todo, tearing)
  BY Zenon DEF Begins, BeginInstall, BeginDevInstall, BeginUninstall, BeginLeave, BeginEnter
<1>2. run[t] = Idle /\ past' = {} /\ UNCHANGED <<desk, binds, bar, menu, tools, saved, session>>
  BY <1>1 DEF Begin
<1>3. \E r : run' = [run EXCEPT ![t] = r]
  BY <1>1, Zenon DEF Begin
<1> QED
  BY <1>2, <1>3 DEF RunsOK

LEMMA LeaveMarked ==
  ASSUME NEW r, r.todo = Leave, r.name = "leave" \/ (r.name = "enter" /\ r.tearing)
  PROVE  MarkedRun(r) /\ MarkedRun(r)'
<1>1. "serve" \notin Ahead(r.todo) /\ "stopDev" \in Ahead(r.todo)
  BY LeaveSteps DEF WaybarUninstallSteps, UninstallSteps
<1> QED
  BY <1>1 DEF MarkedRun

LEMMA BeginsMarked ==
  ASSUME TypeInv, Marked, NEW t \in Terminals, Begins(t)
  PROVE  Marked'
<1>0. RunsOK
  BY DEF TypeInv
<1>1. UNCHANGED session /\ \A u \in Terminals \ {t} : run'[u] = run[u]
  BY <1>0, BeginsAlone
<1>2. MarkedRun(run[t])'
  <2>1. CASE BeginInstall(t) /\ \E ui \in Uis : run'[t] = Fresh("install", InstallAll(ui), FALSE)
    <3>1. PICK ui \in Uis : run'[t] = Fresh("install", InstallAll(ui), FALSE)
      BY <2>1
    <3>2. run'[t].name = "install" /\ ~run'[t].tearing /\ run'[t].todo = InstallAll(ui)
      BY <3>1 DEF Fresh, Idle
    <3>3. Ahead(run'[t].todo) = InstallSteps(ui)
      BY <3>2, InstallAllSteps
    <3>4. "serve" \notin InstallSteps(ui) /\ "unmark" \notin InstallSteps(ui)
      BY DEF InstallSteps, Uis
    <3>5. ~session.devUp
      BY <2>1 DEF BeginInstall, Marked
    <3> QED
      BY <1>1, <3>2, <3>3, <3>4, <3>5 DEF MarkedRun
  <2>2. CASE run'[t] = Fresh("devInstall", DevInstallAll, FALSE)
    <3>1. run'[t].name = "devInstall" /\ ~run'[t].tearing /\ run'[t].todo = DevInstallAll
      BY <2>2 DEF Fresh, Idle
    <3>2. "serve" \notin Ahead(run'[t].todo) /\ "unmark" \notin Ahead(run'[t].todo)
      BY <3>1, DevInstallSteps DEF Doing, Both
    <3> QED
      BY <3>1, <3>2 DEF MarkedRun
  <2>3. CASE run'[t] = Fresh("uninstall", DevUninstallHypr, FALSE)
    <3>1. run'[t].name = "uninstall" /\ ~run'[t].tearing /\ run'[t].todo = DevUninstallHypr
      BY <2>3 DEF Fresh, Idle
    <3>2. "serve" \notin Ahead(run'[t].todo) /\ "unmark" \notin Ahead(run'[t].todo)
      BY <3>1, DevUninstallHyprSteps DEF UninstallSteps
    <3> QED
      BY <3>1, <3>2 DEF MarkedRun
  <2>4. CASE run'[t] = Fresh("leave", Leave, TRUE)
    <3>1. run'[t].name = "leave" /\ run'[t].todo = Leave
      BY <2>4 DEF Fresh, Idle
    <3> QED
      BY <3>1, LeaveMarked DEF MarkedRun
  <2>5. CASE run'[t] = Fresh("enter", Leave, TRUE)
    <3>1. run'[t].name = "enter" /\ run'[t].tearing /\ run'[t].todo = Leave
      BY <2>5 DEF Fresh, Idle
    <3> QED
      BY <3>1, LeaveMarked DEF MarkedRun
  <2>6. CASE run'[t] = Fresh("enter", Enter, FALSE)
    <3>1. run'[t].name = "enter" /\ ~run'[t].tearing /\ run'[t].todo = Enter
      BY <2>6 DEF Fresh, Idle
    <3>2. "mark" \in Ahead(run'[t].todo) /\ "unmark" \notin Ahead(run'[t].todo)
      BY <3>1, EnterSteps DEF Doing, Both
    <3> QED
      BY <3>1, <3>2 DEF MarkedRun
  <2> QED
    BY <1>0, <2>1, <2>2, <2>3, <2>4, <2>5, <2>6, BeginsRuns
<1>3. \A u \in Terminals \ {t} : MarkedRun(run[u])'
  BY <1>1 DEF Marked, MarkedRun
<1> QED
  BY <1>1, <1>2, <1>3 DEF Marked

LEMMA EndingsMarked ==
  ASSUME TypeInv, Marked, NEW t \in Terminals, Endings(t)
  PROVE  Marked'
<1>0. RunsOK /\ run[t] \in Runs /\ Good(run[t])
  BY DEF TypeInv, RunsOK, Shape
<1>1. Ended(t)
  BY EndingsEnd
<1>2. UNCHANGED session
  BY <1>1 DEF Ended
<1>3. \A u \in Terminals \ {t} : MarkedRun(run[u])'
  BY <1>1 DEF Ended, Marked, MarkedRun, Twin
<1>4. MarkedRun(run[t])'
  <2>1. CASE run'[t] = Idle
    <3>1. Idle.name = "none" /\ ~Idle.tearing
      BY DEF Idle
    <3> QED
      BY <2>1, <3>1, IdleSafe DEF MarkedRun
  <2>2. CASE run'[t].todo = Leave /\ run'[t].name = "leave"
    <3>1. "serve" \notin Ahead(run'[t].todo) /\ "stopDev" \in Ahead(run'[t].todo)
      BY <2>2, LeaveSteps DEF WaybarUninstallSteps, UninstallSteps
    <3> QED
      BY <2>2, <3>1 DEF MarkedRun
  <2>3. CASE run'[t].todo = Enter /\ run'[t].name = "enter" /\ ~run'[t].tearing
    <3>1. "mark" \in Ahead(run'[t].todo) /\ "unmark" \notin Ahead(run'[t].todo)
      BY <2>3, EnterSteps DEF Doing, Both
    <3> QED
      BY <2>3, <3>1 DEF MarkedRun
  <2>4. CASE /\ run[t].tearing /\ run'[t].tearing /\ run'[t].name = run[t].name /\ ~At(t, "stopDev")
             /\ Ahead(run'[t].todo) \subseteq Ahead(run[t].todo)
    <3>1. MarkedRun(run[t]) /\ run[t].name \in {"leave", "enter"}
      BY <2>4 DEF Marked, MarkedRun
    <3>2. "stopDev" \notin Ahead(run[t].todo)
      BY <1>0, <2>4, StopsFirst
    <3>3. "serve" \notin Ahead(run[t].todo)
      <4>1. "serve" \notin Undoing
        BY DEF Undoing, Both
      <4>2. Scope(run[t]) = Undoing
        BY <2>4, <3>1 DEF Scope
      <4> QED
        BY <1>0, <4>1, <4>2 DEF Good
    <3> QED
      BY <1>2, <2>4, <3>1, <3>2, <3>3 DEF MarkedRun
  <2> QED
    BY <1>1, <2>1, <2>2, <2>3, <2>4 DEF Ended
<1> QED
  BY <1>2, <1>3, <1>4 DEF Marked

\* What the detours of an uninstall leave of it.
Detoured(t) ==
    /\ run[t] # Idle /\ ~Installing(run[t]) /\ run[t].name # "install"
    /\ \A u \in Terminals \ {t} : run'[u] = run[u]
    /\ run'[t].name = run[t].name /\ run'[t].tearing = run[t].tearing
    /\ \E s \in {"prodBar", "ensureProd", "detect"} : At(t, s)
    /\ Ahead(run'[t].todo) \subseteq
           Ahead(run[t].todo) \cup {"patchProd", "dropDevBar", "addProd", "readDev", "stripDev"}
    /\ UNCHANGED <<desk, binds, menu, tools, saved, session, past>>

LEMMA DetoursLeave ==
  ASSUME TypeInv, NEW t \in Terminals, Detours(t)
  PROVE  Detoured(t)
<1>0. RunsOK /\ run[t] \in Runs
  BY DEF TypeInv, RunsOK
<1>1. ASSUME NEW s \in {"prodBar", "ensureProd", "detect"}, At(t, s)
      PROVE  run[t] # Idle /\ ~Installing(run[t]) /\ run[t].name # "install"
  <2>1. run[t] # Idle /\ s \in Scope(run[t]) /\ s \in Ahead(run[t].todo)
    BY <1>0, <1>1, NextStep
  <2>2. s \notin Doing
    BY DEF Doing, Both
  <2> QED
    BY <1>0, <2>1, <2>2, NotInstalling DEF Scope
<1>2. ASSUME NEW todo, run'[t] = [run[t] EXCEPT !.todo = todo]
      PROVE  run'[t].name = run[t].name /\ run'[t].tearing = run[t].tearing /\ run'[t].todo = todo
  BY <1>0, <1>2 DEF Runs
<1>3. CASE ProdBar(t)
  <2>1. At(t, "prodBar") /\ UNCHANGED <<desk, binds, menu, tools, saved, session, past>>
    BY <1>3 DEF ProdBar, Goto, Pop, PopWith
  <2>2. \A u \in Terminals \ {t} : run'[u] = run[u]
    BY <1>0, <1>3 DEF ProdBar, Goto, Pop, PopWith, RunsOK
  <2> DEFINE e == Tail(From(run[t].todo, "dropBar"))
  <2>3. CASE /\ Ahead(run'[t].todo) = {"patchProd", "dropDevBar"} \cup Ahead(e)
             /\ run'[t] = [run[t] EXCEPT !.todo = run'[t].todo]
             /\ \A x \in Ahead(e) : x \in Ahead(run[t].todo) /\ Earlier("dropBar", x)
    <3> HIDE DEF e
    <3> QED
      BY <1>1, <1>2, <2>1, <2>2, <2>3 DEF Detoured
  <2>4. CASE run'[t] = [run[t] EXCEPT !.todo = Tail(@)]
    <3>1. run'[t].todo = Tail(run[t].todo)
      BY <1>2, <2>4
    <3>2. Ahead(run[t].todo) = Ahead(run'[t].todo) \cup {"prodBar"}
      BY <1>0, <2>1, <3>1, NextStep
    <3> QED
      BY <1>1, <1>2, <2>1, <2>2, <2>4, <3>2 DEF Detoured
  <2> QED
    BY <1>0, <1>3, <2>3, <2>4, ProdBarFine
<1>4. CASE Detect(t)
  <2>1. At(t, "detect") /\ UNCHANGED <<desk, binds, menu, tools, saved, session, past>>
    BY <1>4 DEF Detect, Goto
  <2>2. \A u \in Terminals \ {t} : run'[u] = run[u]
    BY <1>0, <1>4 DEF Detect, Goto, RunsOK
  <2>3. run'[t] = [run[t] EXCEPT !.todo = run'[t].todo] /\ Ahead(run'[t].todo) \subseteq Ahead(run[t].todo)
    BY <1>0, <1>4, DetectFine
  <2> QED
    BY <1>1, <1>2, <2>1, <2>2, <2>3 DEF Detoured
<1>5. CASE EnsureProd(t)
  <2>1. At(t, "ensureProd") /\ UNCHANGED <<desk, binds, menu, tools, saved, session, past>>
    BY <1>5 DEF EnsureProd, Goto, Pop, PopWith
  <2>2. \A u \in Terminals \ {t} : run'[u] = run[u]
    BY <1>0, <1>5 DEF EnsureProd, Goto, Pop, PopWith, RunsOK
  <2>3. /\ run'[t] = [run[t] EXCEPT !.todo = run'[t].todo]
        /\ Ahead(run'[t].todo) \subseteq Ahead(run[t].todo) \cup {"addProd", "readDev", "stripDev"}
    BY <1>0, <1>5, EnsureProdFine
  <2> QED
    BY <1>1, <1>2, <2>1, <2>2, <2>3 DEF Detoured
<1> QED
  BY <1>3, <1>4, <1>5 DEF Detours

LEMMA DetoursMarked ==
  ASSUME TypeInv, Marked, NEW t \in Terminals, Detours(t)
  PROVE  Marked'
<1>0. RunsOK /\ run[t] \in Runs /\ Good(run[t])
  BY DEF TypeInv, RunsOK, Shape
<1>1. Detoured(t)
  BY DetoursLeave
<1>2. "serve" \notin Ahead(run[t].todo)
  <2>1. Scope(run[t]) = Undoing
    <3>1. PICK s \in {"prodBar", "ensureProd", "detect"} : At(t, s)
      BY <1>1 DEF Detoured
    <3>2. s \in Scope(run[t]) /\ s \notin Doing
      BY <1>0, <3>1, NextStep DEF Doing, Both
    <3> QED
      BY <3>2 DEF Scope
  <2> QED
    BY <1>0, <2>1 DEF Good, Undoing, Both
<1>3. "stopDev" \notin Ahead(run[t].todo)
  BY <1>0, <1>1, StopsFirst DEF Detoured, At
<1>4. MarkedRun(run[t])'
  BY <1>1, <1>2, <1>3 DEF Marked, MarkedRun, Detoured
<1>5. \A u \in Terminals \ {t} : MarkedRun(run[u])'
  BY <1>1 DEF Marked, MarkedRun, Detoured
<1> QED
  BY <1>1, <1>4, <1>5 DEF Marked, Detoured

\* The steps that change the marker or the daemons, each of a command that is right before it.
LEMMA TakingsMarked ==
  ASSUME TypeInv, Marked, NEW t \in Terminals, Takings(t)
  PROVE  Marked'
<1>0. RunsOK /\ run[t] \in Runs /\ Good(run[t])
  BY DEF TypeInv, RunsOK, Shape
<1>1. PICK s : Taking(t, s)
  BY TakingsTake
<1>2. MarkedRun(run[t]) /\ \A u \in Terminals \ {t} : MarkedRun(run[u])
  BY DEF Marked
<1>3. \A u \in Terminals \ {t} : "serve" \notin Ahead(run[u].todo) /\ run[u].name # "install"
  BY <1>0, <1>1, AloneInSession DEF Taking
<1>4. /\ At(t, s) /\ run[t] # Idle
      /\ \A u \in Terminals \ {t} : run'[u] = run[u]
      /\ run'[t].name = run[t].name /\ run'[t].tearing = run[t].tearing
      /\ Ahead(run[t].todo) = Ahead(run'[t].todo) \cup {s}
      /\ s # "stopProd" => s \notin Ahead(run'[t].todo)
      /\ \A x \in Ahead(run'[t].todo) : Earlier(s, x)
  BY <1>1 DEF Taking
<1>5. session \in [marker : BOOLEAN, prodUp : BOOLEAN, devUp : BOOLEAN, noted : BOOLEAN]
  BY DEF TypeInv, FilesOK
\* As long as the dev daemon is not started, the other commands are as right as before.
<1>6. ASSUME session'.devUp => session.devUp, session'.devUp => session'.marker, MarkedRun(run[t])' PROVE Marked'
  <2>1. ASSUME NEW u \in Terminals \ {t} PROVE MarkedRun(run[u])'
    BY <1>2, <1>3, <1>4, <1>6, <2>1 DEF MarkedRun
  <2> QED
    BY <1>6, <2>1 DEF Marked
<1>7. ASSUME NEW x, At(t, x) PROVE x = s
  BY <1>4, <1>7 DEF At
<1>8. CASE UNCHANGED session /\ ~At(t, "mark") /\ ~At(t, "stopDev")
  <2>1. s # "mark" /\ s # "stopDev"
    BY <1>4, <1>8
  <2>2. MarkedRun(run[t])'
    BY <1>2, <1>4, <1>8, <2>1 DEF MarkedRun
  <2> QED
    BY <1>6, <1>8, <2>2 DEF Marked
<1>9. CASE Main(t)
  <2>1. s = "main" /\ session'.marker = (session.marker /\ (session.devUp \/ ~session.prodUp))
        /\ session'.devUp = session.devUp
    BY <1>5, <1>7, <1>9 DEF Main
  <2>2. MarkedRun(run[t])'
    BY <1>2, <1>4, <2>1 DEF MarkedRun
  <2> QED
    BY <1>6, <2>1, <2>2 DEF Marked
<1>10. CASE Systemd(t) \/ StopProd(t) \/ StartProd(t)
  <2>1. s \in {"systemd", "stopProd", "startProd"} /\ session'.marker = session.marker
        /\ session'.devUp = session.devUp
    BY <1>5, <1>7, <1>10 DEF Systemd, StopProd, StartProd
  <2>2. MarkedRun(run[t])'
    BY <1>2, <1>4, <2>1 DEF MarkedRun
  <2> QED
    BY <1>6, <2>1, <2>2 DEF Marked
<1>11. CASE Mark(t)
  <2>1. s = "mark" /\ session'.marker /\ session'.devUp = session.devUp
    BY <1>5, <1>7, <1>11 DEF Mark
  <2>2. ~Earlier("mark", "main")
    BY Ranks DEF Earlier
  <2>3. MarkedRun(run[t])'
    BY <1>2, <1>4, <2>1, <2>2 DEF MarkedRun
  <2> QED
    BY <1>6, <2>1, <2>3
<1>12. CASE Serve(t)
  <2>1. s = "serve" /\ session'.marker = session.marker
    BY <1>5, <1>7, <1>12 DEF Serve
  <2>2. "mark" \notin Ahead(run[t].todo)
    <3>1. ~Earlier("serve", "mark")
      BY Ranks DEF Earlier
    <3> QED
      BY <1>4, <2>1, <3>1
  <2>3. session.marker
    BY <1>2, <1>4, <2>1, <2>2 DEF MarkedRun
  <2>4. (\A u \in Terminals \ {t} : run[u] = Idle) /\ "unmark" \notin Ahead(run[t].todo)
    BY <1>0, <1>4, <2>1, AloneInSession
  <2>5. run[t].name # "install"
    <3>1. s \in Scope(run[t])
      BY <1>1 DEF Taking
    <3> QED
      BY <2>1, <3>1 DEF Scope
  <2>6. MarkedRun(run[t])'
    BY <1>2, <1>4, <2>1, <2>3, <2>4, <2>5 DEF MarkedRun
  <2>7. ASSUME NEW u \in Terminals \ {t} PROVE MarkedRun(run[u])'
    <3>1. run'[u] = Idle /\ Idle.name = "none" /\ ~Idle.tearing
      BY <1>4, <2>4 DEF Idle
    <3> QED
      BY <3>1, IdleSafe DEF MarkedRun
  <2> QED
    BY <2>1, <2>3, <2>6, <2>7 DEF Marked
<1>13. CASE StopDev(t)
  <2>1. s = "stopDev" /\ session'.marker = session.marker /\ ~session'.devUp
    BY <1>5, <1>7, <1>13 DEF StopDev
  <2>2. MarkedRun(run[t])'
    BY <1>2, <1>4, <2>1 DEF MarkedRun
  <2> QED
    BY <1>6, <2>1, <2>2
<1>14. CASE Unmark(t)
  <2>1. s = "unmark" /\ session'.devUp = session.devUp
    BY <1>5, <1>7, <1>14 DEF Unmark
  <2>2. "stopDev" \notin Ahead(run[t].todo)
    BY <1>0, <1>7, <2>1, StopsFirst
  <2>3. ~session.devUp
    BY <1>2, <1>4, <2>1, <2>2 DEF MarkedRun
  <2>4. "serve" \notin Ahead(run[t].todo)
    BY <1>0, <1>4, <2>1, AloneInSession
  <2>5. MarkedRun(run[t])'
    BY <1>2, <1>4, <2>1, <2>3, <2>4 DEF MarkedRun
  <2> QED
    BY <1>6, <2>1, <2>3, <2>5
<1> QED
  BY <1>8, <1>9, <1>10, <1>11, <1>12, <1>13, <1>14, OthersSwitchNothing DEF Switches

LEMMA StepMarked == TypeInv /\ Marked /\ [Next]_vars => Marked'
<1> SUFFICES ASSUME TypeInv, Marked, [Next]_vars PROVE Marked'
  OBVIOUS
<1>1. CASE UNCHANGED vars
  BY <1>1 DEF vars, Marked, MarkedRun
<1>2. CASE Next
  <2>1. PICK t \in Terminals : Begins(t) \/ Installs(t) \/ Uninstalls(t) \/ Sessions(t) \/ Fail(t) \/ Kill(t)
    BY <1>2 DEF Next
  <2> QED
    BY <2>1, KindsOfSteps, BeginsMarked, TakingsMarked, DetoursMarked, EndingsMarked
<1> QED
  BY <1>1, <1>2

LEMMA InitMarked == Init => Marked
<1> SUFFICES ASSUME Init PROVE Marked
  OBVIOUS
<1>0. PICK kind \in Desks, packaged \in BOOLEAN, prod \in BOOLEAN, own \in BOOLEAN : Machine(kind, packaged, prod, own)
  BY DEF Init
<1>1. ~session.devUp
  BY <1>0 DEF Machine
<1>2. \A t \in Terminals : run[t] = Idle
  BY DEF Init
<1>3. Idle.name = "none" /\ ~Idle.tearing
  BY DEF Idle
<1>4. MarkedRun(Idle)
  BY <1>3, IdleSafe DEF MarkedRun
<1> QED
  BY <1>1, <1>2, <1>4 DEF Marked

-----------------------------------------------------------------------------
(* What `tsk install all` has established so far, on Omarchy with the         *)
(* package: nobody else changes it, because an install runs alone.            *)

Omarchy == desk = [kind |-> "lua", packaged |-> TRUE]
LuaThere == desk.kind = "lua" => binds.lua # {}

\* The checks of the doctor that an install has earned: one for each step that is done.
DoneWith(r, s) == s \notin Ahead(r.todo)
DoctorRun(r) ==
    /\ Ahead(r.todo) \subseteq InstallSteps("shell") \cup {"tui"}
    /\ DoneWith(r, "schema") => tools.schema
    /\ DoneWith(r, "openers") => "Prod" \in tools.openers
    /\ DoneWith(r, "editor") => tools.editor \in {"Prod", "own"}
    /\ DoneWith(r, "backup") => DoneWith(r, "hyprManifest") \/ r.backup.text # {}
    /\ DoneWith(r, "block") => "Prod" \in Content(binds.lua)
    /\ DoneWith(r, "hyprManifest") => \E b \in saved.hypr["Prod"] : b.text # {}
    /\ DoneWith(r, "shell") /\ DoneWith(r, "tui") => menu.ui = saved.ui["Prod"]
    /\ DoneWith(r, "enable") => menu.on /\ ~menu.spaces
    /\ DoneWith(r, "patchMenu") => menu.patched
    /\ DoneWith(r, "systemd") => session.prodUp /\ tools.enabled
    /\ DoneWith(r, "extension") => "extension" \in tools.helper
    /\ DoneWith(r, "externalJson") => "externalJson" \in tools.helper
    /\ DoneWith(r, "hostJson") => "hostJson" \in tools.helper
    /\ DoneWith(r, "helperManifest") => "manifest" \in tools.helper

\* What the checks of the doctor come to.
Doctored ==
    /\ CheckInstalled /\ CheckShell /\ CheckKeys /\ CheckSchema /\ CheckHelper /\ CheckDaemon
    /\ CheckEditor \/ tools.editor = "own"
    /\ menu.ui = saved.ui["Prod"] /\ tools.helper = Helper
DoctorInv ==
    /\ LuaThere
    /\ "installed" \in past => Quiet /\ (Omarchy => Doctored)
    /\ Omarchy => \A t \in Terminals : run[t].name = "install" => DoctorRun(run[t])

\* The bindings of Omarchy never go away: blocks are taken out of them, and put into them.
LEMMA StepLua == TypeInv /\ LuaThere /\ [Next]_vars => LuaThere'
<1> SUFFICES ASSUME TypeInv, LuaThere, [Next]_vars PROVE LuaThere'
  OBVIOUS
<1>1. CASE UNCHANGED vars
  BY <1>1 DEF vars, LuaThere
<1>2. CASE Next
  <2>1. PICK t \in Terminals : Begins(t) \/ Installs(t) \/ Uninstalls(t) \/ Sessions(t) \/ Fail(t) \/ Kill(t)
    BY <1>2 DEF Next
  <2>2. ASSUME UNCHANGED desk, binds' = binds \/ binds'.lua = binds.lua \/ binds'.lua # {} PROVE LuaThere'
    BY <2>2 DEF LuaThere
  <2>0. binds \in BindsType /\ RunsOK
    BY DEF TypeInv, FilesOK, BindsType
  <2>3. CASE Begins(t)
    BY <2>0, <2>2, <2>3, BeginsAlone
  <2>4. CASE Detours(t)
    BY <2>2, <2>4, DetoursLeave DEF Detoured
  <2>5. CASE Endings(t)
    BY <2>2, <2>5, EndingsEnd DEF Ended
  <2>6. CASE Takings(t)
    <3>0. UNCHANGED desk
      BY <2>6, TakingsTake
    <3>1. CASE \/ Main(t) \/ Schema(t) \/ Share(t) \/ Openers(t) \/ Editor(t) \/ HyprManifest(t) \/ Pristine(t)
               \/ PatchBar(t) \/ BarManifest(t) \/ Elephant(t) \/ WalkerManifest(t)
               \/ Enable(t) \/ PatchMenu(t) \/ Systemd(t)
      BY <2>2, <3>0, <3>1 DEF Main, Schema, Share, Openers, Editor, HyprManifest, Pristine, PatchBar, BarManifest,
                Elephant, WalkerManifest, Enable, PatchMenu, Systemd
    <3>2. CASE \/ PatchProd(t) \/ DropDevBar(t) \/ Seed(t) \/ RestoreBar(t) \/ UnpatchBar(t) \/ DropHypr(t)
               \/ Disable(t) \/ UnpatchMenu(t) \/ RemoveShare(t) \/ StopProd(t) \/ Mark(t) \/ Serve(t) \/ StopDev(t)
               \/ Unmark(t) \/ StartProd(t)
      BY <2>2, <3>0, <3>2 DEF PatchProd, DropDevBar, Seed, RestoreBar, UnpatchBar, DropHypr, Disable, UnpatchMenu,
                RemoveShare, StopProd, Mark, Serve, StopDev, Unmark, StartProd
    <3>3. CASE (\E ui \in Uis : CopyPlugin(t, ui)) \/ (\E piece \in Helper : Chromium(t, piece))
      BY <2>2, <3>0, <3>3 DEF CopyPlugin, Chromium
    <3>4. CASE \/ (Exit(t) /\ Len(run[t].todo) > 1) \/ (BarBackup(t) /\ bar # {}) \/ (DropBar(t) /\ Known(t))
      BY <2>2, <3>0, <3>4 DEF Exit, BarBackup, DropBar, Known
    <3>5. CASE \/ Backup(t) \/ AppendLines(t) \/ Gestures(t) \/ AddProd(t)
               \/ \E p \in Profiles : ReadConf(t, p) \/ StripConf(t, p)
      <4>1. binds' = binds \/ binds'.lua = binds.lua
        BY <2>0, <3>5 DEF Backup, AppendLines, Gestures, AddProd, ReadConf, StripConf, BindsType
      <4> QED
        BY <2>2, <3>0, <4>1
    <3>6. CASE Block(t)
      <4>1. binds'.lua = {Content(binds.lua) \cup {Profile(t)}}
        BY <2>0, <3>6 DEF Block, BindsType
      <4> QED
        BY <2>2, <3>0, <4>1
    <3>7. CASE \E p \in Profiles : StripBlock(t, p)
      <4>1. PICK p \in Profiles : StripBlock(t, p)
        BY <3>7
      <4>2. binds'.lua = {lines \ {p} : lines \in binds.lua}
        BY <2>0, <4>1 DEF StripBlock, BindsType
      <4>3. binds.lua # {} => binds'.lua # {}
        BY <4>2
      <4> QED
        BY <3>0, <4>3 DEF LuaThere
    <3>8. CASE LoadHypr(t) \/ Restore(t)
      <4>1. CASE LoadHypr(t)
        BY <2>2, <3>0, <4>1 DEF LoadHypr
      <4>2. CASE Restore(t)
        <5> DEFINE text == run[t].backup.text
        <5>1. binds'.lua = IF desk.kind = "lua" /\ text # {} THEN text ELSE binds.lua
          BY <4>2 DEF Restore
        <5> HIDE DEF text
        <5> QED
          BY <2>2, <3>0, <5>1
      <4> QED
        BY <3>8, <4>1, <4>2
    <3> QED
      BY <2>6, <3>1, <3>2, <3>3, <3>4, <3>5, <3>6, <3>7, <3>8 DEF Takings
  <2> QED
    BY <2>1, <2>3, <2>4, <2>5, <2>6, KindsOfSteps
<1> QED
  BY <1>1, <1>2

\* A step after which t is no install, or an install that is still right.
LEMMA ElseDoctor ==
  ASSUME TypeInv, DoctorInv, LuaThere', NEW t \in Terminals, run[t] # Idle, UNCHANGED desk,
         \A u \in Terminals \ {t} : run'[u].name = run[u].name,
         "installed" \in past' => "installed" \in past,
         Omarchy /\ run'[t].name = "install" => DoctorRun(run[t])'
  PROVE  DoctorInv'
<1>1. "installed" \notin past
  BY DEF DoctorInv, Quiet
<1>2. \A u \in Terminals \ {t} : run[u].name # "install"
  BY AloneInSession DEF TypeInv
<1>3. Omarchy' => Omarchy
  BY DEF Omarchy
<1> QED
  BY <1>1, <1>2, <1>3 DEF DoctorInv

\* No step of a command but the last one of an install says that one has been installed.
LEMMA TakingsPast ==
  ASSUME NEW t \in Terminals, Takings(t)
  PROVE  "installed" \in past' => "installed" \in past
<1>1. CASE UNCHANGED past
  BY <1>1
<1>2. CASE DropDevBar(t) \/ RemoveShare(t) \/ (DropBar(t) /\ Known(t))
  BY <1>2 DEF DropDevBar, RemoveShare, DropBar, Known, Establish
<1>3. CASE \/ Main(t) \/ Schema(t) \/ Share(t) \/ Openers(t) \/ Editor(t)
           \/ Backup(t) \/ AppendLines(t) \/ Gestures(t) \/ Block(t) \/ HyprManifest(t)
           \/ Pristine(t) \/ PatchBar(t) \/ BarManifest(t) \/ Elephant(t) \/ WalkerManifest(t)
           \/ Enable(t) \/ PatchMenu(t) \/ Systemd(t)
  BY <1>3 DEF Main, Schema, Share, Openers, Editor, Backup, AppendLines, Gestures, Block, HyprManifest, Pristine,
              PatchBar, BarManifest, Elephant, WalkerManifest, Enable, PatchMenu, Systemd, Pop, PopWith
<1>4. CASE \/ PatchProd(t) \/ Seed(t) \/ RestoreBar(t) \/ UnpatchBar(t) \/ DropHypr(t)
           \/ Disable(t) \/ UnpatchMenu(t) \/ AddProd(t) \/ StopProd(t) \/ Mark(t) \/ Serve(t) \/ StopDev(t)
           \/ Unmark(t) \/ StartProd(t)
  BY <1>4 DEF PatchProd, Seed, RestoreBar, UnpatchBar, DropHypr, Disable, UnpatchMenu, AddProd,
              StopProd, Mark, Serve, StopDev, Unmark, StartProd, Pop, PopWith
<1>5. CASE \/ (\E ui \in Uis : CopyPlugin(t, ui)) \/ (\E piece \in Helper : Chromium(t, piece))
           \/ \E p \in Profiles : ReadConf(t, p) \/ StripConf(t, p) \/ StripBlock(t, p)
  BY <1>5 DEF CopyPlugin, Chromium, ReadConf, StripConf, StripBlock, Pop, PopWith
<1>6. CASE (Exit(t) /\ Len(run[t].todo) > 1) \/ (BarBackup(t) /\ bar # {})
  BY <1>6 DEF Exit, BarBackup, Pop, PopWith
<1>7. CASE LoadHypr(t) \/ Restore(t)
  BY <1>7, Zenon DEF LoadHypr, Restore, PopWith
<1> QED
  BY <1>2, <1>3, <1>4, <1>5, <1>6, <1>7 DEF Takings

\* The steps of an install on Omarchy.
OmarchySteps ==
    {"main", "schema", "share", "openers", "editor", "backup", "hyprManifest", "shell", "tui", "enable", "patchMenu",
     "extension", "externalJson", "hostJson", "helperManifest", "exit", "block", "systemd"}

LEMMA InstallsDoctor ==
  ASSUME TypeInv, DoctorInv, NEW t \in Terminals, Takings(t), Omarchy, run[t].name = "install"
  PROVE  DoctorRun(run[t])'
<1>0. /\ RunsOK /\ run[t] \in Runs /\ binds \in BindsType /\ saved \in SavedType /\ UNCHANGED desk
      /\ menu \in [elephant : {"absent", "own", "Dev"}, ui : Uis \cup {"none"}, on : BOOLEAN,
                   spaces : BOOLEAN, patched : BOOLEAN]
      /\ tools \in [schema : BOOLEAN, devShare : BOOLEAN, openers : SUBSET Profiles,
                    editor : Profiles \cup {"own", "unset"}, helper : SUBSET Helper, enabled : BOOLEAN]
      /\ session \in [marker : BOOLEAN, prodUp : BOOLEAN, devUp : BOOLEAN, noted : BOOLEAN]
  BY TakingsTake DEF TypeInv, FilesOK, RunsOK, BindsType, SavedType
<1>1. DoctorRun(run[t]) /\ binds.lua # {} /\ desk.kind = "lua" /\ desk.packaged
  BY DEF DoctorInv, LuaThere, Omarchy
<1>2. OmarchySteps = InstallSteps("shell") \cup {"tui"}
  BY <1>1 DEF OmarchySteps, InstallSteps
<1>3. (OmarchySteps = InstallSteps("shell") \cup {"tui"})'
  BY <1>0, <1>1 DEF OmarchySteps, InstallSteps
<1>4. Ahead(run[t].todo) \subseteq OmarchySteps
  BY <1>1, <1>2 DEF DoctorRun
<1>5. \A x : At(t, x) => x \in OmarchySteps
  BY <1>0, <1>4, NextStep
<1>6. Profile(t) = "Prod"
  BY DEF Profile
<1> DEFINE Step(s) ==
               /\ At(t, s) /\ Ahead(run[t].todo) = Ahead(run'[t].todo) \cup {s} /\ s \notin Ahead(run'[t].todo)
               /\ \A x \in Ahead(run'[t].todo) : Earlier(s, x)
<1>7. ASSUME NEW s, At(t, s), Pop(t) PROVE Step(s) /\ run'[t].backup = run[t].backup
  <2>1. s # "wait" /\ s # "stopProd"
    BY <1>5, <1>7 DEF OmarchySteps
  <2>2. run' = [run EXCEPT ![t] = [run[t] EXCEPT !.todo = Tail(@)]]
    BY <1>7 DEF Pop, PopWith
  <2>3. Takes(t, s, run[t])
    BY <1>0, <1>7, <2>1, <2>2, Taken
  <2> QED
    BY <1>7, <2>1, <2>3 DEF Takes
\* Steps that change nothing the doctor looks at.
<1>8. ASSUME NEW s \in {"main", "share", "exit"}, Step(s), run'[t].backup = run[t].backup,
             UNCHANGED <<binds, menu, saved>>,
             tools'.schema = tools.schema, tools'.openers = tools.openers, tools'.editor = tools.editor,
             tools'.helper = tools.helper, tools'.enabled = tools.enabled, session'.prodUp = session.prodUp
      PROVE  DoctorRun(run[t])'
  BY <1>1, <1>2, <1>3, <1>8 DEF DoctorRun, DoneWith
<1>9. CASE Main(t)
  <2>1. At(t, "main") /\ Pop(t) /\ UNCHANGED <<binds, menu, tools, saved>> /\ session'.prodUp = session.prodUp
    BY <1>0, <1>9 DEF Main
  <2> QED
    BY <1>7, <1>8, <2>1
<1>10. CASE Share(t)
  <2>1. /\ At(t, "share") /\ Pop(t) /\ UNCHANGED <<binds, menu, saved, session>>
        /\ tools'.schema = tools.schema /\ tools'.openers = tools.openers /\ tools'.editor = tools.editor
        /\ tools'.helper = tools.helper /\ tools'.enabled = tools.enabled
    BY <1>0, <1>10 DEF Share
  <2> QED
    BY <1>7, <1>8, <2>1
<1>11. CASE Exit(t) /\ Len(run[t].todo) > 1
  <2>1. At(t, "exit") /\ Pop(t) /\ UNCHANGED <<binds, menu, tools, saved, session>>
    BY <1>11 DEF Exit
  <2> QED
    BY <1>7, <1>8, <2>1
<1>12. CASE Schema(t)
  <2>1. At(t, "schema") /\ Pop(t) /\ UNCHANGED <<binds, menu, saved, session>> /\ tools'.schema
        /\ tools'.openers = tools.openers /\ tools'.editor = tools.editor
        /\ tools'.helper = tools.helper /\ tools'.enabled = tools.enabled
    BY <1>0, <1>12 DEF Schema
  <2> QED
    BY <1>1, <1>2, <1>3, <1>7, <2>1 DEF DoctorRun, DoneWith
<1>13. CASE Openers(t)
  <2>1. At(t, "openers") /\ Pop(t) /\ UNCHANGED <<binds, menu, saved, session>> /\ tools'.schema = tools.schema
        /\ "Prod" \in tools'.openers /\ tools'.editor = tools.editor
        /\ tools'.helper = tools.helper /\ tools'.enabled = tools.enabled
    BY <1>0, <1>6, <1>13 DEF Openers
  <2> QED
    BY <1>1, <1>2, <1>3, <1>7, <2>1 DEF DoctorRun, DoneWith
<1>14. CASE Editor(t)
  <2>1. At(t, "editor") /\ Pop(t) /\ UNCHANGED <<binds, menu, saved, session>> /\ tools'.schema = tools.schema
        /\ tools'.openers = tools.openers /\ tools'.editor \in {"Prod", "own"}
        /\ tools'.helper = tools.helper /\ tools'.enabled = tools.enabled
    BY <1>0, <1>6, <1>14 DEF Editor
  <2> QED
    BY <1>1, <1>2, <1>3, <1>7, <2>1 DEF DoctorRun, DoneWith
<1>15. CASE Backup(t)
  <2> DEFINE b == [text |-> Bindings, native |-> FALSE]
             r == [run[t] EXCEPT !.backup = b]
  <2>1. /\ At(t, "backup") /\ PopWith(t, r) /\ UNCHANGED <<menu, tools, saved, session>>
        /\ binds'.lua = binds.lua
    BY <1>0, <1>15 DEF Backup, BindsType
  <2>2. b \in Backups /\ b.text # {}
    BY <1>0, <1>1 DEF Bindings, Backups, BindsType
  <2> HIDE DEF b
  <2>3. r \in Runs /\ r.todo = run[t].todo /\ r.name = run[t].name /\ r.tearing = run[t].tearing /\ r.backup = b
    BY <1>0, <2>2 DEF Runs
  <2> HIDE DEF r
  <2>4. run' = [run EXCEPT ![t] = [r EXCEPT !.todo = Tail(@)]]
    BY <2>1 DEF PopWith
  <2>5. Takes(t, "backup", r)
    BY <1>0, <2>1, <2>3, <2>4, Taken
  <2>6. /\ Ahead(run[t].todo) = Ahead(run'[t].todo) \cup {"backup"} /\ "backup" \notin Ahead(run'[t].todo)
        /\ run'[t].backup.text # {}
    BY <2>2, <2>3, <2>5 DEF Takes
  <2> QED
    BY <1>1, <1>2, <1>3, <2>1, <2>6 DEF DoctorRun, DoneWith
<1>16. CASE Block(t)
  <2>1. /\ At(t, "block") /\ Pop(t) /\ UNCHANGED <<menu, tools, saved, session>>
        /\ binds'.lua = {Content(binds.lua) \cup {"Prod"}}
    BY <1>0, <1>6, <1>16 DEF Block, BindsType
  <2>2. "Prod" \in Content(binds'.lua)
    BY <2>1 DEF Content
  <2> QED
    BY <1>1, <1>2, <1>3, <1>7, <2>1, <2>2 DEF DoctorRun, DoneWith
<1>17. CASE HyprManifest(t)
  <2> DEFINE r == [run[t] EXCEPT !.backup = Idle.backup]
  <2>1. /\ At(t, "hyprManifest") /\ PopWith(t, r) /\ UNCHANGED <<binds, menu, tools, session>>
        /\ saved' = [saved EXCEPT !.hypr[Profile(t)] = {run[t].backup}]
    BY <1>17 DEF HyprManifest
  <2>2. saved'.hypr["Prod"] = {run[t].backup} /\ saved'.ui = saved.ui
    BY <1>0, <1>6, <2>1 DEF SavedType, Profiles
  <2>3. r \in Runs /\ r.todo = run[t].todo /\ r.name = run[t].name /\ r.tearing = run[t].tearing
    BY <1>0, IdleFine DEF Runs
  <2> HIDE DEF r
  <2>4. run' = [run EXCEPT ![t] = [r EXCEPT !.todo = Tail(@)]]
    BY <2>1 DEF PopWith
  <2>5. Takes(t, "hyprManifest", r)
    BY <1>0, <2>1, <2>3, <2>4, Taken
  <2>6. /\ Ahead(run[t].todo) = Ahead(run'[t].todo) \cup {"hyprManifest"}
        /\ "hyprManifest" \notin Ahead(run'[t].todo) /\ "backup" \notin Ahead(run[t].todo)
    <3>1. ~Earlier("hyprManifest", "backup")
      BY Ranks DEF Earlier
    <3> QED
      BY <2>5, <3>1 DEF Takes
  <2>7. run[t].backup.text # {}
    BY <1>1, <2>6 DEF DoctorRun, DoneWith
  <2> QED
    BY <1>1, <1>2, <1>3, <2>1, <2>2, <2>6, <2>7 DEF DoctorRun, DoneWith
<1>18. CASE \E ui \in Uis : CopyPlugin(t, ui)
  <2>1. PICK ui \in Uis : CopyPlugin(t, ui)
    BY <1>18
  <2>2. /\ At(t, ui) /\ Pop(t) /\ UNCHANGED <<binds, tools, session>>
        /\ menu' = [menu EXCEPT !.ui = ui] /\ saved' = [saved EXCEPT !.ui[Profile(t)] = ui]
    BY <2>1 DEF CopyPlugin
  <2>3. menu'.ui = ui /\ menu'.on = menu.on /\ menu'.spaces = menu.spaces /\ menu'.patched = menu.patched
    BY <1>0, <2>2
  <2>4. saved'.ui["Prod"] = ui /\ saved'.hypr = saved.hypr
    BY <1>0, <1>6, <2>2 DEF SavedType, Profiles
  <2> QED
    BY <1>1, <1>2, <1>3, <1>7, <2>2, <2>3, <2>4 DEF DoctorRun, DoneWith, Uis
<1>19. CASE Enable(t)
  <2>1. /\ At(t, "enable") /\ Pop(t) /\ UNCHANGED <<binds, tools, saved, session>>
        /\ menu'.on /\ ~menu'.spaces /\ menu'.ui = menu.ui /\ menu'.patched = menu.patched
    BY <1>0, <1>19 DEF Enable
  <2> QED
    BY <1>1, <1>2, <1>3, <1>7, <2>1 DEF DoctorRun, DoneWith
<1>20. CASE PatchMenu(t)
  <2>1. /\ At(t, "patchMenu") /\ Pop(t) /\ UNCHANGED <<binds, tools, saved, session>>
        /\ menu'.patched /\ menu'.ui = menu.ui /\ menu'.on = menu.on /\ menu'.spaces = menu.spaces
    BY <1>0, <1>20 DEF PatchMenu
  <2> QED
    BY <1>1, <1>2, <1>3, <1>7, <2>1 DEF DoctorRun, DoneWith
<1>21. CASE Systemd(t)
  <2>1. /\ At(t, "systemd") /\ Pop(t) /\ UNCHANGED <<binds, menu, saved>>
        /\ tools'.enabled /\ tools'.schema = tools.schema /\ tools'.openers = tools.openers
        /\ tools'.editor = tools.editor /\ tools'.helper = tools.helper /\ session'.prodUp
    BY <1>0, <1>21 DEF Systemd
  <2> QED
    BY <1>1, <1>2, <1>3, <1>7, <2>1 DEF DoctorRun, DoneWith
<1>22. CASE \E piece \in Helper : Chromium(t, piece)
  <2>1. PICK piece \in Helper : Chromium(t, piece)
    BY <1>22
  <2> DEFINE s == IF piece = "manifest" THEN "helperManifest" ELSE piece
  <2>2. /\ At(t, s) /\ Pop(t) /\ UNCHANGED <<binds, menu, saved, session>>
        /\ tools' = [tools EXCEPT !.helper = @ \cup {piece}]
    BY <2>1 DEF Chromium
  <2>3. s \in {"helperManifest", "extension", "externalJson", "hostJson"} /\ (s = "helperManifest" <=> piece = "manifest")
        /\ (s # "helperManifest" => s = piece)
    BY DEF Helper
  <2>4. /\ tools'.enabled = tools.enabled /\ tools'.schema = tools.schema /\ tools'.openers = tools.openers
        /\ tools'.editor = tools.editor /\ tools'.helper = tools.helper \cup {piece}
    BY <1>0, <2>2
  <2> HIDE DEF s
  <2>5. Step(s) /\ run'[t].backup = run[t].backup
    BY <1>7, <2>2
  <2> QED
    BY <1>1, <1>2, <1>3, <2>2, <2>3, <2>4, <2>5 DEF DoctorRun, DoneWith
\* The other steps are none of an install on Omarchy.
<1>23. \A x \in {"append", "gestures", "pristine", "patchBar", "barManifest", "elephant", "walkerManifest", "barBackup",
                 "patchProd", "dropDevBar", "seed", "restoreBar", "unpatchBar", "dropBar", "loadHypr", "restore",
                 "dropHypr", "disable", "unpatchMenu", "addProd", "removeShare", "stopProd", "mark", "serve", "stopDev", "unmark",
                 "startProd", "readDev", "readProd", "stripDev", "stripProd", "stripDevBlock", "stripProdBlock"} :
           ~At(t, x)
  BY <1>5 DEF OmarchySteps
<1>24. ~(AppendLines(t) \/ Gestures(t) \/ Pristine(t) \/ PatchBar(t) \/ BarManifest(t) \/ Elephant(t)
           \/ WalkerManifest(t) \/ BarBackup(t) \/ PatchProd(t) \/ DropDevBar(t) \/ Seed(t) \/ RestoreBar(t)
           \/ UnpatchBar(t) \/ DropBar(t))
  BY <1>23 DEF AppendLines, Gestures, Pristine, PatchBar, BarManifest, Elephant, WalkerManifest, BarBackup, PatchProd,
               DropDevBar, Seed, RestoreBar, UnpatchBar, DropBar
<1>25. ~(LoadHypr(t) \/ Restore(t) \/ DropHypr(t) \/ Disable(t) \/ UnpatchMenu(t) \/ AddProd(t) \/ RemoveShare(t)
           \/ StopProd(t) \/ Mark(t) \/ Serve(t) \/ StopDev(t) \/ Unmark(t) \/ StartProd(t)
           \/ \E p \in Profiles : ReadConf(t, p) \/ StripConf(t, p) \/ StripBlock(t, p))
  BY <1>23 DEF LoadHypr, Restore, DropHypr, Disable, UnpatchMenu, AddProd, RemoveShare, StopProd, Mark, Serve, StopDev, Unmark,
               StartProd, ReadConf, StripConf, StripBlock
<1> QED
  BY <1>9, <1>10, <1>11, <1>12, <1>13, <1>14, <1>15, <1>16, <1>17, <1>18, <1>19, <1>20, <1>21, <1>22, <1>24, <1>25
     DEF Takings

\* An install that has only its last step left has done everything the doctor asks for.
LEMMA LastStep ==
  ASSUME TypeInv, Marked, DoctorInv, NEW t \in Terminals, Exit(t), run'[t] = Idle,
         ~(Len(run[t].todo) > 1), run[t].name = "install", Omarchy
  PROVE  Doctored'
<1>0. RunsOK /\ run[t] \in Runs /\ At(t, "exit") /\ UNCHANGED <<desk, binds, menu, tools, saved, session>>
  BY DEF TypeInv, RunsOK, Exit
<1>1. Ahead(run[t].todo) = {"exit"}
  <2>1. run[t].todo \in Seq(Steps) /\ run[t].todo # <<>> /\ Head(run[t].todo) = "exit"
    BY <1>0 DEF Runs, At
  <2>2. \A n \in Nat : n # 0 => n > 1 \/ n = 1
    BY SMT
  <2>3. Len(run[t].todo) \in Nat /\ Len(run[t].todo) # 0
    BY <2>1
  <2>4. Len(run[t].todo) = 1
    BY <2>2, <2>3, Zenon
  <2> QED
    BY <2>1, <2>4 DEF Ahead
<1>2. DoctorRun(run[t]) /\ ~session.devUp
  BY DEF DoctorInv, Marked, MarkedRun
<1>3. /\ tools.schema /\ "Prod" \in tools.openers /\ tools.editor \in {"Prod", "own"}
      /\ "Prod" \in Content(binds.lua) /\ (\E b \in saved.hypr["Prod"] : b.text # {})
      /\ menu.ui = saved.ui["Prod"] /\ menu.on /\ ~menu.spaces /\ menu.patched
      /\ session.prodUp /\ tools.enabled /\ Helper \subseteq tools.helper
  BY <1>1, <1>2 DEF DoctorRun, DoneWith, Helper
<1>4. saved.ui["Prod"] \in Uis /\ tools.helper \subseteq Helper
  BY DEF TypeInv, FilesOK, Profiles
<1>5. Bindings = binds.lua
  BY DEF Bindings, Omarchy
<1>6. CheckInstalled /\ CheckKeys /\ CheckSchema /\ CheckHelper
  BY <1>3, <1>5 DEF CheckInstalled, CheckBackup, CheckKeys, CheckSchema, CheckHelper, Helper
<1>7. CheckShell
  BY <1>3, <1>4 DEF CheckShell, Uis
<1>8. CheckDaemon /\ (CheckEditor \/ tools.editor = "own")
  BY <1>2, <1>3 DEF CheckDaemon, CheckEditor
<1>9. Doctored
  BY <1>3, <1>4, <1>6, <1>7, <1>8 DEF Doctored
<1> QED
  BY <1>0, <1>9 DEF Doctored, CheckInstalled, CheckBackup, CheckShell, CheckKeys, CheckSchema, CheckHelper,
     CheckDaemon, CheckEditor, Bindings

LEMMA EndingsDoctor ==
  ASSUME TypeInv, Marked, DoctorInv, LuaThere', NEW t \in Terminals, Endings(t)
  PROVE  DoctorInv'
<1>0. RunsOK
  BY DEF TypeInv
<1>1. Ended(t)
  BY EndingsEnd
<1>2. \A u \in Terminals \ {t} : run'[u].name = run[u].name
  BY <1>1 DEF Ended, Twin
<1>3. run'[t].name # "install"
  <2>1. run[t].tearing => run[t].name # "install"
    BY DEF Marked, MarkedRun
  <2>2. Idle.name # "install"
    BY DEF Idle
  <2> QED
    BY <1>1, <2>1, <2>2 DEF Ended
<1>4. CASE "installed" \in past' => "installed" \in past
  BY <1>1, <1>2, <1>3, <1>4, ElseDoctor DEF Ended
<1>5. CASE Exit(t) /\ run[t].name = "install" /\ run'[t] = Idle
  <2>1. \A u \in Terminals \ {t} : run[u] = Idle /\ run'[u] = run[u]
    <3>1. \A u \in Terminals \ {t} : run[u] = Idle
      BY <1>0, <1>5, AloneInSession
    <3>2. \A u \in Terminals \ {t} : run'[u] = run[u]
      BY <1>0, <1>5 DEF Exit, Pop, PopWith, RunsOK
    <3> QED
      BY <3>1, <3>2
  <2>2. Quiet'
    BY <1>5, <2>1 DEF Quiet
  <2>3. (\A u \in Terminals : run[u].name # "install")'
    BY <1>5, <2>1 DEF Idle
  <2>4. ~(Len(run[t].todo) > 1)
    <3> SUFFICES ASSUME Len(run[t].todo) > 1 PROVE FALSE
      OBVIOUS
    <3>1. At(t, "exit") /\ Pop(t)
      BY <1>5 DEF Exit
    <3>2. run'[t].name = run[t].name
      <4>1. run[t] \in Runs
        BY <1>0 DEF RunsOK
      <4>2. run'[t] = [run[t] EXCEPT !.todo = Tail(@)]
        BY <1>0, <3>1, PlainPop
      <4> QED
        BY <4>1, <4>2 DEF Runs
    <3> QED
      BY <1>3, <1>5, <3>2
  <2>5. Omarchy' => Doctored'
    <3>1. Omarchy' => Omarchy
      BY <1>1 DEF Ended, Omarchy
    <3> QED
      BY <1>5, <2>4, <3>1, LastStep
  <2> QED
    BY <2>2, <2>3, <2>5 DEF DoctorInv
<1> QED
  BY <1>1, <1>4, <1>5 DEF Ended

LEMMA BeginsDoctor ==
  ASSUME TypeInv, DoctorInv, LuaThere', NEW t \in Terminals, Begins(t)
  PROVE  DoctorInv'
<1>0. RunsOK
  BY DEF TypeInv
<1>1. /\ run[t] = Idle /\ past' = {}
      /\ UNCHANGED <<desk, binds, bar, menu, tools, saved, session>>
      /\ \A u \in Terminals \ {t} : run'[u] = run[u]
  BY <1>0, BeginsAlone
<1>2. ASSUME Omarchy, run'[t].name = "install" PROVE DoctorRun(run[t])'
  <2>1. PICK ui \in Uis : run'[t] = Fresh("install", InstallAll(ui), FALSE)
    <3>1. \A todo, tearing : /\ Fresh("devInstall", todo, tearing).name # "install"
                             /\ Fresh("uninstall", todo, tearing).name # "install"
                             /\ Fresh("leave", todo, tearing).name # "install"
                             /\ Fresh("enter", todo, tearing).name # "install"
      BY DEF Fresh, Idle
    <3> QED
      BY <1>0, <1>2, <3>1, BeginsRuns
  <2>2. run'[t].todo = InstallAll(ui)
    BY <2>1 DEF Fresh, Idle
  <2>3. Ahead(run'[t].todo) = InstallSteps(ui)
    BY <2>2, InstallAllSteps
  <2>4. desk.kind = "lua" /\ desk.packaged /\ UNCHANGED desk
    BY <1>1, <1>2 DEF Omarchy
  <2>5. OmarchySteps \ ({"shell", "tui"} \ {ui}) = Ahead(run'[t].todo)
    BY <2>3, <2>4 DEF OmarchySteps, InstallSteps, Uis
  <2>6. (InstallSteps("shell") \cup {"tui"})' = OmarchySteps
    BY <2>4 DEF OmarchySteps, InstallSteps
  <2>7. \A s \in OmarchySteps \ {"shell", "tui"} : s \in Ahead(run'[t].todo)
    BY <2>5
  <2>8. "shell" \in Ahead(run'[t].todo) \/ "tui" \in Ahead(run'[t].todo)
    BY <2>5 DEF OmarchySteps, Uis
  <2> QED
    BY <2>5, <2>6, <2>7, <2>8 DEF DoctorRun, DoneWith, OmarchySteps
<1>3. \A u \in Terminals \ {t} : (Omarchy /\ run[u].name = "install" => DoctorRun(run[u]))'
  <2> SUFFICES ASSUME NEW u \in Terminals \ {t}, Omarchy', run'[u].name = "install" PROVE DoctorRun(run[u])'
    OBVIOUS
  <2>1. Omarchy /\ run[u].name = "install"
    BY <1>1 DEF Omarchy
  <2>2. DoctorRun(run[u])
    BY <2>1 DEF DoctorInv
  <2> QED
    BY <1>1, <2>2 DEF DoctorRun, DoneWith, InstallSteps
<1> QED
  BY <1>1, <1>2, <1>3 DEF DoctorInv, Omarchy

LEMMA StepDoctor == TypeInv /\ Marked /\ DoctorInv /\ [Next]_vars => DoctorInv'
<1> SUFFICES ASSUME TypeInv, Marked, DoctorInv, [Next]_vars PROVE DoctorInv'
  OBVIOUS
<1>0. LuaThere'
  BY StepLua DEF DoctorInv
<1>1. CASE UNCHANGED vars
  <2>1. /\ LuaThere' /\ (Omarchy' <=> Omarchy) /\ (Quiet' <=> Quiet) /\ (Doctored' <=> Doctored)
        /\ run' = run /\ past' = past
    BY <1>0, <1>1 DEF vars, Omarchy, Quiet, Doctored, CheckInstalled, CheckBackup, CheckShell, CheckKeys, CheckSchema,
       CheckHelper, CheckDaemon, CheckEditor, Bindings
  <2>2. ASSUME NEW t \in Terminals, DoctorRun(run[t]) PROVE DoctorRun(run[t])'
    BY <1>1, <2>2 DEF vars, DoctorRun, DoneWith, InstallSteps
  <2> QED
    BY <2>1, <2>2 DEF DoctorInv
<1>2. CASE Next
  <2>1. PICK t \in Terminals : Begins(t) \/ Installs(t) \/ Uninstalls(t) \/ Sessions(t) \/ Fail(t) \/ Kill(t)
    BY <1>2 DEF Next
  <2>2. CASE Takings(t)
    <3>1. PICK s : Taking(t, s)
      BY <2>2, TakingsTake
    <3>2. /\ run[t] # Idle /\ run'[t].name = run[t].name
          /\ \A u \in Terminals \ {t} : run'[u].name = run[u].name
      BY <3>1 DEF Taking
    <3>3. UNCHANGED desk /\ ("installed" \in past' => "installed" \in past)
      BY <2>2, TakingsTake, TakingsPast
    <3> QED
      BY <1>0, <2>2, <3>2, <3>3, ElseDoctor, InstallsDoctor
  <2>3. CASE Detours(t)
    BY <1>0, <2>3, DetoursLeave, ElseDoctor DEF Detoured
  <2> QED
    BY <1>0, <2>1, <2>2, <2>3, KindsOfSteps, BeginsDoctor, EndingsDoctor
<1> QED
  BY <1>1, <1>2

LEMMA InitDoctor == Init => DoctorInv
<1> SUFFICES ASSUME Init PROVE DoctorInv
  OBVIOUS
<1>1. PICK kind \in Desks, packaged \in BOOLEAN, prod \in BOOLEAN, own \in BOOLEAN : Machine(kind, packaged, prod, own)
  BY DEF Init
<1> DEFINE mine == IF prod THEN {"Prod"} ELSE {}
<1>2. desk.kind = kind /\ binds.lua = IF kind = "lua" THEN {mine} ELSE {}
  BY <1>1 DEF Machine
<1> HIDE DEF mine
<1>3. LuaThere
  BY <1>2 DEF LuaThere
<1>4. past = {} /\ \A t \in Terminals : run[t] = Idle
  BY DEF Init
<1>5. Idle.name # "install"
  BY DEF Idle
<1> QED
  BY <1>3, <1>4, <1>5 DEF DoctorInv

\* After a whole `tsk install all` on Omarchy with the package, whatever dev sessions, failures and
\* other commands went before, every check of `tsk doctor` about what is installed passes, and only
\* one daemon serves (run_doctor_checks, the install of main.rs, the session of dev.sh).
THEOREM InstallSatisfiesDoctor == Spec => []DoctorSatisfied
<1>1. TypeInv /\ Marked /\ DoctorInv /\ [Next]_vars => TypeInv' /\ Marked' /\ DoctorInv'
  BY NextTyped, StepMarked, StepDoctor
<1>2. Init => TypeInv /\ Marked /\ DoctorInv
  BY InitTyped, InitMarked, InitDoctor
<1>3. DoctorInv => DoctorSatisfied
  BY DEF DoctorInv, DoctorSatisfied, Omarchy, Doctored
<1> QED
  BY <1>1, <1>2, <1>3, PTL DEF Spec

-----------------------------------------------------------------------------
(* What a whole uninstall or teardown leaves, also with others beside it: a   *)
(* step that takes something of prod's away belongs to a command that still   *)
(* owes its return, and only such a command can come between.                 *)

Tears(r) == r.name \notin {"install", "devInstall"} /\ (r.name = "enter" => r.tearing)
\* Prod had patched Waybar: an uninstall of dev's bar brings prod's back.
BarOurs == desk.packaged /\ saved.bar["Prod"] # {}

\* What is left of an uninstall: whoever restores or strips hyprland.conf looks after prod's line
\* later on; the bar is prod's or the user's, and its two endings do not mix.
TornDown(r) ==
    /\ Tears(r) /\ ("restore" \in Ahead(r.todo) \/ "stripDev" \in Ahead(r.todo)) =>
           "ensureProd" \in Ahead(r.todo) \/ "addProd" \in Ahead(r.todo)
    /\ "addProd" \in Ahead(r.todo) => "dropBar" \notin Ahead(r.todo) /\ "dropDevBar" \notin Ahead(r.todo)
    /\ BarOurs /\ ("restoreBar" \in Ahead(r.todo) \/ "unpatchBar" \in Ahead(r.todo) \/ "dropBar" \in Ahead(r.todo)) =>
           "prodBar" \in Ahead(r.todo)
    /\ ~BarOurs => "patchProd" \notin Ahead(r.todo) /\ "dropDevBar" \notin Ahead(r.todo)
    /\ "restoreBar" \in Ahead(r.todo) => "unpatchBar" \in Ahead(r.todo)
    /\ "detect" \in Ahead(r.todo) =>
           "dropBar" \in Ahead(r.todo) /\ "restoreBar" \in Ahead(r.todo) /\ "patchProd" \notin Ahead(r.todo)
TearInv ==
    /\ saved.pristine["Prod"] # {} => saved.bar["Prod"] # {}
    /\ past # {} => \A t \in Terminals : ~Installing(run[t])
    /\ \A t \in Terminals : TornDown(run[t])

\* Prod's line is in hyprland.conf, or a command will add it, come what may.
Prodded == desk.kind = "lua" \/ saved.hypr["Prod"] = {} \/ "Prod" \in Content(binds.conf)
Owes(r) ==
    /\ "ensureProd" \in Ahead(r.todo) \/ "addProd" \in Ahead(r.todo)
    /\ "dropBar" \notin Ahead(r.todo) /\ "dropDevBar" \notin Ahead(r.todo)
ProdKept == Prodded \/ \E t \in Terminals : Owes(run[t])
LinesLeft ==
    /\ "hypr" \in past => ProdKept
    /\ \A t \in Terminals : run[t].whole /\ "removeShare" \in Ahead(run[t].todo) =>
           ProdKept \/ "ensureProd" \in Ahead(run[t].todo) \/ "addProd" \in Ahead(run[t].todo)

\* The bar is right, or a command is about to make it so.
BarRight == \A b \in bar : IF BarOurs THEN b.tsk = "Prod" ELSE b.tsk = "none" /\ b.stock
OwesBar(r) ==
    IF BarOurs THEN "patchProd" \in Ahead(r.todo)
    ELSE "unpatchBar" \in Ahead(r.todo) /\ "restoreBar" \notin Ahead(r.todo)
BarKept == BarRight \/ \E t \in Terminals : OwesBar(run[t])
BarLeft ==
    /\ "bar" \in past => BarKept
    /\ \A t \in Terminals :
           run[t].whole /\ ("dropBar" \in Ahead(run[t].todo) \/ "dropDevBar" \in Ahead(run[t].todo)) =>
               BarKept \/ IF BarOurs THEN "prodBar" \in Ahead(run[t].todo) ELSE "restoreBar" \in Ahead(run[t].todo)

\* The session is over: no marker, no dev daemon, and prod serves if its unit is enabled.
Over == ~session.marker /\ ~session.devUp /\ (tools.enabled => session.prodUp)
SessionRun(r) ==
    "done" \in Ahead(r.todo) =>
        /\ "unmark" \in Ahead(r.todo) \/ (~session.marker /\ ~session.devUp)
        /\ "startProd" \in Ahead(r.todo) \/ (tools.enabled => session.prodUp)
SessionLeft == ("session" \in past => Over) /\ \A t \in Terminals : SessionRun(run[t])
LeftInv == TearInv /\ LinesLeft /\ BarLeft /\ SessionLeft

\* The detours are steps of their own.
LEMMA TakingsNoDetour ==
  ASSUME NEW t \in Terminals, Takings(t)
  PROVE  ~At(t, "prodBar") /\ ~At(t, "ensureProd") /\ ~At(t, "detect")
<1>1. CASE \/ Main(t) \/ Schema(t) \/ Share(t) \/ Openers(t) \/ Editor(t)
           \/ Backup(t) \/ AppendLines(t) \/ Gestures(t) \/ Block(t) \/ HyprManifest(t)
           \/ Pristine(t) \/ PatchBar(t) \/ BarManifest(t) \/ Elephant(t) \/ WalkerManifest(t)
           \/ Enable(t) \/ PatchMenu(t) \/ Systemd(t)
  BY <1>1 DEF Main, Schema, Share, Openers, Editor, Backup, AppendLines, Gestures, Block, HyprManifest, Pristine,
              PatchBar, BarManifest, Elephant, WalkerManifest, Enable, PatchMenu, Systemd, At
<1>2. CASE \/ PatchProd(t) \/ DropDevBar(t) \/ Seed(t) \/ RestoreBar(t) \/ UnpatchBar(t)
           \/ LoadHypr(t) \/ Restore(t) \/ DropHypr(t)
           \/ Disable(t) \/ UnpatchMenu(t) \/ AddProd(t) \/ RemoveShare(t) \/ StopProd(t) \/ Mark(t) \/ Serve(t)
           \/ StopDev(t) \/ Unmark(t) \/ StartProd(t)
  BY <1>2 DEF PatchProd, DropDevBar, Seed, RestoreBar, UnpatchBar, LoadHypr, Restore, DropHypr, Disable, UnpatchMenu,
              AddProd, RemoveShare, StopProd, Mark, Serve, StopDev, Unmark, StartProd, At
<1>3. CASE \/ (\E ui \in Uis : CopyPlugin(t, ui)) \/ (\E piece \in Helper : Chromium(t, piece))
           \/ \E p \in Profiles : ReadConf(t, p) \/ StripConf(t, p) \/ StripBlock(t, p)
  BY <1>3 DEF CopyPlugin, Chromium, ReadConf, StripConf, StripBlock, Uis, Helper, At
<1>4. CASE \/ (Exit(t) /\ Len(run[t].todo) > 1) \/ (BarBackup(t) /\ bar # {}) \/ (DropBar(t) /\ Known(t))
  BY <1>4 DEF Exit, BarBackup, DropBar, At
<1> QED
  BY <1>1, <1>2, <1>3, <1>4 DEF Takings

\* Nothing of this installer writes prod's backups of the bar; prod's hypr manifest is an install's.
ProdSaved == saved'.bar["Prod"] = saved.bar["Prod"] /\ saved'.pristine["Prod"] = saved.pristine["Prod"]

LEMMA TakingsSave ==
  ASSUME TypeInv, NEW t \in Terminals, Takings(t)
  PROVE  /\ ProdSaved
         /\ ~Installing(run[t]) => saved'.hypr["Prod"] = saved.hypr["Prod"]
<1>0. saved \in SavedType /\ RunsOK
  BY DEF TypeInv, FilesOK, SavedType
<1> DEFINE Same == ProdSaved /\ saved'.hypr["Prod"] = saved.hypr["Prod"]
<1>1. CASE UNCHANGED saved
  BY <1>1 DEF ProdSaved
<1>2. CASE \/ Main(t) \/ Schema(t) \/ Share(t) \/ Openers(t) \/ Editor(t)
           \/ Backup(t) \/ AppendLines(t) \/ Gestures(t) \/ Block(t) \/ PatchBar(t) \/ Elephant(t)
           \/ Enable(t) \/ PatchMenu(t) \/ Systemd(t)
  BY <1>1, <1>2 DEF Main, Schema, Share, Openers, Editor, Backup, AppendLines, Gestures, Block, PatchBar,
              Elephant, Enable, PatchMenu, Systemd
<1>3. CASE \/ PatchProd(t) \/ RestoreBar(t) \/ UnpatchBar(t) \/ LoadHypr(t) \/ Restore(t)
           \/ Disable(t) \/ UnpatchMenu(t) \/ AddProd(t) \/ RemoveShare(t) \/ StopProd(t) \/ Mark(t) \/ Serve(t)
           \/ StopDev(t) \/ Unmark(t) \/ StartProd(t)
  BY <1>1, <1>3 DEF PatchProd, RestoreBar, UnpatchBar, LoadHypr, Restore, Disable, UnpatchMenu, AddProd,
              RemoveShare, StopProd, Mark, Serve, StopDev, Unmark, StartProd
<1>4. CASE \/ (\E piece \in Helper : Chromium(t, piece)) \/ (Exit(t) /\ Len(run[t].todo) > 1)
           \/ \E p \in Profiles : ReadConf(t, p) \/ StripConf(t, p) \/ StripBlock(t, p)
  BY <1>1, <1>4 DEF Chromium, Exit, ReadConf, StripConf, StripBlock
<1>5. CASE DropDevBar(t) \/ Seed(t) \/ (DropBar(t) /\ Known(t)) \/ BarManifest(t) \/ Pristine(t)
  BY <1>0, <1>5 DEF DropDevBar, Seed, DropBar, BarManifest, Pristine, ProdSaved, SavedType, Profiles
<1>6. CASE BarBackup(t) /\ bar # {}
  BY <1>0, <1>6 DEF BarBackup, ProdSaved, SavedType, Profiles
<1>7. CASE WalkerManifest(t) \/ DropHypr(t)
  BY <1>0, <1>7 DEF WalkerManifest, DropHypr, ProdSaved, SavedType, Profiles
<1>8. CASE \E ui \in Uis : CopyPlugin(t, ui)
  BY <1>0, <1>8 DEF CopyPlugin, ProdSaved, SavedType, Profiles
<1>9. CASE HyprManifest(t)
  <2>1. ProdSaved
    BY <1>0, <1>9 DEF HyprManifest, ProdSaved, SavedType
  <2>2. At(t, "hyprManifest") /\ "hyprManifest" \notin Undoing
    BY <1>9 DEF HyprManifest, Undoing, Both
  <2>3. Installing(run[t])
    BY <1>0, <2>2, MustInstall
  <2> QED
    BY <2>1, <2>3
<1> QED
  BY <1>2, <1>3, <1>4, <1>5, <1>6, <1>7, <1>8, <1>9 DEF Takings

\* A step of an undoing command: one of an uninstall, or one that installs and uninstalls share.
Undoes(t) ==
    \/ Main(t) \/ (Exit(t) /\ Len(run[t].todo) > 1) \/ ReadConf(t, "Dev") \/ StripConf(t, "Dev") \/ StripBlock(t, "Dev")
    \/ PatchProd(t) \/ DropDevBar(t) \/ Seed(t) \/ RestoreBar(t) \/ UnpatchBar(t) \/ (DropBar(t) /\ Known(t))
    \/ LoadHypr(t) \/ Restore(t) \/ DropHypr(t) \/ Disable(t) \/ UnpatchMenu(t) \/ AddProd(t) \/ RemoveShare(t)
    \/ StopDev(t) \/ Unmark(t) \/ StartProd(t)

LEMMA UndoingSteps ==
  ASSUME TypeInv, NEW t \in Terminals, Takings(t), ~Installing(run[t])
  PROVE  Undoes(t)
<1>0. RunsOK
  BY DEF TypeInv
<1>1. ASSUME NEW s, At(t, s) PROVE s \in Undoing \cup {"wait"}
  BY <1>0, <1>1, MustInstall
<1>2. ASSUME \/ Schema(t) \/ Share(t) \/ Openers(t) \/ Editor(t)
             \/ Backup(t) \/ AppendLines(t) \/ Gestures(t) \/ Block(t) \/ HyprManifest(t)
             \/ Pristine(t) \/ PatchBar(t) \/ BarManifest(t) \/ Elephant(t) \/ WalkerManifest(t)
             \/ Enable(t) \/ PatchMenu(t) \/ Systemd(t) \/ BarBackup(t) \/ StopProd(t) \/ Mark(t) \/ Serve(t)
      PROVE  FALSE
  <2>1. PICK s \in {"schema", "share", "openers", "editor", "backup", "append", "gestures", "block", "hyprManifest",
                    "pristine", "patchBar", "barManifest", "elephant", "walkerManifest", "enable", "patchMenu",
                    "systemd", "barBackup", "stopProd", "mark", "serve"} : At(t, s)
    BY <1>2 DEF Schema, Share, Openers, Editor, Backup, AppendLines, Gestures, Block, HyprManifest, Pristine,
              PatchBar, BarManifest, Elephant, WalkerManifest, Enable, PatchMenu, Systemd, BarBackup, StopProd, Mark, Serve
  <2>2. s \in Undoing \cup {"wait"}
    BY <1>1, <2>1
  <2> QED
    BY <2>1, <2>2 DEF Undoing, Both
<1>3. ASSUME (\E ui \in Uis : CopyPlugin(t, ui)) \/ (\E piece \in Helper : Chromium(t, piece)) PROVE FALSE
  <2>1. PICK s \in {"shell", "tui", "extension", "externalJson", "hostJson", "helperManifest"} : At(t, s)
    BY <1>3 DEF CopyPlugin, Chromium, Uis, Helper
  <2>2. s \in Undoing \cup {"wait"}
    BY <1>1, <2>1
  <2> QED
    BY <2>1, <2>2 DEF Undoing, Both
<1>4. ASSUME NEW p \in Profiles, ReadConf(t, p) \/ StripConf(t, p) \/ StripBlock(t, p)
      PROVE  p = "Dev"
  <2> SUFFICES ASSUME p # "Dev" PROVE FALSE
    OBVIOUS
  <2>1. PICK s \in {"readProd", "stripProd", "stripProdBlock"} : At(t, s)
    BY <1>4 DEF ReadConf, StripConf, StripBlock
  <2>2. s \in Undoing \cup {"wait"}
    BY <1>1, <2>1
  <2> QED
    BY <2>1, <2>2 DEF Undoing, Both
<1>5. (\E p \in Profiles : ReadConf(t, p) \/ StripConf(t, p) \/ StripBlock(t, p)) =>
          ReadConf(t, "Dev") \/ StripConf(t, "Dev") \/ StripBlock(t, "Dev")
  BY <1>4
<1> QED
  BY <1>2, <1>3, <1>5, Zenon DEF Takings, Undoes

\* Which of the undoing steps change the bindings, the bar and the session.
HyprStep(t) == Restore(t) \/ StripConf(t, "Dev") \/ AddProd(t) \/ RemoveShare(t)
BarStep(t) == PatchProd(t) \/ RestoreBar(t) \/ UnpatchBar(t) \/ DropDevBar(t) \/ (DropBar(t) /\ Known(t))
EndStep(t) == Main(t) \/ StopDev(t) \/ Unmark(t) \/ StartProd(t)
KeepsHypr(t) ==
    /\ binds'.conf = binds.conf /\ ("hypr" \in past' => "hypr" \in past)
    /\ ~At(t, "addProd")
KeepsBar(t) ==
    /\ bar' = bar /\ ("bar" \in past' => "bar" \in past)
    /\ ~At(t, "patchProd") /\ ~At(t, "unpatchBar") /\ ~At(t, "restoreBar")
KeepsSession(t) == UNCHANGED session /\ ~At(t, "unmark") /\ ~At(t, "startProd")

LEMMA UndoingTouches ==
  ASSUME TypeInv, NEW t \in Terminals, Undoes(t)
  PROVE  /\ HyprStep(t) \/ KeepsHypr(t)
         /\ BarStep(t) \/ KeepsBar(t)
         /\ EndStep(t) \/ KeepsSession(t)
         /\ tools'.enabled = tools.enabled
         /\ "session" \in past' => "session" \in past
<1>0. binds \in BindsType
      /\ tools \in [schema : BOOLEAN, devShare : BOOLEAN, openers : SUBSET Profiles,
                    editor : Profiles \cup {"own", "unset"}, helper : SUBSET Helper, enabled : BOOLEAN]
  BY DEF TypeInv, FilesOK, BindsType
<1>1. CASE EndStep(t)
  BY <1>1 DEF EndStep, Main, StopDev, Unmark, StartProd, KeepsHypr, KeepsBar, Pop, PopWith, At
<1>2. CASE Exit(t) /\ Len(run[t].todo) > 1
  BY <1>2 DEF Exit, KeepsHypr, KeepsBar, KeepsSession, Pop, PopWith, At
<1>3. CASE ReadConf(t, "Dev") \/ Seed(t) \/ LoadHypr(t) \/ DropHypr(t) \/ Disable(t) \/ UnpatchMenu(t)
  BY <1>3 DEF ReadConf, Seed, LoadHypr, DropHypr, Disable, UnpatchMenu, KeepsHypr, KeepsBar, KeepsSession, PopWith, Pop, At
<1>4. CASE StripBlock(t, "Dev")
  BY <1>0, <1>4 DEF StripBlock, BindsType, KeepsHypr, KeepsBar, KeepsSession, PopWith, Pop, At
<1>5. CASE PatchProd(t) \/ RestoreBar(t) \/ UnpatchBar(t)
  BY <1>5 DEF PatchProd, RestoreBar, UnpatchBar, BarStep, KeepsHypr, KeepsSession, PopWith, Pop, At
<1>6. CASE DropDevBar(t) \/ (DropBar(t) /\ Known(t))
  BY <1>6 DEF DropDevBar, DropBar, Known, BarStep, KeepsHypr, KeepsSession, Establish, At
<1>7. CASE StripConf(t, "Dev") \/ AddProd(t)
  BY <1>7 DEF StripConf, AddProd, HyprStep, KeepsBar, KeepsSession, PopWith, Pop, At
<1>8. CASE RemoveShare(t)
  BY <1>0, <1>8 DEF RemoveShare, HyprStep, KeepsBar, KeepsSession, Establish, At
<1>9. CASE Restore(t)
  <2>1. UNCHANGED <<past, bar, tools, session>> /\ At(t, "restore")
    BY <1>9, Zenon DEF Restore, PopWith
  <2> QED
    BY <1>9, <2>1 DEF HyprStep, KeepsBar, KeepsSession, At
<1> QED
  BY <1>1, <1>2, <1>3, <1>4, <1>5, <1>6, <1>7, <1>8, <1>9 DEF Undoes, EndStep

\* What every step of an undoing command leaves.
Undone(t, s) ==
    /\ Taking(t, s) /\ Undoes(t) /\ Tears(run[t]) /\ run'[t] \in Runs /\ s \in Ahead(run[t].todo)
    /\ s \notin {"prodBar", "ensureProd", "detect", "stopProd"}
    /\ UNCHANGED desk /\ ProdSaved /\ saved'.hypr["Prod"] = saved.hypr["Prod"]
    /\ BarOurs' <=> BarOurs

LEMMA TakingsUndone ==
  ASSUME TypeInv, NEW t \in Terminals, Takings(t), ~Installing(run[t])
  PROVE  \E s : Undone(t, s)
<1>0. RunsOK /\ run[t] \in Runs /\ run'[t] \in Runs
  <2>1. TypeInv'
    <3>1. Next
      BY DEF Takings, Next, Installs, Uninstalls, Sessions
    <3> QED
      BY <3>1, NextTyped
  <2> QED
    BY <2>1 DEF TypeInv, RunsOK
<1>1. PICK s : Taking(t, s)
  BY TakingsTake
<1>2. At(t, s) /\ s # "wait" /\ s \in Ahead(run[t].todo) /\ s \in Scope(run[t])
  BY <1>1 DEF Taking
<1>3. Tears(run[t])
  BY <1>2 DEF Installing, Busy, Waits, At, Tears
<1>4. s \notin {"prodBar", "ensureProd", "detect"}
  BY <1>2, TakingsNoDetour
<1>5. Undoes(t) /\ UNCHANGED desk /\ ProdSaved /\ saved'.hypr["Prod"] = saved.hypr["Prod"]
  BY UndoingSteps, TakingsTake, TakingsSave
<1>6. s # "stopProd"
  BY <1>2, <1>3 DEF Scope, Tears, Undoing, Both
<1>7. BarOurs' <=> BarOurs
  BY <1>5 DEF BarOurs, ProdSaved
<1> QED
  BY <1>0, <1>1, <1>2, <1>3, <1>4, <1>5, <1>6, <1>7 DEF Undone

\* An uninstall stays what it was, whichever of its steps it takes.
LEMMA UndoneTorn ==
  ASSUME NEW t \in Terminals, NEW s, Undone(t, s), TornDown(run[t])
  PROVE  TornDown(run[t])'
<1>1. /\ Ahead(run[t].todo) = Ahead(run'[t].todo) \cup {s}
      /\ \A x \in Ahead(run'[t].todo) : Earlier(s, x)
      /\ run'[t].name = run[t].name /\ run'[t].tearing = run[t].tearing
      /\ s \notin {"prodBar", "ensureProd", "detect", "stopProd"}
      /\ BarOurs' <=> BarOurs
  BY DEF Undone, Taking
<1>2. /\ ~Earlier("addProd", "restore") /\ ~Earlier("addProd", "stripDev")
      /\ ~Earlier("unpatchBar", "restoreBar") /\ ~Earlier("dropBar", "detect") /\ ~Earlier("restoreBar", "detect")
  BY Ranks DEF Earlier
<1>3. /\ s = "addProd" => "restore" \notin Ahead(run'[t].todo) /\ "stripDev" \notin Ahead(run'[t].todo)
      /\ s = "unpatchBar" => "restoreBar" \notin Ahead(run'[t].todo)
      /\ s = "dropBar" \/ s = "restoreBar" => "detect" \notin Ahead(run'[t].todo)
  BY <1>1, <1>2
<1> DEFINE A == Ahead(run[t].todo)
           B == Ahead(run'[t].todo)
<1>4. A = B \cup {s}
  BY <1>1
<1>5. Tears(run[t])' <=> Tears(run[t])
  BY <1>1 DEF Tears
<1> HIDE DEF A, B
<1>6. /\ Tears(run[t]) /\ ("restore" \in A \/ "stripDev" \in A) => "ensureProd" \in A \/ "addProd" \in A
      /\ "addProd" \in A => "dropBar" \notin A /\ "dropDevBar" \notin A
      /\ BarOurs /\ ("restoreBar" \in A \/ "unpatchBar" \in A \/ "dropBar" \in A) => "prodBar" \in A
      /\ ~BarOurs => "patchProd" \notin A /\ "dropDevBar" \notin A
      /\ "restoreBar" \in A => "unpatchBar" \in A
      /\ "detect" \in A => "dropBar" \in A /\ "restoreBar" \in A /\ "patchProd" \notin A
  BY DEF TornDown, A
<1>7. /\ s = "addProd" => "restore" \notin B /\ "stripDev" \notin B
      /\ s = "unpatchBar" => "restoreBar" \notin B
      /\ s = "dropBar" \/ s = "restoreBar" => "detect" \notin B
  BY <1>3 DEF B
<1>8. /\ Tears(run[t])' /\ ("restore" \in B \/ "stripDev" \in B) => "ensureProd" \in B \/ "addProd" \in B
      /\ "addProd" \in B => "dropBar" \notin B /\ "dropDevBar" \notin B
      /\ BarOurs' /\ ("restoreBar" \in B \/ "unpatchBar" \in B \/ "dropBar" \in B) => "prodBar" \in B
      /\ ~BarOurs' => "patchProd" \notin B /\ "dropDevBar" \notin B
      /\ "restoreBar" \in B => "unpatchBar" \in B
      /\ "detect" \in B => "dropBar" \in B /\ "restoreBar" \in B /\ "patchProd" \notin B
  BY <1>1, <1>4, <1>5, <1>6, <1>7
<1> QED
  BY <1>8 DEF TornDown, B

\* Three steps of undoing commands say what has been established.
LEMMA TakingsKeepPast ==
  ASSUME NEW t \in Terminals, Takings(t), ~DropDevBar(t), ~DropBar(t), ~RemoveShare(t)
  PROVE  UNCHANGED past
<1>1. CASE \/ Main(t) \/ Schema(t) \/ Share(t) \/ Openers(t) \/ Editor(t)
           \/ Backup(t) \/ AppendLines(t) \/ Gestures(t) \/ Block(t) \/ HyprManifest(t)
           \/ Pristine(t) \/ PatchBar(t) \/ BarManifest(t) \/ Elephant(t) \/ WalkerManifest(t)
           \/ Enable(t) \/ PatchMenu(t) \/ Systemd(t)
  BY <1>1 DEF Main, Schema, Share, Openers, Editor, Backup, AppendLines, Gestures, Block, HyprManifest, Pristine,
              PatchBar, BarManifest, Elephant, WalkerManifest, Enable, PatchMenu, Systemd, Pop, PopWith
<1>2. CASE \/ PatchProd(t) \/ Seed(t) \/ RestoreBar(t) \/ UnpatchBar(t) \/ DropHypr(t)
           \/ Disable(t) \/ UnpatchMenu(t) \/ AddProd(t) \/ StopProd(t) \/ Mark(t) \/ Serve(t) \/ StopDev(t)
           \/ Unmark(t) \/ StartProd(t)
  BY <1>2 DEF PatchProd, Seed, RestoreBar, UnpatchBar, DropHypr, Disable, UnpatchMenu, AddProd,
              StopProd, Mark, Serve, StopDev, Unmark, StartProd, Pop, PopWith
<1>3. CASE \/ (\E ui \in Uis : CopyPlugin(t, ui)) \/ (\E piece \in Helper : Chromium(t, piece))
           \/ \E p \in Profiles : ReadConf(t, p) \/ StripConf(t, p) \/ StripBlock(t, p)
  BY <1>3 DEF CopyPlugin, Chromium, ReadConf, StripConf, StripBlock, Pop, PopWith
<1>4. CASE (Exit(t) /\ Len(run[t].todo) > 1) \/ (BarBackup(t) /\ bar # {})
  BY <1>4 DEF Exit, BarBackup, Pop, PopWith
<1>5. CASE LoadHypr(t) \/ Restore(t)
  BY <1>5, Zenon DEF LoadHypr, Restore, PopWith
<1> QED
  BY <1>1, <1>2, <1>3, <1>4, <1>5 DEF Takings

\* Nothing has been established beside an install, and it establishes nothing before its end.
LEMMA InstallsPast ==
  ASSUME TypeInv, TearInv, NEW t \in Terminals, Takings(t), Installing(run[t])
  PROVE  past' = {}
<1>1. PICK s : Taking(t, s)
  BY TakingsTake
<1>2. At(t, s) /\ s \in Scope(run[t])
  BY <1>1 DEF Taking
<1>3. s \in Doing
  BY <1>2 DEF Installing, Busy, Scope
<1>4. ~DropDevBar(t) /\ ~DropBar(t) /\ ~RemoveShare(t)
  BY <1>2, <1>3 DEF DropDevBar, DropBar, RemoveShare, At, Doing, Both
<1>5. past = {}
  BY DEF TearInv
<1> QED
  BY <1>4, <1>5, TakingsKeepPast

\* What an install leaves: it is alone, and nothing has been established beside it.
LEMMA TakingsOfInstalls ==
  ASSUME TypeInv, TearInv, NEW t \in Terminals, Takings(t), Installing(run[t])
  PROVE  LeftInv'
<1>0. RunsOK /\ run[t] \in Runs /\ Good(run[t])
  BY DEF TypeInv, RunsOK, Shape
<1>1. PICK s : Taking(t, s)
  BY TakingsTake
<1>2. /\ run[t] # Idle /\ run'[t].name = run[t].name /\ run'[t].tearing = run[t].tearing
      /\ Ahead(run'[t].todo) \subseteq Ahead(run[t].todo)
      /\ \A u \in Terminals \ {t} : run'[u] = run[u]
      /\ At(t, s) /\ s \in Scope(run[t]) /\ s # "wait"
  BY <1>1 DEF Taking
<1>3. Scope(run[t]) \subseteq Doing /\ ~Tears(run[t])
  BY DEF Installing, Busy, Scope, Tears
<1>4. Ahead(run'[t].todo) \subseteq Doing
  BY <1>0, <1>2, <1>3 DEF Good
<1>5. \A u \in Terminals \ {t} : run'[u] = Idle
  BY <1>0, <1>2, TwoModes
<1>7. past' = {}
  BY InstallsPast
<1>8. saved'.pristine["Prod"] # {} => saved'.bar["Prod"] # {}
  BY TakingsSave DEF ProdSaved, TearInv
<1>9. Ahead(Idle.todo) = {} /\ "restore" \notin Doing /\ "addProd" \notin Doing /\ "restoreBar" \notin Doing
      /\ "unpatchBar" \notin Doing /\ "dropBar" \notin Doing /\ "patchProd" \notin Doing /\ "dropDevBar" \notin Doing
      /\ "detect" \notin Doing /\ "removeShare" \notin Doing /\ "done" \notin Doing
  BY IdleSafe DEF Doing, Both
<1>10. ASSUME NEW u \in Terminals
       PROVE  /\ TornDown(run[u])' /\ "removeShare" \notin Ahead(run'[u].todo) /\ "dropBar" \notin Ahead(run'[u].todo)
              /\ "dropDevBar" \notin Ahead(run'[u].todo) /\ "done" \notin Ahead(run'[u].todo)
  <2>1. CASE u = t
    <3>1. ~Tears(run'[t])
      BY <1>2, <1>3 DEF Tears
    <3> QED
      BY <1>4, <1>9, <2>1, <3>1 DEF TornDown, Tears
  <2>2. CASE u # t
    <3>1. Ahead(run'[u].todo) = {}
      BY <1>5, <1>9, <2>2
    <3> QED
      BY <3>1 DEF TornDown
  <2> QED
    BY <2>1, <2>2
<1> QED
  BY <1>7, <1>8, <1>10 DEF LeftInv, TearInv, LinesLeft, BarLeft, SessionLeft, SessionRun

LEMMA UndoneTear ==
  ASSUME TypeInv, TearInv, NEW t \in Terminals, NEW s, Undone(t, s), ~Installing(run[t])
  PROVE  TearInv'
<1>0. RunsOK
  BY DEF TypeInv
<1>1. /\ \A u \in Terminals \ {t} : run'[u] = run[u]
      /\ run[t] # Idle /\ (BarOurs' <=> BarOurs)
  BY DEF Undone, Taking
<1>a. ProdSaved
  BY DEF Undone
<1>b. run'[t].name = run[t].name /\ Tears(run[t])
  BY DEF Undone, Taking
<1>c. run'[t].tearing = run[t].tearing
  BY DEF Undone, Taking
<1>2. \A u \in Terminals \ {t} : TornDown(run[u])'
  BY <1>1 DEF TearInv, TornDown, Tears
<1>3. TornDown(run[t])'
  BY UndoneTorn DEF TearInv
<1>4. \A u \in Terminals : ~Installing(run'[u])
  <2>1. ~Installing(run'[t])
    <3>1. CASE run[t].name = "enter"
      <4>1. run'[t].name = "enter" /\ run'[t].tearing
        BY <1>b, <1>c, <3>1, Zenon DEF Tears
      <4> QED
        BY <4>1 DEF Installing
    <3>2. CASE run[t].name # "enter"
      <4>1. run'[t].name \notin {"install", "devInstall", "enter"}
        BY <1>b, <3>2, Zenon DEF Tears
      <4> QED
        BY <4>1 DEF Installing, Busy
    <3> QED
      BY <3>1, <3>2
  <2>2. \A u \in Terminals \ {t} : ~Installing(run'[u])
    BY <1>0, <1>1, TwoModes
  <2> QED
    BY <2>1, <2>2
<1>5. (saved.pristine["Prod"] # {} => saved.bar["Prod"] # {})'
  BY <1>a DEF TearInv, ProdSaved
<1>6. (\A u \in Terminals : ~Installing(run[u]))'
  BY <1>4 DEF Installing, Busy, Waits
<1>7. (\A u \in Terminals : TornDown(run[u]))'
  BY <1>2, <1>3
<1> QED
  BY <1>5, <1>6, <1>7 DEF TearInv

\* Prod's line is kept as long as nobody takes it away who does not owe it.
LEMMA UndoneLines ==
  ASSUME TypeInv, TearInv, LinesLeft, NEW t \in Terminals, NEW s, Undone(t, s)
  PROVE  LinesLeft'
<1>0. binds \in BindsType /\ run[t] \in Runs
  BY DEF TypeInv, FilesOK, BindsType, RunsOK
<1>1. /\ \A u \in Terminals \ {t} : run'[u] = run[u]
      /\ Ahead(run[t].todo) = Ahead(run'[t].todo) \cup {s}
      /\ \A x \in Ahead(run'[t].todo) : Earlier(s, x)
      /\ s \notin {"prodBar", "ensureProd", "detect"}
      /\ At(t, s) /\ UNCHANGED desk /\ saved'.hypr["Prod"] = saved.hypr["Prod"]
  BY DEF Undone, Taking
<1>2. run'[t].whole = run[t].whole
  BY DEF Undone, Taking
<1>3. TornDown(run[t]) /\ Tears(run[t])
  BY DEF TearInv, Undone
<1>4. HyprStep(t) \/ KeepsHypr(t)
  BY UndoingTouches DEF Undone
<1> DEFINE A == Ahead(run[t].todo)
           B == Ahead(run'[t].todo)
<1>5. A = B \cup {s} /\ \A x \in B : Earlier(s, x)
  BY <1>1
<1>6. ASSUME NEW x, At(t, x) PROVE x = s
  BY <1>1, <1>6 DEF At
<1>7. (Owes(run[t]) /\ s # "addProd") => Owes(run[t])'
  BY <1>1 DEF Owes
<1>8. \A u \in Terminals \ {t} : Owes(run[u]) => Owes(run[u])'
  BY <1>1 DEF Owes
\* The line itself stays, or is there now.
<1>9. ASSUME binds'.conf = binds.conf, s # "addProd" PROVE ProdKept => ProdKept'
  <2>1. Prodded => Prodded'
    BY <1>1, <1>9 DEF Prodded
  <2> QED
    BY <1>7, <1>8, <1>9, <2>1 DEF ProdKept
<1>10. ASSUME ProdKept => ProdKept', "hypr" \in past' => "hypr" \in past, ProdKept' \/ s # "addProd"
       PROVE  LinesLeft'
  <2>1. ASSUME NEW u \in Terminals, run'[u].whole, "removeShare" \in Ahead(run'[u].todo)
        PROVE  ProdKept' \/ "ensureProd" \in Ahead(run'[u].todo) \/ "addProd" \in Ahead(run'[u].todo)
    <3>1. run[u].whole /\ "removeShare" \in Ahead(run[u].todo)
      BY <1>1, <1>2, <2>1
    <3>2. ProdKept \/ "ensureProd" \in Ahead(run[u].todo) \/ "addProd" \in Ahead(run[u].todo)
      BY <3>1 DEF LinesLeft
    <3> QED
      BY <1>1, <1>10, <3>2
  <2>2. ("hypr" \in past => ProdKept)'
    BY <1>10 DEF LinesLeft
  <2> QED
    BY <2>1, <2>2 DEF LinesLeft
<1>11. CASE KeepsHypr(t)
  <2>1. s # "addProd" /\ binds'.conf = binds.conf /\ ("hypr" \in past' => "hypr" \in past)
    BY <1>1, <1>11 DEF KeepsHypr
  <2> QED
    BY <1>9, <1>10, <2>1
<1>12. CASE Restore(t) \/ StripConf(t, "Dev")
  <2>1. s \in {"restore", "stripDev"}
    <3>1. At(t, "restore") \/ At(t, "stripDev")
      BY <1>12 DEF Restore, StripConf
    <3> QED
      BY <1>6, <3>1
  <2>2. UNCHANGED past
    BY <1>12, Zenon DEF Restore, StripConf, PopWith
  <2>3. "ensureProd" \in A \/ "addProd" \in A
    BY <1>3, <1>5, <2>1 DEF TornDown
  <2>4. ~Earlier("restore", "dropBar") /\ ~Earlier("restore", "dropDevBar")
        /\ ~Earlier("stripDev", "dropBar") /\ ~Earlier("stripDev", "dropDevBar")
    BY Ranks DEF Earlier
  <2>5. Owes(run[t])'
    BY <1>5, <2>1, <2>3, <2>4 DEF Owes
  <2>6. ProdKept'
    BY <2>5 DEF ProdKept
  <2> QED
    BY <1>10, <2>2, <2>6
<1>13. CASE AddProd(t)
  <2>1. binds'.conf = {Content(binds.conf) \cup {"Prod"}} /\ UNCHANGED <<tools, past>>
    BY <1>0, <1>13 DEF AddProd, BindsType, Pop, PopWith
  <2>2. "Prod" \in Content(binds'.conf)
    BY <2>1 DEF Content
  <2>3. ProdKept'
    BY <2>2 DEF ProdKept, Prodded
  <2> QED
    BY <1>10, <2>1, <2>3
<1>14. CASE RemoveShare(t)
  <2>1. s = "removeShare" /\ UNCHANGED binds
    BY <1>6, <1>14 DEF RemoveShare
  <2>3. past' = IF run[t].whole THEN past \cup {"hypr"} ELSE past
    BY <1>14 DEF RemoveShare, Establish
  <2>4. ProdKept => ProdKept'
    BY <1>9, <2>1
  <2>5. ~Earlier("removeShare", "ensureProd") /\ ~Earlier("removeShare", "addProd")
    BY Ranks DEF Earlier
  <2>6. run[t].whole => ProdKept
    BY <1>5, <2>1, <2>5 DEF LinesLeft
  <2>7. "hypr" \in past' => ProdKept'
    BY <2>3, <2>4, <2>6 DEF LinesLeft
  <2>8. ASSUME NEW u \in Terminals, run'[u].whole, "removeShare" \in Ahead(run'[u].todo)
        PROVE  ProdKept' \/ "ensureProd" \in Ahead(run'[u].todo) \/ "addProd" \in Ahead(run'[u].todo)
    <3>1. run[u].whole /\ "removeShare" \in Ahead(run[u].todo)
      BY <1>1, <1>2, <2>8
    <3>2. ProdKept \/ "ensureProd" \in Ahead(run[u].todo) \/ "addProd" \in Ahead(run[u].todo)
      BY <3>1 DEF LinesLeft
    <3> QED
      BY <1>1, <2>1, <2>4, <3>2
  <2> QED
    BY <2>7, <2>8 DEF LinesLeft
<1> QED
  BY <1>4, <1>11, <1>12, <1>13, <1>14 DEF HyprStep

\* The bar stays right, or becomes so, as long as nobody changes it who does not put it right.
LEMMA UndoneBar ==
  ASSUME TypeInv, TearInv, BarLeft, NEW t \in Terminals, NEW s, Undone(t, s)
  PROVE  BarLeft'
<1>1. /\ \A u \in Terminals \ {t} : run'[u] = run[u]
      /\ Ahead(run[t].todo) = Ahead(run'[t].todo) \cup {s}
      /\ \A x \in Ahead(run'[t].todo) : Earlier(s, x)
      /\ s \notin {"prodBar", "ensureProd", "detect", "stopProd"} /\ s \notin Ahead(run'[t].todo)
      /\ At(t, s) /\ (BarOurs' <=> BarOurs)
  BY DEF Undone, Taking
<1>2. run'[t].whole = run[t].whole
  BY DEF Undone, Taking
<1>3. TornDown(run[t])
  BY DEF TearInv
<1>4. BarStep(t) \/ KeepsBar(t)
  BY UndoingTouches DEF Undone
<1> DEFINE A == Ahead(run[t].todo)
           B == Ahead(run'[t].todo)
<1>5. A = B \cup {s} /\ (\A x \in B : Earlier(s, x)) /\ s \notin B
  BY <1>1
<1>6. ASSUME NEW x, At(t, x) PROVE x = s
  BY <1>1, <1>6 DEF At
<1>7. OwesBar(run[t]) /\ s # "patchProd" /\ s # "unpatchBar" => OwesBar(run[t])'
  BY <1>1 DEF OwesBar
<1>8. \A u \in Terminals \ {t} : OwesBar(run[u]) => OwesBar(run[u])'
  BY <1>1 DEF OwesBar
<1>9. ASSUME bar' = bar, s # "patchProd", s # "unpatchBar" PROVE BarKept => BarKept'
  <2>1. BarRight => BarRight'
    BY <1>1, <1>9 DEF BarRight
  <2> QED
    BY <1>7, <1>8, <1>9, <2>1 DEF BarKept
<1>10. ASSUME BarKept => BarKept', BarKept' \/ s # "restoreBar", "bar" \in past' => "bar" \in past \/ BarKept'
       PROVE  BarLeft'
  <2>1. ASSUME NEW u \in Terminals, run'[u].whole,
               "dropBar" \in Ahead(run'[u].todo) \/ "dropDevBar" \in Ahead(run'[u].todo)
        PROVE  BarKept' \/ IF BarOurs' THEN "prodBar" \in Ahead(run'[u].todo)
                           ELSE "restoreBar" \in Ahead(run'[u].todo)
    <3>1. run[u].whole /\ ("dropBar" \in Ahead(run[u].todo) \/ "dropDevBar" \in Ahead(run[u].todo))
      BY <1>1, <1>2, <2>1
    <3>2. BarKept \/ IF BarOurs THEN "prodBar" \in Ahead(run[u].todo) ELSE "restoreBar" \in Ahead(run[u].todo)
      BY <3>1 DEF BarLeft
    <3> QED
      BY <1>1, <1>10, <3>2
  <2>2. "bar" \in past' => BarKept'
    BY <1>10 DEF BarLeft
  <2> QED
    BY <2>1, <2>2 DEF BarLeft
<1>11. CASE KeepsBar(t)
  <2>1. s # "patchProd" /\ s # "unpatchBar" /\ s # "restoreBar" /\ bar' = bar /\ ("bar" \in past' => "bar" \in past)
    BY <1>1, <1>11 DEF KeepsBar
  <2> QED
    BY <1>9, <1>10, <2>1
<1>12. CASE PatchProd(t)
  <2>1. s = "patchProd" /\ bar' = Patched("Prod") /\ UNCHANGED past
    BY <1>6, <1>12 DEF PatchProd, Pop, PopWith
  <2>2. BarOurs'
    BY <1>1, <1>3, <1>5, <2>1 DEF TornDown
  <2>3. BarKept'
    BY <2>1, <2>2 DEF BarKept, BarRight, Patched
  <2> QED
    BY <1>10, <2>1, <2>3
<1>13. CASE RestoreBar(t)
  <2>1. s = "restoreBar" /\ UNCHANGED past
    BY <1>6, <1>13 DEF RestoreBar, PopWith
  <2>2. ~Earlier("restoreBar", "prodBar")
    BY Ranks DEF Earlier
  <2>3. ~BarOurs'
    BY <1>1, <1>3, <1>5, <2>1, <2>2 DEF TornDown
  <2>4. "unpatchBar" \in B /\ "restoreBar" \notin B
    BY <1>3, <1>5, <2>1 DEF TornDown
  <2>5. OwesBar(run[t])'
    BY <2>3, <2>4 DEF OwesBar
  <2>6. BarKept'
    BY <2>5 DEF BarKept
  <2> QED
    BY <1>10, <2>1, <2>6
<1>14. CASE UnpatchBar(t)
  <2>1. s = "unpatchBar" /\ bar' = {[tsk |-> "none", stock |-> TRUE] : b \in bar} /\ UNCHANGED past
    BY <1>6, <1>14 DEF UnpatchBar, Pop, PopWith
  <2>2. ~Earlier("unpatchBar", "prodBar")
    BY Ranks DEF Earlier
  <2>3. ~BarOurs'
    BY <1>1, <1>3, <1>5, <2>1, <2>2 DEF TornDown
  <2>4. BarKept'
    BY <2>1, <2>3 DEF BarKept, BarRight
  <2> QED
    BY <1>10, <2>1, <2>4
<1>15. CASE DropDevBar(t) \/ (DropBar(t) /\ Known(t))
  <2>1. s \in {"dropDevBar", "dropBar"} /\ bar' = bar
    <3>1. At(t, "dropDevBar") \/ At(t, "dropBar")
      BY <1>15 DEF DropDevBar, DropBar
    <3>2. bar' = bar
      BY <1>15 DEF DropDevBar, DropBar, Known
    <3> QED
      BY <1>6, <3>1, <3>2
  <2>2. "bar" \in past' => "bar" \in past \/ run[t].whole
    BY <1>15 DEF DropDevBar, DropBar, Known, Establish
  <2>3. BarKept => BarKept'
    BY <1>9, <2>1
  <2>4. ~Earlier("dropDevBar", "prodBar") /\ ~Earlier("dropBar", "prodBar") /\ ~Earlier("dropBar", "restoreBar")
    BY Ranks DEF Earlier
  <2>5. "prodBar" \notin A /\ (s = "dropBar" => "restoreBar" \notin A) /\ (s = "dropDevBar" => BarOurs)
    BY <1>3, <1>5, <2>1, <2>4 DEF TornDown
  <2>6. run[t].whole => BarKept
    BY <1>5, <2>1, <2>5 DEF BarLeft
  <2> QED
    BY <1>10, <2>1, <2>2, <2>3, <2>6 DEF BarLeft
<1> QED
  BY <1>4, <1>11, <1>12, <1>13, <1>14, <1>15 DEF BarStep

\* A teardown stops the daemon, removes the marker and starts prod's daemon before it is done.
LEMMA UndoneSession ==
  ASSUME TypeInv, Marked, SessionLeft, NEW t \in Terminals, NEW s, Undone(t, s)
  PROVE  SessionLeft'
<1>0. /\ RunsOK
      /\ session \in [marker : BOOLEAN, prodUp : BOOLEAN, devUp : BOOLEAN, noted : BOOLEAN]
  BY DEF TypeInv, FilesOK
<1>1. /\ \A u \in Terminals \ {t} : run'[u] = run[u]
      /\ Ahead(run[t].todo) = Ahead(run'[t].todo) \cup {s}
      /\ At(t, s)
  BY DEF Undone, Taking
<1>2. EndStep(t) \/ KeepsSession(t)
  BY UndoingTouches DEF Undone
<1>3. tools'.enabled = tools.enabled
  BY UndoingTouches DEF Undone
<1>4. "session" \in past' => "session" \in past
  BY UndoingTouches DEF Undone
<1>5. ASSUME NEW x, At(t, x) PROVE x = s
  BY <1>1, <1>5 DEF At
<1>6. /\ session'.marker => session.marker
      /\ session'.devUp => session.devUp
      /\ session.prodUp => session'.prodUp
  BY <1>0, <1>2 DEF EndStep, KeepsSession, Main, StopDev, Unmark, StartProd
<1>7. SessionRun(run[t])'
  <2> SUFFICES ASSUME "done" \in Ahead(run'[t].todo) PROVE SessionRun(run[t])'
    BY DEF SessionRun
  <2>1. /\ "unmark" \in Ahead(run[t].todo) \/ (~session.marker /\ ~session.devUp)
        /\ "startProd" \in Ahead(run[t].todo) \/ (tools.enabled => session.prodUp)
    BY <1>1 DEF SessionLeft, SessionRun
  <2>2. s = "unmark" => ~session'.marker /\ ~session'.devUp
    <3> SUFFICES ASSUME s = "unmark" PROVE ~session'.marker /\ ~session'.devUp
      OBVIOUS
    <3>1. Unmark(t)
      <4>1. ~At(t, "main") /\ ~At(t, "stopDev") /\ ~At(t, "startProd")
        BY <1>1 DEF At
      <4> QED
        BY <1>1, <1>2, <4>1 DEF EndStep, KeepsSession, Main, StopDev, StartProd
    <3>2. "stopDev" \notin Ahead(run[t].todo)
      BY <1>0, <1>5, StopsFirst
    <3>3. ~session.devUp
      BY <1>1, <3>2 DEF Marked, MarkedRun
    <3> QED
      BY <1>0, <1>6, <3>1, <3>3 DEF Unmark
  <2>3. s = "startProd" => (tools'.enabled => session'.prodUp)
    <3> SUFFICES ASSUME s = "startProd", tools.enabled PROVE session'.prodUp
      BY <1>3
    <3>1. StartProd(t)
      <4>1. ~At(t, "main") /\ ~At(t, "stopDev") /\ ~At(t, "unmark")
        BY <1>1 DEF At
      <4> QED
        BY <1>1, <1>2, <4>1 DEF EndStep, KeepsSession, Main, StopDev, Unmark
    <3> QED
      BY <1>0, <3>1 DEF StartProd
  <2>4. "unmark" \in Ahead(run'[t].todo) \/ (~session'.marker /\ ~session'.devUp)
    BY <1>1, <1>6, <2>1, <2>2
  <2>5. "startProd" \in Ahead(run'[t].todo) \/ (tools'.enabled => session'.prodUp)
    BY <1>1, <1>3, <1>6, <2>1, <2>3
  <2> QED
    BY <2>4, <2>5 DEF SessionRun
<1>8. ASSUME NEW u \in Terminals \ {t} PROVE SessionRun(run[u])'
  <2>1. SessionRun(run[u]) /\ run'[u] = run[u]
    BY <1>1 DEF SessionLeft
  <2> QED
    BY <1>3, <1>6, <2>1 DEF SessionRun
<1>9. ("session" \in past => Over)'
  BY <1>3, <1>4, <1>6 DEF SessionLeft, Over
<1> QED
  BY <1>7, <1>8, <1>9 DEF SessionLeft

\* What a command that begins or goes on elsewhere has to fulfil, when no file but the bar changes.
RunLeft(r) ==
    /\ TornDown(r) /\ SessionRun(r)
    /\ r.whole /\ "removeShare" \in Ahead(r.todo) =>
           ProdKept \/ "ensureProd" \in Ahead(r.todo) \/ "addProd" \in Ahead(r.todo)
    /\ r.whole /\ ("dropBar" \in Ahead(r.todo) \/ "dropDevBar" \in Ahead(r.todo)) =>
           BarKept \/ IF BarOurs THEN "prodBar" \in Ahead(r.todo) ELSE "restoreBar" \in Ahead(r.todo)
\* Nothing that is kept is lost, or nothing is left that counts on it.
Keeps(t) ==
    \/ (ProdKept => ProdKept') /\ (BarKept => BarKept')
    \/ past' = {} /\ \A u \in Terminals \ {t} : run'[u].whole => run[u] = Idle

LEMMA LeftFollows ==
  ASSUME LeftInv, NEW t \in Terminals, UNCHANGED <<desk, tools, session>>, ProdSaved,
         \A u \in Terminals \ {t} : Twin(run'[u], run[u]) /\ (run'[u].whole => run[u].whole),
         past' # {} => \A u \in Terminals : ~Installing(run'[u]),
         past' \cap {"hypr", "bar"} \subseteq past, "session" \in past' => Over,
         Keeps(t), RunLeft(run[t])'
  PROVE  LeftInv'
<1>1. BarOurs' <=> BarOurs
  BY DEF BarOurs, ProdSaved
<1>2. (saved.pristine["Prod"] # {} => saved.bar["Prod"] # {})'
  BY DEF LeftInv, TearInv, ProdSaved
<1>3. (past # {} => \A u \in Terminals : ~Installing(run[u]))'
  BY DEF Installing, Busy, Waits
<1>4. ASSUME NEW u \in Terminals \ {t}
      PROVE  Ahead(run'[u].todo) = Ahead(run[u].todo) /\ run'[u].name = run[u].name
             /\ TornDown(run[u]) /\ SessionRun(run[u])
  BY DEF Twin, LeftInv, TearInv, SessionLeft
<1>5. ASSUME NEW u \in Terminals \ {t} PROVE Tears(run[u])' <=> Tears(run[u])
  <2>1. run'[u].name = run[u].name
    BY DEF Twin
  <2>2. run'[u].tearing = run[u].tearing
    BY DEF Twin
  <2> QED
    BY <2>1, <2>2, Zenon DEF Tears
<1>6. ASSUME NEW u \in Terminals PROVE TornDown(run[u])'
  <2>1. CASE u = t
    BY <2>1 DEF RunLeft
  <2>2. CASE u # t
    BY <1>1, <1>4, <1>5, <2>2 DEF TornDown
  <2> QED
    BY <2>1, <2>2
<1>7. TearInv'
  BY <1>2, <1>3, <1>6 DEF TearInv
<1>8. ASSUME NEW u \in Terminals PROVE SessionRun(run[u])'
  <2>1. CASE u = t
    BY <2>1 DEF RunLeft
  <2>2. CASE u # t
    BY <1>4, <2>2 DEF SessionRun
  <2> QED
    BY <2>1, <2>2
<1>9. SessionLeft'
  <2>1. ("session" \in past => Over)'
    BY DEF Over
  <2> QED
    BY <1>8, <2>1 DEF SessionLeft
<1>10. ASSUME NEW u \in Terminals \ {t}, run'[u].whole,
              \E x \in {"removeShare", "dropBar", "dropDevBar"} : x \in Ahead(run'[u].todo)
       PROVE  (ProdKept => ProdKept') /\ (BarKept => BarKept')
  <2>1. run[u] # Idle
    BY <1>4, <1>10, IdleSafe
  <2> QED
    BY <1>10, <2>1 DEF Keeps
<1>11. ASSUME NEW u \in Terminals, run'[u].whole, "removeShare" \in Ahead(run'[u].todo)
       PROVE  ProdKept' \/ "ensureProd" \in Ahead(run'[u].todo) \/ "addProd" \in Ahead(run'[u].todo)
  <2>1. CASE u = t
    BY <1>11, <2>1 DEF RunLeft
  <2>2. CASE u # t
    <3>1. ProdKept \/ "ensureProd" \in Ahead(run[u].todo) \/ "addProd" \in Ahead(run[u].todo)
      BY <1>4, <1>11, <2>2 DEF LeftInv, LinesLeft
    <3> QED
      BY <1>4, <1>10, <1>11, <2>2, <3>1
  <2> QED
    BY <2>1, <2>2
<1>12. ASSUME NEW u \in Terminals, run'[u].whole,
              "dropBar" \in Ahead(run'[u].todo) \/ "dropDevBar" \in Ahead(run'[u].todo)
       PROVE  BarKept' \/ IF BarOurs' THEN "prodBar" \in Ahead(run'[u].todo)
                          ELSE "restoreBar" \in Ahead(run'[u].todo)
  <2>1. CASE u = t
    BY <1>12, <2>1 DEF RunLeft
  <2>2. CASE u # t
    <3>1. BarKept \/ IF BarOurs THEN "prodBar" \in Ahead(run[u].todo) ELSE "restoreBar" \in Ahead(run[u].todo)
      BY <1>4, <1>12, <2>2 DEF LeftInv, BarLeft
    <3> QED
      BY <1>1, <1>4, <1>10, <1>12, <2>2, <3>1
  <2> QED
    BY <2>1, <2>2
<1>13. "hypr" \in past' => ProdKept'
  BY DEF LeftInv, LinesLeft, Keeps
<1>14. "bar" \in past' => BarKept'
  BY DEF LeftInv, BarLeft, Keeps
<1> QED
  BY <1>7, <1>9, <1>11, <1>12, <1>13, <1>14 DEF LeftInv, LinesLeft, BarLeft

\* A command that begins, or what is left of one after its tsk command failed, owes what it will take.
LEMMA FreshLeft ==
  ASSUME NEW t \in Terminals,
         \/ Ahead(run'[t].todo) \subseteq Doing /\ ~Tears(run'[t])
         \/ Ahead(run'[t].todo) = {"main", "exit"} \cup UninstallSteps
         \/ Ahead(run'[t].todo) = Ahead(Leave)
         \/ SessionRun(run[t])' /\ \A x \in Ahead(run'[t].todo) : Earlier("exit", x)
  PROVE  RunLeft(run[t])'
<1> DEFINE B == Ahead(run'[t].todo)
<1>0. Tears(run[t])' <=> Tears(run'[t])
  BY DEF Tears
<1>1. CASE B \subseteq Doing /\ ~Tears(run'[t])
  <2>1. /\ "addProd" \notin Doing /\ "restoreBar" \notin Doing
        /\ "unpatchBar" \notin Doing /\ "dropBar" \notin Doing /\ "patchProd" \notin Doing /\ "dropDevBar" \notin Doing
        /\ "detect" \notin Doing /\ "removeShare" \notin Doing /\ "done" \notin Doing
    BY DEF Doing, Both
  <2> QED
    BY <1>0, <1>1, <2>1 DEF RunLeft, TornDown, SessionRun
<1>2. CASE B = {"main", "exit"} \cup UninstallSteps
  <2>1. /\ "addProd" \notin B /\ "restoreBar" \notin B /\ "unpatchBar" \notin B /\ "dropBar" \notin B
        /\ "patchProd" \notin B /\ "dropDevBar" \notin B /\ "detect" \notin B /\ "done" \notin B /\ "ensureProd" \in B
    BY <1>2 DEF UninstallSteps
  <2> QED
    BY <2>1 DEF RunLeft, TornDown, SessionRun
<1>3. CASE B = Ahead(Leave)
  <2>1. /\ {"prodBar", "ensureProd", "dropBar", "restoreBar", "unpatchBar", "unmark", "startProd"} \subseteq B
        /\ "addProd" \notin B /\ "patchProd" \notin B /\ "dropDevBar" \notin B
    BY <1>3, LeaveSteps DEF WaybarUninstallSteps, UninstallSteps
  <2> QED
    BY <2>1 DEF RunLeft, TornDown, SessionRun
<1>4. CASE SessionRun(run[t])' /\ \A x \in B : Earlier("exit", x)
  <2>1. /\ ~Earlier("exit", "restore") /\ ~Earlier("exit", "stripDev") /\ ~Earlier("exit", "addProd")
        /\ ~Earlier("exit", "restoreBar") /\ ~Earlier("exit", "unpatchBar") /\ ~Earlier("exit", "dropBar")
        /\ ~Earlier("exit", "patchProd") /\ ~Earlier("exit", "dropDevBar") /\ ~Earlier("exit", "detect")
        /\ ~Earlier("exit", "removeShare")
    BY Ranks DEF Earlier
  <2>2. /\ "restore" \notin B /\ "stripDev" \notin B /\ "addProd" \notin B /\ "restoreBar" \notin B
        /\ "unpatchBar" \notin B /\ "dropBar" \notin B /\ "patchProd" \notin B /\ "dropDevBar" \notin B
        /\ "detect" \notin B /\ "removeShare" \notin B
    BY <1>4, <2>1
  <2> QED
    BY <1>4, <2>2 DEF RunLeft, TornDown
<1> QED
  BY <1>1, <1>2, <1>3, <1>4

\* What a command begins with.
Starts(t) ==
    \/ Ahead(run'[t].todo) \subseteq Doing /\ ~Tears(run'[t])
    \/ Ahead(run'[t].todo) = {"main", "exit"} \cup UninstallSteps
    \/ Ahead(run'[t].todo) = Ahead(Leave)

LEMMA BeginsStart ==
  ASSUME RunsOK, NEW t \in Terminals, Begins(t)
  PROVE  Starts(t)
<1>1. CASE \E ui \in Uis : run'[t] = Fresh("install", InstallAll(ui), FALSE)
  <2>1. PICK ui \in Uis : run'[t] = Fresh("install", InstallAll(ui), FALSE)
    BY <1>1
  <2>2. run'[t].name = "install" /\ run'[t].todo = InstallAll(ui)
    BY <2>1 DEF Fresh, Idle
  <2>3. Ahead(run'[t].todo) = InstallSteps(ui)
    BY <2>2, InstallAllSteps
  <2>4. InstallSteps(ui) \subseteq Doing
    BY DEF InstallSteps, Uis, Doing, Both
  <2> QED
    BY <2>2, <2>3, <2>4 DEF Tears, Starts
<1>2. CASE run'[t] = Fresh("devInstall", DevInstallAll, FALSE)
  <2>1. run'[t].name = "devInstall" /\ run'[t].todo = DevInstallAll
    BY <1>2 DEF Fresh, Idle
  <2> QED
    BY <2>1, DevInstallSteps DEF Tears, Starts
<1>3. CASE run'[t] = Fresh("uninstall", DevUninstallHypr, FALSE)
  <2>1. run'[t].todo = DevUninstallHypr
    BY <1>3 DEF Fresh, Idle
  <2> QED
    BY <2>1, DevUninstallHyprSteps DEF Starts
<1>4. CASE run'[t] = Fresh("leave", Leave, TRUE) \/ run'[t] = Fresh("enter", Leave, TRUE)
  <2>1. run'[t].todo = Leave
    BY <1>4 DEF Fresh, Idle
  <2> QED
    BY <2>1 DEF Starts
<1>5. CASE run'[t] = Fresh("enter", Enter, FALSE)
  <2>1. run'[t].name = "enter" /\ run'[t].todo = Enter /\ ~run'[t].tearing
    BY <1>5 DEF Fresh, Idle
  <2>2. ~Tears(run'[t])
    BY <2>1 DEF Tears
  <2> QED
    BY <2>1, <2>2, EnterSteps DEF Starts
<1> QED
  BY <1>1, <1>2, <1>3, <1>4, <1>5, BeginsRuns

LEMMA BeginsLeft ==
  ASSUME TypeInv, LeftInv, NEW t \in Terminals, Begins(t)
  PROVE  LeftInv'
<1>0. RunsOK
  BY DEF TypeInv
<1>1. /\ run[t] = Idle /\ past' = {}
      /\ UNCHANGED <<desk, binds, bar, menu, tools, saved, session>>
      /\ \A u \in Terminals \ {t} : run'[u] = run[u]
  BY <1>0, BeginsAlone
<1>2. RunLeft(run[t])'
  BY <1>0, BeginsStart, FreshLeft DEF Starts
<1>3. ~Owes(run[t]) /\ ~OwesBar(run[t])
  BY <1>1, IdleSafe DEF Owes, OwesBar
<1>4. Keeps(t)
  <2>1. BarOurs' <=> BarOurs
    BY <1>1 DEF BarOurs
  <2>2. ProdKept => ProdKept'
    BY <1>1, <1>3 DEF ProdKept, Prodded, Owes
  <2>3. BarKept => BarKept'
    BY <1>1, <1>3, <2>1 DEF BarKept, BarRight, OwesBar
  <2> QED
    BY <2>2, <2>3 DEF Keeps
<1>5. \A u \in Terminals \ {t} : Twin(run'[u], run[u]) /\ (run'[u].whole => run[u].whole)
  <2> SUFFICES ASSUME NEW u \in Terminals \ {t} PROVE Twin(run'[u], run[u]) /\ (run'[u].whole => run[u].whole)
    OBVIOUS
  <2>1. run'[u] = run[u] /\ run[u] \in Runs
    BY <1>0, <1>1 DEF RunsOK
  <2> QED
    BY <2>1 DEF Twin
<1> QED
  BY <1>1, <1>2, <1>4, <1>5, LeftFollows DEF ProdSaved

LEMMA DetoursLeft ==
  ASSUME TypeInv, LeftInv, NEW t \in Terminals, Detours(t)
  PROVE  LeftInv'
<1>0. RunsOK /\ run[t] \in Runs /\ Good(run[t])
  BY DEF TypeInv, RunsOK, Shape
<1>1. Detoured(t)
  BY DetoursLeave
<1>2. /\ run[t] # Idle /\ ~Installing(run[t]) /\ run'[t].name = run[t].name
      /\ \A u \in Terminals \ {t} : run'[u] = run[u]
      /\ UNCHANGED <<desk, binds, menu, tools, saved, session, past>>
  BY <1>1 DEF Detoured
<1>3. run'[t].tearing = run[t].tearing
  BY <1>1 DEF Detoured
<1>4. Tears(run'[t]) <=> Tears(run[t])
  BY <1>2, <1>3, Zenon DEF Tears
<1>5. (BarOurs' <=> BarOurs) /\ (Prodded' <=> Prodded)
  BY <1>2 DEF BarOurs, Prodded
<1>6. TornDown(run[t]) /\ SessionRun(run[t])
  BY DEF LeftInv, TearInv, SessionLeft
<1> DEFINE A == Ahead(run[t].todo)
           B == Ahead(run'[t].todo)
<1>7. /\ \A u \in Terminals \ {t} : Owes(run[u])' <=> Owes(run[u])
      /\ \A u \in Terminals \ {t} : OwesBar(run[u])' <=> OwesBar(run[u])
  BY <1>2, <1>5 DEF Owes, OwesBar
<1>8. ASSUME NEW todo, run'[t] = [run[t] EXCEPT !.todo = todo] PROVE run'[t].whole = run[t].whole
  BY <1>0, <1>8 DEF Runs
<1>9. \A u \in Terminals : ~Installing(run'[u])
  <2>1. ~Installing(run'[t])
    <3>1. \E s \in {"prodBar", "ensureProd", "detect"} : At(t, s)
      BY <1>1 DEF Detoured
    <3>2. Scope(run[t]) = Undoing
      <4>1. PICK s \in {"prodBar", "ensureProd", "detect"} : At(t, s)
        BY <3>1
      <4>2. s \in Scope(run[t]) /\ s \notin Doing
        BY <1>0, <4>1, NextStep DEF Doing, Both
      <4> QED
        BY <4>2 DEF Scope
    <3>3. "schema" \notin Undoing /\ "schema" \in Doing \ {"mark", "serve", "wait", "stopProd"}
      BY DEF Undoing, Doing, Both
    <3>4. run[t].name \notin {"install", "devInstall"} /\ (run[t].name = "enter" => run[t].tearing)
      BY <3>2, <3>3, Zenon DEF Scope
    <3>5. Tears(run[t])
      BY <3>4 DEF Tears
    <3> QED
      BY <1>4, <3>5, Zenon DEF Tears, Installing, Busy
  <2>2. \A u \in Terminals \ {t} : ~Installing(run'[u])
    BY <1>0, <1>2, TwoModes
  <2> QED
    BY <2>1, <2>2
\* What each detour has to show.
<1>10. ASSUME Keeps(t), RunLeft(run[t])' PROVE LeftInv'
  <2>1. \A u \in Terminals \ {t} : Twin(run'[u], run[u]) /\ (run'[u].whole => run[u].whole)
    <3> SUFFICES ASSUME NEW u \in Terminals \ {t} PROVE Twin(run'[u], run[u]) /\ (run'[u].whole => run[u].whole)
      OBVIOUS
    <3>1. run'[u] = run[u] /\ run[u] \in Runs
      BY <1>0, <1>2 DEF RunsOK
    <3> QED
      BY <3>1 DEF Twin
  <2>2. past' \cap {"hypr", "bar"} \subseteq past /\ ("session" \in past' => Over)
    BY <1>2 DEF LeftInv, SessionLeft
  <2>3. ProdSaved
    BY <1>2 DEF ProdSaved
  <2> QED
    BY <1>2, <1>9, <1>10, <2>1, <2>2, <2>3, LeftFollows
<1>11. ASSUME Owes(run[t]) => Owes(run[t])' \/ Prodded PROVE ProdKept => ProdKept'
  BY <1>5, <1>7, <1>11 DEF ProdKept
<1>12. ASSUME bar' = bar, OwesBar(run[t]) => OwesBar(run[t])' PROVE BarKept => BarKept'
  <2>1. BarRight => BarRight'
    BY <1>5, <1>12 DEF BarRight
  <2> QED
    BY <1>7, <1>12, <2>1 DEF BarKept
<1>13. /\ run[t].whole /\ "removeShare" \in A => ProdKept \/ "ensureProd" \in A \/ "addProd" \in A
       /\ run[t].whole /\ ("dropBar" \in A \/ "dropDevBar" \in A) =>
              BarKept \/ IF BarOurs THEN "prodBar" \in A ELSE "restoreBar" \in A
  BY DEF LeftInv, LinesLeft, BarLeft
<1>14. ASSUME ProdKept => ProdKept', BarKept => BarKept', run'[t].whole = run[t].whole, TornDown(run[t])',
              "removeShare" \in B => "removeShare" \in A
                  /\ ("ensureProd" \in A \/ "addProd" \in A => ProdKept' \/ "ensureProd" \in B \/ "addProd" \in B),
              "dropBar" \in B \/ "dropDevBar" \in B =>
                  \/ BarKept'
                  \/ ("dropBar" \in A \/ "dropDevBar" \in A)
                     /\ (IF BarOurs THEN "prodBar" \in A => "prodBar" \in B ELSE "restoreBar" \in A => "restoreBar" \in B),
              "done" \in B => "done" \in A /\ ("unmark" \in A => "unmark" \in B) /\ ("startProd" \in A => "startProd" \in B)
       PROVE  LeftInv'
  <2>1. SessionRun(run[t])'
    BY <1>2, <1>6, <1>14 DEF SessionRun
  <2>2. RunLeft(run[t])'
    BY <1>5, <1>13, <1>14, <2>1 DEF RunLeft
  <2> QED
    BY <1>10, <1>14, <2>2 DEF Keeps

<1>15. CASE ProdBar(t)
  <2>0. At(t, "prodBar") /\ "prodBar" \in A /\ "dropBar" \in A /\ "addProd" \notin A
    <3>1. At(t, "prodBar")
      BY <1>15 DEF ProdBar
    <3>2. "prodBar" \in A
      BY <1>0, <3>1, NextStep
    <3> QED
      BY <1>0, <1>6, <3>1, <3>2 DEF Good, Closed, TornDown
  <2>1. ~Owes(run[t])
    BY <2>0 DEF Owes
  <2> DEFINE e == Tail(From(run[t].todo, "dropBar"))
  <2>2. CASE /\ B = {"patchProd", "dropDevBar"} \cup Ahead(e)
             /\ run'[t] = [run[t] EXCEPT !.todo = run'[t].todo]
             /\ \A x \in Ahead(e) : x \in A /\ Earlier("dropBar", x)
             /\ \A x \in A : x \in Ahead(e) \/ x = "dropBar" \/ Earlier(x, "dropBar")
             /\ desk.packaged /\ (saved.bar["Prod"] # {} \/ saved.pristine["Prod"] # {})
    <3> HIDE DEF e
    <3>1. BarOurs
      BY <2>2 DEF BarOurs, LeftInv, TearInv
    <3>2. /\ ~Earlier("dropBar", "restoreBar") /\ ~Earlier("dropBar", "unpatchBar") /\ ~Earlier("dropBar", "dropBar")
          /\ ~Earlier("dropBar", "detect") /\ ~Earlier("ensureProd", "dropBar")
          /\ ~Earlier("unmark", "dropBar") /\ ~Earlier("startProd", "dropBar")
      BY Ranks DEF Earlier
    <3>3. /\ "restoreBar" \notin B /\ "unpatchBar" \notin B /\ "dropBar" \notin B /\ "detect" \notin B
          /\ "addProd" \notin B
          /\ \A x \in {"ensureProd", "unmark", "startProd"} : x \in A => x \in B
          /\ \A x \in {"restore", "stripDev", "removeShare", "done"} : x \in B => x \in A
          /\ "patchProd" \in B
      BY <2>0, <2>2, <3>2
    <3>4. Tears(run[t])' <=> Tears(run[t])
      BY <1>4 DEF Tears
    <3>5. TornDown(run[t])'
      BY <1>5, <1>6, <2>0, <3>1, <3>3, <3>4 DEF TornDown
    <3>6. BarKept'
      BY <1>5, <3>1, <3>3 DEF BarKept, OwesBar
    <3> QED
      BY <1>8, <1>11, <1>14, <2>0, <2>1, <2>2, <3>3, <3>5, <3>6
  <2>3. CASE /\ run'[t] = [run[t] EXCEPT !.todo = Tail(@)] /\ UNCHANGED bar
             /\ ~(desk.packaged /\ (saved.bar["Prod"] # {} \/ saved.pristine["Prod"] # {}))
    <3>1. ~BarOurs
      BY <2>3 DEF BarOurs
    <3>2. run'[t].todo = Tail(run[t].todo)
      BY <1>0, <2>3 DEF Runs
    <3>3. B = A \ {"prodBar"}
      BY <1>0, <2>0, <3>2, NextStep
    <3>4. Tears(run[t])' <=> Tears(run[t])
      BY <1>4 DEF Tears
    <3>5. TornDown(run[t])'
      BY <1>5, <1>6, <3>1, <3>3, <3>4 DEF TornDown
    <3>6. OwesBar(run[t]) => OwesBar(run[t])'
      BY <1>5, <3>1, <3>3 DEF OwesBar
    <3>7. BarKept => BarKept'
      BY <1>12, <2>3, <3>6
    <3>8. run'[t].whole = run[t].whole
      BY <1>8, <2>3
    <3> QED
      BY <1>11, <1>14, <2>1, <3>1, <3>3, <3>5, <3>7, <3>8
  <2> QED
    BY <1>0, <1>15, <2>2, <2>3, ProdBarFine
<1>16. CASE EnsureProd(t)
  <2>0. At(t, "ensureProd") /\ bar' = bar
    BY <1>16 DEF EnsureProd
  <2>1. "ensureProd" \in A /\ \A x \in A : x = "ensureProd" \/ Earlier("ensureProd", x)
    BY <1>0, <2>0, NextStep
  <2>2. /\ ~Earlier("ensureProd", "restore") /\ ~Earlier("ensureProd", "stripDev")
        /\ ~Earlier("ensureProd", "dropBar") /\ ~Earlier("ensureProd", "dropDevBar")
        /\ ~Earlier("ensureProd", "restoreBar") /\ ~Earlier("ensureProd", "unpatchBar")
        /\ ~Earlier("ensureProd", "patchProd") /\ ~Earlier("ensureProd", "detect")
    BY Ranks DEF Earlier
  <2>3. \A x \in {"restore", "stripDev", "dropBar", "dropDevBar", "restoreBar", "unpatchBar", "patchProd", "detect"} :
            x \notin A
    BY <2>1, <2>2
  <2>4. run'[t] = [run[t] EXCEPT !.todo = run'[t].todo]
    BY <1>0, <1>16, EnsureProdFine
  <2>5. run'[t].whole = run[t].whole
    BY <1>8, <2>4
  <2>6. "addProd" \notin A
    BY <1>0, <2>1 DEF Good, Closed
  <2>7. CASE saved.hypr["Prod"] = {} /\ B = A \ {"ensureProd"}
    <3>1. Prodded /\ Prodded'
      BY <1>5, <2>7 DEF Prodded
    <3>2. ProdKept'
      BY <3>1 DEF ProdKept
    <3>3. TornDown(run[t])'
      BY <2>3, <2>6, <2>7 DEF TornDown
    <3>4. OwesBar(run[t]) => OwesBar(run[t])'
      BY <2>3 DEF OwesBar
    <3>5. BarKept => BarKept'
      BY <1>12, <2>0, <3>4
    <3> QED
      BY <1>14, <2>3, <2>5, <2>7, <3>2, <3>3, <3>5
  <2>8. CASE B = (A \ {"ensureProd"}) \cup {"addProd"} \cup (IF run[t].restored THEN {} ELSE {"readDev", "stripDev"})
    <3>1. /\ "addProd" \in B
          /\ \A x \in {"dropBar", "dropDevBar", "restoreBar", "unpatchBar", "patchProd", "detect"} : x \notin B
          /\ \A x \in {"removeShare", "done", "unmark", "startProd"} : x \in B <=> x \in A
      BY <2>3, <2>8
    <3>2. TornDown(run[t])'
      BY <3>1 DEF TornDown
    <3>3. Owes(run[t])'
      BY <3>1 DEF Owes
    <3>4. ProdKept'
      BY <3>3 DEF ProdKept
    <3>5. OwesBar(run[t]) => OwesBar(run[t])'
      BY <2>3 DEF OwesBar
    <3>6. BarKept => BarKept'
      BY <1>12, <2>0, <3>5
    <3> QED
      BY <1>14, <2>5, <3>1, <3>2, <3>4, <3>6
  <2> QED
    BY <1>0, <1>16, <2>7, <2>8, EnsureProdFine
<1>17. CASE Detect(t)
  <2>0. At(t, "detect") /\ bar' = bar
    BY <1>17 DEF Detect
  <2>1. "detect" \in A
    BY <1>0, <2>0, NextStep
  <2>2. "dropBar" \in A /\ "restoreBar" \in A /\ "patchProd" \notin A /\ "unmark" \in A
    BY <1>0, <1>6, <2>1 DEF TornDown, Good, Closed
  <2>3. ~Owes(run[t]) /\ ~OwesBar(run[t])
    BY <2>2 DEF Owes, OwesBar
  <2>4. (ProdKept => ProdKept') /\ (BarKept => BarKept')
    BY <1>11, <1>12, <2>0, <2>3
  <2>5. run'[t] = [run[t] EXCEPT !.todo = run'[t].todo]
    BY <1>0, <1>17, DetectFine
  <2>6. run'[t].whole = run[t].whole
    BY <1>8, <2>5
  <2>7. CASE B = A \ {"detect"}
    <3>1. Tears(run[t])' <=> Tears(run[t])
      BY <1>4 DEF Tears
    <3>2. TornDown(run[t])'
      BY <1>5, <1>6, <2>7, <3>1 DEF TornDown
    <3> QED
      BY <1>14, <2>4, <2>6, <2>7, <3>2
  <2>8. CASE /\ B \subseteq A /\ (\A x \in B : x = "unmark" \/ Earlier("unmark", x))
             /\ \A x \in A : x \in B \/ Earlier(x, "unmark")
    <3>1. /\ \A x \in {"restore", "stripDev", "addProd", "restoreBar", "unpatchBar", "dropBar", "patchProd", "dropDevBar",
                        "detect", "removeShare"} : ~Earlier("unmark", x)
          /\ ~Earlier("unmark", "unmark") /\ ~Earlier("startProd", "unmark")
      BY Ranks DEF Earlier
    <3>2. /\ \A x \in {"restore", "stripDev", "addProd", "restoreBar", "unpatchBar", "dropBar", "patchProd", "dropDevBar",
                        "detect", "removeShare"} : x \notin B
          /\ \A x \in {"unmark", "startProd"} : x \in A => x \in B
      BY <2>8, <3>1
    <3>3. TornDown(run[t])'
      BY <3>2 DEF TornDown
    <3> QED
      BY <1>14, <2>4, <2>6, <2>8, <3>2, <3>3
  <2> QED
    BY <1>0, <1>17, <2>7, <2>8, DetectFine
<1> QED
  BY <1>15, <1>16, <1>17 DEF Detours

\* Lines of dev are gone, or a command is about to strip them: whoever has put some back, and whoever
\* will read them, or has, strips them before it removes the share tree.
OwesDev(r) == "removeShare" \in Ahead(r.todo) /\ "restore" \notin Ahead(r.todo)
OwesConf(r) ==
    OwesDev(r) /\ "stripDev" \in Ahead(r.todo) /\ ("readDev" \in Ahead(r.todo) \/ HasDev(r.buffer))
OwesLua(r) == OwesDev(r) /\ "stripDevBlock" \in Ahead(r.todo)
ConfKept == HasDev(binds.conf) => \E t \in Terminals : OwesConf(run[t])
LuaKept == desk.kind = "lua" /\ HasDev(binds.lua) => \E t \in Terminals : OwesLua(run[t])
\* Who still has to restore has everything that clears up behind it.
Clearing(r) ==
    /\ "detect" \in Ahead(r.todo) \/ "dropBar" \in Ahead(r.todo) => "restore" \in Ahead(r.todo)
    /\ "restore" \in Ahead(r.todo) =>
           /\ "readDev" \in Ahead(r.todo) /\ "stripDev" \in Ahead(r.todo) /\ "removeShare" \in Ahead(r.todo)
           /\ desk.kind = "lua" => "stripDevBlock" \in Ahead(r.todo)
    /\ "readDev" \in Ahead(r.todo) /\ "removeShare" \in Ahead(r.todo) => "stripDev" \in Ahead(r.todo)
Clears(r) ==
    r.whole /\ "removeShare" \in Ahead(r.todo) =>
        /\ ConfKept \/ "readDev" \in Ahead(r.todo)
        /\ LuaKept \/ "stripDevBlock" \in Ahead(r.todo)
GoneInv ==
    /\ "hypr" \in past => ConfKept /\ LuaKept
    /\ \A t \in Terminals : Clearing(run[t]) /\ Clears(run[t])

\* What is left of a teardown whose tsk command failed: what comes after that command.
Rests(t) ==
    /\ \A x \in Ahead(run'[t].todo) : x \in Ahead(run[t].todo) /\ Earlier("exit", x)
    /\ \A x \in Ahead(run[t].todo) : x \in Ahead(run'[t].todo) \/ x = "exit" \/ Earlier(x, "exit")
\* The ways a command ends: with a fault, after which nothing is whole, or with nothing left that is owed.
Closes(t) ==
    /\ run[t] # Idle /\ UNCHANGED <<desk, binds, bar, tools, session>> /\ ProdSaved
    /\ saved'.hypr["Prod"] = saved.hypr["Prod"]
    /\ \/ run'[t] = Idle
       \/ run'[t].todo = Leave /\ run'[t].name = "leave"
       \/ run'[t].todo = Enter /\ run'[t].name = "enter" /\ ~run'[t].tearing /\ past' = {}
       \/ run[t].tearing /\ run'[t].tearing /\ run'[t].name = run[t].name /\ Rests(t)
    /\ \/ /\ past' = {}
          /\ \A u \in Terminals \ {t} : Twin(run'[u], run[u]) /\ (run'[u].whole => run[u] = Idle)
       \/ /\ \A u \in Terminals \ {t} : run'[u] = run[u]
          /\ past' \cap {"hypr", "bar"} \subseteq past
          /\ "session" \in past' => "session" \in past \/ At(t, "done")
          /\ ~Owes(run[t]) /\ ~OwesBar(run[t]) /\ ~OwesDev(run[t])

LEMMA EndingsClose ==
  ASSUME TypeInv, NEW t \in Terminals, Clearing(run[t]), Endings(t)
  PROVE  Closes(t)
<1>0. RunsOK /\ run[t] \in Runs /\ Good(run[t]) /\ saved \in SavedType
  BY DEF TypeInv, RunsOK, Shape, FilesOK, SavedType
<1>1. /\ run[t] # Idle /\ UNCHANGED <<desk, session, binds>>
  BY EndingsEnd DEF Ended
<1>2. UNCHANGED <<bar, tools>> /\ (UNCHANGED saved \/ saved' = [saved EXCEPT !.bar["Dev"] = {}])
  <2>1. CASE Exit(t) \/ Wait(t) \/ Interrupt(t) \/ Done(t)
    BY <2>1 DEF Exit, Wait, Interrupt, Done
  <2>2. CASE Fail(t) \/ Kill(t)
    BY <2>2 DEF Fail, Kill, Fault
  <2>3. CASE BarBackup(t) /\ bar = {}
    BY <2>3 DEF BarBackup, Fails
  <2>4. CASE DropBar(t) /\ ~Known(t)
    BY <2>4 DEF DropBar, Known, Fails
  <2> QED
    BY <2>1, <2>2, <2>3, <2>4 DEF Endings
<1>3. ProdSaved /\ saved'.hypr["Prod"] = saved.hypr["Prod"]
  BY <1>0, <1>2 DEF ProdSaved, SavedType, Profiles
\* Who is after its tsk command, or an install, owes nothing.
<1>4. ASSUME NEW s, At(t, s), s \in {"exit", "done", "dropBar", "barBackup", "wait"}
      PROVE  ~Owes(run[t]) /\ ~OwesBar(run[t]) /\ ~OwesDev(run[t])
  <2>1. s \in Ahead(run[t].todo) /\ \A x \in Ahead(run[t].todo) : x = s \/ Earlier(s, x)
    BY <1>0, <1>4, NextStep
  <2>2. /\ \A z \in {"exit", "done", "barBackup", "wait"} :
               ~Earlier(z, "ensureProd") /\ ~Earlier(z, "addProd") /\ ~Earlier(z, "removeShare")
        /\ \A z \in {"exit", "done", "dropBar", "barBackup", "wait"} :
               ~Earlier(z, "patchProd") /\ ~Earlier(z, "unpatchBar")
    BY Ranks DEF Earlier
  <2>3. "patchProd" \notin Ahead(run[t].todo) /\ "unpatchBar" \notin Ahead(run[t].todo)
    BY <1>4, <2>1, <2>2
  <2>4. s # "dropBar" => "ensureProd" \notin Ahead(run[t].todo) /\ "addProd" \notin Ahead(run[t].todo)
                         /\ "removeShare" \notin Ahead(run[t].todo)
    BY <1>4, <2>1, <2>2
  <2>5. s = "dropBar" => "restore" \in Ahead(run[t].todo)
    BY <2>1 DEF Clearing
  <2> QED
    BY <2>1, <2>3, <2>4, <2>5 DEF Owes, OwesBar, OwesDev
<1>5. ASSUME run[t].name = "enter" /\ ~run[t].tearing PROVE ~Owes(run[t]) /\ ~OwesBar(run[t]) /\ ~OwesDev(run[t])
  <2>1. Ahead(run[t].todo) \subseteq Doing
    BY <1>0, <1>5, Zenon DEF Good, Scope
  <2>2. /\ "ensureProd" \notin Doing /\ "addProd" \notin Doing /\ "patchProd" \notin Doing
        /\ "unpatchBar" \notin Doing /\ "removeShare" \notin Doing
    BY DEF Doing, Both
  <2> QED
    BY <2>1, <2>2 DEF Owes, OwesBar, OwesDev
<1>6. \A q \in {AfterSession(run[t]), AfterFault(run[t])} : q.todo = Leave /\ q.name = "leave"
  BY <1>0, AfterFine
<1>7. LET q == EnterAgain(run[t]) IN q.todo = Enter /\ q.name = "enter" /\ ~q.tearing
  BY <1>0, EnterAgainFine
\* The teardown goes on behind the tsk command.
<1>8. ASSUME "exit" \in Ahead(run[t].todo), run'[t].todo = Tail(From(run[t].todo, "exit"))
      PROVE  Rests(t)
  <2>1. run[t].todo \in Seq(Steps) /\ Sorted(run[t].todo)
    BY <1>0 DEF Runs, Good
  <2>2. LET e == Tail(From(run[t].todo, "exit")) IN
        /\ Ahead(e) \subseteq Ahead(run[t].todo)
        /\ \A y \in Ahead(e) : Earlier("exit", y)
        /\ \A y \in Ahead(run[t].todo) : y \in Ahead(e) \/ y = "exit" \/ Earlier(y, "exit")
    BY <1>8, <2>1, Behind
  <2> QED
    BY <1>8, <2>2 DEF Rests
<1>9. ASSUME EndOfEnter(t), ~Owes(run[t]) /\ ~OwesBar(run[t]) /\ ~OwesDev(run[t]) PROVE Closes(t)
  <2>1. run'[t] \in {Idle, AfterSession(run[t])}
    BY <1>0, <1>1, <1>9, EndOfEnterFine
  <2>2. \A u \in Terminals \ {t} : run'[u] = run[u]
    BY <1>0, <1>9 DEF EndOfEnter, RunsOK
  <2>3. past' \cap {"hypr", "bar"} \subseteq past /\ ("session" \in past' => "session" \in past)
    BY <1>9 DEF EndOfEnter
  <2> QED
    BY <1>1, <1>2, <1>3, <1>6, <1>9, <2>1, <2>2, <2>3 DEF Closes
<1>10. ASSUME NEW s \in {"barBackup", "dropBar"}, At(t, s), Abort(t) PROVE Closes(t)
  <2>0. ~Owes(run[t]) /\ ~OwesBar(run[t]) /\ ~OwesDev(run[t]) /\ "exit" \in Ahead(run[t].todo)
    BY <1>0, <1>4, <1>10, NextStep DEF Good, Closed
  <2>1. CASE run[t].tearing
    <3> DEFINE e == Tail(From(run[t].todo, "exit"))
               r == [run[t] EXCEPT !.todo = e]
    <3>1. run' = [run EXCEPT ![t] = r] /\ past' = past
      BY <1>0, <1>10, <2>1 DEF Abort, RunsOK
    <3> HIDE DEF e
    <3>2. r.todo = e /\ r.name = run[t].name /\ r.tearing = run[t].tearing
      BY <1>0 DEF Runs
    <3> HIDE DEF r
    <3>3. run'[t] = r /\ \A u \in Terminals \ {t} : run'[u] = run[u]
      BY <1>0, <3>1 DEF RunsOK
    <3>4. Rests(t)
      BY <1>8, <2>0, <3>2, <3>3 DEF e
    <3>5. run[t].tearing /\ run'[t].tearing /\ run'[t].name = run[t].name
      BY <2>1, <3>2, <3>3
    <3> QED
      BY <1>1, <1>2, <1>3, <2>0, <3>1, <3>3, <3>4, <3>5 DEF Closes
  <2>2. CASE run[t].name = "enter" /\ ~run[t].tearing
    <3>1. EndOfEnter(t)
      BY <1>10, <2>2, Zenon DEF Abort
    <3> QED
      BY <1>9, <2>0, <3>1
  <2>3. CASE ~run[t].tearing /\ run[t].name # "enter"
    <3>1. run' = [run EXCEPT ![t] = Idle] /\ past' = past
      BY <1>10, <2>3 DEF Abort
    <3>2. run'[t] = Idle /\ \A u \in Terminals \ {t} : run'[u] = run[u]
      BY <1>0, <3>1 DEF RunsOK
    <3> QED
      BY <1>1, <1>2, <1>3, <2>0, <3>1, <3>2 DEF Closes
  <2> QED
    BY <2>1, <2>2, <2>3
<1>11. CASE Exit(t) /\ ~(Len(run[t].todo) > 1)
  <2>1. At(t, "exit") /\ run' = [run EXCEPT ![t] = Idle]
    BY <1>11 DEF Exit
  <2>2. run'[t] = Idle /\ \A u \in Terminals \ {t} : run'[u] = run[u]
    BY <1>0, <2>1 DEF RunsOK
  <2>3. past' \cap {"hypr", "bar"} \subseteq past /\ ("session" \in past' => "session" \in past)
    BY <1>11 DEF Exit, Establish
  <2> QED
    BY <1>1, <1>2, <1>3, <1>4, <2>1, <2>2, <2>3 DEF Closes
<1>12. CASE Done(t)
  <2>1. At(t, "done")
    BY <1>12 DEF Done
  <2>2. run'[t] = Idle \/ (run'[t] = EnterAgain(run[t]) /\ past' = {})
    BY <1>0, <1>12, DoneFine
  <2>3. \A u \in Terminals \ {t} : run'[u] = run[u]
    BY <1>0, <1>12 DEF Done, RunsOK
  <2>4. past' \cap {"hypr", "bar"} \subseteq past
    BY <1>12 DEF Done, Establish
  <2>5. ~Owes(run[t]) /\ ~OwesBar(run[t]) /\ ~OwesDev(run[t])
    BY <1>4, <2>1
  <2> QED
    BY <1>1, <1>2, <1>3, <1>7, <2>1, <2>2, <2>3, <2>4, <2>5 DEF Closes
<1>13. ASSUME NEW u \in Terminals, run'[u] = Dented(run[u])
       PROVE  Twin(run'[u], run[u]) /\ (run'[u].whole => run[u] = Idle)
  <2>1. run[u] \in Runs /\ Good(run[u])
    BY <1>0 DEF RunsOK, Shape
  <2> QED
    BY <1>13, <2>1, DentedFine DEF Twin
<1>14. CASE Kill(t)
  <2>1. past' = {} /\ run'[t] = Idle /\ \A u \in Terminals \ {t} : run'[u] = Dented(run[u])
    BY <1>0, <1>14, KillFine DEF Kill, Fault
  <2> QED
    BY <1>1, <1>2, <1>3, <1>13, <2>1 DEF Closes
<1>15. CASE Fail(t)
  <2>1. past' = {}
    BY <1>15 DEF Fail, Fault
  <2>2. /\ \A u \in Terminals \ {t} : run'[u] = Dented(run[u])
        /\ \/ run'[t] \in {Idle, AfterFault(run[t])}
           \/ run[t].tearing /\ run'[t] = GoesOn(run[t]) /\ "exit" \in Ahead(run[t].todo)
    BY <1>0, <1>15, FailFine
  <2>3. CASE run[t].tearing /\ run'[t] = GoesOn(run[t]) /\ "exit" \in Ahead(run[t].todo)
    <3>1. LET r == GoesOn(run[t]) IN
          r.todo = Tail(From(run[t].todo, "exit")) /\ r.name = run[t].name /\ r.tearing = run[t].tearing
      BY <1>0 DEF GoesOn, Runs
    <3>2. Rests(t)
      BY <1>8, <2>3, <3>1
    <3>3. run[t].tearing /\ run'[t].tearing /\ run'[t].name = run[t].name
      BY <2>3, <3>1
    <3> QED
      BY <1>1, <1>2, <1>3, <1>13, <2>1, <2>2, <3>2, <3>3 DEF Closes
  <2>4. CASE run'[t] \in {Idle, AfterFault(run[t])}
    BY <1>1, <1>2, <1>3, <1>6, <1>13, <2>1, <2>2, <2>4 DEF Closes
  <2> QED
    BY <2>2, <2>3, <2>4
<1>16. CASE Wait(t)
  <2>1. At(t, "wait") /\ EndOfEnter(t)
    BY <1>16 DEF Wait
  <2> QED
    BY <1>4, <1>9, <2>1
<1>17. CASE Interrupt(t)
  BY <1>5, <1>9, <1>17 DEF Interrupt
<1>18. CASE BarBackup(t) /\ bar = {}
  BY <1>10, <1>18 DEF BarBackup, Fails
<1>19. CASE DropBar(t) /\ ~Known(t)
  BY <1>10, <1>19 DEF DropBar, Known, Fails
<1> QED
  BY <1>11, <1>12, <1>14, <1>15, <1>16, <1>17, <1>18, <1>19 DEF Endings

LEMMA EndingsLeft ==
  ASSUME TypeInv, Marked, GoneInv, LeftInv, NEW t \in Terminals, Endings(t)
  PROVE  LeftInv'
<1>0. RunsOK /\ run[t] \in Runs
  BY DEF TypeInv, RunsOK
<1>1. Closes(t)
  BY EndingsClose DEF GoneInv
<1>2. /\ run[t] # Idle /\ UNCHANGED <<desk, binds, bar, tools, session>> /\ ProdSaved
      /\ saved'.hypr["Prod"] = saved.hypr["Prod"]
  BY <1>1 DEF Closes
<1>3. (BarOurs' <=> BarOurs) /\ (Prodded' <=> Prodded)
  BY <1>2 DEF BarOurs, ProdSaved, Prodded
<1>4. /\ \A u \in Terminals \ {t} : Twin(run'[u], run[u]) /\ (run'[u].whole => run[u].whole)
      /\ past' \cap {"hypr", "bar"} \subseteq past
      /\ "session" \in past' => "session" \in past \/ At(t, "done")
      /\ Keeps(t)
      /\ past' # {} => \A u \in Terminals \ {t} : run'[u] = run[u]
  <2>1. CASE /\ past' = {}
             /\ \A u \in Terminals \ {t} : Twin(run'[u], run[u]) /\ (run'[u].whole => run[u] = Idle)
    <3>1. Idle.whole
      BY DEF Idle
    <3> QED
      BY <2>1, <3>1 DEF Keeps
  <2>2. CASE /\ \A u \in Terminals \ {t} : run'[u] = run[u]
             /\ past' \cap {"hypr", "bar"} \subseteq past
             /\ "session" \in past' => "session" \in past \/ At(t, "done")
             /\ ~Owes(run[t]) /\ ~OwesBar(run[t])
    <3>1. ASSUME NEW u \in Terminals \ {t} PROVE Twin(run'[u], run[u]) /\ (run'[u].whole => run[u].whole)
      <4>1. run'[u] = run[u] /\ run[u] \in Runs
        BY <1>0, <2>2 DEF RunsOK
      <4> QED
        BY <4>1 DEF Twin
    <3>2. ProdKept => ProdKept'
      BY <1>3, <2>2 DEF ProdKept, Owes
    <3>3. BarKept => BarKept'
      <4>1. BarRight => BarRight'
        BY <1>2, <1>3 DEF BarRight
      <4> QED
        BY <1>3, <2>2, <4>1 DEF BarKept, OwesBar
    <3> QED
      BY <2>2, <3>1, <3>2, <3>3 DEF Keeps
  <2> QED
    BY <1>1, <2>1, <2>2 DEF Closes
<1>5. At(t, "done") => Over
  <2> SUFFICES ASSUME At(t, "done") PROVE Over
    OBVIOUS
  <2>1. "done" \in Ahead(run[t].todo) /\ \A x \in Ahead(run[t].todo) : x = "done" \/ Earlier("done", x)
    BY <1>0, NextStep
  <2>2. ~Earlier("done", "unmark") /\ ~Earlier("done", "startProd")
    BY Ranks DEF Earlier
  <2>3. "unmark" \notin Ahead(run[t].todo) /\ "startProd" \notin Ahead(run[t].todo)
    BY <2>1, <2>2
  <2> QED
    BY <2>1, <2>3 DEF LeftInv, SessionLeft, SessionRun, Over
<1>6. "session" \in past' => Over
  BY <1>4, <1>5 DEF LeftInv, SessionLeft
<1>7. RunLeft(run[t])' /\ (past' # {} => ~Installing(run'[t]))
  <2>1. CASE run'[t] = Idle
    <3>1. Ahead(run'[t].todo) = {} /\ ~Installing(run'[t])
      BY <2>1, IdleSafe
    <3>2. SessionRun(run[t])' /\ \A x \in Ahead(run'[t].todo) : Earlier("exit", x)
      BY <3>1 DEF SessionRun
    <3> QED
      BY <3>1, <3>2, FreshLeft
  <2>2. CASE run'[t].todo = Leave /\ run'[t].name = "leave"
    BY <2>2, FreshLeft DEF Installing, Busy
  <2>3. CASE run'[t].todo = Enter /\ run'[t].name = "enter" /\ ~run'[t].tearing /\ past' = {}
    <3>1. ~Tears(run'[t])
      BY <2>3 DEF Tears
    <3> QED
      BY <2>3, <3>1, EnterSteps, FreshLeft
  <2>4. CASE run[t].tearing /\ run'[t].tearing /\ run'[t].name = run[t].name /\ Rests(t)
    <3>1. run[t].name \in {"leave", "enter"}
      BY <2>4 DEF Marked, MarkedRun
    <3>2. ~Installing(run'[t])
      BY <2>4, <3>1 DEF Installing, Busy
    <3>3. ~Earlier("unmark", "exit") /\ ~Earlier("startProd", "exit")
      BY Ranks DEF Earlier
    <3>4. SessionRun(run[t])
      BY DEF LeftInv, SessionLeft
    <3>5. SessionRun(run[t])'
      BY <1>2, <2>4, <3>3, <3>4 DEF SessionRun, Rests
    <3>6. \A x \in Ahead(run'[t].todo) : Earlier("exit", x)
      BY <2>4 DEF Rests
    <3> QED
      BY <3>2, <3>5, <3>6, FreshLeft
  <2> QED
    BY <1>1, <2>1, <2>2, <2>3, <2>4 DEF Closes
<1>8. past' # {} => \A u \in Terminals : ~Installing(run'[u])
  BY <1>0, <1>2, <1>4, <1>7, TwoModes
<1> QED
  BY <1>2, <1>4, <1>6, <1>7, <1>8, LeftFollows

LEMMA StepLeft == TypeInv /\ Marked /\ GoneInv /\ LeftInv /\ [Next]_vars => LeftInv'
<1> SUFFICES ASSUME TypeInv, Marked, GoneInv, LeftInv, [Next]_vars PROVE LeftInv'
  OBVIOUS
<1>1. CASE UNCHANGED vars
  <2>0. UNCHANGED <<desk, binds, bar, tools, saved, session, run, past>>
    BY <1>1 DEF vars
  <2>1. (BarOurs' <=> BarOurs) /\ (Prodded' <=> Prodded) /\ (Over' <=> Over)
    BY <2>0 DEF BarOurs, Prodded, Over
  <2>2. /\ \A t \in Terminals : TornDown(run[t]) => TornDown(run[t])'
        /\ \A t \in Terminals : SessionRun(run[t]) => SessionRun(run[t])'
    BY <2>0, <2>1 DEF TornDown, Tears, SessionRun
  <2>3. ProdKept => ProdKept'
    BY <2>0, <2>1 DEF ProdKept, Owes
  <2>4. BarKept => BarKept'
    BY <2>0, <2>1 DEF BarKept, BarRight, OwesBar
  <2>5. TearInv'
    BY <2>0, <2>2 DEF LeftInv, TearInv, Installing, Busy, Waits
  <2>6. LinesLeft'
    BY <2>0, <2>3 DEF LeftInv, LinesLeft
  <2>7. BarLeft'
    BY <2>0, <2>1, <2>4 DEF LeftInv, BarLeft
  <2>8. SessionLeft'
    BY <2>0, <2>1, <2>2 DEF LeftInv, SessionLeft
  <2> QED
    BY <2>5, <2>6, <2>7, <2>8 DEF LeftInv
<1>2. CASE Next
  <2>1. PICK t \in Terminals : Begins(t) \/ Installs(t) \/ Uninstalls(t) \/ Sessions(t) \/ Fail(t) \/ Kill(t)
    BY <1>2 DEF Next
  <2>2. CASE Takings(t) /\ Installing(run[t])
    BY <2>2, TakingsOfInstalls DEF LeftInv
  <2>3. CASE Takings(t) /\ ~Installing(run[t])
    <3>1. PICK s : Undone(t, s)
      BY <2>3, TakingsUndone
    <3>2. TearInv'
      BY <2>3, <3>1, UndoneTear DEF LeftInv
    <3>3. LinesLeft' /\ BarLeft' /\ SessionLeft'
      BY <3>1, UndoneLines, UndoneBar, UndoneSession DEF LeftInv
    <3> QED
      BY <3>2, <3>3 DEF LeftInv
  <2> QED
    BY <2>1, <2>2, <2>3, KindsOfSteps, BeginsLeft, DetoursLeft, EndingsLeft
<1> QED
  BY <1>1, <1>2

LEMMA InitLeft == Init => LeftInv
<1> SUFFICES ASSUME Init PROVE LeftInv
  OBVIOUS
<1>1. PICK kind \in Desks, packaged \in BOOLEAN, prod \in BOOLEAN, own \in BOOLEAN : Machine(kind, packaged, prod, own)
  BY DEF Init
<1>2. past = {} /\ \A t \in Terminals : run[t] = Idle
  BY DEF Init
<1>3. saved.pristine["Prod"] # {} => saved.bar["Prod"] # {}
  <2> DEFINE mine == IF prod THEN {"Prod"} ELSE {}
             was == "Prod" \in mine /\ kind = "waybar"
  <2>1. /\ saved.bar["Prod"] = IF was THEN {{[tsk |-> "none", stock |-> TRUE]}} ELSE {}
        /\ saved.pristine["Prod"] = IF was THEN {[tsk |-> "none", stock |-> TRUE]} ELSE {}
    BY <1>1 DEF Machine, Profiles
  <2> HIDE DEF was
  <2> QED
    BY <2>1
<1>4. Ahead(Idle.todo) = {} /\ ~Installing(Idle)
  BY IdleSafe
<1> QED
  BY <1>2, <1>3, <1>4 DEF LeftInv, TearInv, LinesLeft, BarLeft, SessionLeft, TornDown, SessionRun

-----------------------------------------------------------------------------
(* Lines of dev: an uninstall that brings some back strips them later, also  *)
(* those another one brought back after it had read the file; and none ends  *)
(* whole before they are gone, or another one owes it.                       *)

LEMMA InitGone == Init => GoneInv
<1> SUFFICES ASSUME Init PROVE GoneInv
  OBVIOUS
<1>1. past = {} /\ \A t \in Terminals : run[t] = Idle
  BY DEF Init
<1>2. Ahead(Idle.todo) = {}
  BY IdleSafe
<1> QED
  BY <1>1, <1>2 DEF GoneInv, Clearing, Clears

\* Nothing that is kept is lost, and the command of one terminal still clears up behind it.
LEMMA GoneFollows ==
  ASSUME GoneInv, NEW t \in Terminals, UNCHANGED desk,
         \A u \in Terminals \ {t} : Ahead(run'[u].todo) = Ahead(run[u].todo) /\ (run'[u].whole => run[u].whole),
         ConfKept => ConfKept', LuaKept => LuaKept', "hypr" \in past' => "hypr" \in past \/ (ConfKept' /\ LuaKept'),
         Clearing(run[t])', Clears(run[t])'
  PROVE  GoneInv'
<1>1. ASSUME NEW u \in Terminals \ {t} PROVE Clearing(run[u])' /\ Clears(run[u])'
  <2>1. Clearing(run[u]) /\ Clears(run[u]) /\ Ahead(run'[u].todo) = Ahead(run[u].todo) /\ (run'[u].whole => run[u].whole)
    BY DEF GoneInv
  <2> QED
    BY <2>1 DEF Clearing, Clears
<1>2. ("hypr" \in past => ConfKept /\ LuaKept)'
  BY DEF GoneInv
<1> QED
  BY <1>1, <1>2 DEF GoneInv

\* After a fault nothing is whole.
LEMMA FaultGone ==
  ASSUME GoneInv, NEW t \in Terminals, UNCHANGED desk, past' = {},
         \A u \in Terminals \ {t} : Ahead(run'[u].todo) = Ahead(run[u].todo) /\ (run'[u].whole => run[u] = Idle),
         Clearing(run[t])', Clears(run[t])'
  PROVE  GoneInv'
<1>1. ASSUME NEW u \in Terminals \ {t} PROVE Clearing(run[u])' /\ Clears(run[u])'
  <2>1. Clearing(run[u]) /\ Ahead(run'[u].todo) = Ahead(run[u].todo) /\ (run'[u].whole => run[u] = Idle)
    BY DEF GoneInv
  <2> QED
    BY <2>1, IdleSafe DEF Clearing, Clears
<1> QED
  BY <1>1 DEF GoneInv

\* The files keep their lines of dev, or lose some; the others are what they were.
LEMMA OthersOwe ==
  ASSUME NEW t \in Terminals, UNCHANGED desk,
         HasDev(binds'.conf) => HasDev(binds.conf), HasDev(binds'.lua) => HasDev(binds.lua),
         \A u \in Terminals \ {t} : run'[u].todo = run[u].todo /\ run'[u].buffer = run[u].buffer
  PROVE  /\ (OwesConf(run[t]) => OwesConf(run'[t])) => (ConfKept => ConfKept')
         /\ (OwesLua(run[t]) => OwesLua(run'[t])) => (LuaKept => LuaKept')
<1>1. \A u \in Terminals \ {t} : OwesConf(run[u]) => OwesConf(run'[u])
  BY DEF OwesConf, OwesDev
<1>2. \A u \in Terminals \ {t} : OwesLua(run[u]) => OwesLua(run'[u])
  BY DEF OwesLua, OwesDev
<1>3. \A u \in Terminals : OwesConf(run[u])' <=> OwesConf(run'[u])
  BY DEF OwesConf, OwesDev, HasDev, Content
<1>4. \A u \in Terminals : OwesLua(run[u])' <=> OwesLua(run'[u])
  BY DEF OwesLua, OwesDev
<1>5. ASSUME OwesConf(run[t]) => OwesConf(run'[t]), ConfKept PROVE ConfKept'
  <2> SUFFICES ASSUME HasDev(binds'.conf) PROVE \E u \in Terminals : OwesConf(run'[u])
    BY <1>3 DEF ConfKept, HasDev, Content
  <2>1. PICK u \in Terminals : OwesConf(run[u])
    BY <1>5 DEF ConfKept
  <2> QED
    BY <1>1, <1>5, <2>1
<1>6. ASSUME OwesLua(run[t]) => OwesLua(run'[t]), LuaKept PROVE LuaKept'
  <2> SUFFICES ASSUME desk.kind = "lua", HasDev(binds'.lua) PROVE \E u \in Terminals : OwesLua(run'[u])
    BY <1>4 DEF LuaKept, HasDev, Content
  <2>1. PICK u \in Terminals : OwesLua(run[u])
    BY <1>6 DEF LuaKept
  <2> QED
    BY <1>2, <1>6, <2>1
<1> QED
  BY <1>5, <1>6

\* A command that begins, or what is left of one after its tsk command, clears up behind itself.
LEMMA StartsGone ==
  ASSUME NEW t \in Terminals, UNCHANGED desk, Starts(t) \/ \A x \in Ahead(run'[t].todo) : Earlier("exit", x)
  PROVE  Clearing(run[t])' /\ Clears(run[t])'
<1> DEFINE B == Ahead(run'[t].todo)
<1>1. CASE B \subseteq Doing
  <2>1. "detect" \notin Doing /\ "dropBar" \notin Doing /\ "restore" \notin Doing /\ "removeShare" \notin Doing
    BY DEF Doing, Both
  <2> QED
    BY <1>1, <2>1 DEF Clearing, Clears
<1>2. CASE UninstallSteps \subseteq B
  <2>1. /\ "restore" \in B /\ "readDev" \in B /\ "stripDev" \in B /\ "removeShare" \in B
        /\ desk.kind = "lua" => "stripDevBlock" \in B
    BY <1>2 DEF UninstallSteps
  <2>2. desk.kind # "lua" => LuaKept'
    BY DEF LuaKept
  <2> QED
    BY <2>1, <2>2 DEF Clearing, Clears
<1>3. CASE \A x \in B : Earlier("exit", x)
  <2>1. /\ ~Earlier("exit", "detect") /\ ~Earlier("exit", "dropBar") /\ ~Earlier("exit", "restore")
        /\ ~Earlier("exit", "removeShare")
    BY Ranks DEF Earlier
  <2>2. "detect" \notin B /\ "dropBar" \notin B /\ "restore" \notin B /\ "removeShare" \notin B
    BY <1>3, <2>1
  <2> QED
    BY <2>2 DEF Clearing, Clears
<1> QED
  BY <1>1, <1>2, <1>3, LeaveSteps DEF Starts

LEMMA BeginsGone ==
  ASSUME TypeInv, GoneInv, NEW t \in Terminals, Begins(t)
  PROVE  GoneInv'
<1>0. RunsOK
  BY DEF TypeInv
<1>1. /\ run[t] = Idle /\ past' = {} /\ UNCHANGED <<desk, binds>>
      /\ \A u \in Terminals \ {t} : run'[u] = run[u]
  BY <1>0, BeginsAlone
<1>2. ~OwesConf(run[t]) /\ ~OwesLua(run[t])
  BY <1>1, IdleSafe DEF OwesConf, OwesLua, OwesDev
<1>3. (ConfKept => ConfKept') /\ (LuaKept => LuaKept')
  BY <1>1, <1>2, OthersOwe
<1>4. Clearing(run[t])' /\ Clears(run[t])'
  BY <1>0, <1>1, BeginsStart, StartsGone
<1> QED
  BY <1>1, <1>3, <1>4, GoneFollows

LEMMA EndingsGone ==
  ASSUME TypeInv, GoneInv, NEW t \in Terminals, Endings(t)
  PROVE  GoneInv'
<1>1. Closes(t)
  BY EndingsClose DEF GoneInv
<1>2. UNCHANGED <<desk, binds>>
  BY <1>1 DEF Closes
<1>3. Clearing(run[t])' /\ Clears(run[t])'
  <2>1. CASE run'[t] = Idle
    BY <1>2, <2>1, IdleSafe, StartsGone
  <2>2. CASE run'[t].todo = Leave
    BY <1>2, <2>2, StartsGone DEF Starts
  <2>3. CASE run'[t].todo = Enter /\ run'[t].name = "enter" /\ ~run'[t].tearing
    <3>1. ~Tears(run'[t])
      BY <2>3 DEF Tears
    <3> QED
      BY <1>2, <2>3, <3>1, EnterSteps, StartsGone DEF Starts
  <2>4. CASE Rests(t)
    BY <1>2, <2>4, StartsGone DEF Rests
  <2> QED
    BY <1>1, <2>1, <2>2, <2>3, <2>4 DEF Closes
<1>4. CASE past' = {} /\ \A u \in Terminals \ {t} : Twin(run'[u], run[u]) /\ (run'[u].whole => run[u] = Idle)
  <2>1. \A u \in Terminals \ {t} : Ahead(run'[u].todo) = Ahead(run[u].todo) /\ (run'[u].whole => run[u] = Idle)
    BY <1>4 DEF Twin
  <2> QED
    BY <1>2, <1>3, <1>4, <2>1, FaultGone
<1>5. CASE /\ \A u \in Terminals \ {t} : run'[u] = run[u]
           /\ past' \cap {"hypr", "bar"} \subseteq past /\ ~OwesDev(run[t])
  <2>1. ~OwesConf(run[t]) /\ ~OwesLua(run[t])
    BY <1>5 DEF OwesConf, OwesLua
  <2>2. (ConfKept => ConfKept') /\ (LuaKept => LuaKept')
    BY <1>2, <1>5, <2>1, OthersOwe
  <2>3. "hypr" \in past' => "hypr" \in past
    BY <1>5
  <2> QED
    BY <1>2, <1>3, <1>5, <2>2, <2>3, GoneFollows
<1> QED
  BY <1>1, <1>4, <1>5 DEF Closes

LEMMA DetoursGone ==
  ASSUME TypeInv, GoneInv, NEW t \in Terminals, Detours(t)
  PROVE  GoneInv'
<1>0. RunsOK /\ run[t] \in Runs
  BY DEF TypeInv, RunsOK
<1>1. /\ \A u \in Terminals \ {t} : run'[u] = run[u]
      /\ UNCHANGED <<desk, binds, past>>
  BY DetoursLeave DEF Detoured
<1>2. Clearing(run[t]) /\ Clears(run[t])
  BY DEF GoneInv
<1> DEFINE A == Ahead(run[t].todo)
           B == Ahead(run'[t].todo)
<1>3. ASSUME NEW todo, run'[t] = [run[t] EXCEPT !.todo = todo]
      PROVE  run'[t].whole = run[t].whole /\ run'[t].buffer = run[t].buffer /\ run'[t].todo = todo
  BY <1>0, <1>3 DEF Runs
<1>4. ASSUME run'[t].whole = run[t].whole, Clearing(run[t])',
             OwesConf(run[t]) => OwesConf(run'[t]), OwesLua(run[t]) => OwesLua(run'[t]),
             "removeShare" \in B => /\ "removeShare" \in A /\ ("readDev" \in A => "readDev" \in B)
                                    /\ ("stripDevBlock" \in A => "stripDevBlock" \in B)
      PROVE  GoneInv'
  <2>1. (ConfKept => ConfKept') /\ (LuaKept => LuaKept')
    BY <1>1, <1>4, OthersOwe
  <2>2. Clears(run[t])'
    BY <1>2, <1>4, <2>1 DEF Clears
  <2> QED
    BY <1>1, <1>4, <2>1, <2>2, GoneFollows
\* The steps about lines of dev stay.
<1>5. ASSUME \E todo : run'[t] = [run[t] EXCEPT !.todo = todo], "detect" \notin B \/ "detect" \in A,
             "dropBar" \notin B \/ "dropBar" \in A,
             \A x \in {"restore", "readDev", "stripDev", "stripDevBlock", "removeShare"} : x \in B <=> x \in A
      PROVE  GoneInv'
  <2>1. run'[t].whole = run[t].whole /\ run'[t].buffer = run[t].buffer
    BY <1>3, <1>5
  <2>2. Clearing(run[t])'
    BY <1>1, <1>2, <1>5 DEF Clearing
  <2>3. (OwesConf(run[t]) => OwesConf(run'[t])) /\ (OwesLua(run[t]) => OwesLua(run'[t]))
    BY <1>5, <2>1 DEF OwesConf, OwesLua, OwesDev
  <2> QED
    BY <1>4, <1>5, <2>1, <2>2, <2>3
<1>6. CASE ProdBar(t)
  <2>0. At(t, "prodBar")
    BY <1>6 DEF ProdBar
  <2> DEFINE e == Tail(From(run[t].todo, "dropBar"))
  <2>1. CASE /\ B = {"patchProd", "dropDevBar"} \cup Ahead(e)
             /\ run'[t] = [run[t] EXCEPT !.todo = run'[t].todo]
             /\ \A x \in Ahead(e) : x \in A /\ Earlier("dropBar", x)
             /\ \A x \in A : x \in Ahead(e) \/ x = "dropBar" \/ Earlier(x, "dropBar")
    <3> HIDE DEF e
    <3>1. /\ ~Earlier("restore", "dropBar") /\ ~Earlier("readDev", "dropBar") /\ ~Earlier("stripDev", "dropBar")
          /\ ~Earlier("stripDevBlock", "dropBar") /\ ~Earlier("removeShare", "dropBar")
          /\ ~Earlier("dropBar", "dropBar") /\ ~Earlier("dropBar", "detect")
      BY Ranks DEF Earlier
    <3>2. \A x \in {"restore", "readDev", "stripDev", "stripDevBlock", "removeShare"} : x \in B <=> x \in A
      BY <2>1, <3>1
    <3>3. "detect" \notin B /\ "dropBar" \notin B
      BY <2>1, <3>1
    <3> QED
      BY <1>5, <2>1, <3>2, <3>3
  <2>2. CASE run'[t] = [run[t] EXCEPT !.todo = Tail(@)]
    <3>1. run'[t].todo = Tail(run[t].todo)
      BY <1>3, <2>2
    <3>2. B = A \ {"prodBar"}
      BY <1>0, <2>0, <3>1, NextStep
    <3> QED
      BY <1>5, <2>2, <3>2
  <2> QED
    BY <1>0, <1>6, <2>1, <2>2, ProdBarFine
<1>7. CASE EnsureProd(t)
  <2>0. At(t, "ensureProd")
    BY <1>7 DEF EnsureProd
  <2>1. \A x \in A : x = "ensureProd" \/ Earlier("ensureProd", x)
    BY <1>0, <2>0, NextStep
  <2>2. /\ ~Earlier("ensureProd", "restore") /\ ~Earlier("ensureProd", "detect")
        /\ ~Earlier("ensureProd", "dropBar")
    BY Ranks DEF Earlier
  <2>3. "restore" \notin A /\ "detect" \notin A /\ "dropBar" \notin A
    BY <2>1, <2>2
  <2>4. run'[t] = [run[t] EXCEPT !.todo = run'[t].todo]
    BY <1>0, <1>7, EnsureProdFine
  <2>5. run'[t].whole = run[t].whole /\ run'[t].buffer = run[t].buffer
    BY <1>3, <2>4
  <2>6. CASE B = A \ {"ensureProd"} \/ B = (A \ {"ensureProd"}) \cup {"addProd"}
    BY <1>5, <2>4, <2>6
  <2>7. CASE B = (A \ {"ensureProd"}) \cup {"addProd", "readDev", "stripDev"}
    <3>1. /\ "restore" \notin B /\ "detect" \notin B /\ "dropBar" \notin B /\ "stripDev" \in B /\ "readDev" \in B
          /\ "removeShare" \in B <=> "removeShare" \in A
          /\ "stripDevBlock" \in B <=> "stripDevBlock" \in A
      BY <2>3, <2>7
    <3>2. Clearing(run[t])'
      BY <3>1 DEF Clearing
    <3>3. (OwesConf(run[t]) => OwesConf(run'[t])) /\ (OwesLua(run[t]) => OwesLua(run'[t]))
      BY <3>1 DEF OwesConf, OwesLua, OwesDev
    <3> QED
      BY <1>4, <2>5, <3>1, <3>2, <3>3
  <2>8. \/ B = A \ {"ensureProd"} \/ B = (A \ {"ensureProd"}) \cup {"addProd"}
        \/ B = (A \ {"ensureProd"}) \cup {"addProd", "readDev", "stripDev"}
    BY <1>0, <1>7, EnsureProdFine
  <2> QED
    BY <2>6, <2>7, <2>8
<1>8. CASE Detect(t)
  <2>0. At(t, "detect")
    BY <1>8 DEF Detect
  <2>1. "detect" \in A
    BY <1>0, <2>0, NextStep
  <2>2. ~OwesConf(run[t]) /\ ~OwesLua(run[t])
    BY <1>2, <2>1 DEF Clearing, OwesConf, OwesLua, OwesDev
  <2>3. run'[t] = [run[t] EXCEPT !.todo = run'[t].todo]
    BY <1>0, <1>8, DetectFine
  <2>4. run'[t].whole = run[t].whole
    BY <1>3, <2>3
  <2>5. CASE B = A \ {"detect"}
    BY <1>5, <2>3, <2>5
  <2>6. CASE \A x \in B : x = "unmark" \/ Earlier("unmark", x)
    <3>1. \A x \in {"restore", "readDev", "dropBar", "detect", "removeShare"} : ~Earlier("unmark", x)
      BY Ranks DEF Earlier
    <3>2. \A x \in {"restore", "readDev", "dropBar", "detect", "removeShare"} : x \notin B
      BY <2>6, <3>1
    <3>3. Clearing(run[t])'
      BY <3>2 DEF Clearing
    <3> QED
      BY <1>4, <2>2, <2>4, <3>2, <3>3
  <2> QED
    BY <1>0, <1>8, <2>5, <2>6, DetectFine
<1> QED
  BY <1>6, <1>7, <1>8 DEF Detours

\* The steps that read the lines, strip them or bring them back, and the last one.
DevStep(t) == ReadConf(t, "Dev") \/ StripConf(t, "Dev") \/ StripBlock(t, "Dev") \/ Restore(t) \/ RemoveShare(t)

LEMMA ElseNothing ==
  ASSUME TypeInv, NEW t \in Terminals, Undoes(t), ~DevStep(t)
  PROVE  /\ run'[t].buffer = run[t].buffer
         /\ HasDev(binds'.conf) => HasDev(binds.conf)
         /\ HasDev(binds'.lua) => HasDev(binds.lua)
         /\ "hypr" \in past' => "hypr" \in past
         /\ ~At(t, "readDev") /\ ~At(t, "stripDev") /\ ~At(t, "stripDevBlock") /\ ~At(t, "restore")
         /\ ~At(t, "removeShare")
<1>0. run \in [Terminals -> Runs] /\ run[t] \in Runs /\ binds \in BindsType
  BY DEF TypeInv, RunsOK, FilesOK, BindsType
<1> DEFINE Elsewhere == ~At(t, "readDev") /\ ~At(t, "stripDev") /\ ~At(t, "stripDevBlock") /\ ~At(t, "restore")
                        /\ ~At(t, "removeShare")
<1>1. ASSUME NEW r, PopWith(t, r), DOMAIN r = DOMAIN run[t], r.buffer = run[t].buffer
      PROVE  run'[t].buffer = run[t].buffer /\ UNCHANGED past
  <2>1. run'[t] = [r EXCEPT !.todo = Tail(@)] /\ UNCHANGED past
    BY <1>0, <1>1 DEF PopWith
  <2> QED
    BY <1>0, <1>1, <2>1 DEF Runs
<1>2. Pop(t) => run'[t].buffer = run[t].buffer /\ UNCHANGED past
  BY <1>1 DEF Pop
<1>3. CASE Main(t) \/ StopDev(t) \/ Unmark(t) \/ StartProd(t) \/ (Exit(t) /\ Len(run[t].todo) > 1)
  <2>1. Pop(t) /\ UNCHANGED binds /\ Elsewhere
    BY <1>3 DEF Main, StopDev, Unmark, StartProd, Exit, At
  <2> QED
    BY <1>2, <2>1
<1>4. CASE PatchProd(t) \/ UnpatchBar(t) \/ Disable(t) \/ UnpatchMenu(t)
  <2>1. Pop(t) /\ UNCHANGED binds /\ Elsewhere
    BY <1>4 DEF PatchProd, UnpatchBar, Disable, UnpatchMenu, At
  <2> QED
    BY <1>2, <2>1
<1>5. CASE AddProd(t)
  <2>1. Pop(t) /\ Elsewhere
    BY <1>5 DEF AddProd, At
  <2>2. binds'.conf = {Content(binds.conf) \cup {"Prod"}} /\ binds'.lua = binds.lua
    BY <1>0, <1>5 DEF AddProd, BindsType
  <2>3. HasDev(binds'.conf) => HasDev(binds.conf)
    <3>1. HasDev({Content(binds.conf) \cup {"Prod"}}) <=> HasDev(binds.conf) \/ "Prod" = "Dev"
      BY DevLines, Zenon
    <3>2. "Prod" # "Dev"
      OBVIOUS
    <3> QED
      BY <2>2, <3>1, <3>2
  <2> QED
    BY <1>2, <2>1, <2>2, <2>3
<1>6. CASE Seed(t) \/ RestoreBar(t) \/ LoadHypr(t) \/ DropHypr(t)
  <2> DEFINE Like(r) == DOMAIN r = DOMAIN run[t] /\ r.buffer = run[t].buffer
  <2>1. /\ \A v : Like([run[t] EXCEPT !.had = v])
        /\ \A v, w : Like([run[t] EXCEPT !.had = v, !.bar = w]) /\ Like([run[t] EXCEPT !.restored = v, !.bar = w])
                     /\ Like([run[t] EXCEPT !.had = v, !.backup = w])
    BY <1>0 DEF Runs
  <2>2. ASSUME NEW r, PopWith(t, r), Like(r) PROVE run'[t].buffer = run[t].buffer /\ UNCHANGED past
    BY <1>1, <2>2
  <2> HIDE DEF Like
  <2>3. run'[t].buffer = run[t].buffer /\ UNCHANGED past
    <3>1. CASE Seed(t)
      BY <2>1, <2>2, <3>1 DEF Seed
    <3>2. CASE RestoreBar(t)
      BY <2>1, <2>2, <3>2 DEF RestoreBar
    <3>3. CASE DropHypr(t)
      BY <2>1, <2>2, <3>3 DEF DropHypr
    <3>4. CASE LoadHypr(t)
      <4>1. \E v, w : PopWith(t, [run[t] EXCEPT !.had = v, !.backup = w])
        BY <3>4, Zenon DEF LoadHypr
      <4> QED
        BY <2>1, <2>2, <4>1
    <3> QED
      BY <1>6, <3>1, <3>2, <3>3, <3>4
  <2>4. UNCHANGED binds /\ \E s \in {"seed", "restoreBar", "loadHypr", "dropHypr"} : At(t, s)
    BY <1>6, Zenon DEF Seed, RestoreBar, LoadHypr, DropHypr
  <2> QED
    BY <2>3, <2>4 DEF At
<1>7. CASE DropDevBar(t)
  <2>1. run'[t] = [run[t] EXCEPT !.todo = Tail(@)] /\ UNCHANGED binds /\ Elsewhere
    BY <1>0, <1>7 DEF DropDevBar, At
  <2>2. "hypr" \in past' => "hypr" \in past
    BY <1>7 DEF DropDevBar, Establish
  <2> QED
    BY <1>0, <2>1, <2>2 DEF Runs
<1>8. CASE DropBar(t) /\ Known(t)
  <2>1. /\ run' = [run EXCEPT ![t] = [run[t] EXCEPT !.todo = Tail(@), !.had = FALSE, !.restored = FALSE]]
        /\ UNCHANGED binds /\ At(t, "dropBar") /\ Establish(t, {"bar"})
    BY <1>8, Zenon DEF DropBar, Known
  <2>2. run'[t].buffer = run[t].buffer
    BY <1>0, <2>1 DEF Runs
  <2>3. "hypr" \in past' => "hypr" \in past
    BY <2>1 DEF Establish
  <2> QED
    BY <2>1, <2>2, <2>3 DEF At
<1> QED
  BY <1>3, <1>4, <1>5, <1>6, <1>7, <1>8 DEF Undoes, DevStep

LEMMA UndoneGone ==
  ASSUME TypeInv, GoneInv, NEW t \in Terminals, NEW s, Undone(t, s)
  PROVE  GoneInv'
<1>0. run \in [Terminals -> Runs] /\ run[t] \in Runs /\ binds \in BindsType
  BY DEF TypeInv, RunsOK, FilesOK, BindsType
<1>1. /\ \A u \in Terminals \ {t} : run'[u] = run[u]
      /\ Ahead(run[t].todo) = Ahead(run'[t].todo) \cup {s}
      /\ \A x \in Ahead(run'[t].todo) : Earlier(s, x)
      /\ s \notin {"detect", "stopProd"} /\ s \notin Ahead(run'[t].todo)
      /\ At(t, s) /\ UNCHANGED desk
  BY DEF Undone, Taking
<1>2. run'[t].whole = run[t].whole /\ Undoes(t)
  BY DEF Undone, Taking
<1>3. Clearing(run[t]) /\ Clears(run[t])
  BY DEF GoneInv
<1> DEFINE A == Ahead(run[t].todo)
           B == Ahead(run'[t].todo)
<1>4. A = B \cup {s} /\ s \notin B /\ \A x \in B : Earlier(s, x)
  BY <1>1
<1>5. ASSUME NEW x, At(t, x) PROVE x = s
  BY <1>1, <1>5 DEF At
<1>6. /\ ~Earlier("restore", "detect") /\ ~Earlier("restore", "dropBar")
      /\ \A x \in {"readDev", "stripDev", "stripDevBlock", "removeShare"} : ~Earlier(x, "restore")
      /\ ~Earlier("stripDev", "readDev") /\ ~Earlier("removeShare", "readDev") /\ ~Earlier("removeShare", "stripDev")
      /\ ~Earlier("removeShare", "stripDevBlock")
      /\ \A x \in {"readDev", "stripDev", "stripDevBlock", "removeShare"} : ~Earlier(x, "detect") /\ ~Earlier(x, "dropBar")
  BY Ranks DEF Earlier
<1>7. /\ s = "restore" => "detect" \notin B /\ "dropBar" \notin B
      /\ s \in {"readDev", "stripDev", "stripDevBlock", "removeShare"} =>
             "restore" \notin A /\ "detect" \notin B /\ "dropBar" \notin B
      /\ s \in {"stripDev", "removeShare"} => "readDev" \notin A
      /\ s = "removeShare" => "stripDev" \notin A /\ "stripDevBlock" \notin A
  BY <1>4, <1>6
<1>8. Clearing(run[t])'
  BY <1>1, <1>3, <1>4, <1>7 DEF Clearing
\* What each step has to show.
<1>9. ASSUME ConfKept => ConfKept', LuaKept => LuaKept', "hypr" \in past' => "hypr" \in past \/ (ConfKept' /\ LuaKept'),
             s = "readDev" => ConfKept' \/ "removeShare" \notin A, s = "stripDevBlock" => LuaKept'
      PROVE  GoneInv'
  <2>1. Clears(run[t])'
    BY <1>2, <1>3, <1>4, <1>9 DEF Clears
  <2> QED
    BY <1>1, <1>8, <1>9, <2>1, GoneFollows
<1> HIDE DEF A, B
<1>10. CASE ~DevStep(t)
  <2>1. /\ run'[t].buffer = run[t].buffer
        /\ HasDev(binds'.conf) => HasDev(binds.conf)
        /\ HasDev(binds'.lua) => HasDev(binds.lua)
        /\ "hypr" \in past' => "hypr" \in past
        /\ s \notin {"readDev", "stripDev", "stripDevBlock", "restore", "removeShare"}
    BY <1>1, <1>2, <1>10, ElseNothing
  <2>2. (OwesConf(run[t]) => OwesConf(run'[t])) /\ (OwesLua(run[t]) => OwesLua(run'[t]))
    BY <1>4, <2>1 DEF OwesConf, OwesLua, OwesDev, A, B
  <2>3. (ConfKept => ConfKept') /\ (LuaKept => LuaKept')
    BY <1>1, <2>1, <2>2, OthersOwe
  <2> QED
    BY <1>9, <2>1, <2>3
<1>11. CASE Restore(t)
  <2>1. s = "restore" /\ UNCHANGED past
    BY <1>5, <1>11, Zenon DEF Restore, PopWith
  <2>2. /\ "restore" \notin B /\ "readDev" \in B /\ "stripDev" \in B /\ "removeShare" \in B
        /\ desk.kind = "lua" => "stripDevBlock" \in B
    BY <1>3, <1>4, <2>1 DEF Clearing, A, B
  <2>3. OwesConf(run[t])' /\ (desk.kind = "lua" => OwesLua(run[t])')
    BY <2>2 DEF OwesConf, OwesLua, OwesDev, B
  <2>4. ConfKept' /\ LuaKept'
    BY <1>1, <2>3 DEF ConfKept, LuaKept
  <2> QED
    BY <1>9, <2>1, <2>4
<1>12. CASE ReadConf(t, "Dev")
  <2>1. s = "readDev" /\ UNCHANGED <<binds, past>>
    BY <1>5, <1>12 DEF ReadConf, PopWith
  <2>2. run'[t].buffer = binds.conf
    BY <1>0, <1>12 DEF ReadConf, PopWith, Runs
  <2>3. OwesLua(run[t]) => OwesLua(run'[t])
    BY <1>4, <2>1 DEF OwesLua, OwesDev, A, B
  <2>4. LuaKept => LuaKept'
    BY <1>1, <2>1, <2>3, OthersOwe
  <2>5. CASE "removeShare" \in A /\ HasDev(binds.conf)
    <3>1. "restore" \notin B /\ "stripDev" \in B /\ "removeShare" \in B
      BY <1>3, <1>4, <1>7, <2>1, <2>5 DEF Clearing, A
    <3>2. HasDev(run'[t].buffer)
      BY <2>2, <2>5
    <3>3. OwesConf(run[t])'
      BY <3>1, <3>2 DEF OwesConf, OwesDev, B, HasDev, Content
    <3>4. ConfKept'
      BY <3>3 DEF ConfKept
    <3> QED
      BY <1>9, <2>1, <2>4, <3>4
  <2>6. CASE "removeShare" \in A /\ ~HasDev(binds.conf)
    <3>1. ConfKept'
      BY <2>1, <2>6 DEF ConfKept, HasDev, Content
    <3> QED
      BY <1>9, <2>1, <2>4, <3>1
  <2>7. CASE "removeShare" \notin A
    <3>1. ~OwesConf(run[t])
      BY <2>7 DEF OwesConf, OwesDev, A
    <3>2. ConfKept => ConfKept'
      BY <1>1, <2>1, <3>1, OthersOwe
    <3> QED
      BY <1>9, <2>1, <2>4, <2>7, <3>2
  <2> QED
    BY <2>5, <2>6, <2>7
<1>13. CASE StripConf(t, "Dev")
  <2>1. s = "stripDev" /\ UNCHANGED past
    BY <1>5, <1>13 DEF StripConf, PopWith
  <2>2. /\ binds'.lua = binds.lua
        /\ binds'.conf = IF HasDev(run[t].buffer) THEN {Content(run[t].buffer) \ {"Dev"}} ELSE binds.conf
    BY <1>0, <1>13 DEF StripConf, BindsType, HasDev
  <2>3. HasDev(binds'.conf) => HasDev(binds.conf) /\ ~HasDev(run[t].buffer)
    BY <2>2, DevLines
  <2>4. OwesLua(run[t]) => OwesLua(run'[t])
    BY <1>4, <2>1 DEF OwesLua, OwesDev, A, B
  <2>5. LuaKept => LuaKept'
    BY <1>1, <2>2, <2>3, <2>4, OthersOwe
  <2>6. CASE HasDev(binds'.conf)
    <3>1. ~OwesConf(run[t])
      BY <1>7, <2>1, <2>3, <2>6 DEF OwesConf, A
    <3>2. ConfKept => ConfKept'
      BY <1>1, <2>2, <2>3, <3>1, OthersOwe
    <3> QED
      BY <1>9, <2>1, <2>5, <3>2
  <2>7. CASE ~HasDev(binds'.conf)
    <3>1. ConfKept'
      BY <2>7 DEF ConfKept, HasDev, Content
    <3> QED
      BY <1>9, <2>1, <2>5, <3>1
  <2> QED
    BY <2>6, <2>7
<1>14. CASE StripBlock(t, "Dev")
  <2>1. s = "stripDevBlock" /\ UNCHANGED past
    BY <1>5, <1>14 DEF StripBlock, Pop, PopWith
  <2>2. binds'.conf = binds.conf /\ binds'.lua = {lines \ {"Dev"} : lines \in binds.lua}
    BY <1>0, <1>14 DEF StripBlock, BindsType
  <2>3. ~HasDev(binds'.lua)
    BY <2>2, DevLines
  <2>4. LuaKept'
    BY <2>3 DEF LuaKept, HasDev, Content
  <2>5. run'[t].buffer = run[t].buffer
    BY <1>0, <1>14 DEF StripBlock, Pop, PopWith, Runs
  <2>6. OwesConf(run[t]) => OwesConf(run'[t])
    BY <1>4, <2>1, <2>5 DEF OwesConf, OwesDev, A, B
  <2>7. ConfKept => ConfKept'
    BY <1>1, <2>2, <2>3, <2>6, OthersOwe
  <2> QED
    BY <1>9, <2>1, <2>4, <2>7
<1>15. CASE RemoveShare(t)
  <2>1. s = "removeShare" /\ UNCHANGED binds
    BY <1>5, <1>15 DEF RemoveShare
  <2>2. ~OwesConf(run[t]) /\ ~OwesLua(run[t])
    BY <1>7, <2>1 DEF OwesConf, OwesLua, A
  <2>3. (ConfKept => ConfKept') /\ (LuaKept => LuaKept')
    BY <1>1, <2>1, <2>2, OthersOwe
  <2>4. past' = IF run[t].whole THEN past \cup {"hypr"} ELSE past
    BY <1>15 DEF RemoveShare, Establish
  <2>5. run[t].whole => ConfKept /\ LuaKept
    BY <1>3, <1>4, <1>7, <2>1 DEF Clears, A
  <2> QED
    BY <1>9, <2>1, <2>3, <2>4, <2>5
<1> QED
  BY <1>10, <1>11, <1>12, <1>13, <1>14, <1>15 DEF DevStep

\* An install is alone, and nothing has been established beside it.
LEMMA InstallsGone ==
  ASSUME TypeInv, TearInv, GoneInv, NEW t \in Terminals, Takings(t), Installing(run[t])
  PROVE  GoneInv'
<1>0. RunsOK /\ run[t] \in Runs /\ Good(run[t])
  BY DEF TypeInv, RunsOK, Shape
<1>1. UNCHANGED desk /\ \E z : Taking(t, z)
  BY TakingsTake
<1>2. PICK s : Taking(t, s)
  BY <1>1
<1>3. /\ run[t] # Idle /\ Ahead(run'[t].todo) \subseteq Ahead(run[t].todo)
      /\ \A u \in Terminals \ {t} : run'[u] = run[u]
      /\ run'[t].name = run[t].name /\ run'[t].tearing = run[t].tearing
  BY <1>2 DEF Taking
<1>4. Scope(run[t]) \subseteq Doing /\ ~Tears(run[t])
  BY DEF Installing, Busy, Scope, Tears
<1>5. Starts(t)
  BY <1>0, <1>3, <1>4, Zenon DEF Good, Starts, Tears
<1>6. Clearing(run[t])' /\ Clears(run[t])'
  BY <1>1, <1>5, StartsGone
<1>7. \A u \in Terminals \ {t} : Ahead(run'[u].todo) = Ahead(run[u].todo) /\ (run'[u].whole => run[u] = Idle)
  BY <1>0, <1>3, TwoModes
<1>8. past' = {}
  BY InstallsPast
<1> QED
  BY <1>1, <1>6, <1>7, <1>8, FaultGone

LEMMA StepGone == TypeInv /\ LeftInv /\ GoneInv /\ [Next]_vars => GoneInv'
<1> SUFFICES ASSUME TypeInv, LeftInv, GoneInv, [Next]_vars PROVE GoneInv'
  OBVIOUS
<1>1. CASE UNCHANGED vars
  <2>1. UNCHANGED <<desk, binds, run, past>>
    BY <1>1 DEF vars
  <2>2. (ConfKept => ConfKept') /\ (LuaKept => LuaKept')
    BY <2>1 DEF ConfKept, LuaKept, OwesConf, OwesLua, OwesDev, HasDev, Content
  <2>3. ASSUME NEW t \in Terminals PROVE Clearing(run[t])' /\ Clears(run[t])'
    <3>1. Clearing(run[t]) /\ Clears(run[t])
      BY DEF GoneInv
    <3> QED
      BY <2>1, <2>2, <3>1 DEF Clearing, Clears
  <2> QED
    BY <2>1, <2>2, <2>3 DEF GoneInv
<1>2. CASE Next
  <2>1. PICK t \in Terminals : Begins(t) \/ Installs(t) \/ Uninstalls(t) \/ Sessions(t) \/ Fail(t) \/ Kill(t)
    BY <1>2 DEF Next
  <2>2. CASE Takings(t) /\ Installing(run[t])
    BY <2>2, InstallsGone DEF LeftInv
  <2>3. CASE Takings(t) /\ ~Installing(run[t])
    <3>1. PICK s : Undone(t, s)
      BY <2>3, TakingsUndone
    <3> QED
      BY <3>1, UndoneGone
  <2> QED
    BY <2>1, <2>2, <2>3, KindsOfSteps, BeginsGone, DetoursGone, EndingsGone
<1> QED
  BY <1>1, <1>2

\* What an uninstall or a leave that ran whole promises, for any number of shells, commands and
\* faults: no line of dev is left and prod's source line is in hyprland.conf if prod is installed,
\* while on a Lua desktop prod's block in bindings.lua is not promised; the bar is prod's or the
\* user's; no marker and no dev daemon stay, and prod serves if its unit is enabled
\* (uninstall_hypr, uninstall_waybar, teardown_dev_session of dev.sh).
THEOREM UninstallKeepsPromises == Spec => []Left
<1> DEFINE Inv == TypeInv /\ ShareInv /\ Marked /\ GoneInv /\ LeftInv
<1>1. Inv /\ [Next]_vars => Inv'
  BY NextTyped, StepShare, StepMarked, StepGone, StepLeft
<1>2. Init => Inv
  BY InitTyped, InitShare, InitMarked, InitGone, InitLeft
<1>3. Inv => Left
  <2> SUFFICES ASSUME ShareInv, GoneInv, LeftInv, Quiet PROVE
          /\ "hypr" \in past =>
                 /\ ~DevIntegrationInstalled
                 /\ desk.kind # "lua" /\ saved.hypr["Prod"] # {} => "Prod" \in Content(binds.conf)
          /\ "bar" \in past => \A b \in bar :
                 IF desk.packaged /\ saved.bar["Prod"] # {} THEN b.tsk = "Prod" ELSE b.tsk = "none" /\ b.stock
          /\ "session" \in past => ~session.marker /\ ~session.devUp /\ (tools.enabled => session.prodUp)
    BY DEF Left
  <2>1. ASSUME NEW t \in Terminals
        PROVE  ~Owes(run[t]) /\ ~OwesBar(run[t]) /\ ~OwesConf(run[t]) /\ ~OwesLua(run[t])
    <3>1. Ahead(run[t].todo) = {}
      BY IdleSafe DEF Quiet
    <3> QED
      BY <3>1 DEF Owes, OwesBar, OwesConf, OwesLua, OwesDev
  <2>2. "hypr" \in past => Prodded
    BY <2>1 DEF LeftInv, LinesLeft, ProdKept
  <2>3. desk.kind # "lua" => ~HasDev(binds.lua)
    BY IdleSafe DEF ShareInv, FilesSafe
  <2>4. "hypr" \in past => ~DevIntegrationInstalled
    BY <2>1, <2>3 DEF GoneInv, ConfKept, LuaKept, DevIntegrationInstalled, HasDev
  <2>5. "bar" \in past => BarRight
    BY <2>1 DEF LeftInv, BarLeft, BarKept
  <2>6. "session" \in past => Over
    BY DEF LeftInv, SessionLeft
  <2> QED
    BY <2>2, <2>4, <2>5, <2>6 DEF Prodded, BarRight, BarOurs, Over
<1> QED
  BY <1>1, <1>2, <1>3, PTL DEF Spec
=============================================================================
