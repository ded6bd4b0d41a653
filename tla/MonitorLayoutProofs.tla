------------------------ MODULE MonitorLayoutProofs -------------------------
(***************************************************************************)
(* Proofs about MonitorLayout, for any finite set of monitors, any          *)
(* taskspaces and slots, and any number of hotplugs, moves and switches:    *)
(* Hyprland's and the session's data stay well-formed, no slot is kept for  *)
(* a monitor that is gone, an undisturbed restore puts every monitor on its *)
(* planned workspace, an undisturbed reconcile leaves nothing foreign in    *)
(* sight, and no event of the first hotplug changes the taskspace.          *)
(***************************************************************************)
EXTENDS MonitorLayout, FiniteSetTheorems, NaturalsInduction, SequenceTheorems, TLAPS

USE LayoutAssumption

-----------------------------------------------------------------------------
(* Least and greatest numbers. *)

LEMMA LeastExists ==
  ASSUME NEW S \in SUBSET Nat, S # {}
  PROVE  \E x \in S : \A y \in S : x <= y
<1>1. \E x \in S : \A y \in S : ~(<<y, x>> \in OpToRel(<, Nat))
  BY WFMin, NatLessThanWellFounded, Zenon
<1>2. PICK x \in S : \A y \in S : ~(y < x)
  BY <1>1, Zenon DEF OpToRel
<1>3. \A y \in S : x <= y
  BY <1>2
<1> QED
  BY <1>3

LEMMA MinIsLeast ==
  ASSUME NEW S \in SUBSET Nat, S # {}
  PROVE  Min(S) \in S /\ \A y \in S : Min(S) <= y
BY LeastExists DEF Min

\* A finite set of numbers has a bound: the smallest one without would have an element
\* less with one.
LEMMA FiniteBound ==
  ASSUME NEW S \in SUBSET Nat, IsFiniteSet(S)
  PROVE  \E u \in Nat : \A s \in S : s <= u
<1> DEFINE Bounded(T) == \E u \in Nat : \A s \in T : s <= u
           Bad == {n \in Nat : \E T \in SUBSET Nat : IsFiniteSet(T) /\ Cardinality(T) = n /\ ~Bounded(T)}
<1>1. SUFFICES Bad = {}
  <2>1. Cardinality(S) \in Nat
    BY FS_CardinalityType
  <2> QED
    BY <1>1, <2>1
<1>2. SUFFICES ASSUME Bad # {}
               PROVE  FALSE
  OBVIOUS
<1>3. PICK n \in Bad : \A k \in Bad : n <= k
  BY <1>2, LeastExists
<1>4. PICK T \in SUBSET Nat : IsFiniteSet(T) /\ Cardinality(T) = n /\ ~Bounded(T)
  BY <1>3
<1>5. T # {}
  BY <1>4
<1>6. PICK x \in T : TRUE
  BY <1>5
<1>7. IsFiniteSet(T \ {x}) /\ Cardinality(T \ {x}) = n - 1
  BY <1>4, <1>6, FS_RemoveElement
<1>8. n - 1 \in Nat
  BY <1>7, FS_CardinalityType
<1>9. n - 1 \notin Bad
  <2>1. n \in Nat /\ n - 1 < n
    OBVIOUS
  <2> HIDE DEF Bad
  <2> QED
    BY <1>3, <1>8, <2>1
<1>10. T \ {x} \in SUBSET Nat
  OBVIOUS
<1>11. Bounded(T \ {x})
  BY <1>7, <1>8, <1>9, <1>10
<1>12. PICK u \in Nat : \A s \in T \ {x} : s <= u
  BY <1>11
<1>13. x \in Nat
  BY <1>6
<1>14. \A s \in T : s <= u + x
  BY <1>12, <1>13
<1>15. u + x \in Nat
  BY <1>13
<1> QED
  BY <1>4, <1>14, <1>15

LEMMA MaxIsElement ==
  ASSUME NEW S \in SUBSET Nat, IsFiniteSet(S), S # {}
  PROVE  Max(S) \in S
<1> DEFINE U == {u \in Nat : \A s \in S : s <= u}
<1>1. U # {}
  BY FiniteBound
<1>2. PICK u \in U : \A v \in U : u <= v
  BY <1>1, LeastExists
<1>3. u \in S
  <2>1. SUFFICES ASSUME u \notin S
                 PROVE  FALSE
    OBVIOUS
  <2>2. \A s \in S : s <= u /\ s # u /\ s \in Nat
    BY <1>2, <2>1
  <2>3. PICK x \in S : TRUE
    OBVIOUS
  <2>4. u - 1 \in Nat
    BY <1>2, <2>2, <2>3
  <2>5. \A s \in S : s <= u - 1
    BY <1>2, <2>2
  <2> QED
    BY <1>2, <2>4, <2>5
<1>4. \A s \in S : u >= s
  BY <1>2
<1> QED
  BY <1>3, <1>4 DEF Max

\* The monitors that are connected are finitely many numbers.
LEMMA MonitorSets ==
  ASSUME NEW S \in SUBSET Monitors
  PROVE  /\ IsFiniteSet(S) /\ S \in SUBSET Nat
         /\ S # {} => Max(S) \in S /\ Min(S) \in S
<1>1. IsFiniteSet(S)
  BY FS_Subset
<1>2. S \in SUBSET Nat
  OBVIOUS
<1> QED
  BY <1>1, <1>2, MaxIsElement, MinIsLeast

-----------------------------------------------------------------------------
(* Workspaces. *)

LEMMA NameFacts ==
  /\ \A c \in Spaces, s \in 1..Slots : Name(c, s) \in Names /\ SlotOf(Name(c, s)) = s /\ Name(c, s) \in Allowed(c)
  /\ \A c \in Spaces, s, r \in 1..Slots : Name(c, s) = Name(c, r) => s = r
  /\ \A c \in Spaces, s \in (1..Slots) \ Global : Name(c, s) \in Owned(c)
  /\ \A c \in Spaces : Allowed(c) \subseteq Names /\ Owned(c) \subseteq Allowed(c)
  /\ \A c \in Spaces : \A w \in Allowed(c) : SlotOf(w) \in 1..Slots
  /\ \A m \in Monitors : Unmanaged(m) \in Names
  /\ Topology \notin Names /\ ~Managed(Topology)
BY DEF Name, Names, SlotOf, Allowed, Owned, Unmanaged, Topology, Managed

LEMMA ManagedFacts ==
  ASSUME NEW c \in Spaces, NEW w \in Names, Managed(w)
  PROVE  SlotOf(w) \in 1..Slots /\ Target(c, w) \in Spaces /\ w[1] \in Spaces
BY DEF Names, Unmanaged, Managed, SlotOf, Target

-----------------------------------------------------------------------------
(* Hyprland. *)

Desks ==
    [shown : UNION {[live -> Names] : live \in SUBSET Monitors},
     at : UNION {[ws -> Monitors] : ws \in SUBSET Names},
     focused : Monitors]

\* Every monitor shows a workspace that lives there, and no workspace lives elsewhere.
Sane(h) ==
    /\ h \in Desks
    /\ h.focused \in Connected(h)
    /\ \A m \in Connected(h) : h.shown[m] \in DOMAIN h.at /\ h.at[h.shown[m]] = m
    /\ \A w \in DOMAIN h.at : h.at[w] \in Connected(h)

LEMMA DeskFacts ==
  ASSUME NEW h \in Desks
  PROVE  /\ Connected(h) \in SUBSET Monitors /\ h.shown \in [Connected(h) -> Names]
         /\ DOMAIN h.at \in SUBSET Names /\ h.at \in [DOMAIN h.at -> Monitors]
         /\ h.focused \in Monitors
         /\ h = [shown |-> h.shown, at |-> h.at, focused |-> h.focused]
BY DEF Desks, Connected

LEMMA DeskMade ==
  ASSUME NEW live \in SUBSET Monitors, NEW shown \in [live -> Names],
         NEW ws \in SUBSET Names, NEW at \in [ws -> Monitors], NEW focused \in Monitors
  PROVE  [shown |-> shown, at |-> at, focused |-> focused] \in Desks
BY DEF Desks

LEMMA SaneFacts ==
  ASSUME NEW h, Sane(h)
  PROVE  /\ h \in Desks /\ Connected(h) \in SUBSET Monitors /\ Connected(h) # {}
         /\ h.focused \in Connected(h) /\ Active(h) \in Names
         /\ \A m, n \in Connected(h) : h.shown[m] = h.shown[n] => m = n
BY DeskFacts DEF Sane, Active

LEMMA ShowFacts ==
  ASSUME NEW h \in Desks, NEW m \in Connected(h), NEW w \in Names
  PROVE  /\ Show(h, m, w) \in Desks
         /\ Connected(Show(h, m, w)) = Connected(h) /\ Show(h, m, w).focused = h.focused
         /\ Show(h, m, w).shown[m] = w
         /\ \A n \in Connected(h) \ {m} : Show(h, m, w).shown[n] = h.shown[n]
         /\ DOMAIN Show(h, m, w).at = DOMAIN h.at \cup {w} /\ Show(h, m, w).at[w] = m
         /\ \A x \in DOMAIN h.at \ {w} : Show(h, m, w).at[x] = h.at[x]
<1> DEFINE shown == [h.shown EXCEPT ![m] = w]
           at == [x \in DOMAIN h.at \cup {w} |-> IF x = w THEN m ELSE h.at[x]]
           g == [h EXCEPT !.shown = shown, !.at = at]
<1>1. Show(h, m, w) = g
  BY Zenon DEF Show
<1>2. shown \in [Connected(h) -> Names] /\ shown[m] = w /\ \A n \in Connected(h) \ {m} : shown[n] = h.shown[n]
  BY DeskFacts
<1>3. m \in Monitors /\ DOMAIN h.at \cup {w} \in SUBSET Names
  BY DeskFacts
<1>4. at \in [DOMAIN h.at \cup {w} -> Monitors]
  BY <1>3, DeskFacts
<1> HIDE DEF shown, at
<1>5. shown \in UNION {[live -> Names] : live \in SUBSET Monitors}
  BY <1>2, DeskFacts
<1>8. at \in UNION {[ws -> Monitors] : ws \in SUBSET Names}
  BY <1>3, <1>4
<1>7. g \in Desks /\ g.shown = shown /\ g.at = at /\ g.focused = h.focused
  BY <1>5, <1>8 DEF Desks
<1>6. DOMAIN at = DOMAIN h.at \cup {w} /\ at[w] = m /\ \A x \in DOMAIN h.at \ {w} : at[x] = h.at[x]
  BY DEF at
<1> HIDE DEF g
<1> QED
  BY <1>1, <1>2, <1>6, <1>7 DEF Connected

\* What a dispatch that puts w on monitor m does to the others.
Puts(h, g, m, w) ==
    /\ Sane(g) /\ Connected(g) = Connected(h)
    /\ g.shown[m] = w
    /\ \A n \in Connected(h) \ {m} : h.shown[n] # w => g.shown[n] = h.shown[n]

LEMMA ShowSane ==
  ASSUME NEW h, Sane(h), NEW m \in Connected(h), NEW w \in Names,
         \A n \in Connected(h) \ {m} : h.shown[n] # w
  PROVE  Puts(h, Show(h, m, w), m, w) /\ Show(h, m, w).focused = h.focused
<1> DEFINE g == Show(h, m, w)
<1>1. h \in Desks
  BY SaneFacts
<1>2. /\ g \in Desks
      /\ Connected(g) = Connected(h) /\ g.focused = h.focused
      /\ g.shown[m] = w
      /\ \A n \in Connected(h) \ {m} : g.shown[n] = h.shown[n]
      /\ DOMAIN g.at = DOMAIN h.at \cup {w} /\ g.at[w] = m
      /\ \A x \in DOMAIN h.at \ {w} : g.at[x] = h.at[x]
  BY <1>1, ShowFacts
<1> HIDE DEF g
<1>3. \A n \in Connected(h) : g.shown[n] \in DOMAIN g.at /\ g.at[g.shown[n]] = n
  BY <1>2 DEF Sane
<1>4. \A x \in DOMAIN g.at : g.at[x] \in Connected(h)
  BY <1>2 DEF Sane
<1> QED
  BY <1>2, <1>3, <1>4 DEF Sane, Puts, g

LEMMA SwapSane ==
  ASSUME NEW h, Sane(h), NEW m \in Connected(h), NEW n \in Connected(h)
  PROVE  Puts(h, SwapActive(h, m, n), m, h.shown[n]) /\ SwapActive(h, m, n).focused = h.focused
<1> DEFINE f == Show(h, m, h.shown[n])
           g == Show(f, n, h.shown[m])
<1>1. h \in Desks /\ h.shown[m] \in Names /\ h.shown[n] \in Names
  BY SaneFacts, DeskFacts
<1>2. /\ f \in Desks
      /\ Connected(f) = Connected(h) /\ f.focused = h.focused
      /\ f.shown[m] = h.shown[n]
      /\ \A k \in Connected(h) \ {m} : f.shown[k] = h.shown[k]
      /\ DOMAIN f.at = DOMAIN h.at \cup {h.shown[n]} /\ f.at[h.shown[n]] = m
      /\ \A x \in DOMAIN h.at \ {h.shown[n]} : f.at[x] = h.at[x]
  BY <1>1, ShowFacts
<1> HIDE DEF f
<1>3. /\ g \in Desks
      /\ Connected(g) = Connected(f) /\ g.focused = f.focused
      /\ g.shown[n] = h.shown[m]
      /\ \A k \in Connected(f) \ {n} : g.shown[k] = f.shown[k]
      /\ DOMAIN g.at = DOMAIN f.at \cup {h.shown[m]} /\ g.at[h.shown[m]] = n
      /\ \A x \in DOMAIN f.at \ {h.shown[m]} : g.at[x] = f.at[x]
  <2> DEFINE w == h.shown[m]
  <2>1. f \in Desks /\ n \in Connected(f) /\ w \in Names
    BY <1>1, <1>2
  <2> HIDE DEF w
  <2>2. /\ Show(f, n, w) \in Desks
        /\ Connected(Show(f, n, w)) = Connected(f) /\ Show(f, n, w).focused = f.focused
        /\ Show(f, n, w).shown[n] = w
        /\ \A k \in Connected(f) \ {n} : Show(f, n, w).shown[k] = f.shown[k]
        /\ DOMAIN Show(f, n, w).at = DOMAIN f.at \cup {w} /\ Show(f, n, w).at[w] = n
        /\ \A x \in DOMAIN f.at \ {w} : Show(f, n, w).at[x] = f.at[x]
    BY <2>1, ShowFacts
  <2> QED
    BY <2>2 DEF w
<1> HIDE DEF g
<1>4. \A k, j \in Connected(h) : h.shown[k] = h.shown[j] => k = j
  BY SaneFacts
<1>5. /\ Connected(g) = Connected(h) /\ g.focused = h.focused
      /\ g.shown[m] = h.shown[n] /\ g.shown[n] = h.shown[m]
      /\ \A k \in Connected(h) \ {m, n} : g.shown[k] = h.shown[k]
  BY <1>2, <1>3
<1>6. DOMAIN g.at = DOMAIN h.at
  BY <1>2, <1>3 DEF Sane
<1>7. g.at[h.shown[m]] = n /\ g.at[h.shown[n]] = m
  BY <1>2, <1>3, <1>4, <1>6 DEF Sane
<1>8. \A x \in DOMAIN h.at \ {h.shown[m], h.shown[n]} : g.at[x] = h.at[x]
  BY <1>2, <1>3, <1>6
<1>9. \A k \in Connected(h) : g.shown[k] \in DOMAIN g.at /\ g.at[g.shown[k]] = k
  <2>1. TAKE k \in Connected(h)
  <2>2. CASE k \in {m, n}
    BY <1>5, <1>6, <1>7, <2>2 DEF Sane
  <2>3. CASE k \notin {m, n}
    <3>1. g.shown[k] = h.shown[k] /\ h.shown[k] # h.shown[m] /\ h.shown[k] # h.shown[n]
      BY <1>4, <1>5, <2>3
    <3> QED
      BY <1>6, <1>8, <3>1 DEF Sane
  <2> QED
    BY <2>2, <2>3
<1>10. \A x \in DOMAIN g.at : g.at[x] \in Connected(h)
  BY <1>6, <1>7, <1>8 DEF Sane
<1>11. Sane(g)
  BY <1>3, <1>5, <1>9, <1>10 DEF Sane
<1>12. Puts(h, g, m, h.shown[n]) /\ g.focused = h.focused
  BY <1>5, <1>11 DEF Puts
<1> QED
  BY <1>12 DEF g, f, SwapActive

\* `workspace`: the focus ends on w, nothing else changes.
LEMMA GoToSane ==
  ASSUME NEW h, Sane(h), NEW w \in Names
  PROVE  /\ Sane(GoTo(h, w)) /\ Connected(GoTo(h, w)) = Connected(h)
         /\ Active(GoTo(h, w)) = w
<1> DEFINE m == IF w \in DOMAIN h.at THEN h.at[w] ELSE h.focused
           f == Show(h, m, w)
           g == [f EXCEPT !.focused = m]
<1>1. m \in Connected(h)
  BY DEF Sane
<1>2. \A n \in Connected(h) \ {m} : h.shown[n] # w
  BY DEF Sane
<1> HIDE DEF m
<1>3. Puts(h, f, m, w)
  BY <1>1, <1>2, ShowSane
<1> HIDE DEF f
<1>4. f \in Desks /\ m \in Connected(f) /\ m \in Monitors
  BY <1>1, <1>3, SaneFacts DEF Puts
<1>5. g \in Desks /\ g.shown = f.shown /\ g.at = f.at /\ g.focused = m
  BY <1>4 DEF Desks
<1> HIDE DEF g
<1>6. Sane(g) /\ Connected(g) = Connected(h) /\ Active(g) = w
  BY <1>3, <1>4, <1>5 DEF Sane, Puts, Connected, Active
<1>7. GoTo(h, w) = g
  BY DEF GoTo, g, f, m
<1> QED
  BY <1>6, <1>7

LEMMA FocusSane ==
  ASSUME NEW h, Sane(h), NEW m
  PROVE  /\ Sane(FocusMonitor(h, m)) /\ Connected(FocusMonitor(h, m)) = Connected(h)
         /\ FocusMonitor(h, m).shown = h.shown
         /\ m \in Connected(h) => FocusMonitor(h, m).focused = m
<1>1. CASE m \in Connected(h)
  <2> DEFINE g == [h EXCEPT !.focused = m]
  <2>1. h \in Desks /\ m \in Monitors
    BY <1>1, SaneFacts
  <2>2. g \in Desks /\ g.shown = h.shown /\ g.at = h.at /\ g.focused = m
    BY <2>1 DEF Desks
  <2> HIDE DEF g
  <2>3. FocusMonitor(h, m) = g
    BY <1>1 DEF FocusMonitor, g
  <2> QED
    BY <1>1, <2>2, <2>3 DEF Sane, Connected
<1>2. CASE m \notin Connected(h)
  BY <1>2 DEF FocusMonitor
<1> QED
  BY <1>1, <1>2

LEMMA GoHereSane ==
  ASSUME NEW h, Sane(h), NEW w \in Names
  PROVE  Puts(h, GoHere(h, w), h.focused, w) /\ GoHere(h, w).focused = h.focused
<1> DEFINE holders == {m \in Connected(h) : h.shown[m] = w}
           n == CHOOSE m \in holders : TRUE
<1>1. h.focused \in Connected(h)
  BY DEF Sane
<1>2. CASE holders # {}
  <2>1. n \in Connected(h) /\ h.shown[n] = w
    BY <1>2
  <2>2. GoHere(h, w) = SwapActive(h, h.focused, n)
    BY <1>2 DEF GoHere
  <2> HIDE DEF n
  <2> QED
    BY <1>1, <2>1, <2>2, SwapSane
<1>3. CASE holders = {}
  <2>1. GoHere(h, w) = Show(h, h.focused, w)
    BY <1>3 DEF GoHere
  <2>2. \A m \in Connected(h) \ {h.focused} : h.shown[m] # w
    BY <1>3
  <2> QED
    BY <1>1, <2>1, <2>2, ShowSane
<1> QED
  BY <1>2, <1>3

\* switch_workspace_on_monitor.
LEMMA SwitchOnSane ==
  ASSUME NEW h, Sane(h), NEW m, NEW w \in Names
  PROVE  /\ Sane(SwitchOn(h, m, w)) /\ Connected(SwitchOn(h, m, w)) = Connected(h)
         /\ m \in Connected(h) => Puts(h, SwitchOn(h, m, w), m, w)
<1> DEFINE f == FocusMonitor(h, m)
<1>1. Sane(f) /\ Connected(f) = Connected(h) /\ f.shown = h.shown /\ (m \in Connected(h) => f.focused = m)
  BY FocusSane
<1>2. SwitchOn(h, m, w) = GoHere(f, w)
  BY DEF SwitchOn
<1> HIDE DEF f
<1>3. Puts(f, GoHere(f, w), f.focused, w)
  BY <1>1, GoHereSane
<1> QED
  BY <1>1, <1>2, <1>3 DEF Puts

-----------------------------------------------------------------------------
(* The user and the hardware. *)

LEMMA VanishSane ==
  ASSUME NEW h, Sane(h), NEW w \in Hidden(h)
  PROVE  LET g == [h EXCEPT !.at = Restrict(h.at, DOMAIN h.at \ {w})]
         IN  Sane(g) /\ Connected(g) = Connected(h) /\ g.shown = h.shown
<1> DEFINE at == Restrict(h.at, DOMAIN h.at \ {w})
           g == [h EXCEPT !.at = at]
<1>1. h \in Desks /\ DOMAIN h.at \in SUBSET Names /\ h.at \in [DOMAIN h.at -> Monitors]
  BY SaneFacts, DeskFacts
<1>2. /\ at \in [DOMAIN h.at \ {w} -> Monitors]
      /\ \A x \in DOMAIN h.at \ {w} : at[x] = h.at[x]
  BY <1>1 DEF Restrict
<1> HIDE DEF at
<1>3. DOMAIN at = DOMAIN h.at \ {w} /\ at \in UNION {[ws -> Monitors] : ws \in SUBSET Names}
  BY <1>1, <1>2
<1>4. g \in Desks /\ g.shown = h.shown /\ g.at = at /\ g.focused = h.focused
  BY <1>1, <1>3 DEF Desks
<1> HIDE DEF g
<1>5. \A m \in Connected(h) : h.shown[m] # w
  BY DEF Hidden
<1>6. Sane(g) /\ Connected(g) = Connected(h) /\ g.shown = h.shown
  BY <1>2, <1>3, <1>4, <1>5 DEF Sane, Connected
<1> QED
  BY <1>6 DEF g, at

\* A workspace no monitor shows.
LEMMA ParkedFacts ==
  ASSUME NEW h, Sane(h), NEW w \in Hidden(h) \cup Unused(h)
  PROVE  w \in Names /\ \A m \in Connected(h) : h.shown[m] # w
<1>1. CASE w \in Hidden(h)
  BY <1>1, SaneFacts, DeskFacts DEF Hidden
<1>2. CASE w \in Unused(h)
  <2>1. PICK n \in Monitors : w = Unmanaged(n) /\ Unmanaged(n) \notin DOMAIN h.at
    BY <1>2 DEF Unused
  <2> QED
    BY <2>1, NameFacts DEF Sane
<1> QED
  BY <1>1, <1>2

LEMMA PlugSane ==
  ASSUME NEW h, Sane(h), NEW m \in Monitors \ Connected(h), NEW w \in Hidden(h) \cup Unused(h)
  PROVE  LET g == Show([h EXCEPT !.shown = [n \in Connected(h) \cup {m} |-> IF n = m THEN w ELSE h.shown[n]]], m, w)
         IN  /\ Sane(g) /\ Sane([g EXCEPT !.focused = m])
             /\ Active([g EXCEPT !.focused = m]) = w
<1> DEFINE shown == [n \in Connected(h) \cup {m} |-> IF n = m THEN w ELSE h.shown[n]]
           f == [h EXCEPT !.shown = shown]
           g == Show(f, m, w)
           g2 == [g EXCEPT !.focused = m]
<1>1. h \in Desks /\ Connected(h) \in SUBSET Monitors /\ h.shown \in [Connected(h) -> Names]
  BY SaneFacts, DeskFacts
<1>2. w \in Names /\ \A n \in Connected(h) : h.shown[n] # w
  BY ParkedFacts
<1>3. /\ shown \in [Connected(h) \cup {m} -> Names]
      /\ shown[m] = w /\ \A n \in Connected(h) : shown[n] = h.shown[n]
  BY <1>1, <1>2
<1> HIDE DEF shown
<1>4. shown \in UNION {[live -> Names] : live \in SUBSET Monitors} /\ DOMAIN shown = Connected(h) \cup {m}
  BY <1>1, <1>3
<1>5. f \in Desks /\ f.shown = shown /\ f.at = h.at /\ f.focused = h.focused
  BY <1>1, <1>4 DEF Desks
<1> HIDE DEF f
<1>6. m \in Connected(f) /\ Connected(f) = Connected(h) \cup {m}
  BY <1>4, <1>5 DEF Connected
<1>7. /\ g \in Desks
      /\ Connected(g) = Connected(f) /\ g.focused = f.focused
      /\ g.shown[m] = w
      /\ \A n \in Connected(f) \ {m} : g.shown[n] = f.shown[n]
      /\ DOMAIN g.at = DOMAIN f.at \cup {w} /\ g.at[w] = m
      /\ \A x \in DOMAIN f.at \ {w} : g.at[x] = f.at[x]
  BY <1>2, <1>5, <1>6, ShowFacts
<1> HIDE DEF g
<1>8. \A n \in Connected(g) : g.shown[n] \in DOMAIN g.at /\ g.at[g.shown[n]] = n
  <2>1. TAKE n \in Connected(g)
  <2>2. CASE n = m
    BY <1>7, <2>2
  <2>3. CASE n # m
    BY <1>2, <1>3, <1>5, <1>6, <1>7, <2>3 DEF Sane
  <2> QED
    BY <2>2, <2>3
<1>9. \A x \in DOMAIN g.at : g.at[x] \in Connected(g)
  BY <1>5, <1>6, <1>7 DEF Sane
<1>10. Sane(g)
  BY <1>5, <1>6, <1>7, <1>8, <1>9 DEF Sane
<1>11. g2 \in Desks /\ g2.shown = g.shown /\ g2.at = g.at /\ g2.focused = m
  BY <1>7 DEF Desks
<1> HIDE DEF g2
<1>12. Sane(g2) /\ Active(g2) = w
  BY <1>6, <1>7, <1>8, <1>9, <1>11 DEF Sane, Connected, Active
<1> QED
  BY <1>10, <1>12 DEF g, g2, f, shown

LEMMA UnplugSane ==
  ASSUME NEW h, Sane(h), NEW m \in Connected(h), NEW n \in Connected(h), m # n
  PROVE  Sane([shown |-> Restrict(h.shown, Connected(h) \ {m}),
               at |-> [w \in DOMAIN h.at |-> IF h.at[w] = m THEN n ELSE h.at[w]],
               focused |-> IF h.focused = m THEN n ELSE h.focused])
<1> DEFINE shown == Restrict(h.shown, Connected(h) \ {m})
           at == [w \in DOMAIN h.at |-> IF h.at[w] = m THEN n ELSE h.at[w]]
           focused == IF h.focused = m THEN n ELSE h.focused
           g == [shown |-> shown, at |-> at, focused |-> focused]
<1>1. /\ Connected(h) \in SUBSET Monitors /\ h.shown \in [Connected(h) -> Names]
      /\ DOMAIN h.at \in SUBSET Names /\ h.at \in [DOMAIN h.at -> Monitors]
      /\ h.focused \in Connected(h)
  BY SaneFacts, DeskFacts
<1>2. shown \in [Connected(h) \ {m} -> Names] /\ \A k \in Connected(h) \ {m} : shown[k] = h.shown[k]
  BY <1>1 DEF Restrict
<1>3. at \in [DOMAIN h.at -> Monitors] /\ \A w \in DOMAIN h.at : at[w] = IF h.at[w] = m THEN n ELSE h.at[w]
  BY <1>1
<1>4. focused \in Connected(h) \ {m} /\ focused \in Monitors
  BY <1>1
<1> HIDE DEF shown, at, focused
<1>5. g \in Desks /\ g.shown = shown /\ g.at = at /\ g.focused = focused
  BY <1>1, <1>2, <1>3, <1>4, DeskMade
<1>6. Connected(g) = Connected(h) \ {m} /\ DOMAIN g.at = DOMAIN h.at
  BY <1>2, <1>3 DEF Connected
<1> HIDE DEF g
<1>7. \A k \in Connected(g) : g.shown[k] \in DOMAIN g.at /\ g.at[g.shown[k]] = k
  BY <1>2, <1>3, <1>5, <1>6 DEF Sane
<1>8. \A w \in DOMAIN g.at : g.at[w] \in Connected(g)
  BY <1>3, <1>5, <1>6 DEF Sane
<1>9. Sane(g)
  BY <1>4, <1>5, <1>6, <1>7, <1>8 DEF Sane
<1> QED
  BY <1>9 DEF g, shown, at, focused

-----------------------------------------------------------------------------
(* The memory of the layout. *)

SlotMaps == UNION {[live -> 1..Slots] : live \in SUBSET Monitors}

LEMMA SlotMapFacts ==
  ASSUME NEW f \in SlotMaps
  PROVE  /\ DOMAIN f \in SUBSET Monitors /\ f \in [DOMAIN f -> 1..Slots]
         /\ Range(f) \in SUBSET (1..Slots)
         /\ \A m \in DOMAIN f : f[m] \in Range(f)
BY DEF SlotMaps, Range

LEMMA SlotMapMade ==
  ASSUME NEW live \in SUBSET Monitors, NEW f \in [live -> 1..Slots]
  PROVE  f \in SlotMaps
BY DEF SlotMaps

LEMMA SessionFacts ==
  ASSUME NEW s \in Sessions
  PROVE  /\ s.cur \in Spaces /\ s.last \in [Spaces -> 1..Slots] /\ s.layout \in [Spaces -> SlotMaps]
         /\ \A c \in Spaces : s.layout[c] \in SlotMaps /\ s.last[c] \in 1..Slots
BY DEF Sessions, Layouts, SlotMaps

\* What the session remembers is about these monitors.
About(lay, live) == \A c \in Spaces : DOMAIN lay[c] \subseteq live

LEMMA PruneFacts ==
  ASSUME NEW lay \in [Spaces -> SlotMaps], NEW live \in SUBSET Monitors, live # {}
  PROVE  /\ Prune(lay, live) \in [Spaces -> SlotMaps] /\ About(Prune(lay, live), live)
         /\ \A c \in Spaces : /\ DOMAIN Prune(lay, live)[c] = DOMAIN lay[c] \cap live
                              /\ \A m \in DOMAIN lay[c] \cap live : Prune(lay, live)[c][m] = lay[c][m]
<1> DEFINE kept(c) == Restrict(lay[c], DOMAIN lay[c] \cap live)
<1>1. Prune(lay, live) = [c \in Spaces |-> kept(c)]
  BY DEF Prune
<1>2. ASSUME NEW c \in Spaces
      PROVE  /\ kept(c) \in [DOMAIN lay[c] \cap live -> 1..Slots]
             /\ \A m \in DOMAIN lay[c] \cap live : kept(c)[m] = lay[c][m]
  <2>1. lay[c] \in SlotMaps
    OBVIOUS
  <2> QED
    BY <2>1, SlotMapFacts DEF Restrict
<1> HIDE DEF kept
<1>3. \A c \in Spaces : kept(c) \in SlotMaps /\ DOMAIN kept(c) = DOMAIN lay[c] \cap live
  BY <1>2, SlotMapMade
<1>4. Prune(lay, live) \in [Spaces -> SlotMaps]
  BY <1>1, <1>3
<1>5. \A c \in Spaces : Prune(lay, live)[c] = kept(c)
  BY <1>1
<1> QED
  BY <1>2, <1>3, <1>4, <1>5 DEF About

\* A session with another memory of one taskspace.
LEMMA LayoutChanged ==
  ASSUME NEW s \in Sessions, NEW c \in Spaces, NEW f \in SlotMaps
  PROVE  /\ [s EXCEPT !.layout[c] = f] \in Sessions
         /\ [s EXCEPT !.layout[c] = f].cur = s.cur /\ [s EXCEPT !.layout[c] = f].last = s.last
         /\ [s EXCEPT !.layout[c] = f].layout[c] = f
         /\ \A d \in Spaces \ {c} : [s EXCEPT !.layout[c] = f].layout[d] = s.layout[d]
BY DEF Sessions, Layouts, SlotMaps

LEMMA LastChanged ==
  ASSUME NEW s \in Sessions, NEW c \in Spaces, NEW n \in 1..Slots
  PROVE  /\ [s EXCEPT !.last[c] = n] \in Sessions
         /\ [s EXCEPT !.last[c] = n].cur = s.cur /\ [s EXCEPT !.last[c] = n].layout = s.layout
BY DEF Sessions, Layouts

LEMMA CurChanged ==
  ASSUME NEW s \in Sessions, NEW c \in Spaces
  PROVE  /\ [s EXCEPT !.cur = c] \in Sessions
         /\ [s EXCEPT !.cur = c].cur = c /\ [s EXCEPT !.cur = c].layout = s.layout
         /\ [s EXCEPT !.cur = c].last = s.last
BY DEF Sessions, Layouts

LEMMA AllChanged ==
  ASSUME NEW s \in Sessions, NEW lay \in [Spaces -> SlotMaps]
  PROVE  /\ [s EXCEPT !.layout = lay] \in Sessions
         /\ [s EXCEPT !.layout = lay].cur = s.cur /\ [s EXCEPT !.layout = lay].last = s.last
         /\ [s EXCEPT !.layout = lay].layout = lay
BY DEF Sessions, Layouts, SlotMaps

LEMMA CaptureFacts ==
  ASSUME NEW s \in Sessions, NEW c \in Spaces, NEW h, Sane(h)
  PROVE  /\ CaptureSlots(s, c, h) \in Sessions
         /\ CaptureSlots(s, c, h).cur = s.cur /\ CaptureSlots(s, c, h).last = s.last
         /\ DOMAIN CaptureSlots(s, c, h).layout[c] \subseteq Connected(h)
         /\ \A d \in Spaces \ {c} : CaptureSlots(s, c, h).layout[d] = s.layout[d]
<1> DEFINE on == {m \in Connected(h) : h.shown[m] \in Allowed(c)}
           kept == (DOMAIN s.layout[c] \cap Connected(h)) \ on
           f == [m \in on \cup kept |-> IF m \in on THEN SlotOf(h.shown[m]) ELSE s.layout[c][m]]
<1>1. Connected(h) \in SUBSET Monitors /\ s.layout[c] \in [DOMAIN s.layout[c] -> 1..Slots]
  BY SaneFacts, SessionFacts, SlotMapFacts
<1>2. \A m \in on : SlotOf(h.shown[m]) \in 1..Slots
  BY NameFacts
<1>3. on \cup kept \in SUBSET Monitors /\ on \cup kept \subseteq Connected(h)
  BY <1>1
<1>4. \A m \in on \cup kept : (IF m \in on THEN SlotOf(h.shown[m]) ELSE s.layout[c][m]) \in 1..Slots
  BY <1>1, <1>2
<1> HIDE DEF on, kept
<1>5. f \in [on \cup kept -> 1..Slots]
  BY <1>4
<1> HIDE DEF f
<1>6. f \in SlotMaps /\ DOMAIN f \subseteq Connected(h)
  BY <1>3, <1>5, SlotMapMade
<1>7. CaptureSlots(s, c, h) = [s EXCEPT !.layout[c] = f]
  BY DEF CaptureSlots, f, on, kept
<1> QED
  BY <1>6, <1>7, LayoutChanged

LEMMA CaptureLayoutFacts ==
  ASSUME NEW s \in Sessions, NEW c \in Spaces, NEW h, Sane(h)
  PROVE  /\ CaptureLayout(s, c, h) \in Sessions /\ CaptureLayout(s, c, h).cur = s.cur
         /\ CaptureLayout(s, c, h).layout = CaptureSlots(s, c, h).layout
<1> DEFINE t == CaptureSlots(s, c, h)
<1>1. t \in Sessions /\ t.cur = s.cur
  BY CaptureFacts
<1> HIDE DEF t
<1>2. CASE Active(h) \in Allowed(c)
  <2>1. SlotOf(Active(h)) \in 1..Slots
    BY <1>2, NameFacts
  <2>2. CaptureLayout(s, c, h) = [t EXCEPT !.last[c] = SlotOf(Active(h))]
    BY <1>2 DEF CaptureLayout, t
  <2> QED
    BY <1>1, <2>1, <2>2, LastChanged DEF t
<1>3. CASE Active(h) \notin Allowed(c)
  BY <1>1, <1>3 DEF CaptureLayout, t
<1> QED
  BY <1>2, <1>3

LEMMA RefreshFacts ==
  ASSUME NEW s \in Sessions, NEW h, Sane(h)
  PROVE  /\ Refresh(s, h) \in Sessions /\ Refresh(s, h).cur = s.cur
         /\ About(Refresh(s, h).layout, Connected(h))
<1> DEFINE lay == Prune(s.layout, Connected(h))
           t == [s EXCEPT !.layout = lay]
<1>1. lay \in [Spaces -> SlotMaps] /\ About(lay, Connected(h))
  BY SaneFacts, SessionFacts, PruneFacts
<1> HIDE DEF lay
<1>2. t \in Sessions /\ t.cur = s.cur /\ t.layout = lay
  BY <1>1, AllChanged
<1> HIDE DEF t
<1>3. s.cur \in Spaces
  BY SessionFacts
<1>4. /\ CaptureSlots(t, s.cur, h) \in Sessions
      /\ CaptureSlots(t, s.cur, h).cur = s.cur
      /\ DOMAIN CaptureSlots(t, s.cur, h).layout[s.cur] \subseteq Connected(h)
      /\ \A d \in Spaces \ {s.cur} : CaptureSlots(t, s.cur, h).layout[d] = lay[d]
  BY <1>2, <1>3, CaptureFacts
<1>5. Refresh(s, h) = CaptureSlots(t, s.cur, h)
  BY DEF Refresh, t, lay
<1> QED
  BY <1>1, <1>4, <1>5 DEF About

LEMMA SyncFacts ==
  ASSUME NEW s \in Sessions, NEW w \in Names, Managed(w), NEW h, Sane(h)
  PROVE  /\ SyncFrom(s, w, h) \in Sessions /\ About(SyncFrom(s, w, h).layout, Connected(h))
<1> DEFINE c == Target(s.cur, w)
           t == [s EXCEPT !.cur = c]
           u == [t EXCEPT !.last[c] = SlotOf(w)]
<1>1. c \in Spaces /\ SlotOf(w) \in 1..Slots
  BY SessionFacts, ManagedFacts
<1> HIDE DEF c
<1>2. t \in Sessions
  BY <1>1, CurChanged
<1> HIDE DEF t
<1>3. u \in Sessions
  BY <1>1, <1>2, LastChanged
<1> HIDE DEF u
<1>4. SyncFrom(s, w, h) = Refresh(u, h)
  BY DEF SyncFrom, u, t, c
<1> QED
  BY <1>3, <1>4, RefreshFacts

-----------------------------------------------------------------------------
(* The choice of a slot. *)

LEMMA FirstFreeFacts ==
  ASSUME NEW used, NEW preferred \in 1..Slots, NEW usable \in SUBSET (1..Slots)
  PROVE  /\ FirstFree(used, preferred, usable) \in 1..Slots
         /\ usable \ used # {} => FirstFree(used, preferred, usable) \in usable \ used
<1> DEFINE later == {s \in usable : s >= preferred /\ s \notin used}
           earlier == {s \in usable : s < preferred /\ s \notin used}
<1>7. preferred \in Nat /\ \A s \in usable : s \in Nat
  OBVIOUS
<1>1. later \in SUBSET Nat /\ earlier \in SUBSET Nat
  BY <1>7
<1>2. later # {} => Min(later) \in later
  BY <1>1, MinIsLeast
<1>3. earlier # {} => Min(earlier) \in earlier
  BY <1>1, MinIsLeast
<1>11. \A s \in usable : s >= preferred \/ s < preferred
  BY <1>7
<1>4. usable \ used = later \cup earlier
  BY <1>11, Zenon
<1>5. later \subseteq usable /\ earlier \subseteq usable
  BY Zenon
<1>6. FirstFree(used, preferred, usable) =
        IF later # {} THEN Min(later) ELSE IF earlier # {} THEN Min(earlier) ELSE preferred
  BY DEF FirstFree
<1> HIDE DEF later, earlier
<1>8. CASE later # {}
  BY <1>2, <1>4, <1>5, <1>6, <1>8
<1>9. CASE later = {} /\ earlier # {}
  BY <1>3, <1>4, <1>5, <1>6, <1>9
<1>10. CASE later = {} /\ earlier = {}
  BY <1>4, <1>6, <1>10
<1> QED
  BY <1>8, <1>9, <1>10

LEMMA PreferredFacts ==
  ASSUME NEW live \in SUBSET Monitors, NEW m \in live
  PROVE  Preferred(IndexOf(m, live)) \in 1..Slots
<1> DEFINE S == {n \in live : n <= m}
<1>1. IsFiniteSet(S) /\ m \in S
  BY MonitorSets
<1>2. Cardinality(S) \in Nat /\ Cardinality(S) # 0
  BY <1>1, FS_CardinalityType, FS_EmptySet
<1>3. IndexOf(m, live) = Cardinality(S)
  BY DEF IndexOf
<1> HIDE DEF S
<1> QED
  BY <1>2, <1>3 DEF Preferred

LEMMA SlotChosen ==
  ASSUME NEW s \in Sessions, NEW live \in SUBSET Monitors, NEW m \in live
  PROVE  /\ ResolveSlot(s, m, live) \in 1..Slots
         /\ AdoptSlot(s, m, live) \in 1..Slots
         /\ (1..Slots) \ (Global \cup Range(s.layout[s.cur])) # {} =>
               AdoptSlot(s, m, live) \notin Global \cup Range(s.layout[s.cur])
<1> DEFINE used == Range(s.layout[s.cur])
           free == (1..Slots) \ (Global \cup used)
           usable == IF free # {} THEN free ELSE 1..Slots
           preferred == Preferred(IndexOf(m, live))
<1>1. s.layout[s.cur] \in SlotMaps
  BY SessionFacts
<1>2. m \in DOMAIN s.layout[s.cur] => s.layout[s.cur][m] \in 1..Slots
  BY <1>1, SlotMapFacts
<1>3. preferred \in 1..Slots
  BY PreferredFacts
<1>4. usable \in SUBSET (1..Slots)
  OBVIOUS
<1>5. free # {} => usable \ used # {} /\ usable \ used \subseteq free
  OBVIOUS
<1>6. AdoptSlot(s, m, live) = FirstFree(used, preferred, usable)
  BY DEF AdoptSlot
<1>7. ResolveSlot(s, m, live) =
        IF m \in DOMAIN s.layout[s.cur] THEN s.layout[s.cur][m] ELSE FirstFree(used, preferred, 1..Slots)
  BY DEF ResolveSlot
<1> HIDE DEF preferred, usable
<1>8. FirstFree(used, preferred, usable) \in 1..Slots
  BY <1>3, <1>4, FirstFreeFacts
<1>10. FirstFree(used, preferred, 1..Slots) \in 1..Slots
  BY <1>3, FirstFreeFacts
<1>9. usable \ used # {} => FirstFree(used, preferred, usable) \in usable \ used
  BY <1>3, <1>4, FirstFreeFacts
<1> QED
  BY <1>2, <1>5, <1>6, <1>7, <1>8, <1>9, <1>10

-----------------------------------------------------------------------------
(* The queue of events. *)

Events == Names \cup {Topology}
Pending(q) == Topology \in Range(q)

LEMMA QueueFacts ==
  ASSUME NEW q \in Seq(Events)
  PROVE  /\ \A w \in Events : Append(q, w) \in Seq(Events) /\ (Pending(q) => Pending(Append(q, w)))
         /\ \A e \in Seq(Events) :
               q \o e \in Seq(Events) /\ (Pending(q) \/ Pending(e) => Pending(q \o e))
         /\ q # <<>> =>
               /\ Head(q) \in Events /\ Tail(q) \in Seq(Events)
               /\ Head(q) # Topology /\ Pending(q) => Pending(Tail(q))
<1>1. \A w \in Events : Append(q, w) \in Seq(Events) /\ (Pending(q) => Pending(Append(q, w)))
  <2>1. TAKE w \in Events
  <2>2. /\ Append(q, w) \in Seq(Events)
        /\ \A i \in DOMAIN q : i \in DOMAIN Append(q, w) /\ Append(q, w)[i] = q[i]
    OBVIOUS
  <2> QED
    BY <2>2 DEF Pending, Range
<1>2. ASSUME NEW e \in Seq(Events)
      PROVE  q \o e \in Seq(Events) /\ (Pending(q) \/ Pending(e) => Pending(q \o e))
  <2>1. /\ q \o e \in Seq(Events)
        /\ \A i \in DOMAIN q : i \in DOMAIN (q \o e) /\ (q \o e)[i] = q[i]
        /\ \A i \in DOMAIN e : Len(q) + i \in DOMAIN (q \o e) /\ (q \o e)[Len(q) + i] = e[i]
    OBVIOUS
  <2> QED
    BY <2>1 DEF Pending, Range
<1>3. ASSUME q # <<>>
      PROVE  /\ Head(q) \in Events /\ Tail(q) \in Seq(Events)
             /\ Head(q) # Topology /\ Pending(q) => Pending(Tail(q))
  <2>1. /\ Head(q) = q[1] /\ 1 \in DOMAIN q /\ Tail(q) \in Seq(Events)
        /\ \A i \in DOMAIN q : i # 1 => i - 1 \in DOMAIN Tail(q) /\ Tail(q)[i - 1] = q[i]
    BY <1>3
  <2>2. Head(q) \in Events
    BY <1>3
  <2>3. ASSUME Head(q) # Topology, Pending(q)
        PROVE  Pending(Tail(q))
    <3>1. PICK i \in DOMAIN q : q[i] = Topology
      BY <2>3 DEF Pending, Range
    <3>2. i - 1 \in DOMAIN Tail(q) /\ Tail(q)[i - 1] = Topology
      BY <2>1, <2>3, <3>1
    <3> QED
      BY <3>2 DEF Pending, Range
  <2> QED
    BY <2>1, <2>2, <2>3
<1> QED
  BY <1>1, <1>2, <1>3

-----------------------------------------------------------------------------
(* Types. *)

Phases == {"idle", "enter", "setup", "plan", "restore", "verify", "adopt"}

Jobs ==
    [op : {"none", "switch", "follow", "reconcile"},
     targets : UNION {[live -> Names] : live \in SUBSET Monitors},
     focused : Monitors, count : Nat, todo : SUBSET Monitors]

JobOK == job \in Jobs /\ job.todo \subseteq DOMAIN job.targets

TypesInv ==
    /\ Sane(hypr) /\ queue \in Seq(Events)
    /\ Session \in Sessions /\ mem \in Sessions
    /\ guard \in [dest : Spaces, old : Spaces, fresh : BOOLEAN] /\ recent \in BOOLEAN
    /\ pc \in Phases /\ JobOK

LEMMA JobFacts ==
  ASSUME NEW j \in Jobs
  PROVE  /\ DOMAIN j.targets \in SUBSET Monitors /\ j.targets \in [DOMAIN j.targets -> Names]
         /\ j.focused \in Monitors /\ j.count \in Nat /\ j.todo \in SUBSET Monitors
BY DEF Jobs

\* The changes a step makes to the job.
Planned(j, t, f, todo, n) == [j EXCEPT !.targets = t, !.focused = f, !.todo = todo, !.count = n]
Counted(j, n) == [j EXCEPT !.count = n]
Passed(j, S, n) == [j EXCEPT !.todo = S, !.count = n]
Without(j, S) == [j EXCEPT !.todo = S]

LEMMA JobMade ==
  ASSUME NEW j \in Jobs, NEW live \in SUBSET Monitors, NEW t \in [live -> Names],
         NEW f \in Monitors, NEW n \in Nat, NEW todo \in SUBSET live
  PROVE  /\ Planned(j, t, f, todo, n) \in Jobs
         /\ Planned(j, t, f, todo, n).targets = t /\ Planned(j, t, f, todo, n).todo = todo
         /\ Planned(j, t, f, todo, n).count = n
<1>1. t \in UNION {[l -> Names] : l \in SUBSET Monitors} /\ todo \in SUBSET Monitors
  OBVIOUS
<1> QED
  BY <1>1 DEF Jobs, Planned

LEMMA JobCounted ==
  ASSUME NEW j \in Jobs, NEW n \in Nat
  PROVE  /\ Counted(j, n) \in Jobs
         /\ Counted(j, n).targets = j.targets /\ Counted(j, n).todo = j.todo /\ Counted(j, n).count = n
BY DEF Jobs, Counted

LEMMA JobPassed ==
  ASSUME NEW j \in Jobs, NEW n \in Nat, NEW S \in SUBSET Monitors
  PROVE  /\ Passed(j, S, n) \in Jobs
         /\ Passed(j, S, n).targets = j.targets /\ Passed(j, S, n).todo = S /\ Passed(j, S, n).count = n
BY DEF Jobs, Passed

LEMMA JobWithout ==
  ASSUME NEW j \in Jobs, NEW S \in SUBSET Monitors
  PROVE  Without(j, S) \in Jobs /\ Without(j, S).targets = j.targets /\ Without(j, S).todo = S
BY DEF Jobs, Without

LEMMA JobNamed ==
  ASSUME NEW j \in Jobs, NEW o \in {"switch", "follow"}
  PROVE  /\ [j EXCEPT !.op = o] \in Jobs /\ [j EXCEPT !.op = o].targets = j.targets
         /\ [j EXCEPT !.op = o].todo = j.todo
BY DEF Jobs

LEMMA SessionSaved ==
  /\ Session.cur = cur /\ Session.last = last /\ Session.layout = layout
  /\ UNCHANGED saved => Session' = Session
  /\ \A s \in Sessions : Save(s) => Session' \in Sessions /\ layout' = s.layout /\ cur' = s.cur
<1>1. \A s \in Sessions : s = [cur |-> s.cur, last |-> s.last, layout |-> s.layout]
  BY DEF Sessions
<1>2. UNCHANGED saved => Session' = Session
  BY DEF Session, saved
<1>3. ASSUME NEW s \in Sessions, Save(s)
      PROVE  Session' \in Sessions /\ layout' = s.layout /\ cur' = s.cur
  <2>1. Session' = s
    BY <1>1, <1>3 DEF Save, Session
  <2> QED
    BY <1>3, <2>1 DEF Save
<1> QED
  BY <1>2, <1>3 DEF Session

LEMMA DispatchFacts ==
  ASSUME TypesInv, NEW g, Sane(g), Dispatch(g)
  PROVE  /\ hypr' = g /\ Sane(hypr') /\ queue' \in Seq(Events)
         /\ Pending(queue) => Pending(queue')
<1>1. Active(g) \in Events
  BY SaneFacts DEF Events
<1> QED
  BY <1>1, QueueFacts DEF Dispatch, TypesInv

-----------------------------------------------------------------------------
(* The inductive invariant of the types and of the memory: as long as no hotplug is *)
(* waiting in the queue, what the session remembers, or what its holder is about to  *)
(* save, is about monitors that are connected.                                       *)

MemoryInv ==
    ~Pending(queue) =>
        /\ pc = "idle" => About(layout, Connected(hypr))
        /\ pc # "idle" => About(mem.layout, Connected(hypr))
        /\ pc = "adopt" => job.todo \subseteq Connected(hypr)

Inv == TypesInv /\ MemoryInv

\* A step of the world.
LEMMA WorldKeeps ==
  ASSUME Inv, Sane(hypr'), queue' \in Seq(Events), UNCHANGED <<saved, pc, mem, job>>,
         guard' \in [dest : Spaces, old : Spaces, fresh : BOOLEAN], recent' \in BOOLEAN,
         Pending(queue') \/ (Connected(hypr') = Connected(hypr) /\ (Pending(queue) => Pending(queue')))
  PROVE  Inv'
<1>1. Session' = Session /\ layout' = layout
  BY SessionSaved DEF saved
<1>2. TypesInv'
  BY <1>1 DEF Inv, TypesInv, JobOK
<1>3. MemoryInv'
  BY <1>1 DEF Inv, MemoryInv
<1> QED
  BY <1>2, <1>3 DEF Inv

LEMMA MoveKeeps ==
  ASSUME Inv, Move
  PROVE  Inv'
<1>1. PICK w \in (UNION {Owned(c) : c \in Spaces}) \cup Allowed(Default) : Dispatch(GoTo(hypr, w))
  BY DEF Move
<1>2. w \in Names
  <2>1. CASE w \in UNION {Owned(c) : c \in Spaces}
    <3>1. PICK c \in Spaces : w \in Owned(c)
      BY <2>1
    <3>2. Owned(c) \subseteq Allowed(c) /\ Allowed(c) \subseteq Names
      BY NameFacts
    <3> QED
      BY <3>1, <3>2
  <2>2. CASE w \in Allowed(Default)
    BY <2>2, NameFacts
  <2> QED
    BY <1>1, <2>1, <2>2
<1>3. Sane(GoTo(hypr, w)) /\ Connected(GoTo(hypr, w)) = Connected(hypr)
  BY <1>2, GoToSane DEF Inv, TypesInv
<1>4. hypr' = GoTo(hypr, w) /\ queue' \in Seq(Events) /\ (Pending(queue) => Pending(queue'))
  BY <1>1, <1>3, DispatchFacts DEF Inv
<1>5. UNCHANGED <<saved, guard, recent, pc, mem, job>>
  BY DEF Move
<1>6. guard' \in [dest : Spaces, old : Spaces, fresh : BOOLEAN] /\ recent' \in BOOLEAN
  BY <1>5 DEF Inv, TypesInv
<1>7. Sane(hypr') /\ Connected(hypr') = Connected(hypr)
  BY <1>3, <1>4
<1> QED
  BY <1>4, <1>5, <1>6, <1>7, WorldKeeps

LEMMA VanishKeeps ==
  ASSUME Inv, Vanish
  PROVE  Inv'
<1>1. PICK w \in Hidden(hypr) : hypr' = [hypr EXCEPT !.at = Restrict(hypr.at, DOMAIN hypr.at \ {w})]
  BY DEF Vanish
<1>2. Sane(hypr') /\ Connected(hypr') = Connected(hypr)
  BY <1>1, VanishSane DEF Inv, TypesInv
<1>3. UNCHANGED <<queue, saved, guard, recent, pc, mem, job>>
  BY DEF Vanish
<1>4. /\ guard' \in [dest : Spaces, old : Spaces, fresh : BOOLEAN] /\ recent' \in BOOLEAN
      /\ queue' \in Seq(Events) /\ queue' = queue
  BY <1>3 DEF Inv, TypesInv
<1> QED
  BY <1>2, <1>3, <1>4, WorldKeeps

\* The events of a hotplug.
LEMMA HotplugQueue ==
  ASSUME NEW q \in Seq(Events), NEW w \in Names,
         NEW e \in {<<Topology>>, <<Topology, w>>, <<w, Topology>>}
  PROVE  q \o e \in Seq(Events) /\ Pending(q \o e)
<1>1. Topology \in Events /\ w \in Events
  BY DEF Events
<1>2. e \in Seq(Events) /\ Pending(e)
  <2>1. CASE e = <<Topology>>
    <3>1. e \in Seq(Events) /\ 1 \in DOMAIN e /\ e[1] = Topology
      BY <1>1, <2>1
    <3> QED
      BY <3>1 DEF Pending, Range
  <2>2. CASE e = <<Topology, w>>
    <3>1. e \in Seq(Events) /\ 1 \in DOMAIN e /\ e[1] = Topology
      BY <1>1, <2>2
    <3> QED
      BY <3>1 DEF Pending, Range
  <2>3. CASE e = <<w, Topology>>
    <3>1. e \in Seq(Events) /\ 2 \in DOMAIN e /\ e[2] = Topology
      BY <1>1, <2>3
    <3> QED
      BY <3>1 DEF Pending, Range
  <2> QED
    BY <2>1, <2>2, <2>3
<1> QED
  BY <1>2, QueueFacts

LEMMA PlugKeeps ==
  ASSUME Inv, Plug
  PROVE  Inv'
<1> DEFINE New(m, w) == Show([hypr EXCEPT !.shown = [n \in Connected(hypr) \cup {m} |-> IF n = m THEN w ELSE hypr.shown[n]]], m, w)
<1>1. PICK m \in Monitors \ Connected(hypr), focus \in BOOLEAN, w \in Hidden(hypr) \cup Unused(hypr) :
         /\ hypr' = IF focus THEN [New(m, w) EXCEPT !.focused = m] ELSE New(m, w)
         /\ \E e \in IF focus THEN {<<Topology, w>>, <<w, Topology>>} ELSE {<<Topology>>} : queue' = queue \o e
  BY DEF Plug
<1>2. w \in Names
  BY <1>1, ParkedFacts DEF Inv, TypesInv
<1>3. Sane(New(m, w)) /\ Sane([New(m, w) EXCEPT !.focused = m])
  <2>1. Sane(hypr)
    BY DEF Inv, TypesInv
  <2> QED
    BY <1>1, <2>1, PlugSane
<1> HIDE DEF New
<1>4. Sane(hypr')
  BY <1>1, <1>3
<1>5. PICK e \in {<<Topology>>, <<Topology, w>>, <<w, Topology>>} : queue' = queue \o e
  BY <1>1
<1>6. queue' \in Seq(Events) /\ Pending(queue')
  BY <1>2, <1>5, HotplugQueue DEF Inv, TypesInv
<1>7. UNCHANGED <<saved, guard, recent, pc, mem, job>>
  BY DEF Plug
<1>8. guard' \in [dest : Spaces, old : Spaces, fresh : BOOLEAN] /\ recent' \in BOOLEAN
  BY <1>7 DEF Inv, TypesInv
<1> QED
  BY <1>4, <1>6, <1>7, <1>8, WorldKeeps

LEMMA UnplugKeeps ==
  ASSUME Inv, Unplug
  PROVE  Inv'
<1> DEFINE Left(m, n) ==
             [shown |-> Restrict(hypr.shown, Connected(hypr) \ {m}),
              at |-> [w \in DOMAIN hypr.at |-> IF hypr.at[w] = m THEN n ELSE hypr.at[w]],
              focused |-> IF hypr.focused = m THEN n ELSE hypr.focused]
<1>1. PICK m, n \in Connected(hypr) :
         /\ m # n /\ hypr' = Left(m, n)
         /\ \E e \in IF hypr.focused = m THEN {<<Topology, Active(Left(m, n))>>, <<Active(Left(m, n)), Topology>>} ELSE {<<Topology>>} :
               queue' = queue \o e
  BY DEF Unplug
<1>2. Sane(Left(m, n))
  BY <1>1, UnplugSane DEF Inv, TypesInv
<1> DEFINE w == Active(Left(m, n))
<1>3. w \in Names
  BY <1>2, SaneFacts
<1> HIDE DEF Left
<1>5. PICK e \in {<<Topology>>, <<Topology, w>>, <<w, Topology>>} : queue' = queue \o e
  BY <1>1
<1>6. queue' \in Seq(Events) /\ Pending(queue')
  BY <1>3, <1>5, HotplugQueue DEF Inv, TypesInv
<1>7. UNCHANGED <<saved, guard, recent, pc, mem, job>>
  BY DEF Unplug
<1>8. guard' \in [dest : Spaces, old : Spaces, fresh : BOOLEAN] /\ recent' \in BOOLEAN
  BY <1>7 DEF Inv, TypesInv
<1> QED
  BY <1>1, <1>2, <1>6, <1>7, <1>8, WorldKeeps

LEMMA ExpireKeeps ==
  ASSUME Inv, Expire
  PROVE  Inv'
<1>1. UNCHANGED <<hypr, queue, saved, pc, mem, job>>
  BY DEF Expire
<1>2. guard \in [dest : Spaces, old : Spaces, fresh : BOOLEAN] /\ recent \in BOOLEAN
  BY DEF Inv, TypesInv
<1>3. [guard EXCEPT !.fresh = FALSE] \in [dest : Spaces, old : Spaces, fresh : BOOLEAN]
  BY <1>2
<1>4. guard' \in [dest : Spaces, old : Spaces, fresh : BOOLEAN] /\ recent' \in BOOLEAN
  BY <1>2, <1>3 DEF Expire
<1>5. Sane(hypr') /\ queue' \in Seq(Events) /\ hypr' = hypr /\ queue' = queue
  BY <1>1 DEF Inv, TypesInv
<1> QED
  BY <1>1, <1>4, <1>5, WorldKeeps

-----------------------------------------------------------------------------
(* The switch, the restore and the adoption. *)

\* A step of the holder of the mutex that saves nothing.
LEMMA HolderKeeps ==
  ASSUME Inv, Sane(hypr'), Connected(hypr') = Connected(hypr),
         queue' \in Seq(Events), Pending(queue) => Pending(queue'),
         UNCHANGED saved, mem' \in Sessions, JobOK',
         guard' \in [dest : Spaces, old : Spaces, fresh : BOOLEAN], recent' \in BOOLEAN,
         pc' \in Phases \ {"idle"},
         ~Pending(queue) => About(mem'.layout, Connected(hypr)) /\ (pc' = "adopt" => job'.todo \subseteq Connected(hypr))
  PROVE  Inv'
<1>1. Session' = Session
  BY SessionSaved
<1>2. TypesInv'
  BY <1>1 DEF Inv, TypesInv, Phases
<1>3. MemoryInv'
  BY DEF Inv, MemoryInv
<1> QED
  BY <1>2, <1>3 DEF Inv

LEMMA InvFacts ==
  ASSUME Inv
  PROVE  /\ Sane(hypr) /\ queue \in Seq(Events) /\ Connected(hypr) \in SUBSET Monitors /\ Connected(hypr) # {}
         /\ cur \in Spaces /\ Session \in Sessions /\ Session.layout = layout /\ Session.cur = cur
         /\ mem \in Sessions /\ mem.cur \in Spaces
         /\ job \in Jobs /\ job.todo \subseteq DOMAIN job.targets
         /\ guard \in [dest : Spaces, old : Spaces, fresh : BOOLEAN] /\ recent \in BOOLEAN /\ pc \in Phases
BY SaneFacts, SessionFacts, SessionSaved DEF Inv, TypesInv, JobOK

LEMMA BeginSwitchKeeps ==
  ASSUME Inv, BeginSwitch
  PROVE  Inv'
<1> DEFINE s == CaptureLayout(Session, cur, hypr)
<1>1. PICK c \in Spaces : mem' = [s EXCEPT !.cur = c]
  BY DEF BeginSwitch
<1>2. s \in Sessions /\ s.layout = CaptureSlots(Session, cur, hypr).layout
  BY InvFacts, CaptureLayoutFacts
<1>3. /\ DOMAIN CaptureSlots(Session, cur, hypr).layout[cur] \subseteq Connected(hypr)
      /\ \A d \in Spaces \ {cur} : CaptureSlots(Session, cur, hypr).layout[d] = layout[d]
  <2>1. /\ Session \in Sessions /\ cur \in Spaces /\ Sane(hypr)
        /\ Session.layout = layout
    BY InvFacts
  <2> QED
    BY <2>1, CaptureFacts
<1>4. mem' \in Sessions /\ mem'.layout = CaptureSlots(Session, cur, hypr).layout
  BY <1>1, <1>2, CurChanged
<1>5. pc = "idle" /\ pc' = "enter" /\ job' = [job EXCEPT !.op = "switch"]
  BY DEF BeginSwitch
<1>6. UNCHANGED <<hypr, queue, saved, guard, recent>>
  BY DEF BeginSwitch
<1>7. ~Pending(queue) => About(layout, Connected(hypr))
  BY <1>5 DEF Inv, MemoryInv
<1>8. ~Pending(queue) => About(mem'.layout, Connected(hypr))
  BY <1>3, <1>4, <1>7 DEF About
<1>9. JobOK'
  BY <1>5, InvFacts, JobNamed DEF JobOK
<1>10. /\ Sane(hypr') /\ Connected(hypr') = Connected(hypr) /\ queue' \in Seq(Events) /\ queue' = queue
       /\ guard' \in [dest : Spaces, old : Spaces, fresh : BOOLEAN] /\ recent' \in BOOLEAN
       /\ UNCHANGED saved /\ pc' \in Phases \ {"idle"} /\ pc' # "adopt"
  BY <1>5, <1>6, InvFacts DEF Phases
<1> HIDE DEF s
<1> QED
  BY <1>4, <1>8, <1>9, <1>10, HolderKeeps

LEMMA EnterKeeps ==
  ASSUME Inv, Enter
  PROVE  Inv'
<1> DEFINE s == [mem EXCEPT !.last[mem.cur] = SlotOf(Active(hypr))]
<1>3. pc = "enter" /\ pc' = "setup" /\ guard' = [dest |-> mem.cur, old |-> cur, fresh |-> TRUE]
  BY DEF Enter
<1>4. UNCHANGED <<hypr, queue, saved, recent, job>>
  BY DEF Enter
<1>5. ~Pending(queue) => About(mem.layout, Connected(hypr))
  BY <1>3 DEF Inv, MemoryInv
<1>6. mem' \in Sessions /\ (~Pending(queue) => About(mem'.layout, Connected(hypr)))
  <2>1. CASE Active(hypr) \in Owned(mem.cur)
    <3>1. SlotOf(Active(hypr)) \in 1..Slots
      BY <2>1, InvFacts, NameFacts
    <3>2. s \in Sessions
      BY <3>1, InvFacts, LastChanged
    <3>3. mem' = Refresh(s, hypr)
      BY <2>1 DEF Enter
    <3> HIDE DEF s
    <3> QED
      BY <3>2, <3>3, InvFacts, RefreshFacts
  <2>2. CASE Active(hypr) \notin Owned(mem.cur)
    <3>1. mem' = mem
      BY <2>2 DEF Enter
    <3> QED
      BY <3>1, <1>5, InvFacts
  <2> QED
    BY <2>1, <2>2
<1>7. guard' \in [dest : Spaces, old : Spaces, fresh : BOOLEAN]
  BY <1>3, InvFacts
<1>8. /\ Sane(hypr') /\ Connected(hypr') = Connected(hypr) /\ queue' \in Seq(Events) /\ queue' = queue
      /\ recent' \in BOOLEAN
      /\ UNCHANGED saved /\ pc' \in Phases \ {"idle"} /\ pc' # "adopt" /\ JobOK'
  BY <1>3, <1>4, InvFacts DEF Phases, JobOK
<1> HIDE DEF s
<1> QED
  BY <1>6, <1>7, <1>8, HolderKeeps

LEMMA SetupKeeps ==
  ASSUME Inv, Setup
  PROVE  Inv'
<1> DEFINE missing == IF mem.cur = Default THEN {} ELSE {w[2] : w \in Owned(mem.cur) \ DOMAIN hypr.at}
           new == <<mem.cur, Min(missing)>>
           prev == Active(hypr)
<1>1. /\ pc = "setup" /\ pc' = "plan"
      /\ IF missing = {} THEN UNCHANGED <<hypr, queue>>
         ELSE IF prev \in Owned(mem.cur)
              THEN hypr' = GoTo(GoTo(hypr, new), prev) /\ queue' = queue \o <<new, prev>>
              ELSE Dispatch(GoTo(hypr, new))
  BY DEF Setup
<1>2. missing # {} => new \in Names
  <2>1. missing \subseteq 1..Slots
    BY DEF Owned
  <2>2. missing # {} => Min(missing) \in missing
    BY <2>1, MinIsLeast
  <2> HIDE DEF missing
  <2> QED
    BY <2>1, <2>2, InvFacts DEF Names
<1> HIDE DEF missing, new
<1>3. prev \in Names
  BY InvFacts, SaneFacts
<1> HIDE DEF prev
<1>4. /\ Sane(hypr') /\ Connected(hypr') = Connected(hypr)
      /\ queue' \in Seq(Events) /\ (Pending(queue) => Pending(queue'))
  <2>1. CASE missing = {}
    BY <1>1, <2>1, InvFacts
  <2>2. CASE missing # {} /\ prev \in Owned(mem.cur)
    <3>1. hypr' = GoTo(GoTo(hypr, new), prev) /\ queue' = queue \o <<new, prev>>
      BY <1>1, <2>2
    <3>2. Sane(GoTo(hypr, new)) /\ Connected(GoTo(hypr, new)) = Connected(hypr)
      BY <1>2, <2>2, InvFacts, GoToSane
    <3>3. Sane(hypr') /\ Connected(hypr') = Connected(hypr)
      BY <1>3, <3>1, <3>2, GoToSane
    <3>4. <<new, prev>> \in Seq(Events)
      BY <1>2, <1>3, <2>2 DEF Events
    <3> QED
      BY <3>1, <3>3, <3>4, InvFacts, QueueFacts
  <2>3. CASE missing # {} /\ prev \notin Owned(mem.cur)
    <3>1. Dispatch(GoTo(hypr, new))
      BY <1>1, <2>3
    <3>2. Sane(GoTo(hypr, new)) /\ Connected(GoTo(hypr, new)) = Connected(hypr)
      BY <1>2, <2>3, InvFacts, GoToSane
    <3> QED
      BY <3>1, <3>2, DispatchFacts DEF Inv
  <2> QED
    BY <2>1, <2>2, <2>3
<1>5. UNCHANGED <<saved, guard, recent, mem, job>>
  BY DEF Setup
<1>6. ~Pending(queue) => About(mem'.layout, Connected(hypr))
  BY <1>1, <1>5 DEF Inv, MemoryInv
<1>7. /\ guard' \in [dest : Spaces, old : Spaces, fresh : BOOLEAN] /\ recent' \in BOOLEAN /\ mem' \in Sessions
      /\ UNCHANGED saved /\ pc' \in Phases \ {"idle"} /\ pc' # "adopt" /\ JobOK'
  BY <1>1, <1>5, InvFacts DEF Phases, JobOK
<1> QED
  BY <1>4, <1>6, <1>7, HolderKeeps

\* A step that ends the operation: what it saves is about the monitors that are connected.
LEMMA SavedKeeps ==
  ASSUME Inv, Sane(hypr'), Connected(hypr') = Connected(hypr),
         queue' \in Seq(Events), Pending(queue) => Pending(queue'),
         NEW s \in Sessions, Save(s), ~Pending(queue) => About(s.layout, Connected(hypr)),
         UNCHANGED <<guard, recent, mem, job>>, pc' = "idle"
  PROVE  Inv'
<1>1. Session' \in Sessions /\ layout' = s.layout
  BY SessionSaved
<1>2. TypesInv'
  BY <1>1 DEF Inv, TypesInv, JobOK, Phases
<1>3. MemoryInv'
  BY <1>1 DEF Inv, MemoryInv
<1> QED
  BY <1>2, <1>3 DEF Inv

LEMMA PlanOneKeeps ==
  ASSUME Inv, PlanOne
  PROVE  Inv'
<1> DEFINE w == Name(mem.cur, mem.last[mem.cur])
<1>1. w \in Names
  BY InvFacts, SessionFacts, NameFacts
<1>2. Sane(GoTo(hypr, w)) /\ Connected(GoTo(hypr, w)) = Connected(hypr)
  BY <1>1, InvFacts, GoToSane
<1>3. Dispatch(GoTo(hypr, w)) /\ Save(mem) /\ pc = "plan" /\ pc' = "idle"
  BY DEF PlanOne
<1> HIDE DEF w
<1>4. /\ Sane(hypr') /\ Connected(hypr') = Connected(hypr)
      /\ queue' \in Seq(Events) /\ (Pending(queue) => Pending(queue'))
  BY <1>2, <1>3, DispatchFacts DEF Inv
<1>5. UNCHANGED <<guard, recent, mem, job>>
  BY DEF PlanOne
<1>6. ~Pending(queue) => About(mem.layout, Connected(hypr))
  BY <1>3 DEF Inv, MemoryInv
<1> QED
  BY <1>3, <1>4, <1>5, <1>6, InvFacts, SavedKeeps

LEMMA FinishKeeps ==
  ASSUME Inv, Finish
  PROVE  Inv'
<1> DEFINE s == CaptureSlots(mem, mem.cur, hypr)
           f == job.focused
           t == IF f \in DOMAIN s.layout[s.cur] THEN [s EXCEPT !.last[s.cur] = s.layout[s.cur][f]] ELSE s
<1>1. pc \in {"verify", "adopt"} /\ Save(t) /\ Dispatch(FocusMonitor(hypr, f)) /\ pc' = "idle"
  BY DEF Finish
<1>2. /\ s \in Sessions /\ s.cur \in Spaces
      /\ DOMAIN s.layout[mem.cur] \subseteq Connected(hypr)
      /\ \A d \in Spaces \ {mem.cur} : s.layout[d] = mem.layout[d]
  BY InvFacts, CaptureFacts
<1> HIDE DEF s
<1>3. t \in Sessions /\ t.layout = s.layout
  <2>1. CASE f \in DOMAIN s.layout[s.cur]
    <3>1. s.layout[s.cur][f] \in 1..Slots
      BY <1>2, <2>1, SessionFacts, SlotMapFacts
    <3> QED
      BY <1>2, <2>1, <3>1, LastChanged
  <2>2. CASE f \notin DOMAIN s.layout[s.cur]
    BY <1>2, <2>2
  <2> QED
    BY <2>1, <2>2
<1> HIDE DEF t, f
<1>4. ~Pending(queue) => About(mem.layout, Connected(hypr))
  BY <1>1 DEF Inv, MemoryInv
<1>5. ~Pending(queue) => About(t.layout, Connected(hypr))
  BY <1>2, <1>3, <1>4 DEF About
<1>6. Sane(FocusMonitor(hypr, f)) /\ Connected(FocusMonitor(hypr, f)) = Connected(hypr)
  BY InvFacts, FocusSane
<1>7. /\ Sane(hypr') /\ Connected(hypr') = Connected(hypr)
      /\ queue' \in Seq(Events) /\ (Pending(queue) => Pending(queue'))
  BY <1>1, <1>6, DispatchFacts DEF Inv
<1>8. UNCHANGED <<guard, recent, mem, job>>
  BY DEF Finish
<1> QED
  BY <1>1, <1>3, <1>5, <1>7, <1>8, SavedKeeps

LEMMA PlanFacts ==
  ASSUME Inv, Plan
  PROVE  /\ pc = "plan" /\ pc' = "restore" /\ UNCHANGED <<hypr, queue, saved, guard, recent, mem>>
         /\ job' \in Jobs /\ job'.todo = Connected(hypr) /\ DOMAIN job'.targets = Connected(hypr)
         /\ job'.count = Cardinality(Connected(hypr)) + 2
<1> DEFINE live == Connected(hypr)
           n == Cardinality(live) + 2
           f == hypr.focused
           targets == [m \in live |-> Name(mem.cur, ResolveSlot(mem, m, live))]
<1>1. /\ pc = "plan" /\ pc' = "restore"
      /\ job' = Planned(job, targets, f, live, n)
      /\ UNCHANGED <<hypr, queue, saved, guard, recent, mem>>
  BY DEF Plan, Planned
<1>2. live \in SUBSET Monitors /\ live \in SUBSET live /\ f \in Monitors
  BY InvFacts, SaneFacts
<1>3. \A m \in live : Name(mem.cur, ResolveSlot(mem, m, live)) \in Names
  <2>1. TAKE m \in live
  <2>2. ResolveSlot(mem, m, live) \in 1..Slots /\ mem.cur \in Spaces
    BY <1>2, InvFacts, SlotChosen
  <2> QED
    BY <2>2, NameFacts
<1>4. n \in Nat
  BY <1>2, MonitorSets, FS_CardinalityType
<1> HIDE DEF live, n, f
<1>5. targets \in [live -> Names]
  BY <1>3
<1> HIDE DEF targets
<1>6. job' \in Jobs /\ job'.targets = targets /\ job'.todo = live /\ job'.count = n
  BY <1>1, <1>2, <1>4, <1>5, InvFacts, JobMade
<1>7. DOMAIN job'.targets = live
  BY <1>5, <1>6
<1> QED
  BY <1>1, <1>6, <1>7 DEF live, n

LEMMA PlanKeeps ==
  ASSUME Inv, Plan
  PROVE  Inv'
<1>1. /\ pc = "plan" /\ pc' = "restore" /\ UNCHANGED <<hypr, queue, saved, guard, recent, mem>>
      /\ job' \in Jobs /\ job'.todo = Connected(hypr) /\ DOMAIN job'.targets = Connected(hypr)
  BY PlanFacts
<1>2. JobOK'
  BY <1>1 DEF JobOK
<1>3. ~Pending(queue) => About(mem'.layout, Connected(hypr))
  BY <1>1 DEF Inv, MemoryInv
<1>4. /\ Sane(hypr') /\ Connected(hypr') = Connected(hypr) /\ queue' \in Seq(Events) /\ queue' = queue
      /\ guard' \in [dest : Spaces, old : Spaces, fresh : BOOLEAN] /\ recent' \in BOOLEAN /\ mem' \in Sessions
      /\ UNCHANGED saved /\ pc' \in Phases \ {"idle"} /\ pc' # "adopt"
  BY <1>1, InvFacts DEF Phases
<1> QED
  BY <1>2, <1>3, <1>4, HolderKeeps

\* A monitor that is there gets its target.
LEMMA AssignFacts ==
  ASSUME Inv, NEW m \in DOMAIN job.targets, Assign(m)
  PROVE  /\ Sane(hypr') /\ Connected(hypr') = Connected(hypr)
         /\ queue' \in Seq(Events) /\ (Pending(queue) => Pending(queue'))
         /\ m \in Connected(hypr) => Puts(hypr, hypr', m, job.targets[m])
<1> DEFINE w == job.targets[m]
           holders == {n \in Connected(hypr) \ {m} : hypr.shown[n] = w}
           n == CHOOSE k \in holders : TRUE
<1>1. w \in Names
  BY InvFacts, JobFacts
<1>2. CASE holders = {}
  <2>1. Dispatch(SwitchOn(hypr, m, w))
    BY <1>2 DEF Assign
  <2>2. /\ Sane(SwitchOn(hypr, m, w)) /\ Connected(SwitchOn(hypr, m, w)) = Connected(hypr)
        /\ m \in Connected(hypr) => Puts(hypr, SwitchOn(hypr, m, w), m, w)
    BY <1>1, InvFacts, SwitchOnSane
  <2> QED
    BY <2>1, <2>2, DispatchFacts DEF Inv
<1>3. CASE holders # {} /\ m \in Connected(hypr)
  <2>1. n \in Connected(hypr) /\ hypr.shown[n] = w
    BY <1>3
  <2>2. Dispatch(SwapActive(hypr, m, n))
    BY <1>3 DEF Assign
  <2> HIDE DEF n, w
  <2>4. Puts(hypr, SwapActive(hypr, m, n), m, hypr.shown[n])
    BY <1>3, <2>1, InvFacts, SwapSane
  <2>3. /\ Sane(SwapActive(hypr, m, n)) /\ Connected(SwapActive(hypr, m, n)) = Connected(hypr)
        /\ Puts(hypr, SwapActive(hypr, m, n), m, w)
    BY <2>1, <2>4 DEF Puts
  <2> QED
    BY <2>2, <2>3, DispatchFacts DEF Inv, w
<1>4. CASE holders # {} /\ m \notin Connected(hypr)
  BY <1>4, InvFacts DEF Assign
<1> QED
  BY <1>2, <1>3, <1>4

\* The next monitor of the loop, and the count of the passes.
LEMMA LoopFacts ==
  ASSUME Inv
  PROVE  /\ job.todo # {} => Min(job.todo) \in job.todo /\ Min(job.todo) \in DOMAIN job.targets
         /\ \A S \in SUBSET DOMAIN job.targets : S # {} => Max(S) \in S
         /\ \A m \in DOMAIN job.targets : job.targets[m] \in Names
BY InvFacts, JobFacts, MonitorSets

LEMMA RestorePassKeeps ==
  ASSUME Inv, RestorePass
  PROVE  Inv'
<1> DEFINE pending == {m \in DOMAIN job.targets : NeedsMove(m)}
<1>1. /\ pc = "restore"
      /\ IF pending = {} \/ job.count = 0
         THEN pc' = "verify" /\ job' = [job EXCEPT !.count = 2] /\ UNCHANGED <<hypr, queue>>
         ELSE Assign(Max(pending)) /\ job' = [job EXCEPT !.count = @ - 1] /\ UNCHANGED pc
      /\ UNCHANGED <<saved, guard, recent, mem>>
  BY DEF RestorePass
<1>2. pending # {} => Max(pending) \in DOMAIN job.targets
  BY LoopFacts
<1> HIDE DEF pending
<1>3. /\ Sane(hypr') /\ Connected(hypr') = Connected(hypr)
      /\ queue' \in Seq(Events) /\ (Pending(queue) => Pending(queue'))
  <2>1. CASE pending = {} \/ job.count = 0
    BY <1>1, <2>1, InvFacts
  <2>2. CASE ~(pending = {} \/ job.count = 0)
    BY <1>1, <1>2, <2>2, AssignFacts
  <2> QED
    BY <2>1, <2>2
<1>4. JobOK' /\ pc' \in {"restore", "verify"}
  <2>1. CASE pending = {} \/ job.count = 0
    <3>1. job' = Counted(job, 2) /\ 2 \in Nat /\ pc' = "verify"
      BY <1>1, <2>1 DEF Counted
    <3>2. job' \in Jobs /\ job'.targets = job.targets /\ job'.todo = job.todo
      BY <3>1, InvFacts, JobCounted
    <3> QED
      BY <3>1, <3>2, InvFacts DEF JobOK
  <2>2. CASE ~(pending = {} \/ job.count = 0)
    <3>1. job' = Counted(job, job.count - 1) /\ pc' = pc
      BY <1>1, <2>2 DEF Counted
    <3>2. job.count - 1 \in Nat
      BY <2>2, InvFacts, JobFacts
    <3>3. job' \in Jobs /\ job'.targets = job.targets /\ job'.todo = job.todo
      BY <3>1, <3>2, InvFacts, JobCounted
    <3> QED
      BY <1>1, <3>1, <3>3, InvFacts DEF JobOK
  <2> QED
    BY <2>1, <2>2
<1>5. ~Pending(queue) => About(mem'.layout, Connected(hypr))
  BY <1>1 DEF Inv, MemoryInv
<1>6. /\ guard' \in [dest : Spaces, old : Spaces, fresh : BOOLEAN] /\ recent' \in BOOLEAN /\ mem' \in Sessions
      /\ UNCHANGED saved /\ pc' \in Phases \ {"idle"} /\ pc' # "adopt"
  BY <1>1, <1>4, InvFacts DEF Phases
<1> QED
  BY <1>3, <1>4, <1>5, <1>6, HolderKeeps

LEMMA VerifyKeeps ==
  ASSUME Inv, Verify
  PROVE  Inv'
<1> DEFINE m == Min(job.todo)
<1>1. /\ pc = "verify"
      /\ IF NeedsMove(m) /\ job.count > 0
         THEN Dispatch(SwitchOn(hypr, m, job.targets[m])) /\ job' = [job EXCEPT !.count = @ - 1]
         ELSE job' = [job EXCEPT !.todo = @ \ {m}, !.count = 2] /\ UNCHANGED <<hypr, queue>>
      /\ UNCHANGED <<saved, guard, recent, pc, mem>>
  BY DEF Verify
<1>2. m \in DOMAIN job.targets /\ job.targets[m] \in Names
  BY LoopFacts DEF Verify
<1> HIDE DEF m
<1>3. Sane(SwitchOn(hypr, m, job.targets[m])) /\ Connected(SwitchOn(hypr, m, job.targets[m])) = Connected(hypr)
  BY <1>2, InvFacts, SwitchOnSane
<1>4. ASSUME NeedsMove(m), job.count > 0
      PROVE  /\ Sane(hypr') /\ Connected(hypr') = Connected(hypr)
             /\ queue' \in Seq(Events) /\ (Pending(queue) => Pending(queue'))
             /\ JobOK'
  <2>1. Dispatch(SwitchOn(hypr, m, job.targets[m])) /\ job' = Counted(job, job.count - 1)
    BY <1>1, <1>4 DEF Counted
  <2>2. job.count - 1 \in Nat
    BY <1>4, InvFacts, JobFacts
  <2>3. job' \in Jobs /\ job'.targets = job.targets /\ job'.todo = job.todo
    BY <2>1, <2>2, InvFacts, JobCounted
  <2>4. JobOK'
    BY <2>3, InvFacts DEF JobOK
  <2> QED
    BY <1>3, <2>1, <2>4, DispatchFacts DEF Inv
<1>5. ASSUME ~(NeedsMove(m) /\ job.count > 0)
      PROVE  hypr' = hypr /\ queue' = queue /\ JobOK'
  <2>1. job' = Passed(job, job.todo \ {m}, 2) /\ UNCHANGED <<hypr, queue>>
    BY <1>1, <1>5 DEF Passed
  <2>2. job.todo \ {m} \in SUBSET Monitors
    BY InvFacts, JobFacts
  <2>3. job' \in Jobs /\ job'.targets = job.targets /\ job'.todo = job.todo \ {m}
    BY <2>1, <2>2, InvFacts, JobPassed
  <2>4. JobOK'
    BY <2>3, InvFacts DEF JobOK
  <2> QED
    BY <2>1, <2>4
<1>6. ~Pending(queue) => About(mem'.layout, Connected(hypr))
  BY <1>1 DEF Inv, MemoryInv
<1>7. /\ guard' \in [dest : Spaces, old : Spaces, fresh : BOOLEAN] /\ recent' \in BOOLEAN /\ mem' \in Sessions
      /\ UNCHANGED saved /\ pc' \in Phases \ {"idle"} /\ pc' # "adopt"
  BY <1>1, InvFacts DEF Phases
<1>8. /\ Sane(hypr') /\ Connected(hypr') = Connected(hypr)
      /\ queue' \in Seq(Events) /\ (Pending(queue) => Pending(queue'))
      /\ JobOK'
  BY <1>4, <1>5, InvFacts
<1> QED
  BY <1>6, <1>7, <1>8, HolderKeeps

\* The memory after a monitor is adopted.
Given(f, m, slot) == [n \in DOMAIN f \cup {m} |-> IF n = m THEN slot ELSE f[n]]
Adopted(s, m, slot) == [s EXCEPT !.layout[s.cur] = Given(s.layout[s.cur], m, slot)]

LEMMA AdoptedFacts ==
  ASSUME NEW s \in Sessions, NEW m \in Monitors, NEW slot \in 1..Slots
  PROVE  /\ Adopted(s, m, slot) \in Sessions /\ Adopted(s, m, slot).cur = s.cur
         /\ DOMAIN Adopted(s, m, slot).layout[s.cur] = DOMAIN s.layout[s.cur] \cup {m}
         /\ Adopted(s, m, slot).layout[s.cur][m] = slot
         /\ \A n \in DOMAIN s.layout[s.cur] \ {m} : Adopted(s, m, slot).layout[s.cur][n] = s.layout[s.cur][n]
         /\ \A d \in Spaces \ {s.cur} : Adopted(s, m, slot).layout[d] = s.layout[d]
<1> DEFINE lay == s.layout[s.cur]
           f == Given(lay, m, slot)
           t == [s EXCEPT !.layout[s.cur] = f]
<1>1. s.cur \in Spaces /\ DOMAIN lay \in SUBSET Monitors /\ lay \in [DOMAIN lay -> 1..Slots]
  BY SessionFacts, SlotMapFacts
<1> HIDE DEF lay
<1>2. /\ f \in [DOMAIN lay \cup {m} -> 1..Slots]
      /\ f[m] = slot /\ \A n \in DOMAIN lay \ {m} : f[n] = lay[n]
  BY <1>1 DEF Given
<1>3. DOMAIN lay \cup {m} \in SUBSET Monitors
  BY <1>1
<1> HIDE DEF f
<1>4. f \in SlotMaps /\ DOMAIN f = DOMAIN lay \cup {m}
  BY <1>2, <1>3, SlotMapMade
<1>5. /\ t \in Sessions /\ t.cur = s.cur /\ t.layout[s.cur] = f
      /\ \A d \in Spaces \ {s.cur} : t.layout[d] = s.layout[d]
  BY <1>1, <1>4, LayoutChanged
<1> HIDE DEF t
<1>6. t = Adopted(s, m, slot)
  BY DEF t, f, lay, Adopted
<1> QED
  BY <1>2, <1>4, <1>5, <1>6 DEF lay

LEMMA AdoptNewFacts ==
  ASSUME Inv, AdoptNew
  PROVE  LET m == Min(job.todo)
             slot == AdoptSlot(mem, m, DOMAIN job.targets)
             w == Name(mem.cur, slot)
         IN  /\ m \in job.todo /\ slot \in 1..Slots /\ w \in Names
             /\ hypr' = SwitchOn(hypr, m, w) /\ Sane(hypr') /\ Connected(hypr') = Connected(hypr)
             /\ m \in Connected(hypr) => Puts(hypr, hypr', m, w)
             /\ queue' \in Seq(Events) /\ (Pending(queue) => Pending(queue'))
             /\ mem' \in Sessions /\ mem'.cur = mem.cur
             /\ DOMAIN mem'.layout[mem.cur] = DOMAIN mem.layout[mem.cur] \cup {m}
             /\ mem'.layout[mem.cur][m] = slot
             /\ \A n \in DOMAIN mem.layout[mem.cur] \ {m} : mem'.layout[mem.cur][n] = mem.layout[mem.cur][n]
             /\ \A d \in Spaces \ {mem.cur} : mem'.layout[d] = mem.layout[d]
             /\ job' \in Jobs /\ job'.todo = job.todo \ {m} /\ job'.targets = job.targets
<1> DEFINE m == Min(job.todo)
           slot == AdoptSlot(mem, m, DOMAIN job.targets)
           w == Name(mem.cur, slot)
<1>1. m \in job.todo /\ m \in DOMAIN job.targets
  BY LoopFacts DEF AdoptNew
<1>2. DOMAIN job.targets \in SUBSET Monitors
  BY InvFacts, JobFacts
<1>3. Dispatch(SwitchOn(hypr, m, w))
  BY DEF AdoptNew
<1>11. mem' = Adopted(mem, m, slot)
  BY DEF AdoptNew, Adopted, Given
<1>12. job' = Without(job, job.todo \ {m})
  BY DEF AdoptNew, Without
<1> HIDE DEF m
<1>4. slot \in 1..Slots
  BY <1>1, <1>2, InvFacts, SlotChosen
<1> HIDE DEF slot
<1>5. w \in Names
  BY <1>4, InvFacts, NameFacts
<1> HIDE DEF w
<1>6. /\ Sane(SwitchOn(hypr, m, w)) /\ Connected(SwitchOn(hypr, m, w)) = Connected(hypr)
      /\ m \in Connected(hypr) => Puts(hypr, SwitchOn(hypr, m, w), m, w)
  BY <1>5, InvFacts, SwitchOnSane
<1>7. /\ hypr' = SwitchOn(hypr, m, w) /\ Sane(hypr') /\ Connected(hypr') = Connected(hypr)
      /\ m \in Connected(hypr) => Puts(hypr, hypr', m, w)
      /\ queue' \in Seq(Events) /\ (Pending(queue) => Pending(queue'))
  BY <1>3, <1>6, DispatchFacts DEF Inv
<1>8. m \in Monitors
  BY <1>1, <1>2
<1>9. /\ mem' \in Sessions /\ mem'.cur = mem.cur
      /\ DOMAIN mem'.layout[mem.cur] = DOMAIN mem.layout[mem.cur] \cup {m}
      /\ mem'.layout[mem.cur][m] = slot
      /\ \A n \in DOMAIN mem.layout[mem.cur] \ {m} : mem'.layout[mem.cur][n] = mem.layout[mem.cur][n]
      /\ \A d \in Spaces \ {mem.cur} : mem'.layout[d] = mem.layout[d]
  <2> DEFINE t == Adopted(mem, m, slot)
  <2>1. mem \in Sessions /\ mem' = t
    BY <1>11, InvFacts
  <2>2. /\ t \in Sessions /\ t.cur = mem.cur
        /\ DOMAIN t.layout[mem.cur] = DOMAIN mem.layout[mem.cur] \cup {m}
        /\ t.layout[mem.cur][m] = slot
        /\ \A n \in DOMAIN mem.layout[mem.cur] \ {m} : t.layout[mem.cur][n] = mem.layout[mem.cur][n]
        /\ \A d \in Spaces \ {mem.cur} : t.layout[d] = mem.layout[d]
    BY <1>4, <1>8, <2>1, AdoptedFacts
  <2> HIDE DEF t
  <2> QED
    BY <2>1, <2>2
<1>10. job' \in Jobs /\ job'.todo = job.todo \ {m} /\ job'.targets = job.targets
  <2>1. job.todo \ {m} \in SUBSET Monitors
    BY InvFacts, JobFacts
  <2> QED
    BY <1>12, <2>1, InvFacts, JobWithout
<1> QED
  BY <1>1, <1>4, <1>5, <1>7, <1>9, <1>10 DEF m, slot, w

LEMMA AdoptNewKeeps ==
  ASSUME Inv, AdoptNew
  PROVE  Inv'
<1> DEFINE m == Min(job.todo)
<1>1. /\ m \in job.todo
      /\ Sane(hypr') /\ Connected(hypr') = Connected(hypr)
      /\ queue' \in Seq(Events) /\ (Pending(queue) => Pending(queue'))
      /\ mem' \in Sessions
      /\ DOMAIN mem'.layout[mem.cur] = DOMAIN mem.layout[mem.cur] \cup {m}
      /\ \A d \in Spaces \ {mem.cur} : mem'.layout[d] = mem.layout[d]
      /\ job' \in Jobs /\ job'.todo = job.todo \ {m} /\ job'.targets = job.targets
  BY AdoptNewFacts
<1> HIDE DEF m
<1>2. pc = "adopt" /\ UNCHANGED <<saved, guard, recent, pc>>
  BY DEF AdoptNew
<1>3. ~Pending(queue) => About(mem.layout, Connected(hypr)) /\ job.todo \subseteq Connected(hypr)
  BY <1>2 DEF Inv, MemoryInv
<1>4. ~Pending(queue) => About(mem'.layout, Connected(hypr)) /\ job'.todo \subseteq Connected(hypr)
  BY <1>1, <1>3 DEF About
<1>5. JobOK'
  BY <1>1, InvFacts DEF JobOK
<1>6. /\ guard' \in [dest : Spaces, old : Spaces, fresh : BOOLEAN] /\ recent' \in BOOLEAN
      /\ UNCHANGED saved /\ pc' \in Phases \ {"idle"}
  BY <1>2, InvFacts DEF Phases
<1> QED
  BY <1>1, <1>4, <1>5, <1>6, HolderKeeps

-----------------------------------------------------------------------------
(* The listener. *)

LEMMA TakeFacts ==
  ASSUME Inv, NEW w, Take(w)
  PROVE  /\ pc = "idle" /\ w \in Events /\ Tail(queue) \in Seq(Events)
         /\ w # Topology /\ Pending(queue) => Pending(Tail(queue))
         /\ ~Pending(queue) => About(layout, Connected(hypr))
BY InvFacts, QueueFacts DEF Take, Inv, MemoryInv

\* What a reconcile starts from: the memory of the monitors that are connected.
LEMMA ReconcileFacts ==
  ASSUME Inv, BeginReconcile
  PROVE  /\ mem' \in Sessions /\ mem'.cur = cur /\ About(mem'.layout, Connected(hypr))
         /\ DOMAIN mem'.layout[cur] = DOMAIN layout[cur] \cap Connected(hypr)
         /\ \A m \in DOMAIN mem'.layout[cur] : mem'.layout[cur][m] = layout[cur][m]
         /\ job' \in Jobs /\ job'.targets = hypr.shown /\ job'.todo \subseteq Connected(hypr)
         /\ job'.todo = {m \in Connected(hypr) : m \notin DOMAIN mem'.layout[cur] /\ hypr.shown[m] \notin Owned(cur)}
<1> DEFINE lay == Prune(layout, Connected(hypr))
           s == [Session EXCEPT !.layout = lay]
           todo == {m \in Connected(hypr) : NeedsAdopt(s, m)}
           j == [op |-> "reconcile", targets |-> hypr.shown, focused |-> hypr.focused, count |-> 0, todo |-> todo]
<1>1. mem' = s /\ job' = j
  BY DEF BeginReconcile
<1>2. Connected(hypr) \in SUBSET Monitors /\ hypr.shown \in [Connected(hypr) -> Names] /\ hypr.focused \in Monitors
  BY InvFacts, SaneFacts, DeskFacts
<1>3. layout \in [Spaces -> SlotMaps] /\ cur \in Spaces
  BY InvFacts, SessionFacts
<1>4. /\ lay \in [Spaces -> SlotMaps] /\ About(lay, Connected(hypr))
      /\ DOMAIN lay[cur] = DOMAIN layout[cur] \cap Connected(hypr)
      /\ \A m \in DOMAIN layout[cur] \cap Connected(hypr) : lay[cur][m] = layout[cur][m]
  BY <1>3, InvFacts, PruneFacts
<1> HIDE DEF lay
<1>5. s \in Sessions /\ s.cur = cur /\ s.layout = lay
  BY <1>4, InvFacts, AllChanged
<1> HIDE DEF s
<1>6. todo = {m \in Connected(hypr) : m \notin DOMAIN s.layout[cur] /\ hypr.shown[m] \notin Owned(cur)}
  BY <1>5 DEF NeedsAdopt
<1>7. todo \in SUBSET Connected(hypr) /\ todo \in SUBSET Monitors
  BY <1>2
<1> HIDE DEF todo
<1>8. hypr.shown \in UNION {[live -> Names] : live \in SUBSET Monitors}
  BY <1>2
<1>9. j \in Jobs /\ j.targets = hypr.shown /\ j.todo = todo
  BY <1>2, <1>7, <1>8 DEF Jobs
<1> HIDE DEF j
<1> QED
  BY <1>1, <1>4, <1>5, <1>6, <1>7, <1>9

LEMMA ReconcileKeeps ==
  ASSUME Inv, NEW w, Reconcile(w)
  PROVE  Inv'
<1>1. Take(w) /\ BeginReconcile /\ queue' = Tail(queue) /\ UNCHANGED <<hypr, saved, guard>>
  BY DEF Reconcile
<1>2. recent' = TRUE /\ pc' = "adopt"
  BY <1>1 DEF BeginReconcile
<1>3. /\ mem' \in Sessions /\ About(mem'.layout, Connected(hypr))
      /\ job' \in Jobs /\ job'.targets = hypr.shown /\ job'.todo \subseteq Connected(hypr)
  BY <1>1, ReconcileFacts
<1>4. JobOK'
  BY <1>3 DEF JobOK, Connected
<1>5. Session' = Session
  BY <1>1, SessionSaved
<1>6. queue' \in Seq(Events)
  BY <1>1, TakeFacts
<1>7. TypesInv'
  BY <1>1, <1>2, <1>3, <1>4, <1>5, <1>6, InvFacts DEF TypesInv, Phases
<1>8. MemoryInv'
  BY <1>1, <1>2, <1>3 DEF MemoryInv
<1> QED
  BY <1>7, <1>8 DEF Inv

LEMMA SkipKeeps ==
  ASSUME Inv, NEW w, Skip(w)
  PROVE  Inv'
<1>1. Take(w) /\ w # Topology /\ queue' = Tail(queue) /\ UNCHANGED <<hypr, saved, guard, recent, pc, mem, job>>
  BY DEF Skip
<1>2. queue' \in Seq(Events) /\ (Pending(queue) => Pending(queue'))
  BY <1>1, TakeFacts
<1>3. /\ Sane(hypr') /\ Connected(hypr') = Connected(hypr)
      /\ guard' \in [dest : Spaces, old : Spaces, fresh : BOOLEAN] /\ recent' \in BOOLEAN
  BY <1>1, InvFacts
<1> QED
  BY <1>1, <1>2, <1>3, WorldKeeps

LEMMA ManagedEvent ==
  ASSUME NEW w \in Events, Managed(w)
  PROVE  w \in Names /\ w # Topology
BY NameFacts DEF Events

LEMMA RememberKeeps ==
  ASSUME Inv, NEW w, Remember(w)
  PROVE  Inv'
<1> DEFINE s == SyncFrom(Session, w, hypr)
<1>1. /\ Take(w) /\ Managed(w) /\ Save(s) /\ queue' = Tail(queue)
      /\ UNCHANGED <<hypr, guard, recent, pc, mem, job>>
  BY DEF Remember
<1>2. w \in Names /\ w # Topology
  BY <1>1, TakeFacts, ManagedEvent
<1>3. s \in Sessions /\ About(s.layout, Connected(hypr))
  BY <1>1, <1>2, InvFacts, SyncFacts
<1> HIDE DEF s
<1>4. queue' \in Seq(Events) /\ (Pending(queue) => Pending(queue'))
  BY <1>1, <1>2, TakeFacts
<1>5. Sane(hypr') /\ Connected(hypr') = Connected(hypr) /\ pc' = "idle"
  BY <1>1, InvFacts, TakeFacts
<1> QED
  BY <1>1, <1>3, <1>4, <1>5, SavedKeeps

LEMMA FollowKeeps ==
  ASSUME Inv, NEW w, Follow(w)
  PROVE  Inv'
<1> DEFINE s == CaptureLayout(Session, cur, hypr)
<1>1. /\ Take(w) /\ Managed(w) /\ mem' = SyncFrom(s, w, hypr) /\ queue' = Tail(queue)
      /\ job' = [job EXCEPT !.op = "follow"] /\ pc' = "plan"
      /\ UNCHANGED <<hypr, saved, guard, recent>>
  BY DEF Follow
<1>2. w \in Names /\ w # Topology
  BY <1>1, TakeFacts, ManagedEvent
<1>3. s \in Sessions
  BY InvFacts, CaptureLayoutFacts
<1> HIDE DEF s
<1>4. mem' \in Sessions /\ About(mem'.layout, Connected(hypr))
  BY <1>1, <1>2, <1>3, InvFacts, SyncFacts
<1>5. queue' \in Seq(Events) /\ (Pending(queue) => Pending(queue'))
  BY <1>1, <1>2, TakeFacts
<1>6. JobOK'
  BY <1>1, InvFacts, JobNamed DEF JobOK
<1>7. /\ Sane(hypr') /\ Connected(hypr') = Connected(hypr) /\ UNCHANGED saved
      /\ guard' \in [dest : Spaces, old : Spaces, fresh : BOOLEAN] /\ recent' \in BOOLEAN
      /\ pc' \in Phases \ {"idle"} /\ pc' # "adopt"
  BY <1>1, InvFacts DEF Phases
<1> QED
  BY <1>4, <1>5, <1>6, <1>7, HolderKeeps

-----------------------------------------------------------------------------
(* The invariant of the specification. *)

LEMMA InitInv ==
  ASSUME Init
  PROVE  Inv
<1>1. PICK live \in (SUBSET Monitors) \ {{}} :
        \E shown \in [live -> Allowed(cur)], f \in live :
             /\ IsInjective(shown)
             /\ hypr = [shown |-> shown, at |-> [w \in Range(shown) |-> CHOOSE m \in live : shown[m] = w], focused |-> f]
             /\ layout = [c \in Spaces |-> IF c = cur THEN [m \in live |-> SlotOf(shown[m])] ELSE EmptyLayout]
             /\ last = [c \in Spaces |-> IF c = cur THEN SlotOf(shown[f]) ELSE 1]
             /\ job = [op |-> "none", targets |-> shown, focused |-> f, count |-> 0, todo |-> {}]
  BY DEF Init
<1>2. PICK shown \in [live -> Allowed(cur)], f \in live :
             /\ IsInjective(shown)
             /\ hypr = [shown |-> shown, at |-> [w \in Range(shown) |-> CHOOSE m \in live : shown[m] = w], focused |-> f]
             /\ layout = [c \in Spaces |-> IF c = cur THEN [m \in live |-> SlotOf(shown[m])] ELSE EmptyLayout]
             /\ last = [c \in Spaces |-> IF c = cur THEN SlotOf(shown[f]) ELSE 1]
             /\ job = [op |-> "none", targets |-> shown, focused |-> f, count |-> 0, todo |-> {}]
  BY <1>1
<1>3. /\ cur \in Spaces /\ queue = <<>> /\ guard = [dest |-> cur, old |-> cur, fresh |-> FALSE]
      /\ recent = FALSE /\ pc = "idle" /\ mem = Session
  BY DEF Init
<1>4. live \in SUBSET Monitors /\ shown \in [live -> Names] /\ f \in Monitors
  <2>1. Allowed(cur) \subseteq Names
    BY <1>3, NameFacts
  <2> QED
    BY <2>1
<1>5. \A m, n \in live : shown[m] = shown[n] => m = n
  BY <1>2 DEF IsInjective
<1> DEFINE at == [w \in Range(shown) |-> CHOOSE m \in live : shown[m] = w]
<1>6. Range(shown) \in SUBSET Names /\ \A m \in live : shown[m] \in Range(shown)
  BY <1>4 DEF Range
<1>7. \A w \in Range(shown) : at[w] \in live /\ shown[at[w]] = w
  BY <1>4 DEF Range
<1>8. DOMAIN at = Range(shown)
  OBVIOUS
<1>9. at \in [Range(shown) -> Monitors]
  BY <1>4, <1>7
<1>10. hypr = [shown |-> shown, at |-> at, focused |-> f]
  BY <1>2
<1> HIDE DEF at
<1>11. hypr \in Desks /\ hypr.shown = shown /\ hypr.at = at /\ hypr.focused = f
  BY <1>4, <1>6, <1>9, <1>10, DeskMade
<1>12. Connected(hypr) = live
  BY <1>4, <1>11 DEF Connected
<1>25. \A m \in live : shown[m] \in DOMAIN at /\ at[shown[m]] = m
  BY <1>5, <1>6, <1>7, <1>8
<1>26. \A w \in DOMAIN at : at[w] \in live
  BY <1>7, <1>8
<1>13. Sane(hypr)
  BY <1>11, <1>12, <1>25, <1>26 DEF Sane
<1> DEFINE slots == [m \in live |-> SlotOf(shown[m])]
<1>14. slots \in [live -> 1..Slots]
  BY <1>3, NameFacts
<1> HIDE DEF slots
<1>15. slots \in SlotMaps /\ EmptyLayout \in SlotMaps /\ DOMAIN slots = live /\ DOMAIN EmptyLayout = {}
  <2>1. EmptyLayout \in [{} -> 1..Slots] /\ {} \in SUBSET Monitors
    BY DEF EmptyLayout
  <2> QED
    BY <1>4, <1>14, <2>1, SlotMapMade
<1>16. layout = [c \in Spaces |-> IF c = cur THEN slots ELSE EmptyLayout]
  BY <1>2 DEF slots
<1>17. layout \in [Spaces -> SlotMaps] /\ About(layout, live)
  BY <1>15, <1>16 DEF About
<1>18. last \in [Spaces -> 1..Slots]
  <2>1. SlotOf(shown[f]) \in 1..Slots /\ 1 \in 1..Slots
    BY <1>3, NameFacts
  <2> QED
    BY <1>2, <2>1
<1>19. Session \in Sessions
  BY <1>3, <1>17, <1>18 DEF Session, Sessions, Layouts, SlotMaps
<1>20. shown \in UNION {[l -> Names] : l \in SUBSET Monitors}
  BY <1>4
<1>21. JobOK
  BY <1>2, <1>4, <1>20 DEF JobOK, Jobs
<1>22. queue \in Seq(Events)
  BY <1>3
<1>23. TypesInv
  BY <1>3, <1>13, <1>19, <1>21, <1>22 DEF TypesInv, Phases
<1>24. MemoryInv
  BY <1>3, <1>12, <1>17 DEF MemoryInv
<1> QED
  BY <1>23, <1>24 DEF Inv

LEMMA StutterKeeps ==
  ASSUME Inv, UNCHANGED vars
  PROVE  Inv'
<1>1. UNCHANGED <<hypr, queue, saved, guard, recent, pc, mem, job>>
  BY DEF vars
<1>2. Session' = Session
  BY <1>1, SessionSaved
<1> QED
  BY <1>1, <1>2 DEF Inv, TypesInv, MemoryInv, JobOK, saved

LEMMA StepInv ==
  ASSUME Inv, [Next]_vars
  PROVE  Inv'
<1>1. BeginSwitch => Inv'
  BY BeginSwitchKeeps
<1>2. SwitchStep => Inv'
  BY EnterKeeps, SetupKeeps, PlanOneKeeps, PlanKeeps, RestorePassKeeps, VerifyKeeps, FinishKeeps, AdoptNewKeeps
     DEF SwitchStep
<1>3. EventStep => Inv'
  BY ReconcileKeeps, SkipKeeps, RememberKeeps, FollowKeeps DEF EventStep
<1>4. World => Inv'
  BY MoveKeeps, VanishKeeps, PlugKeeps, UnplugKeeps, ExpireKeeps DEF World
<1> QED
  BY <1>1, <1>2, <1>3, <1>4, StutterKeeps DEF Next

\* In every reachable state the data are well-formed and, when no hotplug waits in the queue,
\* everything remembered is about connected monitors (workspace_nav.rs).
THEOREM AlwaysInv == Spec => []Inv
BY InitInv, StepInv, PTL DEF Spec

\* Hyprland shows every workspace on the one monitor it lives on, the session, the memory
\* of the holder and the guard have their types, and the loops run over planned monitors
\* (workspace_nav.rs, hyprland.rs).
THEOREM LayoutTypeOK == Spec => []TypeOK
<1>1. Inv => TypeOK
  <2> SUFFICES ASSUME Inv
               PROVE  TypeOK
    OBVIOUS
  <2>1. Sane(hypr) /\ hypr \in Desks
    BY InvFacts, SaneFacts
  <2>2. Connected(hypr) \in (SUBSET Monitors) \ {{}} /\ DOMAIN hypr.at \subseteq Names
    BY <2>1, InvFacts, DeskFacts
  <2>3. /\ hypr.focused \in Connected(hypr) /\ Range(hypr.at) \subseteq Connected(hypr)
        /\ \A m \in Connected(hypr) : hypr.shown[m] \in DOMAIN hypr.at /\ hypr.at[hypr.shown[m]] = m
    BY <2>1 DEF Sane, Range
  <2>4. /\ queue \in Seq(Names \cup {Topology})
        /\ pc \in {"idle", "enter", "setup", "plan", "restore", "verify", "adopt"}
    BY InvFacts DEF Events, Phases
  <2> QED
    BY <2>2, <2>3, <2>4, InvFacts DEF TypeOK
<1> QED
  BY <1>1, AlwaysInv, PTL

\* When the events of all hotplugs are handled, no taskspace has a slot for a monitor that
\* is gone, however many monitors came and went (prune_disconnected_monitors).
THEOREM MemoryStaysConnected == Spec => []MemoryConnected
<1>1. Inv => MemoryConnected
  BY DEF Inv, MemoryInv, MemoryConnected, About, Pending
<1> QED
  BY <1>1, AlwaysInv, PTL

-----------------------------------------------------------------------------
(* The restore. *)

\* The monitors that do not show what the plan has for them.
Wrong(h, targets) == {m \in DOMAIN targets : m \notin Connected(h) \/ h.shown[m] # targets[m]}

\* Nobody disturbs it: every pass puts one monitor right for good, and there are passes
\* enough for all of them.
RestoreInv ==
    calm /\ pc \in {"restore", "verify"} /\ IsInjective(job.targets) =>
        /\ DOMAIN job.targets = Connected(hypr)
        /\ pc = "restore" => Cardinality(Wrong(hypr, job.targets)) <= job.count
        /\ pc = "verify" => Wrong(hypr, job.targets) = {}

\* The monitor the next one is swapped with was wrong itself: no two have the same target.
LEMMA WrongShrinks ==
  ASSUME NEW h, NEW g, NEW targets, IsInjective(targets), DOMAIN targets = Connected(h),
         NEW m \in Wrong(h, targets), Puts(h, g, m, targets[m])
  PROVE  Wrong(g, targets) \subseteq Wrong(h, targets) \ {m}
<1>1. SUFFICES ASSUME NEW k \in Wrong(g, targets)
               PROVE  k \in Wrong(h, targets) \ {m}
  OBVIOUS
<1>2. m \in Connected(h) /\ k \in Connected(h) /\ g.shown[k] # targets[k]
  BY DEF Wrong, Puts
<1>3. k # m
  BY <1>2 DEF Puts
<1>4. CASE h.shown[k] = targets[m]
  <2>1. targets[k] # targets[m]
    BY <1>2, <1>3 DEF IsInjective
  <2> QED
    BY <1>2, <1>3, <1>4, <2>1 DEF Wrong
<1>5. CASE h.shown[k] # targets[m]
  <2>1. g.shown[k] = h.shown[k]
    BY <1>2, <1>3, <1>5 DEF Puts
  <2> QED
    BY <1>2, <1>3, <2>1 DEF Wrong
<1> QED
  BY <1>4, <1>5

LEMMA PlanRestores ==
  ASSUME Inv, Plan
  PROVE  RestoreInv'
<1>1. /\ pc' = "restore" /\ hypr' = hypr /\ DOMAIN job'.targets = Connected(hypr)
      /\ job'.count = Cardinality(Connected(hypr)) + 2
  BY PlanFacts
<1>2. Wrong(hypr', job'.targets) \subseteq Connected(hypr)
  BY <1>1 DEF Wrong
<1>3. IsFiniteSet(Connected(hypr))
  BY InvFacts, MonitorSets
<1>4. /\ Cardinality(Wrong(hypr', job'.targets)) <= Cardinality(Connected(hypr))
      /\ Cardinality(Wrong(hypr', job'.targets)) \in Nat /\ Cardinality(Connected(hypr)) \in Nat
  BY <1>2, <1>3, FS_Subset, FS_CardinalityType
<1>5. Cardinality(Wrong(hypr', job'.targets)) <= job'.count
  BY <1>1, <1>4
<1> QED
  BY <1>1, <1>5 DEF RestoreInv

LEMMA PassRestores ==
  ASSUME Inv, RestoreInv, RestorePass, calm, IsInjective(job.targets)
  PROVE  RestoreInv'
<1> DEFINE pending == {m \in DOMAIN job.targets : NeedsMove(m)}
           n == Cardinality(pending)
<1>1. /\ pc = "restore"
      /\ IF pending = {} \/ job.count = 0
         THEN pc' = "verify" /\ job' = Counted(job, 2) /\ UNCHANGED <<hypr, queue>>
         ELSE Assign(Max(pending)) /\ job' = Counted(job, job.count - 1) /\ UNCHANGED pc
  BY DEF RestorePass, Counted
<1>2. pending = Wrong(hypr, job.targets)
  BY DEF Wrong, NeedsMove
<1>3. DOMAIN job.targets = Connected(hypr) /\ n <= job.count
  BY <1>1, <1>2 DEF RestoreInv
<1>4. IsFiniteSet(pending) /\ pending \subseteq DOMAIN job.targets
  <2>1. pending \subseteq DOMAIN job.targets /\ DOMAIN job.targets \in SUBSET Monitors
    BY InvFacts, JobFacts
  <2> QED
    BY <2>1, MonitorSets
<1>5. n \in Nat /\ job.count \in Nat
  BY <1>4, InvFacts, JobFacts, FS_CardinalityType
<1>6. pending # {} => Max(pending) \in pending
  BY LoopFacts
<1>7. n = 0 => pending = {}
  BY <1>4, FS_EmptySet
<1> HIDE DEF n, pending
<1>8. CASE pending = {} \/ job.count = 0
  <2>1. pending = {}
    BY <1>3, <1>5, <1>7, <1>8
  <2>2. job'.targets = job.targets
    <3>1. job' = Counted(job, 2) /\ 2 \in Nat
      BY <1>1, <1>8
    <3> QED
      BY <3>1, InvFacts, JobCounted
  <2>3. pc' = "verify" /\ hypr' = hypr
    BY <1>1, <1>8
  <2> QED
    BY <1>2, <1>3, <2>1, <2>2, <2>3 DEF RestoreInv
<1>9. CASE pending # {} /\ job.count # 0
  <2> DEFINE m == Max(pending)
  <2>1. m \in pending /\ m \in DOMAIN job.targets /\ m \in Connected(hypr)
    BY <1>3, <1>4, <1>6, <1>9
  <2>2. Assign(m) /\ job' = Counted(job, job.count - 1) /\ pc' = "restore"
    BY <1>1, <1>9
  <2> HIDE DEF m
  <2>3. Puts(hypr, hypr', m, job.targets[m])
    BY <2>1, <2>2, AssignFacts
  <2>4. job.count - 1 \in Nat
    BY <1>5, <1>9
  <2>5. job'.targets = job.targets /\ job'.count = job.count - 1
    BY <2>2, <2>4, InvFacts, JobCounted
  <2>6. Wrong(hypr', job.targets) \subseteq pending \ {m}
    BY <1>2, <1>3, <2>1, <2>3, WrongShrinks
  <2>7. IsFiniteSet(pending \ {m}) /\ Cardinality(pending \ {m}) = n - 1
    BY <1>4, <2>1, FS_RemoveElement DEF n
  <2>8. /\ Cardinality(Wrong(hypr', job.targets)) <= n - 1
        /\ Cardinality(Wrong(hypr', job.targets)) \in Nat
    BY <2>6, <2>7, FS_Subset, FS_CardinalityType
  <2>9. Cardinality(Wrong(hypr', job'.targets)) <= job'.count
    BY <1>3, <1>5, <2>5, <2>8
  <2>10. DOMAIN job'.targets = Connected(hypr')
    BY <1>3, <2>3, <2>5 DEF Puts
  <2> QED
    BY <2>2, <2>9, <2>10 DEF RestoreInv
<1> QED
  BY <1>8, <1>9

LEMMA VerifyRestores ==
  ASSUME Inv, RestoreInv, Verify, calm, IsInjective(job.targets)
  PROVE  RestoreInv'
<1> DEFINE m == Min(job.todo)
<1>1. /\ pc = "verify" /\ pc' = "verify"
      /\ IF NeedsMove(m) /\ job.count > 0
         THEN Dispatch(SwitchOn(hypr, m, job.targets[m])) /\ job' = [job EXCEPT !.count = @ - 1]
         ELSE job' = Passed(job, job.todo \ {m}, 2) /\ UNCHANGED <<hypr, queue>>
  BY DEF Verify, Passed
<1>2. m \in DOMAIN job.targets
  BY LoopFacts DEF Verify
<1> HIDE DEF m
<1>3. Wrong(hypr, job.targets) = {} /\ DOMAIN job.targets = Connected(hypr)
  BY <1>1 DEF RestoreInv
<1>4. ~NeedsMove(m)
  BY <1>2, <1>3 DEF Wrong, NeedsMove
<1>5. job' = Passed(job, job.todo \ {m}, 2) /\ hypr' = hypr
  BY <1>1, <1>4
<1>6. job.todo \ {m} \in SUBSET Monitors
  BY InvFacts, JobFacts
<1>7. job'.targets = job.targets
  BY <1>5, <1>6, InvFacts, JobPassed
<1> QED
  BY <1>1, <1>3, <1>5, <1>7 DEF RestoreInv

\* What the other steps do to an operation that is under way.
LEMMA OtherSteps ==
  ASSUME Inv, [Next]_vars
  PROVE  \/ Plan \/ RestorePass \/ Verify \/ AdoptNew
         \/ \E w \in Names \cup {Topology} : Reconcile(w)
         \/ UNCHANGED <<hypr, pc, job, mem, saved, calm>>
         \/ pc' \in {"idle", "enter", "setup", "plan"}
         \/ ~calm'
<1>1. BeginSwitch \/ Enter \/ Setup \/ PlanOne \/ Finish => pc' \in {"idle", "enter", "setup", "plan"}
  BY DEF BeginSwitch, Enter, Setup, PlanOne, Finish
<1>2. ASSUME NEW w
      PROVE  Skip(w) \/ Remember(w) \/ Follow(w) => pc' \in {"idle", "enter", "setup", "plan"}
  BY DEF Skip, Remember, Follow, Take
<1>3. Vanish \/ Expire => pc' \in {"idle", "enter", "setup", "plan"}
  BY DEF Vanish, Expire
<1>4. Move \/ Plug \/ Unplug => ~calm'
  BY DEF Move, Plug, Unplug
<1>5. UNCHANGED vars => UNCHANGED <<hypr, pc, job, mem, saved, calm>>
  BY DEF vars
<1>6. SwitchStep => Plan \/ RestorePass \/ Verify \/ AdoptNew \/ Enter \/ Setup \/ PlanOne \/ Finish
  BY DEF SwitchStep
<1>7. EventStep => \/ \E w \in Names \cup {Topology} : Reconcile(w)
                   \/ pc' \in {"idle", "enter", "setup", "plan"}
  BY <1>2 DEF EventStep
<1>8. World => Vanish \/ Expire \/ Move \/ Plug \/ Unplug
  BY DEF World
<1> QED
  BY <1>1, <1>3, <1>4, <1>5, <1>6, <1>7, <1>8 DEF Next

LEMMA StepRestore ==
  ASSUME Inv, RestoreInv, [Next]_vars
  PROVE  RestoreInv'
<1>1. Plan => RestoreInv'
  BY PlanRestores
<1>2. ASSUME RestorePass
      PROVE  RestoreInv'
  <2>1. CASE calm /\ IsInjective(job.targets)
    BY <1>2, <2>1, PassRestores
  <2>2. CASE ~(calm /\ IsInjective(job.targets))
    <3>1. job'.targets = job.targets
      <4>1. job' = Counted(job, 2) \/ (job.count # 0 /\ job' = Counted(job, job.count - 1))
        BY <1>2 DEF RestorePass, Counted
      <4>2. job.count # 0 => job.count - 1 \in Nat
        BY InvFacts, JobFacts
      <4>3. \A n \in Nat : Counted(job, n).targets = job.targets
        BY InvFacts, JobCounted
      <4>4. Counted(job, 2).targets = job.targets
        BY <4>3
      <4> QED
        BY <4>1, <4>2, <4>3, <4>4
    <3>2. calm' = calm
      BY <1>2 DEF RestorePass
    <3> QED
      BY <2>2, <3>1, <3>2 DEF RestoreInv
  <2> QED
    BY <2>1, <2>2
<1>3. ASSUME Verify
      PROVE  RestoreInv'
  <2>1. CASE calm /\ IsInjective(job.targets)
    BY <1>3, <2>1, VerifyRestores
  <2>2. CASE ~(calm /\ IsInjective(job.targets))
    <3>1. job'.targets = job.targets
      <4>1. \/ job' = Passed(job, job.todo \ {Min(job.todo)}, 2)
            \/ job.count > 0 /\ job' = Counted(job, job.count - 1)
        BY <1>3 DEF Verify, Counted, Passed
      <4>2. /\ job.count > 0 => job.count - 1 \in Nat
            /\ job.todo \ {Min(job.todo)} \in SUBSET Monitors
        BY InvFacts, JobFacts
      <4>3. \A n \in Nat : Counted(job, n).targets = job.targets
        BY InvFacts, JobCounted
      <4>4. \A S \in SUBSET Monitors : Passed(job, S, 2).targets = job.targets
        BY InvFacts, JobPassed
      <4> QED
        BY <4>1, <4>2, <4>3, <4>4
    <3>2. calm' = calm
      BY <1>3 DEF Verify
    <3> QED
      BY <2>2, <3>1, <3>2 DEF RestoreInv
  <2> QED
    BY <2>1, <2>2
<1>4. AdoptNew => pc' = "adopt"
  BY DEF AdoptNew
<1>5. \A w : Reconcile(w) => pc' = "adopt"
  BY DEF Reconcile, BeginReconcile
<1>6. UNCHANGED <<hypr, pc, job, mem, saved, calm>> => RestoreInv'
  BY DEF RestoreInv
<1>7. pc' \in {"idle", "enter", "setup", "plan", "adopt"} \/ ~calm' => RestoreInv'
  BY DEF RestoreInv
<1> QED
  BY <1>1, <1>2, <1>3, <1>4, <1>5, <1>6, <1>7, OtherSteps

\* An undisturbed restore leaves every monitor on the workspace planned for it, whatever
\* was shown where before, if the plan has a workspace of its own for each
\* (restore_monitor_targets, with as many passes as monitors and two more).
THEOREM RestorePuts == Spec => RestoreComplete
<1>1. Init => RestoreInv
  BY DEF Init, RestoreInv
<1>2. Inv /\ RestoreInv /\ [Next]_vars
        => (pc = "verify" /\ pc' = "idle" /\ calm /\ IsInjective(job.targets)
               => \A m \in DOMAIN job.targets : hypr.shown[m] = job.targets[m])
  BY DEF RestoreInv, Wrong
<1>3. Inv /\ RestoreInv /\ [Next]_vars => RestoreInv'
  BY StepRestore
<1>4. Spec => []RestoreInv
  BY <1>1, <1>3, AlwaysInv, PTL DEF Spec
<1> QED
  BY <1>2, <1>4, AlwaysInv, PTL DEF Spec, RestoreComplete

-----------------------------------------------------------------------------
(* The adoption of new monitors. *)

\* Nobody disturbs it: the monitors the memory has a slot for show the workspace of that
\* slot, and those still to be adopted show something that is not the taskspace's own.
AdoptInv ==
    calm /\ pc = "adopt" /\ Adoptable =>
        /\ mem.cur = cur
        /\ DOMAIN job.targets = Connected(hypr)
        /\ job.todo \subseteq Connected(hypr)
        /\ DOMAIN mem.layout[cur] = Connected(hypr) \ job.todo
        /\ \A m \in Connected(hypr) \ job.todo : hypr.shown[m] = Name(cur, mem.layout[cur][m])
        /\ \A m \in job.todo : hypr.shown[m] \notin Owned(cur)

LEMMA ReconcileAdopts ==
  ASSUME Inv, NEW w, Reconcile(w)
  PROVE  AdoptInv'
<1>1. BeginReconcile /\ UNCHANGED <<hypr, saved>>
  BY DEF Reconcile
<1>2. /\ mem'.cur = cur
      /\ DOMAIN mem'.layout[cur] = DOMAIN layout[cur] \cap Connected(hypr)
      /\ \A m \in DOMAIN mem'.layout[cur] : mem'.layout[cur][m] = layout[cur][m]
      /\ job'.targets = hypr.shown /\ job'.todo \subseteq Connected(hypr)
      /\ job'.todo = {m \in Connected(hypr) : m \notin DOMAIN mem'.layout[cur] /\ hypr.shown[m] \notin Owned(cur)}
  BY <1>1, ReconcileFacts
<1>3. hypr' = hypr /\ cur' = cur /\ layout' = layout
  BY <1>1 DEF saved
<1> SUFFICES ASSUME Adoptable'
             PROVE  /\ mem'.cur = cur
                    /\ DOMAIN job'.targets = Connected(hypr)
                    /\ job'.todo \subseteq Connected(hypr)
                    /\ DOMAIN mem'.layout[cur] = Connected(hypr) \ job'.todo
                    /\ \A m \in Connected(hypr) \ job'.todo : hypr.shown[m] = Name(cur, mem'.layout[cur][m])
                    /\ \A m \in job'.todo : hypr.shown[m] \notin Owned(cur)
  BY <1>3 DEF AdoptInv, Name, Owned, Connected
<1>4. \A m \in Connected(hypr) :
        /\ m \in DOMAIN layout[cur] => hypr.shown[m] = Name(cur, layout[cur][m])
        /\ m \notin DOMAIN layout[cur] => hypr.shown[m] \notin Owned(cur)
  BY <1>2, <1>3 DEF Adoptable, Name, Owned, Connected
<1>5. DOMAIN mem'.layout[cur] = Connected(hypr) \ job'.todo
  BY <1>2, <1>4
<1>6. \A m \in Connected(hypr) \ job'.todo : hypr.shown[m] = Name(cur, mem'.layout[cur][m])
  <2>1. TAKE m \in Connected(hypr) \ job'.todo
  <2>2. m \in DOMAIN mem'.layout[cur] /\ m \in DOMAIN layout[cur]
    BY <1>2, <1>5
  <2> QED
    BY <1>2, <1>4, <2>2
<1>7. DOMAIN job'.targets = Connected(hypr) /\ \A m \in job'.todo : hypr.shown[m] \notin Owned(cur)
  BY <1>2 DEF Connected
<1> QED
  BY <1>2, <1>5, <1>6, <1>7

\* A slot is free for the next monitor: fewer are taken than there are monitors.
LEMMA SlotFree ==
  ASSUME NEW f \in SlotMaps, NEW live \in SUBSET Monitors, NEW m \in live,
         DOMAIN f \subseteq live \ {m}, Cardinality(live) <= Cardinality((1..Slots) \ Global)
  PROVE  (1..Slots) \ (Global \cup Range(f)) # {}
<1> DEFINE own == (1..Slots) \ Global
           used == {f[k] : k \in DOMAIN f}
<1>1. IsFiniteSet(live) /\ IsFiniteSet(DOMAIN f) /\ m \in live
  <2>1. DOMAIN f \in SUBSET Monitors
    BY SlotMapFacts
  <2> QED
    BY <2>1, MonitorSets
<1>2. IsFiniteSet(live \ {m}) /\ Cardinality(live \ {m}) = Cardinality(live) - 1
  BY <1>1, FS_RemoveElement
<1>3. Cardinality(DOMAIN f) <= Cardinality(live \ {m})
  BY <1>2, FS_Subset
<1>4. IsFiniteSet(used) /\ Cardinality(used) <= Cardinality(DOMAIN f)
  <2>1. f \in Surjection(DOMAIN f, used)
    BY SlotMapFacts DEF Surjection
  <2> QED
    BY <1>1, <2>1, FS_Surjection
<1>5. Range(f) = used
  BY DEF Range
<1> HIDE DEF used
<1>6. IsFiniteSet(own)
  <2>1. IsFiniteSet(1..Slots)
    BY FS_Interval
  <2> QED
    BY <2>1, FS_Subset
<1>7. /\ Cardinality(live) \in Nat /\ Cardinality(live \ {m}) \in Nat /\ Cardinality(DOMAIN f) \in Nat
      /\ Cardinality(used) \in Nat /\ Cardinality(own) \in Nat
  BY <1>1, <1>2, <1>4, <1>6, FS_CardinalityType
<1>8. ~(own \subseteq used)
  <2>1. SUFFICES ASSUME own \subseteq used
                 PROVE  FALSE
    OBVIOUS
  <2>2. Cardinality(own) <= Cardinality(used)
    BY <1>4, <2>1, FS_Subset
  <2>3. Cardinality(live) <= Cardinality(own)
    OBVIOUS
  <2> HIDE DEF own
  <2> QED
    BY <1>2, <1>3, <1>4, <1>7, <2>2, <2>3
<1> QED
  BY <1>5, <1>8

LEMMA AdoptNewAdopts ==
  ASSUME Inv, AdoptInv, AdoptNew
  PROVE  AdoptInv'
<1> DEFINE m == Min(job.todo)
           slot == AdoptSlot(mem, m, DOMAIN job.targets)
           w == Name(mem.cur, slot)
<1>1. /\ m \in job.todo /\ slot \in 1..Slots /\ w \in Names
      /\ Connected(hypr') = Connected(hypr)
      /\ m \in Connected(hypr) => Puts(hypr, hypr', m, w)
      /\ mem'.cur = mem.cur
      /\ DOMAIN mem'.layout[mem.cur] = DOMAIN mem.layout[mem.cur] \cup {m}
      /\ mem'.layout[mem.cur][m] = slot
      /\ \A n \in DOMAIN mem.layout[mem.cur] \ {m} : mem'.layout[mem.cur][n] = mem.layout[mem.cur][n]
      /\ job'.todo = job.todo \ {m} /\ job'.targets = job.targets
  BY AdoptNewFacts
<1>2. pc = "adopt" /\ calm' = calm /\ UNCHANGED saved
  BY DEF AdoptNew
<1>3. cur' = cur /\ layout' = layout
  BY <1>2 DEF saved
<1>4. Adoptable' => Adoptable
  BY <1>1, <1>3 DEF Adoptable, Name, Owned
<1>5. SUFFICES ASSUME calm, Adoptable
               PROVE  /\ mem'.cur = cur
                      /\ DOMAIN job'.targets = Connected(hypr)
                      /\ job'.todo \subseteq Connected(hypr)
                      /\ DOMAIN mem'.layout[cur] = Connected(hypr) \ job'.todo
                      /\ \A n \in Connected(hypr) \ job'.todo : hypr'.shown[n] = Name(cur, mem'.layout[cur][n])
                      /\ \A n \in job'.todo : hypr'.shown[n] \notin Owned(cur)
  BY <1>1, <1>2, <1>3, <1>4 DEF AdoptInv, Name, Owned
<1>6. /\ mem.cur = cur /\ DOMAIN job.targets = Connected(hypr) /\ job.todo \subseteq Connected(hypr)
      /\ DOMAIN mem.layout[cur] = Connected(hypr) \ job.todo
      /\ \A n \in Connected(hypr) \ job.todo : hypr.shown[n] = Name(cur, mem.layout[cur][n])
      /\ \A n \in job.todo : hypr.shown[n] \notin Owned(cur)
  BY <1>2, <1>5 DEF AdoptInv
<1>7. slot \notin Global \cup Range(mem.layout[cur])
  <2>1. Connected(hypr) \in SUBSET Monitors /\ m \in Connected(hypr) /\ mem \in Sessions /\ mem.layout[cur] \in SlotMaps
    BY <1>1, <1>6, InvFacts, SessionFacts
  <2>2. DOMAIN mem.layout[cur] \subseteq Connected(hypr) \ {m}
    BY <1>1, <1>6
  <2>3. Cardinality(Connected(hypr)) <= Cardinality((1..Slots) \ Global)
    BY <1>5 DEF Adoptable
  <2>4. (1..Slots) \ (Global \cup Range(mem.layout[mem.cur])) # {}
    BY <1>6, <2>1, <2>2, <2>3, SlotFree
  <2> HIDE DEF m
  <2>5. DOMAIN job.targets \in SUBSET Monitors /\ m \in DOMAIN job.targets
    BY <1>6, <2>1
  <2> QED
    BY <1>6, <2>1, <2>4, <2>5, SlotChosen
<1> HIDE DEF m, slot
<1>8. w = Name(cur, slot) /\ w \in Owned(cur) /\ cur \in Spaces
  BY <1>1, <1>6, <1>7, InvFacts, NameFacts
<1> HIDE DEF w
<1>9. \A n \in Connected(hypr) \ job.todo : mem.layout[cur][n] \in 1..Slots /\ mem.layout[cur][n] # slot
  <2>1. mem.layout[cur] \in SlotMaps
    BY <1>6, InvFacts, SessionFacts
  <2> QED
    BY <1>6, <1>7, <2>1, SlotMapFacts
<1>10. \A n \in Connected(hypr) \ {m} : hypr.shown[n] # w
  <2>1. TAKE n \in Connected(hypr) \ {m}
  <2>2. CASE n \in job.todo
    BY <1>6, <1>8, <2>2
  <2>3. CASE n \notin job.todo
    BY <1>1, <1>6, <1>8, <1>9, <2>3, NameFacts
  <2> QED
    BY <2>2, <2>3
<1>11. hypr'.shown[m] = w /\ \A n \in Connected(hypr) \ {m} : hypr'.shown[n] = hypr.shown[n]
  BY <1>1, <1>6, <1>10 DEF Puts
<1>12. DOMAIN mem'.layout[cur] = Connected(hypr) \ job'.todo
  BY <1>1, <1>6
<1>13. \A n \in Connected(hypr) \ job'.todo : hypr'.shown[n] = Name(cur, mem'.layout[cur][n])
  <2>1. TAKE n \in Connected(hypr) \ job'.todo
  <2>2. CASE n = m
    BY <1>1, <1>6, <1>8, <1>11, <2>2
  <2>3. CASE n # m
    <3>1. n \in Connected(hypr) \ job.todo /\ n \in DOMAIN mem.layout[cur] \ {m}
      BY <1>1, <1>6, <2>3
    <3>2. mem'.layout[cur][n] = mem.layout[cur][n]
      BY <1>1, <1>6, <3>1
    <3> QED
      BY <1>6, <1>11, <2>3, <3>1, <3>2
  <2> QED
    BY <2>2, <2>3
<1>14. \A n \in job'.todo : hypr'.shown[n] \notin Owned(cur)
  BY <1>1, <1>6, <1>11
<1> QED
  BY <1>1, <1>6, <1>12, <1>13, <1>14

LEMMA StepAdopt ==
  ASSUME Inv, AdoptInv, [Next]_vars
  PROVE  AdoptInv'
<1>1. AdoptNew => AdoptInv'
  BY AdoptNewAdopts
<1>2. \A w : Reconcile(w) => AdoptInv'
  BY ReconcileAdopts
<1>3. Plan \/ RestorePass \/ Verify => pc' \in {"restore", "verify"}
  BY DEF Plan, RestorePass, Verify
<1>4. UNCHANGED <<hypr, pc, job, mem, saved, calm>> => AdoptInv'
  BY DEF AdoptInv, Adoptable, saved, Name, Owned
<1>5. pc' \in {"idle", "enter", "setup", "plan", "restore", "verify"} \/ ~calm' => AdoptInv'
  BY DEF AdoptInv
<1> QED
  BY <1>1, <1>2, <1>3, <1>4, <1>5, OtherSteps

\* An undisturbed reconcile of any number of new monitors, begun with the memory of the
\* current taskspace right and a slot for each, ends with every monitor on a workspace of the
\* taskspace: no adoption takes a workspace from a monitor that shows it
\* (reconcile_monitor_topology, first_unused_adopt_slot).
THEOREM AdoptReaches == Spec => AdoptComplete
<1>1. Init => AdoptInv
  BY DEF Init, AdoptInv
<1>2. Inv /\ AdoptInv /\ [Next]_vars
        => (pc = "adopt" /\ pc' = "idle" /\ calm /\ Adoptable
               => \A m \in Connected(hypr) : hypr.shown[m] \in Allowed(cur))
  <2> SUFFICES ASSUME Inv, AdoptInv, [Next]_vars, pc = "adopt", pc' = "idle", calm, Adoptable,
                      NEW m \in Connected(hypr)
               PROVE  hypr.shown[m] \in Allowed(cur)
    OBVIOUS
  <2>1. job.todo = {}
    <3>1. \A w : ~Reconcile(w) /\ ~Skip(w) /\ ~Remember(w) /\ ~Follow(w)
      BY DEF Reconcile, Skip, Remember, Follow, Take
    <3>2. ~BeginSwitch /\ ~Enter /\ ~Setup /\ ~PlanOne /\ ~Plan /\ ~RestorePass /\ ~Verify /\ ~AdoptNew
      BY DEF BeginSwitch, Enter, Setup, PlanOne, Plan, RestorePass, Verify, AdoptNew
    <3>3. ~Move /\ ~Vanish /\ ~Plug /\ ~Unplug /\ ~Expire
      BY DEF Move, Vanish, Plug, Unplug, Expire
    <3>4. ~UNCHANGED vars
      BY DEF vars
    <3>5. Finish
      BY <3>1, <3>2, <3>3, <3>4 DEF Next, SwitchStep, EventStep, World
    <3> QED
      BY <3>5 DEF Finish
  <2>2. hypr.shown[m] = Name(cur, mem.layout[cur][m]) /\ m \in DOMAIN mem.layout[cur]
    BY <2>1 DEF AdoptInv
  <2>3. mem.layout[cur][m] \in 1..Slots /\ cur \in Spaces
    BY <2>2, InvFacts, SessionFacts, SlotMapFacts
  <2> QED
    BY <2>2, <2>3, NameFacts
<1>3. Inv /\ AdoptInv /\ [Next]_vars => AdoptInv'
  BY StepAdopt
<1>4. Spec => []AdoptInv
  BY <1>1, <1>3, AlwaysInv, PTL DEF Spec
<1> QED
  BY <1>2, <1>4, AlwaysInv, PTL DEF Spec, AdoptComplete

-----------------------------------------------------------------------------
(* The first hotplug. *)

\* What the session remembers of the connected monitors, and whether each has a slot of
\* its own.
Kept(f, live) == DOMAIN f \cap live
Distinct(f, live) == \A m, n \in Kept(f, live) : f[m] = f[n] => m = n

Recalls(lay, live) == \A c \in Spaces : DOMAIN lay[c] # {} => Kept(lay[c], live) # {}

\* Before the hotplug a taskspace is remembered on all monitors or on none.
WholeAt(s, c, live) ==
    DOMAIN s.layout[c] # {} =>
        /\ DOMAIN s.layout[c] = live /\ Distinct(s.layout[c], live)
        /\ \A m \in live : live = {m} => s.last[c] = s.layout[c][m]
Whole(s, live) == \A c \in Spaces : WholeAt(s, c, live)

\* The monitors that show a taskspace; where they are is what is remembered of them.
Showing(h, c) == {m \in Connected(h) : h.shown[m] \in Allowed(c)}
Exact(f, h, c) == \A k \in DOMAIN f \cap Showing(h, c) : h.shown[k] = Name(c, f[k])

\* A known monitor shows the taskspace, and so does the one in focus if it is known.
InSight(f, h, c, x) ==
    Kept(f, Connected(h)) # {} /\ Distinct(f, Connected(h)) =>
        /\ Kept(f, Connected(h)) \cap Showing(h, c) # {}
        /\ x \in Kept(f, Connected(h)) => x \in Showing(h, c)

Sole(h) == \E m : Connected(h) = {m}
Crowded(f) == Cardinality(DOMAIN f) > Slots

Held == IF pc = "idle" THEN Session ELSE mem

\* Nothing has been plugged: every monitor shows the taskspace when the daemon is idle.
Before ==
    /\ calm /\ pc # "adopt" /\ ~Pending(queue)
    /\ Cardinality(Connected(hypr)) <= Slots
    /\ Whole(Held, Connected(hypr))
    /\ pc \in {"idle", "enter"} => Showing(hypr, cur) = Connected(hypr)
    /\ pc = "idle" => Exact(layout[cur], hypr, cur)

\* The reconcile adopts monitors that are not remembered; no slot is left when one gets
\* the slot of another.
Adopting ==
    LET f == mem.layout[mem.cur]
    IN  /\ InSight(f, hypr, mem.cur, job.focused)
        /\ Sole(hypr) \/ Crowded(f) \/ Exact(f, hypr, mem.cur)
        /\ About(mem.layout, Connected(hypr))
        /\ job.todo \subseteq Connected(hypr) \ DOMAIN f
        /\ job.focused \in Connected(hypr)

After ==
    /\ Recalls(Held.layout, Connected(hypr))
    /\ pc = "idle" => /\ InSight(layout[cur], hypr, cur, hypr.focused)
                      /\ Sole(hypr) \/ Exact(layout[cur], hypr, cur)
    /\ pc = "adopt" => Adopting

Done == DOMAIN job.targets \ job.todo

\* What is shown on the monitors that are verified: a target of one of them, or that of
\* the monitor that is gone and whose turn it is; with two monitors on one target, that
\* target is shown by one of the two.
Verified ==
    IF IsInjective(job.targets)
    THEN \A m \in Done \cap Connected(hypr) :
            \/ \E k \in Done : hypr.shown[m] = job.targets[k]
            \/ /\ job.todo # {} /\ Min(job.todo) \notin Connected(hypr)
               /\ hypr.shown[m] = job.targets[Min(job.todo)] /\ m = hypr.focused
    ELSE \A m \in Done : \E k \in DOMAIN job.targets :
            hypr.shown[k] = job.targets[m] /\ job.targets[k] = job.targets[m]

Restoring ==
    /\ job.focused \in DOMAIN job.targets
    /\ \A m \in DOMAIN job.targets :
          /\ job.targets[m] \in Allowed(mem.cur)
          /\ m \in DOMAIN mem.layout[mem.cur] => job.targets[m] = Name(mem.cur, mem.layout[mem.cur][m])
    /\ calm => DOMAIN job.targets = Connected(hypr)
    /\ plugs = 0 \/ ~calm => IsInjective(job.targets)
    /\ DOMAIN job.targets \subseteq Connected(hypr) \/ Connected(hypr) \subseteq DOMAIN job.targets
    /\ pc = "restore" => job.todo = DOMAIN job.targets
    /\ pc = "verify" =>
          /\ Verified
          /\ job.todo # {} /\ Min(job.todo) \in Connected(hypr) /\ job.count # 2 =>
                hypr.shown[Min(job.todo)] = job.targets[Min(job.todo)]

Quiet == moves = 0 /\ plugs <= 1

HotplugInv ==
    /\ moves \in Nat /\ plugs \in Nat
    /\ Quiet => /\ plugs = 0 => Before
                /\ plugs = 1 => After
                /\ pc \in {"restore", "verify"} => Restoring

LEMMA AllowedNamed ==
  ASSUME NEW c \in Spaces, NEW w \in Allowed(c)
  PROVE  SlotOf(w) \in 1..Slots /\ Name(c, SlotOf(w)) = w
<1>1. PICK s \in 1..Slots : w = Name(c, s)
  BY DEF Allowed
<1> QED
  BY <1>1, NameFacts

LEMMA OwnedOnce ==
  ASSUME NEW c \in Spaces, NEW d \in Spaces, NEW w \in Owned(c), w \in Allowed(d)
  PROVE  c = d
BY DEF Owned, Allowed, Name

LEMMA AllowedTarget ==
  ASSUME NEW c \in Spaces, NEW w \in Allowed(c)
  PROVE  Target(c, w) = c
BY DEF Allowed, Name, Target

\* No event of a hotplug comes from a dispatch.
LEMMA QuietQueue ==
  ASSUME NEW q \in Seq(Events), ~Pending(q)
  PROVE  /\ \A w \in Names : ~Pending(Append(q, w))
         /\ \A v, w \in Names : ~Pending(q \o <<v, w>>)
         /\ q # <<>> => ~Pending(Tail(q))
<1>1. \A i \in DOMAIN q : q[i] # Topology
  BY DEF Pending, Range
<1>2. Topology \notin Names
  BY NameFacts
<1>3. ASSUME NEW w \in Names
      PROVE  ~Pending(Append(q, w))
  <2>1. \A i \in DOMAIN Append(q, w) : Append(q, w)[i] = w \/ (i \in DOMAIN q /\ Append(q, w)[i] = q[i])
    OBVIOUS
  <2> QED
    BY <1>1, <1>2, <2>1 DEF Pending, Range
<1>4. ASSUME NEW v \in Names, NEW w \in Names
      PROVE  ~Pending(q \o <<v, w>>)
  <2>1. <<v, w>> \in Seq(Events)
    BY DEF Events
  <2>2. \A i \in DOMAIN (q \o <<v, w>>) :
           \/ (q \o <<v, w>>)[i] \in {v, w}
           \/ i \in DOMAIN q /\ (q \o <<v, w>>)[i] = q[i]
    BY <2>1
  <2> QED
    BY <1>1, <1>2, <2>2 DEF Pending, Range
<1>5. ASSUME q # <<>>
      PROVE  ~Pending(Tail(q))
  <2>1. \A i \in DOMAIN Tail(q) : i + 1 \in DOMAIN q /\ Tail(q)[i] = q[i + 1]
    BY <1>5
  <2> QED
    BY <1>1, <2>1 DEF Pending, Range
<1> QED
  BY <1>3, <1>4, <1>5

LEMMA DispatchQuiet ==
  ASSUME Inv, ~Pending(queue), NEW g, Sane(g), Dispatch(g)
  PROVE  ~Pending(queue')
<1>1. Active(g) \in Names /\ queue \in Seq(Events)
  BY SaneFacts, InvFacts
<1> QED
  BY <1>1, QuietQueue DEF Dispatch

LEMMA CaptureExact ==
  ASSUME NEW s \in Sessions, NEW c \in Spaces, NEW h, Sane(h)
  PROVE  LET f == CaptureSlots(s, c, h).layout[c]
         IN  /\ DOMAIN f = Showing(h, c) \cup Kept(s.layout[c], Connected(h))
             /\ \A m \in Showing(h, c) : f[m] = SlotOf(h.shown[m])
             /\ \A m \in Kept(s.layout[c], Connected(h)) \ Showing(h, c) : f[m] = s.layout[c][m]
             /\ Exact(f, h, c)
<1> DEFINE on == {m \in Connected(h) : h.shown[m] \in Allowed(c)}
           kept == (DOMAIN s.layout[c] \cap Connected(h)) \ on
           f == [m \in on \cup kept |-> IF m \in on THEN SlotOf(h.shown[m]) ELSE s.layout[c][m]]
<1>1. CaptureSlots(s, c, h) = [s EXCEPT !.layout[c] = f]
  BY DEF CaptureSlots
<1>2. CaptureSlots(s, c, h).layout[c] = f
  BY <1>1 DEF Sessions, Layouts
<1>3. DOMAIN f = Showing(h, c) \cup Kept(s.layout[c], Connected(h))
  BY DEF Showing, Kept
<1>4. /\ \A m \in Showing(h, c) : f[m] = SlotOf(h.shown[m])
      /\ \A m \in Kept(s.layout[c], Connected(h)) \ Showing(h, c) : f[m] = s.layout[c][m]
  BY DEF Showing, Kept
<1> HIDE DEF f
<1>5. Exact(f, h, c)
  BY <1>4, AllowedNamed DEF Exact, Showing
<1> QED
  BY <1>2, <1>3, <1>4, <1>5

LEMMA CaptureRecalls ==
  ASSUME NEW s \in Sessions, NEW c \in Spaces, NEW h, Sane(h), Recalls(s.layout, Connected(h))
  PROVE  Recalls(CaptureSlots(s, c, h).layout, Connected(h))
<1> DEFINE f == CaptureSlots(s, c, h).layout
<1>1. /\ DOMAIN f[c] \subseteq Connected(h)
      /\ \A d \in Spaces \ {c} : f[d] = s.layout[d]
  BY CaptureFacts
<1> HIDE DEF f
<1>2. Recalls(f, Connected(h))
  BY <1>1 DEF Recalls, Kept
<1> QED
  BY <1>2 DEF f

LEMMA AboutRecalls ==
  ASSUME NEW lay, NEW live, About(lay, live)
  PROVE  Recalls(lay, live)
BY DEF About, Recalls, Kept

\* More monitors than slots: two of them have the same.
LEMMA CrowdedClash ==
  ASSUME NEW f \in SlotMaps, NEW S \in SUBSET DOMAIN f, Cardinality(S) > Slots
  PROVE  \E m, n \in S : m # n /\ f[m] = f[n]
<1>1. IsFiniteSet(S) /\ IsFiniteSet(1..Slots) /\ Cardinality(1..Slots) = Slots
  <2>1. S \in SUBSET Monitors
    BY SlotMapFacts
  <2> QED
    BY <2>1, MonitorSets, FS_Interval
<1>2. Cardinality(S) \in Nat
  BY <1>1, FS_CardinalityType
<1> DEFINE g == [m \in S |-> f[m]]
<1>3. g \in [S -> 1..Slots]
  BY SlotMapFacts
<1>4. Cardinality(1..Slots) < Cardinality(S)
  BY <1>1, <1>2
<1> HIDE DEF g
<1>5. \E m, n \in S : m # n /\ g[m] = g[n]
  BY <1>1, <1>3, <1>4, FS_PigeonHole
<1> QED
  BY <1>5 DEF g

\* A capture keeps the monitors in sight.
LEMMA CaptureInSight ==
  ASSUME NEW s \in Sessions, NEW c \in Spaces, NEW h, Sane(h), NEW x \in Connected(h),
         InSight(s.layout[c], h, c, x),
         \/ Sole(h) \/ Exact(s.layout[c], h, c)
         \/ Crowded(s.layout[c]) /\ DOMAIN s.layout[c] \subseteq Connected(h)
  PROVE  InSight(CaptureSlots(s, c, h).layout[c], h, c, x)
<1> DEFINE f == s.layout[c]
           g == CaptureSlots(s, c, h).layout[c]
           live == Connected(h)
           on == Showing(h, c)
<1>1. /\ DOMAIN g = on \cup Kept(f, live)
      /\ \A m \in on : g[m] = SlotOf(h.shown[m])
      /\ \A m \in Kept(f, live) \ on : g[m] = f[m]
  BY CaptureExact
<1>2. g \in SlotMaps /\ f \in SlotMaps
  BY CaptureFacts, SessionFacts
<1>3. on \subseteq live
  BY DEF Showing
<1>4. Kept(g, live) = DOMAIN g
  BY <1>1, <1>3 DEF Kept
<1> HIDE DEF g
<1> SUFFICES ASSUME Kept(g, live) # {}, Distinct(g, live)
             PROVE  /\ Kept(g, live) \cap on # {}
                    /\ x \in Kept(g, live) => x \in on
  BY DEF InSight, g
<1>5. CASE Kept(f, live) = {}
  BY <1>1, <1>4, <1>5
<1>6. CASE Kept(f, live) # {} /\ Distinct(f, live)
  <2>1. Kept(f, live) \cap on # {} /\ (x \in Kept(f, live) => x \in on)
    BY <1>6 DEF InSight
  <2> QED
    BY <1>1, <1>4, <2>1
<1>7. CASE ~Distinct(f, live)
  <2>1. ~Sole(h)
    BY <1>7 DEF Sole, Distinct, Kept
  <2>2. CASE Exact(f, h, c)
    <3>1. \A m \in Kept(f, live) : g[m] = f[m]
      <4>1. TAKE m \in Kept(f, live)
      <4>2. CASE m \in on
        <5>1. h.shown[m] = Name(c, f[m]) /\ f[m] \in 1..Slots
          BY <1>2, <2>2, <4>1, <4>2, SlotMapFacts DEF Exact, Kept
        <5> QED
          BY <1>1, <4>2, <5>1, NameFacts
      <4> QED
        BY <1>1, <4>2
    <3> QED
      BY <1>1, <1>4, <1>7, <3>1 DEF Distinct
  <2>3. CASE Crowded(f) /\ DOMAIN f \subseteq live
    <3>1. DOMAIN f \in SUBSET DOMAIN g /\ Cardinality(DOMAIN f) > Slots
      BY <1>1, <2>3 DEF Kept, Crowded
    <3>2. \E m, n \in DOMAIN f : m # n /\ g[m] = g[n]
      BY <1>2, <3>1, CrowdedClash
    <3> QED
      BY <1>4, <3>1, <3>2 DEF Distinct
  <2> QED
    BY <2>1, <2>2, <2>3
<1> QED
  BY <1>5, <1>6, <1>7

\* When every monitor shows the taskspace, a capture remembers all of them.
LEMMA CaptureWhole ==
  ASSUME NEW s \in Sessions, NEW t, NEW c \in Spaces, NEW h, Sane(h), Showing(h, c) = Connected(h),
         \A d \in Spaces \ {c} : WholeAt(s, d, Connected(h)) /\ t.last[d] = s.last[d],
         t.layout = CaptureSlots(s, c, h).layout,
         \A m \in Connected(h) : Connected(h) = {m} => t.last[c] = SlotOf(h.shown[m])
  PROVE  Whole(t, Connected(h)) /\ DOMAIN t.layout[c] = Connected(h)
<1> DEFINE g == CaptureSlots(s, c, h).layout[c]
<1>1. /\ DOMAIN g = Connected(h)
      /\ \A m \in Connected(h) : g[m] = SlotOf(h.shown[m])
  <2>1. /\ DOMAIN g = Showing(h, c) \cup Kept(s.layout[c], Connected(h))
        /\ \A m \in Showing(h, c) : g[m] = SlotOf(h.shown[m])
    BY CaptureExact
  <2>2. Kept(s.layout[c], Connected(h)) \subseteq Connected(h)
    BY DEF Kept
  <2> QED
    BY <2>1, <2>2
<1>2. \A d \in Spaces \ {c} : t.layout[d] = s.layout[d]
  BY CaptureFacts
<1> HIDE DEF g
<1>3. Distinct(g, Connected(h))
  <2>1. SUFFICES ASSUME NEW m \in Connected(h), NEW n \in Connected(h), g[m] = g[n]
                 PROVE  m = n
    BY DEF Distinct, Kept
  <2>2. h.shown[m] \in Allowed(c) /\ h.shown[n] \in Allowed(c)
    BY DEF Showing
  <2>3. h.shown[m] = h.shown[n]
    BY <1>1, <2>1, <2>2, AllowedNamed
  <2> QED
    BY <2>3, SaneFacts
<1>4. t.layout[c] = g
  BY DEF g
<1>5. WholeAt(t, c, Connected(h))
  BY <1>1, <1>3, <1>4 DEF WholeAt
<1>6. \A d \in Spaces \ {c} : WholeAt(t, d, Connected(h))
  BY <1>2 DEF WholeAt
<1> QED
  BY <1>1, <1>4, <1>5, <1>6 DEF Whole

LEMMA RefreshWhole ==
  ASSUME NEW s \in Sessions, NEW h, Sane(h), Showing(h, s.cur) = Connected(h),
         \A d \in Spaces \ {s.cur} : WholeAt(s, d, Connected(h)),
         s.last[s.cur] = SlotOf(Active(h))
  PROVE  /\ Whole(Refresh(s, h), Connected(h)) /\ Refresh(s, h).last = s.last
         /\ Exact(Refresh(s, h).layout[s.cur], h, s.cur)
<1> DEFINE live == Connected(h)
           lay == Prune(s.layout, live)
           t == [s EXCEPT !.layout = lay]
           r == CaptureSlots(t, s.cur, h)
<1>1. /\ lay \in [Spaces -> SlotMaps] /\ s.cur \in Spaces
      /\ \A c \in Spaces : /\ DOMAIN lay[c] = DOMAIN s.layout[c] \cap live
                           /\ \A m \in DOMAIN s.layout[c] \cap live : lay[c][m] = s.layout[c][m]
  BY SaneFacts, SessionFacts, PruneFacts
<1> HIDE DEF lay
<1>2. t \in Sessions /\ t.cur = s.cur /\ t.last = s.last /\ t.layout = lay
  BY <1>1, AllChanged
<1> HIDE DEF t
<1>3. \A d \in Spaces \ {s.cur} : WholeAt(t, d, live)
  <2>1. TAKE d \in Spaces \ {s.cur}
  <2>2. WholeAt(s, d, live)
    OBVIOUS
  <2>3. SUFFICES ASSUME DOMAIN t.layout[d] # {}
                 PROVE  /\ DOMAIN t.layout[d] = live /\ Distinct(t.layout[d], live)
                        /\ \A m \in live : live = {m} => t.last[d] = t.layout[d][m]
    BY DEF WholeAt
  <2>4. /\ DOMAIN s.layout[d] = live /\ Distinct(s.layout[d], live)
        /\ \A m \in live : live = {m} => s.last[d] = s.layout[d][m]
    BY <1>1, <1>2, <2>2, <2>3 DEF WholeAt
  <2>5. DOMAIN lay[d] = live /\ \A m \in live : lay[d][m] = s.layout[d][m]
    BY <1>1, <2>4
  <2> QED
    BY <1>2, <2>4, <2>5 DEF Distinct, Kept
<1>4. r \in Sessions /\ r.last = s.last /\ Exact(r.layout[s.cur], h, s.cur)
  BY <1>1, <1>2, CaptureFacts, CaptureExact
<1>5. \A m \in live : live = {m} => r.last[s.cur] = SlotOf(h.shown[m])
  BY <1>4, SaneFacts DEF Active
<1>6. \A d \in Spaces \ {s.cur} : r.last[d] = t.last[d]
  BY <1>2, <1>4
<1>7. Refresh(s, h) = r
  BY DEF Refresh, t, lay
<1> HIDE DEF r
<1>8. r.layout = CaptureSlots(t, s.cur, h).layout
  BY DEF r
<1>9. \A d \in Spaces \ {s.cur} : WholeAt(t, d, live) /\ r.last[d] = t.last[d]
  BY <1>3, <1>6
<1> HIDE DEF t
<1>10. Whole(r, live)
  <2>1. PICK u, q, c : u = t /\ q = r /\ c = s.cur
    OBVIOUS
  <2>2. u \in Sessions /\ c \in Spaces /\ Showing(h, c) = Connected(h)
    BY <1>1, <1>2, <2>1
  <2>3. /\ \A d \in Spaces \ {c} : WholeAt(u, d, Connected(h)) /\ q.last[d] = u.last[d]
        /\ q.layout = CaptureSlots(u, c, h).layout
    BY <1>8, <1>9, <2>1
  <2>4. \A m \in Connected(h) : Connected(h) = {m} => q.last[c] = SlotOf(h.shown[m])
    BY <1>5, <2>1
  <2>5. Whole(q, Connected(h))
    BY <2>2, <2>3, <2>4, CaptureWhole
  <2> QED
    BY <2>1, <2>5
<1> QED
  BY <1>4, <1>7, <1>10

-----------------------------------------------------------------------------
(* The steps before, at and after the hotplug. *)

\* Nothing that matters changes.
LEMMA SameView ==
  ASSUME HotplugInv, UNCHANGED <<saved, pc, mem, job, calm, plugs, moves>>,
         hypr'.shown = hypr.shown, hypr'.focused = hypr.focused,
         Pending(queue') => Pending(queue)
  PROVE  HotplugInv'
<1>1. Connected(hypr') = Connected(hypr) /\ \A c : Showing(hypr', c) = Showing(hypr, c)
  BY DEF Connected, Showing
<1>2. Held' = Held /\ cur' = cur /\ layout' = layout
  BY SessionSaved DEF Held, saved
<1>3. \A f, c : Exact(f, hypr', c) <=> Exact(f, hypr, c)
  BY <1>1 DEF Exact
<1>4. \A f, c, x : InSight(f, hypr', c, x) <=> InSight(f, hypr, c, x)
  BY <1>1 DEF InSight
<1>5. Before => Before'
  BY <1>1, <1>2, <1>3 DEF Before
<1>6. Adopting => Adopting'
  BY <1>1, <1>3, <1>4 DEF Adopting, Sole
<1>7. After => After'
  BY <1>1, <1>2, <1>3, <1>4, <1>6 DEF After, Sole
<1>8. Verified => Verified'
  BY <1>1 DEF Verified, Done
<1>9. Restoring => Restoring'
  BY <1>1, <1>8 DEF Restoring
<1> QED
  BY <1>5, <1>7, <1>9 DEF HotplugInv, Quiet

LEMMA MoveLoud ==
  ASSUME HotplugInv, Move
  PROVE  HotplugInv'
<1>1. moves' = moves + 1 /\ plugs' = plugs
  BY DEF Move
<1> QED
  BY <1>1 DEF HotplugInv, Quiet

\* The hotplug: the monitors that stay show what they showed.
LEMMA Plugged ==
  ASSUME Inv, HotplugInv, Sane(hypr'), plugs' = plugs + 1, calm' = FALSE,
         UNCHANGED <<saved, pc, mem, job, moves>>,
         Connected(hypr) \cap Connected(hypr') # {},
         Connected(hypr) \subseteq Connected(hypr') \/ Connected(hypr') \subseteq Connected(hypr),
         \A m \in Connected(hypr) \cap Connected(hypr') : hypr'.shown[m] = hypr.shown[m]
  PROVE  HotplugInv'
<1> DEFINE stay == Connected(hypr) \cap Connected(hypr')
<1>1. moves' = moves /\ moves \in Nat /\ plugs \in Nat
  BY DEF HotplugInv
<1>2. SUFFICES ASSUME Quiet'
               PROVE  After' /\ plugs' = 1 /\ (pc' \in {"restore", "verify"} => Restoring')
  BY <1>1 DEF HotplugInv
<1>3. plugs = 0 /\ plugs' = 1 /\ Quiet
  BY <1>1, <1>2 DEF Quiet
<1>4. Before /\ (pc \in {"restore", "verify"} => Restoring)
  BY <1>3 DEF HotplugInv
<1>5. Held' = Held /\ cur' = cur /\ layout' = layout /\ pc' = pc
  BY SessionSaved DEF Held, saved
<1>6. Recalls(Held'.layout, Connected(hypr'))
  BY <1>4, <1>5 DEF Before, Whole, WholeAt, Recalls, Kept
<1>7. ASSUME pc = "idle"
      PROVE  InSight(layout[cur], hypr', cur, hypr'.focused) /\ Exact(layout[cur], hypr', cur)
  <2>1. Showing(hypr, cur) = Connected(hypr) /\ Exact(layout[cur], hypr, cur)
    BY <1>4, <1>7 DEF Before
  <2>2. DOMAIN layout[cur] # {} => DOMAIN layout[cur] = Connected(hypr)
    BY <1>4, <1>7, InvFacts DEF Before, Whole, WholeAt, Held
  <2>3. stay \subseteq Showing(hypr', cur)
    BY <2>1 DEF Showing
  <2>4. Kept(layout[cur], Connected(hypr')) \subseteq stay
    BY <2>2 DEF Kept
  <2>5. Kept(layout[cur], Connected(hypr')) # {} => Kept(layout[cur], Connected(hypr')) = stay
    BY <2>2 DEF Kept
  <2>6. InSight(layout[cur], hypr', cur, hypr'.focused)
    BY <2>3, <2>4, <2>5 DEF InSight
  <2>7. Exact(layout[cur], hypr', cur)
    <3>1. SUFFICES ASSUME NEW k \in DOMAIN layout[cur] \cap Showing(hypr', cur)
                   PROVE  hypr'.shown[k] = Name(cur, layout[cur][k])
      BY DEF Exact
    <3>2. k \in stay
      BY <2>2 DEF Showing
    <3>3. k \in DOMAIN layout[cur] \cap Showing(hypr, cur)
      BY <2>1, <3>2
    <3>4. hypr.shown[k] = Name(cur, layout[cur][k])
      BY <2>1, <3>3 DEF Exact
    <3> QED
      BY <3>2, <3>4
  <2> QED
    BY <2>6, <2>7
<1>8. After'
  <2>1. pc' # "adopt"
    BY <1>4, <1>5 DEF Before
  <2> QED
    BY <1>5, <1>6, <1>7, <2>1 DEF After
<1>9. ASSUME pc \in {"restore", "verify"}
      PROVE  Restoring'
  <2>1. Restoring /\ calm
    BY <1>4, <1>9 DEF Before
  <2>2. IsInjective(job.targets) /\ DOMAIN job.targets = Connected(hypr) /\ job' = job /\ mem' = mem
    BY <1>3, <2>1 DEF Restoring
  <2>3. job.todo \subseteq Connected(hypr) /\ (job.todo # {} => Min(job.todo) \in job.todo)
    BY <2>2, InvFacts, LoopFacts
  <2>4. ASSUME Verified
        PROVE  Verified'
    <3>1. SUFFICES ASSUME NEW m \in Done \cap Connected(hypr')
                   PROVE  \E k \in Done : hypr'.shown[m] = job.targets[k]
      BY <2>2 DEF Verified, Done
    <3>2. m \in stay
      BY <2>2, <3>1 DEF Done
    <3>3. \E k \in Done : hypr.shown[m] = job.targets[k]
      BY <2>2, <2>3, <2>4, <3>1, <3>2 DEF Verified
    <3> QED
      BY <3>2, <3>3
  <2>5. ASSUME job.todo # {}, Min(job.todo) \in Connected(hypr')
        PROVE  hypr'.shown[Min(job.todo)] = hypr.shown[Min(job.todo)] /\ Min(job.todo) \in Connected(hypr)
    BY <2>3, <2>5
  <2> QED
    BY <1>5, <2>1, <2>2, <2>4, <2>5 DEF Restoring
<1> QED
  BY <1>3, <1>5, <1>8, <1>9

LEMMA PlugPlugged ==
  ASSUME Inv, HotplugInv, Plug
  PROVE  HotplugInv'
<1> DEFINE New(m, w) == Show([hypr EXCEPT !.shown = [n \in Connected(hypr) \cup {m} |-> IF n = m THEN w ELSE hypr.shown[n]]], m, w)
<1>1. PICK m \in Monitors \ Connected(hypr), focus \in BOOLEAN, w \in Hidden(hypr) \cup Unused(hypr) :
         hypr' = IF focus THEN [New(m, w) EXCEPT !.focused = m] ELSE New(m, w)
  BY DEF Plug
<1>2. hypr'.shown = New(m, w).shown
  BY <1>1, DeskFacts DEF Show
<1>3. /\ DOMAIN New(m, w).shown = Connected(hypr) \cup {m}
      /\ \A n \in Connected(hypr) : New(m, w).shown[n] = hypr.shown[n]
  BY <1>1, InvFacts, SaneFacts, DeskFacts DEF Show, Desks
<1> HIDE DEF New
<1>4. Connected(hypr') = Connected(hypr) \cup {m} /\ \A n \in Connected(hypr) : hypr'.shown[n] = hypr.shown[n]
  BY <1>2, <1>3 DEF Connected
<1>5. Sane(hypr')
  BY PlugKeeps DEF Inv, TypesInv
<1>6. plugs' = plugs + 1 /\ calm' = FALSE /\ UNCHANGED <<saved, pc, mem, job, moves>>
  BY DEF Plug
<1>7. Connected(hypr) # {}
  BY InvFacts
<1> QED
  BY <1>4, <1>5, <1>6, <1>7, Plugged

LEMMA UnplugPlugged ==
  ASSUME Inv, HotplugInv, Unplug
  PROVE  HotplugInv'
<1>1. PICK m, n \in Connected(hypr) : m # n /\ hypr'.shown = Restrict(hypr.shown, Connected(hypr) \ {m})
  <2>1. PICK m, n \in Connected(hypr) :
           /\ m # n
           /\ hypr' = [shown |-> Restrict(hypr.shown, Connected(hypr) \ {m}),
                       at |-> [w \in DOMAIN hypr.at |-> IF hypr.at[w] = m THEN n ELSE hypr.at[w]],
                       focused |-> IF hypr.focused = m THEN n ELSE hypr.focused]
    BY DEF Unplug
  <2> QED
    BY <2>1
<1>2. /\ Connected(hypr') = Connected(hypr) \ {m}
      /\ \A k \in Connected(hypr) \ {m} : hypr'.shown[k] = hypr.shown[k]
  BY <1>1 DEF Connected, Restrict
<1>3. Sane(hypr')
  BY UnplugKeeps DEF Inv, TypesInv
<1>4. plugs' = plugs + 1 /\ calm' = FALSE /\ UNCHANGED <<saved, pc, mem, job, moves>>
  BY DEF Unplug
<1> QED
  BY <1>1, <1>2, <1>3, <1>4, Plugged

LEMMA VanishSame ==
  ASSUME HotplugInv, Vanish
  PROVE  HotplugInv'
<1>1. PICK w \in Hidden(hypr) : hypr' = [hypr EXCEPT !.at = Restrict(hypr.at, DOMAIN hypr.at \ {w})]
  BY DEF Vanish
<1>2. UNCHANGED <<queue, saved, pc, mem, job, calm, plugs, moves>>
  BY DEF Vanish, bounds
<1> QED
  BY <1>1, <1>2, SameView

LEMMA ExpireSame ==
  ASSUME HotplugInv, Expire
  PROVE  HotplugInv'
<1>1. UNCHANGED <<hypr, queue, saved, pc, mem, job, calm, plugs, moves>>
  BY DEF Expire, bounds
<1> QED
  BY <1>1, SameView

LEMMA SkipSame ==
  ASSUME Inv, HotplugInv, NEW w, Skip(w)
  PROVE  HotplugInv'
<1>1. UNCHANGED <<hypr, saved, pc, mem, job, calm, plugs, moves>> /\ queue' = Tail(queue) /\ queue # <<>>
  BY DEF Skip, bounds, Take
<1>2. Pending(queue') => Pending(queue)
  BY <1>1, InvFacts, QuietQueue
<1> QED
  BY <1>1, <1>2, SameView

LEMMA StutterSame ==
  ASSUME HotplugInv, UNCHANGED vars
  PROVE  HotplugInv'
<1>1. UNCHANGED <<hypr, queue, saved, pc, mem, job, calm, plugs, moves>>
  BY DEF vars, bounds
<1> QED
  BY <1>1, SameView

-----------------------------------------------------------------------------
(* The switch and the restore around the hotplug. *)

\* The daemon reads its state: what the rest of the switch works on.
LEMMA BeginSwitchOn ==
  ASSUME Inv, HotplugInv, BeginSwitch
  PROVE  HotplugInv'
<1> DEFINE s == CaptureLayout(Session, cur, hypr)
           live == Connected(hypr)
<1>1. PICK c \in Spaces : mem' = [s EXCEPT !.cur = c]
  BY DEF BeginSwitch
<1>2. /\ pc = "idle" /\ pc' = "enter" /\ UNCHANGED <<hypr, queue, saved, calm, plugs, moves>>
      /\ Held = Session /\ Held' = mem'
  BY DEF BeginSwitch, Held
<1>3. s \in Sessions /\ s.layout = CaptureSlots(Session, cur, hypr).layout
  BY InvFacts, CaptureLayoutFacts
<1>4. ASSUME Showing(hypr, cur) = live
      PROVE  s.last = [Session.last EXCEPT ![cur] = SlotOf(Active(hypr))]
  <2>1. Active(hypr) \in Allowed(cur)
    BY <1>4, InvFacts, SaneFacts DEF Showing, Active
  <2>2. CaptureSlots(Session, cur, hypr) \in Sessions /\ CaptureSlots(Session, cur, hypr).last = Session.last
    BY InvFacts, CaptureFacts
  <2>3. s = [CaptureSlots(Session, cur, hypr) EXCEPT !.last[cur] = SlotOf(Active(hypr))]
    BY <2>1 DEF CaptureLayout
  <2> QED
    BY <2>2, <2>3 DEF Sessions
<1> HIDE DEF s
<1>5. mem'.layout = s.layout /\ mem'.last = s.last
  BY <1>1, <1>3, CurChanged
<1>6. ASSUME Before
      PROVE  Before'
  <2>1. Showing(hypr, cur) = live /\ Whole(Session, live)
    BY <1>2, <1>6 DEF Before
  <2>2. /\ \A d \in Spaces \ {cur} : WholeAt(Session, d, live) /\ s.last[d] = Session.last[d]
        /\ s.last[cur] = SlotOf(Active(hypr))
    BY <1>4, <2>1, InvFacts, SessionFacts DEF Whole
  <2>3. \A m \in live : live = {m} => s.last[cur] = SlotOf(hypr.shown[m])
    BY <2>2, InvFacts, SaneFacts DEF Active
  <2>4. Whole(s, live)
    BY <1>3, <2>1, <2>2, <2>3, InvFacts, CaptureWhole
  <2>5. Whole(mem', live)
    BY <1>5, <2>4 DEF Whole, WholeAt
  <2> QED
    BY <1>2, <1>6, <2>1, <2>5 DEF Before, saved
<1>7. ASSUME After
      PROVE  After'
  <2>1. Recalls(Session.layout, live)
    BY <1>2, <1>7 DEF After
  <2>2. Recalls(mem'.layout, live)
    BY <1>3, <1>5, <2>1, InvFacts, CaptureRecalls
  <2> QED
    BY <1>2, <2>2 DEF After
<1> QED
  BY <1>2, <1>6, <1>7 DEF HotplugInv, Quiet

LEMMA EnterOn ==
  ASSUME Inv, HotplugInv, Enter
  PROVE  HotplugInv'
<1> DEFINE s == [mem EXCEPT !.last[mem.cur] = SlotOf(Active(hypr))]
           live == Connected(hypr)
<1>1. /\ pc = "enter" /\ pc' = "setup" /\ UNCHANGED <<hypr, queue, saved, calm, plugs, moves>>
      /\ Held = mem /\ Held' = mem'
  BY DEF Enter, bounds, Held
<1>2. CASE Active(hypr) \notin Owned(mem.cur)
  <2>1. mem' = mem
    BY <1>2 DEF Enter
  <2>2. Before => Before'
    BY <1>1, <2>1 DEF Before
  <2>3. After => After'
    BY <1>1, <2>1 DEF After
  <2> QED
    BY <1>1, <2>2, <2>3 DEF HotplugInv, Quiet
<1>3. CASE Active(hypr) \in Owned(mem.cur)
  <2>1. mem' = Refresh(s, hypr)
    BY <1>3 DEF Enter
  <2>2. SlotOf(Active(hypr)) \in 1..Slots
    BY <1>3, InvFacts, NameFacts
  <2>3. /\ s \in Sessions /\ s.cur = mem.cur /\ s.layout = mem.layout
        /\ s.last[mem.cur] = SlotOf(Active(hypr)) /\ \A d \in Spaces \ {mem.cur} : s.last[d] = mem.last[d]
    BY <2>2, InvFacts, LastChanged, SessionFacts
  <2> HIDE DEF s
  <2>4. ASSUME Before
        PROVE  Before'
    <3>1. Showing(hypr, cur) = live /\ Whole(mem, live)
      BY <1>1, <2>4 DEF Before
    <3>2. Active(hypr) \in Allowed(cur)
      BY <3>1, InvFacts, SaneFacts DEF Showing, Active
    <3>3. mem.cur = cur
      BY <1>3, <3>2, InvFacts, OwnedOnce
    <3>4. \A d \in Spaces \ {s.cur} : WholeAt(s, d, live)
      BY <2>3, <3>1 DEF Whole, WholeAt
    <3>5. Whole(Refresh(s, hypr), live)
      BY <2>3, <3>1, <3>3, <3>4, InvFacts, RefreshWhole
    <3> QED
      BY <1>1, <2>1, <2>4, <3>5 DEF Before
  <2>5. After'
    <3>1. Recalls(mem'.layout, live)
      BY <2>1, <2>3, InvFacts, RefreshFacts, AboutRecalls
    <3> QED
      BY <1>1, <3>1 DEF After
  <2> QED
    BY <1>1, <2>4, <2>5 DEF HotplugInv, Quiet
<1> QED
  BY <1>2, <1>3

\* Only the compositor changes.
LEMMA SetupOn ==
  ASSUME Inv, HotplugInv, Setup
  PROVE  HotplugInv'
<1> DEFINE missing == IF mem.cur = Default THEN {} ELSE {w[2] : w \in Owned(mem.cur) \ DOMAIN hypr.at}
           new == <<mem.cur, Min(missing)>>
           prev == Active(hypr)
<1>1. /\ pc = "setup" /\ pc' = "plan"
      /\ IF missing = {} THEN UNCHANGED <<hypr, queue>>
         ELSE IF prev \in Owned(mem.cur)
              THEN hypr' = GoTo(GoTo(hypr, new), prev) /\ queue' = queue \o <<new, prev>>
              ELSE Dispatch(GoTo(hypr, new))
  BY DEF Setup
<1>2. missing # {} => new \in Names
  <2>1. missing \subseteq 1..Slots
    BY DEF Owned
  <2>2. missing # {} => Min(missing) \in missing
    BY <2>1, MinIsLeast
  <2> HIDE DEF missing
  <2> QED
    BY <2>1, <2>2, InvFacts DEF Names
<1> HIDE DEF missing, new
<1>3. prev \in Names
  BY InvFacts, SaneFacts
<1> HIDE DEF prev
<1>4. Connected(hypr') = Connected(hypr) /\ (~Pending(queue) => ~Pending(queue'))
  <2>1. CASE missing = {}
    BY <1>1, <2>1
  <2>2. CASE missing # {}
    <3>1. Sane(GoTo(hypr, new)) /\ Connected(GoTo(hypr, new)) = Connected(hypr)
      BY <1>2, <2>2, InvFacts, GoToSane
    <3>2. CASE prev \in Owned(mem.cur)
      <4>1. hypr' = GoTo(GoTo(hypr, new), prev) /\ queue' = queue \o <<new, prev>>
        BY <1>1, <2>2, <3>2
      <4>2. Connected(hypr') = Connected(hypr)
        BY <1>3, <3>1, <4>1, GoToSane
      <4> QED
        BY <1>2, <1>3, <2>2, <4>1, <4>2, InvFacts, QuietQueue
    <3>3. CASE prev \notin Owned(mem.cur)
      <4>1. Dispatch(GoTo(hypr, new))
        BY <1>1, <2>2, <3>3
      <4>2. hypr' = GoTo(hypr, new)
        BY <4>1 DEF Dispatch
      <4> QED
        BY <3>1, <4>1, <4>2, DispatchQuiet
    <3> QED
      BY <3>2, <3>3
  <2> QED
    BY <2>1, <2>2
<1>5. UNCHANGED <<mem, calm, plugs, moves>> /\ Held = mem /\ Held' = mem
  BY <1>1 DEF Setup, bounds, Held
<1>6. Before => Before'
  BY <1>1, <1>4, <1>5 DEF Before
<1>7. After => After'
  BY <1>1, <1>4, <1>5 DEF After
<1> QED
  BY <1>1, <1>5, <1>6, <1>7 DEF HotplugInv, Quiet

\* With one monitor, it shows the workspace last used in the taskspace.
LEMMA PlanOneOn ==
  ASSUME Inv, HotplugInv, PlanOne
  PROVE  HotplugInv'
<1> DEFINE w == Name(mem.cur, mem.last[mem.cur])
<1>1. w \in Names /\ w \in Allowed(mem.cur)
  BY InvFacts, SessionFacts, NameFacts
<1>2. Sane(GoTo(hypr, w)) /\ Connected(GoTo(hypr, w)) = Connected(hypr) /\ Active(GoTo(hypr, w)) = w
  BY <1>1, InvFacts, GoToSane
<1>3. Dispatch(GoTo(hypr, w)) /\ Save(mem) /\ pc = "plan" /\ pc' = "idle" /\ Cardinality(Connected(hypr)) = 1
  BY DEF PlanOne
<1>4. UNCHANGED <<mem, calm, plugs, moves>> /\ Held = mem /\ Held' = Session'
  BY <1>3 DEF PlanOne, bounds, Held
<1>5. cur' = mem.cur /\ layout' = mem.layout /\ Session'.last = mem.last /\ Session'.layout = mem.layout
  BY <1>3 DEF Save, Session
<1>6. /\ Sane(hypr') /\ Connected(hypr') = Connected(hypr) /\ hypr'.shown[hypr'.focused] = w
      /\ hypr'.focused \in Connected(hypr)
  <2>1. hypr' = GoTo(hypr, w)
    BY <1>3 DEF Dispatch
  <2> QED
    BY <1>2, <2>1, SaneFacts DEF Active
<1>7. Connected(hypr) = {hypr'.focused}
  <2>1. IsFiniteSet(Connected(hypr))
    BY InvFacts, MonitorSets
  <2>2. \E m : Connected(hypr) = {m}
    BY <1>3, <2>1, FS_Singleton
  <2> QED
    BY <1>6, <2>2
<1>8. Showing(hypr', cur') = Connected(hypr')
  BY <1>1, <1>5, <1>6, <1>7 DEF Showing
<1>9. ASSUME Before
      PROVE  Before'
  <2>1. Whole(mem, Connected(hypr))
    BY <1>4, <1>9 DEF Before
  <2>2. Whole(Session', Connected(hypr'))
    BY <1>5, <1>6, <2>1 DEF Whole, WholeAt
  <2>3. WholeAt(mem, mem.cur, Connected(hypr))
    BY <2>1, InvFacts DEF Whole
  <2>4. Exact(layout'[cur'], hypr', cur')
    BY <1>5, <1>6, <1>7, <1>8, <2>3 DEF Exact, WholeAt
  <2>5. ~Pending(queue')
    BY <1>2, <1>3, <1>9, DispatchQuiet DEF Before
  <2> QED
    BY <1>3, <1>4, <1>6, <1>8, <1>9, <2>2, <2>4, <2>5 DEF Before
<1>10. ASSUME After
       PROVE  After'
  <2>1. Recalls(layout', Connected(hypr'))
    BY <1>4, <1>5, <1>6, <1>10 DEF After
  <2>2. InSight(layout'[cur'], hypr', cur', hypr'.focused)
    BY <1>6, <1>7, <1>8 DEF InSight, Kept
  <2>3. Sole(hypr')
    BY <1>6, <1>7 DEF Sole
  <2> QED
    BY <1>3, <1>4, <1>5, <2>1, <2>2, <2>3 DEF After
<1> QED
  BY <1>3, <1>4, <1>9, <1>10 DEF HotplugInv, Quiet

\* The slots of monitors that are not remembered: those of their positions.
LEMMA FirstOfNone ==
  ASSUME NEW p \in 1..Slots
  PROVE  FirstFree({}, p, 1..Slots) = p
<1> DEFINE later == {s \in 1..Slots : s >= p /\ s \notin {}}
<1>1. p \in later /\ later \in SUBSET Nat
  OBVIOUS
<1>2. Min(later) \in later /\ Min(later) <= p
  BY <1>1, MinIsLeast
<1>3. Min(later) = p
  BY <1>2
<1> QED
  BY <1>1, <1>3 DEF FirstFree

LEMMA IndexDistinct ==
  ASSUME NEW live \in SUBSET Monitors, NEW m \in live
  PROVE  /\ IndexOf(m, live) \in 1..Cardinality(live)
         /\ \A n \in live : IndexOf(m, live) = IndexOf(n, live) => m = n
<1> DEFINE upto(k) == {i \in live : i <= k}
<1>1. IsFiniteSet(live) /\ live \in SUBSET Nat
  BY MonitorSets
<1>2. \A k \in live : upto(k) \in SUBSET live /\ IsFiniteSet(upto(k)) /\ IndexOf(k, live) = Cardinality(upto(k))
  BY <1>1, FS_Subset DEF IndexOf
<1>3. \A k \in live : k \in upto(k)
  BY <1>1
<1>4. ASSUME NEW j \in live, NEW k \in live, j < k
      PROVE  upto(j) \in SUBSET upto(k) /\ k \notin upto(j)
  <2>1. j \in Nat /\ k \in Nat /\ \A i \in live : i \in Nat
    BY <1>1
  <2>2. \A i \in live : i <= j => i <= k
    BY <1>4, <2>1
  <2>3. ~(k <= j)
    BY <1>4, <2>1
  <2> QED
    BY <2>2, <2>3
<1> HIDE DEF upto
<1>5. IndexOf(m, live) \in 1..Cardinality(live)
  <2>1. Cardinality(upto(m)) \in Nat /\ Cardinality(live) \in Nat /\ Cardinality(upto(m)) <= Cardinality(live)
    BY <1>1, <1>2, FS_CardinalityType, FS_Subset
  <2>2. Cardinality(upto(m)) # 0
    BY <1>2, <1>3, FS_EmptySet
  <2> QED
    BY <1>2, <2>1, <2>2
<1>6. ASSUME NEW j \in live, NEW k \in live, j < k
      PROVE  IndexOf(j, live) # IndexOf(k, live)
  <2>1. upto(j) # upto(k)
    BY <1>3, <1>4, <1>6
  <2>2. Cardinality(upto(k)) # Cardinality(upto(j))
    BY <1>2, <1>4, <1>6, <2>1, FS_Subset
  <2> QED
    BY <1>2, <2>2
<1>7. \A n \in live : IndexOf(m, live) = IndexOf(n, live) => m = n
  <2>1. TAKE n \in live
  <2>2. m < n \/ n < m \/ m = n
    BY <1>1
  <2> QED
    BY <1>6, <2>2
<1> QED
  BY <1>5, <1>7

LEMMA ResolveDistinct ==
  ASSUME NEW s \in Sessions, NEW live \in SUBSET Monitors, Cardinality(live) <= Slots,
         WholeAt(s, s.cur, live),
         NEW m \in live, NEW n \in live, ResolveSlot(s, m, live) = ResolveSlot(s, n, live)
  PROVE  m = n
<1> DEFINE f == s.layout[s.cur]
<1>1. CASE DOMAIN f = {}
  <2>1. Range(f) = {}
    BY <1>1 DEF Range
  <2>2. Cardinality(live) \in Nat
    BY MonitorSets, FS_CardinalityType
  <2>3. ASSUME NEW k \in live
        PROVE  ResolveSlot(s, k, live) = IndexOf(k, live)
    <3>1. IndexOf(k, live) \in 1..Slots
      BY <2>2, IndexDistinct
    <3>2. Preferred(IndexOf(k, live)) = IndexOf(k, live)
      BY <3>1 DEF Preferred
    <3>3. ResolveSlot(s, k, live) = FirstFree({}, Preferred(IndexOf(k, live)), 1..Slots)
      BY <1>1, <2>1 DEF ResolveSlot
    <3> QED
      BY <3>1, <3>2, <3>3, FirstOfNone
  <2> QED
    BY <2>3, IndexDistinct
<1>2. CASE DOMAIN f # {}
  <2>1. DOMAIN f = live /\ Distinct(f, live)
    BY <1>2 DEF WholeAt
  <2>2. f[m] = f[n]
    BY <2>1 DEF ResolveSlot
  <2> QED
    BY <2>1, <2>2 DEF Distinct, Kept
<1> QED
  BY <1>1, <1>2

LEMMA PlanOn ==
  ASSUME Inv, HotplugInv, Plan
  PROVE  HotplugInv'
<1> DEFINE live == Connected(hypr)
           n == Cardinality(live) + 2
           targets == [m \in live |-> Name(mem.cur, ResolveSlot(mem, m, live))]
<1>1. /\ pc = "plan" /\ pc' = "restore" /\ calm' = TRUE
      /\ UNCHANGED <<hypr, queue, saved, mem, plugs, moves>>
  BY DEF Plan, bounds
<1>2. job'.targets = targets /\ job'.todo = live /\ job'.focused = hypr.focused
  <2>1. job' = Planned(job, targets, hypr.focused, live, n)
    BY DEF Plan, Planned
  <2> HIDE DEF targets, live, n
  <2> QED
    BY <2>1, InvFacts DEF Jobs, Planned
<1>3. live \in SUBSET Monitors /\ hypr.focused \in live /\ mem.cur \in Spaces
  BY InvFacts, SaneFacts
<1>4. \A m \in live : ResolveSlot(mem, m, live) \in 1..Slots
  BY <1>3, InvFacts, SlotChosen
<1>5. \A m \in live :
         /\ targets[m] \in Allowed(mem.cur)
         /\ m \in DOMAIN mem.layout[mem.cur] => targets[m] = Name(mem.cur, mem.layout[mem.cur][m])
  BY <1>3, <1>4, NameFacts DEF ResolveSlot
<1>6. ASSUME Before
      PROVE  IsInjective(targets)
  <2>1. WholeAt(mem, mem.cur, live) /\ Cardinality(live) <= Slots
    BY <1>1, <1>3, <1>6 DEF Before, Held, Whole
  <2>2. SUFFICES ASSUME NEW a \in live, NEW b \in live, targets[a] = targets[b]
                 PROVE  a = b
    BY DEF IsInjective
  <2>3. ResolveSlot(mem, a, live) = ResolveSlot(mem, b, live)
    BY <1>3, <1>4, <2>2, NameFacts
  <2> QED
    BY <1>3, <2>1, <2>3, InvFacts, ResolveDistinct
<1>7. DOMAIN targets = live
  OBVIOUS
<1> HIDE DEF targets
<1>8. (plugs = 0 => Before) => Restoring'
  BY <1>1, <1>2, <1>3, <1>5, <1>6, <1>7 DEF Restoring
<1>9. Held = mem /\ Held' = mem
  BY <1>1 DEF Held
<1>10. Before => Before'
  BY <1>1, <1>9 DEF Before
<1>11. After => After'
  BY <1>1, <1>9 DEF After
<1> QED
  BY <1>1, <1>8, <1>10, <1>11 DEF HotplugInv, Quiet

\* A dispatch of the restore.
LEMMA LoopOn ==
  ASSUME Inv, HotplugInv, pc \in {"restore", "verify"}, pc' \in {"restore", "verify"},
         UNCHANGED <<saved, mem, calm, plugs, moves>>, Connected(hypr') = Connected(hypr),
         ~Pending(queue) => ~Pending(queue'),
         job'.targets = job.targets, job'.focused = job.focused,
         pc' = "restore" => pc = "restore" /\ job'.todo = job.todo,
         pc' = "verify" /\ Restoring =>
             /\ Verified'
             /\ job'.todo # {} /\ Min(job'.todo) \in Connected(hypr) /\ job'.count # 2 =>
                   hypr'.shown[Min(job'.todo)] = job.targets[Min(job'.todo)]
  PROVE  HotplugInv'
<1>1. Held = mem /\ Held' = mem
  BY DEF Held
<1>2. Before => Before'
  BY <1>1 DEF Before
<1>3. After => After'
  BY <1>1 DEF After
<1>4. Restoring => Restoring'
  BY DEF Restoring
<1> QED
  BY <1>2, <1>3, <1>4 DEF HotplugInv, Quiet

LEMMA RestorePassOn ==
  ASSUME Inv, HotplugInv, RestorePass
  PROVE  HotplugInv'
<1> DEFINE pending == {m \in DOMAIN job.targets : NeedsMove(m)}
<1>1. /\ pc = "restore" /\ UNCHANGED <<saved, mem, calm, plugs, moves>>
      /\ IF pending = {} \/ job.count = 0
         THEN pc' = "verify" /\ job' = Counted(job, 2) /\ UNCHANGED <<hypr, queue>>
         ELSE Assign(Max(pending)) /\ job' = Counted(job, job.count - 1) /\ UNCHANGED pc
  BY DEF RestorePass, Counted, bounds
<1>2. pending # {} => Max(pending) \in DOMAIN job.targets
  BY LoopFacts
<1> HIDE DEF pending
<1>3. \A k : job' = Counted(job, k) => /\ job'.targets = job.targets /\ job'.todo = job.todo
                                       /\ job'.focused = job.focused /\ job'.count = k
  BY InvFacts DEF Jobs, Counted
<1>4. CASE pending = {} \/ job.count = 0
  <2>1. pc' = "verify" /\ UNCHANGED <<hypr, queue>> /\ job'.count = 2
        /\ job'.targets = job.targets /\ job'.todo = job.todo /\ job'.focused = job.focused
    BY <1>1, <1>3, <1>4
  <2>2. Restoring => Done' = {}
    BY <1>1, <2>1 DEF Restoring, Done
  <2>3. Restoring => Verified'
    BY <2>2 DEF Verified
  <2> QED
    BY <1>1, <2>1, <2>3, LoopOn
<1>5. CASE pending # {} /\ job.count # 0
  <2>1. /\ Assign(Max(pending)) /\ pc' = "restore"
        /\ job'.targets = job.targets /\ job'.todo = job.todo /\ job'.focused = job.focused
    BY <1>1, <1>3, <1>5
  <2>2. Sane(hypr') /\ Connected(hypr') = Connected(hypr)
    BY <1>2, <1>5, <2>1, AssignFacts
  <2>3. (hypr' = hypr /\ queue' = queue) \/ \E g : Dispatch(g)
    BY <2>1 DEF Assign
  <2>4. \A g : Dispatch(g) => g = hypr'
    BY DEF Dispatch
  <2>5. ~Pending(queue) => ~Pending(queue')
    BY <2>2, <2>3, <2>4, DispatchQuiet
  <2> QED
    BY <1>1, <2>1, <2>2, <2>5, LoopOn
<1> QED
  BY <1>4, <1>5

\* SwitchOn of a monitor that is gone: the one in focus gets the workspace.
LEMMA SwitchOnGone ==
  ASSUME NEW h, Sane(h), NEW m, m \notin Connected(h), NEW w \in Names
  PROVE  Puts(h, SwitchOn(h, m, w), h.focused, w) /\ SwitchOn(h, m, w).focused = h.focused
<1>1. SwitchOn(h, m, w) = GoHere(h, w)
  BY DEF SwitchOn, FocusMonitor
<1> QED
  BY <1>1, GoHereSane

\* A monitor is given its target: those verified before keep theirs.
LEMMA VerifyPuts ==
  ASSUME Inv, Restoring, Verified, NEW m, job.todo # {}, m = Min(job.todo),
         hypr' = SwitchOn(hypr, m, job.targets[m]),
         job'.targets = job.targets, job'.todo = job.todo
  PROVE  Verified' /\ (m \in Connected(hypr) => hypr'.shown[m] = job.targets[m])
<1> DEFINE w == job.targets[m]
<1>1. m \in job.todo /\ m \in DOMAIN job.targets /\ w \in Names /\ Sane(hypr)
  BY LoopFacts, InvFacts
<1>2. m \in Connected(hypr) => Puts(hypr, hypr', m, w)
  BY <1>1, SwitchOnSane
<1>3. m \notin Connected(hypr) => Puts(hypr, hypr', hypr.focused, w) /\ hypr'.focused = hypr.focused
  BY <1>1, SwitchOnGone
<1>4. Done' = Done /\ Connected(hypr') = Connected(hypr) /\ Min(job'.todo) = m
  BY <1>2, <1>3 DEF Done, Puts
<1>5. CASE IsInjective(job.targets)
  <2>1. SUFFICES ASSUME NEW d \in Done \cap Connected(hypr)
                 PROVE  \/ \E k \in Done : hypr'.shown[d] = job.targets[k]
                        \/ m \notin Connected(hypr) /\ hypr'.shown[d] = w /\ d = hypr'.focused
    BY <1>2, <1>4, <1>5 DEF Verified, Puts
  <2>2. \A k \in Done : job.targets[k] # w
    BY <1>1, <1>5 DEF Done, IsInjective
  <2>3. d # m
    BY <1>1 DEF Done
  <2>4. \/ \E k \in Done : hypr.shown[d] = job.targets[k]
        \/ m \notin Connected(hypr) /\ hypr.shown[d] = w /\ d = hypr.focused
    BY <1>5 DEF Verified
  <2>5. CASE m \notin Connected(hypr) /\ d = hypr.focused
    BY <1>3, <2>5 DEF Puts
  <2>6. CASE m \in Connected(hypr) \/ d # hypr.focused
    <3>1. PICK k \in Done : hypr.shown[d] = job.targets[k]
      BY <2>4, <2>6
    <3>2. hypr'.shown[d] = hypr.shown[d]
      BY <1>2, <1>3, <2>2, <2>3, <2>6, <3>1 DEF Puts
    <3> QED
      BY <3>1, <3>2
  <2> QED
    BY <2>5, <2>6
<1>6. CASE ~IsInjective(job.targets)
  <2>1. DOMAIN job.targets = Connected(hypr)
    BY <1>6 DEF Restoring
  <2>2. SUFFICES ASSUME NEW d \in Done
                 PROVE  \E k \in DOMAIN job.targets :
                           hypr'.shown[k] = job.targets[d] /\ job.targets[k] = job.targets[d]
    BY <1>2, <1>4, <1>6 DEF Verified, Puts
  <2>3. CASE job.targets[d] = w
    BY <1>1, <1>2, <2>1, <2>3 DEF Puts
  <2>4. CASE job.targets[d] # w
    <3>1. PICK k \in DOMAIN job.targets : hypr.shown[k] = job.targets[d] /\ job.targets[k] = job.targets[d]
      BY <1>6 DEF Verified
    <3>2. hypr'.shown[k] = hypr.shown[k]
      BY <1>1, <1>2, <2>1, <2>4, <3>1 DEF Puts
    <3> QED
      BY <3>1, <3>2
  <2> QED
    BY <2>3, <2>4
<1> QED
  BY <1>2, <1>5, <1>6 DEF Puts

\* The next monitor: the one before shows its target, or is gone.
LEMMA VerifyPasses ==
  ASSUME Inv, Restoring, Verified, NEW m, job.todo # {}, m = Min(job.todo),
         UNCHANGED hypr, m \in Connected(hypr) => hypr.shown[m] = job.targets[m],
         job'.targets = job.targets, job'.todo = job.todo \ {m}
  PROVE  Verified'
<1>1. m \in job.todo /\ m \in DOMAIN job.targets
  BY LoopFacts
<1>2. Done' = Done \cup {m}
  BY <1>1 DEF Done
<1>3. CASE IsInjective(job.targets)
  <2>1. SUFFICES ASSUME NEW d \in Done' \cap Connected(hypr)
                 PROVE  \E k \in Done' : hypr.shown[d] = job.targets[k]
    BY <1>3 DEF Verified
  <2>2. CASE d = m
    BY <1>2, <2>2
  <2>3. CASE d # m
    <3>1. \/ \E k \in Done : hypr.shown[d] = job.targets[k]
          \/ hypr.shown[d] = job.targets[m]
      BY <1>2, <1>3, <2>3 DEF Verified
    <3> QED
      BY <1>2, <3>1
  <2> QED
    BY <2>2, <2>3
<1>4. CASE ~IsInjective(job.targets)
  <2>1. DOMAIN job.targets = Connected(hypr)
    BY <1>4 DEF Restoring
  <2>2. SUFFICES ASSUME NEW d \in Done \cup {m}
                 PROVE  \E k \in DOMAIN job.targets :
                           hypr.shown[k] = job.targets[d] /\ job.targets[k] = job.targets[d]
    BY <1>2, <1>4 DEF Verified
  <2>3. CASE d = m
    BY <1>1, <2>1, <2>3
  <2>4. CASE d # m
    BY <1>4, <2>2, <2>4 DEF Verified
  <2> QED
    BY <2>3, <2>4
<1> QED
  BY <1>3, <1>4

LEMMA VerifyOn ==
  ASSUME Inv, HotplugInv, Verify
  PROVE  HotplugInv'
<1> DEFINE m == Min(job.todo)
<1>1. /\ pc = "verify" /\ job.todo # {} /\ UNCHANGED <<saved, pc, mem, calm, plugs, moves>>
      /\ IF NeedsMove(m) /\ job.count > 0
         THEN Dispatch(SwitchOn(hypr, m, job.targets[m])) /\ job' = Counted(job, job.count - 1)
         ELSE job' = Passed(job, job.todo \ {m}, 2) /\ UNCHANGED <<hypr, queue>>
  BY DEF Verify, Counted, Passed, bounds
<1>2. m \in job.todo /\ m \in DOMAIN job.targets /\ job.targets[m] \in Names
  BY <1>1, LoopFacts
<1> HIDE DEF m
<1>3. CASE NeedsMove(m) /\ job.count > 0
  <2>1. Dispatch(SwitchOn(hypr, m, job.targets[m])) /\ hypr' = SwitchOn(hypr, m, job.targets[m])
    BY <1>1, <1>3 DEF Dispatch
  <2>2. job'.targets = job.targets /\ job'.todo = job.todo /\ job'.focused = job.focused
    BY <1>1, <1>3, InvFacts DEF Jobs, Counted
  <2>3. Sane(hypr') /\ Connected(hypr') = Connected(hypr)
    BY <1>2, <2>1, InvFacts, SwitchOnSane
  <2>4. ~Pending(queue) => ~Pending(queue')
    BY <2>1, <2>3, DispatchQuiet
  <2>5. ASSUME Restoring
        PROVE  Verified' /\ (m \in Connected(hypr) => hypr'.shown[m] = job.targets[m])
    <3>1. Verified
      BY <1>1, <2>5 DEF Restoring
    <3> QED
      BY <1>1, <2>1, <2>2, <2>5, <3>1, VerifyPuts DEF m
  <2>6. Min(job'.todo) = m
    BY <2>2 DEF m
  <2> QED
    BY <1>1, <2>2, <2>3, <2>4, <2>5, <2>6, LoopOn
<1>4. CASE ~(NeedsMove(m) /\ job.count > 0)
  <2>1. /\ UNCHANGED <<hypr, queue>> /\ job'.count = 2
        /\ job'.targets = job.targets /\ job'.todo = job.todo \ {m} /\ job'.focused = job.focused
    BY <1>1, <1>4, InvFacts DEF Jobs, Passed
  <2>2. ASSUME Restoring
        PROVE  Verified'
    <3>1. ASSUME m \in Connected(hypr)
          PROVE  hypr.shown[m] = job.targets[m]
      <4>1. CASE ~NeedsMove(m)
        BY <4>1 DEF NeedsMove
      <4>2. CASE ~(job.count > 0)
        <5>1. job.count # 2
          BY <4>2
        <5> QED
          BY <1>1, <2>2, <3>1, <5>1 DEF Restoring, m
      <4> QED
        BY <1>4, <4>1, <4>2
    <3>2. Verified
      BY <1>1, <2>2 DEF Restoring
    <3> QED
      BY <1>1, <2>1, <2>2, <3>1, <3>2, VerifyPasses DEF m
  <2> QED
    BY <1>1, <2>1, <2>2, LoopOn
<1> QED
  BY <1>3, <1>4

\* The end of a switch, of a restore and of a reconcile.
LEMMA FinishSaved ==
  ASSUME Inv, Finish
  PROVE  LET s == CaptureSlots(mem, mem.cur, hypr)
         IN  /\ cur' = mem.cur /\ layout' = s.layout /\ Session'.layout = s.layout
             /\ \A d \in Spaces \ {mem.cur} : Session'.last[d] = mem.last[d]
             /\ job.focused \in DOMAIN s.layout[mem.cur] =>
                   Session'.last[mem.cur] = s.layout[mem.cur][job.focused]
             /\ Sane(hypr') /\ Connected(hypr') = Connected(hypr) /\ hypr'.focused \in Connected(hypr)
             /\ \A c : Showing(hypr', c) = Showing(hypr, c)
             /\ hypr'.shown = hypr.shown
             /\ job.focused \in Connected(hypr) => hypr'.focused = job.focused
             /\ ~Pending(queue) => ~Pending(queue')
<1> DEFINE s == CaptureSlots(mem, mem.cur, hypr)
           f == job.focused
           t == IF f \in DOMAIN s.layout[s.cur] THEN [s EXCEPT !.last[s.cur] = s.layout[s.cur][f]] ELSE s
<1>1. Save(t) /\ Dispatch(FocusMonitor(hypr, f)) /\ hypr' = FocusMonitor(hypr, f)
  BY DEF Finish, Dispatch
<1>2. s \in Sessions /\ s.cur = mem.cur /\ s.last = mem.last /\ mem.cur \in Spaces
  BY InvFacts, CaptureFacts
<1> HIDE DEF s
<1>3. /\ t.layout = s.layout /\ t.cur = mem.cur
      /\ \A d \in Spaces \ {mem.cur} : t.last[d] = mem.last[d]
      /\ f \in DOMAIN s.layout[mem.cur] => t.last[mem.cur] = s.layout[mem.cur][f]
  BY <1>2 DEF Sessions
<1> HIDE DEF t, f
<1>4. cur' = t.cur /\ layout' = t.layout /\ Session'.layout = t.layout /\ Session'.last = t.last
  BY <1>1 DEF Save, Session
<1>5. /\ Sane(hypr') /\ Connected(hypr') = Connected(hypr) /\ hypr'.shown = hypr.shown
      /\ f \in Connected(hypr) => hypr'.focused = f
  BY <1>1, InvFacts, FocusSane
<1>6. hypr'.focused \in Connected(hypr)
  BY <1>5, SaneFacts
<1>7. \A c : Showing(hypr', c) = Showing(hypr, c)
  BY <1>5 DEF Showing
<1>8. ~Pending(queue) => ~Pending(queue')
  BY <1>1, <1>5, DispatchQuiet
<1> QED
  BY <1>3, <1>4, <1>5, <1>6, <1>7, <1>8 DEF s, f

\* After the last monitor is verified.
LEMMA VerifiedShow ==
  ASSUME Inv, Restoring, pc = "verify", job.todo = {}, IsInjective(job.targets)
  PROVE  DOMAIN job.targets \cap Connected(hypr) \subseteq Showing(hypr, mem.cur)
<1>1. SUFFICES ASSUME NEW m \in DOMAIN job.targets \cap Connected(hypr)
               PROVE  hypr.shown[m] \in Allowed(mem.cur)
  BY DEF Showing
<1>2. \E k \in DOMAIN job.targets : hypr.shown[m] = job.targets[k]
  BY DEF Restoring, Verified, Done
<1> QED
  BY <1>2 DEF Restoring

LEMMA FinishBefore ==
  ASSUME Inv, Finish, Before, Restoring, pc = "verify", plugs = 0
  PROVE  Before'
<1> DEFINE s == CaptureSlots(mem, mem.cur, hypr)
           c == mem.cur
           live == Connected(hypr)
<1>1. /\ cur' = c /\ layout' = s.layout /\ Session'.layout = s.layout
      /\ \A d \in Spaces \ {c} : Session'.last[d] = mem.last[d]
      /\ job.focused \in DOMAIN s.layout[c] => Session'.last[c] = s.layout[c][job.focused]
      /\ Connected(hypr') = live
      /\ \A d : Showing(hypr', d) = Showing(hypr, d)
      /\ hypr'.shown = hypr.shown
      /\ ~Pending(queue')
  BY FinishSaved DEF Before
<1>2. job.todo = {} /\ pc' = "idle" /\ calm' = calm /\ Held' = Session' /\ Held = mem
  BY DEF Finish, Held
<1>3. DOMAIN job.targets = live /\ IsInjective(job.targets) /\ job.focused \in live
  BY DEF Restoring, Before
<1>4. Showing(hypr, c) = live
  <2>1. live \subseteq Showing(hypr, c)
    BY <1>2, <1>3, VerifiedShow
  <2> QED
    BY <2>1 DEF Showing
<1>5. /\ DOMAIN s.layout[c] = Showing(hypr, c) \cup Kept(mem.layout[c], live)
      /\ \A m \in Showing(hypr, c) : s.layout[c][m] = SlotOf(hypr.shown[m])
      /\ Exact(s.layout[c], hypr, c)
  BY InvFacts, CaptureExact
<1> HIDE DEF s
<1>6. Session'.last[c] = SlotOf(hypr.shown[job.focused])
  BY <1>1, <1>3, <1>4, <1>5
<1>7. \A m \in live : live = {m} => Session'.last[c] = SlotOf(hypr.shown[m])
  BY <1>3, <1>6
<1>8. \A d \in Spaces \ {c} : WholeAt(mem, d, live)
  BY <1>2 DEF Before, Whole
<1>9. Whole(Session', live)
  <2>1. PICK t : t = Session'
    OBVIOUS
  <2>2. /\ \A d \in Spaces \ {c} : WholeAt(mem, d, live) /\ t.last[d] = mem.last[d]
        /\ t.layout = s.layout
        /\ \A m \in live : live = {m} => t.last[c] = SlotOf(hypr.shown[m])
    BY <1>1, <1>7, <1>8, <2>1
  <2>3. PICK u, k : u = mem /\ k = c
    OBVIOUS
  <2>4. u \in Sessions /\ k \in Spaces /\ Sane(hypr) /\ Showing(hypr, k) = Connected(hypr)
    BY <1>4, <2>3, InvFacts
  <2>5. /\ \A d \in Spaces \ {k} : WholeAt(u, d, Connected(hypr)) /\ t.last[d] = u.last[d]
        /\ t.layout = CaptureSlots(u, k, hypr).layout
        /\ \A m \in Connected(hypr) : Connected(hypr) = {m} => t.last[k] = SlotOf(hypr.shown[m])
    BY <2>2, <2>3 DEF s
  <2>6. Whole(t, Connected(hypr))
    BY <2>4, <2>5, CaptureWhole
  <2> QED
    BY <2>1, <2>6
<1>10. Exact(layout'[cur'], hypr', cur')
  BY <1>1, <1>5 DEF Exact
<1> QED
  BY <1>1, <1>2, <1>4, <1>9, <1>10 DEF Before

LEMMA FinishAfter ==
  ASSUME Inv, Finish, After, pc = "verify" => Restoring
  PROVE  After'
<1> DEFINE s == CaptureSlots(mem, mem.cur, hypr)
           c == mem.cur
           live == Connected(hypr)
           x == hypr'.focused
           f == s.layout[c]
<1>1. /\ cur' = c /\ layout' = s.layout
      /\ Connected(hypr') = live /\ x \in live
      /\ \A d : Showing(hypr', d) = Showing(hypr, d)
      /\ hypr'.shown = hypr.shown
      /\ job.focused \in live => x = job.focused
      /\ Session'.layout = s.layout
  BY FinishSaved
<1>2. pc \in {"verify", "adopt"} /\ job.todo = {} /\ pc' = "idle" /\ Held' = Session' /\ Held = mem
  BY DEF Finish, Held
<1>3. /\ DOMAIN f = Showing(hypr, c) \cup Kept(mem.layout[c], live)
      /\ \A m \in Showing(hypr, c) : f[m] = SlotOf(hypr.shown[m])
      /\ \A m \in Kept(mem.layout[c], live) \ Showing(hypr, c) : f[m] = mem.layout[c][m]
      /\ Exact(f, hypr, c)
  BY InvFacts, CaptureExact
<1>4. Recalls(s.layout, live)
  BY <1>2, InvFacts, CaptureRecalls DEF After
<1>5. InSight(f, hypr, c, x)
  <2>1. CASE pc = "adopt"
    <3>1. Adopting
      BY <2>1 DEF After
    <3>2. /\ InSight(mem.layout[c], hypr, c, job.focused) /\ job.focused \in live
          /\ \/ Sole(hypr) \/ Exact(mem.layout[c], hypr, c)
             \/ Crowded(mem.layout[c]) /\ DOMAIN mem.layout[c] \subseteq live
      BY <3>1, InvFacts DEF Adopting, About
    <3>3. x = job.focused
      BY <1>1, <3>2
    <3> HIDE DEF x
    <3> QED
      BY <3>2, <3>3, InvFacts, CaptureInSight
  <2>2. CASE pc = "verify" /\ IsInjective(job.targets)
    <3>1. DOMAIN job.targets \cap live \subseteq Showing(hypr, c)
      BY <1>2, <2>2, VerifiedShow
    <3>2. x \in DOMAIN job.targets
      BY <1>1, <2>2 DEF Restoring
    <3>3. x \in Showing(hypr, c)
      BY <1>1, <3>1, <3>2
    <3> HIDE DEF f, x
    <3> QED
      BY <1>1, <1>3, <3>3 DEF InSight, Kept
  <2>3. CASE pc = "verify" /\ ~IsInjective(job.targets)
    <3>1. DOMAIN job.targets = live /\ x = job.focused /\ x \in DOMAIN job.targets
      BY <1>1, <2>3 DEF Restoring
    <3>2. PICK k \in live : hypr.shown[k] = job.targets[x]
      BY <1>2, <2>3, <3>1 DEF Restoring, Verified, Done
    <3>3. /\ job.targets[x] \in Allowed(c)
          /\ x \in DOMAIN mem.layout[c] => job.targets[x] = Name(c, mem.layout[c][x])
      BY <2>3, <3>1 DEF Restoring
    <3>4. k \in Showing(hypr, c)
      BY <3>2, <3>3 DEF Showing
    <3> HIDE DEF f, x
    <3>5. SUFFICES ASSUME Distinct(f, live), x \in Kept(f, live), x \notin Showing(hypr, c)
                   PROVE  FALSE
      BY <1>3, <3>4 DEF InSight, Kept, Showing
    <3>6. x \in Kept(mem.layout[c], live)
      BY <1>3, <3>5 DEF Kept
    <3>7. f[x] = mem.layout[c][x] /\ mem.layout[c][x] \in 1..Slots
      <4>1. mem.layout[c] \in SlotMaps
        BY InvFacts, SessionFacts
      <4> QED
        BY <1>3, <3>5, <3>6, <4>1, SlotMapFacts DEF Kept
    <3>8. f[k] = mem.layout[c][x]
      BY <1>3, <3>2, <3>3, <3>4, <3>6, <3>7, InvFacts, NameFacts DEF Kept
    <3>9. k \in Kept(f, live)
      BY <1>3, <3>2, <3>4 DEF Kept
    <3> QED
      BY <3>4, <3>5, <3>7, <3>8, <3>9 DEF Distinct
  <2> QED
    BY <1>2, <2>1, <2>2, <2>3
<1> HIDE DEF s
<1>6. InSight(layout'[cur'], hypr', cur', hypr'.focused) /\ Exact(layout'[cur'], hypr', cur')
  BY <1>1, <1>3, <1>5 DEF InSight, Exact
<1> QED
  BY <1>1, <1>2, <1>4, <1>6 DEF After

LEMMA FinishOn ==
  ASSUME Inv, HotplugInv, Finish
  PROVE  HotplugInv'
<1>1. pc \in {"verify", "adopt"} /\ pc' = "idle" /\ UNCHANGED <<plugs, moves>>
  BY DEF Finish, bounds
<1>2. Quiet /\ plugs = 0 => Before'
  <2>1. Quiet /\ plugs = 0 => Before /\ pc = "verify" /\ Restoring
    BY <1>1 DEF HotplugInv, Before
  <2> QED
    BY <2>1, FinishBefore
<1>3. Quiet /\ plugs = 1 => After'
  <2>1. Quiet /\ plugs = 1 => After /\ (pc = "verify" => Restoring)
    BY DEF HotplugInv
  <2> QED
    BY <2>1, FinishAfter
<1> QED
  BY <1>1, <1>2, <1>3 DEF HotplugInv, Quiet

-----------------------------------------------------------------------------
(* The reconcile and the events. *)

\* A slot is given twice when every slot is taken.
LEMMA AdoptFresh ==
  ASSUME NEW s \in Sessions, NEW live \in SUBSET Monitors, NEW m \in live,
         AdoptSlot(s, m, live) \in Range(s.layout[s.cur])
  PROVE  1..Slots \subseteq Range(s.layout[s.cur])
<1> DEFINE used == Range(s.layout[s.cur])
           free == (1..Slots) \ (Global \cup used)
           usable == IF free # {} THEN free ELSE 1..Slots
           preferred == Preferred(IndexOf(m, live))
<1>1. preferred \in 1..Slots /\ usable \in SUBSET (1..Slots)
  BY PreferredFacts
<1>2. AdoptSlot(s, m, live) = FirstFree(used, preferred, usable)
  BY DEF AdoptSlot
<1>3. free # {} => usable \ used # {}
  OBVIOUS
<1>4. free = {} => usable = 1..Slots
  OBVIOUS
<1> HIDE DEF usable, preferred, free
<1>5. usable \ used # {} => FirstFree(used, preferred, usable) \notin used
  BY <1>1, FirstFreeFacts
<1> QED
  BY <1>2, <1>3, <1>4, <1>5

LEMMA FullCrowded ==
  ASSUME NEW f \in SlotMaps, 1..Slots \subseteq Range(f), NEW m \in Monitors \ DOMAIN f
  PROVE  Cardinality(DOMAIN f \cup {m}) > Slots
<1>1. IsFiniteSet(DOMAIN f)
  BY SlotMapFacts, MonitorSets
<1>2. f \in Surjection(DOMAIN f, 1..Slots)
  BY SlotMapFacts DEF Surjection, Range
<1>3. Cardinality(1..Slots) <= Cardinality(DOMAIN f)
  BY <1>1, <1>2, FS_Surjection
<1>4. Cardinality(1..Slots) = Slots
  BY FS_Interval
<1>5. Cardinality(DOMAIN f \cup {m}) = Cardinality(DOMAIN f) + 1 /\ Cardinality(DOMAIN f) \in Nat
  BY <1>1, FS_AddElement, FS_CardinalityType
<1> QED
  BY <1>3, <1>4, <1>5

\* A monitor is adopted: those remembered keep what they show, unless there are too many
\* for a slot each.
LEMMA AdoptedInSight ==
  ASSUME NEW f \in SlotMaps, NEW g \in SlotMaps, NEW h, NEW k, Sane(h), NEW c \in Spaces,
         NEW m \in Connected(h), NEW slot \in 1..Slots, NEW x,
         DOMAIN f \subseteq Connected(h) \ {m}, DOMAIN g = DOMAIN f \cup {m},
         g[m] = slot, \A n \in DOMAIN f : g[n] = f[n],
         Puts(h, k, m, Name(c, slot)),
         slot \in Range(f) => 1..Slots \subseteq Range(f),
         InSight(f, h, c, x), Sole(h) \/ Crowded(f) \/ Exact(f, h, c)
  PROVE  InSight(g, k, c, x) /\ (Sole(k) \/ Crowded(g) \/ Exact(g, k, c))
<1> DEFINE live == Connected(h)
           w == Name(c, slot)
<1>1. live \in SUBSET Monitors /\ Connected(k) = live /\ k.shown[m] = w
      /\ \A n \in live \ {m} : h.shown[n] # w => k.shown[n] = h.shown[n]
  BY SaneFacts DEF Puts
<1>2. w \in Allowed(c) /\ m \in Showing(k, c)
  BY <1>1, NameFacts DEF Showing
<1>3. Kept(f, live) = DOMAIN f /\ Kept(g, live) = DOMAIN g
  BY DEF Kept
<1>4. DOMAIN f \in SUBSET DOMAIN g /\ m \notin DOMAIN f /\ IsFiniteSet(DOMAIN g)
  BY SlotMapFacts, MonitorSets
<1>5. Crowded(f) => Crowded(g)
  <2>1. Cardinality(DOMAIN f) <= Cardinality(DOMAIN g) /\ Cardinality(DOMAIN g) \in Nat
    BY <1>4, FS_Subset, FS_CardinalityType
  <2>2. Cardinality(DOMAIN f) \in Nat
    BY <1>4, FS_Subset, FS_CardinalityType
  <2> QED
    BY <2>1, <2>2 DEF Crowded
<1>6. CASE slot \in Range(f)
  <2>1. PICK n \in DOMAIN f : f[n] = slot
    BY <1>6 DEF Range
  <2>2. ~Distinct(g, live)
    BY <1>3, <1>4, <2>1 DEF Distinct
  <2>3. Crowded(g)
    BY <1>1, <1>4, <1>6, FullCrowded DEF Crowded
  <2> QED
    BY <1>1, <2>2, <2>3 DEF InSight
<1>7. CASE Crowded(f)
  <2>1. \E a, b \in DOMAIN f : a # b /\ g[a] = g[b]
    BY <1>4, <1>7, CrowdedClash DEF Crowded
  <2>2. ~Distinct(g, live)
    BY <1>3, <1>4, <2>1 DEF Distinct
  <2> QED
    BY <1>1, <1>5, <1>7, <2>2 DEF InSight
<1>8. CASE slot \notin Range(f) /\ ~Crowded(f)
  <2>1. Exact(f, h, c)
    <3>1. Sole(h) => DOMAIN f = {}
      BY DEF Sole
    <3> QED
      BY <1>8, <3>1 DEF Exact
  <2>2. \A n \in DOMAIN f : f[n] \in 1..Slots /\ f[n] # slot
    BY <1>8, SlotMapFacts
  <2>3. \A n \in DOMAIN f : h.shown[n] # w
    <3>1. SUFFICES ASSUME NEW n \in DOMAIN f, h.shown[n] = w
                   PROVE  FALSE
      OBVIOUS
    <3>2. h.shown[n] = Name(c, f[n])
      BY <1>2, <2>1, <3>1 DEF Exact, Showing
    <3> QED
      BY <2>2, <3>1, <3>2, NameFacts
  <2>4. \A n \in DOMAIN f : n \in live \ {m} /\ k.shown[n] = h.shown[n]
    BY <1>1, <2>3
  <2>5. \A n \in DOMAIN f : n \in Showing(h, c) <=> n \in Showing(k, c)
    BY <1>1, <2>4 DEF Showing
  <2>6. Exact(g, k, c)
    <3>1. SUFFICES ASSUME NEW n \in DOMAIN g \cap Showing(k, c)
                   PROVE  k.shown[n] = Name(c, g[n])
      BY DEF Exact
    <3>2. CASE n = m
      BY <1>1, <3>2
    <3>3. CASE n # m
      BY <2>1, <2>4, <2>5, <3>1, <3>3 DEF Exact
    <3> QED
      BY <3>2, <3>3
  <2>7. InSight(g, k, c, x)
    <3>1. SUFFICES ASSUME Distinct(g, live), x \in DOMAIN g
                   PROVE  x \in Showing(k, c)
      BY <1>1, <1>2, <1>3 DEF InSight
    <3>2. CASE x = m
      BY <1>2, <3>2
    <3>3. CASE x \in DOMAIN f
      <4>1. Distinct(f, live)
        BY <1>3, <3>1 DEF Distinct
      <4>2. x \in Showing(h, c)
        BY <1>3, <3>3, <4>1 DEF InSight
      <4> QED
        BY <2>5, <3>3, <4>2
    <3> QED
      BY <3>1, <3>2, <3>3
  <2> QED
    BY <2>6, <2>7
<1> QED
  BY <1>6, <1>7, <1>8

LEMMA AdoptNewOn ==
  ASSUME Inv, HotplugInv, AdoptNew
  PROVE  HotplugInv'
<1> DEFINE m == Min(job.todo)
           slot == AdoptSlot(mem, m, DOMAIN job.targets)
           c == mem.cur
           f == mem.layout[c]
           g == mem'.layout[c]
<1>1. /\ m \in job.todo /\ slot \in 1..Slots
      /\ Sane(hypr') /\ Connected(hypr') = Connected(hypr)
      /\ m \in Connected(hypr) => Puts(hypr, hypr', m, Name(c, slot))
      /\ mem' \in Sessions /\ mem'.cur = c
      /\ DOMAIN g = DOMAIN f \cup {m} /\ g[m] = slot
      /\ \A n \in DOMAIN f \ {m} : g[n] = f[n]
      /\ \A d \in Spaces \ {c} : mem'.layout[d] = mem.layout[d]
      /\ job'.todo = job.todo \ {m}
  BY AdoptNewFacts
<1>2. slot \in Range(f) => 1..Slots \subseteq Range(f)
  <2>1. DOMAIN job.targets \in SUBSET Monitors /\ m \in DOMAIN job.targets
    BY <1>1, InvFacts, JobFacts
  <2> QED
    BY <2>1, InvFacts, AdoptFresh
<1>3. /\ pc = "adopt" /\ pc' = "adopt" /\ UNCHANGED <<plugs, moves>>
      /\ Held = mem /\ Held' = mem' /\ job'.focused = job.focused
  BY InvFacts DEF AdoptNew, bounds, Held, Jobs
<1> HIDE DEF m, slot
<1>4. ASSUME After
      PROVE  After'
  <2>1. /\ InSight(f, hypr, c, job.focused)
        /\ Sole(hypr) \/ Crowded(f) \/ Exact(f, hypr, c)
        /\ About(mem.layout, Connected(hypr))
        /\ job.todo \subseteq Connected(hypr) \ DOMAIN f
        /\ job.focused \in Connected(hypr)
    BY <1>3, <1>4 DEF After, Adopting
  <2>2. f \in SlotMaps /\ g \in SlotMaps /\ c \in Spaces
    BY <1>1, InvFacts, SessionFacts
  <2>3. /\ m \in Connected(hypr) /\ DOMAIN f \subseteq Connected(hypr) \ {m}
        /\ \A n \in DOMAIN f : g[n] = f[n]
    BY <1>1, <2>1, <2>2 DEF About
  <2>4. /\ InSight(g, hypr', c, job.focused)
        /\ Sole(hypr') \/ Crowded(g) \/ Exact(g, hypr', c)
    <3>1. PICK x, j, k : x = f /\ j = g /\ k = c
      OBVIOUS
    <3>2. /\ x \in SlotMaps /\ j \in SlotMaps /\ k \in Spaces /\ Sane(hypr)
          /\ DOMAIN x \subseteq Connected(hypr) \ {m} /\ DOMAIN j = DOMAIN x \cup {m}
          /\ j[m] = slot /\ \A n \in DOMAIN x : j[n] = x[n]
          /\ Puts(hypr, hypr', m, Name(k, slot))
          /\ slot \in Range(x) => 1..Slots \subseteq Range(x)
          /\ InSight(x, hypr, k, job.focused)
          /\ Sole(hypr) \/ Crowded(x) \/ Exact(x, hypr, k)
      BY <1>1, <1>2, <2>1, <2>2, <2>3, <3>1, InvFacts
    <3>3. /\ InSight(j, hypr', k, job.focused)
          /\ Sole(hypr') \/ Crowded(j) \/ Exact(j, hypr', k)
      BY <1>1, <2>3, <3>2, AdoptedInSight
    <3> QED
      BY <3>1, <3>3
  <2>5. About(mem'.layout, Connected(hypr))
    BY <1>1, <2>1, <2>3 DEF About
  <2>6. job'.todo \subseteq Connected(hypr) \ DOMAIN g
    BY <1>1, <2>1
  <2>7. Adopting'
    BY <1>1, <1>3, <2>1, <2>4, <2>5, <2>6 DEF Adopting
  <2>8. Recalls(mem'.layout, Connected(hypr))
    BY <2>5, AboutRecalls
  <2> QED
    BY <1>1, <1>3, <2>7, <2>8 DEF After
<1> QED
  BY <1>3, <1>4 DEF HotplugInv, Quiet, Before

\* Before the hotplug, an event is about the taskspace or does nothing.
LEMMA BeforeStays ==
  ASSUME Inv, Before, pc = "idle"
  PROVE  /\ Target(cur, Active(hypr)) = cur
         /\ queue # <<>> => Head(queue) # Topology
<1>1. Active(hypr) \in Allowed(cur)
  BY InvFacts, SaneFacts DEF Before, Showing, Active
<1>2. Target(cur, Active(hypr)) = cur
  BY <1>1, InvFacts, AllowedTarget
<1>3. queue # <<>> => Head(queue) # Topology
  <2>1. SUFFICES ASSUME queue # <<>>
                 PROVE  queue[1] # Topology
    BY InvFacts
  <2>2. 1 \in DOMAIN queue
    BY <2>1, InvFacts
  <2> QED
    BY <2>2 DEF Before, Pending, Range
<1> QED
  BY <1>2, <1>3

\* The memory of the monitors that are connected.
LEMMA PruneView ==
  ASSUME NEW f, NEW g, NEW h, NEW c, NEW x,
         DOMAIN g = DOMAIN f \cap Connected(h), \A m \in DOMAIN g : g[m] = f[m]
  PROVE  /\ InSight(f, h, c, x) => InSight(g, h, c, x)
         /\ Exact(f, h, c) => Exact(g, h, c)
<1>1. Kept(g, Connected(h)) = Kept(f, Connected(h)) /\ Kept(g, Connected(h)) = DOMAIN g
  BY DEF Kept
<1>2. Distinct(g, Connected(h)) => Distinct(f, Connected(h))
  BY <1>1 DEF Distinct
<1>3. Exact(f, h, c) => Exact(g, h, c)
  BY DEF Exact
<1> QED
  BY <1>1, <1>2, <1>3 DEF InSight

LEMMA RefreshInSight ==
  ASSUME NEW s \in Sessions, NEW h, Sane(h), NEW x \in Connected(h),
         InSight(s.layout[s.cur], h, s.cur, x), Sole(h) \/ Exact(s.layout[s.cur], h, s.cur)
  PROVE  /\ InSight(Refresh(s, h).layout[s.cur], h, s.cur, x)
         /\ Exact(Refresh(s, h).layout[s.cur], h, s.cur)
<1> DEFINE lay == Prune(s.layout, Connected(h))
           t == [s EXCEPT !.layout = lay]
<1>1. /\ lay \in [Spaces -> SlotMaps] /\ s.cur \in Spaces
      /\ DOMAIN lay[s.cur] = DOMAIN s.layout[s.cur] \cap Connected(h)
      /\ \A m \in DOMAIN s.layout[s.cur] \cap Connected(h) : lay[s.cur][m] = s.layout[s.cur][m]
  BY SaneFacts, SessionFacts, PruneFacts
<1> HIDE DEF lay
<1>2. t \in Sessions /\ t.layout = lay
  BY <1>1, AllChanged
<1>3. Refresh(s, h) = CaptureSlots(t, s.cur, h)
  BY DEF Refresh, t, lay
<1> HIDE DEF t
<1>4. PICK u, c, f, g : u = t /\ c = s.cur /\ f = s.layout[s.cur] /\ g = lay[s.cur]
  OBVIOUS
<1>5. /\ DOMAIN g = DOMAIN f \cap Connected(h) /\ \A m \in DOMAIN g : g[m] = f[m]
      /\ InSight(f, h, c, x) /\ (Sole(h) \/ Exact(f, h, c))
      /\ u \in Sessions /\ c \in Spaces /\ u.layout[c] = g
  BY <1>1, <1>2, <1>4
<1>6. InSight(g, h, c, x) /\ (Sole(h) \/ Exact(g, h, c))
  BY <1>5, PruneView
<1>7. InSight(CaptureSlots(u, c, h).layout[c], h, c, x)
  BY <1>5, <1>6, CaptureInSight
<1>8. Exact(CaptureSlots(u, c, h).layout[c], h, c)
  BY <1>5, CaptureExact
<1> QED
  BY <1>3, <1>4, <1>7, <1>8

LEMMA ReconcileOn ==
  ASSUME Inv, HotplugInv, NEW w, Reconcile(w)
  PROVE  HotplugInv'
<1>1. /\ Take(w) /\ BeginReconcile /\ UNCHANGED <<hypr, saved, plugs, moves>>
      /\ w = Topology \/ (w = Active(hypr) /\ Target(cur, w) # cur)
  BY DEF Reconcile, bounds, Stale
<1>2. pc = "idle" /\ queue # <<>> /\ w = Head(queue)
  BY <1>1 DEF Take
<1>3. Held = Session /\ Held' = mem' /\ pc' = "adopt"
  BY <1>1, <1>2 DEF BeginReconcile, Held
<1>4. ~Before
  BY <1>1, <1>2, BeforeStays
<1>5. /\ mem'.cur = cur /\ About(mem'.layout, Connected(hypr))
      /\ DOMAIN mem'.layout[cur] = DOMAIN layout[cur] \cap Connected(hypr)
      /\ \A m \in DOMAIN mem'.layout[cur] : mem'.layout[cur][m] = layout[cur][m]
      /\ job'.todo = {m \in Connected(hypr) : m \notin DOMAIN mem'.layout[cur] /\ hypr.shown[m] \notin Owned(cur)}
  BY <1>1, ReconcileFacts
<1>6. job'.focused = hypr.focused
  BY <1>1 DEF BeginReconcile
<1>7. ASSUME After
      PROVE  After'
  <2>1. /\ InSight(layout[cur], hypr, cur, hypr.focused)
        /\ Sole(hypr) \/ Exact(layout[cur], hypr, cur)
    BY <1>2, <1>7 DEF After
  <2>2. /\ InSight(mem'.layout[cur], hypr, cur, hypr.focused)
        /\ Sole(hypr) \/ Exact(mem'.layout[cur], hypr, cur)
    BY <1>5, <2>1, PruneView
  <2>3. job'.todo \subseteq Connected(hypr) \ DOMAIN mem'.layout[cur]
    BY <1>5
  <2>4. hypr' = hypr /\ hypr.focused \in Connected(hypr)
    BY <1>1, InvFacts, SaneFacts
  <2>5. Adopting'
    BY <1>5, <1>6, <2>2, <2>3, <2>4 DEF Adopting
  <2>6. Recalls(mem'.layout, Connected(hypr))
    BY <1>5, AboutRecalls
  <2> QED
    BY <1>3, <2>4, <2>5, <2>6 DEF After
<1> QED
  BY <1>1, <1>3, <1>4, <1>7 DEF HotplugInv, Quiet

LEMMA RememberOn ==
  ASSUME Inv, HotplugInv, NEW w, Remember(w)
  PROVE  HotplugInv'
<1> DEFINE live == Connected(hypr)
           t == [Session EXCEPT !.cur = cur]
           u == [t EXCEPT !.last[cur] = SlotOf(w)]
           r == Refresh(u, hypr)
<1>1. /\ Take(w) /\ Managed(w) /\ w = Active(hypr) /\ Target(cur, w) = cur
      /\ Save(SyncFrom(Session, w, hypr)) /\ queue' = Tail(queue)
      /\ UNCHANGED <<hypr, pc, mem, job, calm, plugs, moves>>
  BY DEF Remember, bounds, Stale
<1>2. pc = "idle" /\ queue # <<>> /\ Held = Session /\ Held' = Session' /\ pc' = "idle"
  BY <1>1 DEF Take, Held
<1>3. SlotOf(w) \in 1..Slots
  BY <1>1, InvFacts, TakeFacts, ManagedEvent, ManagedFacts
<1>4. t \in Sessions /\ t.cur = cur /\ t.layout = layout /\ t.last = Session.last
  BY InvFacts, CurChanged
<1>5. SyncFrom(Session, w, hypr) = r
  BY <1>1, InvFacts DEF SyncFrom
<1> HIDE DEF t
<1>6. /\ u \in Sessions /\ u.cur = cur /\ u.layout = layout
      /\ u.last[cur] = SlotOf(w) /\ \A d \in Spaces \ {cur} : u.last[d] = Session.last[d]
  BY <1>3, <1>4, InvFacts, LastChanged, SessionFacts
<1> HIDE DEF u
<1>7. r \in Sessions /\ r.cur = cur /\ About(r.layout, live)
  BY <1>6, InvFacts, RefreshFacts
<1>8. cur' = cur /\ layout' = r.layout /\ Session'.layout = r.layout /\ Session'.last = r.last
  BY <1>1, <1>5, <1>7 DEF Save, Session
<1>9. ASSUME Before
      PROVE  Before'
  <2>1. Showing(hypr, cur) = live /\ Whole(Session, live)
    BY <1>2, <1>9 DEF Before
  <2>2. \A d \in Spaces \ {u.cur} : WholeAt(u, d, live)
    BY <1>6, <2>1, InvFacts DEF Whole, WholeAt
  <2>3. Whole(r, live) /\ Exact(r.layout[cur], hypr, cur)
    BY <1>1, <1>6, <2>1, <2>2, InvFacts, RefreshWhole
  <2> HIDE DEF r
  <2>4. Whole(Session', live)
    BY <1>8, <2>3 DEF Whole, WholeAt
  <2>5. ~Pending(queue')
    BY <1>1, <1>2, <1>9, InvFacts, QuietQueue DEF Before
  <2> QED
    BY <1>1, <1>2, <1>8, <1>9, <2>1, <2>3, <2>4, <2>5 DEF Before
<1>10. ASSUME After
       PROVE  After'
  <2>1. /\ InSight(layout[cur], hypr, cur, hypr.focused)
        /\ Sole(hypr) \/ Exact(layout[cur], hypr, cur)
    BY <1>2, <1>10 DEF After
  <2>2. hypr.focused \in live
    BY InvFacts, SaneFacts
  <2>3. InSight(r.layout[cur], hypr, cur, hypr.focused) /\ Exact(r.layout[cur], hypr, cur)
    <3>1. PICK c : c = cur
      OBVIOUS
    <3>2. InSight(u.layout[u.cur], hypr, u.cur, hypr.focused) /\ (Sole(hypr) \/ Exact(u.layout[u.cur], hypr, u.cur))
      BY <1>6, <2>1
    <3>3. InSight(r.layout[u.cur], hypr, u.cur, hypr.focused) /\ Exact(r.layout[u.cur], hypr, u.cur)
      BY <1>6, <2>2, <3>2, InvFacts, RefreshInSight
    <3> QED
      BY <1>6, <3>3
  <2> HIDE DEF r
  <2>4. Recalls(r.layout, live)
    BY <1>7, AboutRecalls
  <2> QED
    BY <1>1, <1>2, <1>8, <2>3, <2>4 DEF After
<1> QED
  BY <1>1, <1>2, <1>9, <1>10 DEF HotplugInv, Quiet

LEMMA FollowOn ==
  ASSUME Inv, HotplugInv, NEW w, Follow(w)
  PROVE  HotplugInv'
<1> DEFINE s == CaptureLayout(Session, cur, hypr)
<1>1. /\ Take(w) /\ Managed(w) /\ w = Active(hypr) /\ Target(cur, w) # cur
      /\ mem' = SyncFrom(s, w, hypr) /\ pc' = "plan"
      /\ UNCHANGED <<hypr, saved, plugs, moves>>
  BY DEF Follow, Stale
<1>2. pc = "idle" /\ w \in Names
  BY <1>1, TakeFacts, ManagedEvent
<1>3. s \in Sessions
  BY InvFacts, CaptureLayoutFacts
<1> HIDE DEF s
<1>4. About(mem'.layout, Connected(hypr))
  BY <1>1, <1>2, <1>3, InvFacts, SyncFacts
<1>5. ~Before
  BY <1>1, <1>2, BeforeStays
<1>6. After'
  <2>1. Recalls(mem'.layout, Connected(hypr))
    BY <1>4, AboutRecalls
  <2> QED
    BY <1>1, <2>1 DEF After, Held
<1> QED
  BY <1>1, <1>5, <1>6 DEF HotplugInv, Quiet

-----------------------------------------------------------------------------
(* The first hotplug changes no taskspace. *)

LEMMA InitHot ==
  ASSUME Init
  PROVE  HotplugInv
<1>1. PICK live \in (SUBSET Monitors) \ {{}} :
        \E shown \in [live -> Allowed(cur)], f \in live :
             /\ IsInjective(shown)
             /\ hypr = [shown |-> shown, at |-> [w \in Range(shown) |-> CHOOSE m \in live : shown[m] = w], focused |-> f]
             /\ layout = [c \in Spaces |-> IF c = cur THEN [m \in live |-> SlotOf(shown[m])] ELSE EmptyLayout]
             /\ last = [c \in Spaces |-> IF c = cur THEN SlotOf(shown[f]) ELSE 1]
             /\ job = [op |-> "none", targets |-> shown, focused |-> f, count |-> 0, todo |-> {}]
  BY DEF Init
<1>14. PICK shown \in [live -> Allowed(cur)], f \in live :
             /\ IsInjective(shown)
             /\ hypr = [shown |-> shown, at |-> [w \in Range(shown) |-> CHOOSE m \in live : shown[m] = w], focused |-> f]
             /\ layout = [c \in Spaces |-> IF c = cur THEN [m \in live |-> SlotOf(shown[m])] ELSE EmptyLayout]
             /\ last = [c \in Spaces |-> IF c = cur THEN SlotOf(shown[f]) ELSE 1]
  BY <1>1
<1>2. /\ cur \in Spaces /\ queue = <<>> /\ pc = "idle" /\ calm = TRUE /\ plugs = 0 /\ moves = 0
  BY DEF Init
<1>3. hypr.shown = shown /\ Connected(hypr) = live
  BY <1>14 DEF Connected
<1>4. \A m \in live : shown[m] \in Allowed(cur) /\ SlotOf(shown[m]) \in 1..Slots /\ Name(cur, SlotOf(shown[m])) = shown[m]
  BY <1>2, AllowedNamed
<1>5. \A m, n \in live : SlotOf(shown[m]) = SlotOf(shown[n]) => m = n
  <2>1. \A m, n \in live : shown[m] = shown[n] => m = n
    BY <1>14 DEF IsInjective
  <2> QED
    BY <1>4, <2>1
<1>6. /\ DOMAIN layout[cur] = live /\ \A m \in live : layout[cur][m] = SlotOf(shown[m])
      /\ \A c \in Spaces \ {cur} : DOMAIN layout[c] = {}
      /\ last[cur] = SlotOf(shown[f])
  BY <1>14, <1>2 DEF EmptyLayout
<1>7. Held = Session /\ Session.layout = layout /\ Session.last = last
  BY <1>2 DEF Held, Session
<1>8. Cardinality(live) <= Slots
  <2> DEFINE g == [m \in live |-> SlotOf(shown[m])]
  <2>1. g \in Injection(live, 1..Slots)
    BY <1>4, <1>5 DEF Injection, IsInjective
  <2>2. IsFiniteSet(1..Slots) /\ Cardinality(1..Slots) = Slots
    BY FS_Interval
  <2> HIDE DEF g
  <2> QED
    BY <2>1, <2>2, FS_Injection
<1>9. Showing(hypr, cur) = live
  BY <1>3, <1>4 DEF Showing
<1>10. Exact(layout[cur], hypr, cur)
  BY <1>3, <1>4, <1>6 DEF Exact
<1>11. WholeAt(Session, cur, live)
  <2>1. Distinct(layout[cur], live)
    <3>1. PICK g : g = layout[cur]
      OBVIOUS
    <3>2. \A m, n \in live : g[m] = g[n] => m = n
      BY <1>5, <1>6, <3>1
    <3>3. Distinct(g, live)
      BY <3>2 DEF Distinct, Kept
    <3> QED
      BY <3>1, <3>3
  <2>2. \A m \in live : live = {m} => last[cur] = layout[cur][m]
    BY <1>14, <1>6
  <2> QED
    BY <1>6, <1>7, <2>1, <2>2 DEF WholeAt
<1>12. Whole(Held, live)
  BY <1>6, <1>7, <1>11 DEF Whole, WholeAt
<1>13. ~Pending(queue)
  BY <1>2 DEF Pending, Range
<1>15. Before
  BY <1>2, <1>3, <1>8, <1>9, <1>10, <1>12, <1>13 DEF Before
<1> QED
  BY <1>2, <1>15 DEF HotplugInv

LEMMA StepHot ==
  ASSUME Inv, HotplugInv, [Next]_vars
  PROVE  HotplugInv'
<1>1. BeginSwitch => HotplugInv'
  BY BeginSwitchOn
<1>2. SwitchStep => HotplugInv'
  BY EnterOn, SetupOn, PlanOneOn, PlanOn, RestorePassOn, VerifyOn, FinishOn, AdoptNewOn DEF SwitchStep
<1>3. EventStep => HotplugInv'
  BY ReconcileOn, SkipSame, RememberOn, FollowOn DEF EventStep
<1>4. World => HotplugInv'
  BY MoveLoud, VanishSame, PlugPlugged, UnplugPlugged, ExpireSame DEF World
<1> QED
  BY <1>1, <1>2, <1>3, <1>4, StutterSame DEF Next

\* The daemon follows the user out of the taskspace only if it remembers none of its monitors.
LEMMA FollowForgets ==
  ASSUME Inv, HotplugInv, NEW w, Follow(w), moves = 0, plugs <= 1, IsInjective(layout[cur])
  PROVE  layout[cur] = EmptyLayout
<1>1. pc = "idle" /\ w = Active(hypr) /\ Target(cur, w) # cur /\ ~HotplugEffect(w)
  BY DEF Follow, Take, Stale
<1>2. layout[cur] \in SlotMaps
  BY InvFacts, SessionFacts
<1>3. SUFFICES ASSUME DOMAIN layout[cur] # {}
               PROVE  FALSE
  <2>1. layout[cur] \in [DOMAIN layout[cur] -> 1..Slots]
    BY <1>2, SlotMapFacts
  <2> QED
    BY <1>3, <2>1 DEF EmptyLayout
<1>4. ~Before
  BY <1>1, BeforeStays
<1>5. After
  BY <1>4 DEF HotplugInv, Quiet
<1>6. Kept(layout[cur], Connected(hypr)) # {} /\ Distinct(layout[cur], Connected(hypr))
  <2>1. Recalls(layout, Connected(hypr))
    BY <1>1, <1>5, InvFacts DEF After, Held
  <2> QED
    BY <1>3, <2>1, InvFacts DEF Recalls, Distinct, Kept, IsInjective
<1>7. /\ Kept(layout[cur], Connected(hypr)) \cap Showing(hypr, cur) # {}
      /\ hypr.focused \in Kept(layout[cur], Connected(hypr)) => hypr.focused \in Showing(hypr, cur)
  BY <1>1, <1>5, <1>6 DEF After, InSight
<1>8. hypr.focused \in Connected(hypr)
  BY InvFacts, SaneFacts
<1>9. hypr.focused \notin Showing(hypr, cur)
  BY <1>1, InvFacts, AllowedTarget DEF Showing, Active
<1>10. HotplugEffect(w)
  BY <1>1, <1>7, <1>8, <1>9 DEF HotplugEffect, Kept, Showing, Active
<1> QED
  BY <1>1, <1>10

\* As long as the session remembers the monitors of the taskspace, each on a slot of its own,
\* and the user goes nowhere, no event of the first hotplug, of any monitors in any order,
\* before, between and after any number of switches, makes the daemon change the taskspace
\* (should_treat_as_monitor_hotplug, sync_taskspace_from_external).
THEOREM HotplugStays == Spec => HotplugKeepsTaskspace
<1>1. Inv /\ HotplugInv /\ [Next]_vars
        => (pc = "idle" /\ pc' = "plan" /\ moves = 0 /\ plugs <= 1 /\ IsInjective(layout[cur])
               => layout[cur] = EmptyLayout)
  <2> SUFFICES ASSUME Inv, HotplugInv, [Next]_vars, pc = "idle", pc' = "plan", moves = 0, plugs <= 1,
                      IsInjective(layout[cur])
               PROVE  layout[cur] = EmptyLayout
    OBVIOUS
  <2>1. ~BeginSwitch /\ ~SwitchStep
    BY DEF BeginSwitch, SwitchStep, Enter, Setup, PlanOne, Plan, RestorePass, Verify, Finish, AdoptNew
  <2>2. \A w : ~Reconcile(w) /\ ~Skip(w) /\ ~Remember(w)
    BY DEF Reconcile, BeginReconcile, Skip, Remember
  <2>3. ~World /\ ~UNCHANGED vars
    BY DEF World, Move, Vanish, Plug, Unplug, Expire, vars
  <2>4. \E w : Follow(w)
    BY <2>1, <2>2, <2>3 DEF Next, EventStep
  <2> QED
    BY <2>4, FollowForgets
<1> QED
  BY <1>1, InitHot, StepHot, AlwaysInv, PTL DEF Spec, HotplugKeepsTaskspace
=============================================================================
