------------------------ MODULE TaskspaceSyncProofs -------------------------
(***************************************************************************)
(* Proofs about TaskspaceSync, for any taskspaces and workspaces and any     *)
(* number of focuses and switches: the session follows the focus, a          *)
(* taskspace remembers only workspaces of its own, the key bindings reach    *)
(* the current taskspace, and no event bounces a switch back.               *)
(***************************************************************************)
EXTENDS TaskspaceSync, SequenceTheorems, TLAPS

USE SyncAssumption

-----------------------------------------------------------------------------
(* The inductive invariant. *)

\* The memory of the session under way is of the same kind as the saved one.
MemOwned == \A c \in Spaces : mem.last[c] \in Allowed(c)

\* The event of the last change of the focus is the last in the queue.
QueueEndsAtFocus == queue # <<>> => queue[Len(queue)] = focus

\* A session about to be committed is in the taskspace of the focus, unless an
\* event has come since: the listener has to wait for the mutex.
RestoredFocus ==
    pc \in {"switched", "followed"} /\ queue = <<>> => focus = mem.last[mem.cur]

\* The guard names the switch under way, and the switch that left a taskspace.
GuardOfSwitch ==
    pc \in {"setup", "restore", "switched"} => guard.dest = mem.cur /\ guard.old = cur

GuardOfLeft ==
    left # None /\ pc \in {"idle", "publish", "adopt", "follow", "followed"} =>
        guard.fresh /\ guard.dest = cur /\ guard.old = left

\* An event that is being followed does not lead back.
FollowsAway == left # None /\ pc \in {"follow", "followed"} => mem.cur # left

Inv ==
    /\ TypeOK
    /\ SessionFollowsFocus
    /\ MemoryOwned
    /\ SlotsCurrent
    /\ MemOwned
    /\ QueueEndsAtFocus
    /\ RestoredFocus
    /\ GuardOfSwitch
    /\ GuardOfLeft
    /\ FollowsAway

-----------------------------------------------------------------------------
(* Types. *)

LEMMA AppendEnds ==
  ASSUME NEW q \in Seq(Workspaces), NEW w \in Workspaces
  PROVE  /\ Append(q, w) \in Seq(Workspaces)
         /\ Append(q, w) # <<>>
         /\ Append(q, w)[Len(Append(q, w))] = w
  BY AppendProperties

\* A change of the focus is announced behind all earlier events.
LEMMA FocusKeeps ==
  ASSUME TypeOK, NEW w \in Workspaces, Focus(w)
  PROVE  /\ focus' = w
         /\ queue' \in Seq(Workspaces)
         /\ QueueEndsAtFocus => QueueEndsAtFocus'
         /\ queue' = <<>> => queue = <<>> /\ w = focus
  BY AppendEnds DEF TypeOK, Focus, QueueEndsAtFocus

LEMMA SetupKeeps ==
  ASSUME TypeOK, Setup
  PROVE  /\ focus' \in Workspaces
         /\ queue' \in Seq(Workspaces)
         /\ QueueEndsAtFocus => QueueEndsAtFocus'
<1>1. CASE UNCHANGED hyprland
  BY <1>1 DEF TypeOK, hyprland, QueueEndsAtFocus
<1>2. CASE \E w \in Owned(mem.cur) \ {focus} : Focus(w)
  BY <1>2, FocusKeeps DEF Owned
<1>3. ASSUME NEW w \in Owned(mem.cur),
             queue' = Append(Append(queue, w), focus), UNCHANGED focus
      PROVE  /\ focus' \in Workspaces
             /\ queue' \in Seq(Workspaces)
             /\ QueueEndsAtFocus'
  <2>1. focus \in Workspaces /\ Append(queue, w) \in Seq(Workspaces)
    BY AppendEnds DEF TypeOK, Owned
  <2> QED
    BY <1>3, <2>1, AppendEnds DEF QueueEndsAtFocus
<1> QED
  BY <1>1, <1>2, <1>3 DEF Setup

LEMMA CapturedType ==
  ASSUME TypeOK
  PROVE  /\ Captured \in [Spaces -> Workspaces]
         /\ MemoryOwned => \A c \in Spaces : Captured[c] \in Allowed(c)
  BY DEF TypeOK, Captured, MemoryOwned

LEMMA TargetType ==
  ASSUME NEW c \in Spaces, NEW w \in Workspaces
  PROVE  /\ Target(c, w) \in Spaces
         /\ w \in Allowed(Target(c, w))
         /\ w \in Allowed(c) => Target(c, w) = c \/ w \notin Owned(c)
  BY DEF Target, Allowed, Owned

LEMMA TypeInit == Init => TypeOK
  BY DEF Init, TypeOK, Allowed, Owned, Session

LEMMA TypeStep == TypeOK /\ [Next]_vars => TypeOK'
<1> SUFFICES ASSUME TypeOK, [Next]_vars PROVE TypeOK'
  OBVIOUS
<1>1. CASE BeginSwitch
  BY <1>1, CapturedType DEF TypeOK, BeginSwitch, hyprland, saved, Session
<1>2. CASE Publish
  BY <1>2 DEF TypeOK, Publish, hyprland, saved, bounds, Session
<1>3. CASE Adopt
  BY <1>3 DEF TypeOK, Adopt, hyprland, saved, bounds, Session
<1>4. CASE Setup
  BY <1>4, SetupKeeps DEF TypeOK, Setup, saved, bounds
<1>5. CASE Restore
  <2>1. mem.last[mem.cur] \in Workspaces
    BY DEF TypeOK, Session
  <2> QED
    BY <1>5, <2>1, FocusKeeps DEF TypeOK, Restore, saved, bounds
<1>6. CASE Finish
  BY <1>6 DEF TypeOK, Finish, Commit, hyprland, bounds, Session
<1>7. CASE \E w \in Workspaces : Skip(w)
  BY <1>7 DEF TypeOK, Skip, Take, saved, bounds
<1>8. CASE \E w \in Workspaces : Remember(w)
  BY <1>8 DEF TypeOK, Remember, Take, Commit, bounds
<1>9. CASE \E w \in Workspaces : Follow(w)
  <2> PICK w \in Workspaces : Follow(w)
    BY <1>9
  <2>1. mem' \in Session /\ pc' = "follow"
    BY CapturedType, TargetType DEF Follow, TypeOK, Session
  <2>2. queue' \in Seq(Workspaces)
    BY DEF TypeOK, Follow, Take
  <2> QED
    BY <2>1, <2>2 DEF TypeOK, Follow, saved, bounds
<1>10. CASE Click
  BY <1>10, FocusKeeps DEF TypeOK, Click, saved
<1>11. CASE ReadSlot
  BY <1>11 DEF TypeOK, ReadSlot, hyprland, saved, Allowed, Owned
<1>12. CASE DispatchKey
  BY <1>12, FocusKeeps DEF TypeOK, DispatchKey, saved, bounds
<1>13. CASE Expire
  BY <1>13 DEF TypeOK, Expire, hyprland, saved, bounds
<1>14. CASE Rest \/ UNCHANGED vars
  BY <1>14 DEF TypeOK, Rest, vars, hyprland, saved, bounds
<1> QED
  BY <1>1, <1>2, <1>3, <1>4, <1>5, <1>6, <1>7, <1>8, <1>9, <1>10, <1>11, <1>12, <1>13, <1>14
     DEF Next, SwitchStep, EventStep, UserStep

-----------------------------------------------------------------------------
(* The other conjuncts. *)

\* What the listener takes from the queue leaves the end of it in place; the
\* last event is that of the focus.
LEMMA TakeKeeps ==
  ASSUME TypeOK, NEW w \in Workspaces, Take(w), QueueEndsAtFocus, focus' = focus
  PROVE  /\ QueueEndsAtFocus'
         /\ queue' = <<>> => w = focus
<1>1. queue \in Seq(Workspaces) /\ queue # <<>> /\ w = queue[1] /\ queue' = Tail(queue)
  BY DEF TypeOK, Take
<1>2. Len(queue) \in Nat \ {0} /\ Len(queue') = Len(queue) - 1
  BY <1>1
<1>3. ASSUME queue' # <<>> PROVE queue'[Len(queue')] = queue[Len(queue)]
  BY <1>1, <1>2, <1>3
<1>4. queue' = <<>> => Len(queue) = 1
  <2>1. Len(<<>>) = 0
    OBVIOUS
  <2> QED
    BY <1>2, <2>1
<1> QED
  BY <1>1, <1>3, <1>4 DEF QueueEndsAtFocus

LEMMA InitInv == Init => Inv
<1> SUFFICES ASSUME Init PROVE Inv
  OBVIOUS
<1>1. TypeOK
  BY TypeInit
<1>2. Target(cur, focus) = cur /\ last[cur] = focus
  BY DEF Init, Target, Allowed, Owned
<1> QED
  BY <1>1, <1>2 DEF Init, Inv, SessionFollowsFocus, MemoryOwned, SlotsCurrent, MemOwned,
     QueueEndsAtFocus, RestoredFocus, GuardOfSwitch, GuardOfLeft, FollowsAway

LEMMA NextInv == Inv /\ [Next]_vars => Inv'
<1> SUFFICES ASSUME Inv, [Next]_vars PROVE Inv'
  OBVIOUS
<1> USE DEF Inv
<1>0. TypeOK'
  BY TypeStep
<1>1. CASE BeginSwitch
  <2>1. PICK c \in Spaces : mem' = [cur |-> c, last |-> Captured]
    BY <1>1 DEF BeginSwitch
  <2>2. MemOwned'
    BY <1>1, <2>1, CapturedType DEF MemOwned, BeginSwitch
  <2> QED
    BY <1>0, <1>1, <2>2 DEF BeginSwitch, hyprland, saved, SessionFollowsFocus, MemoryOwned,
       SlotsCurrent, QueueEndsAtFocus, RestoredFocus, GuardOfSwitch, GuardOfLeft, FollowsAway
<1>2. CASE Publish
  BY <1>0, <1>2 DEF Publish, hyprland, saved, SessionFollowsFocus, MemoryOwned, SlotsCurrent,
     MemOwned, QueueEndsAtFocus, RestoredFocus, GuardOfSwitch, GuardOfLeft, FollowsAway
<1>3. CASE Adopt
  <2>1. MemOwned' /\ mem'.cur = mem.cur
    <3>1. CASE focus \in Owned(mem.cur) \ Global
      <4>1. mem' = [mem EXCEPT !.last = [mem.last EXCEPT ![mem.cur] = focus]]
        BY <1>3, <3>1 DEF Adopt
      <4> QED
        BY <3>1, <4>1 DEF TypeOK, Session, MemOwned, Allowed
    <3>2. CASE ~(focus \in Owned(mem.cur) \ Global)
      BY <1>3, <3>2 DEF Adopt, MemOwned
    <3> QED
      BY <3>1, <3>2
  <2> QED
    BY <1>0, <1>3, <2>1 DEF Adopt, hyprland, saved, SessionFollowsFocus, MemoryOwned,
       SlotsCurrent, QueueEndsAtFocus, RestoredFocus, GuardOfSwitch, GuardOfLeft, FollowsAway
<1>4. CASE Setup
  <2>1. QueueEndsAtFocus'
    BY <1>4, SetupKeeps
  <2> QED
    BY <1>0, <1>4, <2>1 DEF Setup, saved, SessionFollowsFocus, MemoryOwned, SlotsCurrent,
       MemOwned, RestoredFocus, GuardOfSwitch, GuardOfLeft, FollowsAway
<1>5. CASE Restore
  <2>1. mem.last[mem.cur] \in Workspaces
    BY DEF TypeOK, Session
  <2>2. QueueEndsAtFocus' /\ RestoredFocus'
    BY <1>5, <2>1, FocusKeeps DEF Restore, RestoredFocus
  <2> QED
    BY <1>0, <1>5, <2>2 DEF Restore, saved, SessionFollowsFocus, MemoryOwned, SlotsCurrent,
       MemOwned, GuardOfSwitch, GuardOfLeft, FollowsAway
<1>6. CASE Finish
  <2>1. MemoryOwned' /\ SlotsCurrent' /\ MemOwned' /\ QueueEndsAtFocus'
    BY <1>6 DEF Finish, Commit, hyprland, MemOwned, MemoryOwned, SlotsCurrent, QueueEndsAtFocus
  <2>2. SessionFollowsFocus'
    <3> SUFFICES ASSUME queue = <<>>
                 PROVE  Target(cur', focus) = cur' /\ last'[cur'] = focus
      BY <1>6 DEF SessionFollowsFocus, Finish, hyprland, Target, Allowed, Owned, EchoStands
    <3>1. focus = mem.last[mem.cur] /\ focus \in Allowed(mem.cur)
      BY <1>6 DEF Finish, RestoredFocus, MemOwned, TypeOK, Session
    <3> QED
      BY <1>6, <3>1 DEF Finish, Commit, Target, Allowed, Owned
  <2>3. GuardOfLeft'
    BY <1>6 DEF Finish, Commit, GuardOfSwitch, GuardOfLeft
  <2> QED
    BY <1>0, <1>6, <2>1, <2>2, <2>3 DEF Finish, RestoredFocus, GuardOfSwitch, FollowsAway
<1>7. CASE \E w \in Workspaces : Skip(w)
  <2> PICK w \in Workspaces : Skip(w)
    BY <1>7
  <2>1. QueueEndsAtFocus' /\ (queue' = <<>> => w = focus)
    BY TakeKeeps DEF Skip
  <2>2. queue' = <<>> => EchoStands
    BY <2>1 DEF Skip, Stale, Ignored, EchoStands
  <2>3. SessionFollowsFocus'
    BY <2>2 DEF Skip, SessionFollowsFocus, EchoStands, Target, Allowed, Owned, saved
  <2> QED
    BY <1>0, <2>1, <2>3 DEF Skip, Take, saved, MemoryOwned, SlotsCurrent, MemOwned, RestoredFocus,
       GuardOfSwitch, GuardOfLeft, FollowsAway
<1>8. CASE \E w \in Workspaces : Remember(w)
  <2> PICK w \in Workspaces : Remember(w)
    BY <1>8
  <2>1. QueueEndsAtFocus'
    BY TakeKeeps DEF Remember
  <2>2. /\ cur' = cur /\ slots' = cur /\ last' = [last EXCEPT ![cur] = w]
        /\ focus' = focus /\ w = focus /\ pc' = "idle" /\ pc = "idle"
    BY DEF Remember, Take, Commit, Stale
  <2>3. w \in Allowed(cur) /\ Target(cur, w) = cur
    BY DEF Remember, Target, Allowed, Owned
  <2>4. last'[cur] = w /\ MemoryOwned'
    BY <2>2, <2>3 DEF TypeOK, MemoryOwned
  <2>5. SessionFollowsFocus'
    BY <2>2, <2>3, <2>4 DEF SessionFollowsFocus, Target
  <2> QED
    BY <1>0, <2>1, <2>2, <2>4, <2>5 DEF Remember, SlotsCurrent, MemOwned, RestoredFocus,
       GuardOfSwitch, GuardOfLeft, FollowsAway
<1>9. CASE \E w \in Workspaces : Follow(w)
  <2> PICK w \in Workspaces : Follow(w)
    BY <1>9
  <2>1. QueueEndsAtFocus'
    BY TakeKeeps DEF Follow
  <2> DEFINE t == Target(cur, w)
  <2>2. t \in Spaces /\ w \in Owned(t) /\ cur \in Spaces
    BY DEF Follow, Target, TypeOK, Owned
  <2>3. mem' = [cur |-> t, last |-> [Captured EXCEPT ![t] = w]] /\ pc = "idle" /\ pc' = "follow"
    BY DEF Follow, Take
  <2>4. MemOwned'
    <3>1. Captured \in [Spaces -> Workspaces] /\ \A c \in Spaces : Captured[c] \in Allowed(c)
      BY CapturedType
    <3> QED
      BY <2>2, <2>3, <3>1 DEF MemOwned, Allowed
  <2>5. FollowsAway'
    <3> SUFFICES ASSUME left # None PROVE t # left
      BY <2>3 DEF FollowsAway, Follow
    <3>1. guard.fresh /\ guard.dest = cur /\ guard.old = left
      BY <2>3 DEF GuardOfLeft
    <3>2. w \notin Allowed(left)
      BY <3>1 DEF Follow, Ignored
    <3> QED
      BY <2>2, <3>2 DEF Allowed
  <2> QED
    BY <1>0, <2>1, <2>3, <2>4, <2>5 DEF Follow, saved, SessionFollowsFocus, MemoryOwned,
       SlotsCurrent, RestoredFocus, GuardOfSwitch, GuardOfLeft
<1>10. CASE Click
  <2>1. PICK w \in Workspaces \ {focus} : Focus(w)
    BY <1>10 DEF Click
  <2>2. QueueEndsAtFocus' /\ queue' # <<>>
    BY <2>1, FocusKeeps
  <2> QED
    BY <1>0, <1>10, <2>2 DEF Click, saved, SessionFollowsFocus, MemoryOwned, SlotsCurrent,
       MemOwned, RestoredFocus, GuardOfSwitch, GuardOfLeft, FollowsAway
<1>11. CASE ReadSlot
  BY <1>0, <1>11 DEF ReadSlot, hyprland, saved, SessionFollowsFocus, EchoStands, Target, Allowed,
     Owned, MemoryOwned, SlotsCurrent, MemOwned, QueueEndsAtFocus, RestoredFocus, GuardOfSwitch,
     GuardOfLeft, FollowsAway
<1>12. CASE DispatchKey
  <2>1. key \in Workspaces /\ Focus(key)
    BY <1>12 DEF DispatchKey, TypeOK
  <2>2. QueueEndsAtFocus' /\ (queue' = <<>> => queue = <<>> /\ focus' = focus)
    BY <2>1, FocusKeeps
  <2> QED
    BY <1>0, <1>12, <2>2 DEF DispatchKey, saved, SessionFollowsFocus, EchoStands, Target, Allowed,
       Owned, MemoryOwned, SlotsCurrent, MemOwned, RestoredFocus, GuardOfSwitch, GuardOfLeft,
       FollowsAway
<1>13. CASE Expire
  <2>1. left' = None /\ guard'.dest = guard.dest /\ guard'.old = guard.old
    BY <1>13 DEF Expire, TypeOK
  <2> QED
    BY <1>0, <1>13, <2>1 DEF Expire, hyprland, saved, SessionFollowsFocus, EchoStands, Target,
       Allowed, Owned, MemoryOwned, SlotsCurrent, MemOwned, QueueEndsAtFocus, RestoredFocus,
       GuardOfSwitch, GuardOfLeft, FollowsAway
<1>14. CASE Rest \/ UNCHANGED vars
  BY <1>0, <1>14 DEF Rest, vars, hyprland, saved, bounds, SessionFollowsFocus, EchoStands, Target,
     Allowed, Owned, MemoryOwned, SlotsCurrent, MemOwned, QueueEndsAtFocus, RestoredFocus,
     GuardOfSwitch, GuardOfLeft, FollowsAway
<1> QED
  BY <1>1, <1>2, <1>3, <1>4, <1>5, <1>6, <1>7, <1>8, <1>9, <1>10, <1>11, <1>12, <1>13, <1>14
     DEF Next, SwitchStep, EventStep, UserStep

LEMMA Invariance == Spec => []Inv
  BY InitInv, NextInv, PTL DEF Spec

-----------------------------------------------------------------------------
(* The theorems. *)

\* Every variable keeps its type.
THEOREM TypeCorrect == Spec => []TypeOK
  BY Invariance, PTL DEF Inv

\* Whatever the stale check of apply_external_workspace drops: when the queue
\* is empty the session is in the taskspace of the workspace in focus, except
\* for what the guard lets stand.
THEOREM SessionAlwaysFollowsFocus == Spec => []SessionFollowsFocus
  BY Invariance, PTL DEF Inv

\* capture_monitor_layout, the adoption of a slot and the focus events record
\* only workspaces of the taskspace they record them for.
THEOREM MemoryAlwaysOwned == Spec => []MemoryOwned
  BY Invariance, PTL DEF Inv

\* The slot files name the current taskspace whenever no operation is under way.
THEOREM SlotsAlwaysCurrent == Spec => []SlotsCurrent
  BY Invariance, PTL DEF Inv

\* Within its TTL the guard keeps every event from taking the session back.
THEOREM NeverBouncesBack == Spec => NoBounceBack
<1>1. Inv /\ [Next]_vars => [pc = "followed" /\ guard.fresh => cur' # left]_cur
  <2> SUFFICES ASSUME Inv, [Next]_vars, cur' # cur, pc = "followed"
               PROVE  cur' # left
    OBVIOUS
  <2>1. cur' = mem.cur
    BY DEF Next, SwitchStep, EventStep, UserStep, BeginSwitch, Publish, Adopt, Setup, Restore,
       Finish, Commit, Skip, Remember, Follow, Take, Click, ReadSlot, DispatchKey, Expire, Rest,
       vars, saved, hyprland
  <2>2. mem.cur \in Spaces
    BY DEF Inv, TypeOK, Session
  <2> QED
    BY <2>1, <2>2 DEF Inv, FollowsAway
<1> QED
  BY <1>1, Invariance, PTL DEF Spec, NoBounceBack
=============================================================================
