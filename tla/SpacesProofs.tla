----------------------------- MODULE SpacesProofs -----------------------------
(***************************************************************************)
(* Which workspaces there are and which of them are active.                *)
(*                                                                         *)
(* Few functions create, free or move a workspace.  The first part says    *)
(* what all the others leave alone (Goes), and is what every theorem about *)
(* workspaces rests on; the second part is about the few.                  *)
(***************************************************************************)
EXTENDS DesktopProofs

-----------------------------------------------------------------------------
(* What a function that is not about workspaces leaves alone.                *)

SameBooks(d, e) ==
  /\ e.output = d.output /\ e.spaces = d.spaces /\ e.dummy = d.dummy
  /\ e.presented = d.presented /\ e.outputs = d.outputs /\ e.plugged = d.plugged

(* Every output that stays has an active workspace of its own, and one of    *)
(* these is the active one.                                                  *)
Acting(d, gone) ==
  /\ \A o \in d.plugged \ gone : d.output[d.act[o]] = o
  /\ Exists(d, d.active) /\ d.act[d.output[d.active]] = d.active

Housed(d) == \A t \in Toplevel : d.life[t] = "mapped" => Exists(d, d.home[t])

Tiles(d, w) == (ToSet(d.slaves[w]) \cup {d.master[w]}) \ {None}

(* No window joins a layout, and no workspace becomes active, without a      *)
(* transaction.                                                              *)
Shows(d, e) ==
  \/ e.crashed # "none" \/ e.due
  \/ /\ ~d.due /\ e.active = d.active /\ e.act = d.act /\ e.shown = d.shown
     /\ \A w \in Workspace : Tiles(e, w) \subseteq Tiles(d, w)

(* What never was an output is not given an active workspace.                *)
Elsewhere(d, e) == \A o \in Output : o \notin ToSet(d.outputs) => e.act[o] = d.act[o]

Goes(d, e) ==
  /\ Typed(e) /\ Later(d, e) /\ SameBooks(d, e)
  /\ Acting(d, {}) => Acting(e, {})
  /\ Acting(d, {}) /\ Housed(d) => Housed(e)
  /\ Acting(d, {}) /\ Len(d.outputs) = 1 => Shows(d, e)
  /\ Acting(d, {}) => Elsewhere(d, e)

LEMMA GoesTwice ==
  ASSUME NEW d, NEW e, NEW f, Goes(d, e), Goes(e, f)
  PROVE  Goes(d, f)
<1>1. SameBooks(d, f) /\ Later(d, f) /\ Typed(f)
  BY DEF Goes, SameBooks, Later
<1>2. ASSUME Acting(d, {}), Len(d.outputs) = 1 PROVE Shows(d, f)
  <2>1. Shows(d, e) /\ Shows(e, f)
    BY <1>2 DEF Goes, SameBooks
  <2> QED BY <2>1 DEF Shows, Goes, Later
<1>3. Acting(d, {}) => Elsewhere(d, f)
  BY DEF Goes, SameBooks, Elsewhere
<1> QED BY <1>1, <1>2, <1>3 DEF Goes

LEMMA GoesSame == ASSUME NEW d, Typed(d) PROVE Goes(d, d)
BY DEF Goes, SameBooks, Later, Shows, Elsewhere, Typed, WindowTypes

(* A function on windows.                                                    *)
LEMMA MovedGoes ==
  ASSUME NEW d, Typed(d), NEW e, Kept(d, e, Moved),
         \A t \in Toplevel : e.home[t] = d.home[t] \/ Exists(d, e.home[t]),
         \/ e.crashed # "none" \/ e.due
         \/ e.due = d.due /\ \A w \in Workspace : Tiles(e, w) \subseteq Tiles(d, w)
  PROVE  Goes(d, e)
<1>1. /\ SameBooks(d, e) /\ e.life = d.life /\ e.active = d.active /\ e.act = d.act
      /\ e.shown = d.shown
  BY DEF Kept, But, Moved, Listed, Fields, Typed, SameBooks
<1>2. Acting(d, {}) => Acting(e, {})
  BY <1>1 DEF Acting, Exists, SameBooks
<1>3. Acting(d, {}) /\ Housed(d) => Housed(e)
  BY <1>1 DEF Housed, Exists, SameBooks
<1>4. Shows(d, e)
  BY <1>1 DEF Shows, Typed, WindowTypes
<1> QED BY <1>1, <1>2, <1>3, <1>4 DEF Goes, Kept, Elsewhere

Stayed == Listed \cup {"state", "prev_state"}

LEMMA StayedGoes ==
  ASSUME NEW d, Typed(d), NEW e, Kept(d, e, Stayed),
         \/ e.crashed # "none" \/ e.due
         \/ e.due = d.due /\ \A w \in Workspace : Tiles(e, w) \subseteq Tiles(d, w)
  PROVE  Goes(d, e)
<1>1. e.home = d.home
  BY DEF Kept, But, Stayed, Listed, Fields, Typed
<1>2. Kept(d, e, Moved)
  BY KeptWider DEF Stayed, Moved
<1> QED BY <1>1, <1>2, MovedGoes

(* A function that leaves the layouts alone.                                 *)
LEMMA QuietGoes ==
  ASSUME NEW d, Typed(d), NEW e, NEW F, Kept(d, e, F),
         F \subseteq {"floats", "fullscreen", "ghosts", "state", "prev_state", "due", "crashed"},
         e.crashed # "none" \/ e.due \/ e.due = d.due
  PROVE  Goes(d, e)
<1>1. e.master = d.master /\ e.slaves = d.slaves
  BY DEF Kept, But, Fields, Typed
<1>2. F \subseteq Stayed
  BY DEF Stayed, Listed
<1>3. Kept(d, e, Stayed)
  BY <1>2, KeptWider
<1> QED BY <1>1, <1>3, StayedGoes DEF Tiles

LEMMA FailGoes ==
  ASSUME NEW d, Typed(d), NEW why, why # "none"
  PROVE  Goes(d, Fail(d, why))
BY Fails, QuietGoes

(* A function on the focus.                                                  *)
LEMMA FocusGoes ==
  ASSUME NEW d, Typed(d), NEW e, Kept(d, e, Refocused),
         Acting(d, {}) => Acting(e, {}), Elsewhere(d, e),
         Acting(d, {}) /\ Len(d.outputs) = 1 =>
           \/ e.crashed # "none" \/ e.due
           \/ e.due = d.due /\ e.active = d.active /\ e.act = d.act
  PROVE  Goes(d, e)
<1>1. /\ SameBooks(d, e) /\ e.life = d.life /\ e.home = d.home /\ e.shown = d.shown
      /\ e.master = d.master /\ e.slaves = d.slaves
  BY DEF Kept, But, Refocused, Fields, Typed, SameBooks
<1>2. Housed(d) => Housed(e)
  BY <1>1 DEF Housed, Exists, SameBooks
<1>3. Acting(d, {}) /\ Len(d.outputs) = 1 => Shows(d, e)
  BY <1>1 DEF Shows, Tiles, Typed, WindowTypes
<1> QED BY <1>1, <1>2, <1>3 DEF Goes, Kept

(* An event of the pointer or the keyboard.                                  *)
LEMMA InputGoes ==
  ASSUME NEW d, Typed(d), NEW e, NEW F, But(d, e, F), F \subseteq Inputs, Typed(e),
         e.due \/ e.due = d.due
  PROVE  Goes(d, e)
<1>1. /\ SameBooks(d, e) /\ e.life = d.life /\ e.home = d.home /\ e.shown = d.shown
      /\ e.master = d.master /\ e.slaves = d.slaves /\ e.active = d.active /\ e.act = d.act
      /\ e.crashed = d.crashed
  BY DEF But, Inputs, Fields, Typed, SameBooks
<1>2. Acting(d, {}) => Acting(e, {})
  BY <1>1 DEF Acting, Exists, SameBooks
<1>3. Housed(d) => Housed(e)
  BY <1>1 DEF Housed, Exists, SameBooks
<1>4. Shows(d, e)
  BY <1>1 DEF Shows, Tiles, Typed, WindowTypes
<1> QED BY <1>1, <1>2, <1>3, <1>4 DEF Goes, Later, Elsewhere

(* Windows.                                                                  *)

LEMMA UnlinkGoes ==
  ASSUME NEW d, Typed(d), NEW t \in Toplevel
  PROVE  Goes(d, Unlink(d, t))
<1> DEFINE e == Unlink(d, t)
<1>1. CASE ~Linked(d, t)
  BY <1>1, FailGoes DEF Unlink
<1>2. CASE Linked(d, t)
  <2>1. Kept(d, e, {"floats", "slaves", "ghosts", "crashed"})
    BY UnlinkKept
  <2>2. Kept(d, e, Stayed)
    BY <2>1, KeptWider DEF Stayed, Listed
  <2>3. /\ e.due = d.due /\ e.master = d.master
        /\ e.slaves = [w \in Workspace |-> RemoveFirst(d.slaves[w], t)]
    BY <1>2 DEF Unlink, Typed, Fields
  <2>4. \A w \in Workspace : ToSet(e.slaves[w]) \subseteq ToSet(d.slaves[w])
    BY <2>3, Removed DEF Typed, ListTypes
  <2>5. \A w \in Workspace : Tiles(e, w) \subseteq Tiles(d, w)
    BY <2>3, <2>4 DEF Tiles
  <2> HIDE DEF e
  <2>6. Goes(d, e)
    BY <2>2, <2>3, <2>5, StayedGoes
  <2> QED BY <2>6 DEF e
<1> QED BY <1>1, <1>2

LEMMA PushFloatGoes ==
  ASSUME NEW d, Typed(d), NEW w, NEW t \in Toplevel
  PROVE  Goes(d, PushFloat(d, w, t))
<1>1. Kept(d, PushFloat(d, w, t), {"floats", "crashed"})
  BY PushFloatKept
<1>2. PushFloat(d, w, t).due = d.due
  BY <1>1 DEF Kept, But, Fields, Typed
<1> QED BY <1>1, <1>2, QuietGoes

LEMMA PromoteGoes ==
  ASSUME NEW d, Typed(d), NEW w
  PROVE  Goes(d, Promote(d, w))
<1> DEFINE e == Promote(d, w)
<1>1. Kept(d, e, {"master", "slaves"})
  BY PromoteKept
<1>2. Kept(d, e, Stayed)
  BY <1>1, KeptWider DEF Stayed, Listed
<1>3. e.due = d.due
  BY <1>1 DEF Kept, But, Fields, Typed
<1>4. /\ e.master = [d.master EXCEPT ![w] = LastOrNone(d.slaves[w])]
      /\ e.slaves = [d.slaves EXCEPT ![w] = IF @ = <<>> THEN @ ELSE Front(@)]
  BY DEF Promote, Typed, Fields
<1>5. ASSUME NEW v \in Workspace PROVE Tiles(e, v) \subseteq Tiles(d, v)
  <2>1. CASE v # w
    BY <1>4, <2>1 DEF Tiles, Typed, ListTypes
  <2>2. CASE v = w
    <3>1. d.slaves[v] \in Seq(Toplevel) /\ None \notin Toplevel
      BY NoneIsNoName DEF Typed, ListTypes
    <3>2. e.master[v] = LastOrNone(d.slaves[v])
      BY <1>4, <2>2 DEF Typed, ListTypes
    <3>3. e.slaves[v] = IF d.slaves[v] = <<>> THEN <<>> ELSE Front(d.slaves[v])
      BY <1>4, <2>2 DEF Typed, ListTypes
    <3>4. CASE d.slaves[v] = <<>>
      BY <3>2, <3>3, <3>4, Emptied DEF Tiles, LastOrNone
    <3>5. CASE d.slaves[v] # <<>>
      BY <3>1, <3>2, <3>3, <3>5, Ends DEF Tiles, LastOrNone
    <3> QED BY <3>4, <3>5
  <2> QED BY <2>1, <2>2
<1> HIDE DEF e
<1>6. Goes(d, e)
  BY <1>2, <1>3, <1>5, StayedGoes
<1> QED BY <1>6 DEF e

LEMMA LayoutRemoveGoes ==
  ASSUME NEW d, Typed(d), NEW t \in Toplevel
  PROVE  Goes(d, LayoutRemove(d, t))
BY PromoteGoes, UnlinkGoes DEF LayoutRemove

LEMMA ConfigureGoes ==
  ASSUME NEW d, Typed(d), NEW w
  PROVE  /\ Goes(d, Configure(d, w))
         /\ d.master[w] # None => Configure(d, w).due \/ Configure(d, w).crashed # "none"
<1> DEFINE e == Configure(d, w)
<1>1. Kept(d, e, {"due", "crashed"})
  BY ConfigureKept
<1>2. e = d \/ e = [d EXCEPT !.due = TRUE] \/ e = Fail(d, "configured unmapped") \/ e = Fail(d, "freed workspace")
  BY DEF Configure
<1>3. d.master[w] # None =>
        e = [d EXCEPT !.due = TRUE] \/ e = Fail(d, "configured unmapped") \/ e = Fail(d, "freed workspace")
  BY DEF Configure
<1>4. [d EXCEPT !.due = TRUE].due
  BY DEF Typed, Fields
<1>5. e = d \/ e.due \/ e.crashed # "none"
  BY <1>2, <1>4, Fails
<1> HIDE DEF e
<1>6. Goes(d, e)
  BY <1>1, <1>5, QuietGoes
<1>7. d.master[w] # None => Configure(d, w).due \/ Configure(d, w).crashed # "none"
  BY <1>3, <1>4, Fails DEF e
<1> QED BY <1>6, <1>7 DEF e

LEMMA AskGoes ==
  ASSUME NEW d, Typed(d), NEW t
  PROVE  Goes(d, Ask(d, t)) /\ (Ask(d, t).due \/ Ask(d, t).crashed # "none")
<1>1. Kept(d, Ask(d, t), {"due", "crashed"})
  BY AskKept
<1>2. Ask(d, t).due \/ Ask(d, t).crashed # "none"
  BY Fails DEF Ask, Typed, Fields
<1> QED BY <1>1, <1>2, QuietGoes

LEMMA MasterAdded ==
  ASSUME NEW d, Typed(d), NEW w \in Workspace, NEW t \in Toplevel
  PROVE  LayoutAdd(d, w, t).master[w] # None
<1> DEFINE a == LayoutAdd(d, w, t)
<1>1. CASE d.master[w] = None
  <2>1. a.master = [d.master EXCEPT ![w] = t]
    BY <1>1 DEF LayoutAdd, Typed, Fields
  <2> QED BY <2>1, NoneIsNoName DEF Typed, ListTypes
<1>2. CASE d.master[w] # None
  <2>1. a.master = d.master
    BY <1>2 DEF LayoutAdd, Fail, Typed, Fields
  <2> QED BY <1>2, <2>1
<1> QED BY <1>1, <1>2

(* A window enters the layout, which is then configured.                     *)
LEMMA AddedGoes ==
  ASSUME NEW d, Typed(d), NEW w \in Workspace, NEW t \in Toplevel
  PROVE  /\ Goes(d, Configure(LayoutAdd(d, w, t), w))
         /\ \/ Configure(LayoutAdd(d, w, t), w).due
            \/ Configure(LayoutAdd(d, w, t), w).crashed # "none"
<1> DEFINE a == LayoutAdd(d, w, t)
           e == Configure(a, w)
<1>1. Kept(d, a, {"master", "slaves", "crashed"}) /\ a.master[w] # None
  BY LayoutAddKept, MasterAdded
<1> HIDE DEF a
<1>2. Kept(a, e, {"due", "crashed"}) /\ (e.due \/ e.crashed # "none")
  BY <1>1, ConfigureKept, ConfigureGoes DEF Kept
<1> HIDE DEF e
<1>3. Kept(d, a, Stayed) /\ Kept(a, e, Stayed)
  BY <1>1, <1>2, KeptWider DEF Stayed, Listed
<1>4. Kept(d, e, Stayed)
  BY <1>3, KeptTwice
<1>5. Goes(d, e)
  BY <1>2, <1>4, StayedGoes
<1> QED BY <1>2, <1>5 DEF e, a

LEMMA StateGoes ==
  ASSUME NEW d, Typed(d), NEW t \in Toplevel, NEW st \in State
  PROVE  Goes(d, [d EXCEPT !.state[t] = st])
<1> DEFINE e == [d EXCEPT !.state[t] = st]
<1>1. Kept(d, e, {"state"}) /\ e.due = d.due
  BY StateKept DEF Typed, Fields
<1> HIDE DEF e
<1>2. Goes(d, e)
  BY <1>1, QuietGoes
<1> QED BY <1>2 DEF e

LEMMA FullscreenGoes ==
  ASSUME NEW d, Typed(d), NEW w, NEW t \in Toplevel \cup {None}
  PROVE  Goes(d, [d EXCEPT !.fullscreen[w] = t])
<1> DEFINE e == [d EXCEPT !.fullscreen[w] = t]
<1>1. Kept(d, e, {"fullscreen"}) /\ e.due = d.due
  BY FullscreenKept DEF Typed, Fields
<1> HIDE DEF e
<1>2. Goes(d, e)
  BY <1>1, QuietGoes
<1> QED BY <1>2 DEF e

LEMMA LeaveStateGoes ==
  ASSUME NEW d, Typed(d), NEW t \in Toplevel
  PROVE  Goes(d, LeaveState(d, t))
<1>1. d.state[t] \in State
  BY DEF Typed, WindowTypes
<1>2. CASE d.state[t] = "TILED"
  <2>1. Goes(d, LayoutRemove(d, t))
    BY LayoutRemoveGoes
  <2>2. Goes(LayoutRemove(d, t), Configure(LayoutRemove(d, t), d.home[t]))
    BY <2>1, ConfigureGoes DEF Goes
  <2> QED BY <1>2, <2>1, <2>2, GoesTwice DEF LeaveState
<1>3. CASE d.state[t] = "FLOAT"
  BY <1>3, UnlinkGoes DEF LeaveState
<1>4. CASE d.state[t] = "FULLSCREEN"
  BY <1>4, FullscreenGoes DEF LeaveState
<1> QED BY <1>1, <1>2, <1>3, <1>4 DEF State

LEMMA SetStateGoes ==
  ASSUME NEW d, Typed(d), NEW t \in Toplevel, NEW st \in State
  PROVE  Goes(d, SetState(d, t, st))
<1> DEFINE a == LeaveState(d, t)
           b == [a EXCEPT !.state[t] = "TILED"]
           c == Ask(a, t)
           e == [c EXCEPT !.state[t] = "FLOAT"]
           f == [c EXCEPT !.prev_state[t] = d.state[t],
                          !.fullscreen[d.home[t]] = t,
                          !.state[t] = "FULLSCREEN"]
<1>1. Goes(d, a)
  BY LeaveStateGoes
<1>2. CASE t = d.grabbed \/ d.state[t] = st
  BY <1>2, GoesSame DEF SetState
<1>3. CASE ~(t = d.grabbed \/ d.state[t] = st) /\ ~Exists(d, d.home[t])
  BY <1>3, FailGoes DEF SetState
<1>4. CASE ~(t = d.grabbed \/ d.state[t] = st) /\ Exists(d, d.home[t])
  <2>1. d.home[t] \in Workspace
    BY <1>4 DEF Exists, Typed, WindowTypes
  <2>2. Goes(d, c) /\ (c.due \/ c.crashed # "none")
    BY <1>1, AskGoes, GoesTwice DEF Goes
  <2>3. Goes(d, SetTiled(d, t))
    <3>1. Goes(a, b)
      BY <1>1, StateGoes DEF Goes, State
    <3>2. Goes(b, Configure(LayoutAdd(b, d.home[t], t), d.home[t]))
      BY <3>1, <2>1, AddedGoes DEF Goes
    <3> QED BY <1>1, <3>1, <3>2, GoesTwice DEF SetTiled
  <2>4. Goes(d, SetFloat(d, t))
    <3>1. Goes(c, e)
      BY <2>2, StateGoes DEF Goes, State
    <3>2. Goes(e, PushFloat(e, d.home[t], t))
      BY <3>1, PushFloatGoes DEF Goes
    <3> QED BY <2>2, <3>1, <3>2, GoesTwice DEF SetFloat
  <2>5. ASSUME st = "FULLSCREEN" PROVE Goes(d, SetFullscreen(d, t))
    <3>1. d.state[t] \in {"TILED", "FLOAT"}
      BY <1>4, <2>5 DEF Typed, WindowTypes, State
    <3>2. Typed(c)
      BY <2>2 DEF Goes
    <3> HIDE DEF c
    <3>3. But(c, f, {"prev_state", "fullscreen", "state"}) /\ Later(c, f) /\ f.due = c.due
      BY <3>2 DEF But, Later, Typed, Fields
    <3>4. WindowTypes(f) /\ ListTypes(f)
      BY <3>1, <3>2 DEF Typed, WindowTypes, ListTypes, Fields, State
    <3>5. Typed(f)
      BY <3>2, <3>3, <3>4, MovedTyped DEF But, Moved, Listed
    <3>6. Kept(c, f, {"prev_state", "fullscreen", "state"})
      BY <3>3, <3>5 DEF Kept
    <3> HIDE DEF f
    <3>7. Goes(c, f)
      BY <3>2, <3>3, <3>6, QuietGoes
    <3>8. SetFullscreen(d, t) \in {d, f}
      BY DEF SetFullscreen, f, c, a
    <3> QED BY <2>2, <3>7, <3>8, GoesTwice, GoesSame DEF c
  <2> QED BY <1>4, <2>3, <2>4, <2>5 DEF SetState, State
<1> QED BY <1>2, <1>3, <1>4

LEMMA HomeGoes ==
  ASSUME NEW d, Typed(d), NEW t \in Toplevel, NEW w \in Workspace, Exists(d, w),
         NEW due \in BOOLEAN
  PROVE  Goes(d, [d EXCEPT !.home[t] = w, !.due = @ \/ due])
<1> DEFINE e == [d EXCEPT !.home[t] = w, !.due = @ \/ due]
<1>1. But(d, e, {"home", "due"}) /\ Later(d, e)
  BY DEF But, Later, Typed, Fields
<1>2. WindowTypes(e) /\ ListTypes(e)
  BY DEF Typed, WindowTypes, ListTypes, Fields
<1>3. Typed(e)
  BY <1>1, <1>2, MovedTyped DEF But, Moved, Listed
<1>4. /\ SameBooks(d, e) /\ e.life = d.life /\ e.active = d.active /\ e.act = d.act
      /\ e.shown = d.shown /\ e.master = d.master /\ e.slaves = d.slaves
  BY <1>1 DEF But, Fields, Typed, SameBooks
<1>5. e.home = [d.home EXCEPT ![t] = w] /\ e.due = (d.due \/ due)
  BY DEF Typed, Fields
<1> HIDE DEF e
<1>6. Acting(d, {}) => Acting(e, {})
  BY <1>4 DEF Acting, Exists, SameBooks
<1>7. Acting(d, {}) /\ Housed(d) => Housed(e)
  BY <1>4, <1>5 DEF Housed, Exists, SameBooks, Typed, WindowTypes
<1>8. Shows(d, e)
  BY <1>4, <1>5 DEF Shows, Tiles, Typed, WindowTypes
<1> QED BY <1>1, <1>3, <1>4, <1>6, <1>7, <1>8 DEF Goes, Elsewhere, e

LEMMA MoveToWorkspaceGoes ==
  ASSUME NEW d, Typed(d), NEW t \in Toplevel, NEW w \in Workspace, Exists(d, w)
  PROVE  Goes(d, MoveToWorkspace(d, t, w))
<1> DEFINE old == d.home[t]
<1>1. CASE t = d.grabbed \/ old = w
  BY <1>1, GoesSame DEF MoveToWorkspace
<1>2. CASE ~(t = d.grabbed \/ old = w) /\ ~Exists(d, old)
  BY <1>2, FailGoes DEF MoveToWorkspace
<1>3. CASE ~(t = d.grabbed \/ old = w) /\ Exists(d, old) /\ d.state[t] = "TILED"
  <2> DEFINE a == LayoutRemove(d, t)
             b == LayoutAdd(a, w, t)
             c == [b EXCEPT !.home[t] = w]
             e == Configure(c, old)
             f == Configure(e, w)
  <2>1. Goes(d, a) /\ Typed(a)
    BY LayoutRemoveGoes DEF Goes
  <2> HIDE DEF a
  <2>2. Kept(a, b, {"master", "slaves", "crashed"}) /\ b.master[w] # None
    BY <2>1, LayoutAddKept, MasterAdded
  <2> HIDE DEF b
  <2>3. /\ Kept(b, c, {"home"}) /\ c.master = b.master /\ c.home = [b.home EXCEPT ![t] = w]
    <3>1. But(b, c, {"home"}) /\ Later(b, c)
      BY <2>2 DEF Kept, But, Later, Typed, Fields
    <3>2. WindowTypes(c) /\ ListTypes(c)
      BY <2>2 DEF Kept, Typed, WindowTypes, ListTypes, Fields
    <3>3. c.master = b.master /\ c.home = [b.home EXCEPT ![t] = w]
      BY <2>2 DEF Kept, Typed, Fields
    <3> HIDE DEF c
    <3> QED BY <2>2, <3>1, <3>2, <3>3, MovedTyped DEF Kept, But, Moved, Listed
  <2> HIDE DEF c
  <2>4. Kept(c, e, {"due", "crashed"})
    BY <2>3, ConfigureKept DEF Kept
  <2> HIDE DEF e
  <2>5. e.master[w] # None
    BY <2>2, <2>3, <2>4 DEF Kept, But, Typed, Fields
  <2>6. Kept(e, f, {"due", "crashed"}) /\ (f.due \/ f.crashed # "none")
    BY <2>4, <2>5, ConfigureKept, ConfigureGoes DEF Kept
  <2> HIDE DEF f
  <2>7. Kept(a, b, Moved) /\ Kept(b, c, Moved) /\ Kept(c, e, Moved) /\ Kept(e, f, Moved)
    BY <2>2, <2>3, <2>4, <2>6, KeptWider DEF Moved, Listed
  <2>8. Kept(a, f, Moved)
    BY <2>7, KeptTwice
  <2>9. f.home = [a.home EXCEPT ![t] = w] /\ a.home \in [Toplevel -> Workspace \cup {None}]
    BY <2>1, <2>2, <2>3, <2>4, <2>6 DEF Kept, But, Fields, Typed, WindowTypes
  <2>10. Exists(a, w)
    BY <2>1 DEF Goes, SameBooks, Exists
  <2>11. \A u \in Toplevel : f.home[u] = a.home[u] \/ Exists(a, f.home[u])
    BY <2>9, <2>10
  <2>12. Goes(a, f)
    BY <2>1, <2>6, <2>8, <2>11, MovedGoes
  <2>13. MoveToWorkspace(d, t, w) = f
    BY <1>3 DEF MoveToWorkspace, f, e, c, b, a
  <2> QED BY <2>1, <2>12, <2>13, GoesTwice
<1>4. CASE ~(t = d.grabbed \/ old = w) /\ Exists(d, old) /\ d.state[t] = "FLOAT"
  <2> DEFINE a == Unlink(d, t)
             due == d.output[old] # d.output[w]
             b == [a EXCEPT !.home[t] = w, !.due = @ \/ due]
  <2>1. Goes(d, a) /\ Typed(a)
    BY UnlinkGoes DEF Goes
  <2> HIDE DEF a
  <2>2. Exists(a, w)
    BY <2>1 DEF Goes, SameBooks, Exists
  <2>3. due \in BOOLEAN
    OBVIOUS
  <2> HIDE DEF due
  <2>4. Goes(a, b)
    BY <2>1, <2>2, <2>3, HomeGoes
  <2> HIDE DEF b
  <2>5. Goes(b, PushFloat(b, w, t))
    BY <2>4, PushFloatGoes DEF Goes
  <2>6. MoveToWorkspace(d, t, w) = PushFloat(b, w, t)
    BY <1>4 DEF MoveToWorkspace, b, a, due
  <2> QED BY <2>1, <2>4, <2>5, <2>6, GoesTwice
<1>5. CASE ~(t = d.grabbed \/ old = w) /\ Exists(d, old) /\ d.state[t] = "FULLSCREEN"
  <2> DEFINE e == [d EXCEPT !.fullscreen[old] = None, !.fullscreen[w] = t, !.home[t] = w, !.due = TRUE]
  <2>1. MoveToWorkspace(d, t, w) = e
    BY <1>5 DEF MoveToWorkspace
  <2>2. Kept(d, e, Moved)
    BY <2>1, MoveToWorkspaceKept
  <2>3. e.due /\ e.home = [d.home EXCEPT ![t] = w]
    BY DEF Typed, Fields
  <2> HIDE DEF e
  <2>4. \A u \in Toplevel : e.home[u] = d.home[u] \/ Exists(d, e.home[u])
    BY <2>3 DEF Typed, WindowTypes
  <2> QED BY <2>1, <2>2, <2>3, <2>4, MovedGoes
<1>6. d.state[t] \in State
  BY DEF Typed, WindowTypes
<1> QED BY <1>1, <1>2, <1>3, <1>4, <1>5, <1>6 DEF State

(* While the active workspace is lost there is little to say.                *)
LEMMA LostGoes ==
  ASSUME NEW d, Typed(d), ~Acting(d, {}), NEW e, Kept(d, e, Operated)
  PROVE  Goes(d, e)
<1>1. SameBooks(d, e)
  BY DEF Kept, But, Operated, Moved, Listed, Refocused, Fields, Typed, SameBooks
<1> QED BY <1>1 DEF Goes, Kept

LEMMA RaiseGoes ==
  ASSUME NEW d, Typed(d), NEW t \in Toplevel
  PROVE  Goes(d, Raise(d, t))
<1>1. Goes(d, Unlink(d, t))
  BY UnlinkGoes
<1>2. Goes(Unlink(d, t), PushFloat(Unlink(d, t), d.home[t], t))
  BY <1>1, PushFloatGoes DEF Goes
<1> QED BY <1>1, <1>2, GoesTwice DEF Raise

(* Two windows change places.                                                *)
LEMMA SwapGoes ==
  ASSUME NEW d, Typed(d), NEW a \in Toplevel, NEW b \in Toplevel, d.home[a] \in Workspace,
         d.master[d.home[a]] # None \/ {a, b} \subseteq ToSet(d.slaves[d.home[a]])
  PROVE  Goes(d, Configure(SwapLayout(d, a, b), d.home[a]))
<1> DEFINE w == d.home[a]
           Other(x) == IF x = a THEN b ELSE IF x = b THEN a ELSE x
           r == [i \in DOMAIN d.slaves[w] |->
                   IF d.slaves[w][i] = a THEN b ELSE IF d.slaves[w][i] = b THEN a ELSE d.slaves[w][i]]
           e == SwapLayout(d, a, b)
           f == Configure(e, w)
<1>1. Kept(d, e, {"master", "slaves"})
  BY SwapLayoutKept
<1>2. Typed(e) /\ e.due = d.due
  BY <1>1 DEF Kept, But, Fields, Typed
<1>3. e.master = [d.master EXCEPT ![w] = Other(d.master[w])] /\ e.slaves = [d.slaves EXCEPT ![w] = r]
  BY DEF SwapLayout, Typed, Fields
<1>9. d.slaves[w] \in Seq(Toplevel)
  BY DEF Typed, ListTypes
<1>10. ToSet(r) = {Other(x) : x \in ToSet(d.slaves[w])}
  <2> DEFINE s == d.slaves[w]
  <2>1. s \in Seq(Toplevel) /\ r = [i \in DOMAIN s |-> IF s[i] = a THEN b ELSE IF s[i] = b THEN a ELSE s[i]]
    BY <1>9
  <2> HIDE DEF r, s
  <2>2. ToSet(r) = {IF x = a THEN b ELSE IF x = b THEN a ELSE x : x \in ToSet(s)}
    BY <2>1, Swapped
  <2> QED BY <2>2 DEF s
<1>4. d.master[w] \in Toplevel \cup {None} /\ d.slaves[w] \in Seq(Toplevel) /\ None \notin Toplevel
  BY NoneIsNoName DEF Typed, ListTypes
<1>5. e.master[w] = Other(d.master[w]) /\ e.slaves[w] = r
  BY <1>3 DEF Typed, ListTypes
<1> HIDE DEF e
<1>6. Kept(e, f, {"due", "crashed"}) /\ Goes(e, f)
  BY <1>2, ConfigureKept, ConfigureGoes
<1>7. CASE d.master[w] # None
  <2>1. e.master[w] # None
    BY <1>4, <1>5, <1>7
  <2>2. f.due \/ f.crashed # "none"
    BY <1>2, <2>1, ConfigureGoes
  <2> HIDE DEF f
  <2>3. Kept(d, e, Stayed) /\ Kept(e, f, Stayed)
    BY <1>1, <1>6, KeptWider DEF Stayed, Listed
  <2>4. Goes(d, f)
    BY <2>2, <2>3, KeptTwice, StayedGoes
  <2> QED BY <2>4 DEF f, e
<1>8. CASE d.master[w] = None /\ {a, b} \subseteq ToSet(d.slaves[w])
  <2> HIDE DEF r
  <2>2. ToSet(r) \subseteq ToSet(d.slaves[w])
    BY <1>8, <1>10
  <2>3. e.master = d.master
    BY <1>3, <1>4, <1>8 DEF Typed, ListTypes
  <2>4. \A v \in Workspace : ToSet(e.slaves[v]) \subseteq ToSet(d.slaves[v])
    BY <1>3, <1>5, <2>2 DEF Typed, ListTypes
  <2>5. \A v \in Workspace : Tiles(e, v) \subseteq Tiles(d, v)
    BY <2>3, <2>4 DEF Tiles
  <2>6. Kept(d, e, Stayed)
    BY <1>1, KeptWider DEF Stayed, Listed
  <2>7. Goes(d, e)
    BY <1>2, <2>5, <2>6, StayedGoes
  <2> QED BY <1>6, <2>7, GoesTwice DEF f, e
<1> QED BY <1>7, <1>8

(* The focus.  The workspaces of an output that is about to go may be lost.  *)

Steady(d, e) ==
  /\ Goes(d, e) /\ Elsewhere(d, e)
  /\ \A gone \in SUBSET Output : Acting(d, gone) => Acting(e, gone)

LEMMA ElsewhereTwice ==
  ASSUME NEW d, NEW e, NEW f, Elsewhere(d, e), Elsewhere(e, f), Goes(d, e)
  PROVE  Elsewhere(d, f)
BY DEF Elsewhere, Goes, SameBooks

LEMMA SteadyTwice ==
  ASSUME NEW d, NEW e, NEW f, Steady(d, e), Steady(e, f)
  PROVE  Steady(d, f)
BY GoesTwice, ElsewhereTwice DEF Steady

LEMMA SteadySame == ASSUME NEW d, Typed(d) PROVE Steady(d, d)
BY GoesSame DEF Steady, Elsewhere

LEMMA SteadyIf ==
  ASSUME NEW d, Typed(d), NEW e, Kept(d, e, Refocused), e.active = d.active, e.act = d.act,
         e.due = d.due \/ e.crashed # "none"
  PROVE  Steady(d, e)
<1>1. e.output = d.output /\ e.plugged = d.plugged
  BY DEF Kept, But, Refocused, Fields, Typed
<1>2. \A gone : Acting(d, gone) => Acting(e, gone)
  BY <1>1 DEF Acting, Exists
<1>3. Elsewhere(d, e)
  BY DEF Elsewhere
<1>4. Goes(d, e)
  BY <1>2, <1>3, FocusGoes
<1> QED BY <1>2, <1>3, <1>4 DEF Steady

LEMMA FailSteady ==
  ASSUME NEW d, Typed(d), NEW why, why # "none"
  PROVE  Steady(d, Fail(d, why))
<1> DEFINE e == Fail(d, why)
<1>1. Kept(d, e, {"crashed"}) /\ e.crashed # "none"
  BY Fails
<1>2. Kept(d, e, Refocused) /\ e.active = d.active /\ e.act = d.act
  BY <1>1, KeptWider DEF Kept, But, Refocused, Fields, Typed
<1> HIDE DEF e
<1>3. Steady(d, e)
  BY <1>1, <1>2, SteadyIf
<1> QED BY <1>3 DEF e

LEMMA DerefSteady == ASSUME NEW d, Typed(d), NEW t PROVE Steady(d, Deref(d, t))
BY FailSteady, SteadySame DEF Deref

LEMMA MakeActiveSteady ==
  ASSUME NEW d, Typed(d), NEW w \in Workspace
  PROVE  /\ Steady(d, MakeActive(d, w))
         /\ MakeActive(d, w).crashed # "none" \/ (MakeActive(d, w).due /\ MakeActive(d, w).active = w)
<1> DEFINE e == MakeActive(d, w)
<1>1. CASE ~Exists(d, w) \/ ~Exists(d, d.active)
  BY <1>1, FailSteady, Fails DEF MakeActive
<1>2. CASE Exists(d, w) /\ Exists(d, d.active)
  <2>1. Kept(d, e, Refocused)
    BY MakeActiveKept DEF FocusKept
  <2>2. e.active = w /\ e.act = [d.act EXCEPT ![d.output[w]] = w] /\ e.due = TRUE
    BY <1>2 DEF MakeActive, Typed, Fields
  <2>3. e.output = d.output /\ e.plugged = d.plugged
    BY <2>1 DEF Kept, But, Refocused, Fields, Typed
  <2>4. d.output[w] \in Output /\ d.act \in [Output -> Workspace \cup {None}] /\ d.plugged \subseteq Output
    BY <1>2, Elements DEF Exists, Typed, SpaceTypes
  <2>5. ASSUME NEW gone \in SUBSET Output, Acting(d, gone) PROVE Acting(e, gone)
    <3>1. e.act[d.output[w]] = w
      BY <2>2, <2>4
    <3>2. \A o \in Output : o # d.output[w] => e.act[o] = d.act[o]
      BY <2>2, <2>4
    <3>3. \A o \in d.plugged \ gone : d.output[e.act[o]] = o
      BY <2>4, <2>5, <3>1, <3>2 DEF Acting
    <3> QED BY <1>2, <2>2, <2>3, <3>1, <3>3 DEF Acting, Exists
  <2> HIDE DEF e
  <2>6. Acting(d, {}) => Acting(e, {})
    BY <2>5
  <2>7. Goes(d, e) /\ Elsewhere(d, e)
    <3>1. d.output[w] \in ToSet(d.outputs)
      BY <1>2 DEF Exists, Typed, SpaceTypes
    <3>2. Elsewhere(d, e)
      BY <2>2, <2>4, <3>1 DEF Elsewhere
    <3> QED BY <2>1, <2>2, <2>6, <3>2, FocusGoes
  <2>8. Steady(d, e)
    BY <2>5, <2>7 DEF Steady
  <2> QED BY <2>2, <2>8 DEF e
<1> QED BY <1>1, <1>2

LEMMA SetActiveKeepingFocusSteady ==
  ASSUME NEW d, Typed(d), NEW w \in Workspace
  PROVE  Steady(d, SetActiveKeepingFocus(d, w))
BY MakeActiveSteady, SteadySame DEF SetActiveKeepingFocus

LEMMA ToplevelFocusSteady ==
  ASSUME NEW d, Typed(d), NEW t \in Toplevel \cup {None}
  PROVE  Steady(d, ToplevelFocus(d, t))
<1> DEFINE a == Deref(Deref(d, d.focused), t)
           f == [a EXCEPT !.focused = t]
<1>1. CASE Refused(d, t)
  BY <1>1, SteadySame DEF ToplevelFocus
<1>2. CASE ~Refused(d, t)
  <2>1. Steady(d, a) /\ Typed(a)
    BY DerefSteady, SteadyTwice DEF Steady, Goes
  <2> HIDE DEF a
  <2>2. /\ But(a, f, Refocused) /\ Later(a, f) /\ f.active = a.active /\ f.act = a.act
        /\ f.due = a.due /\ f.focused = t /\ f.layer = a.layer /\ f.exclusive = a.exclusive
    BY <2>1 DEF But, Later, Typed, Fields, Refocused
  <2> HIDE DEF f
  <2>3. Typed(f)
    <3>1. /\ f.active \in Workspace /\ f.act \in [Output -> Workspace \cup {None}]
          /\ \A o \in a.plugged : f.act[o] # None
      BY <2>1, <2>2 DEF Typed, SpaceTypes
    <3>2. /\ f.focused \in Toplevel \cup {None} /\ f.layer \in Layer \cup {None}
          /\ f.exclusive \in BOOLEAN /\ f.due \in BOOLEAN
      BY <2>1, <2>2 DEF Typed, FocusTypes, WindowTypes
    <3> QED BY <2>1, <2>2, <3>1, <3>2, RefocusTyped
  <2>4. Steady(a, f)
    BY <2>1, <2>2, <2>3, SteadyIf DEF Kept
  <2>5. Steady(d, f)
    BY <2>1, <2>4, SteadyTwice
  <2>6. CASE t = None
    BY <1>2, <2>5, <2>6 DEF ToplevelFocus, f, a
  <2>7. CASE t # None /\ ~Exists(d, d.home[t])
    BY <1>2, <2>7, FailSteady DEF ToplevelFocus
  <2>8. CASE t # None /\ Exists(d, d.home[t])
    <3>1. d.home[t] \in Workspace
      BY <2>8 DEF Exists, Typed, WindowTypes
    <3>2. Steady(f, SetActiveKeepingFocus(f, d.home[t]))
      BY <2>3, <3>1, SetActiveKeepingFocusSteady
    <3>3. ToplevelFocus(d, t) = SetActiveKeepingFocus(f, d.home[t])
      BY <1>2, <2>8 DEF ToplevelFocus, f, a
    <3> QED BY <2>5, <3>2, <3>3, SteadyTwice
  <2> QED BY <2>6, <2>7, <2>8
<1> QED BY <1>1, <1>2

LEMMA LayerFocusSteady ==
  ASSUME NEW d, Typed(d), NEW l \in Layer
  PROVE  Steady(d, LayerFocus(d, l))
<1> DEFINE a == Deref(d, d.focused)
           e == [a EXCEPT !.focused = None, !.layer = l, !.exclusive = d.want[l] = "exclusive"]
<1>1. CASE d.want[l] = "none" \/ (d.want[l] = "on_demand" /\ d.exclusive)
  BY <1>1, SteadySame DEF LayerFocus
<1>2. CASE ~(d.want[l] = "none" \/ (d.want[l] = "on_demand" /\ d.exclusive))
  <2>1. Kept(d, LayerFocus(d, l), Refocused)
    BY LayerFocusKept
  <2>2. LayerFocus(d, l) = e
    BY <1>2 DEF LayerFocus, e, a
  <2>3. Kept(d, a, {"crashed"})
    BY DerefKept
  <2>4. a.active = d.active /\ a.act = d.act /\ a.due = d.due
    BY <2>3 DEF Kept, But, Fields, Typed
  <2> HIDE DEF a
  <2>5. e.active = a.active /\ e.act = a.act /\ e.due = a.due
    BY <2>3 DEF Kept, Typed, Fields
  <2> HIDE DEF e
  <2> QED BY <2>1, <2>2, <2>4, <2>5, SteadyIf
<1> QED BY <1>1, <1>2

LEMMA ViewFocusSteady ==
  ASSUME NEW d, Typed(d), NEW v \in Toplevel \cup Layer
  PROVE  Steady(d, ViewFocus(d, v))
BY LayerFocusSteady, ToplevelFocusSteady DEF ViewFocus

LEMMA OneOf ==
  ASSUME NEW S, NEW s \in Seq(S), Len(s) = 1, NEW x \in ToSet(s), NEW y \in ToSet(s)
  PROVE  x = y
BY DEF ToSet

(* An output makes its own workspace active.                                 *)
LEMMA ActiveGoes ==
  ASSUME NEW d, Typed(d), NEW o \in d.plugged, NEW e, e = [d EXCEPT !.active = d.act[o]]
  PROVE  /\ Goes(d, e) /\ Elsewhere(d, e)
         /\ \A gone \in SUBSET Output : o \notin gone /\ Acting(d, gone) => Acting(e, gone)
<1>1. o \in Output /\ d.act[o] \in Workspace
  BY ActiveTyped
<1>2. Kept(d, e, Refocused)
  BY <1>1, ActiveKept DEF FocusKept
<1>3. /\ e.active = d.act[o] /\ e.act = d.act /\ e.due = d.due
      /\ e.output = d.output /\ e.plugged = d.plugged
  BY DEF Typed, Fields
<1>4. ASSUME NEW gone \in SUBSET Output, o \notin gone, Acting(d, gone) PROVE Acting(e, gone)
  <2>1. d.output[d.act[o]] = o
    BY <1>4 DEF Acting
  <2>2. Exists(d, d.act[o])
    BY <1>1, <2>1, NoneIsNoName DEF Exists
  <2> QED BY <1>3, <1>4, <2>1, <2>2 DEF Acting, Exists
<1>5. ASSUME Acting(d, {}), Len(d.outputs) = 1 PROVE e.active = d.active
  <2>1. d.output[d.active] \in ToSet(d.outputs) /\ o \in ToSet(d.outputs) /\ d.outputs \in Seq(Output)
    BY <1>5 DEF Acting, Exists, Typed, SpaceTypes
  <2>2. o = d.output[d.active]
    BY <1>5, <2>1, OneOf
  <2> QED BY <1>3, <1>5, <2>2 DEF Acting
<1>6. Acting(d, {}) => Acting(e, {})
  BY <1>4
<1>7. Goes(d, e) /\ Elsewhere(d, e)
  <2>1. Elsewhere(d, e)
    BY <1>3 DEF Elsewhere
  <2> QED BY <1>2, <1>3, <1>5, <1>6, <2>1, FocusGoes
<1> QED BY <1>4, <1>7

LEMMA OutputFocusGoes ==
  ASSUME NEW d, Typed(d), NEW o
  PROVE  /\ Goes(d, OutputFocus(d, o)) /\ Elsewhere(d, OutputFocus(d, o))
         /\ \A gone \in SUBSET Output : o \notin gone /\ Acting(d, gone) => Acting(OutputFocus(d, o), gone)
<1> DEFINE g == SelectInSeq(d.panels[o], LAMBDA l : d.want[l] = "exclusive")
           w == d.act[o]
           a == [d EXCEPT !.active = w]
<1>1. CASE o \notin d.plugged
  BY <1>1, FailSteady DEF OutputFocus, Steady
<1>2. CASE o \in d.plugged /\ g # 0
  <2>1. o \in Output
    BY <1>2, ActiveTyped
  <2>2. d.panels[o][g] \in ToSet(d.panels[o])
    BY <1>2, <2>1, Greedy
  <2>3. d.panels[o][g] \in Layer
    BY <2>1, <2>2, Elements DEF Typed, FocusTypes
  <2>4. OutputFocus(d, o) = LayerFocus(d, d.panels[o][g])
    BY <1>2 DEF OutputFocus
  <2> QED BY <2>3, <2>4, LayerFocusSteady DEF Steady
<1>3. CASE o \in d.plugged /\ g = 0
  <2>1. w \in Workspace
    BY <1>3, ActiveTyped
  <2>2. /\ Goes(d, a) /\ Elsewhere(d, a)
        /\ \A gone \in SUBSET Output : o \notin gone /\ Acting(d, gone) => Acting(a, gone)
    BY <1>3, ActiveGoes
  <2>3. TopMost(d, w) \in Toplevel \cup {None}
    BY <2>1, TopMostTyped
  <2>4. OutputFocus(d, o) = IF TopMost(d, w) = None THEN a ELSE ToplevelFocus(a, TopMost(d, w))
    BY <1>3 DEF OutputFocus
  <2> HIDE DEF a, w, g
  <2>5. Steady(a, ToplevelFocus(a, TopMost(d, w)))
    BY <2>2, <2>3, ToplevelFocusSteady DEF Goes
  <2> QED BY <2>2, <2>4, <2>5, GoesTwice, ElsewhereTwice DEF Steady
<1> QED BY <1>1, <1>2, <1>3

LEMMA SetActiveGoes ==
  ASSUME NEW d, Typed(d), NEW w \in Workspace
  PROVE  /\ Goes(d, SetActive(d, w)) /\ Elsewhere(d, SetActive(d, w))
         /\ \A gone \in SUBSET Output :
              d.output[w] \notin gone /\ Acting(d, gone) => Acting(SetActive(d, w), gone)
<1> DEFINE a == MakeActive(d, w)
<1>1. Steady(d, a) /\ Typed(a)
  BY MakeActiveSteady DEF Steady, Goes
<1> HIDE DEF a
<1>2. /\ Goes(a, OutputFocus(a, d.output[w])) /\ Elsewhere(a, OutputFocus(a, d.output[w]))
      /\ \A gone \in SUBSET Output :
           d.output[w] \notin gone /\ Acting(a, gone) => Acting(OutputFocus(a, d.output[w]), gone)
  BY <1>1, OutputFocusGoes
<1>3. SetActive(d, w) = IF d.active = w THEN d ELSE OutputFocus(a, d.output[w])
  BY DEF SetActive, a
<1> QED BY <1>1, <1>2, <1>3, GoesTwice, ElsewhereTwice, SteadySame DEF Steady

(* Grabs.                                                                    *)

LEMMA DueGoes ==
  ASSUME NEW d, Typed(d), NEW e, Kept(d, e, Stayed), e.due \/ e.crashed # "none"
  PROVE  Goes(d, e)
BY StayedGoes

LEMMA PointerGoes ==
  ASSUME NEW d, Typed(d), NEW v \in Toplevel \cup Layer \cup {None}
  PROVE  Goes(d, [d EXCEPT !.pointer = v])
<1> DEFINE e == [d EXCEPT !.pointer = v]
<1>1. But(d, e, {"pointer"}) /\ e.due = d.due
  BY DEF But, Typed, Fields
<1>2. Typed(e)
  BY PointerKept DEF OpKept, Kept
<1> HIDE DEF e
<1>3. Goes(d, e)
  BY <1>1, <1>2, InputGoes DEF Inputs
<1> QED BY <1>3 DEF e

LEMMA CursorFocusGoes ==
  ASSUME NEW d, Typed(d), NEW keyboard, NEW e \in CursorFocus(d, keyboard)
  PROVE  Goes(d, e)
<1> DEFINE Look(v) == IF keyboard THEN ViewFocus(d, v) ELSE d
<1>1. CASE d.grabbed # None
  BY <1>1, GoesSame DEF CursorFocus
<1>2. CASE d.grabbed = None /\ e = [d EXCEPT !.pointer = None]
  BY <1>2, PointerGoes
<1>3. CASE d.grabbed = None /\ e # [d EXCEPT !.pointer = None]
  <2>1. PICK v \in Surfaces(d) :
          e = IF d.operation = "DRAG" THEN Look(v) ELSE [Look(v) EXCEPT !.pointer = v]
    BY <1>3 DEF CursorFocus
  <2>2. v \in Toplevel \cup Layer
    BY SurfacesTyped
  <2>3. Goes(d, Look(v))
    BY <2>2, ViewFocusSteady, GoesSame DEF Steady
  <2> DEFINE a == Look(v)
  <2>4. Goes(d, a) /\ e \in {a, [a EXCEPT !.pointer = v]}
    BY <2>1, <2>3
  <2> HIDE DEF a, Look
  <2>5. Goes(a, [a EXCEPT !.pointer = v])
    BY <2>2, <2>4, PointerGoes DEF Goes
  <2> QED BY <2>4, <2>5, GoesTwice
<1> QED BY <1>1, <1>2, <1>3

LEMMA StartGoes ==
  ASSUME NEW d, Typed(d), NEW t \in Toplevel, NEW server \in BOOLEAN,
         NEW e \in {StartMove(d, t, server), StartResize(d, t, server)}
  PROVE  Goes(d, e)
<1>1. ASSUME NEW operation \in {"MOVE", "RESIZE"} PROVE Goes(d, Grab(d, t, operation, server))
  <2> DEFINE g == Grab(d, t, operation, server)
  <2>1. But(d, g, {"operation", "grabbed", "server_inited", "due"}) /\ g.due
    BY DEF Grab, But, Typed, Fields
  <2>2. Typed(g)
    BY GrabbedKept DEF OpKept, Kept
  <2> HIDE DEF g
  <2>3. Goes(d, g)
    BY <2>1, <2>2, InputGoes DEF Inputs
  <2> QED BY <2>3 DEF g
<1> DEFINE move == Grab(d, t, "MOVE", server)
           resize == Grab(d, t, "RESIZE", server)
<1>2. Goes(d, move) /\ Goes(d, resize)
  BY <1>1
<1>3. e \in {d, Unlink(move, t), Configure(LayoutRemove(move, t), d.home[t]), Unlink(resize, t)}
  BY DEF StartMove, StartResize
<1> HIDE DEF move, resize
<1>4. Goes(d, Unlink(move, t)) /\ Goes(d, Unlink(resize, t))
  BY <1>2, UnlinkGoes, GoesTwice DEF Goes
<1>5. Goes(d, LayoutRemove(move, t))
  BY <1>2, LayoutRemoveGoes, GoesTwice DEF Goes
<1>6. Goes(d, Configure(LayoutRemove(move, t), d.home[t]))
  BY <1>5, ConfigureGoes, GoesTwice DEF Goes
<1> QED BY <1>3, <1>4, <1>6, GoesSame

LEMMA InsertLayoutGoes ==
  ASSUME NEW d, Typed(d), NEW t \in Toplevel, NEW e \in InsertLayout(d, t)
  PROVE  Goes(d, e)
<1> DEFINE o == IF d.cursor = None THEN FirstOrNone(d.outputs) ELSE d.cursor
           w == d.act[o]
           alone == [d EXCEPT !.master[w] = t]
           asMaster == [d EXCEPT !.master[w] = t, !.slaves[w] = Append(@, d.master[w])]
           AsSlave(i) == [d EXCEPT !.slaves[w] = InsertAt(@, i, t)]
<1>1. CASE o \notin d.plugged
  <2>1. e = Fail(d, "no output")
    BY <1>1 DEF InsertLayout
  <2> QED BY <2>1, FailGoes
<1>2. CASE o \in d.plugged
  <2>1. w \in Workspace
    BY <1>2, ActiveTyped
  <2>2. PICK f : /\ e = Configure(f, w)
                 /\ \/ f = alone
                    \/ f = asMaster
                    \/ d.master[w] # None /\ \E i \in 1 .. Len(d.slaves[w]) + 1 : f = AsSlave(i)
    BY <1>2 DEF InsertLayout
  <2> HIDE DEF w, o
  <2>3. f.master[w] # None
    <3>1. f.master = [d.master EXCEPT ![w] = t] \/ (d.master[w] # None /\ f.master = d.master)
      BY <2>2 DEF Typed, Fields
    <3> QED BY <2>1, <3>1, NoneIsNoName DEF Typed, ListTypes
  <2>4. Kept(d, e, Moved)
    BY InsertLayoutKept
  <2>5. f.home = d.home
    BY <2>2 DEF Typed, Fields
  <2>6. DOMAIN f = Fields
    BY <2>2 DEF Typed
  <2>7. e \in {Fail(f, "configured unmapped"), Fail(f, "freed workspace"), [f EXCEPT !.due = TRUE]}
    BY <2>2, <2>3 DEF Configure
  <2>8. e.home = f.home /\ (e.due \/ e.crashed # "none")
    <3>1. ASSUME NEW why, why # "none", e = Fail(f, why) PROVE e.home = f.home /\ e.crashed # "none"
      BY <2>6, <3>1 DEF Fail, Fields
    <3>2. CASE e = [f EXCEPT !.due = TRUE]
      BY <2>6, <3>2 DEF Fields
    <3> QED BY <2>7, <3>1, <3>2
  <2>9. \A u \in Toplevel : e.home[u] = d.home[u]
    BY <2>5, <2>8
  <2> QED BY <2>4, <2>8, <2>9, MovedGoes
<1> QED BY <1>1, <1>2

LEMMA InsertFloatGoes ==
  ASSUME NEW d, Typed(d), NEW t \in Toplevel, NEW o \in d.plugged
  PROVE  Goes(d, InsertFloat(d, t, o))
<1> DEFINE e == InsertFloat(d, t, o)
           w == d.act[o]
           a == [d EXCEPT !.home[t] = w, !.due = @ \/ FALSE]
<1>1. w \in Workspace /\ o \in Output
  BY ActiveTyped
<1>2. CASE ~Acting(d, {})
  <2>1. Kept(d, e, Operated)
    BY InsertFloatKept, KeptWider DEF Operated
  <2> QED BY <1>2, <2>1, LostGoes
<1>3. CASE Acting(d, {})
  <2>1. Exists(d, w)
    BY <1>1, <1>3, NoneIsNoName DEF Acting, Exists
  <2>2. Goes(d, a)
    BY <1>1, <2>1, HomeGoes
  <2>3. a = [d EXCEPT !.home[t] = w]
    BY DEF Typed, WindowTypes, Fields
  <2>4. e = PushFloat(a, w, t)
    BY <2>3 DEF InsertFloat
  <2> HIDE DEF a, e
  <2>5. Goes(a, PushFloat(a, w, t))
    BY <2>2, PushFloatGoes DEF Goes
  <2> QED BY <2>2, <2>4, <2>5, GoesTwice DEF e
<1> QED BY <1>2, <1>3

LEMMA StopSharedGoes ==
  ASSUME NEW d, Typed(d), NEW e \in StopShared(d)
  PROVE  Goes(d, e)
<1> DEFINE a == [d EXCEPT !.due = TRUE, !.operation = "NONE", !.grabbed = None, !.pointer = None]
<1>1. But(d, a, {"operation", "grabbed", "pointer", "due"}) /\ a.due
  BY DEF But, Typed, Fields
<1>2. a.operation = "NONE" /\ a.grabbed = None /\ a.server_inited = d.server_inited /\ a.pointer = None
  BY DEF Typed, Fields
<1>3. e \in CursorFocus(a, FALSE)
  BY DEF StopShared
<1> HIDE DEF a
<1>4. a.server_inited \in BOOLEAN
  BY <1>2 DEF Typed, GrabTypes
<1>5. Typed(a)
  <2>1. But(d, a, {"operation", "grabbed", "server_inited", "pointer", "due"})
    BY <1>1 DEF But
  <2> QED BY <1>1, <1>2, <1>4, <2>1, GrabKept DEF OpKept, Kept
<1>6. Goes(d, a)
  BY <1>1, <1>5, InputGoes DEF Inputs
<1> QED BY <1>3, <1>5, <1>6, CursorFocusGoes, GoesTwice

LEMMA StopWhateverGoes ==
  ASSUME NEW d, Typed(d), NEW e \in StopWhatever(d)
  PROVE  Goes(d, e)
<1> DEFINE t == d.grabbed
<1>1. d.operation \in {"NONE", "MOVE", "RESIZE", "DRAG"}
  BY DEF Typed, GrabTypes
<1>2. CASE d.operation \in {"NONE", "DRAG"}
  BY <1>2, GoesSame DEF StopWhatever
<1>3. CASE d.operation \in {"MOVE", "RESIZE"}
  <2>1. t \in Toplevel
    BY <1>3 DEF Typed, GrabTypes
  <2>2. \/ e = Fail(d, "assertion") \/ e = Fail(d, "freed output")
        \/ \E f : /\ e \in StopShared(f)
                 /\ \/ f \in InsertLayout(d, t)
                    \/ f = Fail(d, "freed output")
                    \/ \E o \in d.plugged : f = InsertFloat(d, t, o)
    BY <1>3 DEF StopWhatever, StopMove, StopResize
  <2> HIDE DEF t
  <2>3. CASE e = Fail(d, "assertion") \/ e = Fail(d, "freed output")
    BY <2>3, FailGoes
  <2>4. ASSUME NEW f, e \in StopShared(f), Goes(d, f) PROVE Goes(d, e)
    BY <2>4, StopSharedGoes, GoesTwice DEF Goes
  <2> QED BY <2>1, <2>2, <2>3, <2>4, InsertLayoutGoes, InsertFloatGoes, FailGoes
<1> QED BY <1>1, <1>2, <1>3

LEMMA TickGoes ==
  ASSUME NEW d, Typed(d)
  PROVE  Goes(d, Tick(d))
<1>1. d.operation \in {"NONE", "MOVE", "RESIZE", "DRAG"}
  BY DEF Typed, GrabTypes
<1>2. Tick(d) \in {d, [d EXCEPT !.due = TRUE], Fail(d, "no icon")}
  BY <1>1 DEF Tick
<1>3. Goes(d, [d EXCEPT !.due = TRUE])
  <2> DEFINE e == [d EXCEPT !.due = TRUE]
  <2>1. Kept(d, e, {"due", "crashed"}) /\ e.due
    BY DueKept DEF Typed, Fields
  <2> HIDE DEF e
  <2>2. Goes(d, e)
    BY <2>1, QuietGoes
  <2> QED BY <2>2 DEF e
<1> QED BY <1>2, <1>3, GoesSame, FailGoes

LEMMA ToggleFloatGoes ==
  ASSUME NEW d, Typed(d)
  PROVE  Goes(d, ToggleFloat(d))
<1> DEFINE t == d.focused
           g == Deref(d, t)
<1>1. CASE t = None
  BY <1>1, GoesSame DEF ToggleFloat
<1>2. CASE t # None
  <2>1. t \in Toplevel /\ Goes(d, g)
    BY <1>2, DerefSteady DEF Typed, FocusTypes, Steady
  <2>2. ToggleFloat(d) \in {[g EXCEPT !.state[t] = Flipped(g.state[t])], SetState(g, t, Flipped(d.state[t]))}
    BY <1>2 DEF ToggleFloat
  <2>3. Flipped(g.state[t]) \in State /\ Flipped(d.state[t]) \in State
    BY <2>1 DEF Flipped, Goes, Typed, WindowTypes, State
  <2> HIDE DEF g, t
  <2>4. Goes(g, [g EXCEPT !.state[t] = Flipped(g.state[t])])
    BY <2>1, <2>3, StateGoes DEF Goes
  <2>5. Goes(g, SetState(g, t, Flipped(d.state[t])))
    BY <2>1, <2>3, SetStateGoes DEF Goes
  <2> QED BY <2>1, <2>2, <2>4, <2>5, GoesTwice
<1> QED BY <1>1, <1>2

-----------------------------------------------------------------------------
(* The steps that leave the workspaces alone.                                *)

(* Aside of windows, workspaces and what is active.                          *)
LEMMA AsideGoes ==
  ASSUME NEW d, Typed(d), NEW e, NEW F, But(d, e, F), Typed(e), e.due \/ e.due = d.due,
         F \cap {"output", "spaces", "dummy", "presented", "outputs", "plugged", "act", "active",
                 "life", "home", "master", "slaves", "shown", "crashed"} = {}
  PROVE  Goes(d, e)
<1>1. /\ SameBooks(d, e) /\ e.life = d.life /\ e.home = d.home /\ e.shown = d.shown
      /\ e.master = d.master /\ e.slaves = d.slaves /\ e.active = d.active /\ e.act = d.act
      /\ e.crashed = d.crashed
  BY DEF But, Fields, Typed, SameBooks
<1>2. Acting(d, {}) => Acting(e, {})
  BY <1>1 DEF Acting, Exists, SameBooks
<1>3. Housed(d) => Housed(e)
  BY <1>1 DEF Housed, Exists, SameBooks
<1>4. Shows(d, e)
  BY <1>1 DEF Shows, Tiles, Typed, WindowTypes
<1> QED BY <1>1, <1>2, <1>3, <1>4 DEF Goes, Later, Elsewhere

LEMMA LeaveFullscreenGoes ==
  ASSUME NEW d, Typed(d), NEW t \in Toplevel
  PROVE  Goes(d, LeaveFullscreen(d, t))
<1> DEFINE a == [d EXCEPT !.fullscreen[d.home[t]] = None]
           b == [a EXCEPT !.focused = None]
<1>1. Goes(d, a) /\ Typed(a)
  BY FullscreenGoes DEF Goes
<1>2. LeaveFullscreen(d, t) = IF t = d.focused THEN OutputFocus(b, d.output[d.home[t]]) ELSE a
  BY DEF LeaveFullscreen
<1> HIDE DEF a
<1>3. But(a, b, Refocused) /\ Later(a, b)
  BY <1>1 DEF But, Later, Typed, Fields, Refocused
<1>4. /\ b.active = a.active /\ b.act = a.act /\ b.due = a.due /\ b.focused = None
      /\ b.layer = a.layer /\ b.exclusive = a.exclusive
  BY <1>1 DEF Typed, Fields
<1> HIDE DEF b
<1>5. /\ b.active \in Workspace /\ b.act \in [Output -> Workspace \cup {None}]
      /\ \A o \in a.plugged : b.act[o] # None
      /\ b.layer \in Layer \cup {None} /\ b.exclusive \in BOOLEAN /\ b.due \in BOOLEAN
  BY <1>1, <1>4 DEF Typed, SpaceTypes, FocusTypes, WindowTypes
<1>6. Typed(b)
  BY <1>1, <1>3, <1>4, <1>5, RefocusTyped
<1>7. Goes(a, b)
  BY <1>1, <1>3, <1>4, <1>6, SteadyIf DEF Steady, Kept
<1>8. Goes(b, OutputFocus(b, d.output[d.home[t]]))
  BY <1>6, OutputFocusGoes
<1> QED BY <1>1, <1>2, <1>7, <1>8, GoesTwice

LEMMA LeftGoes ==
  ASSUME NEW d, Typed(d), NEW t \in Toplevel, NEW e \in Left(d, t)
  PROVE  Goes(d, e)
<1>1. CASE t = d.grabbed
  <2>1. PICK f \in StopWhatever(d) : e = OutputFocus(f, f.output[f.active])
    BY <1>1 DEF Left
  <2>2. Goes(d, f)
    BY StopWhateverGoes
  <2>3. Goes(f, e)
    BY <2>1, <2>2, OutputFocusGoes DEF Goes
  <2> QED BY <2>2, <2>3, GoesTwice
<1>2. CASE t # d.grabbed /\ e \in {Fail(d, "freed workspace"), Fail(d, "wrong list")}
  BY <1>2, FailGoes
<1>3. CASE t # d.grabbed /\ Exists(d, d.home[t]) /\ e \in {LeaveTiled(d, t), LeaveFloat(d, t)}
  <2> DEFINE f == HandOn(d, t)
  <2>1. d.home[t] \in Workspace
    BY <1>3 DEF Exists, Typed, WindowTypes
  <2>2. Goes(d, f) /\ Typed(f)
    BY <2>1, NextToFocusTyped, ToplevelFocusSteady, GoesSame DEF HandOn, Steady, Goes
  <2>3. e \in {Configure(LayoutRemove(f, t), d.home[t]), Unlink(f, t)}
    BY <1>3 DEF LeaveTiled, LeaveFloat
  <2> HIDE DEF f
  <2>4. Goes(f, LayoutRemove(f, t)) /\ Goes(f, Unlink(f, t))
    BY <2>2, LayoutRemoveGoes, UnlinkGoes
  <2>5. Goes(LayoutRemove(f, t), Configure(LayoutRemove(f, t), d.home[t]))
    BY <2>4, ConfigureGoes DEF Goes
  <2> QED BY <2>2, <2>3, <2>4, <2>5, GoesTwice
<1>4. CASE t # d.grabbed /\ Exists(d, d.home[t]) /\ e = LeaveFullscreen(d, t)
  BY <1>4, LeaveFullscreenGoes
<1>5. d.state[t] \in State
  BY DEF Typed, WindowTypes
<1> QED BY <1>1, <1>2, <1>3, <1>4, <1>5 DEF Left, State

(* A window unmaps.                                                          *)
LEMMA GoneGoes ==
  ASSUME NEW d, Typed(d), NEW t \in Toplevel
  PROVE  Goes(d, [AddGhost(d, t) EXCEPT !.life[t] = "unmapped"])
<1> DEFINE a == AddGhost(d, t)
           e == [a EXCEPT !.life[t] = "unmapped"]
<1>1. a = Fail(d, "linked twice") \/ a = [d EXCEPT !.ghosts = @ \cup {t}, !.fresh = @ \ {t}, !.due = TRUE]
  BY DEF AddGhost
<1>2. But(d, a, {"ghosts", "fresh", "due", "crashed"}) /\ Later(d, a) /\ (a.due \/ a.crashed # "none")
  <2>1. CASE a = Fail(d, "linked twice")
    <3>1. Kept(d, a, {"crashed"}) /\ a.crashed # "none"
      BY <2>1, Fails
    <3> QED BY <3>1 DEF Kept, But
  <2>2. CASE a = [d EXCEPT !.ghosts = @ \cup {t}, !.fresh = @ \ {t}, !.due = TRUE]
    BY <2>2 DEF But, Later, Typed, Fields
  <2> QED BY <1>1, <2>1, <2>2
<1>3. a.ghosts \subseteq Toplevel /\ a.fresh \subseteq Toplevel /\ a.due \in BOOLEAN
  <2>1. CASE a = Fail(d, "linked twice")
    BY <2>1, Fails DEF Kept, Typed, WindowTypes
  <2>2. CASE a = [d EXCEPT !.ghosts = @ \cup {t}, !.fresh = @ \ {t}, !.due = TRUE]
    BY <2>2 DEF Typed, Fields, WindowTypes
  <2> QED BY <1>1, <2>1, <2>2
<1> HIDE DEF a
<1>4. But(d, e, {"ghosts", "fresh", "due", "crashed", "life"}) /\ Later(d, e) /\ (e.due \/ e.crashed # "none")
  BY <1>2 DEF But, Later, Fields, Typed
<1>5. /\ e.life = [d.life EXCEPT ![t] = "unmapped"]
      /\ e.ghosts = a.ghosts /\ e.fresh = a.fresh /\ e.due = a.due
  BY <1>2 DEF But, Fields, Typed
<1> HIDE DEF e
<1>6. /\ SameBooks(d, e) /\ e.active = d.active /\ e.act = d.act /\ e.home = d.home
      /\ e.master = d.master /\ e.slaves = d.slaves /\ e.pointer = d.pointer
      /\ e.state = d.state /\ e.prev_state = d.prev_state /\ e.windows = d.windows
      /\ e.shown = d.shown /\ e.floats = d.floats /\ e.fullscreen = d.fullscreen
  BY <1>4 DEF But, Fields, Typed, SameBooks
<1>7. Typed(e)
  <2>1. But(d, e, Moved \cup {"life", "shown", "fresh", "pointer"})
    BY <1>4 DEF But, Moved, Listed
  <2>2. WindowTypes(e)
    BY <1>3, <1>5, <1>6 DEF Typed, WindowTypes, Life
  <2>3. ListTypes(e) /\ e.pointer \in Toplevel \cup Layer \cup {None}
    BY <1>6 DEF Typed, ListTypes, GrabTypes
  <2> QED BY <1>4, <2>1, <2>2, <2>3, WindowStepped DEF Stepped
<1>8. Acting(d, {}) => Acting(e, {})
  BY <1>6 DEF Acting, Exists, SameBooks
<1>9. Housed(d) => Housed(e)
  BY <1>5, <1>6 DEF Housed, Exists, SameBooks, Typed, WindowTypes
<1>10. Shows(d, e)
  BY <1>4 DEF Shows
<1> QED BY <1>4, <1>6, <1>7, <1>8, <1>9, <1>10 DEF Goes, Elsewhere, e, a

LEMMA UnmapGoes ==
  ASSUME Typed(desk), NEW t \in Toplevel, Unmap(t)
  PROVE  Goes(desk, desk')
<1>1. PICK d \in Left(desk, t) : desk' = [AddGhost(d, t) EXCEPT !.life[t] = "unmapped"]
  BY DEF Unmap, Unmapped
<1>2. Goes(desk, d)
  BY LeftGoes
<1> QED BY <1>1, <1>2, GoneGoes, GoesTwice DEF Goes

LEMMA WindowGoes ==
  ASSUME Typed(desk), NEW t \in Toplevel,
         \/ Unmap(t) \/ RequestGrab(t)
         \/ \E full \in BOOLEAN : RequestFullscreen(t, full)
  PROVE  Goes(desk, desk')
<1>1. ASSUME NEW full \in BOOLEAN, RequestFullscreen(t, full) PROVE Goes(desk, desk')
  <2> DEFINE st == IF full THEN "FULLSCREEN" ELSE desk.prev_state[t]
  <2>1. st \in State /\ desk' = SetState(desk, t, st)
    BY <1>1 DEF RequestFullscreen, Typed, WindowTypes, State
  <2> HIDE DEF st
  <2> QED BY <2>1, SetStateGoes
<1>2. RequestGrab(t) => Goes(desk, desk')
  BY StartGoes DEF RequestGrab
<1> QED BY <1>1, <1>2, UnmapGoes

LEMMA ToggleGoes ==
  ASSUME Typed(desk), UserTogglesFloat \/ UserTogglesFullscreen
  PROVE  Goes(desk, desk')
<1>1. CASE UserTogglesFloat
  BY <1>1, ToggleFloatGoes DEF UserTogglesFloat
<1>2. CASE UserTogglesFullscreen
  <2> DEFINE t == desk.focused
             g == Deref(desk, t)
             st == IF desk.state[t] # "FULLSCREEN" THEN "FULLSCREEN" ELSE desk.prev_state[t]
  <2>1. t \in Toplevel /\ desk' = SetState(g, t, st)
    BY <1>2 DEF UserTogglesFullscreen, Typed, FocusTypes
  <2>2. st \in State
    BY <2>1 DEF Typed, WindowTypes, State
  <2>3. Goes(desk, g) /\ Typed(g)
    BY DerefSteady DEF Steady, Goes
  <2> HIDE DEF t, st, g
  <2> QED BY <2>1, <2>2, <2>3, SetStateGoes, GoesTwice
<1> QED BY <1>1, <1>2

LEMMA SoundGoes ==
  ASSUME NEW d, Typed(d), NEW t \in Toplevel \cup {None}, NEW direction
  PROVE  Goes(d, Sound(d, t, direction))
BY FailGoes, GoesSame, DerefSteady DEF Sound, Steady

LEMMA FocusDirectionGoes ==
  ASSUME Typed(desk), NEW direction \in Direction, NEW o, FocusInDirection(direction, o)
  PROVE  Goes(desk, desk')
<1> DEFINE t == desk.focused
           d == Sound(desk, t, direction)
           next == InLayout(t, direction)
<1>1. t \in Toplevel \cup {None}
  BY DEF Typed, FocusTypes
<1>2. Goes(desk, d) /\ Typed(d) /\ (d.crashed = "none" /\ t # None => desk.home[t] \in Workspace)
  BY <1>1, SoundKept, SoundGoes DEF Goes
<1>3. d.crashed = "none" => next \in Toplevel \cup {None}
  BY <1>1, <1>2, NeighbourTyped
<1>4. desk' = IF d.crashed # "none" THEN d
              ELSE IF next # None THEN ToplevelFocus(d, next)
              ELSE IF o # None THEN OutputFocus(d, o) ELSE d
  BY DEF FocusInDirection
<1> HIDE DEF d, next, t
<1>5. d.crashed = "none" => Goes(d, ToplevelFocus(d, next))
  BY <1>2, <1>3, ToplevelFocusSteady DEF Steady
<1>6. Goes(d, OutputFocus(d, o))
  BY <1>2, OutputFocusGoes
<1> QED BY <1>2, <1>4, <1>5, <1>6, GoesTwice

LEMMA NeighbourTiled ==
  ASSUME NEW t \in Toplevel, NEW direction \in Direction, Typed(desk), desk.home[t] \in Workspace,
         InLayout(t, direction) # None, direction \in {"UP", "DOWN"} => ~Misplaced(desk, t)
  PROVE  \/ desk.master[desk.home[t]] # None
         \/ {t, InLayout(t, direction)} \subseteq ToSet(desk.slaves[desk.home[t]])
<1> DEFINE w == desk.home[t]
           s == desk.slaves[w]
           i == IndexOf(s, t)
<1>1. t # None /\ InLayout(t, direction) = InDirection(desk, t, direction) /\ InDirection(desk, t, direction) # None
  BY DEF InLayout
<1>2. CASE t = desk.master[w]
  BY <1>1, <1>2
<1>3. CASE t # desk.master[w] /\ desk.master[w] = None
  <2>1. s \in Seq(Toplevel)
    BY DEF Typed, ListTypes
  <2>2. \/ direction = "UP" /\ i > 1 /\ InDirection(desk, t, direction) = s[i - 1]
        \/ direction = "DOWN" /\ i < Len(s) /\ InDirection(desk, t, direction) = s[i + 1]
    BY <1>1, <1>3 DEF InDirection, Direction
  <2>3. t \in ToSet(s)
    BY <1>1, <1>3, <2>2 DEF Misplaced, InLayout, Contains, ToSet
  <2>4. i \in 1 .. Len(s)
    BY <2>1, <2>3, IndexIs
  <2>5. InDirection(desk, t, direction) \in ToSet(s)
    <3> HIDE DEF s, i
    <3> QED BY <2>1, <2>2, <2>4 DEF ToSet
  <2> QED BY <1>1, <2>3, <2>5
<1> QED BY <1>2, <1>3

LEMMA MoveDirectionGoes ==
  ASSUME Typed(desk), NEW direction \in Direction, NEW o, MoveInDirection(direction, o)
  PROVE  Goes(desk, desk')
<1> DEFINE t == desk.focused
           d == Sound(desk, t, direction)
           next == InLayout(t, direction)
<1>1. t \in Toplevel /\ t # None
  BY NoneIsNoName DEF Typed, FocusTypes, MoveInDirection
<1>2. /\ Goes(desk, d) /\ Typed(d) /\ Kept(desk, d, {"crashed"})
      /\ d.crashed = "none" => desk.home[t] \in Workspace
  BY <1>1, SoundKept, SoundGoes DEF Goes
<1>3. d.crashed = "none" => next \in Toplevel \cup {None}
  BY <1>1, <1>2, NeighbourTyped
<1>4. desk' = IF d.crashed # "none" THEN d
              ELSE IF next # None THEN Configure(SwapLayout(d, t, next), d.home[t])
              ELSE IF o # None THEN MoveToWorkspace(d, t, d.act[o]) ELSE d
  BY DEF MoveInDirection
<1>5. d.crashed = "none" /\ o # None => o \in desk.plugged
  BY DEF MoveInDirection, Across
<1>6. d.crashed = "none" /\ direction \in {"UP", "DOWN"} => ~Misplaced(desk, t)
  BY <1>1, Fails DEF Sound
<1>7. d.plugged = desk.plugged /\ d.home = desk.home /\ d.master = desk.master /\ d.slaves = desk.slaves
  BY <1>2 DEF Kept, But, Fields, Typed
<1>8. ASSUME d.crashed = "none", next # None PROVE Goes(d, Configure(SwapLayout(d, t, next), d.home[t]))
  <2>1. next \in Toplevel /\ d.home[t] \in Workspace
    BY <1>2, <1>3, <1>7, <1>8
  <2>2. d.master[d.home[t]] # None \/ {t, next} \subseteq ToSet(d.slaves[d.home[t]])
    BY <1>1, <1>6, <1>7, <1>8, <2>1, NeighbourTiled
  <2> HIDE DEF d, next, t
  <2> QED BY <1>1, <1>2, <2>1, <2>2, SwapGoes
<1> HIDE DEF d, next, t
<1>9. ASSUME d.crashed = "none", o # None PROVE Goes(d, MoveToWorkspace(d, t, d.act[o]))
  <2>1. o \in d.plugged /\ d.act[o] \in Workspace
    BY <1>2, <1>5, <1>7, <1>9, ActiveTyped
  <2>2. CASE Acting(d, {})
    <3>1. d.output[d.act[o]] = o /\ o \in Output
      BY <1>2, <2>1, <2>2, ActiveTyped DEF Acting
    <3>2. Exists(d, d.act[o])
      BY <2>1, <3>1, NoneIsNoName DEF Exists
    <3> QED BY <1>1, <1>2, <2>1, <3>2, MoveToWorkspaceGoes
  <2>3. CASE ~Acting(d, {})
    <3>1. Kept(d, MoveToWorkspace(d, t, d.act[o]), Moved)
      BY <1>1, <1>2, <2>1, MoveToWorkspaceKept
    <3>2. Kept(d, MoveToWorkspace(d, t, d.act[o]), Operated)
      BY <3>1, KeptWider DEF Operated
    <3> QED BY <1>2, <2>3, <3>2, LostGoes
  <2> QED BY <2>2, <2>3
<1> QED BY <1>2, <1>4, <1>8, <1>9, GoesTwice

LEMMA FoundGoes ==
  ASSUME NEW d, Typed(d), NEW w
  PROVE  Goes(d, Found(d, w))
BY FailGoes, GoesSame DEF Found

LEMMA StopFoundGoes ==
  ASSUME NEW w, Typed(desk), NEW d \in StopWhatever(Found(desk, w))
  PROVE  Goes(desk, d)
BY FoundGoes, StopWhateverGoes, GoesTwice DEF Goes

LEMMA ChangeGoes ==
  ASSUME Typed(desk), NEW w \in Workspace,
         ChangeWorkspace(w) \/ MoveFocusedToWorkspace(w) \/ RemoteActivate(w)
  PROVE  Goes(desk, desk')
<1>1. CASE ChangeWorkspace(w)
  <2>1. PICK d \in StopWhatever(Found(desk, w)) : desk' = SetActive(d, w)
    BY <1>1 DEF ChangeWorkspace
  <2>2. Goes(desk, d)
    BY StopFoundGoes
  <2> QED BY <2>1, <2>2, SetActiveGoes, GoesTwice DEF Goes
<1>2. CASE MoveFocusedToWorkspace(w)
  <2> DEFINE t == desk.focused
             g == Deref(desk, t)
             f == Found(g, w)
             d == MoveToWorkspace(f, t, w)
  <2>1. t \in Toplevel /\ desk' \in {SetActiveKeepingFocus(d, w), SetActive(d, w)} /\ Exists(desk, w)
    BY <1>2 DEF MoveFocusedToWorkspace, Typed, FocusTypes
  <2>2. Goes(desk, g) /\ Typed(g)
    BY DerefSteady DEF Steady, Goes
  <2> HIDE DEF g, t
  <2>3. Goes(g, f) /\ Typed(f)
    BY <2>2, FoundGoes DEF Goes
  <2> HIDE DEF f
  <2>4. Exists(f, w)
    BY <2>1, <2>2, <2>3 DEF Goes, SameBooks, Exists
  <2>5. Goes(f, d) /\ Typed(d)
    BY <2>1, <2>3, <2>4, MoveToWorkspaceGoes DEF Goes
  <2> HIDE DEF d
  <2>6. Goes(d, desk')
    BY <2>1, <2>5, SetActiveGoes, SetActiveKeepingFocusSteady DEF Steady
  <2> QED BY <2>2, <2>3, <2>5, <2>6, GoesTwice
<1>3. CASE RemoteActivate(w)
  BY <1>3, SetActiveGoes DEF RemoteActivate
<1> QED BY <1>1, <1>2, <1>3

(* The keyboard and the pointer.                                             *)

LEMMA StartGrabGoes ==
  ASSUME NEW d, Typed(d), NEW e \in StartGrab(d)
  PROVE  Goes(d, e)
BY StartGoes, GoesSame DEF StartGrab

LEMMA HeldGoes ==
  ASSUME NEW d, Typed(d), NEW S \in SUBSET (Key \cup {"button"})
  PROVE  Goes(d, Holds(d, S)) /\ Holds(d, S).operation = d.operation
<1> DEFINE e == Holds(d, S)
<1>1. But(d, e, Inputs) /\ Typed(e) /\ e.operation = d.operation
  BY HeldKept
<1>2. e.due = d.due
  BY DEF Holds, Typed, Fields
<1> HIDE DEF e
<1>3. Goes(d, e)
  BY <1>1, <1>2, InputGoes
<1> QED BY <1>1, <1>3 DEF e

LEMMA KeyGoes ==
  ASSUME Typed(desk), NEW k \in Key, KeyPress(k) \/ KeyRelease(k) \/ CommandGrab
  PROVE  Goes(desk, desk')
<1>1. CASE CommandGrab
  BY <1>1, StartGrabGoes DEF CommandGrab
<1>2. ASSUME NEW f, Typed(f), NEW j \in Key \cup {None}, NEW S \in SUBSET (Key \cup {"button"})
      PROVE  Goes(f, [f EXCEPT !.key = j, !.held = S])
  <2> DEFINE e == [f EXCEPT !.key = j, !.held = S]
  <2>1. But(f, e, Inputs)
    BY <1>2 DEF But, Typed, Fields, Inputs
  <2>2. /\ e.operation = f.operation /\ e.grabbed = f.grabbed /\ e.server_inited = f.server_inited
        /\ e.icon = f.icon /\ e.key = j /\ e.held = S /\ e.cursor = f.cursor
        /\ e.pointer = f.pointer /\ e.due = f.due
    BY <1>2 DEF Typed, Fields
  <2> HIDE DEF e
  <2>3. GrabTypes(e) /\ e.due \in BOOLEAN
    BY <1>2, <2>2 DEF Typed, GrabTypes, WindowTypes
  <2>4. Typed(e)
    BY <1>2, <2>1, <2>3, InputTyped
  <2>5. Goes(f, e)
    BY <1>2, <2>1, <2>2, <2>4, InputGoes
  <2> QED BY <2>5 DEF e
<1>3. CASE KeyPress(k)
  <2>1. PICK d \in StartGrab(desk) : desk' = [d EXCEPT !.key = k, !.held = @ \cup {k}]
    BY <1>3 DEF KeyPress
  <2>2. Goes(desk, d) /\ Typed(d)
    BY StartGrabGoes DEF Goes
  <2>3. d.held \cup {k} \in SUBSET (Key \cup {"button"})
    BY <2>2 DEF Typed, GrabTypes
  <2> QED BY <1>2, <2>1, <2>2, <2>3, GoesTwice
<1>4. CASE KeyRelease(k)
  <2> DEFINE S == desk.held \ {k}
             d == Holds(desk, S)
  <2>1. S \in SUBSET (Key \cup {"button"})
    BY DEF Typed, GrabTypes
  <2>2. desk' \in {[e EXCEPT !.key = None] : e \in StopWhatever(d)} \cup {d}
    BY <1>4 DEF KeyRelease, Holds
  <2> HIDE DEF S
  <2>3. Goes(desk, d) /\ Typed(d)
    BY <2>1, HeldGoes DEF Goes
  <2> HIDE DEF d
  <2>4. ASSUME NEW f \in StopWhatever(d) PROVE Goes(d, [f EXCEPT !.key = None])
    <3>1. Goes(d, f) /\ Typed(f)
      BY <2>3, StopWhateverGoes DEF Goes
    <3>2. f.held \in SUBSET (Key \cup {"button"})
      BY <3>1 DEF Typed, GrabTypes
    <3>3. [f EXCEPT !.key = None] = [f EXCEPT !.key = None, !.held = f.held]
      BY <3>1 DEF Typed, Fields
    <3> QED BY <1>2, <3>1, <3>2, <3>3, GoesTwice
  <2> QED BY <2>2, <2>3, <2>4, GoesTwice
<1> QED BY <1>1, <1>3, <1>4

LEMMA RaisedGoes ==
  ASSUME NEW d, Typed(d)
  PROVE  Goes(d, Raised(d))
BY RaiseGoes, GoesSame DEF Raised

LEMMA ButtonGoes ==
  ASSUME Typed(desk), Press \/ Release
  PROVE  Goes(desk, desk')
<1> DEFINE r == Raised(desk)
           down == r.held \cup {"button"}
           up == r.held \ {"button"}
           d == Holds(r, up)
           f == [d EXCEPT !.operation = "NONE"]
<1>1. desk' = Holds(r, down) \/ desk' = d \/ desk' \in StopWhatever(d)
        \/ (desk.operation = "DRAG" /\ desk' \in CursorFocus(f, TRUE))
  BY DEF Press, Release, Holds
<1>2. Kept(desk, r, Moved) /\ Goes(desk, r) /\ Typed(r)
  BY RaisedKept, RaisedGoes DEF Kept
<1> HIDE DEF r
<1>3. down \in SUBSET (Key \cup {"button"}) /\ up \in SUBSET (Key \cup {"button"})
  BY <1>2 DEF Typed, GrabTypes
<1> HIDE DEF down, up
<1>4. Goes(desk, Holds(r, down)) /\ Goes(desk, d) /\ Typed(d) /\ d.operation = desk.operation
  <2>1. r.operation = desk.operation
    BY <1>2, MovedSameGrab DEF SameGrab
  <2> QED BY <1>2, <1>3, <2>1, HeldGoes, GoesTwice DEF Goes
<1> HIDE DEF d
<1>5. desk' \in StopWhatever(d) => Goes(desk, desk')
  BY <1>4, StopWhateverGoes, GoesTwice
<1>6. ASSUME desk.operation = "DRAG", desk' \in CursorFocus(f, TRUE) PROVE Goes(desk, desk')
  <2>1. But(d, f, {"operation", "grabbed", "server_inited", "pointer", "due"})
    BY <1>4 DEF But, Typed, Fields
  <2>2. /\ f.operation = "NONE" /\ f.grabbed = d.grabbed /\ f.server_inited = d.server_inited
        /\ f.pointer = d.pointer /\ f.due = d.due
    BY <1>4 DEF Typed, Fields
  <2> HIDE DEF f
  <2>3. /\ f.operation \in {"NONE", "MOVE", "RESIZE", "DRAG"} /\ f.grabbed \in Toplevel \cup {None}
        /\ f.grabbed # None <=> f.operation \in {"MOVE", "RESIZE"}
        /\ f.server_inited \in BOOLEAN /\ f.pointer \in Toplevel \cup Layer \cup {None}
        /\ f.due \in BOOLEAN
    BY <1>4, <1>6, <2>2 DEF Typed, GrabTypes, WindowTypes
  <2>4. Typed(f)
    BY <1>4, <2>1, <2>3, GrabKept DEF OpKept, Kept
  <2>5. Goes(d, f)
    BY <1>4, <2>1, <2>2, <2>4, InputGoes DEF Inputs
  <2>6. Goes(f, desk')
    BY <1>6, <2>4, CursorFocusGoes
  <2> QED BY <1>4, <2>5, <2>6, GoesTwice
<1> QED BY <1>1, <1>4, <1>5, <1>6

LEMMA DragGoes ==
  ASSUME Typed(desk), NEW icon \in BOOLEAN, Drag(icon)
  PROVE  Goes(desk, desk')
<1> DEFINE e == [desk EXCEPT !.operation = "DRAG", !.icon = icon, !.pointer = None]
<1>1. desk' = e
  BY DEF Drag, StartDrag
<1>2. But(desk, e, Inputs) /\ e.due = desk.due
  BY DEF But, Typed, Fields, Inputs
<1>3. Typed(desk')
  BY DragStep DEF Stepped
<1> HIDE DEF e
<1> QED BY <1>1, <1>2, <1>3, InputGoes

LEMMA MotionGoes ==
  ASSUME Typed(desk), NEW o \in Output, Motion(o)
  PROVE  Goes(desk, desk')
<1> DEFINE a == [desk EXCEPT !.cursor = o]
           b == [a EXCEPT !.active = a.act[o]]
           d == [desk EXCEPT !.cursor = o, !.active = desk.act[o]]
<1>1. d = b
  BY DEF Typed, Fields
<1>2. PICK e : desk' = Tick(e) /\ (e = d \/ e \in CursorFocus(d, TRUE))
  BY DEF Motion
<1>3. But(desk, a, Inputs)
  BY DEF But, Typed, Fields, Inputs
<1>4. /\ a.operation = desk.operation /\ a.grabbed = desk.grabbed
      /\ a.server_inited = desk.server_inited /\ a.icon = desk.icon /\ a.key = desk.key
      /\ a.held = desk.held /\ a.cursor = o /\ a.pointer = desk.pointer /\ a.due = desk.due
      /\ a.plugged = desk.plugged
  BY DEF Typed, Fields
<1> HIDE DEF a, d
<1>5. GrabTypes(a) /\ a.due \in BOOLEAN
  BY <1>4 DEF Typed, GrabTypes, WindowTypes
<1>6. Typed(a)
  BY <1>3, <1>5, InputTyped
<1>7. Goes(desk, a)
  BY <1>3, <1>4, <1>6, InputGoes
<1>8. o \in a.plugged
  BY <1>4 DEF Motion
<1>9. Goes(a, b) /\ Typed(b)
  BY <1>6, <1>8, ActiveGoes DEF Goes
<1> HIDE DEF b
<1>10. Goes(b, e) /\ Typed(e)
  BY <1>1, <1>2, <1>9, CursorFocusGoes, GoesSame DEF Goes
<1>11. Goes(e, desk')
  BY <1>2, <1>10, TickGoes
<1> QED BY <1>7, <1>9, <1>10, <1>11, GoesTwice

(* Panels.                                                                   *)

LEMMA ArrangeAllGoes ==
  ASSUME NEW d, Typed(d), NEW os
  PROVE  Goes(d, ArrangeAll(d, os))
<1> DEFINE ws == UNION {ToSet(d.spaces[o]) : o \in os}
           broken == {w \in ws : Configure(d, w).crashed # d.crashed}
           due == d.due \/ \E w \in ws : d.master[w] # None
           e == [d EXCEPT !.due = due]
<1>1. CASE broken # {}
  <2>1. ArrangeAll(d, os) = Configure(d, CHOOSE w \in broken : TRUE)
    BY <1>1 DEF ArrangeAll
  <2> QED BY <2>1, ConfigureGoes
<1>2. CASE broken = {}
  <2>1. ArrangeAll(d, os) = e
    BY <1>2 DEF ArrangeAll
  <2>2. due \in BOOLEAN /\ (d.due => due)
    BY DEF Typed, WindowTypes
  <2> HIDE DEF due
  <2>3. But(d, e, {"due"}) /\ e.due = due
    BY DEF But, Typed, Fields
  <2>4. Typed(e)
    BY <2>1, ArrangeAllKept DEF Kept
  <2>5. e.due \/ e.due = d.due
    BY <2>2, <2>3 DEF Typed, WindowTypes
  <2> HIDE DEF e
  <2> QED BY <2>1, <2>3, <2>4, <2>5, AsideGoes
<1> QED BY <1>1, <1>2

LEMMA ArrangeGoes ==
  ASSUME NEW d, Typed(d), NEW o
  PROVE  Goes(d, Arrange(d, o))
BY ArrangeAllGoes, FailGoes DEF Arrange

LEMMA PanelGoes ==
  ASSUME NEW d, Typed(d), NEW e, Typed(e), e.due = d.due,
         But(d, e, {"panel", "on", "want", "panels", "exclusive", "pointer"})
  PROVE  Goes(d, e)
BY AsideGoes

LEMMA SurroundingsGo ==
  ASSUME Typed(desk), NEW l \in Layer,
         \/ Rearrange \/ LayerUnmap(l) \/ LayerDestroy(l)
         \/ \E o \in Output : LayerCreate(l, o)
         \/ \E want \in {"none", "on_demand", "exclusive"} : LayerMap(l, want) \/ LayerCommit(l, want)
  PROVE  Goes(desk, desk')
<1> DEFINE o == desk.on[l]
<1>1. CASE Rearrange
  BY <1>1, ArrangeAllGoes, FailGoes DEF Rearrange
<1>2. CASE LayerUnmap(l)
  <2> DEFINE d == [desk EXCEPT !.panel[l] = "created", !.panels[o] = RemoveFirst(@, l)]
             e == PanelGone(l)
             f == LayerGone(d, l)
  <2>1. desk' = Arrange(f, o) /\ "layer" \in desk.kinds
    BY <1>2 DEF LayerUnmap, Happens
  <2>2. f \in {e, OutputFocus(e, d.on[l])}
    BY DEF LayerGone, PanelGone
  <2>3. Typed(e)
    BY <2>1, LayerUnlisted
  <2>4. But(desk, e, {"panel", "on", "want", "panels", "exclusive", "pointer"}) /\ e.due = desk.due
    BY DEF PanelGone, But, Fields, Typed
  <2> HIDE DEF e, f, d, o
  <2>5. Goes(desk, e)
    BY <2>3, <2>4, PanelGoes
  <2>6. Goes(e, f)
    BY <2>2, <2>3, OutputFocusGoes, GoesSame
  <2>7. Goes(f, Arrange(f, o))
    BY <2>6, ArrangeGoes DEF Goes
  <2> QED BY <2>1, <2>5, <2>6, <2>7, GoesTwice
<1>3. CASE LayerDestroy(l)
  <2>1. Typed(desk')
    BY <1>3, LayerDestroyStep DEF Stepped
  <2>2. But(desk, desk', {"panel", "on", "want", "panels", "exclusive", "pointer"}) /\ desk'.due = desk.due
    BY <1>3 DEF LayerDestroy, But, Fields, Typed
  <2> QED BY <2>1, <2>2, PanelGoes
<1>4. ASSUME NEW p \in Output, LayerCreate(l, p) PROVE Goes(desk, desk')
  <2>1. Typed(desk')
    BY <1>4, LayerCreateStep DEF Stepped
  <2>2. But(desk, desk', {"panel", "on", "want", "panels", "exclusive", "pointer"}) /\ desk'.due = desk.due
    BY <1>4 DEF LayerCreate, But, Fields, Typed
  <2> QED BY <2>1, <2>2, PanelGoes
<1>5. ASSUME NEW want \in {"none", "on_demand", "exclusive"}, LayerMap(l, want) PROVE Goes(desk, desk')
  <2>1. CASE o \notin desk.plugged
    BY <1>5, <2>1, FailGoes DEF LayerMap
  <2>2. CASE o \in desk.plugged
    <3>1. PICK s \in Stacked(desk.panels[o], l) :
            desk' = LayerFocus(Arrange([desk EXCEPT !.panel[l] = "mapped", !.want[l] = want, !.panels[o] = s], o), l)
      BY <1>5, <2>2 DEF LayerMap
    <3> DEFINE e == PanelMapped(l, want, s)
               f == Arrange(e, o)
    <3>2. desk.panel[l] = "created" /\ "layer" \in desk.kinds /\ desk' = LayerFocus(f, l)
      BY <1>5, <3>1 DEF LayerMap, Happens, PanelMapped
    <3>3. Typed(e)
      BY <2>2, <3>2, LayerListed
    <3>4. But(desk, e, {"panel", "on", "want", "panels", "exclusive", "pointer"}) /\ e.due = desk.due
      BY DEF PanelMapped, But, Fields, Typed
    <3> HIDE DEF e
    <3>5. Goes(desk, e)
      BY <3>3, <3>4, PanelGoes
    <3>6. Goes(e, f) /\ Typed(f)
      BY <3>3, ArrangeGoes DEF Goes
    <3> HIDE DEF f
    <3>7. Goes(f, LayerFocus(f, l))
      BY <3>6, LayerFocusSteady DEF Steady
    <3> QED BY <3>2, <3>5, <3>6, <3>7, GoesTwice
  <2> QED BY <2>1, <2>2
<1>6. ASSUME NEW want \in {"none", "on_demand", "exclusive"}, LayerCommit(l, want) PROVE Goes(desk, desk')
  <2>1. PICK s \in Stacked(RemoveFirst(desk.panels[o], l), l) :
          desk' = Arrange([desk EXCEPT !.want[l] = want, !.panels[o] = s], o)
    BY <1>6 DEF LayerCommit
  <2> DEFINE e == PanelChanged(l, want, s)
  <2>2. desk.panel[l] = "mapped"
    BY <1>6 DEF LayerCommit
  <2>3. Typed(e)
    BY <2>2, LayerRelisted
  <2>4. desk' = Arrange(e, o)
    BY <2>1 DEF PanelChanged
  <2>5. But(desk, e, {"panel", "on", "want", "panels", "exclusive", "pointer"}) /\ e.due = desk.due
    BY DEF PanelChanged, But, Fields, Typed
  <2> HIDE DEF e, o
  <2>6. Goes(desk, e)
    BY <2>3, <2>5, PanelGoes
  <2> QED BY <2>3, <2>4, <2>6, ArrangeGoes, GoesTwice
<1> QED BY <1>1, <1>2, <1>3, <1>4, <1>5, <1>6

(* Every step but these.                                                     *)
LEMMA NextGoes ==
  ASSUME Typed(desk), [Next]_vars
  PROVE  \/ Goes(desk, desk')
         \/ \E t \in Toplevel : Create(t) \/ Destroy(t) \/ \E st \in State : Map(t, st)
         \/ \E o \in Output, w \in Workspace : CreateWorkspace(o, w) \/ RemoteCreate(o, w) \/ Plug(o, w)
         \/ \E w, n \in Workspace : DestroyWorkspace(w, n) \/ RemoteRemove(w, n)
         \/ \E o \in Output, to \in Output \cup {None} : Unplug(o, to)
         \/ PerformTransaction
<1>1. CASE UNCHANGED vars
  <2>1. desk' = desk
    BY <1>1 DEF vars
  <2> QED BY <2>1, GoesSame
<1>2. CASE Windowed
  BY <1>2, WindowGoes DEF Windowed
<1>3. CASE Commanded
  <2>1. CASE UserTogglesFloat \/ UserTogglesFullscreen
    BY <2>1, ToggleGoes
  <2>2. CASE CommandGrab
    BY <2>2, StartGrabGoes DEF CommandGrab
  <2>3. ASSUME NEW direction \in Direction, NEW o \in Output \cup {None},
               FocusInDirection(direction, o) \/ MoveInDirection(direction, o)
        PROVE  Goes(desk, desk')
    BY <2>3, FocusDirectionGoes, MoveDirectionGoes
  <2>4. ASSUME NEW w \in Workspace,
               ChangeWorkspace(w) \/ MoveFocusedToWorkspace(w) \/ RemoteActivate(w)
        PROVE  Goes(desk, desk')
    BY <2>4, ChangeGoes
  <2> QED BY <1>3, <2>1, <2>2, <2>3, <2>4 DEF Commanded
<1>4. CASE Input
  <2>1. ASSUME NEW k \in Key, KeyPress(k) \/ KeyRelease(k) PROVE Goes(desk, desk')
    BY <2>1, KeyGoes
  <2> QED BY <1>4, <2>1, ButtonGoes, DragGoes, MotionGoes DEF Input
<1>5. CASE Surroundings
  <2>1. CASE Rearrange
    BY <2>1, ArrangeAllGoes, FailGoes DEF Rearrange
  <2>2. ASSUME NEW l \in Layer,
               \/ LayerUnmap(l) \/ LayerDestroy(l)
               \/ \E o \in Output : LayerCreate(l, o)
               \/ \E want \in {"none", "on_demand", "exclusive"} : LayerMap(l, want) \/ LayerCommit(l, want)
        PROVE  Goes(desk, desk')
    BY <2>2, SurroundingsGo
  <2> QED BY <1>5, <2>1, <2>2 DEF Surroundings
<1>6. CASE Halted
  <2>1. desk' = desk
    BY <1>6 DEF Halted
  <2> QED BY <2>1, GoesSame
<1> QED BY <1>1, <1>2, <1>3, <1>4, <1>5, <1>6 DEF Next

-----------------------------------------------------------------------------
(* The workspaces of an output.                                              *)

LEMMA OnlyOne ==
  ASSUME NEW S, NEW s \in Seq(S), IsInjective(s), NEW x, ToSet(s) = {x}
  PROVE  s = <<x>>
<1>1. Len(s) \in Nat /\ DOMAIN s = 1 .. Len(s) /\ \A i \in 1 .. Len(s) : s[i] = x
  BY DEF ToSet
<1>2. \A i, j \in 1 .. Len(s) : i = j
  BY <1>1 DEF IsInjective
<1>3. Len(s) # 0
  BY DEF ToSet
<1>4. Len(s) = 1
  <2>1. Len(s) > 1 => 1 \in 1 .. Len(s) /\ 2 \in 1 .. Len(s)
    BY <1>1
  <2> QED BY <1>1, <1>2, <1>3, <2>1
<1> QED BY <1>1, <1>4

(* A neighbour in a list is another element of it; the only one has none.    *)
LEMMA Neighbours ==
  ASSUME NEW S, NEW s \in Seq(S), None \notin S, NEW x \in ToSet(s)
  PROVE  /\ NextOrPrev(s, x) # None => NextOrPrev(s, x) \in ToSet(s)
         /\ NextOrPrev(s, x) # None /\ IsInjective(s) => NextOrPrev(s, x) # x
         /\ NextOrPrev(s, x) = None => s = <<x>>
<1> DEFINE i == IndexOf(s, x)
<1>1. i \in 1 .. Len(s) /\ s[i] = x /\ Len(s) \in Nat
  BY IndexIs
<1>2. NextOrPrev(s, x) = IF i < Len(s) THEN s[i + 1] ELSE IF i > 1 THEN s[i - 1] ELSE None
  BY <1>1 DEF NextOrPrev
<1> HIDE DEF i
<1>3. CASE i < Len(s)
  BY <1>1, <1>2, <1>3 DEF ToSet, IsInjective
<1>4. CASE ~(i < Len(s)) /\ i > 1
  BY <1>1, <1>2, <1>4 DEF ToSet, IsInjective
<1>5. CASE ~(i < Len(s)) /\ ~(i > 1)
  <2>1. i \in Int /\ 1 <= i /\ i <= Len(s) /\ Len(s) \in Int
    BY <1>1
  <2>2. i = 1 /\ Len(s) = 1
    <3>1. \A a, b \in Int : 1 <= a /\ a <= b /\ ~(a < b) /\ ~(a > 1) => a = 1 /\ b = 1
      OBVIOUS
    <3> QED BY ONLY <1>5, <2>1, <3>1, Zenon
  <2>3. s[1] = x
    BY <1>1, <2>2
  <2> QED BY <1>2, <1>5, <2>2, <2>3
<1> QED BY <1>3, <1>4, <1>5

(* A workspace is in the list of its output, and there once.                 *)
Shelved(d) ==
  /\ IsInjective(d.outputs)
  /\ \A o \in Output :
       /\ IsInjective(d.spaces[o])
       /\ \A w \in Workspace : w \in ToSet(d.spaces[o]) <=> d.output[w] = o

(* Every output has a workspace, and a dummy is its only one.                *)
Furnished(d, os) ==
  \A o \in os : d.spaces[o] # <<>> /\ (d.dummy[o] # None => d.spaces[o] = <<d.dummy[o]>>)

Booked(d) ==
  /\ Shelved(d) /\ Furnished(d, d.plugged)
  /\ \A w \in Workspace : d.output[w] \in d.plugged \cup {None}

LEMMA SameBooked ==
  ASSUME NEW d, NEW e, Booked(d), e.output = d.output, e.spaces = d.spaces, e.dummy = d.dummy,
         e.outputs = d.outputs, e.plugged = d.plugged
  PROVE  Booked(e)
BY DEF Booked, Shelved, Furnished

LEMMA FreeShelved ==
  ASSUME NEW d, Typed(d), Shelved(d), NEW w \in Workspace, NEW e, e = FreeWorkspace(d, w)
  PROVE  /\ Shelved(e) /\ e.output = [d.output EXCEPT ![w] = None]
         /\ \A p \in Output : p # d.output[w] => e.spaces[p] = d.spaces[p]
         /\ e.dummy = d.dummy /\ e.outputs = d.outputs /\ e.plugged = d.plugged
         /\ e.act = d.act /\ e.active = d.active /\ e.crashed = d.crashed
<1> DEFINE o == d.output[w]
<1>1. /\ e.output = [d.output EXCEPT ![w] = None]
      /\ e.spaces = [d.spaces EXCEPT ![o] = RemoveFirst(d.spaces[o], w)]
      /\ e.dummy = d.dummy /\ e.outputs = d.outputs /\ e.plugged = d.plugged
      /\ e.act = d.act /\ e.active = d.active /\ e.crashed = d.crashed
  BY DEF FreeWorkspace, Typed, Fields
<1>2. /\ d.spaces \in [Output -> Seq(Workspace)] /\ d.output \in [Workspace -> Output \cup {None}]
      /\ None \notin Output
  BY NoneIsNoName DEF Typed, SpaceTypes
<1>3. ASSUME NEW p \in Output
      PROVE  IsInjective(e.spaces[p]) /\ \A v \in Workspace : v \in ToSet(e.spaces[p]) <=> e.output[v] = p
  <2>1. CASE p # o
    <3>1. e.spaces[p] = d.spaces[p]
      BY <1>1, <1>2, <2>1
    <3> QED BY <1>1, <1>2, <2>1, <3>1 DEF Shelved
  <2>2. CASE p = o
    <3>1. e.spaces[p] = RemoveFirst(d.spaces[p], w)
      BY <1>1, <1>2, <2>2
    <3>2. d.spaces[p] \in Seq(Workspace) /\ IsInjective(d.spaces[p])
      BY <1>2 DEF Shelved
    <3>3. ToSet(e.spaces[p]) = ToSet(d.spaces[p]) \ {w} /\ IsInjective(e.spaces[p])
      BY <3>1, <3>2, Removed
    <3> QED BY <1>1, <1>2, <3>3 DEF Shelved
  <2> QED BY <2>1, <2>2
<1>4. \A p \in Output : p # o => e.spaces[p] = d.spaces[p]
  BY <1>1, <1>2
<1> QED BY <1>1, <1>3, <1>4 DEF Shelved

(* evacuate moves windows only.                                              *)
LEMMA EvacuateMoves ==
  ASSUME NEW d, Typed(d), NEW w \in Workspace, NEW n \in Workspace \cup {None}
  PROVE  Kept(d, Evacuate(d, w, n), Moved)
<1> DEFINE leaving == IF d.master[w] = None THEN <<>>
                      ELSE <<d.master[w]>> \o Reverse(d.slaves[w])
           tiles == IF d.master[n] = None THEN leaving
                    ELSE <<d.master[n]>> \o d.slaves[n] \o leaving
           full == d.fullscreen[w]
           Over(f, new) == [f EXCEPT ![w] = None, ![n] = new]
           moved == [d EXCEPT
             !.home = [t \in Toplevel |-> IF t \in Members(d, w) THEN n ELSE d.home[t]],
             !.fullscreen = Over(d.fullscreen, IF full = None THEN d.fullscreen[n] ELSE full),
             !.floats = [d.floats EXCEPT ![w] = <<>>, ![n] = Reverse(d.floats[w]) \o d.floats[n]],
             !.master = Over(d.master, FirstOrNone(tiles)),
             !.slaves = [d.slaves EXCEPT ![w] = <<>>, ![n] = IF tiles = <<>> THEN <<>> ELSE Tail(tiles)],
             !.due = @ \/ full # None \/ (d.floats[w] # <<>> /\ d.output[w] # d.output[n])]
           e == Evacuate(d, w, n)
<1>1. e \in {moved, Fail(d, "wrong list"), Configure(moved, n)}
  BY DEF Evacuate
<1>2. But(d, moved, Moved) /\ DOMAIN moved = Fields
  BY DEF But, Moved, Listed, Typed, Fields
<1> HIDE DEF moved
<1>3. But(moved, Configure(moved, n), Moved)
  <2>1. Configure(moved, n) \in {moved, [moved EXCEPT !.due = TRUE],
                                 Fail(moved, "configured unmapped"), Fail(moved, "freed workspace")}
    BY DEF Configure
  <2> QED BY <1>2, <2>1 DEF Fail, But, Moved, Listed, Fields
<1>4. But(d, Fail(d, "wrong list"), Moved)
  <2>1. But(d, Fail(d, "wrong list"), {"crashed"})
    BY Fails DEF Kept
  <2> QED BY <2>1 DEF But, Moved, Listed
<1>5. But(d, e, Moved)
  BY <1>1, <1>2, <1>3, <1>4 DEF But
<1>6. Typed(e) /\ Later(d, e)
  BY EvacuateKept DEF SpaceKept, Kept
<1> QED BY <1>5, <1>6 DEF Kept

LEMMA EvacuateBooks ==
  ASSUME NEW d, Typed(d), NEW w \in Workspace, NEW n \in Workspace \cup {None}, NEW e, e = Evacuate(d, w, n)
  PROVE  /\ SameBooks(d, e) /\ e.act = d.act /\ e.active = d.active
         /\ e.life = d.life /\ e.shown = d.shown /\ Typed(e) /\ Later(d, e)
BY EvacuateMoves DEF Kept, But, Moved, Listed, Fields, Typed, SameBooks

LEMMA CreateBooked ==
  ASSUME NEW d, Typed(d), Booked(d), NEW o \in d.plugged, NEW w \in Workspace, ~Exists(d, w),
         NEW e, e = WorkspaceCreate(d, o, w)
  PROVE  Booked(e)
<1>0. /\ o \in Output /\ w # None /\ d.output[w] = None
      /\ d.spaces \in [Output -> Seq(Workspace)] /\ d.output \in [Workspace -> Output \cup {None}]
      /\ d.dummy \in [Output -> Workspace \cup {None}] /\ d.plugged \subseteq Output
      /\ d.spaces[o] \in Seq(Workspace) /\ None \notin Output
  BY ActiveTyped, Elements, NoneIsNoName DEF Typed, SpaceTypes, Exists
<1>1. CASE d.dummy[o] # None
  <2>1. /\ e.output = d.output /\ e.spaces = d.spaces /\ e.outputs = d.outputs
        /\ e.plugged = d.plugged /\ e.dummy = [d.dummy EXCEPT ![o] = None]
    BY <1>1 DEF WorkspaceCreate, Typed, Fields
  <2> QED BY <1>0, <2>1 DEF Booked, Shelved, Furnished
<1>2. CASE d.dummy[o] = None
  <2>1. /\ e.output = [d.output EXCEPT ![w] = o] /\ e.spaces = [d.spaces EXCEPT ![o] = <<w>> \o d.spaces[o]]
        /\ e.outputs = d.outputs /\ e.plugged = d.plugged /\ e.dummy = d.dummy
    BY <1>2 DEF WorkspaceCreate, Typed, Fields
  <2>2. /\ <<w>> \in Seq(Workspace) /\ ToSet(<<w>>) = {w} /\ IsInjective(<<w>>)
    BY Single
  <2>3. w \notin ToSet(d.spaces[o]) /\ IsInjective(d.spaces[o])
    BY <1>0 DEF Booked, Shelved
  <2> DEFINE s == <<w>> \o d.spaces[o]
  <2>4. /\ s \in Seq(Workspace) /\ ToSet(s) = {w} \cup ToSet(d.spaces[o]) /\ IsInjective(s)
    <3> DEFINE a == <<w>>
               b == d.spaces[o]
    <3>1. /\ a \in Seq(Workspace) /\ b \in Seq(Workspace) /\ IsInjective(a) /\ IsInjective(b)
          /\ ToSet(a) = {w} /\ ToSet(a) \cap ToSet(b) = {}
      BY <1>0, <2>2, <2>3
    <3> HIDE DEF a, b
    <3>2. /\ a \o b \in Seq(Workspace) /\ ToSet(a \o b) = ToSet(a) \cup ToSet(b) /\ IsInjective(a \o b)
      BY <3>1, Joined
    <3> QED BY <3>1, <3>2 DEF a, b
  <2>5. s # <<>> /\ e.spaces = [d.spaces EXCEPT ![o] = s]
    BY <2>1, <2>4, Emptied
  <2> HIDE DEF s
  <2>6. ASSUME NEW p \in Output
        PROVE  IsInjective(e.spaces[p]) /\ \A v \in Workspace : v \in ToSet(e.spaces[p]) <=> e.output[v] = p
    <3>1. CASE p # o
      BY <1>0, <2>1, <2>5, <3>1 DEF Booked, Shelved
    <3>2. CASE p = o
      <4>1. e.spaces[p] = s
        BY <1>0, <2>5, <3>2
      <4>2. \A v \in Workspace : e.output[v] = o <=> v = w \/ d.output[v] = o
        BY <1>0, <2>1
      <4>3. \A v \in Workspace : v \in ToSet(d.spaces[o]) <=> d.output[v] = o
        BY <1>0 DEF Booked, Shelved
      <4> QED BY <2>4, <3>2, <4>1, <4>2, <4>3
    <3> QED BY <3>1, <3>2
  <2>7. Furnished(e, e.plugged)
    BY <1>0, <1>2, <2>1, <2>5 DEF Booked, Furnished
  <2>8. \A v \in Workspace : e.output[v] \in e.plugged \cup {None}
    BY <1>0, <2>1 DEF Booked
  <2> QED BY <2>1, <2>6, <2>7, <2>8 DEF Booked, Shelved
<1> QED BY <1>1, <1>2

(* The next workspace is ready, and what it has instead of the old one.      *)
LEMMA ReadyBooked ==
  ASSUME NEW d, Typed(d), Booked(d), NEW w \in Workspace, Exists(d, w), NEW n \in Workspace,
         NextWorkspace(d, w, n), n # w, NEW e, e = WithDummy(d, d.output[w], n)
  PROVE  /\ Typed(e) /\ Later(d, e) /\ Shelved(e)
         /\ d.output[w] \in d.plugged /\ e.output[n] = d.output[w]
         /\ e.outputs = d.outputs /\ e.plugged = d.plugged
         /\ e = d \/ (~Exists(d, n) /\ e.output = [d.output EXCEPT ![n] = d.output[w]])
         /\ \A p \in Output : p # d.output[w] => e.spaces[p] = d.spaces[p] /\ e.dummy[p] = d.dummy[p]
         /\ \/ e.dummy[d.output[w]] = None
            \/ /\ e.dummy[d.output[w]] = n
               /\ \A v \in Workspace : e.output[v] = d.output[w] <=> v \in {n, w}
<1> DEFINE o == d.output[w]
           old == NextOrPrev(d.spaces[o], w)
           c == WorkspaceCreate(d, o, n)
<1>0. /\ o \in d.plugged /\ o \in Output /\ o \in ToSet(d.outputs) /\ w # None /\ n # None
      /\ d.spaces \in [Output -> Seq(Workspace)] /\ d.output \in [Workspace -> Output \cup {None}]
      /\ d.dummy \in [Output -> Workspace \cup {None}] /\ d.plugged \subseteq Output
      /\ d.spaces[o] \in Seq(Workspace) /\ None \notin Output /\ None \notin Workspace
  BY Elements, NoneIsNoName DEF Typed, SpaceTypes, Exists, Booked
<1>1. w \in ToSet(d.spaces[o]) /\ IsInjective(d.spaces[o])
  BY <1>0 DEF Booked, Shelved
<1>2. Typed(e) /\ Later(d, e)
  BY <1>0, WithDummyKept DEF SpaceKept, Kept
<1>3. CASE old # None
  <2>1. n = old
    BY <1>3 DEF NextWorkspace
  <2>2. n \in ToSet(d.spaces[o])
    BY <1>0, <1>1, <1>3, <2>1, Neighbours
  <2>3. d.output[n] = o
    BY <1>0, <2>2 DEF Booked, Shelved
  <2>4. e = d
    BY <1>0, <2>3 DEF WithDummy, Exists
  <2>5. d.dummy[o] = None
    <3>1. SUFFICES ASSUME d.dummy[o] # None PROVE FALSE
      OBVIOUS
    <3>2. d.spaces[o] = <<d.dummy[o]>> /\ d.dummy[o] \in Workspace
      BY <1>0, <3>1 DEF Booked, Furnished
    <3>3. ToSet(d.spaces[o]) = {d.dummy[o]}
      BY <3>2, Single
    <3> QED BY <1>1, <2>2, <3>3
  <2> QED BY <1>0, <1>2, <2>3, <2>4, <2>5 DEF Booked
<1>4. CASE old = None
  <2>1. d.dummy[o] = None /\ ~Exists(d, n)
    BY <1>4 DEF NextWorkspace
  <2>2. d.spaces[o] = <<w>>
    BY <1>0, <1>1, <1>4, Neighbours
  <2>3. \A v \in Workspace : d.output[v] = o <=> v = w
    <3>1. ToSet(d.spaces[o]) = {w}
      BY <2>2, Single
    <3> QED BY <1>0, <3>1 DEF Booked, Shelved
  <2>4. e = [c EXCEPT !.dummy[o] = n]
    BY <2>1 DEF WithDummy
  <2>5. Booked(c) /\ DOMAIN c = Fields
    BY <1>0, <2>1, CreateBooked, WorkspaceCreateKept DEF SpaceKept, Kept, Typed
  <2>6. /\ c.output = [d.output EXCEPT ![n] = o] /\ c.spaces = [d.spaces EXCEPT ![o] = <<n>> \o d.spaces[o]]
        /\ c.outputs = d.outputs /\ c.plugged = d.plugged /\ c.dummy = d.dummy
    BY <2>1 DEF WorkspaceCreate, Typed, Fields
  <2> HIDE DEF c
  <2>7. /\ e.output = c.output /\ e.spaces = c.spaces /\ e.outputs = c.outputs /\ e.plugged = c.plugged
        /\ e.dummy = [c.dummy EXCEPT ![o] = n]
    BY <2>4, <2>5 DEF Fields
  <2>8. Shelved(e)
    BY <2>5, <2>7 DEF Booked, Shelved
  <2>9. e.dummy[o] = n /\ e.output[n] = o /\ \A v \in Workspace : e.output[v] = o <=> v \in {n, w}
    BY <1>0, <2>3, <2>6, <2>7
  <2>10. \A p \in Output : p # o => e.spaces[p] = d.spaces[p] /\ e.dummy[p] = d.dummy[p]
    BY <1>0, <2>6, <2>7
  <2> QED BY <1>0, <1>2, <2>1, <2>6, <2>7, <2>8, <2>9, <2>10
<1> QED BY <1>3, <1>4

(* Before the workspace is freed, only windows move and the focus changes.   *)
LEMMA DestroyedBooks ==
  ASSUME NEW d, Typed(d), NEW w \in Workspace, Exists(d, w), NEW n \in Workspace, n # w,
         NEW ready, ready = WithDummy(d, d.output[w], n), Typed(ready),
         NEW e, e = WorkspaceDestroy(d, w, n)
  PROVE  \E f : Typed(f) /\ SameBooks(ready, f) /\ e = FreeWorkspace(f, w)
<1> DEFINE o == d.output[w]
           turned == [ready EXCEPT !.act[o] = IF @ = w THEN n ELSE @]
           empty == Evacuate(turned, w, n)
           f == IF empty.active = w THEN SetActive(empty, n) ELSE empty
<1>1. e = FreeWorkspace(f, w)
  BY DEF WorkspaceDestroy
<1>2. Typed(turned)
  BY ActKept DEF SpaceKept, Kept
<1>3. SameBooks(ready, turned)
  BY DEF SameBooks, Typed, Fields
<1> HIDE DEF turned
<1>4. Typed(empty) /\ SameBooks(turned, empty)
  BY <1>2, EvacuateBooks
<1> HIDE DEF empty
<1>5. Typed(f) /\ SameBooks(empty, f)
  BY <1>4, SetActiveGoes DEF Goes, SameBooks
<1> HIDE DEF f
<1>6. SameBooks(ready, f)
  BY <1>3, <1>4, <1>5 DEF SameBooks
<1> QED BY <1>1, <1>5, <1>6

LEMMA DestroyBooked ==
  ASSUME NEW d, Typed(d), Booked(d), NEW w \in Workspace, Exists(d, w), NEW n \in Workspace,
         NextWorkspace(d, w, n), NEW e, e = WorkspaceDestroy(d, w, n)
  PROVE  Booked(e)
<1> DEFINE o == d.output[w]
           ready == WithDummy(d, o, n)
<1>1. CASE n = w
  <2>1. e = Fail(d, "endless loop") \/ e = Fail(d, "freed workspace")
    BY <1>1 DEF WorkspaceDestroy
  <2>2. But(d, e, {"crashed"})
    BY <2>1, Fails DEF Kept
  <2> QED BY <2>2, SameBooked DEF But, Fields
<1>2. CASE n # w
  <2>1. /\ Typed(ready) /\ Shelved(ready) /\ o \in d.plugged /\ ready.output[n] = o
        /\ ready.outputs = d.outputs /\ ready.plugged = d.plugged
        /\ ready.output = d.output \/ ready.output = [d.output EXCEPT ![n] = o]
        /\ \A p \in Output : p # o => ready.spaces[p] = d.spaces[p] /\ ready.dummy[p] = d.dummy[p]
        /\ \/ ready.dummy[o] = None
           \/ ready.dummy[o] = n /\ \A v \in Workspace : ready.output[v] = o <=> v \in {n, w}
    BY <1>2, ReadyBooked
  <2> HIDE DEF ready
  <2>2. PICK f : Typed(f) /\ SameBooks(ready, f) /\ e = FreeWorkspace(f, w)
    BY <1>2, <2>1, DestroyedBooks DEF ready
  <2>3. Shelved(f)
    BY <2>1, <2>2 DEF SameBooks, Shelved
  <2>4. /\ Shelved(e) /\ e.output = [f.output EXCEPT ![w] = None]
        /\ \A p \in Output : p # f.output[w] => e.spaces[p] = f.spaces[p]
        /\ e.dummy = f.dummy /\ e.outputs = f.outputs /\ e.plugged = f.plugged
    BY <2>2, <2>3, FreeShelved
  <2>5. /\ d.output \in [Workspace -> Output \cup {None}] /\ o \in Output /\ None \notin Output
        /\ d.plugged \subseteq Output /\ n # None
    BY <2>1, Elements, NoneIsNoName DEF Typed, SpaceTypes
  <2>6. /\ f.output[w] = o /\ e.output[n] = o /\ e.plugged = d.plugged
        /\ \A v \in Workspace : v # w => e.output[v] = ready.output[v]
        /\ e.output[w] = None
        /\ \A v \in Workspace : ready.output[v] \in {d.output[v], o}
    BY <1>2, <2>1, <2>2, <2>4, <2>5 DEF SameBooks, Exists
  <2>7. e.spaces \in [Output -> Seq(Workspace)]
    BY <2>2, FreeWorkspaceKept DEF SpaceKept, Kept, Typed, SpaceTypes
  <2>8. ASSUME NEW p \in d.plugged
        PROVE  e.spaces[p] # <<>> /\ (e.dummy[p] # None => e.spaces[p] = <<e.dummy[p]>>)
    <3>1. CASE p # o
      <4>1. e.spaces[p] = d.spaces[p] /\ e.dummy[p] = d.dummy[p]
        BY <2>1, <2>2, <2>4, <2>5, <2>6, <3>1 DEF SameBooks
      <4> QED BY <4>1 DEF Booked, Furnished
    <3>2. CASE p = o
      <4>1. \A v \in Workspace : v \in ToSet(e.spaces[o]) <=> e.output[v] = o
        BY <2>4, <2>5 DEF Shelved
      <4>2. e.spaces[o] \in Seq(Workspace) /\ IsInjective(e.spaces[o])
        BY <2>4, <2>5, <2>7 DEF Shelved
      <4>3. e.spaces[o] # <<>>
        <5>1. n \in ToSet(e.spaces[o])
          BY <2>6, <4>1
        <5> QED BY <5>1, Emptied
      <4>4. ASSUME e.dummy[o] # None
            PROVE  e.spaces[o] = <<e.dummy[o]>>
        <5>1. e.dummy[o] = n /\ \A v \in Workspace : ready.output[v] = o <=> v \in {n, w}
          BY <2>1, <2>2, <2>4, <4>4 DEF SameBooks
        <5>2. \A v \in Workspace : e.output[v] = o <=> v = n
          BY <1>2, <2>5, <2>6, <5>1
        <5>3. ToSet(e.spaces[o]) = {n}
          BY <4>1, <4>2, <5>2, Elements
        <5> QED BY <4>2, <5>1, <5>3, OnlyOne
      <4> QED BY <3>2, <4>3, <4>4
    <3> QED BY <3>1, <3>2
  <2>9. \A v \in Workspace : e.output[v] \in e.plugged \cup {None}
    BY <2>1, <2>6 DEF Booked
  <2> QED BY <2>4, <2>6, <2>8, <2>9 DEF Booked, Furnished
<1> QED BY <1>1, <1>2

LEMMA PlugBooked ==
  ASSUME Typed(desk), Booked(desk), NEW o \in Output, NEW w \in Workspace, Plug(o, w)
  PROVE  Booked(desk')
<1> DEFINE d == desk
           a == [d EXCEPT !.outputs = <<o>> \o @, !.plugged = @ \cup {o}]
           c == WorkspaceCreate(a, o, w)
           e == desk'
<1>0. /\ d.outputs \in Seq(Output) /\ d.plugged \subseteq ToSet(d.outputs) /\ ToSet(d.outputs) \subseteq Output
      /\ d.output \in [Workspace -> Output \cup {None}] /\ d.spaces \in [Output -> Seq(Workspace)]
      /\ d.dummy \in [Output -> Workspace \cup {None}] /\ None \notin Output /\ None \notin Workspace
      /\ IsInjective(d.outputs) /\ DOMAIN d = Fields
  BY Elements, NoneIsNoName DEF Typed, SpaceTypes, Booked, Shelved
<1>1. /\ o \notin ToSet(d.outputs) /\ ~Exists(d, w) /\ d.dummy[o] = None
      /\ e = WithDummy(a, o, w)
  BY DEF Plug, Typed, SpaceTypes
<1>2. /\ a.outputs = <<o>> \o d.outputs /\ a.plugged = d.plugged \cup {o} /\ a.output = d.output
      /\ a.spaces = d.spaces /\ a.dummy = d.dummy /\ DOMAIN a = Fields
  BY <1>0 DEF Fields
<1> HIDE DEF a
<1>3. d.output[w] = None /\ ~Exists(a, w)
  BY <1>0, <1>1, <1>2 DEF Exists
<1>4. \A v \in Workspace : d.output[v] # o
  BY <1>0, <1>1 DEF Booked
<1>5. d.spaces[o] = <<>>
  <2>1. d.spaces[o] \in Seq(Workspace) /\ ToSet(d.spaces[o]) \subseteq Workspace
    BY <1>0, Elements
  <2>2. \A v \in Workspace : v \notin ToSet(d.spaces[o])
    BY <1>4 DEF Booked, Shelved
  <2> QED BY <2>1, <2>2, Elements
<1>6. /\ c.output = [d.output EXCEPT ![w] = o] /\ c.spaces = [d.spaces EXCEPT ![o] = <<w>> \o d.spaces[o]]
      /\ c.outputs = a.outputs /\ c.plugged = a.plugged /\ c.dummy = d.dummy /\ DOMAIN c = Fields
  BY <1>1, <1>2 DEF WorkspaceCreate, Fields
<1>7. e = [c EXCEPT !.dummy[o] = w]
  BY <1>1, <1>3 DEF WithDummy
<1> HIDE DEF c
<1>8. /\ e.output = c.output /\ e.spaces = c.spaces /\ e.outputs = c.outputs /\ e.plugged = c.plugged
      /\ e.dummy = [d.dummy EXCEPT ![o] = w]
  BY <1>6, <1>7 DEF Fields
<1> HIDE DEF d, e
<1>9. <<w>> \o d.spaces[o] = <<w>>
  BY <1>5
<1>10. /\ e.spaces[o] = <<w>> /\ \A p \in Output : p # o => e.spaces[p] = d.spaces[p]
       /\ e.output[w] = o /\ \A v \in Workspace : v # w => e.output[v] = d.output[v]
       /\ e.dummy[o] = w /\ \A p \in Output : p # o => e.dummy[p] = d.dummy[p]
       /\ e.plugged = d.plugged \cup {o}
  BY <1>0, <1>2, <1>6, <1>8, <1>9
<1>11. IsInjective(e.outputs)
  <2> DEFINE s == <<o>>
             t == d.outputs
  <2>1. s \in Seq(Output) /\ IsInjective(s) /\ ToSet(s) = {o} /\ t \in Seq(Output) /\ IsInjective(t)
    BY <1>0, Single
  <2>2. ToSet(s) \cap ToSet(t) = {}
    BY <1>1, <2>1
  <2> HIDE DEF s, t
  <2>3. IsInjective(s \o t)
    BY <2>1, <2>2, Joined
  <2> QED BY <1>2, <1>6, <1>8, <2>3 DEF s, t
<1>12. ASSUME NEW p \in Output
       PROVE  IsInjective(e.spaces[p]) /\ \A v \in Workspace : v \in ToSet(e.spaces[p]) <=> e.output[v] = p
  <2>1. CASE p # o
    <3>1. IsInjective(d.spaces[p]) /\ \A v \in Workspace : v \in ToSet(d.spaces[p]) <=> d.output[v] = p
      BY DEF Booked, Shelved, d
    <3> QED BY <1>0, <1>3, <1>10, <2>1, <3>1
  <2>2. CASE p = o
    <3>1. ToSet(<<w>>) = {w} /\ IsInjective(<<w>>)
      BY Single
    <3> QED BY <1>4, <1>10, <2>2, <3>1
  <2> QED BY <2>1, <2>2
<1>13. Furnished(e, e.plugged)
  <2>1. ASSUME NEW p \in e.plugged
        PROVE  e.spaces[p] # <<>> /\ (e.dummy[p] # None => e.spaces[p] = <<e.dummy[p]>>)
    <3>1. CASE p # o
      <4>1. p \in d.plugged /\ p \in Output
        BY <1>0, <1>10, <3>1
      <4> QED BY <1>10, <3>1, <4>1 DEF Booked, Furnished, d
    <3>2. CASE p = o
      BY <1>10, <3>2
    <3> QED BY <3>1, <3>2
  <2> QED BY <2>1 DEF Furnished
<1>14. \A v \in Workspace : e.output[v] \in e.plugged \cup {None}
  BY <1>10 DEF Booked, d
<1>15. Booked(e)
  BY <1>11, <1>12, <1>13, <1>14 DEF Booked, Shelved
<1> QED BY <1>15 DEF e

(* A loop that keeps something keeps it to its end.                          *)
LEMMA Upwards ==
  ASSUME NEW N \in Nat, NEW G, 0 \in G, \A n \in 1 .. N : n - 1 \in G => n \in G
  PROVE  N \in G
<1> DEFINE T == {n \in 0 .. N : n \notin G}
<1>1. T = {}
  <2> SUFFICES ASSUME T # {} PROVE FALSE
    OBVIOUS
  <2>1. PICK n \in T : \A m \in T : n <= m
    <3>1. T \in SUBSET Nat
      OBVIOUS
    <3> HIDE DEF T
    <3> QED BY <3>1, LeastNatural
  <2>2. n \in 0 .. N /\ n \notin G /\ n # 0
    OBVIOUS
  <2>3. n \in 1 .. N /\ n - 1 \in 0 .. N /\ ~(n <= n - 1)
    BY <2>2
  <2>4. n - 1 \in G
    BY <2>1, <2>3
  <2> QED BY <2>2, <2>3, <2>4
<1> QED BY <1>1

(* One workspace of an output that goes.                                     *)
LEMMA UnpluggedBooks ==
  ASSUME NEW d, Typed(d), NEW w \in Workspace, NEW e, e = WorkspaceUnplug(d, w), e.crashed = "none"
  PROVE  \E f : Typed(f) /\ SameBooks(d, f) /\ Later(d, f) /\ e = FreeWorkspace(f, w)
<1> DEFINE o == NextOrPrev(d.outputs, d.output[w])
           n == FirstOrNone(d.spaces[o])
           empty == Evacuate(d, w, n)
           left == IF d.active = w THEN SetActive(empty, n) ELSE empty
<1>1. CASE o = None
  <2>1. e = FreeWorkspace(d, w)
    BY <1>1 DEF WorkspaceUnplug
  <2> QED BY <2>1 DEF SameBooks, Later
<1>2. CASE o # None /\ o \notin d.plugged
  <2>1. e = Fail(d, "freed output")
    BY <1>2 DEF WorkspaceUnplug
  <2> QED BY <2>1, Fails
<1>3. CASE o # None /\ o \in d.plugged
  <2>1. e = FreeWorkspace(left, w)
    BY <1>3 DEF WorkspaceUnplug
  <2>2. n \in Workspace \cup {None}
    BY <1>3, ActiveTyped, FrontTyped DEF Typed, SpaceTypes
  <2> HIDE DEF n
  <2>3. Typed(empty) /\ SameBooks(d, empty) /\ Later(d, empty)
    BY <2>2, EvacuateBooks
  <2> HIDE DEF empty
  <2>4. Typed(left) /\ SameBooks(empty, left) /\ Later(empty, left)
    <3>1. CASE n \in Workspace
      BY <2>3, <3>1, SetActiveGoes DEF Goes, SameBooks, Later
    <3>2. CASE n = None
      <4>1. empty.active # n
        BY <2>3, <3>2, NoneIsNoName DEF Typed, SpaceTypes
      <4>2. SetActive(empty, n) = OutputFocus(Fail(empty, "freed workspace"), empty.output[n])
        BY <3>2, <4>1 DEF SetActive, MakeActive, Exists
      <4>3. Goes(empty, Fail(empty, "freed workspace"))
        BY <2>3, FailGoes
      <4>4. Goes(Fail(empty, "freed workspace"), SetActive(empty, n))
        BY <4>2, <4>3, OutputFocusGoes DEF Goes
      <4> QED BY <2>3, <4>3, <4>4 DEF Goes, SameBooks, Later
    <3> QED BY <2>2, <3>1, <3>2
  <2> HIDE DEF left
  <2> QED BY <2>1, <2>3, <2>4 DEF SameBooks, Later
<1> QED BY <1>1, <1>2, <1>3

(* The workspaces vs of o are gone.                                          *)
Cleared(d, e, o, vs) ==
  /\ Typed(e)
  /\ e.crashed = "none" =>
       /\ Shelved(e) /\ e.outputs = d.outputs /\ e.plugged = d.plugged /\ e.dummy = d.dummy
       /\ \A v \in Workspace : e.output[v] = IF v \in vs THEN None ELSE d.output[v]
       /\ \A p \in Output \ {o} : e.spaces[p] = d.spaces[p]

LEMMA ClearedOne ==
  ASSUME NEW d, Typed(d), NEW o \in Output, NEW vs, NEW e, Cleared(d, e, o, vs), NEW w \in Workspace,
         d.output[w] = o, w \notin vs, NEW f, f = WorkspaceUnplug(e, w)
  PROVE  Cleared(d, f, o, vs \cup {w})
<1>1. Typed(f) /\ Later(e, f)
  BY WorkspaceUnplugKept DEF Cleared, SpaceKept, Kept
<1>2. ASSUME f.crashed = "none"
      PROVE  /\ Shelved(f) /\ f.outputs = d.outputs /\ f.plugged = d.plugged /\ f.dummy = d.dummy
             /\ \A v \in Workspace : f.output[v] = IF v \in vs \cup {w} THEN None ELSE d.output[v]
             /\ \A p \in Output \ {o} : f.spaces[p] = d.spaces[p]
  <2>1. /\ Typed(e) /\ Shelved(e) /\ e.outputs = d.outputs /\ e.plugged = d.plugged /\ e.dummy = d.dummy
        /\ \A v \in Workspace : e.output[v] = IF v \in vs THEN None ELSE d.output[v]
        /\ \A p \in Output \ {o} : e.spaces[p] = d.spaces[p]
    BY <1>1, <1>2 DEF Cleared, Later
  <2>2. PICK g : Typed(g) /\ SameBooks(e, g) /\ f = FreeWorkspace(g, w)
    BY <1>2, <2>1, UnpluggedBooks
  <2>3. Shelved(g)
    BY <2>1, <2>2 DEF SameBooks, Shelved
  <2>4. /\ Shelved(f) /\ f.output = [g.output EXCEPT ![w] = None]
        /\ \A p \in Output : p # g.output[w] => f.spaces[p] = g.spaces[p]
        /\ f.dummy = g.dummy /\ f.outputs = g.outputs /\ f.plugged = g.plugged
    BY <2>2, <2>3, FreeShelved
  <2>5. e.output \in [Workspace -> Output \cup {None}] /\ e.output[w] = o
    BY <2>1 DEF Typed, SpaceTypes
  <2>6. \A v \in Workspace : f.output[v] = IF v = w THEN None ELSE e.output[v]
    BY <2>2, <2>4, <2>5 DEF SameBooks
  <2> QED BY <2>1, <2>2, <2>4, <2>5, <2>6 DEF SameBooks
<1> QED BY <1>1, <1>2 DEF Cleared

(* The workspaces in front of the i-th of a list, and that one.              *)
UpTo(list, i) == {list[j] : j \in 1 .. i}

LEMMA UpToNext ==
  ASSUME NEW S, NEW list \in Seq(S), IsInjective(list)
  PROVE  /\ UpTo(list, 0) = {} /\ UpTo(list, Len(list)) = ToSet(list)
         /\ \A i \in 1 .. Len(list) :
              /\ list[i] \in ToSet(list) /\ list[i] \notin UpTo(list, i - 1)
              /\ UpTo(list, i) = UpTo(list, i - 1) \cup {list[i]}
<1>1. DOMAIN list = 1 .. Len(list) /\ Len(list) \in Nat
  OBVIOUS
<1>2. UpTo(list, 0) = {}
  BY DEF UpTo
<1>3. UpTo(list, Len(list)) = ToSet(list)
  BY <1>1 DEF UpTo, ToSet
<1>4. ASSUME NEW i \in 1 .. Len(list)
      PROVE  /\ list[i] \in ToSet(list) /\ list[i] \notin UpTo(list, i - 1)
             /\ UpTo(list, i) = UpTo(list, i - 1) \cup {list[i]}
  <2>1. list[i] \in ToSet(list)
    BY <1>1 DEF ToSet
  <2>2. \A j \in 1 .. i - 1 : j \in 1 .. Len(list) /\ j # i
    BY <1>1
  <2>3. list[i] \notin UpTo(list, i - 1)
    BY <1>1, <2>2 DEF UpTo, IsInjective
  <2>4. \A j : j \in 1 .. i <=> j \in 1 .. i - 1 \/ j = i
    BY <1>1
  <2>5. UpTo(list, i) = UpTo(list, i - 1) \cup {list[i]}
    BY <2>4 DEF UpTo
  <2> QED BY <2>1, <2>3, <2>5
<1> QED BY <1>2, <1>3, <1>4

LEMMA AllCleared ==
  ASSUME NEW d, Typed(d), Booked(d), NEW o \in Output
  PROVE  Cleared(d, UnplugAll(d, d.spaces[o]), o, ToSet(d.spaces[o]))
<1> DEFINE list == d.spaces[o]
<1>1. list \in Seq(Workspace) /\ IsInjective(list) /\ ToSet(list) \subseteq Workspace
  BY Elements DEF Typed, SpaceTypes, Booked, Shelved
<1>2. \A w \in ToSet(list) : d.output[w] = o
  BY <1>1 DEF Booked, Shelved
<1> HIDE DEF list
<1>3. PICK after :
        /\ UnplugAll(d, list) = after[Len(list)]
        /\ after[0] = d
        /\ \A n \in 1 .. Len(list) : after[n] = WorkspaceUnplug(after[n - 1], list[n])
  BY ONLY <1>1, AllUnplugged
<1>4. Len(list) \in Nat
  BY <1>1
<1> DEFINE G == {n \in 0 .. Len(list) : Cleared(d, after[n], o, UpTo(list, n))}
<1>5. Cleared(d, after[0], o, UpTo(list, 0))
  <2>1. UpTo(list, 0) = {} /\ after[0] = d
    BY <1>1, <1>3, UpToNext
  <2> QED BY <2>1 DEF Cleared, Booked
<1>6. ASSUME NEW n \in 1 .. Len(list), n - 1 \in G
      PROVE  n \in G
  <2>1. Cleared(d, after[n - 1], o, UpTo(list, n - 1)) /\ n \in 0 .. Len(list)
    BY <1>6
  <2>2. /\ list[n] \in ToSet(list) /\ list[n] \notin UpTo(list, n - 1)
        /\ UpTo(list, n) = UpTo(list, n - 1) \cup {list[n]}
    BY <1>1, UpToNext
  <2>3. list[n] \in Workspace /\ d.output[list[n]] = o
    BY <1>1, <1>2, <2>2
  <2>4. Cleared(d, after[n], o, UpTo(list, n - 1) \cup {list[n]})
    BY <1>3, <2>1, <2>2, <2>3, ClearedOne
  <2> QED BY <2>1, <2>2, <2>4
<1>7. 0 \in G
  BY <1>4, <1>5
<1>8. Len(list) \in G
  <2> HIDE DEF G
  <2> QED BY <1>4, <1>6, <1>7, Upwards
<1>9. UpTo(list, Len(list)) = ToSet(list)
  BY <1>1, UpToNext
<1>10. Cleared(d, UnplugAll(d, list), o, ToSet(list))
  BY <1>3, <1>8, <1>9
<1> QED BY <1>10 DEF list

LEMMA UnplugBooked ==
  ASSUME Typed(desk), Booked(desk), NEW o \in Output, NEW to, Unplug(o, to), desk'.crashed = "none"
  PROVE  Booked(desk')
<1> DEFINE d == desk
           x == UnplugAll(d, d.spaces[o])
           e == desk'
<1>1. Cleared(d, x, o, ToSet(d.spaces[o]))
  BY AllCleared
<1>2. /\ e.outputs = x.outputs /\ e.plugged = x.plugged \ {o} /\ e.dummy = x.dummy
      /\ e.output = x.output /\ e.spaces = x.spaces /\ e.crashed = x.crashed
  BY <1>1 DEF Unplug, Cleared, Typed, Fields
<1> HIDE DEF x, e, d
<1>3. /\ Typed(x) /\ Shelved(x) /\ x.outputs = d.outputs /\ x.plugged = d.plugged /\ x.dummy = d.dummy
      /\ \A v \in Workspace : x.output[v] = IF v \in ToSet(d.spaces[o]) THEN None ELSE d.output[v]
      /\ \A p \in Output \ {o} : x.spaces[p] = d.spaces[p]
  BY <1>1, <1>2 DEF Cleared, e
<1>4. /\ \A v \in Workspace : v \in ToSet(d.spaces[o]) <=> d.output[v] = o
      /\ \A v \in Workspace : d.output[v] \in d.plugged \cup {None}
      /\ Furnished(d, d.plugged) /\ d.plugged \subseteq Output
  BY Elements DEF d, Booked, Shelved, Typed, SpaceTypes
<1>5. Shelved(e)
  BY <1>2, <1>3 DEF Shelved
<1>6. Furnished(e, e.plugged)
  BY <1>2, <1>3, <1>4 DEF Furnished
<1>7. \A v \in Workspace : e.output[v] \in e.plugged \cup {None}
  BY <1>2, <1>3, <1>4
<1>8. Booked(e)
  BY <1>5, <1>6, <1>7 DEF Booked
<1> QED BY <1>8 DEF e

-----------------------------------------------------------------------------
(* A window that maps: from where it is entered on, handlers go as others.   *)

Entering(t, st) ==
  [desk EXCEPT !.life[t] = "mapped", !.state[t] = st, !.home[t] = desk.active,
               !.shown = @ \ {t}, !.fresh = @ \cup {t}]

LEMMA EnteringTyped ==
  ASSUME Typed(desk), NEW t \in Toplevel, NEW st \in State
  PROVE  LET new == Entering(t, st) IN
         /\ Typed(new) /\ SameBooks(desk, new) /\ new.crashed = desk.crashed
         /\ new.act = desk.act /\ new.active = desk.active /\ new.kinds = desk.kinds
         /\ new.life = [desk.life EXCEPT ![t] = "mapped"]
         /\ new.home = [desk.home EXCEPT ![t] = desk.active]
         /\ new.state = [desk.state EXCEPT ![t] = st]
<1> DEFINE new == Entering(t, st)
<1>1. But(desk, new, Moved \cup {"life", "shown", "fresh", "pointer"})
  BY DEF Entering, But, Typed, Fields, Moved, Listed
<1>2. desk.active \in Workspace
  BY DEF Typed, SpaceTypes
<1>3. /\ new.life = [desk.life EXCEPT ![t] = "mapped"] /\ new.pointer = desk.pointer
      /\ new.home = [desk.home EXCEPT ![t] = desk.active]
      /\ new.state = [desk.state EXCEPT ![t] = st] /\ new.crashed = desk.crashed
  BY DEF Entering, Typed, Fields
<1>4. WindowTypes(new) /\ ListTypes(new)
  BY <1>2 DEF Entering, Typed, WindowTypes, ListTypes, Fields, Life
<1>5. Stepped(desk, new)
  BY <1>1, <1>3, <1>4, WindowStepped DEF Later, Typed, GrabTypes
<1> QED BY <1>1, <1>3, <1>5 DEF Stepped, SameBooks, But, Moved, Listed, Fields

LEMMA PlacedGoes ==
  ASSUME NEW d, Typed(d), NEW t \in Toplevel, d.home[t] \in Workspace
  PROVE  /\ Goes(d, Placed(d, t))
         /\ Placed(d, t).due \/ Placed(d, t).crashed # "none"
<1> DEFINE a == [d EXCEPT !.due = TRUE]
           w == d.home[t]
<1>1. CASE d.state[t] = "FLOAT"
  <2>1. Placed(d, t) = PushFloat(a, w, t)
    BY <1>1 DEF Placed
  <2>2. Kept(d, a, {"due", "crashed"}) /\ a.due
    BY DueKept DEF Typed, Fields
  <2>3. Goes(d, a) /\ Typed(a)
    BY <2>2, QuietGoes DEF Kept
  <2> HIDE DEF a
  <2>4. Goes(a, PushFloat(a, w, t))
    BY <2>3, PushFloatGoes
  <2>5. PushFloat(a, w, t).due = a.due
    BY <2>3, PushFloatKept DEF Kept, But, Fields
  <2> QED BY <2>1, <2>2, <2>3, <2>4, <2>5, GoesTwice
<1>2. CASE d.state[t] # "FLOAT"
  BY <1>2, AddedGoes DEF Placed
<1> QED BY <1>1, <1>2

LEMMA MapGoes ==
  ASSUME Typed(desk), NEW t \in Toplevel, NEW st \in State, Map(t, st)
  PROVE  \/ desk'.crashed # "none" /\ desk' = Fail(desk, "freed workspace")
         \/ /\ Exists(desk, desk.active) /\ Goes(Entering(t, st), desk')
            /\ Acting(Entering(t, st), {}) /\ Len(desk.outputs) = 1 => desk'.due \/ desk'.crashed # "none"
<1> DEFINE new == Entering(t, st)
           placed == Placed(new, t)
<1>1. CASE ~Exists(desk, desk.active)
  <2>1. desk' = Fail(desk, "freed workspace")
    BY <1>1 DEF Map
  <2> QED BY <2>1, Fails
<1>2. CASE Exists(desk, desk.active)
  <2>1. desk' = ToplevelFocus(placed, t)
    BY <1>2 DEF Map, Entering
  <2>2. /\ Typed(new) /\ new.home[t] \in Workspace /\ new.outputs = desk.outputs
    <3>1. desk.home \in [Toplevel -> Workspace \cup {None}] /\ desk.active \in Workspace
      BY DEF Typed, WindowTypes, SpaceTypes
    <3>2. Typed(new) /\ new.home = [desk.home EXCEPT ![t] = desk.active] /\ SameBooks(desk, new)
      BY EnteringTyped
    <3> HIDE DEF new
    <3> QED BY <3>1, <3>2 DEF SameBooks
  <2> HIDE DEF new
  <2>3. Goes(new, placed) /\ (placed.due \/ placed.crashed # "none") /\ Typed(placed)
    BY <2>2, PlacedGoes DEF Goes
  <2> HIDE DEF placed
  <2>4. Goes(placed, desk')
    BY <2>1, <2>3, ToplevelFocusSteady DEF Steady
  <2>5. Goes(new, desk')
    BY <2>3, <2>4, GoesTwice
  <2>6. Acting(new, {}) /\ Len(desk.outputs) = 1 => desk'.due \/ desk'.crashed # "none"
    <3> SUFFICES ASSUME Acting(new, {}), Len(desk.outputs) = 1
                 PROVE  desk'.due \/ desk'.crashed # "none"
      OBVIOUS
    <3>1. Acting(placed, {}) /\ Len(placed.outputs) = 1
      BY <2>2, <2>3 DEF Goes, SameBooks
    <3>2. Shows(placed, desk') /\ Later(placed, desk')
      BY <2>4, <3>1 DEF Goes
    <3> QED BY <2>3, <3>2 DEF Shows, Later
  <2> QED BY <1>2, <2>5, <2>6 DEF new
<1> QED BY <1>1, <1>2

SameSpaces(d, e) ==
  /\ e.output = d.output /\ e.spaces = d.spaces /\ e.dummy = d.dummy
  /\ e.outputs = d.outputs /\ e.plugged = d.plugged

LEMMA WindowsSameSpaces ==
  ASSUME Typed(desk), NEW t \in Toplevel, Create(t) \/ Destroy(t) \/ \E st \in State : Map(t, st)
  PROVE  SameSpaces(desk, desk')
<1>1. CASE Create(t)
  BY <1>1 DEF Create, SameSpaces, Typed, Fields
<1>2. CASE Destroy(t)
  BY <1>2 DEF Destroy, SameSpaces, Typed, Fields
<1>3. ASSUME NEW st \in State, Map(t, st)
      PROVE  SameSpaces(desk, desk')
  <2>1. CASE desk' = Fail(desk, "freed workspace")
    BY <2>1, FailGoes DEF Goes, SameBooks, SameSpaces
  <2>2. CASE Goes(Entering(t, st), desk')
    <3>1. SameBooks(desk, Entering(t, st))
      BY EnteringTyped
    <3> QED BY <2>2, <3>1 DEF Goes, SameBooks, SameSpaces
  <2> QED BY <1>3, <2>1, <2>2, MapGoes
<1> QED BY <1>1, <1>2, <1>3

LEMMA PerformSameSpaces ==
  ASSUME Typed(desk), PerformTransaction
  PROVE  SameSpaces(desk, desk')
<1>1. \/ desk' \in {Fail(desk, "freed workspace"), Fail(desk, "freed toplevel")}
      \/ \E p, s : desk' = [desk EXCEPT !.presented[desk.output[desk.active]] = p, !.shown = s,
                                        !.fresh = {}, !.ghosts = {}, !.due = FALSE]
  BY DEF PerformTransaction, Perform
<1>2. CASE desk' \in {Fail(desk, "freed workspace"), Fail(desk, "freed toplevel")}
  <2>1. Goes(desk, desk')
    BY <1>2, FailGoes
  <2> QED BY <2>1 DEF Goes, SameBooks, SameSpaces
<1>3. CASE \E p, s : desk' = [desk EXCEPT !.presented[desk.output[desk.active]] = p, !.shown = s,
                                        !.fresh = {}, !.ghosts = {}, !.due = FALSE]
  BY <1>3 DEF SameSpaces, Typed, Fields
<1> QED BY <1>1, <1>2, <1>3

LEMMA StartsBooked ==
  ASSUME Init
  PROVE  Booked(desk)
<1>1. PICK s \in Situation : desk = StartUp(s)
  BY DEF Init
<1> DEFINE connected == s.connected
           Of(o) == IF o \in ToSet(connected) THEN s.spaces[o] ELSE <<>>
           On(w) == {o \in Output : Contains(Of(o), w)}
<1>2. /\ connected \in Seq(Output) /\ ToSet(connected) \subseteq Output /\ IsInjective(connected)
      /\ \A o \in ToSet(connected) :
           s.spaces[o] \in Seq(Workspace) /\ s.spaces[o] # <<>> /\ IsInjective(s.spaces[o])
      /\ \A o, p \in ToSet(connected) : o # p => ToSet(s.spaces[o]) \cap ToSet(s.spaces[p]) = {}
  <2>1. /\ connected \in Seq(Output) /\ IsInjective(connected)
        /\ s.spaces \in [ToSet(connected) -> Seq(Workspace) \ {<<>>}]
        /\ \A o \in ToSet(connected) : IsInjective(s.spaces[o])
        /\ \A o, p \in ToSet(connected) : o # p => ToSet(s.spaces[o]) \cap ToSet(s.spaces[p]) = {}
    BY SituationsAreSituations
  <2> HIDE DEF connected
  <2>2. ToSet(connected) \subseteq Output
    BY <2>1, Elements
  <2> QED BY <2>1, <2>2
<1>3. /\ desk.spaces = [o \in Output |-> Of(o)]
      /\ desk.output = [w \in Workspace |-> IF On(w) = {} THEN None ELSE CHOOSE o \in On(w) : TRUE]
      /\ desk.dummy = [o \in Output |-> None]
      /\ desk.outputs = connected /\ desk.plugged = ToSet(connected)
  BY <1>1 DEF StartUp
<1>4. ASSUME NEW o \in Output
      PROVE  /\ Of(o) \in Seq(Workspace) /\ IsInjective(Of(o))
             /\ \A w : Contains(Of(o), w) <=> w \in ToSet(Of(o))
             /\ \A w : w \in ToSet(Of(o)) => o \in ToSet(connected)
  <2>1. Of(o) \in Seq(Workspace) /\ IsInjective(Of(o)) /\ (o \notin ToSet(connected) => ToSet(Of(o)) = {})
    BY <1>2, Emptied
  <2> HIDE DEF Of, connected
  <2> QED BY <2>1, Elements
<1>5. \A o, p \in Output : \A w : w \in ToSet(Of(o)) /\ w \in ToSet(Of(p)) => o = p
  <2> SUFFICES ASSUME NEW o \in Output, NEW p \in Output, o # p, NEW w, w \in ToSet(Of(o)), w \in ToSet(Of(p))
               PROVE  FALSE
    OBVIOUS
  <2>1. o \in ToSet(connected) /\ p \in ToSet(connected)
    BY <1>4
  <2> QED BY <1>2, <2>1
<1>6. ASSUME NEW o \in Output, NEW w \in Workspace
      PROVE  w \in ToSet(Of(o)) <=> desk.output[w] = o
  <2> HIDE DEF Of
  <2>1. CASE w \in ToSet(Of(o))
    <3>1. On(w) = {o}
      BY <1>4, <1>5, <2>1
    <3> QED BY <1>3, <2>1, <3>1
  <2>2. CASE w \notin ToSet(Of(o))
    <3>1. o \notin On(w)
      BY <1>4, <2>2
    <3>2. desk.output[w] = None \/ desk.output[w] \in On(w)
      BY <1>3
    <3> QED BY <2>2, <3>1, <3>2, NoneIsNoName
  <2> QED BY <2>1, <2>2
<1>7. Shelved(desk)
  <2> HIDE DEF Of, On, connected
  <2> QED BY <1>2, <1>3, <1>4, <1>6 DEF Shelved
<1>8. Furnished(desk, desk.plugged)
  BY <1>2, <1>3 DEF Furnished
<1>9. \A w \in Workspace : desk.output[w] \in desk.plugged \cup {None}
  <2> SUFFICES ASSUME NEW w \in Workspace, desk.output[w] # None PROVE desk.output[w] \in desk.plugged
    OBVIOUS
  <2> HIDE DEF Of
  <2>1. desk.output[w] \in On(w)
    BY <1>3
  <2> QED BY <1>3, <1>4, <2>1
<1> QED BY <1>7, <1>8, <1>9 DEF Booked

(* The inductive invariant: what the desk remembers about workspaces agrees. *)
Kempt == desk.crashed = "none" => Booked(desk)

LEMMA NextBooked ==
  ASSUME Typed(desk), desk.crashed = "none", Booked(desk), [Next]_vars, desk'.crashed = "none"
  PROVE  Booked(desk')
<1>1. CASE Goes(desk, desk')
  BY <1>1, SameBooked DEF Goes, SameBooks
<1>2. ASSUME NEW t \in Toplevel, Create(t) \/ Destroy(t) \/ \E st \in State : Map(t, st)
      PROVE  Booked(desk')
  BY <1>2, WindowsSameSpaces, SameBooked DEF SameSpaces
<1>3. ASSUME NEW o \in Output, NEW w \in Workspace, CreateWorkspace(o, w) \/ RemoteCreate(o, w)
      PROVE  Booked(desk')
  BY <1>3, CreateBooked DEF CreateWorkspace, RemoteCreate
<1>4. ASSUME NEW o \in Output, NEW w \in Workspace, Plug(o, w)
      PROVE  Booked(desk')
  BY <1>4, PlugBooked
<1>5. ASSUME NEW w \in Workspace, NEW n \in Workspace, DestroyWorkspace(w, n)
      PROVE  Booked(desk')
  <2>1. PICK d \in StopWhatever(Found(desk, w)) : NextWorkspace(d, w, n) /\ desk' = WorkspaceDestroy(d, w, n)
    BY <1>5 DEF DestroyWorkspace
  <2>2. Typed(d) /\ SameBooks(desk, d)
    BY StopFoundGoes DEF Goes
  <2>3. Booked(d) /\ Exists(d, w)
    BY <1>5, <2>2, SameBooked DEF DestroyWorkspace, SameBooks, Exists
  <2> QED BY <2>1, <2>2, <2>3, DestroyBooked
<1>6. ASSUME NEW w \in Workspace, NEW n \in Workspace, RemoteRemove(w, n)
      PROVE  Booked(desk')
  BY <1>6, DestroyBooked DEF RemoteRemove
<1>7. ASSUME NEW o \in Output, NEW to \in Output \cup {None}, Unplug(o, to)
      PROVE  Booked(desk')
  BY <1>7, UnplugBooked
<1>8. CASE PerformTransaction
  BY <1>8, PerformSameSpaces, SameBooked DEF SameSpaces
<1> QED BY <1>1, <1>2, <1>3, <1>4, <1>5, <1>6, <1>7, <1>8, NextGoes

LEMMA KemptAlways == Spec => [](Sane /\ Kempt)
<1>1. Init => Kempt
  BY StartsBooked DEF Kempt
<1>2. ASSUME Sane, Kempt, [Next]_vars PROVE Kempt'
  <2>1. Later(desk, desk')
    BY <1>2, NextStep DEF Sane, Stepped
  <2>2. ASSUME desk'.crashed = "none" PROVE Booked(desk')
    BY <1>2, <2>1, <2>2, NextBooked DEF Sane, Kempt, Later
  <2> QED BY <2>2 DEF Kempt
<1>3. Spec => []Kempt
  BY <1>1, <1>2, SaneAlways, PTL DEF Spec
<1> QED BY <1>3, SaneAlways, PTL

(* A dummy workspace serves only while its output has no other, whatever is  *)
(* created, destroyed, plugged in and unplugged (workspace_create,           *)
(* workspace_destroy, output_create).                                        *)
THEOREM DummiesAlone == Spec => []DummyAlone
<1>1. Sane /\ Kempt => DummyAlone
  BY DEF Kempt, Booked, Furnished, DummyAlone, Alive
<1> QED BY <1>1, KemptAlways, PTL
=============================================================================
