----------------------------- MODULE ActiveProofs -----------------------------
(***************************************************************************)
(* There is always an active workspace on an output that is plugged in,    *)
(* every window is in a workspace that exists, and on one output what is   *)
(* active is what is seen.                                                 *)
(***************************************************************************)
EXTENDS PlacesProofs

-----------------------------------------------------------------------------
(* Where the active workspace is while another is destroyed.                 *)

(* Nothing leads to w: it is not active, not on the outputs that stay.       *)
Away(d, w, gone) == d.active # w /\ \A p \in d.plugged \ gone : d.act[p] # w

(* No window believes to be in w.                                            *)
Vacant(d, w) == \A t \in Toplevel : d.life[t] = "mapped" => d.home[t] # w

LEMMA AwaySame ==
  ASSUME NEW d, NEW e, NEW w, NEW gone, Away(d, w, gone),
         e.active = d.active, e.act = d.act, e.plugged = d.plugged
  PROVE  Away(e, w, gone)
BY DEF Away

LEMMA FailAway ==
  ASSUME NEW d, Typed(d), NEW why, why # "none", NEW w, NEW gone, Away(d, w, gone)
  PROVE  Away(Fail(d, why), w, gone)
<1>1. But(d, Fail(d, why), {"crashed"})
  BY Fails DEF Kept
<1> QED BY <1>1, AwaySame DEF But, Fields

LEMMA ActiveAway ==
  ASSUME NEW d, Typed(d), NEW v \in Workspace, NEW w, v # w, NEW gone, Away(d, w, gone)
  PROVE  Away(SetActiveKeepingFocus(d, v), w, gone)
<1>1. CASE d.active = v
  BY <1>1 DEF SetActiveKeepingFocus
<1>2. CASE d.active # v /\ (~Exists(d, v) \/ ~Exists(d, d.active))
  <2>1. SetActiveKeepingFocus(d, v) = Fail(d, "freed workspace")
    BY <1>2 DEF SetActiveKeepingFocus, MakeActive
  <2> QED BY <2>1, FailAway
<1>3. CASE d.active # v /\ ~(~Exists(d, v) \/ ~Exists(d, d.active))
  <2> DEFINE e == [d EXCEPT !.active = v, !.act[d.output[v]] = v, !.due = TRUE]
  <2>1. SetActiveKeepingFocus(d, v) = e
    BY <1>3 DEF SetActiveKeepingFocus, MakeActive
  <2>2. e.active = v /\ e.act = [d.act EXCEPT ![d.output[v]] = v] /\ e.plugged = d.plugged
    BY DEF Typed, Fields
  <2> HIDE DEF e
  <2>3. d.act \in [Output -> Workspace \cup {None}] /\ d.plugged \subseteq Output
    BY Elements DEF Typed, SpaceTypes
  <2> QED BY <2>1, <2>2, <2>3 DEF Away
<1> QED BY <1>1, <1>2, <1>3

LEMMA ToplevelAway ==
  ASSUME NEW d, Typed(d), NEW t \in Toplevel \cup {None}, NEW w, NEW gone, Away(d, w, gone),
         t # None => d.home[t] # w
  PROVE  Away(ToplevelFocus(d, t), w, gone)
<1> DEFINE g == Deref(Deref(d, d.focused), t)
           f == [g EXCEPT !.focused = t]
<1>1. Typed(g) /\ But(d, g, {"crashed"})
  <2>1. Kept(d, Deref(d, d.focused), {"crashed"})
    BY DerefKept
  <2>2. Kept(Deref(d, d.focused), g, {"crashed"})
    BY <2>1, DerefKept DEF Kept
  <2>3. Kept(d, g, {"crashed"})
    BY <2>1, <2>2, KeptTwice
  <2> QED BY <2>3 DEF Kept
<1> HIDE DEF g
<1>2. But(g, f, {"focused"}) /\ f.focused = t
  BY <1>1 DEF But, Typed, Fields
<1> HIDE DEF f
<1>3. /\ f.active = d.active /\ f.act = d.act /\ f.plugged = d.plugged /\ f.output = d.output
      /\ f.home = d.home
  BY <1>1, <1>2 DEF But, Fields
<1>4. Typed(f)
  <2>1. But(g, f, Refocused)
    BY <1>2 DEF But, Refocused
  <2>2. /\ f.active = g.active /\ f.act = g.act /\ f.focused = t /\ f.layer = g.layer
        /\ f.exclusive = g.exclusive /\ f.due = g.due
    BY <1>2 DEF But, Fields
  <2>3. /\ f.active \in Workspace /\ f.act \in [Output -> Workspace \cup {None}]
        /\ \A p \in g.plugged : f.act[p] # None
        /\ f.focused \in Toplevel \cup {None} /\ f.layer \in Layer \cup {None}
        /\ f.exclusive \in BOOLEAN /\ f.due \in BOOLEAN
    BY <1>1, <2>2 DEF Typed, SpaceTypes, FocusTypes, WindowTypes
  <2> QED BY <1>1, <2>1, <2>3, RefocusTyped
<1>5. Away(f, w, gone)
  BY <1>3, AwaySame
<1>6. CASE Refused(d, t)
  BY <1>6 DEF ToplevelFocus
<1>7. CASE ~Refused(d, t) /\ t = None
  <2>1. ToplevelFocus(d, t) = f
    BY <1>7 DEF ToplevelFocus, f, g
  <2> QED BY <1>5, <2>1
<1>8. CASE ~Refused(d, t) /\ t # None /\ ~Exists(d, d.home[t])
  <2>1. ToplevelFocus(d, t) = Fail(d, "freed workspace")
    BY <1>8 DEF ToplevelFocus
  <2> QED BY <2>1, FailAway
<1>9. CASE ~Refused(d, t) /\ t # None /\ Exists(d, d.home[t])
  <2>1. ToplevelFocus(d, t) = SetActiveKeepingFocus(f, d.home[t])
    BY <1>9 DEF ToplevelFocus, f, g
  <2>2. d.home[t] \in Workspace
    BY <1>9 DEF Exists, Typed, WindowTypes
  <2> QED BY <1>4, <1>5, <1>9, <2>1, <2>2, ActiveAway
<1> QED BY <1>6, <1>7, <1>8, <1>9

LEMMA OutputAway ==
  ASSUME NEW d, Typed(d), NEW o, NEW w, NEW gone, o \notin gone, Away(d, w, gone),
         \A v \in Workspace : TopMost(d, v) # None => TopMost(d, v) \in Toplevel /\ d.home[TopMost(d, v)] # w
  PROVE  Away(OutputFocus(d, o), w, gone)
<1> DEFINE greedy == SelectInSeq(d.panels[o], LAMBDA l : d.want[l] = "exclusive")
           v == d.act[o]
           active == [d EXCEPT !.active = v]
<1>1. CASE o \notin d.plugged
  <2>1. OutputFocus(d, o) = Fail(d, "freed output")
    BY <1>1 DEF OutputFocus
  <2> QED BY <2>1, FailAway
<1>2. CASE o \in d.plugged /\ greedy # 0
  <2>1. OutputFocus(d, o) = LayerFocus(d, d.panels[o][greedy])
    BY <1>2 DEF OutputFocus
  <2>2. o \in Output
    BY <1>2, ActiveTyped
  <2> DEFINE l == d.panels[o][greedy]
  <2>3. l \in Layer
    <3>1. d.panels[o][greedy] \in ToSet(d.panels[o])
      BY <1>2, <2>2, Greedy
    <3> QED BY <2>2, <3>1, Elements DEF Typed, FocusTypes
  <2> HIDE DEF l
  <2>4. /\ LayerFocus(d, l).active = d.active /\ LayerFocus(d, l).act = d.act
        /\ LayerFocus(d, l).plugged = d.plugged
    <3> DEFINE g == Deref(d, d.focused)
    <3>1. But(d, g, {"crashed"})
      BY DerefKept DEF Kept
    <3>2. LayerFocus(d, l) = d \/ LayerFocus(d, l) = [g EXCEPT !.focused = None, !.layer = l,
                                                       !.exclusive = d.want[l] = "exclusive"]
      BY DEF LayerFocus
    <3> HIDE DEF g
    <3> QED BY <3>1, <3>2 DEF But, Fields
  <2> QED BY <2>1, <2>4, AwaySame DEF l
<1>3. CASE o \in d.plugged /\ greedy = 0
  <2>1. OutputFocus(d, o) = IF TopMost(d, v) = None THEN active ELSE ToplevelFocus(active, TopMost(d, v))
    BY <1>3 DEF OutputFocus
  <2>2. v \in Workspace /\ v # w
    BY <1>3, ActiveTyped DEF Away
  <2> HIDE DEF v
  <2>3. Typed(active)
    BY <2>2, ActiveKept DEF FocusKept, Kept
  <2>4. active.active = v /\ active.act = d.act /\ active.plugged = d.plugged /\ active.home = d.home
    BY DEF Typed, Fields
  <2>5. Away(active, w, gone)
    BY <2>2, <2>4 DEF Away
  <2> HIDE DEF active
  <2>6. TopMost(d, v) # None => TopMost(d, v) \in Toplevel /\ active.home[TopMost(d, v)] # w
    BY <2>2, <2>4
  <2>7. TopMost(d, v) # None => Away(ToplevelFocus(active, TopMost(d, v)), w, gone)
    BY <2>3, <2>5, <2>6, ToplevelAway
  <2> QED BY <2>1, <2>5, <2>7
<1> QED BY <1>1, <1>2, <1>3

(* What is emptied is nobody's home, where no window is misplaced.           *)
LEMMA EmptierVacant ==
  ASSUME NEW d, Calm(d), d.kinds \cap Grabbing = {}, NEW w \in Workspace, Emptier(d, w)
  PROVE  Vacant(d, w)
<1> SUFFICES ASSUME NEW t \in Toplevel, d.life[t] = "mapped", d.home[t] = w PROVE FALSE
  BY DEF Vacant
<1>1. d.grabbed = None
  BY DEF Calm, Neat, Pointing
<1>2. Place(d, t) = Only(d.state[t], w) /\ d.state[t] \in State
  BY <1>1, NoneIsNoName DEF Calm, Neat, Tidy, IsAt, InPlace, Typed, WindowTypes
<1>3. w \notin Tiling(d, t) /\ w \notin Floating(d, t) /\ w \notin Filling(d, t)
  BY Emptied, NoneIsNoName DEF Emptier, Tiling, Floating, Filling
<1> QED BY <1>2, <1>3 DEF Place, Only, State

LEMMA ReadySame ==
  ASSUME NEW d, Typed(d), NEW o \in d.plugged, NEW n \in Workspace, NEW e, e = WithDummy(d, o, n)
  PROVE  /\ e.act = d.act /\ e.active = d.active /\ e.life = d.life /\ e.home = d.home
         /\ e.shown = d.shown /\ e.due = d.due /\ e.presented = d.presented
         /\ e.master = d.master /\ e.slaves = d.slaves /\ e.kinds = d.kinds
         /\ e.grabbed = d.grabbed /\ e.crashed = d.crashed
<1> DEFINE c == WorkspaceCreate(d, o, n)
<1>0. DOMAIN d = Fields /\ d.act[o] # None /\ d.active # None /\ o \in Output
      /\ d.act \in [Output -> Workspace \cup {None}]
  BY ActiveTyped, NoneIsNoName DEF Typed, SpaceTypes
<1>1. [d.act EXCEPT ![o] = d.act[o]] = d.act
  BY <1>0
<1>2. /\ c.act = d.act /\ c.active = d.active /\ c.life = d.life /\ c.home = d.home
      /\ c.shown = d.shown /\ c.due = d.due /\ c.presented = d.presented
      /\ c.master = d.master /\ c.slaves = d.slaves /\ c.kinds = d.kinds
      /\ c.grabbed = d.grabbed /\ c.crashed = d.crashed /\ DOMAIN c = Fields
  <2>1. CASE d.dummy[o] # None
    BY <1>0, <2>1 DEF WorkspaceCreate, Fields
  <2>2. CASE d.dummy[o] = None
    BY <1>0, <1>1, <2>2 DEF WorkspaceCreate, Fields
  <2> QED BY <2>1, <2>2
<1>3. e = d \/ e = [c EXCEPT !.dummy[o] = n]
  BY DEF WithDummy
<1> HIDE DEF c
<1> QED BY <1>2, <1>3 DEF Fields

(* A workspace that is freed while nothing leads to it.                      *)
LEMMA FreedActing ==
  ASSUME NEW d, Typed(d), NEW gone, NEW w \in Workspace, NEW e, e = FreeWorkspace(d, w)
  PROVE  /\ Away(d, w, gone) /\ Acting(d, gone) => Acting(e, gone) /\ Away(e, w, gone)
         /\ Vacant(d, w) /\ Housed(d) => Housed(e)
         /\ e.life = d.life /\ e.home = d.home /\ e.due = d.due /\ e.shown = d.shown
         /\ e.active = d.active /\ e.act = d.act /\ e.crashed = d.crashed
         /\ \A p \in Output : e.presented[p] \in {d.presented[p], None}
         /\ \A v \in Workspace : Tiles(e, v) \subseteq Tiles(d, v)
<1> DEFINE o == d.output[w]
<1>1. /\ e.output = [d.output EXCEPT ![w] = None] /\ e.active = d.active /\ e.act = d.act
      /\ e.plugged = d.plugged /\ e.life = d.life /\ e.home = d.home /\ e.due = d.due
      /\ e.shown = d.shown /\ e.crashed = d.crashed
      /\ e.presented = [d.presented EXCEPT ![o] = IF d.presented[o] = w THEN None ELSE d.presented[o]]
      /\ e.master = [d.master EXCEPT ![w] = None] /\ e.slaves = [d.slaves EXCEPT ![w] = <<>>]
  BY DEF FreeWorkspace, Typed, Fields
<1>2. /\ d.output \in [Workspace -> Output \cup {None}] /\ d.presented \in [Output -> Workspace \cup {None}]
      /\ d.master \in [Workspace -> Toplevel \cup {None}] /\ d.slaves \in [Workspace -> Seq(Toplevel)]
      /\ d.act \in [Output -> Workspace \cup {None}] /\ d.plugged \subseteq Output /\ d.active \in Workspace
      /\ \A p \in d.plugged : d.act[p] # None
  BY Elements DEF Typed, SpaceTypes, ListTypes
<1> HIDE DEF o
<1>3. \A p \in Output : e.presented[p] \in {d.presented[p], None}
  BY <1>1, <1>2
<1>4. \A v \in Workspace : Tiles(e, v) \subseteq Tiles(d, v)
  BY <1>1, <1>2, Emptied DEF Tiles
<1>5. \A v \in Workspace : e.output[v] = IF v = w THEN None ELSE d.output[v]
  BY <1>1, <1>2
<1>6. ASSUME Away(d, w, gone), Acting(d, gone)
      PROVE  Acting(e, gone) /\ Away(e, w, gone)
  <2>1. \A p \in d.plugged \ gone : d.act[p] \in Workspace /\ d.act[p] # w
    BY <1>2, <1>6 DEF Away
  <2>2. d.active # w
    BY <1>6 DEF Away
  <2> QED BY <1>1, <1>2, <1>5, <1>6, <2>1, <2>2 DEF Acting, Away, Exists
<1>7. ASSUME Vacant(d, w), Housed(d)
      PROVE  Housed(e)
  <2>1. d.home \in [Toplevel -> Workspace \cup {None}]
    BY DEF Typed, WindowTypes
  <2> QED BY <1>1, <1>5, <1>7, <2>1 DEF Vacant, Housed, Exists
<1> QED BY <1>1, <1>3, <1>4, <1>6, <1>7

-----------------------------------------------------------------------------
(* A workspace that is emptied and destroyed, on an output that stays.       *)

LEMMA EvacuatedShows ==
  ASSUME NEW d, Calm(d), "fullscreen" \notin d.kinds, NEW w \in Workspace, NEW n \in Workspace, w # n,
         NEW e, e = Evacuate(d, w, n), e.crashed = "none"
  PROVE  e.due \/ (~d.due /\ \A v \in Workspace : Tiles(e, v) \subseteq Tiles(d, v))
<1> DEFINE leaving == IF d.master[w] = None THEN <<>>
                      ELSE <<d.master[w]>> \o Reverse(d.slaves[w])
           tiles == IF d.master[n] = None THEN leaving
                    ELSE <<d.master[n]>> \o d.slaves[n] \o leaving
           full == d.fullscreen[w]
           home == [t \in Toplevel |-> IF t \in Members(d, w) THEN n ELSE d.home[t]]
           fullscreen == [d.fullscreen EXCEPT ![w] = None,
                                              ![n] = IF full = None THEN d.fullscreen[n] ELSE full]
           floats == [d.floats EXCEPT ![w] = <<>>, ![n] = Reverse(d.floats[w]) \o d.floats[n]]
           master == [d.master EXCEPT ![w] = None, ![n] = FirstOrNone(tiles)]
           slaves == [d.slaves EXCEPT ![w] = <<>>, ![n] = IF tiles = <<>> THEN <<>> ELSE Tail(tiles)]
           due == d.due \/ full # None \/ (d.floats[w] # <<>> /\ d.output[w] # d.output[n])
           moved == [d EXCEPT !.home = home, !.fullscreen = fullscreen, !.floats = floats,
                              !.master = master, !.slaves = slaves, !.due = due]
<1>0. Typed(d) /\ Ordered(d) /\ None \notin Toplevel
  BY NoneIsNoName DEF Calm, Neat, Tidy
<1>1. MergedInto(d, e, w, n)
  BY EvacuatedLists
<1>2. e = IF leaving = <<>> THEN moved
          ELSE IF \E t \in ToSet(leaving) : d.home[t] # w THEN Fail(d, "wrong list")
          ELSE Configure(moved, n)
  BY <1>0 DEF Evacuate, Typed, Fields
<1>3. moved.due = due /\ DOMAIN moved = Fields
  BY <1>0 DEF Typed, Fields
<1>4. d.due => due
  OBVIOUS
<1> HIDE DEF moved, due, tiles
<1>5. CASE d.master[w] = None
  <2>1. leaving = <<>> /\ d.slaves[w] = <<>>
    BY <1>0, <1>5 DEF Ordered
  <2>2. e = moved
    BY <1>2, <2>1
  <2>3. ASSUME NEW v \in Workspace PROVE Tiles(e, v) \subseteq Tiles(d, v)
    <3>1. CASE v = w
      BY <1>1, <3>1, Emptied DEF MergedInto, Emptier, Tiles
    <3>2. CASE v = n
      BY <1>1, <1>5, <2>1, <3>2, Emptied DEF MergedInto, Tiles
    <3>3. CASE v \notin {w, n}
      BY <1>1, <3>3 DEF MergedInto, Tiles
    <3> QED BY <3>1, <3>2, <3>3
  <2> QED BY <1>3, <1>4, <2>2, <2>3
<1>6. CASE d.master[w] # None
  <2>1. d.master[w] \in Toplevel /\ d.slaves[w] \in Seq(Toplevel)
    BY <1>0, <1>6, WindowsOf
  <2>2. leaving # <<>>
    <3>1. Reverse(d.slaves[w]) \in Seq(Toplevel) /\ <<d.master[w]>> \in Seq(Toplevel)
          /\ ToSet(<<d.master[w]>>) = {d.master[w]}
      BY <2>1, Reversed, Single
    <3> DEFINE a == <<d.master[w]>>
               b == Reverse(d.slaves[w])
    <3>2. leaving = a \o b
      BY <1>6
    <3> HIDE DEF a, b, leaving
    <3>3. d.master[w] \in ToSet(a \o b)
      <4>1. a \in Seq(Toplevel) /\ b \in Seq(Toplevel) /\ d.master[w] \in ToSet(a)
        BY <3>1 DEF a, b
      <4> QED BY <4>1, Joined
    <3> QED BY <3>2, <3>3, Emptied
  <2>3. Fail(d, "wrong list").crashed # "none"
    BY <1>0, Fails
  <2>4. e = Configure(moved, n)
    BY <1>2, <2>2, <2>3
  <2>5. e.master[n] # None
    <3>1. d.master[w] \in (ToSet(e.slaves[n]) \cup {e.master[n]}) \ {None}
      BY <1>1, <1>6 DEF MergedInto
    <3>2. e.master[n] = None => e.slaves[n] = <<>>
      BY <1>1 DEF MergedInto, Chain
    <3> QED BY <3>1, <3>2, Emptied
  <2>6. e.due
    <3>1. \/ e = moved /\ moved.master[n] = None
          \/ e = Fail(moved, "configured unmapped") \/ e = Fail(moved, "freed workspace")
          \/ e = [moved EXCEPT !.due = TRUE]
      BY <2>4 DEF Configure
    <3>2. Fail(moved, "configured unmapped").crashed # "none" /\ Fail(moved, "freed workspace").crashed # "none"
      BY <1>3 DEF Fail, Fields
    <3> QED BY <1>3, <2>5, <3>1, <3>2 DEF Fields
  <2> QED BY <2>6
<1> QED BY <1>5, <1>6

(* The output has its next workspace, and shows it instead of w.             *)
Turned(d, w, n) ==
  LET ready == WithDummy(d, d.output[w], n) IN
  [ready EXCEPT !.act[d.output[w]] = IF ready.act[d.output[w]] = w THEN n ELSE ready.act[d.output[w]]]

LEMMA TurnedActing ==
  ASSUME NEW d, Typed(d), Booked(d), Acting(d, {}), NEW w \in Workspace, Exists(d, w),
         NEW n \in Workspace, NextWorkspace(d, w, n), n # w
  PROVE  LET e == Turned(d, w, n)
             o == d.output[w] IN
         /\ Typed(e) /\ o \in d.plugged /\ e.plugged = d.plugged /\ e.outputs = d.outputs
         /\ e.output[n] = o /\ e.output[w] = o
         /\ \A p \in d.plugged : e.output[e.act[p]] = p /\ e.act[p] # w
         /\ e.active = d.active /\ Exists(e, d.active)
         /\ d.active # w => e.act[e.output[d.active]] = d.active
         /\ d.active # w /\ Len(d.outputs) = 1 => e.act = d.act
         /\ Elsewhere(d, e)
         /\ Housed(d) => Housed(e)
         /\ e.life = d.life /\ e.home = d.home /\ e.shown = d.shown /\ e.due = d.due
         /\ e.presented = d.presented /\ e.kinds = d.kinds /\ e.crashed = d.crashed
         /\ \A v \in Workspace : Tiles(e, v) = Tiles(d, v)
<1> DEFINE o == d.output[w]
           ready == WithDummy(d, o, n)
           act == [ready.act EXCEPT ![o] = IF ready.act[o] = w THEN n ELSE ready.act[o]]
           e == Turned(d, w, n)
<1>1. /\ Typed(ready) /\ o \in d.plugged /\ ready.output[n] = o
      /\ ready.outputs = d.outputs /\ ready.plugged = d.plugged
      /\ ready = d \/ (~Exists(d, n) /\ ready.output = [d.output EXCEPT ![n] = o])
  BY ReadyBooked
<1>2. /\ ready.act = d.act /\ ready.active = d.active /\ ready.life = d.life /\ ready.home = d.home
      /\ ready.shown = d.shown /\ ready.due = d.due /\ ready.presented = d.presented
      /\ ready.master = d.master /\ ready.slaves = d.slaves /\ ready.kinds = d.kinds
      /\ ready.crashed = d.crashed
  <2>1. o \in d.plugged
    BY <1>1
  <2> HIDE DEF o
  <2> QED BY <2>1, ReadySame
<1>3. Typed(e)
  <2>1. (IF ready.act[o] = w THEN n ELSE ready.act[o]) \in Workspace
        \/ (IF ready.act[o] = w THEN n ELSE ready.act[o]) = ready.act[o]
    OBVIOUS
  <2>2. e = [ready EXCEPT !.act[o] = IF ready.act[o] = w THEN n ELSE ready.act[o]]
    BY DEF Turned
  <2> HIDE DEF e, ready, o
  <2> QED BY <1>1, <2>1, <2>2, ActKept DEF SpaceKept, Kept
<1>4. /\ e.act = act /\ e.output = ready.output /\ e.plugged = d.plugged /\ e.outputs = d.outputs
      /\ e.active = d.active /\ e.life = d.life /\ e.home = d.home /\ e.shown = d.shown /\ e.due = d.due
      /\ e.presented = d.presented /\ e.kinds = d.kinds /\ e.crashed = d.crashed
      /\ e.master = d.master /\ e.slaves = d.slaves
  <2>1. e = [ready EXCEPT !.act[o] = IF ready.act[o] = w THEN n ELSE ready.act[o]]
    BY DEF Turned
  <2>2. DOMAIN ready = Fields
    BY <1>1 DEF Typed
  <2> HIDE DEF e, ready, o
  <2> QED BY <1>1, <1>2, <2>1, <2>2 DEF Fields
<1>5. /\ d.output \in [Workspace -> Output \cup {None}] /\ d.act \in [Output -> Workspace \cup {None}]
      /\ d.plugged \subseteq Output /\ d.active \in Workspace /\ d.home \in [Toplevel -> Workspace \cup {None}]
      /\ None \notin Output /\ None \notin Workspace
  BY Elements, NoneIsNoName DEF Typed, SpaceTypes, WindowTypes
<1>6. \A p \in d.plugged : d.act[p] \in Workspace /\ d.output[d.act[p]] = p
  BY ActiveTyped DEF Acting
<1>7. \A v \in Workspace : d.output[v] # None => ready.output[v] = d.output[v]
  <2> HIDE DEF ready, o
  <2> QED BY <1>1, <1>5 DEF Exists
<1> HIDE DEF e, ready
<1>8. \A p \in d.plugged : act[p] = IF p = o /\ d.act[p] = w THEN n ELSE d.act[p]
  BY <1>2, <1>5
<1>9. ASSUME NEW p \in d.plugged PROVE e.output[e.act[p]] = p /\ e.act[p] # w
  <2>1. CASE p = o /\ d.act[p] = w
    BY <1>1, <1>4, <1>8, <2>1
  <2>2. CASE ~(p = o /\ d.act[p] = w)
    <3>1. e.act[p] = d.act[p]
      BY <1>4, <1>8, <2>2
    <3>2. ready.output[d.act[p]] = p
      BY <1>5, <1>6, <1>7
    <3> QED BY <1>4, <1>6, <2>2, <3>1, <3>2
  <2> QED BY <2>1, <2>2
<1>10. Exists(e, d.active) /\ d.output[d.active] \in d.plugged /\ e.output[d.active] = d.output[d.active]
  <2>1. d.output[d.active] # None
    BY DEF Acting, Exists
  <2>2. d.output[d.active] \in d.plugged
    BY <1>5, <2>1 DEF Booked
  <2> QED BY <1>4, <1>5, <1>7, <2>1, <2>2 DEF Exists
<1>11. ASSUME d.active # w PROVE e.act[e.output[d.active]] = d.active
  <2>1. d.act[d.output[d.active]] = d.active
    BY DEF Acting
  <2> QED BY <1>4, <1>8, <1>10, <1>11, <2>1
<1>12. ASSUME d.active # w, Len(d.outputs) = 1 PROVE e.act = d.act
  <2>1. d.output[d.active] \in ToSet(d.outputs) /\ o \in ToSet(d.outputs) /\ d.outputs \in Seq(Output)
    BY <1>1, <1>10 DEF Typed, SpaceTypes
  <2>2. d.output[d.active] = o
    BY <1>12, <2>1, OneOf
  <2>3. d.act[o] # w
    BY <1>12, <2>2 DEF Acting
  <2>4. act = d.act
    BY <1>2, <1>5, <2>3
  <2> QED BY <1>4, <2>4
<1>13. Housed(d) => Housed(e)
  <2> HIDE DEF act
  <2> QED BY <1>4, <1>5, <1>7 DEF Housed, Exists
<1>14. e.output[n] = o /\ e.output[w] = o
  <2>1. d.output[w] # None
    BY DEF Exists
  <2> QED BY <1>1, <1>4, <1>7, <2>1
<1>15. \A v \in Workspace : Tiles(e, v) = Tiles(d, v)
  BY <1>4 DEF Tiles
<1>16. Elsewhere(d, e)
  <2>1. o \in ToSet(d.outputs)
    BY <1>1 DEF Typed, SpaceTypes
  <2> QED BY <1>2, <1>4, <1>5, <2>1 DEF Elsewhere
<1> HIDE DEF act
<1> QED BY <1>1, <1>3, <1>4, <1>9, <1>10, <1>11, <1>12, <1>13, <1>14, <1>15, <1>16 DEF e

LEMMA DestroyActing ==
  ASSUME NEW d, Calm(d), Booked(d), "fullscreen" \notin d.kinds, d.kinds \cap Grabbing = {},
         Acting(d, {}), Housed(d), NEW w \in Workspace, Exists(d, w), NEW n \in Workspace,
         NextWorkspace(d, w, n), NEW e, e = WorkspaceDestroy(d, w, n), e.crashed = "none"
  PROVE  /\ Acting(e, {}) /\ Housed(e) /\ Elsewhere(d, e)
         /\ Len(d.outputs) = 1 => Shows(d, e)
         /\ \A p \in Output : e.presented[p] \in {d.presented[p], None}
<1> DEFINE o == d.output[w]
           ready == WithDummy(d, o, n)
           turned == Turned(d, w, n)
           empty == Evacuate(turned, w, n)
           m == MakeActive(empty, n)
           left == IF empty.active = w THEN SetActive(empty, n) ELSE empty
<1>0. Typed(d) /\ o \in ToSet(d.outputs)
  BY DEF Calm, Typed, SpaceTypes, Exists
<1>1. w # n /\ e = FreeWorkspace(left, w)
  <2>1. Fail(d, "endless loop").crashed # "none" /\ Fail(d, "freed workspace").crashed # "none"
    BY <1>0, Fails
  <2>2. WorkspaceDestroy(d, w, n) = IF n = w THEN Fail(d, IF d.master[w] # None THEN "endless loop" ELSE "freed workspace")
                                    ELSE FreeWorkspace(left, w)
    BY DEF WorkspaceDestroy, Turned
  <2> HIDE DEF left
  <2> QED BY <2>1, <2>2
<1>2. Calm(ready) /\ ready.kinds = d.kinds
  BY <1>0, CreatedCalm, WithDummyKept DEF SpaceKept, Kept, But, Spaced, Fields
<1>3. Calm(turned)
  <2>1. turned = [ready EXCEPT !.act[o] = IF ready.act[o] = w THEN n ELSE ready.act[o]]
    BY DEF Turned
  <2>2. (IF ready.act[o] = w THEN n ELSE ready.act[o]) \in Workspace
        \/ (IF ready.act[o] = w THEN n ELSE ready.act[o]) = ready.act[o]
    OBVIOUS
  <2> HIDE DEF turned, ready, o
  <2> QED BY <1>2, <2>1, <2>2, ActCalm
<1>4. /\ Typed(turned) /\ o \in d.plugged /\ turned.plugged = d.plugged /\ turned.outputs = d.outputs
      /\ turned.output[n] = o /\ turned.output[w] = o
      /\ \A p \in d.plugged : turned.output[turned.act[p]] = p /\ turned.act[p] # w
      /\ turned.active = d.active /\ Exists(turned, d.active)
      /\ d.active # w => turned.act[turned.output[d.active]] = d.active
      /\ d.active # w /\ Len(d.outputs) = 1 => turned.act = d.act
      /\ Elsewhere(d, turned)
      /\ Housed(d) => Housed(turned)
      /\ turned.life = d.life /\ turned.home = d.home /\ turned.shown = d.shown /\ turned.due = d.due
      /\ turned.presented = d.presented /\ turned.kinds = d.kinds /\ turned.crashed = d.crashed
      /\ \A v \in Workspace : Tiles(turned, v) = Tiles(d, v)
  BY <1>0, <1>1, TurnedActing
<1> HIDE DEF turned, ready
<1>5. /\ SameBooks(turned, empty) /\ empty.act = turned.act /\ empty.active = d.active
      /\ empty.life = d.life /\ empty.shown = d.shown /\ Typed(empty)
  BY <1>4, EvacuateBooks
<1> HIDE DEF empty
<1>6. FocusKept(empty, left) /\ FocusKept(empty, m)
  BY <1>5, SetActiveKept, MakeActiveKept, FocusSame
<1>7. Typed(left) /\ left.crashed = "none"
  <2>1. Typed(left)
    BY <1>6 DEF FocusKept, Kept
  <2> HIDE DEF left
  <2> QED BY <1>1, <2>1, FreeWorkspaceKept DEF SpaceKept, Kept, Later
<1>8. empty.crashed = "none"
  <2> HIDE DEF left
  <2> QED BY <1>6, <1>7 DEF FocusKept, Kept, Later
<1>9. Calm(empty) /\ Emptier(empty, w) /\ empty.kinds = d.kinds
  <2>1. "fullscreen" \notin turned.kinds
    BY <1>4
  <2>2. Calm(empty) /\ Emptier(empty, w)
    BY <1>1, <1>3, <1>8, <2>1, Evacuated DEF empty
  <2>3. empty.kinds = turned.kinds
    <3>1. Kept(turned, empty, Moved)
      BY <1>4, EvacuateMoves DEF empty
    <3> QED BY <3>1 DEF Kept, But, Moved, Listed, Fields
  <2> QED BY <1>4, <2>2, <2>3
<1>10. Vacant(empty, w)
  BY <1>9, EmptierVacant
<1>11. Housed(empty)
  <2>1. \A t \in Toplevel : empty.home[t] \in {n, d.home[t]}
    <3>1. empty.home = [t \in Toplevel |-> IF t \in Members(turned, w) THEN n ELSE turned.home[t]]
      BY <1>1, <1>3, <1>4, <1>8, EvacuatedLists DEF empty
    <3> QED BY <1>4, <3>1
  <2>2. turned.output[n] # None /\ n # None
    BY <1>0, <1>4, NoneIsNoName DEF Exists
  <2> QED BY <1>4, <1>5, <2>1, <2>2 DEF Housed, Exists, SameBooks
<1>12. empty.due \/ (~d.due /\ \A v \in Workspace : Tiles(empty, v) \subseteq Tiles(d, v))
  BY <1>1, <1>3, <1>4, <1>8, EvacuatedShows DEF empty
<1>13. /\ empty.output[n] = o /\ empty.output[w] = o /\ empty.plugged = d.plugged /\ empty.outputs = d.outputs
       /\ \A p \in d.plugged : empty.output[empty.act[p]] = p /\ empty.act[p] # w
       /\ Exists(empty, d.active) /\ empty.presented = d.presented
       /\ d.active # w => empty.act[empty.output[d.active]] = d.active
  BY <1>4, <1>5 DEF SameBooks, Exists
<1>14. Acting(left, {}) /\ Away(left, w, {}) /\ Housed(left) /\ Vacant(left, w) /\ Elsewhere(d, left)
       /\ left.presented = d.presented /\ (Len(d.outputs) = 1 => Shows(d, left))
  <2>1. CASE d.active # w
    <3>1. left = empty
      BY <1>5, <2>1
    <3>2. Acting(empty, {}) /\ Away(empty, w, {})
      BY <1>5, <1>13, <2>1 DEF Acting, Away
    <3>3. ASSUME Len(d.outputs) = 1 PROVE Shows(d, empty)
      BY <1>4, <1>5, <1>12, <2>1, <3>3 DEF Shows
    <3>4. Elsewhere(d, empty)
      BY <1>4, <1>5 DEF Elsewhere
    <3> QED BY <1>10, <1>11, <1>13, <3>1, <3>2, <3>3, <3>4
  <2>2. CASE d.active = w
    <3>1. left = OutputFocus(m, o)
      BY <1>1, <1>5, <1>13, <2>2 DEF SetActive
    <3>2. m = [empty EXCEPT !.active = n, !.act[o] = n, !.due = TRUE]
      <4>1. Exists(empty, n) /\ Exists(empty, empty.active)
        <5>1. o # None /\ n # None
          BY NoneIsNoName DEF Exists
        <5> QED BY <1>5, <1>13, <2>2, <5>1 DEF Exists
      <4> QED BY <1>13, <4>1 DEF MakeActive
    <3>3. /\ m.active = n /\ m.act = [empty.act EXCEPT ![o] = n] /\ m.due = TRUE
          /\ m.output = empty.output /\ m.plugged = empty.plugged /\ m.outputs = empty.outputs
          /\ m.presented = empty.presented /\ m.home = empty.home /\ m.life = empty.life
      BY <1>5, <3>2 DEF Typed, Fields
    <3> HIDE DEF m, left
    <3>4. Typed(m) /\ Calm(m)
      BY <1>5, <1>9, ActiveFocused, FocusCalm DEF m, Calm
    <3>5. \A p \in d.plugged : m.act[p] = IF p = o THEN n ELSE empty.act[p]
      <4>1. empty.act \in [Output -> Workspace \cup {None}] /\ d.plugged \subseteq Output
        BY <1>0, <1>5, Elements DEF Typed, SpaceTypes
      <4> QED BY <3>3, <4>1
    <3>6. Acting(m, {})
      <4>1. Exists(m, n) /\ m.output[n] = o /\ m.act[o] = n
        <5>1. o # None /\ n # None
          BY NoneIsNoName DEF Exists
        <5> QED BY <1>4, <1>13, <3>3, <3>5, <5>1 DEF Exists
      <4> QED BY <1>13, <3>3, <3>5, <4>1 DEF Acting
    <3>7. Away(m, w, {})
      BY <1>1, <1>13, <3>3, <3>5 DEF Away
    <3>8. Housed(m) /\ Vacant(m, w)
      BY <1>10, <1>11, <3>3 DEF Housed, Vacant, Exists
    <3>9. \A v \in Workspace : TopMost(m, v) # None => TopMost(m, v) \in Toplevel /\ m.home[TopMost(m, v)] # w
      BY <3>4, <3>8, TopMostIsMapped DEF Vacant
    <3>10. Goes(m, left) /\ Acting(left, {}) /\ Elsewhere(m, left)
      BY <3>1, <3>4, <3>6, OutputFocusGoes
    <3>11. Away(left, w, {})
      BY <3>1, <3>4, <3>7, <3>9, OutputAway
    <3>12. FocusKept(m, left)
      BY <3>1, <3>4, OutputFocusKept
    <3>13. Vacant(left, w) /\ Housed(left) /\ left.presented = d.presented
      <4>1. left.life = m.life /\ left.home = m.home /\ left.output = m.output /\ left.presented = m.presented
        BY <3>12 DEF FocusKept, Kept, But, Refocused, Fields
      <4> QED BY <1>13, <3>3, <3>8, <4>1 DEF Vacant, Housed, Exists
    <3>14. ASSUME Len(d.outputs) = 1 PROVE Shows(d, left)
      <4>1. Shows(m, left)
        BY <1>13, <3>3, <3>6, <3>10, <3>14 DEF Goes
      <4> QED BY <3>3, <4>1 DEF Shows
    <3>15. Elsewhere(d, left)
      <4>1. Elsewhere(d, m)
        <5>1. d.act \in [Output -> Workspace \cup {None}] /\ empty.act \in [Output -> Workspace \cup {None}]
          BY <1>0, <1>5 DEF Typed, SpaceTypes
        <5> QED BY <1>0, <1>4, <1>5, <3>3, <5>1 DEF Elsewhere
      <4> QED BY <1>13, <3>3, <3>10, <4>1 DEF Elsewhere
    <3> QED BY <3>10, <3>11, <3>13, <3>14, <3>15
  <2> QED BY <2>1, <2>2
<1> HIDE DEF left, m, o
<1>15. /\ Acting(e, {}) /\ Housed(e)
       /\ e.due = left.due /\ e.shown = left.shown /\ e.active = left.active /\ e.act = left.act
       /\ e.crashed = left.crashed
       /\ \A p \in Output : e.presented[p] \in {left.presented[p], None}
       /\ \A v \in Workspace : Tiles(e, v) \subseteq Tiles(left, v)
  BY <1>1, <1>7, <1>14, FreedActing
<1>16. ASSUME Len(d.outputs) = 1 PROVE Shows(d, e)
  <2>1. Shows(d, left)
    BY <1>14, <1>16
  <2> QED BY <1>15, <2>1 DEF Shows
<1>17. Elsewhere(d, e)
  BY <1>14, <1>15 DEF Elsewhere
<1> QED BY <1>14, <1>15, <1>16, <1>17

-----------------------------------------------------------------------------
(* Workspaces that are emptied and freed with their output.                  *)

(* One of them: its windows, and the user, go to the next output.            *)
LEMMA UnpluggedActing ==
  ASSUME NEW d, Calm(d), "fullscreen" \notin d.kinds, d.kinds \cap Grabbing = {},
         NEW w \in Workspace, NEW o \in Output, d.output[w] = o,
         NEW p, p = NextOrPrev(d.outputs, d.output[w]), p # None, p # o,
         NEW n, n = FirstOrNone(d.spaces[p]),
         p \in d.plugged => n \in Workspace \ {w} /\ d.output[n] = p,
         Acting(d, {o}), Housed(d), NEW e, e = WorkspaceUnplug(d, w), e.crashed = "none"
  PROVE  Acting(e, {o}) /\ Housed(e) /\ Elsewhere(d, e)
<1> DEFINE empty == Evacuate(d, w, n)
           m == MakeActive(empty, n)
           left == IF empty.active = w THEN SetActive(empty, n) ELSE empty
<1>0. Typed(d) /\ None \notin Output /\ None \notin Workspace
  BY NoneIsNoName DEF Calm
<1>1. p \in d.plugged
  <2>1. Fail(d, "freed output").crashed # "none"
    BY <1>0, Fails
  <2> QED BY <2>1 DEF WorkspaceUnplug
<1>2. n \in Workspace /\ n # w /\ d.output[n] = p /\ p \in Output
  BY <1>0, <1>1, ActiveTyped
<1>3. SameBooks(d, empty) /\ empty.act = d.act /\ empty.active = d.active
      /\ empty.life = d.life /\ Typed(empty)
  <2>1. Kept(d, empty, Moved)
    BY <1>0, <1>2, EvacuateMoves
  <2> HIDE DEF empty
  <2> QED BY <1>0, <2>1 DEF Kept, But, Moved, Listed, Fields, Typed, SameBooks
<1>4. e = FreeWorkspace(left, w)
  <2>1. e = FreeWorkspace(IF d.active = w THEN SetActive(empty, n) ELSE empty, w)
    BY <1>1 DEF WorkspaceUnplug
  <2> QED BY <1>3, <2>1
<1> HIDE DEF empty
<1>5. FocusKept(empty, left) /\ FocusKept(empty, m)
  BY <1>2, <1>3, SetActiveKept, MakeActiveKept, FocusSame
<1>6. Typed(left) /\ left.crashed = "none"
  <2>1. Typed(left)
    BY <1>5 DEF FocusKept, Kept
  <2> HIDE DEF left
  <2> QED BY <1>4, <2>1, FreeWorkspaceKept DEF SpaceKept, Kept, Later
<1>7. empty.crashed = "none"
  <2> HIDE DEF left
  <2> QED BY <1>5, <1>6 DEF FocusKept, Kept, Later
<1>8. Calm(empty) /\ Emptier(empty, w)
  BY <1>2, <1>7, Evacuated DEF empty
<1>9. Vacant(empty, w)
  <2>1. Kept(d, empty, Moved)
    BY <1>0, <1>2, EvacuateMoves DEF empty
  <2>2. empty.kinds = d.kinds
    BY <2>1 DEF Kept, But, Moved, Listed, Fields
  <2> QED BY <1>8, <2>2, EmptierVacant
<1>10. Housed(empty)
  <2>1. \A t \in Toplevel : empty.home[t] \in {n, d.home[t]}
    <3>1. empty.home = [t \in Toplevel |-> IF t \in Members(d, w) THEN n ELSE d.home[t]]
      BY <1>2, <1>7, EvacuatedLists DEF empty
    <3> QED BY <3>1
  <2> QED BY <1>0, <1>2, <1>3, <2>1 DEF Housed, Exists, SameBooks
<1>11. Acting(empty, {o}) /\ \A q \in empty.plugged \ {o} : empty.act[q] # w
  BY <1>3 DEF Acting, Exists, SameBooks
<1>12. empty.output[n] = p /\ empty.outputs = d.outputs
  BY <1>2, <1>3 DEF SameBooks
<1>13. Elsewhere(d, empty)
  BY <1>3 DEF Elsewhere
<1>14. Acting(left, {o}) /\ Away(left, w, {o}) /\ Housed(left) /\ Vacant(left, w) /\ Elsewhere(d, left)
  <2>1. CASE empty.active # w
    <3>1. left = empty
      BY <2>1
    <3>2. Away(empty, w, {o})
      BY <1>11, <2>1 DEF Away
    <3> QED BY <1>9, <1>10, <1>11, <1>13, <3>1, <3>2
  <2>2. CASE empty.active = w
    <3>1. left = OutputFocus(m, p)
      BY <1>2, <1>12, <2>2 DEF SetActive
    <3>2. Steady(empty, m)
      BY <1>2, <1>3, MakeActiveSteady
    <3>3. m = [empty EXCEPT !.active = n, !.act[p] = n, !.due = TRUE]
      <4>1. Exists(empty, n) /\ Exists(empty, empty.active)
        BY <1>0, <1>2, <1>11, <1>12 DEF Exists, Acting
      <4> QED BY <1>12, <4>1 DEF MakeActive
    <3>4. /\ m.active = n /\ m.act = [empty.act EXCEPT ![p] = n] /\ m.plugged = empty.plugged
          /\ m.output = empty.output /\ m.home = empty.home /\ m.life = empty.life
          /\ m.outputs = empty.outputs
      BY <1>3, <3>3 DEF Typed, Fields
    <3> HIDE DEF m, left
    <3>5. Typed(m) /\ Calm(m)
      BY <1>2, <1>3, <1>8, ActiveFocused, FocusCalm DEF m, Calm
    <3>6. Acting(m, {o})
      BY <1>11, <3>2 DEF Steady
    <3>7. Away(m, w, {o})
      <4>1. empty.act \in [Output -> Workspace \cup {None}] /\ empty.plugged \subseteq Output
        BY <1>3, Elements DEF Typed, SpaceTypes
      <4>2. \A q \in empty.plugged : m.act[q] = IF q = p THEN n ELSE empty.act[q]
        BY <3>4, <4>1
      <4> QED BY <1>2, <1>11, <3>4, <4>2 DEF Away
    <3>8. Housed(m) /\ Vacant(m, w)
      BY <1>9, <1>10, <3>4 DEF Housed, Vacant, Exists
    <3>9. \A v \in Workspace : TopMost(m, v) # None => TopMost(m, v) \in Toplevel /\ m.home[TopMost(m, v)] # w
      BY <3>5, <3>8, TopMostIsMapped DEF Vacant
    <3>10. Goes(m, left) /\ Acting(left, {o}) /\ Elsewhere(m, left)
      <4>1. {o} \in SUBSET Output /\ p \notin {o}
        OBVIOUS
      <4> QED BY <3>1, <3>5, <3>6, <4>1, OutputFocusGoes
    <3>11. Away(left, w, {o})
      <4>1. p \notin {o}
        OBVIOUS
      <4> QED BY <3>1, <3>5, <3>7, <3>9, <4>1, OutputAway
    <3>12. FocusKept(m, left)
      BY <3>1, <3>5, OutputFocusKept
    <3>13. Vacant(left, w) /\ Housed(left)
      <4>1. left.life = m.life /\ left.home = m.home /\ left.output = m.output
        BY <3>12 DEF FocusKept, Kept, But, Refocused, Fields
      <4> QED BY <3>8, <4>1 DEF Vacant, Housed, Exists
    <3>14. Elsewhere(d, left)
      <4>1. Goes(empty, m) /\ Elsewhere(empty, m)
        BY <3>2 DEF Steady
      <4>2. Elsewhere(empty, left)
        BY <3>10, <4>1, ElsewhereTwice
      <4> QED BY <1>12, <1>13, <4>2 DEF Elsewhere
    <3> QED BY <3>10, <3>11, <3>13, <3>14
  <2> QED BY <2>1, <2>2
<1> HIDE DEF left, m
<1>15. Acting(e, {o}) /\ Housed(e) /\ e.act = left.act
  BY <1>4, <1>6, <1>14, FreedActing
<1> QED BY <1>14, <1>15 DEF Elsewhere

(* All of them.                                                              *)
LEMMA AllUnpluggedActing ==
  ASSUME NEW d, Calm(d), Booked(d), "fullscreen" \notin d.kinds, d.kinds \cap Grabbing = {},
         Len(d.outputs) > 1, NEW o \in d.plugged, Acting(d, {}), Housed(d),
         NEW e, e = UnplugAll(d, d.spaces[o]), e.crashed = "none"
  PROVE  Acting(e, {o}) /\ Housed(e) /\ Elsewhere(d, e)
<1> DEFINE list == d.spaces[o]
<1>0. Typed(d) /\ o \in Output
  BY Elements DEF Calm, Typed, SpaceTypes
<1>1. list \in Seq(Workspace) /\ IsInjective(list) /\ ToSet(list) \subseteq Workspace
  BY <1>0, Elements DEF Typed, SpaceTypes, Booked, Shelved
<1>2. \A w \in ToSet(list) : d.output[w] = o
  BY <1>0, <1>1 DEF Booked, Shelved
<1>3. e = UnplugAll(d, list) /\ \A vs \in SUBSET ToSet(list) : vs \in SUBSET ToSet(d.spaces[o])
  OBVIOUS
<1>4. \A w \in ToSet(list) : w \in ToSet(d.spaces[o])
  OBVIOUS
<1> HIDE DEF list
<1>5. PICK after :
        /\ UnplugAll(d, list) = after[Len(list)]
        /\ after[0] = d
        /\ \A n \in 1 .. Len(list) : after[n] = WorkspaceUnplug(after[n - 1], list[n])
  BY ONLY <1>1, AllUnplugged
<1>6. Len(list) \in Nat
  BY <1>1
<1> DEFINE Good(g) == /\ Calm(g) /\ g.kinds = d.kinds
                      /\ Acting(g, {o}) /\ Housed(g) /\ Elsewhere(d, g)
           Fine(n) == /\ Cleared(d, after[n], o, UpTo(list, n))
                      /\ after[n].crashed = "none" => Good(after[n])
           G == {n \in 0 .. Len(list) : Fine(n)}
<1>7. Fine(0)
  <2>1. UpTo(list, 0) = {} /\ after[0] = d
    BY <1>1, <1>5, UpToNext
  <2>2. Acting(d, {o}) /\ Elsewhere(d, d)
    BY DEF Acting, Elsewhere
  <2>3. Cleared(d, d, o, {})
    BY <1>0 DEF Cleared, Booked
  <2> QED BY <2>1, <2>2, <2>3
<1>8. ASSUME NEW n \in 1 .. Len(list), Fine(n - 1)
      PROVE  Fine(n)
  <2> DEFINE f == after[n - 1]
             w == list[n]
             vs == UpTo(list, n - 1)
             p == NextOrPrev(f.outputs, f.output[w])
             next == FirstOrNone(f.spaces[p])
  <2>1. /\ w \in ToSet(list) \ vs /\ UpTo(list, n) = vs \cup {w} /\ w \in Workspace /\ d.output[w] = o
        /\ vs \in SUBSET ToSet(list)
    <3>1. \A j \in 1 .. n - 1 : j \in 1 .. Len(list)
      BY <1>6
    <3>2. vs \in SUBSET ToSet(list)
      BY <1>1, <3>1 DEF UpTo, ToSet
    <3> QED BY <1>1, <1>2, <3>2, UpToNext
  <2>2. Cleared(d, f, o, vs) /\ (f.crashed = "none" => Good(f))
    <3>1. Fine(n - 1)
      BY <1>8
    <3> QED BY ONLY <3>1
  <2>3. after[n] = WorkspaceUnplug(f, w)
    BY <1>5
  <2> HIDE DEF f, w, vs
  <2>4. Cleared(d, after[n], o, UpTo(list, n))
    BY <1>0, <2>1, <2>2, <2>3, ClearedOne
  <2>5. ASSUME after[n].crashed = "none" PROVE Good(after[n])
    <3>1. f.crashed = "none" /\ Good(f)
      <4>1. f.crashed = "none"
        BY <2>2, <2>3, <2>1, <2>5, WorkspaceUnplugKept DEF Cleared, SpaceKept, Kept, Later
      <4> QED BY <2>2, <4>1
    <3>2. /\ f.output[w] = o /\ p # None /\ p # o
          /\ p \in f.plugged => next \in Workspace \ {w} /\ f.output[next] = p
      <4>1. vs \in SUBSET ToSet(d.spaces[o]) /\ w \in ToSet(d.spaces[o]) \ vs
        BY <1>3, <1>4, <2>1
      <4> QED BY <1>0, <2>2, <3>1, <4>1, NextHome
    <3>3. p = NextOrPrev(f.outputs, f.output[w]) /\ next = FirstOrNone(f.spaces[p])
      OBVIOUS
    <3> HIDE DEF p, next
    <3>4. Calm(after[n]) /\ after[n].kinds = f.kinds
      BY <2>1, <2>3, <2>5, <3>1, <3>2, <3>3, UnpluggedCalm
    <3>5. Acting(after[n], {o}) /\ Housed(after[n]) /\ Elsewhere(f, after[n])
      BY <1>0, <2>1, <2>3, <2>5, <3>1, <3>2, <3>3, UnpluggedActing
    <3>6. Elsewhere(d, after[n])
      <4>1. f.outputs = d.outputs
        BY <2>2, <3>1 DEF Cleared
      <4> QED BY <3>1, <3>5, <4>1 DEF Elsewhere
    <3> QED BY <3>1, <3>4, <3>5, <3>6
  <2> QED BY <2>4, <2>5
<1> HIDE DEF Fine
<1>9. 0 \in G /\ \A n \in 1 .. Len(list) : n - 1 \in G => n \in G
  BY <1>6, <1>7, <1>8
<1>10. Len(list) \in G
  <2> HIDE DEF G
  <2> QED BY <1>6, <1>9, Upwards
<1>11. e = after[Len(list)] /\ Fine(Len(list))
  BY ONLY <1>3, <1>5, <1>10
<1> QED BY ONLY <1>11, e.crashed = "none" DEF Fine

-----------------------------------------------------------------------------
(* What the active workspace is, where the windows believe to be, and what   *)
(* is seen.                                                                  *)

OneMonitor(d) == Len(d.outputs) = 1 /\ "hotplug" \notin d.kinds

(* When nothing is due, the screen shows what is active.                     *)
UpToDate(d) ==
  /\ \A o \in d.plugged : d.presented[o] \in {None, d.act[o]}
  /\ Ordinary(d.kinds) => Tiles(d, d.active) \subseteq d.shown

Lively(d) == Acting(d, {}) /\ Housed(d) /\ (OneMonitor(d) /\ ~d.due => UpToDate(d))

(* Where workspaces, or outputs, go away, no window may believe to be in     *)
(* another workspace than it is in.                                          *)
Settled(kinds) ==
  kinds \cap {"destroy", "remote", "hotplug"} # {} => Ordinary(kinds) /\ kinds \cap Grabbing = {}

(* What never was an output has nothing active.                              *)
Blank(d) == \A o \in Output : o \notin ToSet(d.outputs) => d.act[o] = None

LEMMA GoesBlank ==
  ASSUME NEW d, NEW e, Goes(d, e), Acting(d, {}), Blank(d)
  PROVE  Blank(e)
BY DEF Goes, SameBooks, Elsewhere, Blank

LEMMA CreatedBlank ==
  ASSUME NEW d, Typed(d), Blank(d), NEW o \in d.plugged, NEW w \in Workspace,
         NEW e, e = WorkspaceCreate(d, o, w)
  PROVE  Blank(e)
<1>1. e.outputs = d.outputs /\ e.act \in {d.act, [d.act EXCEPT ![o] = IF d.act[o] = None THEN w ELSE d.act[o]]}
  <2>1. CASE d.dummy[o] # None
    BY <2>1 DEF WorkspaceCreate, Typed, Fields
  <2>2. CASE d.dummy[o] = None
    BY <2>2 DEF WorkspaceCreate, Typed, Fields
  <2> QED BY <2>1, <2>2
<1>2. o \in ToSet(d.outputs) /\ d.act \in [Output -> Workspace \cup {None}]
  BY DEF Typed, SpaceTypes
<1> QED BY <1>1, <1>2 DEF Blank

LEMMA WindowBlank ==
  ASSUME Typed(desk), Blank(desk), NEW t \in Toplevel, Create(t) \/ Destroy(t)
  PROVE  Blank(desk')
<1>1. desk'.act = desk.act /\ desk'.outputs = desk.outputs
  BY DEF Create, Freed, Destroy, Typed, Fields
<1> QED BY <1>1 DEF Blank

LEMMA MapBlank ==
  ASSUME Typed(desk), Blank(desk), Acting(desk, {}), NEW t \in Toplevel, NEW st \in State, Map(t, st),
         desk'.crashed = "none"
  PROVE  Blank(desk')
<1> DEFINE new == Entering(t, st)
<1>1. Fail(desk, "freed workspace").crashed # "none"
  BY Fails
<1>2. Goes(new, desk')
  BY <1>1, MapGoes
<1>3. SameBooks(desk, new) /\ new.act = desk.act /\ new.active = desk.active
  BY EnteringTyped
<1> HIDE DEF new
<1>4. Acting(new, {}) /\ Blank(new)
  BY <1>3 DEF Acting, SameBooks, Exists, Blank
<1> QED BY <1>2, <1>4, GoesBlank

LEMMA PerformBlank ==
  ASSUME Typed(desk), Blank(desk), PerformTransaction, desk'.crashed = "none"
  PROVE  Blank(desk')
<1>1. Fail(desk, "freed workspace").crashed # "none" /\ Fail(desk, "freed toplevel").crashed # "none"
  BY Fails
<1>2. desk'.act = desk.act /\ desk'.outputs = desk.outputs
  BY <1>1 DEF PerformTransaction, Perform, Typed, Fields
<1> QED BY <1>2 DEF Blank

LEMMA StartsBlank ==
  ASSUME Init
  PROVE  Blank(desk)
<1>1. PICK s \in Situation : desk = StartUp(s)
  BY DEF Init
<1>2. /\ desk.act = [o \in Output |-> FirstOrNone(IF o \in ToSet(s.connected) THEN s.spaces[o] ELSE <<>>)]
      /\ desk.plugged = ToSet(s.connected) /\ desk.outputs = s.connected
  BY <1>1 DEF StartUp
<1>3. desk.plugged \subseteq ToSet(desk.outputs)
  BY StartsTyped DEF Typed, SpaceTypes
<1> QED BY <1>2, <1>3 DEF Blank, FirstOrNone

LEMMA GoesLively ==
  ASSUME NEW d, NEW e, Typed(d), Goes(d, e), e.kinds = d.kinds, e.crashed = "none", Lively(d)
  PROVE  Lively(e)
<1>1. SameBooks(d, e) /\ Acting(e, {}) /\ Housed(e) /\ Typed(e)
  BY DEF Goes, Lively
<1>2. ASSUME OneMonitor(e), ~e.due PROVE UpToDate(e)
  <2>1. OneMonitor(d)
    BY <1>1, <1>2 DEF OneMonitor, SameBooks
  <2>2. ~d.due /\ e.active = d.active /\ e.act = d.act /\ e.shown = d.shown
        /\ \A w \in Workspace : Tiles(e, w) \subseteq Tiles(d, w)
    BY <1>2, <2>1 DEF Goes, Lively, OneMonitor, Shows
  <2>3. UpToDate(d) /\ d.active \in Workspace
    BY <2>1, <2>2 DEF Lively, Typed, SpaceTypes
  <2> QED BY <1>1, <2>2, <2>3 DEF UpToDate, SameBooks
<1> QED BY <1>1, <1>2 DEF Lively

(* Acting and Housed only look at these.                                     *)
LEMMA WiderActing ==
  ASSUME NEW d, Typed(d), NEW e, NEW gone, e.plugged = d.plugged, e.act = d.act, e.active = d.active,
         \A w \in Workspace : d.output[w] # None => e.output[w] = d.output[w]
  PROVE  /\ Acting(d, gone) => Acting(e, gone)
         /\ e.life = d.life /\ e.home = d.home /\ Housed(d) => Housed(e)
<1>1. d.active \in Workspace /\ d.home \in [Toplevel -> Workspace \cup {None}] /\ d.plugged \subseteq Output
      /\ \A o \in d.plugged : d.act[o] \in Workspace
      /\ None \notin Output
  BY Elements, ActiveTyped, NoneIsNoName DEF Typed, SpaceTypes, WindowTypes
<1>2. ASSUME Acting(d, gone) PROVE Acting(e, gone)
  BY <1>1, <1>2 DEF Acting, Exists
<1>3. ASSUME Housed(d), e.life = d.life, e.home = d.home PROVE Housed(e)
  BY <1>1, <1>3 DEF Housed, Exists
<1> QED BY <1>2, <1>3

LEMMA CreatedLively ==
  ASSUME NEW d, Typed(d), Lively(d), NEW o \in d.plugged, NEW w \in Workspace, ~Exists(d, w),
         NEW e, e = WorkspaceCreate(d, o, w)
  PROVE  Lively(e)
<1>0. DOMAIN d = Fields /\ d.act[o] # None /\ d.active # None /\ o \in Output
      /\ d.act \in [Output -> Workspace \cup {None}] /\ d.output \in [Workspace -> Output \cup {None}]
  BY ActiveTyped, NoneIsNoName DEF Typed, SpaceTypes
<1>1. [d.act EXCEPT ![o] = d.act[o]] = d.act
  BY <1>0
<1>2. /\ e.act = d.act /\ e.active = d.active /\ e.life = d.life /\ e.home = d.home
      /\ e.shown = d.shown /\ e.due = d.due /\ e.presented = d.presented
      /\ e.master = d.master /\ e.slaves = d.slaves /\ e.kinds = d.kinds
      /\ e.plugged = d.plugged /\ e.outputs = d.outputs
      /\ e.output \in {d.output, [d.output EXCEPT ![w] = o]}
  <2>1. CASE d.dummy[o] # None
    BY <1>0, <2>1 DEF WorkspaceCreate, Fields
  <2>2. CASE d.dummy[o] = None
    BY <1>0, <1>1, <2>2 DEF WorkspaceCreate, Fields
  <2> QED BY <2>1, <2>2
<1>3. \A v \in Workspace : d.output[v] # None => e.output[v] = d.output[v]
  <2>1. d.output[w] = None
    BY NoneIsNoName DEF Exists
  <2> QED BY <1>0, <1>2, <2>1
<1>4. Acting(e, {}) /\ Housed(e)
  BY <1>2, <1>3, WiderActing DEF Lively
<1>5. OneMonitor(e) /\ ~e.due => UpToDate(e)
  BY <1>2 DEF Lively, OneMonitor, UpToDate, Tiles
<1> QED BY <1>4, <1>5 DEF Lively

(* A window whose surface comes or goes is in no list.                       *)
LEMMA WindowLively ==
  ASSUME Typed(desk), Lively(desk), Ordinary(desk.kinds) => Neat(desk), NEW t \in Toplevel,
         Create(t) \/ Destroy(t)
  PROVE  Lively(desk')
<1>1. /\ desk.life[t] # "mapped"
      /\ desk'.life \in {[desk.life EXCEPT ![t] = "unmapped"], [desk.life EXCEPT ![t] = "absent"]}
      /\ desk'.home \in {desk.home, [desk.home EXCEPT ![t] = None]}
      /\ desk.shown \ {t} \subseteq desk'.shown
      /\ desk'.output = desk.output /\ desk'.act = desk.act /\ desk'.active = desk.active
      /\ desk'.plugged = desk.plugged /\ desk'.outputs = desk.outputs /\ desk'.due = desk.due
      /\ desk'.presented = desk.presented /\ desk'.kinds = desk.kinds
      /\ desk'.master = desk.master /\ desk'.slaves = desk.slaves
  <2>1. CASE Create(t)
    BY <2>1 DEF Create, Freed, Typed, Fields
  <2>2. CASE Destroy(t)
    BY <2>2 DEF Destroy, Typed, Fields
  <2> QED BY <2>1, <2>2
<1>2. desk.life \in [Toplevel -> Life] /\ desk.home \in [Toplevel -> Workspace \cup {None}]
      /\ desk.active \in Workspace
  BY DEF Typed, WindowTypes, SpaceTypes
<1>3. Acting(desk', {})
  BY <1>1 DEF Lively, Acting, Exists
<1>4. Housed(desk')
  <2> SUFFICES ASSUME NEW u \in Toplevel, desk'.life[u] = "mapped" PROVE Exists(desk', desk'.home[u])
    BY DEF Housed
  <2>1. u # t /\ desk.life[u] = "mapped" /\ desk'.home[u] = desk.home[u]
    BY <1>1, <1>2
  <2> QED BY <1>1, <2>1 DEF Lively, Housed, Exists
<1>5. ASSUME OneMonitor(desk'), ~desk'.due PROVE UpToDate(desk')
  <2>1. UpToDate(desk)
    BY <1>1, <1>5 DEF Lively, OneMonitor
  <2>2. ASSUME Ordinary(desk.kinds) PROVE t \notin Tiles(desk, desk.active)
    <3>1. Place(desk, t) = Nowhere
      BY <1>1, <2>2 DEF Neat, Tidy, IsAt
    <3>2. Tiling(desk, t) = {}
      BY <3>1 DEF Place, Nowhere
    <3> QED BY <1>2, <3>2 DEF Tiling, Tiles
  <2> QED BY <1>1, <2>1, <2>2 DEF UpToDate, Tiles
<1> QED BY <1>3, <1>4, <1>5 DEF Lively

LEMMA MapLively ==
  ASSUME Typed(desk), Lively(desk), NEW t \in Toplevel, NEW st \in State, Map(t, st), desk'.crashed = "none"
  PROVE  Lively(desk')
<1> DEFINE new == Entering(t, st)
<1>1. Fail(desk, "freed workspace").crashed # "none"
  BY Fails
<1>2. /\ Exists(desk, desk.active) /\ Goes(new, desk')
      /\ Acting(new, {}) /\ Len(desk.outputs) = 1 => desk'.due
  BY <1>1, MapGoes
<1>3. /\ Typed(new) /\ SameBooks(desk, new) /\ new.act = desk.act /\ new.active = desk.active
      /\ new.life = [desk.life EXCEPT ![t] = "mapped"] /\ new.home = [desk.home EXCEPT ![t] = desk.active]
  BY EnteringTyped
<1> HIDE DEF new
<1>4. Acting(new, {})
  BY <1>3 DEF Lively, Acting, SameBooks, Exists
<1>5. Housed(new)
  <2> SUFFICES ASSUME NEW u \in Toplevel, new.life[u] = "mapped" PROVE Exists(new, new.home[u])
    BY DEF Housed
  <2>1. desk.life \in [Toplevel -> Life] /\ desk.home \in [Toplevel -> Workspace \cup {None}]
    BY DEF Typed, WindowTypes
  <2>2. CASE u = t
    BY <1>2, <1>3, <2>1, <2>2 DEF Exists, SameBooks
  <2>3. CASE u # t
    BY <1>3, <2>1, <2>3 DEF Lively, Housed, Exists, SameBooks
  <2> QED BY <2>2, <2>3
<1>6. Acting(desk', {}) /\ Housed(desk') /\ desk'.outputs = desk.outputs
  BY <1>2, <1>3, <1>4, <1>5 DEF Goes, SameBooks
<1> QED BY <1>2, <1>4, <1>6 DEF Lively, OneMonitor

LEMMA PerformLively ==
  ASSUME Typed(desk), Booked(desk), Lively(desk), Ordinary(desk.kinds) => Neat(desk),
         PerformTransaction, desk'.crashed = "none"
  PROVE  Lively(desk')
<1> DEFINE w == desk.active
           old == desk.presented[desk.output[w]]
           hidden == IF old \in {None, w} THEN {} ELSE Members(desk, old)
           dead == {t \in desk.ghosts : desk.life[t] = "absent"}
           shown == (((desk.shown \cup desk.fresh) \ hidden) \cup Members(desk, w)) \ dead
           e == [desk EXCEPT !.presented[desk.output[w]] = w, !.shown = shown,
                             !.fresh = {}, !.ghosts = {}, !.due = FALSE]
<1>1. desk' = e
  <2>1. Fail(desk, "freed workspace").crashed # "none" /\ Fail(desk, "freed toplevel").crashed # "none"
    BY Fails
  <2>2. desk' \in {Fail(desk, "freed workspace"), Fail(desk, "freed toplevel"), e}
    BY DEF PerformTransaction, Perform
  <2> HIDE DEF e
  <2> QED BY <2>1, <2>2
<1>2. /\ e.presented = [desk.presented EXCEPT ![desk.output[w]] = w] /\ e.shown = shown
      /\ e.output = desk.output /\ e.act = desk.act /\ e.active = desk.active /\ e.plugged = desk.plugged
      /\ e.outputs = desk.outputs /\ e.life = desk.life /\ e.home = desk.home /\ e.kinds = desk.kinds
      /\ e.master = desk.master /\ e.slaves = desk.slaves
  BY DEF Typed, Fields
<1> HIDE DEF e
<1>3. Acting(e, {}) /\ Housed(e)
  BY <1>2 DEF Lively, Acting, Housed, Exists
<1>4. ASSUME OneMonitor(e) PROVE \A o \in e.plugged : e.presented[o] \in {None, e.act[o]}
  <2> SUFFICES ASSUME NEW o \in desk.plugged PROVE e.presented[o] = desk.act[o]
    BY <1>2
  <2>1. desk.output[w] \in ToSet(desk.outputs) /\ o \in ToSet(desk.outputs) /\ desk.outputs \in Seq(Output)
        /\ desk.presented \in [Output -> Workspace \cup {None}] /\ o \in Output
    BY Elements DEF Typed, SpaceTypes, Lively, Acting, Exists
  <2>2. o = desk.output[w]
    BY <1>2, <1>4, <2>1, OneOf DEF OneMonitor
  <2>3. desk.act[o] = w
    BY <2>2 DEF Lively, Acting
  <2> QED BY <1>2, <2>1, <2>2, <2>3
<1>5. ASSUME Ordinary(desk.kinds) PROVE Tiles(e, e.active) \subseteq shown
  <2> SUFFICES ASSUME NEW t \in Tiles(desk, w) PROVE t \in shown
    BY <1>2 DEF Tiles
  <2>1. Calm(desk) /\ w \in Workspace
    BY <1>5 DEF Calm, Typed, SpaceTypes
  <2>2. desk.life[t] = "mapped"
    BY <2>1, ListedIsMapped DEF Tiles
  <2>3. t \in Members(desk, w)
    BY DEF Tiles, Members
  <2> QED BY <2>2, <2>3
<1> QED BY <1>1, <1>2, <1>3, <1>4, <1>5 DEF Lively, UpToDate

LEMMA StartsLively ==
  ASSUME Init, Booked(desk), Typed(desk)
  PROVE  Lively(desk)
<1>1. PICK s \in Situation : desk = StartUp(s)
  BY DEF Init
<1> DEFINE first == Head(s.connected)
           Of(o) == IF o \in ToSet(s.connected) THEN s.spaces[o] ELSE <<>>
<1>2. s.connected \in Seq(Output) /\ s.connected # <<>>
      /\ \A o \in ToSet(s.connected) : s.spaces[o] # <<>>
  BY SituationsAreSituations
<1>3. /\ desk.spaces = [o \in Output |-> Of(o)]
      /\ desk.act = [o \in Output |-> FirstOrNone(Of(o))]
      /\ desk.active = Head(s.spaces[first])
      /\ desk.plugged = ToSet(s.connected)
      /\ desk.life = [t \in Toplevel |-> "absent"]
      /\ desk.presented = [o \in Output |-> None]
      /\ desk.master = [w \in Workspace |-> None] /\ desk.slaves = [w \in Workspace |-> <<>>]
  BY <1>1 DEF StartUp
<1>4. ASSUME NEW o \in desk.plugged
      PROVE  /\ o \in Output /\ desk.act[o] = Head(s.spaces[o]) /\ desk.act[o] \in Workspace
             /\ desk.output[desk.act[o]] = o
  <2>1. o \in Output /\ desk.act[o] \in Workspace /\ o \in ToSet(s.connected)
    BY <1>3, ActiveTyped
  <2>2. Of(o) = s.spaces[o] /\ s.spaces[o] # <<>> /\ desk.spaces[o] = s.spaces[o]
    BY <1>2, <1>3, <2>1
  <2>3. desk.act[o] = Head(s.spaces[o])
    BY <1>3, <2>1, <2>2 DEF FirstOrNone
  <2>4. desk.spaces[o] \in Seq(Workspace) /\ desk.spaces[o] # <<>>
    BY <2>1, <2>2 DEF Typed, SpaceTypes
  <2>5. Head(desk.spaces[o]) \in ToSet(desk.spaces[o])
    BY <2>4, Ends
  <2> QED BY <2>1, <2>2, <2>3, <2>5 DEF Booked, Shelved
<1>5. first \in desk.plugged
  <2>1. \A c \in Seq(Output) : c # <<>> => Head(c) \in ToSet(c)
    BY Ends
  <2> QED BY <1>2, <1>3, <2>1
<1>6. desk.active = desk.act[first] /\ desk.output[desk.active] = first
  BY <1>3, <1>4, <1>5
<1>7. Acting(desk, {})
  BY <1>4, <1>5, <1>6, NoneIsNoName DEF Acting, Exists
<1>8. Housed(desk)
  BY <1>3 DEF Housed
<1>9. UpToDate(desk)
  <2>1. desk.active \in Workspace /\ desk.plugged \subseteq Output
    BY <1>4, <1>5, <1>6
  <2> QED BY <1>3, <2>1, Emptied DEF UpToDate, Tiles
<1> QED BY <1>7, <1>8, <1>9 DEF Lively

LEMMA DestroyedLively ==
  ASSUME NEW d, Calm(d), Booked(d), Lively(d), d.kinds \cap {"destroy", "remote"} # {},
         Settled(d.kinds), NEW w \in Workspace, Exists(d, w), NEW n \in Workspace,
         NextWorkspace(d, w, n), NEW e, e = WorkspaceDestroy(d, w, n), e.crashed = "none"
  PROVE  Lively(e) /\ (Blank(d) => Blank(e))
<1>1. "fullscreen" \notin d.kinds /\ d.kinds \cap Grabbing = {}
  BY DEF Settled, Ordinary
<1>2. /\ Acting(e, {}) /\ Housed(e) /\ Elsewhere(d, e)
      /\ Len(d.outputs) = 1 => Shows(d, e)
      /\ \A p \in Output : e.presented[p] \in {d.presented[p], None}
  BY <1>1, DestroyActing DEF Lively
<1>3. SpaceKept(d, e) /\ Typed(d)
  BY WorkspaceDestroyKept DEF Calm, Exists
<1>4. e.kinds = d.kinds /\ e.outputs = d.outputs /\ e.plugged = d.plugged
  BY <1>3 DEF SpaceKept, Kept, But, Spaced, Fields
<1>5. ASSUME OneMonitor(e), ~e.due PROVE UpToDate(e)
  <2>1. OneMonitor(d)
    BY <1>4, <1>5 DEF OneMonitor
  <2>2. ~d.due /\ e.active = d.active /\ e.act = d.act /\ e.shown = d.shown
        /\ \A v \in Workspace : Tiles(e, v) \subseteq Tiles(d, v)
    BY <1>2, <1>5, <2>1 DEF OneMonitor, Shows
  <2>3. UpToDate(d) /\ d.active \in Workspace /\ d.plugged \subseteq Output
    BY <1>3, <2>1, <2>2, Elements DEF Lively, Typed, SpaceTypes
  <2> QED BY <1>2, <1>4, <2>2, <2>3 DEF UpToDate
<1>6. Blank(d) => Blank(e)
  BY <1>2, <1>4 DEF Blank, Elsewhere
<1> QED BY <1>2, <1>5, <1>6 DEF Lively

(* An output that comes has one workspace, which is active there.            *)
LEMMA PlugLively ==
  ASSUME Typed(desk), Lively(desk), Blank(desk), NEW o \in Output, NEW w \in Workspace, Plug(o, w)
  PROVE  Lively(desk') /\ Blank(desk')
<1> DEFINE d == desk
           a == [d EXCEPT !.outputs = <<o>> \o @, !.plugged = @ \cup {o}]
           c == WorkspaceCreate(a, o, w)
           e == desk'
<1>0. /\ d.outputs \in Seq(Output) /\ d.plugged \subseteq ToSet(d.outputs) /\ ToSet(d.outputs) \subseteq Output
      /\ d.output \in [Workspace -> Output \cup {None}] /\ d.act \in [Output -> Workspace \cup {None}]
      /\ d.active \in Workspace /\ None \notin Output /\ None \notin Workspace
      /\ d.home \in [Toplevel -> Workspace \cup {None}]
      /\ \A v \in Workspace : d.output[v] # None => d.output[v] \in ToSet(d.outputs)
  BY Elements, NoneIsNoName DEF Typed, SpaceTypes, WindowTypes
<1>1. /\ o \notin ToSet(d.outputs) /\ ~Exists(d, w) /\ d.dummy[o] = None /\ d.act[o] = None
      /\ "hotplug" \in d.kinds /\ e = WithDummy(a, o, w)
  BY DEF Plug, Happens, Typed, SpaceTypes, Blank
<1>2. /\ a.outputs = <<o>> \o d.outputs /\ a.plugged = d.plugged \cup {o} /\ a.output = d.output
      /\ a.act = d.act /\ a.active = d.active /\ a.dummy = d.dummy /\ a.life = d.life
      /\ a.home = d.home /\ a.kinds = d.kinds /\ DOMAIN a = Fields
  BY DEF Typed, Fields
<1> HIDE DEF a
<1>3. ~Exists(a, w)
  BY <1>1, <1>2 DEF Exists
<1>4. /\ c.output = [d.output EXCEPT ![w] = o] /\ c.act = [d.act EXCEPT ![o] = w]
      /\ c.active = d.active /\ c.outputs = a.outputs /\ c.plugged = a.plugged
      /\ c.life = d.life /\ c.home = d.home /\ c.kinds = d.kinds /\ DOMAIN c = Fields
  <2>1. a.dummy[o] = None /\ a.act[o] = None /\ a.active # None
    BY <1>0, <1>1, <1>2
  <2> QED BY <1>2, <2>1 DEF WorkspaceCreate, Fields
<1>5. e = [c EXCEPT !.dummy[o] = w]
  BY <1>1, <1>3 DEF WithDummy
<1> HIDE DEF c
<1>6. /\ e.output = [d.output EXCEPT ![w] = o] /\ e.act = [d.act EXCEPT ![o] = w]
      /\ e.active = d.active /\ e.outputs = <<o>> \o d.outputs /\ e.plugged = d.plugged \cup {o}
      /\ e.life = d.life /\ e.home = d.home /\ e.kinds = d.kinds
  BY <1>2, <1>4, <1>5 DEF Fields
<1>7. Lively(d) /\ Blank(d)
  OBVIOUS
<1> HIDE DEF d, e
<1>8. d.output[w] = None
  BY <1>0, <1>1 DEF Exists
<1>9. /\ e.output[w] = o /\ \A v \in Workspace : v # w => e.output[v] = d.output[v]
      /\ e.act[o] = w /\ \A q \in Output : q # o => e.act[q] = d.act[q]
  BY <1>0, <1>6
<1>10. Acting(e, {})
  <2>1. /\ \A q \in d.plugged : d.output[d.act[q]] = q
        /\ d.output[d.active] # None /\ d.act[d.output[d.active]] = d.active
    BY <1>7 DEF Lively, Acting, Exists
  <2>2. ASSUME NEW q \in d.plugged PROVE e.output[e.act[q]] = q
    <3>1. q \in Output /\ q # o /\ q # None
      BY <1>0, <1>1
    <3>2. e.act[q] = d.act[q] /\ d.act[q] # w
      BY <1>8, <1>9, <2>1, <3>1
    <3>3. d.act[q] \in Workspace
      <4>1. d.act[q] \in Workspace \cup {None}
        BY <1>0, <3>1
      <4>2. d.act[q] # None
        BY DEF Typed, SpaceTypes, d
      <4> QED BY <4>1, <4>2
    <3> QED BY <1>9, <2>1, <3>2, <3>3
  <2>3. d.active # w /\ d.output[d.active] # o /\ d.output[d.active] \in Output
    BY <1>0, <1>1, <1>8, <2>1
  <2>4. e.output[d.active] = d.output[d.active] /\ e.act[e.output[d.active]] = d.active
    BY <1>0, <1>9, <2>1, <2>3
  <2> QED BY <1>0, <1>6, <1>9, <2>1, <2>2, <2>4 DEF Acting, Exists
<1>11. Housed(e)
  <2> SUFFICES ASSUME NEW t \in Toplevel, e.life[t] = "mapped" PROVE Exists(e, e.home[t])
    BY DEF Housed
  <2>1. Exists(d, d.home[t])
    BY <1>6, <1>7 DEF Lively, Housed
  <2> QED BY <1>0, <1>6, <1>8, <1>9, <2>1 DEF Exists
<1>12. Blank(e)
  <2>1. ToSet(<<o>> \o d.outputs) = {o} \cup ToSet(d.outputs)
    <3> DEFINE s == <<o>>
               t == d.outputs
    <3>1. s \in Seq(Output) /\ ToSet(s) = {o} /\ t \in Seq(Output)
      BY <1>0, Single
    <3> HIDE DEF s, t
    <3>2. ToSet(s \o t) = {o} \cup ToSet(t)
      BY <3>1, Joined
    <3> QED BY <3>2 DEF s, t
  <2> QED BY <1>6, <1>7, <1>9, <2>1 DEF Blank
<1>13. Lively(e)
  BY <1>1, <1>6, <1>10, <1>11 DEF Lively, OneMonitor
<1> QED BY <1>12, <1>13 DEF e

(* An output that goes leaves the active workspace, and every window, on one *)
(* that stays.                                                               *)
LEMMA UnplugLively ==
  ASSUME Calm(desk), Booked(desk), Lively(desk), Blank(desk), Several, Settled(desk.kinds),
         NEW o \in Output, NEW to, Unplug(o, to), desk'.crashed = "none"
  PROVE  Lively(desk') /\ Blank(desk')
<1> DEFINE d == UnplugAll(desk, desk.spaces[o])
           e == desk'
<1>1. /\ o \in desk.plugged /\ "hotplug" \in desk.kinds
      /\ "fullscreen" \notin desk.kinds /\ desk.kinds \cap Grabbing = {} /\ Len(desk.outputs) > 1
  BY DEF Unplug, Happens, Settled, Ordinary, Several
<1>2. SpaceKept(desk, d)
  BY UnplugAllKept DEF Calm, Typed, SpaceTypes
<1>3. DOMAIN d = Fields /\ d.kinds = desk.kinds
  BY <1>2 DEF SpaceKept, Kept, But, Spaced, Fields
<1>4. /\ e.plugged = d.plugged \ {o} /\ e.output = d.output /\ e.act = d.act /\ e.active = d.active
      /\ e.outputs = d.outputs /\ e.life = d.life /\ e.home = d.home /\ e.kinds = d.kinds
      /\ e.crashed = d.crashed
  BY <1>3 DEF Unplug, Fields
<1>5. d.outputs = desk.outputs
  BY <1>2 DEF SpaceKept, Kept, But, Spaced, Fields
<1>6. Acting(d, {o}) /\ Housed(d) /\ Elsewhere(desk, d)
  <2>1. d.crashed = "none"
    BY <1>4
  <2>2. d = UnplugAll(desk, desk.spaces[o])
    OBVIOUS
  <2> HIDE DEF d, e
  <2> QED BY <1>1, <2>1, <2>2, AllUnpluggedActing DEF Lively
<1> HIDE DEF d, e
<1>7. Acting(e, {}) /\ Housed(e)
  BY <1>4, <1>6 DEF Acting, Housed, Exists
<1>8. Blank(e)
  BY <1>4, <1>5, <1>6 DEF Blank, Elsewhere
<1>9. Lively(e)
  BY <1>1, <1>3, <1>4, <1>7 DEF Lively, OneMonitor
<1> QED BY <1>8, <1>9 DEF e

LEMMA NextLively ==
  ASSUME Typed(desk), desk.crashed = "none", Booked(desk), Ordinary(desk.kinds) => Neat(desk),
         Settled(desk.kinds), Several, Lively(desk), Blank(desk), [Next]_vars, desk'.crashed = "none"
  PROVE  Lively(desk') /\ Blank(desk')
<1>1. CASE Goes(desk, desk')
  <2>1. desk'.kinds = desk.kinds
    BY NextStep DEF Stepped
  <2> QED BY <1>1, <2>1, GoesLively, GoesBlank DEF Lively
<1>2. ASSUME NEW t \in Toplevel, Create(t) \/ Destroy(t) \/ \E st \in State : Map(t, st)
      PROVE  Lively(desk') /\ Blank(desk')
  BY <1>2, WindowLively, WindowBlank, MapLively, MapBlank DEF Lively
<1>3. ASSUME NEW o \in Output, NEW w \in Workspace, CreateWorkspace(o, w) \/ RemoteCreate(o, w)
      PROVE  Lively(desk') /\ Blank(desk')
  BY <1>3, CreatedLively, CreatedBlank DEF CreateWorkspace, RemoteCreate
<1>4. ASSUME NEW o \in Output, NEW w \in Workspace, Plug(o, w)
      PROVE  Lively(desk') /\ Blank(desk')
  BY <1>4, PlugLively
<1>5. ASSUME NEW w \in Workspace, NEW n \in Workspace, DestroyWorkspace(w, n)
      PROVE  Lively(desk') /\ Blank(desk')
  <2>1. PICK d \in StopWhatever(Found(desk, w)) : NextWorkspace(d, w, n) /\ desk' = WorkspaceDestroy(d, w, n)
    BY <1>5 DEF DestroyWorkspace
  <2>2. Goes(desk, d) /\ Typed(d) /\ SameBooks(desk, d)
    BY StopFoundGoes DEF Goes
  <2>3. Booked(d) /\ Exists(d, w) /\ "destroy" \in desk.kinds
    BY <1>5, <2>2, SameBooked DEF DestroyWorkspace, SameBooks, Exists, Happens
  <2>4. d.crashed = "none"
    BY <2>1, <2>2, <2>3, WorkspaceDestroyKept DEF SpaceKept, Kept, Later, Exists
  <2>5. Calm(desk)
    BY <2>3 DEF Calm, Settled
  <2>6. Calm(d) /\ d.kinds = desk.kinds
    BY <2>4, <2>5, StopFoundCalm
  <2>7. Lively(d) /\ Blank(d)
    BY <2>2, <2>4, <2>6, GoesLively, GoesBlank DEF Lively
  <2> QED BY <2>1, <2>3, <2>6, <2>7, DestroyedLively
<1>6. ASSUME NEW w \in Workspace, NEW n \in Workspace, RemoteRemove(w, n)
      PROVE  Lively(desk') /\ Blank(desk')
  <2>1. "remote" \in desk.kinds
    BY <1>6 DEF RemoteRemove, Happens
  <2>2. Calm(desk)
    BY <2>1 DEF Calm, Settled
  <2> QED BY <1>6, <2>1, <2>2, DestroyedLively DEF RemoteRemove
<1>7. ASSUME NEW o \in Output, NEW to \in Output \cup {None}, Unplug(o, to)
      PROVE  Lively(desk') /\ Blank(desk')
  <2>1. "hotplug" \in desk.kinds
    BY <1>7 DEF Unplug, Happens
  <2>2. Calm(desk)
    BY <2>1 DEF Calm, Settled
  <2> QED BY <1>7, <2>2, UnplugLively
<1>8. CASE PerformTransaction
  BY <1>8, PerformLively, PerformBlank
<1> QED BY <1>1, <1>2, <1>3, <1>4, <1>5, <1>6, <1>7, <1>8, NextGoes

(* The inductive invariant: something active is there, and every home.       *)
Awake == Settled(desk.kinds) /\ desk.crashed = "none" => Lively(desk) /\ Blank(desk)

LEMMA AwakeAlways == Spec /\ Several => [](Sane /\ Kempt /\ Awake)
<1>1. Init => Awake
  BY StartsLively, StartsBlank, StartsBooked, StartsTyped DEF Awake
<1>2. ASSUME Sane, Kempt, Several, Orderly, Awake, [Next]_vars PROVE Awake'
  <2>1. Stepped(desk, desk')
    BY <1>2, NextStep DEF Sane
  <2>2. desk'.kinds = desk.kinds /\ Later(desk, desk')
    BY <2>1 DEF Stepped
  <2>3. ASSUME Settled(desk'.kinds), desk'.crashed = "none" PROVE Lively(desk') /\ Blank(desk')
    <3>1. Settled(desk.kinds) /\ desk.crashed = "none"
      BY <2>2, <2>3 DEF Later
    <3> QED BY <1>2, <2>3, <3>1, NextLively DEF Sane, Kempt, Orderly, Awake
  <2> QED BY <2>3 DEF Awake
<1>3. Spec /\ Several => []Awake
  BY <1>1, <1>2, SeveralAlways, OrderlyAlways, PTL DEF Spec
<1> QED BY <1>3, KemptAlways, PTL

(* The active workspace exists, its output agrees, and every output that is  *)
(* plugged in has one of its own workspaces active (workspace_set_active,    *)
(* workspace_destroy, output_focus).                                         *)
THEOREM ActiveAlways == Spec /\ Several => [](Settled(desk.kinds) => ActiveAgrees)
<1>1. ASSUME Sane, Kempt, Awake, Settled(desk.kinds), Alive PROVE ActiveAgrees
  <2>1. Typed(desk) /\ Booked(desk) /\ Acting(desk, {})
    BY <1>1 DEF Sane, Kempt, Awake, Alive, Lively
  <2>2. \A o \in Output, w \in Workspace : Contains(desk.spaces[o], w) <=> desk.output[w] = o
    <3>1. ASSUME NEW o \in Output PROVE \A w : Contains(desk.spaces[o], w) <=> w \in ToSet(desk.spaces[o])
      <4>1. desk.spaces[o] \in Seq(Workspace)
        BY <2>1 DEF Typed, SpaceTypes
      <4> QED BY <4>1, Elements
    <3> QED BY <2>1, <3>1 DEF Booked, Shelved
  <2>3. \A o \in desk.plugged : Contains(desk.spaces[o], desk.act[o]) /\ IsInjective(desk.spaces[o])
    BY <2>1, <2>2, ActiveTyped DEF Acting, Booked, Shelved
  <2> QED BY <2>1, <2>2, <2>3 DEF ActiveAgrees, Acting
<1>2. Sane /\ Kempt /\ Awake => (Settled(desk.kinds) => ActiveAgrees)
  BY <1>1 DEF ActiveAgrees
<1> QED BY <1>2, AwakeAlways, PTL

(* Whatever workspace went away, the windows that were there are in another  *)
(* that exists, on an output that is plugged in (workspace_destroy).         *)
THEOREM NobodyIsStranded == Spec /\ Several => [](Settled(desk.kinds) => NobodyStranded)
<1>1. ASSUME Sane, Kempt, Awake, Settled(desk.kinds), Alive, NEW t \in Mapped
      PROVE  desk.output[desk.home[t]] \in desk.plugged
  <2>1. Typed(desk) /\ Booked(desk) /\ Housed(desk)
    BY <1>1 DEF Sane, Kempt, Awake, Alive, Lively
  <2>2. desk.home[t] \in Workspace /\ desk.output[desk.home[t]] # None
    BY <2>1 DEF Mapped, Housed, Exists, Typed, WindowTypes
  <2> QED BY <2>1, <2>2 DEF Booked
<1>2. Sane /\ Kempt /\ Awake => (Settled(desk.kinds) => NobodyStranded)
  BY <1>1 DEF NobodyStranded
<1> QED BY <1>2, AwakeAlways, PTL

(* On one output: what is presented when no transaction is due is what is    *)
(* active (perform_transaction, and whatever changes the active workspace).  *)
THEOREM PresentedAlways == Spec /\ Several => [](Settled(desk.kinds) => PresentedIsActive)
<1>1. Sane /\ Kempt /\ Awake => (Settled(desk.kinds) => PresentedIsActive)
  BY DEF Awake, Alive, Lively, OneMonitor, UpToDate, OneOutput, PresentedIsActive
<1> QED BY <1>1, AwakeAlways, PTL

(* On one output: when no transaction is due, every tiled window of the      *)
(* active workspace is shown (workspace_show_toplevels).                     *)
THEOREM ShownAlways == Spec /\ Several => [](Settled(desk.kinds) /\ Ordinary(desk.kinds) => ActiveIsShown)
<1>1. Sane /\ Kempt /\ Awake => (Settled(desk.kinds) /\ Ordinary(desk.kinds) => ActiveIsShown)
  BY DEF Awake, Alive, Lively, OneMonitor, UpToDate, OneOutput, ActiveIsShown, Tiles
<1> QED BY <1>1, AwakeAlways, PTL
=============================================================================
