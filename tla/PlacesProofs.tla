------------------------------ MODULE PlacesProofs ------------------------------
(***************************************************************************)
(* No window is lost and none is in two places, whatever windows,          *)
(* workspaces, outputs, panels and keys there are.                         *)
(***************************************************************************)
EXTENDS SpacesProofs, FiniteSetTheorems

-----------------------------------------------------------------------------
(* The place of a window: the workspaces whose layout, whose floats and      *)
(* whose fullscreen pointer have it.                                         *)

Tiling(d, t) == {w \in Workspace : t \in ToSet(d.slaves[w]) \cup {d.master[w]}}
Floating(d, t) == {w \in Workspace : t \in ToSet(d.floats[w])}
Filling(d, t) == {w \in Workspace : t = d.fullscreen[w]}

Place(d, t) == <<Tiling(d, t), Floating(d, t), Filling(d, t)>>

Nowhere == <<{}, {}, {}>>

(* Only on w, and only as a window of that state.                            *)
Only(st, w) ==
  CASE st = "TILED"      -> <<{w}, {}, {}>>
    [] st = "FLOAT"      -> <<{}, {w}, {}>>
    [] st = "FULLSCREEN" -> <<{}, {}, {w}>>

(* A list has everyone once, and without a master there are no slaves.       *)
Ordered(d) ==
  \A w \in Workspace :
    /\ IsInjective(d.slaves[w]) /\ IsInjective(d.floats[w])
    /\ d.master[w] \notin ToSet(d.slaves[w])
    /\ d.master[w] = None => d.slaves[w] = <<>>

(* What happens to t leaves every other window where and what it is.         *)
Same(d, e, u) ==
  /\ Place(e, u) = Place(d, u)
  /\ e.home[u] = d.home[u] /\ e.state[u] = d.state[u] /\ e.life[u] = d.life[u]
  /\ u \in e.ghosts => u \in d.ghosts

Beside(d, e, t) ==
  Ordered(e) /\ e.kinds = d.kinds /\ \A u \in Toplevel \ {t} : Same(d, e, u)

(* And nobody becomes a ghost.                                               *)
Around(d, e, t) == Beside(d, e, t) /\ e.ghosts \subseteq d.ghosts

LEMMA AroundTwice ==
  ASSUME NEW d, NEW e, NEW f, NEW t, Around(d, e, t), Around(e, f, t)
  PROVE  Around(d, f, t)
BY DEF Around, Beside, Same

LEMMA AroundSame == ASSUME NEW d, Ordered(d), NEW t PROVE Around(d, d, t)
BY DEF Around, Beside, Same

(* Nothing is said of lists.                                                 *)
SameLists(d, e) ==
  /\ e.master = d.master /\ e.slaves = d.slaves /\ e.floats = d.floats
  /\ e.fullscreen = d.fullscreen

LEMMA ListsSame ==
  ASSUME NEW d, NEW e, SameLists(d, e)
  PROVE  (Ordered(d) => Ordered(e)) /\ \A t : Place(e, t) = Place(d, t)
BY DEF SameLists, Ordered, Place, Tiling, Floating, Filling

LEMMA WindowsOf ==
  ASSUME NEW d, Typed(d), NEW w \in Workspace
  PROVE  /\ d.slaves[w] \in Seq(Toplevel) /\ d.floats[w] \in Seq(Toplevel)
         /\ d.master[w] \in Toplevel \cup {None} /\ d.fullscreen[w] \in Toplevel \cup {None}
         /\ None \notin Toplevel
         /\ None \notin ToSet(d.slaves[w]) /\ None \notin ToSet(d.floats[w])
BY NoneIsNoName, Elements DEF Typed, ListTypes

(* The one link is taken out of the list it is in; masters have none.        *)
LEMMA Unlinked ==
  ASSUME NEW d, Typed(d), Ordered(d), NEW t \in Toplevel, NEW e, e = Unlink(d, t), e.crashed = "none"
  PROVE  /\ Around(d, e, t)
         /\ Floating(e, t) = {} /\ Filling(e, t) = Filling(d, t)
         /\ Tiling(e, t) = {w \in Workspace : t = d.master[w]}
         /\ t \notin e.ghosts /\ e.ghosts = d.ghosts \ {t}
<1>1. Linked(d, t)
  BY Fails DEF Unlink
<1>2. /\ e.floats = [w \in Workspace |-> RemoveFirst(d.floats[w], t)]
      /\ e.slaves = [w \in Workspace |-> RemoveFirst(d.slaves[w], t)]
      /\ e.ghosts = d.ghosts \ {t}
      /\ e.master = d.master /\ e.fullscreen = d.fullscreen
      /\ e.home = d.home /\ e.state = d.state /\ e.life = d.life /\ e.kinds = d.kinds
  BY <1>1 DEF Unlink, Typed, Fields
<1>3. ASSUME NEW w \in Workspace
      PROVE  /\ IsInjective(e.slaves[w]) /\ IsInjective(e.floats[w])
             /\ ToSet(e.slaves[w]) = ToSet(d.slaves[w]) \ {t}
             /\ ToSet(e.floats[w]) = ToSet(d.floats[w]) \ {t}
  <2>1. d.slaves[w] \in Seq(Toplevel) /\ d.floats[w] \in Seq(Toplevel)
        /\ IsInjective(d.slaves[w]) /\ IsInjective(d.floats[w])
    BY WindowsOf DEF Ordered
  <2>2. e.slaves[w] = RemoveFirst(d.slaves[w], t) /\ e.floats[w] = RemoveFirst(d.floats[w], t)
    BY <1>2
  <2>3. IsInjective(e.slaves[w]) /\ ToSet(e.slaves[w]) = ToSet(d.slaves[w]) \ {t}
    BY <2>1, <2>2, Removed
  <2>4. IsInjective(e.floats[w]) /\ ToSet(e.floats[w]) = ToSet(d.floats[w]) \ {t}
    BY <2>1, <2>2, Removed
  <2> QED BY <2>3, <2>4
<1>4. Ordered(e)
  <2> SUFFICES ASSUME NEW w \in Workspace, d.master[w] = None PROVE e.slaves[w] = <<>>
    BY <1>2, <1>3 DEF Ordered
  <2>1. e.slaves[w] = RemoveFirst(<<>>, t)
    BY <1>2 DEF Ordered
  <2>2. RemoveFirst(<<>>, t) \in Seq(Toplevel) /\ ToSet(RemoveFirst(<<>>, t)) \subseteq ToSet(<<>>)
    BY Removed, Emptied
  <2> QED BY <2>1, <2>2, Elements, Emptied
<1>5. ASSUME NEW u \in Toplevel \ {t} PROVE Place(e, u) = Place(d, u)
  BY <1>2, <1>3 DEF Place, Tiling, Floating, Filling
<1>6. Floating(e, t) = {} /\ Filling(e, t) = Filling(d, t)
  BY <1>2, <1>3 DEF Floating, Filling
<1>7. Tiling(e, t) = {w \in Workspace : t = d.master[w]}
  BY <1>2, <1>3 DEF Tiling
<1>8. Around(d, e, t)
  BY <1>2, <1>4, <1>5 DEF Around, Beside, Same
<1> QED BY <1>2, <1>6, <1>7, <1>8

(* A window that is nowhere becomes the first float.                         *)
LEMMA Pushed ==
  ASSUME NEW d, Typed(d), Ordered(d), NEW t \in Toplevel, NEW w \in Workspace, Place(d, t) = Nowhere,
         NEW e, e = PushFloat(d, w, t), e.crashed = "none"
  PROVE  Around(d, e, t) /\ Place(e, t) = Only("FLOAT", w) /\ t \notin e.ghosts
<1>1. ~Linked(d, t)
  BY Fails DEF PushFloat
<1>2. /\ e.floats = [d.floats EXCEPT ![w] = <<t>> \o d.floats[w]]
      /\ e.slaves = d.slaves /\ e.ghosts = d.ghosts
      /\ e.master = d.master /\ e.fullscreen = d.fullscreen
      /\ e.home = d.home /\ e.state = d.state /\ e.life = d.life /\ e.kinds = d.kinds
  BY <1>1 DEF PushFloat, Typed, Fields
<1>3. d.floats \in [Workspace -> Seq(Toplevel)] /\ t \notin d.ghosts
  BY <1>1 DEF Typed, ListTypes, Linked
<1>4. t \notin ToSet(d.floats[w])
  BY DEF Place, Nowhere, Floating
<1>5. /\ IsInjective(e.floats[w])
      /\ ToSet(e.floats[w]) = ToSet(d.floats[w]) \cup {t}
  <2>1. d.floats[w] \in Seq(Toplevel) /\ IsInjective(d.floats[w])
    BY WindowsOf DEF Ordered
  <2> DEFINE first == <<t>>
  <2>2. e.floats[w] = first \o d.floats[w]
    BY <1>2, <1>3
  <2>3. first \in Seq(Toplevel) /\ ToSet(first) = {t} /\ IsInjective(first)
    BY Single
  <2> HIDE DEF first
  <2>4. /\ ToSet(first \o d.floats[w]) = ToSet(first) \cup ToSet(d.floats[w])
        /\ IsInjective(first \o d.floats[w])
    BY <1>4, <2>1, <2>3, Joined
  <2> QED BY <2>2, <2>3, <2>4
<1>6. \A v \in Workspace : v # w => e.floats[v] = d.floats[v]
  BY <1>2, <1>3
<1>7. Ordered(e)
  BY <1>2, <1>5, <1>6 DEF Ordered
<1>8. ASSUME NEW u \in Toplevel \ {t} PROVE Place(e, u) = Place(d, u)
  BY <1>2, <1>5, <1>6 DEF Place, Tiling, Floating, Filling
<1>9. Place(e, t) = Only("FLOAT", w)
  BY <1>2, <1>5, <1>6 DEF Place, Tiling, Floating, Filling, Only, Nowhere
<1> QED BY <1>2, <1>3, <1>7, <1>8, <1>9 DEF Around, Beside, Same

(* One that is nowhere enters a layout: as the master, or as the last slave. *)
LEMMA Added ==
  ASSUME NEW d, Typed(d), Ordered(d), NEW t \in Toplevel, NEW w \in Workspace, Place(d, t) = Nowhere,
         NEW e, e = LayoutAdd(d, w, t), e.crashed = "none"
  PROVE  Around(d, e, t) /\ Place(e, t) = Only("TILED", w) /\ e.ghosts = d.ghosts
<1>0. /\ t \notin ToSet(d.slaves[w]) /\ t # d.master[w] /\ t # None
      /\ d.slaves[w] \in Seq(Toplevel) /\ None \notin ToSet(d.slaves[w])
      /\ IsInjective(d.slaves[w])
      /\ \A v \in Workspace : t \notin ToSet(d.slaves[v]) /\ t # d.master[v]
  BY WindowsOf DEF Place, Nowhere, Tiling, Ordered
<1>1. /\ e.floats = d.floats /\ e.fullscreen = d.fullscreen /\ e.ghosts = d.ghosts
      /\ e.home = d.home /\ e.state = d.state /\ e.life = d.life /\ e.kinds = d.kinds
  BY Fails DEF LayoutAdd, Typed, Fields
<1>2. d.slaves \in [Workspace -> Seq(Toplevel)] /\ d.master \in [Workspace -> Toplevel \cup {None}]
  BY DEF Typed, ListTypes
<1>3. \/ e.slaves[w] = d.slaves[w] /\ e.master[w] = t /\ d.master[w] = None
      \/ e.slaves[w] = Append(d.slaves[w], t) /\ e.master[w] = d.master[w] /\ d.master[w] # None
  BY <1>2, Fails DEF LayoutAdd, Typed, Fields
<1>4. \A v \in Workspace : v # w => e.slaves[v] = d.slaves[v] /\ e.master[v] = d.master[v]
  BY <1>2, Fails DEF LayoutAdd, Typed, Fields
<1>5. /\ IsInjective(e.slaves[w]) /\ e.master[w] # None
      /\ e.master[w] \notin ToSet(e.slaves[w])
      /\ (ToSet(e.slaves[w]) \cup {e.master[w]}) \ {None}
           = ((ToSet(d.slaves[w]) \cup {d.master[w]}) \ {None}) \cup {t}
  <2>1. CASE e.slaves[w] = d.slaves[w] /\ e.master[w] = t /\ d.master[w] = None
    BY <1>0, <2>1
  <2>2. CASE e.slaves[w] = Append(d.slaves[w], t) /\ e.master[w] = d.master[w] /\ d.master[w] # None
    <3>1. IsInjective(e.slaves[w]) /\ ToSet(e.slaves[w]) = ToSet(d.slaves[w]) \cup {t}
      BY <1>0, <2>2, Appended
    <3> QED BY <3>1, <1>0, <2>2 DEF Ordered
  <2> QED BY <1>3, <2>1, <2>2
<1>6. Ordered(e)
  BY <1>1, <1>4, <1>5 DEF Ordered
<1>7. ASSUME NEW u \in Toplevel, NEW v \in Workspace
      PROVE  v \in Tiling(e, u) <=> v \in Tiling(d, u) \/ (u = t /\ v = w)
  <2>1. u # None
    BY NoneIsNoName
  <2>2. CASE v = w
    BY <1>5, <2>1, <2>2 DEF Tiling
  <2>3. CASE v # w
    BY <1>4, <2>3 DEF Tiling
  <2> QED BY <2>2, <2>3
<1>8. ASSUME NEW u \in Toplevel \ {t} PROVE Place(e, u) = Place(d, u)
  <2>1. Tiling(e, u) = Tiling(d, u)
    BY <1>7 DEF Tiling
  <2> QED BY <2>1, <1>1 DEF Place, Floating, Filling
<1>9. Place(e, t) = Only("TILED", w)
  <2>1. Tiling(e, t) = {w}
    BY <1>0, <1>7 DEF Tiling
  <2> QED BY <2>1, <1>1 DEF Place, Floating, Filling, Only, Nowhere
<1> QED BY <1>1, <1>6, <1>8, <1>9 DEF Around, Beside, Same

(* The master goes, and the last slave follows it.                           *)
LEMMA Promoted ==
  ASSUME NEW d, Typed(d), Ordered(d), NEW w \in Workspace, NEW t \in Toplevel, t = d.master[w],
         Tiling(d, t) = {w}, NEW e, e = Promote(d, w)
  PROVE  /\ Around(d, e, t) /\ e.ghosts = d.ghosts
         /\ Tiling(e, t) = {} /\ Floating(e, t) = Floating(d, t) /\ Filling(e, t) = Filling(d, t)
<1>0. /\ t \notin ToSet(d.slaves[w]) /\ t # None
      /\ d.slaves[w] \in Seq(Toplevel) /\ None \notin ToSet(d.slaves[w])
      /\ IsInjective(d.slaves[w])
  BY WindowsOf DEF Ordered
<1>1. /\ e.floats = d.floats /\ e.fullscreen = d.fullscreen /\ e.ghosts = d.ghosts
      /\ e.home = d.home /\ e.state = d.state /\ e.life = d.life /\ e.kinds = d.kinds
  BY DEF Promote, Typed, Fields
<1>2. d.slaves \in [Workspace -> Seq(Toplevel)] /\ d.master \in [Workspace -> Toplevel \cup {None}]
  BY DEF Typed, ListTypes
<1>3. /\ e.master[w] = LastOrNone(d.slaves[w])
      /\ e.slaves[w] = IF d.slaves[w] = <<>> THEN d.slaves[w] ELSE Front(d.slaves[w])
      /\ \A v \in Workspace : v # w => e.slaves[v] = d.slaves[v] /\ e.master[v] = d.master[v]
  BY <1>2 DEF Promote, Typed, Fields
<1>4. /\ IsInjective(e.slaves[w]) /\ e.master[w] \notin ToSet(e.slaves[w])
      /\ e.master[w] = None => e.slaves[w] = <<>>
      /\ (ToSet(e.slaves[w]) \cup {e.master[w]}) \ {None} = ToSet(d.slaves[w])
  <2>1. CASE d.slaves[w] = <<>>
    BY <1>3, <2>1, Emptied DEF LastOrNone
  <2>2. CASE d.slaves[w] # <<>>
    <3>1. e.master[w] = Last(d.slaves[w]) /\ e.slaves[w] = Front(d.slaves[w])
      BY <1>3, <2>2 DEF LastOrNone
    <3>2. /\ Last(d.slaves[w]) \in ToSet(d.slaves[w])
          /\ ToSet(d.slaves[w]) = {Last(d.slaves[w])} \cup ToSet(Front(d.slaves[w]))
          /\ IsInjective(Front(d.slaves[w])) /\ Last(d.slaves[w]) \notin ToSet(Front(d.slaves[w]))
      BY <1>0, <2>2, Ends
    <3> QED BY <3>1, <3>2, <1>0
  <2> QED BY <2>1, <2>2
<1>5. Ordered(e)
  BY <1>1, <1>3, <1>4 DEF Ordered
<1>6. ASSUME NEW u \in Toplevel, NEW v \in Workspace
      PROVE  v \in Tiling(e, u) <=> v \in Tiling(d, u) /\ ~(u = t /\ v = w)
  <2>1. u # None
    BY NoneIsNoName
  <2>2. CASE v = w
    BY <1>0, <1>4, <2>1, <2>2 DEF Tiling
  <2>3. CASE v # w
    BY <1>3, <2>3 DEF Tiling
  <2> QED BY <2>2, <2>3
<1>7. ASSUME NEW u \in Toplevel \ {t} PROVE Place(e, u) = Place(d, u)
  <2>1. Tiling(e, u) = Tiling(d, u)
    BY <1>6 DEF Tiling
  <2> QED BY <2>1, <1>1 DEF Place, Floating, Filling
<1>8. Tiling(e, t) = {}
  BY <1>6 DEF Tiling
<1> QED BY <1>1, <1>5, <1>7, <1>8 DEF Around, Beside, Same, Floating, Filling

(* The fullscreen pointer.                                                   *)
LEMMA Filled ==
  ASSUME NEW d, Typed(d), Ordered(d), NEW w \in Workspace, NEW t \in Toplevel,
         NEW new, new = t \/ new = None, d.fullscreen[w] = t \/ d.fullscreen[w] = None, NEW e,
         e.fullscreen = [d.fullscreen EXCEPT ![w] = new],
         e.master = d.master, e.slaves = d.slaves, e.floats = d.floats,
         e.kinds = d.kinds, e.ghosts = d.ghosts, e.life = d.life,
         \A u \in Toplevel \ {t} : e.home[u] = d.home[u] /\ e.state[u] = d.state[u]
  PROVE  /\ Around(d, e, t)
         /\ Tiling(e, t) = Tiling(d, t) /\ Floating(e, t) = Floating(d, t)
         /\ new = t => Filling(e, t) = Filling(d, t) \cup {w}
         /\ new = None => Filling(e, t) = Filling(d, t) \ {w}
<1>1. /\ e.fullscreen[w] = new
      /\ \A v \in Workspace : v # w => e.fullscreen[v] = d.fullscreen[v]
  BY DEF Typed, ListTypes
<1>2. Ordered(e)
  BY DEF Ordered
<1>3. ASSUME NEW u \in Toplevel \ {t} PROVE Place(e, u) = Place(d, u)
  <2>1. u # None /\ u # t
    BY NoneIsNoName
  <2>2. Filling(e, u) = Filling(d, u)
    BY <1>1, <2>1 DEF Filling
  <2> QED BY <2>2 DEF Place, Tiling, Floating
<1>4. new = t => Filling(e, t) = Filling(d, t) \cup {w}
  BY <1>1 DEF Filling
<1>5. new = None => Filling(e, t) = Filling(d, t) \ {w}
  BY <1>1, NoneIsNoName DEF Filling
<1> QED BY <1>2, <1>3, <1>4, <1>5 DEF Around, Beside, Same, Tiling, Floating

-----------------------------------------------------------------------------
(* One window.                                                               *)

(* A mapped window is where its state says, and on the workspace it points   *)
(* to: only a tiled one that was dropped may be on another.                  *)
InPlace(d, t) ==
  \E w \in Workspace :
    /\ Place(d, t) = Only(d.state[t], w)
    /\ d.home[t] # w => d.state[t] = "TILED" /\ d.kinds \cap Grabbing # {} /\ t \notin d.ghosts

IsAt(d, t, held) ==
  /\ d.life[t] = "mapped" => d.home[t] \in Workspace
  /\ d.life[t] = "mapped" /\ t # held => InPlace(d, t)
  /\ d.life[t] # "mapped" \/ t = held => Place(d, t) = Nowhere

Tidy(d, held) == Ordered(d) /\ \A t \in Toplevel : IsAt(d, t, held)

LEMMA SameIsAt ==
  ASSUME NEW d, NEW e, NEW u, NEW held, Same(d, e, u), e.kinds = d.kinds, IsAt(d, u, held)
  PROVE  IsAt(e, u, held)
BY DEF Same, IsAt, InPlace

(* The one window that something happens to is all there is to look at.      *)
LEMMA AroundTidy ==
  ASSUME NEW d, NEW e, NEW t, NEW held, NEW holds, Tidy(d, held), Beside(d, e, t),
         held = holds \/ {held, holds} \subseteq {t, None}, IsAt(e, t, holds)
  PROVE  Tidy(e, holds)
<1> SUFFICES ASSUME NEW u \in Toplevel \ {t} PROVE IsAt(e, u, holds)
  BY DEF Tidy, Beside
<1>1. Same(d, e, u) /\ e.kinds = d.kinds /\ IsAt(d, u, held)
  BY DEF Tidy, Beside
<1>2. IsAt(e, u, held)
  BY <1>1, SameIsAt
<1>3. u = held <=> u = holds
  BY NoneIsNoName
<1> QED BY <1>2, <1>3 DEF IsAt

(* What a window's place is read from.                                       *)
Placing == {"master", "slaves", "floats", "fullscreen", "home", "state", "life", "ghosts", "kinds"}

Quiet(d, e) ==
  /\ e.master = d.master /\ e.slaves = d.slaves /\ e.floats = d.floats /\ e.fullscreen = d.fullscreen
  /\ e.home = d.home /\ e.state = d.state /\ e.life = d.life /\ e.ghosts = d.ghosts
  /\ e.kinds = d.kinds

LEMMA QuietIf ==
  ASSUME NEW d, NEW e, NEW F, Kept(d, e, F), F \cap Placing = {}
  PROVE  Quiet(d, e)
BY DEF Kept, But, Quiet, Placing, Fields

LEMMA QuietTwice == ASSUME NEW d, NEW e, NEW f, Quiet(d, e), Quiet(e, f) PROVE Quiet(d, f)
BY DEF Quiet

LEMMA QuietSame == ASSUME NEW d PROVE Quiet(d, d)
BY DEF Quiet

LEMMA QuietPlaces ==
  ASSUME NEW d, NEW e, Quiet(d, e)
  PROVE  /\ Ordered(d) => Ordered(e)
         /\ \A t : Place(e, t) = Place(d, t)
         /\ \A t : Ordered(d) => Around(d, e, t)
         /\ \A t : InPlace(d, t) => InPlace(e, t)
         /\ \A held : Tidy(d, held) => Tidy(e, held)
<1>1. SameLists(d, e)
  BY DEF Quiet, SameLists
<1>2. (Ordered(d) => Ordered(e)) /\ \A t : Place(e, t) = Place(d, t)
  BY <1>1, ListsSame
<1>3. \A t : Same(d, e, t)
  BY <1>2 DEF Same, Quiet
<1>4. \A t : Ordered(d) => Around(d, e, t)
  BY <1>2, <1>3 DEF Around, Beside, Quiet
<1>5. \A t : InPlace(d, t) => InPlace(e, t)
  BY <1>2 DEF InPlace, Quiet
<1>6. ASSUME NEW held, Tidy(d, held) PROVE Tidy(e, held)
  BY <1>2, <1>3, <1>6, SameIsAt DEF Tidy, Quiet
<1> QED BY <1>2, <1>4, <1>5, <1>6

LEMMA ConfigureQuiet ==
  ASSUME NEW d, Typed(d), NEW w
  PROVE  Typed(Configure(d, w)) /\ Quiet(d, Configure(d, w)) /\ Later(d, Configure(d, w))
<1>1. Kept(d, Configure(d, w), {"due", "crashed"})
  BY ConfigureKept
<1>2. {"due", "crashed"} \cap Placing = {}
  BY DEF Placing
<1> QED BY <1>1, <1>2, QuietIf DEF Kept

LEMMA AskQuiet ==
  ASSUME NEW d, Typed(d), NEW t
  PROVE  Typed(Ask(d, t)) /\ Quiet(d, Ask(d, t)) /\ Later(d, Ask(d, t))
<1>1. Kept(d, Ask(d, t), {"due", "crashed"})
  BY AskKept
<1>2. {"due", "crashed"} \cap Placing = {}
  BY DEF Placing
<1> QED BY <1>1, <1>2, QuietIf DEF Kept

(* Where a tiled window is, it is found by its home or by its link.          *)
LEMMA LayoutRemoved ==
  ASSUME NEW d, Typed(d), Ordered(d), NEW t \in Toplevel, InPlace(d, t), d.state[t] = "TILED",
         d.home[t] \in Workspace, NEW e, e = LayoutRemove(d, t), e.crashed = "none"
  PROVE  Around(d, e, t) /\ Place(e, t) = Nowhere
<1>1. PICK w \in Workspace :
        /\ Place(d, t) = Only("TILED", w)
        /\ d.home[t] # w => t \notin d.ghosts
  BY DEF InPlace
<1>2. Tiling(d, t) = {w} /\ Floating(d, t) = {} /\ Filling(d, t) = {}
  BY <1>1 DEF Place, Only
<1>3. CASE d.master[d.home[t]] = t
  <2>1. d.home[t] = w
    BY <1>2, <1>3 DEF Tiling
  <2>2. e = Promote(d, w)
    BY <1>3, <2>1 DEF LayoutRemove
  <2> QED BY <1>2, <1>3, <2>1, <2>2, Promoted DEF Place, Nowhere
<1>4. CASE d.master[d.home[t]] # t
  <2>1. e = Unlink(d, t)
    BY <1>4 DEF LayoutRemove
  <2>2. Linked(d, t)
    BY <2>1, Fails DEF Unlink
  <2>3. ASSUME NEW v \in Workspace, t = d.master[v] PROVE FALSE
    <3>1. v = w /\ d.home[t] # w
      BY <1>2, <1>4, <2>3 DEF Tiling
    <3>2. t \notin d.ghosts /\ t \notin ToSet(d.slaves[w])
      BY <1>1, <2>3, <3>1 DEF Ordered
    <3>3. PICK x \in Workspace : Contains(d.floats[x], t) \/ Contains(d.slaves[x], t)
      BY <2>2, <3>2 DEF Linked, LinkedIn
    <3>4. t \in ToSet(d.floats[x]) \/ t \in ToSet(d.slaves[x])
      BY <3>3, WindowsOf, Elements
    <3> QED BY <1>2, <3>2, <3>4 DEF Tiling, Floating
  <2>4. /\ Around(d, e, t) /\ Floating(e, t) = {} /\ Filling(e, t) = Filling(d, t)
        /\ Tiling(e, t) = {v \in Workspace : t = d.master[v]} /\ e.ghosts = d.ghosts \ {t}
    BY <2>1, Unlinked
  <2> QED BY <1>2, <2>3, <2>4 DEF Place, Nowhere
<1> QED BY <1>3, <1>4

(* What a window is noted to be says nothing of the lists.                   *)
LEMMA Relabelled ==
  ASSUME NEW d, NEW e, NEW t, Ordered(d), SameLists(d, e),
         e.kinds = d.kinds, e.life = d.life, e.ghosts = d.ghosts,
         \A u \in Toplevel \ {t} : e.home[u] = d.home[u] /\ e.state[u] = d.state[u]
  PROVE  Around(d, e, t) /\ Ordered(e) /\ Place(e, t) = Place(d, t)
BY ListsSame DEF Around, Beside, Same

(* A window that is nowhere may be noted to be anything.                     *)
LEMMA RelabelledBeside ==
  ASSUME NEW d, NEW e, NEW t, Ordered(d), SameLists(d, e), e.kinds = d.kinds,
         \A u \in Toplevel \ {t} :
           /\ e.home[u] = d.home[u] /\ e.state[u] = d.state[u] /\ e.life[u] = d.life[u]
           /\ u \in e.ghosts => u \in d.ghosts
  PROVE  Beside(d, e, t) /\ Ordered(e) /\ Place(e, t) = Place(d, t)
BY ListsSame DEF Beside, Same

LEMMA BesideTwice ==
  ASSUME NEW d, NEW e, NEW f, NEW t, Beside(d, e, t), Beside(e, f, t)
  PROVE  Beside(d, f, t)
BY DEF Beside, Same

LEMMA StateLeft ==
  ASSUME NEW d, Typed(d), Ordered(d), NEW t \in Toplevel, InPlace(d, t), d.home[t] \in Workspace,
         NEW e, e = LeaveState(d, t), e.crashed = "none"
  PROVE  Around(d, e, t) /\ Place(e, t) = Nowhere
<1>0. d.state[t] \in State
  BY DEF Typed, WindowTypes
<1>1. CASE d.state[t] = "TILED"
  <2> DEFINE a == LayoutRemove(d, t)
  <2>1. e = Configure(a, d.home[t])
    BY <1>1 DEF LeaveState
  <2>2. Typed(a) /\ Later(d, a)
    BY LayoutRemoveKept DEF Kept
  <2> HIDE DEF a
  <2>3. Typed(e) /\ Quiet(a, e) /\ Later(a, e)
    BY <2>1, <2>2, ConfigureQuiet
  <2>4. a.crashed = "none"
    BY <2>3 DEF Later
  <2>5. Around(d, a, t) /\ Place(a, t) = Nowhere
    BY <1>1, <2>4, LayoutRemoved DEF a
  <2>6. Ordered(a)
    BY <2>5 DEF Around, Beside
  <2>7. Around(a, e, t) /\ Place(e, t) = Place(a, t)
    BY <2>3, <2>6, QuietPlaces
  <2> QED BY <2>5, <2>7, AroundTwice
<1>2. CASE d.state[t] = "FLOAT"
  <2>1. e = Unlink(d, t)
    BY <1>2 DEF LeaveState
  <2>2. Tiling(d, t) = {} /\ Filling(d, t) = {}
    BY <1>2 DEF InPlace, Place, Only
  <2>3. /\ Around(d, e, t) /\ Floating(e, t) = {} /\ Filling(e, t) = Filling(d, t)
        /\ Tiling(e, t) = {v \in Workspace : t = d.master[v]}
    BY <2>1, Unlinked
  <2>4. Tiling(e, t) = {}
    BY <2>2, <2>3 DEF Tiling
  <2> QED BY <2>2, <2>3, <2>4 DEF Place, Nowhere
<1>3. CASE d.state[t] = "FULLSCREEN"
  <2> DEFINE w == d.home[t]
  <2>1. Place(d, t) = Only("FULLSCREEN", w)
    BY <1>3 DEF InPlace
  <2>2. Tiling(d, t) = {} /\ Floating(d, t) = {} /\ Filling(d, t) = {w}
    BY <2>1 DEF Place, Only
  <2>3. d.fullscreen[w] = t
    BY <2>2 DEF Filling
  <2>4. e = [d EXCEPT !.fullscreen[w] = None]
    BY <1>3 DEF LeaveState
  <2>5. /\ e.kinds = d.kinds /\ e.ghosts = d.ghosts /\ e.life = d.life
        /\ e.home = d.home /\ e.state = d.state
        /\ e.master = d.master /\ e.slaves = d.slaves /\ e.floats = d.floats
        /\ e.fullscreen = [d.fullscreen EXCEPT ![w] = None]
    BY <2>4 DEF Typed, Fields
  <2>6. w \in Workspace
    OBVIOUS
  <2> HIDE DEF w
  <2>7. /\ Around(d, e, t) /\ Tiling(e, t) = Tiling(d, t) /\ Floating(e, t) = Floating(d, t)
        /\ Filling(e, t) = Filling(d, t) \ {w}
    BY <2>3, <2>5, <2>6, Filled
  <2> QED BY <2>2, <2>7 DEF Place, Nowhere
<1> QED BY <1>0, <1>1, <1>2, <1>3 DEF State

LEMMA TiledSet ==
  ASSUME NEW d, Typed(d), Ordered(d), NEW t \in Toplevel, InPlace(d, t), d.home[t] \in Workspace,
         NEW e, e = SetTiled(d, t), e.crashed = "none"
  PROVE  Around(d, e, t) /\ InPlace(e, t) /\ e.home = d.home
<1> DEFINE w == d.home[t]
           a == LeaveState(d, t)
           b == [a EXCEPT !.state[t] = "TILED"]
           c == LayoutAdd(b, w, t)
<1>1. e = Configure(c, w)
  BY DEF SetTiled
<1>2. Kept(d, a, Listed) /\ Typed(a) /\ Later(d, a)
  BY LeaveStateKept DEF Kept
<1>3. a.home = d.home /\ a.state = d.state
  BY <1>2 DEF Kept, But, Listed, Fields
<1> HIDE DEF a
<1>4. Kept(a, b, {"state"}) /\ Typed(b) /\ Later(a, b)
  BY <1>2, StateKept DEF Kept, State
<1>5. /\ SameLists(a, b) /\ b.kinds = a.kinds /\ b.life = a.life /\ b.ghosts = a.ghosts
      /\ b.home = a.home
      /\ b.state[t] = "TILED" /\ \A u \in Toplevel \ {t} : b.state[u] = a.state[u]
  BY <1>2 DEF SameLists, Typed, WindowTypes, Fields
<1> HIDE DEF b
<1>6. Kept(b, c, {"master", "slaves", "crashed"}) /\ Typed(c) /\ Later(b, c)
  BY <1>4, LayoutAddKept DEF Kept
<1>7. c.home = b.home /\ c.state = b.state
  BY <1>6 DEF Kept, But, Fields
<1> HIDE DEF c
<1>8. Quiet(c, e) /\ Later(c, e)
  BY <1>1, <1>6, ConfigureQuiet
<1>9. a.crashed = "none" /\ b.crashed = "none" /\ c.crashed = "none"
  BY <1>4, <1>6, <1>8 DEF Later
<1>10. Around(d, a, t) /\ Place(a, t) = Nowhere
  BY <1>9, StateLeft DEF a
<1>11. Around(a, b, t) /\ Ordered(b) /\ Place(b, t) = Nowhere
  BY <1>5, <1>10, Relabelled DEF Around, Beside
<1>12. Around(b, c, t) /\ Place(c, t) = Only("TILED", w)
  BY <1>4, <1>9, <1>11, Added DEF c
<1>13. Around(c, e, t) /\ Place(e, t) = Place(c, t)
  BY <1>8, <1>12, QuietPlaces DEF Around, Beside
<1>14. Around(d, e, t)
  BY <1>10, <1>11, <1>12, <1>13, AroundTwice
<1>15. e.home[t] = w /\ e.state[t] = "TILED"
  BY <1>3, <1>5, <1>7, <1>8 DEF Quiet
<1>16. e.home = d.home
  BY <1>3, <1>5, <1>7, <1>8 DEF Quiet
<1> QED BY <1>12, <1>13, <1>14, <1>15, <1>16 DEF InPlace

LEMMA FloatSet ==
  ASSUME NEW d, Typed(d), Ordered(d), NEW t \in Toplevel, InPlace(d, t), d.home[t] \in Workspace,
         NEW e, e = SetFloat(d, t), e.crashed = "none"
  PROVE  Around(d, e, t) /\ InPlace(e, t) /\ e.home = d.home
<1> DEFINE w == d.home[t]
           a == LeaveState(d, t)
           b == Ask(a, t)
           c == [b EXCEPT !.state[t] = "FLOAT"]
<1>1. e = PushFloat(c, w, t)
  BY DEF SetFloat
<1>2. Kept(d, a, Listed) /\ Typed(a) /\ Later(d, a)
  BY LeaveStateKept DEF Kept
<1>3. a.home = d.home /\ a.state = d.state
  BY <1>2 DEF Kept, But, Listed, Fields
<1> HIDE DEF a
<1>4. Quiet(a, b) /\ Typed(b) /\ Later(a, b)
  BY <1>2, AskQuiet
<1> HIDE DEF b
<1>5. Kept(b, c, {"state"}) /\ Typed(c) /\ Later(b, c)
  BY <1>4, StateKept DEF Kept, State
<1>6. /\ SameLists(b, c) /\ c.kinds = b.kinds /\ c.life = b.life /\ c.ghosts = b.ghosts
      /\ c.home = b.home
      /\ c.state[t] = "FLOAT" /\ \A u \in Toplevel \ {t} : c.state[u] = b.state[u]
  BY <1>4 DEF SameLists, Typed, WindowTypes, Fields
<1> HIDE DEF c
<1>7. Kept(c, e, {"floats", "crashed"}) /\ Later(c, e)
  BY <1>1, <1>5, PushFloatKept DEF Kept
<1>8. e.home = c.home /\ e.state = c.state
  BY <1>7 DEF Kept, But, Fields
<1>9. a.crashed = "none" /\ b.crashed = "none" /\ c.crashed = "none"
  BY <1>4, <1>5, <1>7 DEF Later
<1>10. Around(d, a, t) /\ Place(a, t) = Nowhere
  BY <1>9, StateLeft DEF a
<1>11. Around(a, b, t) /\ Ordered(b) /\ Place(b, t) = Nowhere
  BY <1>4, <1>10, QuietPlaces DEF Around, Beside
<1>12. Around(b, c, t) /\ Ordered(c) /\ Place(c, t) = Nowhere
  BY <1>6, <1>11, Relabelled
<1>13. Around(c, e, t) /\ Place(e, t) = Only("FLOAT", w)
  BY <1>1, <1>5, <1>12, Pushed
<1>14. Around(d, e, t)
  BY <1>10, <1>11, <1>12, <1>13, AroundTwice
<1>15. e.home[t] = w /\ e.state[t] = "FLOAT"
  BY <1>3, <1>4, <1>6, <1>8 DEF Quiet
<1>16. e.home = d.home
  BY <1>3, <1>4, <1>6, <1>8 DEF Quiet
<1> QED BY <1>13, <1>14, <1>15, <1>16 DEF InPlace

LEMMA FullscreenSet ==
  ASSUME NEW d, Typed(d), Ordered(d), NEW t \in Toplevel, InPlace(d, t), d.home[t] \in Workspace,
         d.state[t] # "FULLSCREEN", NEW e, e = SetFullscreen(d, t), e.crashed = "none"
  PROVE  Around(d, e, t) /\ InPlace(e, t) /\ e.home = d.home
<1> DEFINE w == d.home[t]
           a == LeaveState(d, t)
           b == Ask(a, t)
<1>1. CASE d.fullscreen[w] # None
  BY <1>1, AroundSame DEF SetFullscreen
<1>2. CASE d.fullscreen[w] = None
  <2>1. e = [b EXCEPT !.prev_state[t] = d.state[t], !.fullscreen[w] = t, !.state[t] = "FULLSCREEN"]
    BY <1>2 DEF SetFullscreen
  <2>2. Kept(d, a, Listed) /\ Typed(a) /\ Later(d, a)
    BY LeaveStateKept DEF Kept
  <2>3. a.home = d.home
    BY <2>2 DEF Kept, But, Listed, Fields
  <2>4. a.fullscreen = d.fullscreen
    <3>1. d.state[t] \in {"TILED", "FLOAT"}
      BY DEF Typed, WindowTypes, State
    <3>2. LayoutRemove(d, t).fullscreen = d.fullscreen
      BY Fails DEF LayoutRemove, Promote, Unlink, Fail, Typed, Fields
    <3>3. Unlink(d, t).fullscreen = d.fullscreen
      BY DEF Unlink, Fail, Typed, Fields
    <3>4. Configure(LayoutRemove(d, t), w).fullscreen = d.fullscreen
      BY <3>2, LayoutRemoveKept, ConfigureQuiet DEF Quiet, Kept
    <3> QED BY <3>1, <3>3, <3>4 DEF LeaveState
  <2> HIDE DEF a
  <2>5. Quiet(a, b) /\ Typed(b) /\ Later(a, b)
    BY <2>2, AskQuiet
  <2> HIDE DEF b
  <2>6. /\ e.kinds = b.kinds /\ e.ghosts = b.ghosts /\ e.life = b.life /\ e.home = b.home
        /\ e.master = b.master /\ e.slaves = b.slaves /\ e.floats = b.floats
        /\ e.fullscreen = [b.fullscreen EXCEPT ![w] = t] /\ e.crashed = b.crashed
    BY <2>1, <2>5 DEF Typed, Fields
  <2>7. e.state[t] = "FULLSCREEN" /\ \A u \in Toplevel \ {t} : e.state[u] = b.state[u]
    BY <2>1, <2>5 DEF Typed, WindowTypes, Fields
  <2>9. a.crashed = "none"
    BY <2>5, <2>6 DEF Later
  <2>10. Around(d, a, t) /\ Place(a, t) = Nowhere
    BY <2>9, StateLeft DEF a
  <2>11. Around(a, b, t) /\ Ordered(b) /\ Place(b, t) = Nowhere
    BY <2>5, <2>10, QuietPlaces DEF Around, Beside
  <2>12. b.fullscreen[w] = None
    BY <1>2, <2>4, <2>5 DEF Quiet
  <2> HIDE DEF w
  <2>13. Tiling(b, t) = {} /\ Floating(b, t) = {} /\ Filling(b, t) = {}
    BY <2>11 DEF Place, Nowhere
  <2>14. w \in Workspace
    BY DEF w
  <2>15. /\ Around(b, e, t) /\ Tiling(e, t) = Tiling(b, t) /\ Floating(e, t) = Floating(b, t)
         /\ Filling(e, t) = Filling(b, t) \cup {w}
    BY <2>5, <2>6, <2>7, <2>11, <2>12, <2>14, Filled
  <2>16. Place(e, t) = Only("FULLSCREEN", w)
    BY <2>13, <2>15 DEF Place, Only
  <2>17. e.home = d.home /\ e.home[t] = w
    BY <2>3, <2>5, <2>6 DEF Quiet, w
  <2> QED BY <2>7, <2>10, <2>11, <2>14, <2>15, <2>16, <2>17, AroundTwice DEF InPlace
<1> QED BY <1>1, <1>2

(* A window that is not mapped is not asked for anything.                    *)
LEMMA UnmappedStays ==
  ASSUME NEW d, Typed(d), NEW t \in Toplevel, d.life[t] # "mapped", d.home[t] \in Workspace,
         NEW e, e \in {SetTiled(d, t), SetFloat(d, t), SetFullscreen(d, t)}, e.crashed = "none"
  PROVE  e = d
<1> DEFINE w == d.home[t]
           a == LeaveState(d, t)
           b == Ask(a, t)
<1>1. Kept(d, a, Listed) /\ Typed(a)
  BY LeaveStateKept DEF Kept
<1>2. a.home = d.home /\ a.life = d.life
  BY <1>1 DEF Kept, But, Listed, Fields
<1> HIDE DEF a
<1>3. b.crashed # "none" /\ Typed(b)
  BY <1>1, <1>2, AskQuiet, Fails DEF Ask
<1> HIDE DEF b
<1>4. CASE e = SetFloat(d, t)
  <2> DEFINE c == [b EXCEPT !.state[t] = "FLOAT"]
  <2>1. Typed(c) /\ Later(b, c)
    BY <1>3, StateKept DEF Kept, State
  <2>2. e = PushFloat(c, w, t)
    BY <1>4 DEF SetFloat, a, b
  <2> HIDE DEF c
  <2>3. Later(c, e)
    BY <2>1, <2>2, PushFloatKept DEF Kept
  <2> QED BY <1>3, <2>1, <2>3 DEF Later
<1>5. CASE e = SetFullscreen(d, t)
  <2>1. CASE d.fullscreen[w] # None
    BY <1>5, <2>1 DEF SetFullscreen
  <2>2. CASE d.fullscreen[w] = None
    <3>1. e = [b EXCEPT !.prev_state[t] = d.state[t], !.fullscreen[w] = t, !.state[t] = "FULLSCREEN"]
      BY <1>5, <2>2 DEF SetFullscreen, a, b
    <3> QED BY <1>3, <3>1 DEF Typed, Fields
  <2> QED BY <2>1, <2>2
<1>6. CASE e = SetTiled(d, t)
  <2> DEFINE b2 == [a EXCEPT !.state[t] = "TILED"]
             c == LayoutAdd(b2, w, t)
  <2>1. Typed(b2) /\ b2.life = a.life
    BY <1>1, StateKept DEF Kept, State, Typed, Fields
  <2>2. e = Configure(c, w)
    BY <1>6 DEF SetTiled, a
  <2> HIDE DEF b2
  <2>3. Typed(c) /\ Kept(b2, c, {"master", "slaves", "crashed"})
    BY <2>1, LayoutAddKept DEF Kept
  <2>4. c.life[t] # "mapped"
    BY <1>2, <2>1, <2>3 DEF Kept, But, Fields
  <2>5. c.crashed = "none"
    BY <2>2, <2>3, ConfigureQuiet DEF Later
  <2>6. c.master[w] # None /\ t \in ToSet(c.slaves[w]) \cup {c.master[w]}
    <3>1. b2.slaves \in [Workspace -> Seq(Toplevel)] /\ b2.master \in [Workspace -> Toplevel \cup {None}]
      BY <2>1 DEF Typed, ListTypes
    <3>2. CASE b2.master[w] = None
      <4>1. c.master = [b2.master EXCEPT ![w] = t]
        BY <2>1, <3>2 DEF LayoutAdd, Typed, Fields
      <4> QED BY <3>1, <4>1, NoneIsNoName
    <3>3. CASE b2.master[w] # None
      <4>1. c.master = b2.master /\ c.slaves = [b2.slaves EXCEPT ![w] = Append(b2.slaves[w], t)]
        BY <2>1, <2>5, <3>3, Fails DEF LayoutAdd, Typed, Fields
      <4>2. b2.slaves[w] \in Seq(Toplevel) /\ c.slaves[w] = Append(b2.slaves[w], t)
        BY <3>1, <4>1
      <4>3. t \in ToSet(c.slaves[w])
        BY <4>2, Appended
      <4> QED BY <3>3, <4>1, <4>3
    <3> QED BY <3>2, <3>3
  <2> HIDE DEF c
  <2>7. e = Fail(c, "configured unmapped")
    BY <2>2, <2>4, <2>6 DEF Configure
  <2> QED BY <2>3, <2>7, Fails
<1> QED BY <1>4, <1>5, <1>6

LEMMA StateOf ==
  ASSUME NEW d, Typed(d), NEW t \in Toplevel, NEW st \in State, NEW e, e = SetState(d, t, st)
  PROVE  e.state[t] \in {d.state[t], st} /\ \A u \in Toplevel \ {t} : e.state[u] = d.state[u]
<1> USE DEF Kept, But, Typed, WindowTypes, Fields
<1>1. Fail(d, "freed workspace").state = d.state
  BY DEF Fail
<1> DEFINE w == d.home[t]
           a == LeaveState(d, t)
           b == Ask(a, t)
<1>2. a.state = d.state /\ Typed(a)
  <2>1. Kept(d, a, Listed)
    BY LeaveStateKept
  <2> HIDE DEF a
  <2> QED BY <2>1 DEF Listed
<1>3. SetTiled(d, t).state = [d.state EXCEPT ![t] = "TILED"]
  <2> DEFINE f == [a EXCEPT !.state[t] = "TILED"]
             c == LayoutAdd(f, w, t)
  <2> HIDE DEF a
  <2>1. Typed(f) /\ f.state = [d.state EXCEPT ![t] = "TILED"]
    BY <1>2, StateKept DEF State
  <2> HIDE DEF f
  <2>2. Typed(c) /\ c.state = f.state
    BY <2>1, LayoutAddKept
  <2> HIDE DEF c
  <2>3. Configure(c, w).state = c.state
    BY <2>2, ConfigureKept
  <2> QED BY <2>1, <2>2, <2>3 DEF SetTiled, a, f, c
<1> HIDE DEF a
<1>4. b.state = d.state /\ Typed(b)
  BY <1>2, AskKept
<1> HIDE DEF b
<1>5. SetFloat(d, t).state = [d.state EXCEPT ![t] = "FLOAT"]
  <2> DEFINE c == [b EXCEPT !.state[t] = "FLOAT"]
  <2>1. Typed(c) /\ c.state = [d.state EXCEPT ![t] = "FLOAT"]
    BY <1>4, StateKept DEF State
  <2> HIDE DEF c
  <2>2. PushFloat(c, w, t).state = c.state
    BY <2>1, PushFloatKept
  <2> QED BY <2>1, <2>2 DEF SetFloat, a, b, c
<1>6. SetFullscreen(d, t).state \in {d.state, [d.state EXCEPT ![t] = "FULLSCREEN"]}
  BY <1>4 DEF SetFullscreen, a, b
<1> QED BY <1>1, <1>3, <1>5, <1>6 DEF SetState, State

LEMMA StateSet ==
  ASSUME NEW d, Typed(d), Ordered(d), NEW t \in Toplevel, NEW st \in State, IsAt(d, t, d.grabbed),
         NEW e, e = SetState(d, t, st), e.crashed = "none"
  PROVE  Around(d, e, t) /\ IsAt(e, t, d.grabbed)
<1>1. CASE e = d
  BY <1>1, AroundSame
<1>2. CASE e # d
  <2>1. t # d.grabbed /\ d.state[t] # st /\ Exists(d, d.home[t])
    BY <1>2, Fails DEF SetState
  <2>2. d.home[t] \in Workspace
    BY <2>1 DEF Exists, Typed, WindowTypes
  <2>3. \/ e = SetTiled(d, t) \/ e = SetFloat(d, t)
        \/ e = SetFullscreen(d, t) /\ d.state[t] # "FULLSCREEN"
    BY <2>1 DEF SetState, State
  <2>4. d.life[t] = "mapped"
    BY <1>2, <2>2, <2>3, UnmappedStays
  <2>5. InPlace(d, t)
    BY <2>1, <2>4 DEF IsAt
  <2>6. Around(d, e, t) /\ InPlace(e, t) /\ e.home = d.home
    BY <2>2, <2>3, <2>5, TiledSet, FloatSet, FullscreenSet
  <2>7. e.life = d.life
    BY SetStateKept DEF Kept, But, Moved, Listed, Fields
  <2> QED BY <2>1, <2>2, <2>4, <2>6, <2>7 DEF IsAt
<1> QED BY <1>1, <1>2

LEMMA MovedToWorkspace ==
  ASSUME NEW d, Typed(d), Ordered(d), NEW t \in Toplevel, NEW w \in Workspace,
         IsAt(d, t, d.grabbed), d.life[t] = "mapped", d.state[t] # "FULLSCREEN",
         NEW e, e = MoveToWorkspace(d, t, w), e.crashed = "none"
  PROVE  Around(d, e, t) /\ IsAt(e, t, d.grabbed) /\ e.state = d.state
<1> DEFINE old == d.home[t]
<1>1. CASE t = d.grabbed \/ old = w
  BY <1>1, AroundSame DEF MoveToWorkspace
<1>2. CASE t # d.grabbed /\ old # w
  <2>1. InPlace(d, t) /\ old \in Workspace /\ d.state[t] \in {"TILED", "FLOAT"}
    BY <1>2 DEF IsAt, Typed, WindowTypes, State
  <2>2. Exists(d, old)
    BY <1>2, Fails DEF MoveToWorkspace
  <2>3. CASE d.state[t] = "TILED"
    <3> DEFINE a == LayoutRemove(d, t)
               b == LayoutAdd(a, w, t)
               c == [b EXCEPT !.home[t] = w]
               f == Configure(c, old)
    <3>1. e = Configure(f, w)
      BY <1>2, <2>2, <2>3 DEF MoveToWorkspace
    <3>2. Kept(d, a, Listed) /\ Typed(a) /\ Later(d, a)
      BY LayoutRemoveKept DEF Kept
    <3>3. a.home = d.home /\ a.state = d.state /\ a.life = d.life
      BY <3>2 DEF Kept, But, Listed, Fields
    <3> HIDE DEF a
    <3>4. Kept(a, b, {"master", "slaves", "crashed"}) /\ Typed(b) /\ Later(a, b)
      BY <3>2, LayoutAddKept DEF Kept
    <3>5. b.home = a.home /\ b.state = a.state /\ b.life = a.life
      BY <3>4 DEF Kept, But, Fields
    <3> HIDE DEF b
    <3>6. /\ SameLists(b, c) /\ c.kinds = b.kinds /\ c.life = b.life /\ c.ghosts = b.ghosts
          /\ c.state = b.state /\ c.crashed = b.crashed
          /\ c.home[t] = w /\ \A u \in Toplevel \ {t} : c.home[u] = b.home[u]
      BY <3>4 DEF SameLists, Typed, WindowTypes, Fields
    <3>7. Typed(c)
      <4>1. But(b, c, Moved) /\ WindowTypes(c) /\ ListTypes(c)
        BY <3>4 DEF But, Moved, Listed, Typed, WindowTypes, ListTypes, Fields
      <4> QED BY <3>4, <4>1, MovedTyped
    <3> HIDE DEF c
    <3>8. Typed(f) /\ Quiet(c, f) /\ Later(c, f)
      BY <3>7, ConfigureQuiet
    <3> HIDE DEF f
    <3>9. Quiet(f, e) /\ Later(f, e)
      BY <3>1, <3>8, ConfigureQuiet
    <3>10. Quiet(c, e) /\ a.crashed = "none" /\ b.crashed = "none"
      BY <3>4, <3>6, <3>8, <3>9, QuietTwice DEF Later
    <3>11. Around(d, a, t) /\ Place(a, t) = Nowhere
      BY <2>1, <2>3, <3>10, LayoutRemoved DEF a
    <3>12. Around(a, b, t) /\ Place(b, t) = Only("TILED", w)
      BY <3>2, <3>10, <3>11, Added DEF b, Around, Beside
    <3>13. Around(b, c, t) /\ Ordered(c) /\ Place(c, t) = Place(b, t)
      BY <3>6, <3>12, Relabelled DEF Around, Beside
    <3>14. Around(c, e, t) /\ Place(e, t) = Place(c, t)
      BY <3>10, <3>13, QuietPlaces
    <3>15. Around(d, e, t)
      BY <3>11, <3>12, <3>13, <3>14, AroundTwice
    <3>16. e.home[t] = w /\ e.state = d.state /\ e.life = d.life
      BY <3>3, <3>5, <3>6, <3>10 DEF Quiet
    <3> QED BY <1>2, <2>3, <3>12, <3>13, <3>14, <3>15, <3>16 DEF IsAt, InPlace
  <2>4. CASE d.state[t] = "FLOAT"
    <3> DEFINE a == Unlink(d, t)
               b == [a EXCEPT !.home[t] = w, !.due = @ \/ d.output[old] # d.output[w]]
    <3>1. e = PushFloat(b, w, t)
      BY <1>2, <2>2, <2>4 DEF MoveToWorkspace
    <3>2. Kept(d, a, {"floats", "slaves", "ghosts", "crashed"}) /\ Typed(a) /\ Later(d, a)
      BY UnlinkKept DEF Kept
    <3>3. a.home = d.home /\ a.state = d.state /\ a.life = d.life
      BY <3>2 DEF Kept, But, Fields
    <3> HIDE DEF a
    <3>4. /\ SameLists(a, b) /\ b.kinds = a.kinds /\ b.life = a.life /\ b.ghosts = a.ghosts
          /\ b.state = a.state /\ b.crashed = a.crashed
          /\ b.home[t] = w /\ \A u \in Toplevel \ {t} : b.home[u] = a.home[u]
      BY <3>2 DEF SameLists, Typed, WindowTypes, Fields
    <3>5. Typed(b)
      <4>1. But(a, b, Moved) /\ WindowTypes(b) /\ ListTypes(b)
        BY <3>2 DEF But, Moved, Listed, Typed, WindowTypes, ListTypes, Fields
      <4> QED BY <3>2, <4>1, MovedTyped
    <3> HIDE DEF b
    <3>6. Kept(b, e, {"floats", "crashed"}) /\ Later(b, e)
      BY <3>1, <3>5, PushFloatKept DEF Kept
    <3>7. e.home = b.home /\ e.state = b.state /\ e.life = b.life
      BY <3>6 DEF Kept, But, Fields
    <3>8. a.crashed = "none"
      BY <3>4, <3>6 DEF Later
    <3>9. Tiling(d, t) = {} /\ Filling(d, t) = {}
      BY <2>1, <2>4 DEF InPlace, Place, Only
    <3>10. /\ Around(d, a, t) /\ Floating(a, t) = {} /\ Filling(a, t) = Filling(d, t)
           /\ Tiling(a, t) = {v \in Workspace : t = d.master[v]}
      BY <3>8, Unlinked DEF a
    <3>11. Place(a, t) = Nowhere
      <4>1. Tiling(a, t) = {}
        BY <3>9, <3>10 DEF Tiling
      <4> QED BY <3>9, <3>10, <4>1 DEF Place, Nowhere
    <3>12. Around(a, b, t) /\ Ordered(b) /\ Place(b, t) = Nowhere
      BY <3>4, <3>10, <3>11, Relabelled DEF Around, Beside
    <3>13. Around(b, e, t) /\ Place(e, t) = Only("FLOAT", w)
      BY <3>1, <3>5, <3>12, Pushed
    <3>14. Around(d, e, t)
      BY <3>10, <3>12, <3>13, AroundTwice
    <3>15. e.home[t] = w /\ e.state = d.state /\ e.life = d.life
      BY <3>3, <3>4, <3>7
    <3> QED BY <1>2, <2>4, <3>13, <3>14, <3>15 DEF IsAt, InPlace
  <2> QED BY <2>1, <2>3, <2>4
<1> QED BY <1>1, <1>2

LEMMA RaisedPlaces ==
  ASSUME NEW d, Typed(d), Ordered(d), NEW t \in Toplevel, InPlace(d, t), d.home[t] \in Workspace,
         d.state[t] = "FLOAT", NEW e, e = Raise(d, t), e.crashed = "none"
  PROVE  Around(d, e, t) /\ Place(e, t) = Place(d, t)
<1> DEFINE a == Unlink(d, t)
<1>1. e = PushFloat(a, d.home[t], t)
  BY DEF Raise
<1>2. Typed(a)
  BY UnlinkKept DEF Kept
<1> HIDE DEF a
<1>3. a.crashed = "none"
  BY <1>1, <1>2, PushFloatKept DEF Kept, Later
<1>4. Place(d, t) = Only("FLOAT", d.home[t])
  BY DEF InPlace
<1>5. Tiling(d, t) = {} /\ Filling(d, t) = {}
  BY <1>4 DEF Place, Only
<1>6. /\ Around(d, a, t) /\ Floating(a, t) = {} /\ Filling(a, t) = Filling(d, t)
      /\ Tiling(a, t) = {v \in Workspace : t = d.master[v]}
  BY <1>3, Unlinked DEF a
<1>7. Place(a, t) = Nowhere
  <2>1. Tiling(a, t) = {}
    BY <1>5, <1>6 DEF Tiling
  <2> QED BY <1>5, <1>6, <2>1 DEF Place, Nowhere
<1>8. Around(a, e, t) /\ Place(e, t) = Only("FLOAT", d.home[t])
  BY <1>1, <1>2, <1>6, <1>7, Pushed DEF Around, Beside
<1> QED BY <1>4, <1>6, <1>8, AroundTwice

(* Two windows of one layout take each other's place.                        *)
LEMMA SwappedPlaces ==
  ASSUME NEW d, Typed(d), Ordered(d), NEW a \in Toplevel, NEW b \in Toplevel, NEW w \in Workspace,
         w = d.home[a], w \in Tiling(d, a), w \in Tiling(d, b), NEW e, e = SwapLayout(d, a, b)
  PROVE  Around(d, e, a) /\ Place(e, a) = Place(d, a)
<1> DEFINE Other(t) == IF t = a THEN b ELSE IF t = b THEN a ELSE t
<1>1. /\ d.slaves \in [Workspace -> Seq(Toplevel)] /\ d.master \in [Workspace -> Toplevel \cup {None}]
      /\ d.slaves[w] \in Seq(Toplevel)
  BY DEF Typed, ListTypes
<1>2. /\ e.master = [d.master EXCEPT ![w] = Other(d.master[w])]
      /\ e.slaves = [d.slaves EXCEPT ![w] = [i \in DOMAIN d.slaves[w] |-> Other(d.slaves[w][i])]]
      /\ e.floats = d.floats /\ e.fullscreen = d.fullscreen
  BY DEF SwapLayout, Typed, Fields
<1>3. e.master[w] = Other(d.master[w]) /\ \A v \in Workspace : v # w => e.master[v] = d.master[v]
  BY <1>1, <1>2
<1>4. /\ e.slaves[w] = [i \in DOMAIN d.slaves[w] |-> Other(d.slaves[w][i])]
      /\ \A v \in Workspace : v # w => e.slaves[v] = d.slaves[v]
  BY <1>1, <1>2
<1>5. /\ ToSet(e.slaves[w]) = {Other(x) : x \in ToSet(d.slaves[w])}
      /\ IsInjective(e.slaves[w])
  <2> DEFINE s == d.slaves[w]
             r == e.slaves[w]
  <2>1. s \in Seq(Toplevel) /\ IsInjective(s)
    BY <1>1 DEF Ordered
  <2>2. r = [i \in DOMAIN s |-> IF s[i] = a THEN b ELSE IF s[i] = b THEN a ELSE s[i]]
    BY <1>4
  <2> HIDE DEF s, r
  <2> DEFINE f == [i \in DOMAIN s |-> IF s[i] = a THEN b ELSE IF s[i] = b THEN a ELSE s[i]]
  <2>3. \A q : q = f => IsInjective(q)
    BY <2>1, Swapped
  <2>4. \A q : q = f => ToSet(q) = {IF x = a THEN b ELSE IF x = b THEN a ELSE x : x \in ToSet(s)}
    BY <2>1, Swapped
  <2>5. r = f
    BY <2>2
  <2> HIDE DEF f
  <2> QED BY <2>3, <2>4, <2>5 DEF r, s
<1>6. d.master[w] # None
  BY NoneIsNoName, Emptied DEF Tiling, Ordered
<1>7. e.master[w] # None /\ e.master[w] \notin ToSet(e.slaves[w])
  BY <1>3, <1>5, <1>6, NoneIsNoName DEF Ordered
<1>8. ToSet(e.slaves[w]) \cup {e.master[w]} = ToSet(d.slaves[w]) \cup {d.master[w]}
  <2>1. /\ a \in ToSet(d.slaves[w]) \cup {d.master[w]}
        /\ b \in ToSet(d.slaves[w]) \cup {d.master[w]}
    BY DEF Tiling
  <2>2. ToSet(e.slaves[w]) \cup {e.master[w]} = {Other(x) : x \in ToSet(d.slaves[w]) \cup {d.master[w]}}
    BY <1>3, <1>5
  <2> QED BY <2>1, <2>2
<1>9. Ordered(e)
  <2> SUFFICES ASSUME NEW v \in Workspace
               PROVE  /\ IsInjective(e.slaves[v]) /\ IsInjective(e.floats[v])
                      /\ e.master[v] \notin ToSet(e.slaves[v])
                      /\ e.master[v] = None => e.slaves[v] = <<>>
    BY DEF Ordered
  <2>1. CASE v = w
    BY <2>1, <1>2, <1>5, <1>7 DEF Ordered
  <2>2. CASE v # w
    BY <2>2, <1>2, <1>3, <1>4 DEF Ordered
  <2> QED BY <2>1, <2>2
<1>10. \A u \in Toplevel : Tiling(e, u) = Tiling(d, u)
  BY <1>3, <1>4, <1>8 DEF Tiling
<1>11. /\ e.home = d.home /\ e.state = d.state /\ e.life = d.life /\ e.ghosts = d.ghosts
       /\ e.kinds = d.kinds
  BY DEF SwapLayout, Typed, Fields
<1>12. \A u \in Toplevel : Place(e, u) = Place(d, u)
  BY <1>2, <1>10 DEF Place, Floating, Filling
<1> QED BY <1>9, <1>11, <1>12 DEF Around, Beside, Same

(* A window is dropped into a layout, as master or between two slaves.       *)
LEMMA DroppedInLayout ==
  ASSUME NEW d, Typed(d), Ordered(d), NEW t \in Toplevel, NEW w \in Workspace, Place(d, t) = Nowhere,
         NEW e,
         /\ e.floats = d.floats /\ e.fullscreen = d.fullscreen /\ e.ghosts = d.ghosts
         /\ e.home = d.home /\ e.state = d.state /\ e.life = d.life /\ e.kinds = d.kinds,
         \A v \in Workspace : v # w => e.slaves[v] = d.slaves[v] /\ e.master[v] = d.master[v],
         IsInjective(e.slaves[w]), e.master[w] # None, e.master[w] \notin ToSet(e.slaves[w]),
         (ToSet(e.slaves[w]) \cup {e.master[w]}) \ {None}
           = ((ToSet(d.slaves[w]) \cup {d.master[w]}) \ {None}) \cup {t}
  PROVE  Around(d, e, t) /\ Place(e, t) = Only("TILED", w)
<1>1. Ordered(e)
  BY DEF Ordered
<1>2. ASSUME NEW u \in Toplevel, NEW v \in Workspace
      PROVE  v \in Tiling(e, u) <=> v \in Tiling(d, u) \/ (u = t /\ v = w)
  <2>1. u # None
    BY NoneIsNoName
  <2>2. CASE v = w
    BY <2>1, <2>2 DEF Tiling
  <2>3. CASE v # w
    BY <2>3 DEF Tiling
  <2> QED BY <2>2, <2>3
<1>3. ASSUME NEW u \in Toplevel \ {t} PROVE Place(e, u) = Place(d, u)
  <2>1. Tiling(e, u) = Tiling(d, u)
    BY <1>2 DEF Tiling
  <2> QED BY <2>1 DEF Place, Floating, Filling
<1>4. Place(e, t) = Only("TILED", w)
  <2>1. Tiling(e, t) = {w}
    BY <1>2 DEF Place, Nowhere, Tiling
  <2> QED BY <2>1 DEF Place, Floating, Filling, Only, Nowhere
<1> QED BY <1>1, <1>3, <1>4 DEF Around, Beside, Same

LEMMA LayoutInserted ==
  ASSUME NEW d, Typed(d), Ordered(d), NEW t \in Toplevel, Place(d, t) = Nowhere,
         NEW e \in InsertLayout(d, t), e.crashed = "none"
  PROVE  /\ Around(d, e, t) /\ e.home = d.home /\ e.state = d.state
         /\ \E w \in Workspace : Place(e, t) = Only("TILED", w)
<1> DEFINE o == IF d.cursor = None THEN FirstOrNone(d.outputs) ELSE d.cursor
           w == d.act[o]
<1>1. o \in d.plugged
  BY Fails DEF InsertLayout
<1>2. w \in Workspace
  BY <1>1, ActiveTyped
<1>3. \E f : /\ e = Configure(f, w)
             /\ \/ d.master[w] = None /\ f = [d EXCEPT !.master[w] = t]
                \/ /\ d.master[w] # None
                   /\ \/ f = [d EXCEPT !.master[w] = t, !.slaves[w] = Append(@, d.master[w])]
                      \/ \E i \in 1 .. Len(d.slaves[w]) + 1 : f = [d EXCEPT !.slaves[w] = InsertAt(@, i, t)]
  BY <1>1 DEF InsertLayout
<1> HIDE DEF o, w
<1>4. PICK f : /\ e = Configure(f, w)
               /\ \/ d.master[w] = None /\ f = [d EXCEPT !.master[w] = t]
                  \/ /\ d.master[w] # None
                     /\ \/ f = [d EXCEPT !.master[w] = t, !.slaves[w] = Append(@, d.master[w])]
                        \/ \E i \in 1 .. Len(d.slaves[w]) + 1 : f = [d EXCEPT !.slaves[w] = InsertAt(@, i, t)]
  BY <1>3
<1>5. /\ t \notin ToSet(d.slaves[w]) /\ t # d.master[w] /\ t # None
      /\ d.slaves[w] \in Seq(Toplevel) /\ None \notin ToSet(d.slaves[w])
      /\ IsInjective(d.slaves[w]) /\ d.master[w] \in Toplevel \cup {None}
      /\ d.master[w] \notin ToSet(d.slaves[w])
      /\ d.master[w] = None => d.slaves[w] = <<>>
  BY <1>2, WindowsOf DEF Place, Nowhere, Tiling, Ordered
<1>6. d.slaves \in [Workspace -> Seq(Toplevel)] /\ d.master \in [Workspace -> Toplevel \cup {None}]
  BY DEF Typed, ListTypes
<1>7. /\ f.floats = d.floats /\ f.fullscreen = d.fullscreen /\ f.ghosts = d.ghosts
      /\ f.home = d.home /\ f.state = d.state /\ f.life = d.life /\ f.kinds = d.kinds
      /\ But(d, f, {"master", "slaves"})
      /\ \/ /\ d.master[w] = None
            /\ f.master = [d.master EXCEPT ![w] = t] /\ f.slaves = d.slaves
         \/ /\ d.master[w] # None
            /\ f.master = [d.master EXCEPT ![w] = t]
            /\ f.slaves = [d.slaves EXCEPT ![w] = Append(d.slaves[w], d.master[w])]
         \/ /\ d.master[w] # None /\ f.master = d.master
            /\ \E i \in 1 .. Len(d.slaves[w]) + 1 :
                 f.slaves = [d.slaves EXCEPT ![w] = InsertAt(d.slaves[w], i, t)]
  <2>1. CASE d.master[w] = None /\ f = [d EXCEPT !.master[w] = t]
    BY <2>1 DEF Typed, But, Fields
  <2>2. CASE d.master[w] # None /\ f = [d EXCEPT !.master[w] = t, !.slaves[w] = Append(@, d.master[w])]
    BY <2>2 DEF Typed, But, Fields
  <2>3. ASSUME d.master[w] # None, NEW i \in 1 .. Len(d.slaves[w]) + 1,
               f = [d EXCEPT !.slaves[w] = InsertAt(@, i, t)]
        PROVE  /\ f.floats = d.floats /\ f.fullscreen = d.fullscreen /\ f.ghosts = d.ghosts
               /\ f.home = d.home /\ f.state = d.state /\ f.life = d.life /\ f.kinds = d.kinds
               /\ But(d, f, {"master", "slaves"})
               /\ f.master = d.master
               /\ f.slaves = [d.slaves EXCEPT ![w] = InsertAt(d.slaves[w], i, t)]
    BY <2>3 DEF Typed, But, Fields
  <2> QED BY <1>4, <2>1, <2>2, <2>3
<1>8. /\ \A v \in Workspace : v # w => f.slaves[v] = d.slaves[v] /\ f.master[v] = d.master[v]
      /\ f.master \in [Workspace -> {f.master[v] : v \in Workspace}]
      /\ f.slaves \in [Workspace -> {f.slaves[v] : v \in Workspace}]
      /\ \/ d.master[w] = None /\ f.master[w] = t /\ f.slaves[w] = d.slaves[w]
         \/ d.master[w] # None /\ f.master[w] = t /\ f.slaves[w] = Append(d.slaves[w], d.master[w])
         \/ /\ d.master[w] # None /\ f.master[w] = d.master[w]
            /\ \E i \in 1 .. Len(d.slaves[w]) + 1 : f.slaves[w] = InsertAt(d.slaves[w], i, t)
  BY <1>2, <1>6, <1>7
<1>9. /\ IsInjective(f.slaves[w]) /\ f.master[w] # None /\ f.master[w] \notin ToSet(f.slaves[w])
      /\ (ToSet(f.slaves[w]) \cup {f.master[w]}) \ {None}
           = ((ToSet(d.slaves[w]) \cup {d.master[w]}) \ {None}) \cup {t}
      /\ f.slaves[w] \in Seq(Toplevel) /\ f.master[w] \in Toplevel
  <2>1. CASE d.master[w] = None /\ f.master[w] = t /\ f.slaves[w] = d.slaves[w]
    BY <1>5, <2>1
  <2>2. CASE d.master[w] # None /\ f.master[w] = t /\ f.slaves[w] = Append(d.slaves[w], d.master[w])
    <3>1. /\ IsInjective(f.slaves[w]) /\ ToSet(f.slaves[w]) = ToSet(d.slaves[w]) \cup {d.master[w]}
          /\ f.slaves[w] \in Seq(Toplevel)
      BY <1>5, <2>2, Appended
    <3> QED BY <3>1, <1>5, <2>2
  <2>3. CASE /\ d.master[w] # None /\ f.master[w] = d.master[w]
             /\ \E i \in 1 .. Len(d.slaves[w]) + 1 : f.slaves[w] = InsertAt(d.slaves[w], i, t)
    <3>1. /\ IsInjective(f.slaves[w]) /\ ToSet(f.slaves[w]) = ToSet(d.slaves[w]) \cup {t}
          /\ f.slaves[w] \in Seq(Toplevel)
      BY <1>5, <2>3, Inserted
    <3> QED BY <3>1, <1>5, <2>3
  <2> QED BY <1>8, <2>1, <2>2, <2>3
<1>10. Around(d, f, t) /\ Place(f, t) = Only("TILED", w)
  <2>1. /\ f.floats = d.floats /\ f.fullscreen = d.fullscreen /\ f.ghosts = d.ghosts
        /\ f.home = d.home /\ f.state = d.state /\ f.life = d.life /\ f.kinds = d.kinds
    BY <1>7
  <2>2. \A v \in Workspace : v # w => f.slaves[v] = d.slaves[v] /\ f.master[v] = d.master[v]
    BY <1>8
  <2> QED BY <1>2, <1>9, <2>1, <2>2, DroppedInLayout
<1>11. Typed(f)
  <2>1. f.master \in [Workspace -> Toplevel \cup {None}] /\ f.slaves \in [Workspace -> Seq(Toplevel)]
    BY <1>6, <1>8, <1>9
  <2>2. ListTypes(f) /\ WindowTypes(f)
    BY <2>1, <1>7 DEF Typed, ListTypes, WindowTypes, But, Fields
  <2> QED BY <2>2, <1>7, MovedTyped DEF But, Moved, Listed
<1>12. Quiet(f, e)
  BY <1>4, <1>11, ConfigureQuiet
<1>13. Around(f, e, t) /\ Place(e, t) = Only("TILED", w)
  BY <1>10, <1>12, QuietPlaces DEF Around, Beside
<1>14. e.home = d.home /\ e.state = d.state
  BY <1>7, <1>12 DEF Quiet
<1> QED BY <1>2, <1>10, <1>13, <1>14, AroundTwice

LEMMA FloatInserted ==
  ASSUME NEW d, Typed(d), Ordered(d), NEW t \in Toplevel, Place(d, t) = Nowhere,
         NEW o \in d.plugged, NEW e, e = InsertFloat(d, t, o), e.crashed = "none"
  PROVE  /\ Around(d, e, t) /\ e.state = d.state /\ e.home[t] \in Workspace
         /\ Place(e, t) = Only("FLOAT", e.home[t])
<1> DEFINE w == d.act[o]
           f == [d EXCEPT !.home[t] = w]
<1>1. w \in Workspace
  BY ActiveTyped
<1>2. e = PushFloat(f, w, t)
  BY DEF InsertFloat
<1> HIDE DEF w
<1>3. /\ SameLists(d, f) /\ f.kinds = d.kinds /\ f.life = d.life /\ f.ghosts = d.ghosts
      /\ f.state = d.state
      /\ f.home[t] = w /\ \A u \in Toplevel \ {t} : f.home[u] = d.home[u]
  BY DEF SameLists, Typed, WindowTypes, Fields
<1>4. Typed(f)
  <2>1. But(d, f, Moved) /\ WindowTypes(f) /\ ListTypes(f)
    BY <1>1 DEF But, Moved, Listed, Typed, WindowTypes, ListTypes, Fields
  <2> QED BY <2>1, MovedTyped
<1> HIDE DEF f
<1>5. Around(d, f, t) /\ Ordered(f) /\ Place(f, t) = Nowhere
  BY <1>3, Relabelled
<1>6. Around(f, e, t) /\ Place(e, t) = Only("FLOAT", w)
  BY <1>1, <1>2, <1>4, <1>5, Pushed
<1>7. e.home = f.home /\ e.state = f.state
  BY <1>2, <1>4, PushFloatKept DEF Kept, But, Fields
<1> QED BY <1>1, <1>3, <1>5, <1>6, <1>7, AroundTwice

-----------------------------------------------------------------------------
(* What else the places of windows rest on.                                  *)

(* In these circumstances nothing is misplaced.  A window does not go while  *)
(* the pointer is on it: it is still raised by a button then, and a grab     *)
(* that ends lists it again (GhostsAreApart).  Where windows fill the screen *)
(* none is sent to another workspace, which may have one that does: the      *)
(* second takes the pointer of the first.  And where they are sent by        *)
(* direction or by number nobody drops one into a layout that its workspace  *)
(* pointer does not know, and no output goes with the panel that has the     *)
(* keyboard: is_exclusive stays, and with it the focus on whoever unmaps.    *)
Ordinary(kinds) ==
  /\ "unmap pointed" \notin kinds
  /\ "fullscreen" \in kinds => kinds \cap {"direction", "move to", "destroy", "remote", "hotplug"} = {}
  /\ kinds \cap {"direction", "move to"} # {} =>
       kinds \cap Grabbing = {} /\ ~({"layer", "hotplug"} \subseteq kinds)

(* The pointer is over a window that is there, and holds it in a grab.       *)
Pointing(d) ==
  /\ d.pointer \in Toplevel => d.life[d.pointer] = "mapped" /\ d.pointer \notin d.ghosts
  /\ \A t \in d.ghosts \cap d.shown : d.life[t] # "mapped"
  /\ d.grabbed # None =>
       /\ d.pointer = d.grabbed /\ d.state[d.grabbed] # "FULLSCREEN"
       /\ d.kinds \cap Grabbing # {}

NoFullscreen(d) == "fullscreen" \notin d.kinds => \A t \in Toplevel : d.state[t] # "FULLSCREEN"

FocusIsMapped(d) ==
  d.kinds \cap {"direction", "move to"} # {} => (d.focused # None => d.life[d.focused] = "mapped")

Neat(d) == Tidy(d, d.grabbed) /\ Pointing(d) /\ NoFullscreen(d) /\ FocusIsMapped(d)

Calm(d) == Typed(d) /\ Ordinary(d.kinds) /\ Neat(d)

Well(e) == e.crashed = "none" => Neat(e)

(* Who is in a list is mapped, and nobody holds it.                          *)
LEMMA FoundIsMapped ==
  ASSUME NEW d, Calm(d), NEW t \in Toplevel, Place(d, t) # Nowhere
  PROVE  d.life[t] = "mapped" /\ t # d.grabbed /\ InPlace(d, t) /\ d.home[t] \in Workspace
BY DEF Calm, Neat, Tidy, IsAt

LEMMA ListedIsMapped ==
  ASSUME NEW d, Calm(d), NEW w \in Workspace, NEW t,
         t \in ToSet(d.slaves[w]) \cup ToSet(d.floats[w]) \cup ({d.master[w], d.fullscreen[w]} \ {None})
  PROVE  /\ t \in Toplevel /\ d.life[t] = "mapped" /\ t # d.grabbed
         /\ InPlace(d, t) /\ d.home[t] \in Workspace
<1>1. t \in Toplevel
  BY WindowsOf, Elements DEF Calm
<1>2. Tiling(d, t) # {} \/ Floating(d, t) # {} \/ Filling(d, t) # {}
  BY DEF Tiling, Floating, Filling
<1>3. Place(d, t) # Nowhere
  BY <1>2 DEF Place, Nowhere
<1> QED BY <1>1, <1>3, FoundIsMapped

(* Without fullscreen windows the pointers to them are NULL.                 *)
LEMMA NobodyFullscreen ==
  ASSUME NEW d, Calm(d), "fullscreen" \notin d.kinds
  PROVE  \A w \in Workspace : d.fullscreen[w] = None
<1> SUFFICES ASSUME NEW w \in Workspace, d.fullscreen[w] # None PROVE FALSE
  OBVIOUS
<1> DEFINE t == d.fullscreen[w]
<1>1. t \in Toplevel /\ InPlace(d, t)
  BY ListedIsMapped
<1>2. d.state[t] \in {"TILED", "FLOAT"}
  BY <1>1 DEF Calm, Neat, NoFullscreen, Typed, WindowTypes, State
<1>3. Filling(d, t) = {}
  BY <1>1, <1>2 DEF InPlace, Place, Only
<1> QED BY <1>3 DEF Filling

(* Nothing that places rest on changes.                                      *)
LEMMA StillNeat ==
  ASSUME NEW d, Neat(d), NEW e, Quiet(d, e), e.grabbed = d.grabbed, e.pointer = d.pointer,
         e.shown = d.shown,
         \/ e.focused \in {None, d.focused}
         \/ e.focused \in Toplevel /\ d.life[e.focused] = "mapped"
  PROVE  Neat(e)
<1>1. Tidy(e, e.grabbed)
  BY QuietPlaces DEF Neat
<1>2. Pointing(e) /\ NoFullscreen(e)
  BY DEF Neat, Pointing, NoFullscreen, Quiet
<1>3. FocusIsMapped(e)
  BY DEF Neat, FocusIsMapped, Quiet
<1> QED BY <1>1, <1>2, <1>3 DEF Neat

LEMMA KeptStill ==
  ASSUME NEW d, NEW e, NEW F, Kept(d, e, F), F \cap (Placing \cup {"grabbed", "pointer", "shown"}) = {}
  PROVE  Quiet(d, e) /\ e.grabbed = d.grabbed /\ e.pointer = d.pointer /\ e.shown = d.shown
<1>1. F \cap Placing = {}
  OBVIOUS
<1>2. Quiet(d, e)
  BY <1>1, QuietIf
<1>3. e.grabbed = d.grabbed /\ e.pointer = d.pointer /\ e.shown = d.shown
  BY DEF Kept, But, Fields
<1> QED BY <1>2, <1>3

(* Whoever is handed the focus is mapped.                                    *)
FocusTo(d, e) ==
  /\ FocusKept(d, e)
  /\ \/ e.focused \in {None, d.focused}
     \/ e.focused \in Toplevel /\ d.life[e.focused] = "mapped"

LEMMA FocusQuiet ==
  ASSUME NEW d, NEW e, FocusKept(d, e)
  PROVE  Quiet(d, e) /\ e.grabbed = d.grabbed /\ e.pointer = d.pointer /\ e.shown = d.shown
<1>1. Refocused \cap (Placing \cup {"grabbed", "pointer", "shown"}) = {}
  BY DEF Refocused, Placing
<1> QED BY <1>1, KeptStill DEF FocusKept

LEMMA FocusCalm ==
  ASSUME NEW d, Calm(d), NEW e, FocusTo(d, e)
  PROVE  Calm(e)
<1>1. Quiet(d, e) /\ e.grabbed = d.grabbed /\ e.pointer = d.pointer /\ e.shown = d.shown
  BY FocusQuiet DEF FocusTo
<1>2. Neat(e)
  BY <1>1, StillNeat DEF Calm, FocusTo
<1> QED BY <1>1, <1>2 DEF Calm, Quiet, FocusTo, FocusKept, Kept

LEMMA FocusToTwice ==
  ASSUME NEW d, NEW e, NEW f, FocusTo(d, e), FocusTo(e, f)
  PROVE  FocusTo(d, f)
<1>1. FocusKept(d, f)
  BY FocusTwice DEF FocusTo
<1>2. e.life = d.life
  BY FocusQuiet DEF FocusTo, Quiet
<1> QED BY <1>1, <1>2 DEF FocusTo

LEMMA FailFocused ==
  ASSUME NEW d, Typed(d), NEW why, why # "none"
  PROVE  FocusTo(d, Fail(d, why))
BY FocusFails DEF FocusTo, Fail, Typed, Fields

LEMMA DerefFocused == ASSUME NEW d, Typed(d), NEW t PROVE FocusTo(d, Deref(d, t))
<1>1. FocusTo(d, d)
  BY FocusSame DEF FocusTo
<1> QED BY <1>1, FailFocused DEF Deref

LEMMA ActiveFocused ==
  ASSUME NEW d, Typed(d), NEW w \in Workspace
  PROVE  FocusTo(d, MakeActive(d, w)) /\ FocusTo(d, SetActiveKeepingFocus(d, w))
<1>1. MakeActive(d, w).focused = d.focused
  BY DEF MakeActive, Fail, Typed, Fields
<1> QED BY <1>1, MakeActiveKept, SetActiveKeepingFocusKept DEF FocusTo, SetActiveKeepingFocus

LEMMA ToplevelFocused ==
  ASSUME NEW d, Typed(d), NEW t \in Toplevel \cup {None}, t # None => d.life[t] = "mapped"
  PROVE  FocusTo(d, ToplevelFocus(d, t))
<1> DEFINE f == [Deref(Deref(d, d.focused), t) EXCEPT !.focused = t]
<1>1. FocusKept(d, ToplevelFocus(d, t))
  BY ToplevelFocusKept
<1>2. f.focused = t
  <2>1. Typed(Deref(d, d.focused))
    BY DerefKept DEF Kept
  <2>2. Typed(Deref(Deref(d, d.focused), t))
    BY <2>1, DerefKept DEF Kept
  <2> QED BY <2>2 DEF Typed, Fields
<1>3. ASSUME NEW w PROVE SetActiveKeepingFocus(f, w).focused \in {f.focused}
  <2>1. DOMAIN f = Fields
    <3>1. Typed(Deref(d, d.focused))
      BY DerefKept DEF Kept
    <3>2. Typed(Deref(Deref(d, d.focused), t))
      BY <3>1, DerefKept DEF Kept
    <3> QED BY <3>2 DEF Typed, Fields
  <2> HIDE DEF f
  <2> QED BY <2>1 DEF SetActiveKeepingFocus, MakeActive, Fail, Fields
<1>4. Fail(d, "freed workspace").focused = d.focused
  BY DEF Fail, Typed, Fields
<1> HIDE DEF f
<1>5. ToplevelFocus(d, t).focused \in {d.focused, t}
  BY <1>2, <1>3, <1>4 DEF ToplevelFocus, f
<1> QED BY <1>1, <1>5 DEF FocusTo

LEMMA LayerFocused ==
  ASSUME NEW d, Typed(d), NEW l \in Layer, d.panel[l] = "mapped"
  PROVE  FocusTo(d, LayerFocus(d, l))
<1>1. FocusKept(d, LayerFocus(d, l))
  BY LayerFocusKept
<1>2. Typed(Deref(d, d.focused))
  BY DerefKept DEF Kept
<1>3. LayerFocus(d, l).focused \in {None, d.focused}
  BY <1>2 DEF LayerFocus, Typed, Fields
<1> QED BY <1>1, <1>3 DEF FocusTo

LEMMA TopMostIsMapped ==
  ASSUME NEW d, Calm(d), NEW w \in Workspace, TopMost(d, w) # None
  PROVE  TopMost(d, w) \in Toplevel /\ d.life[TopMost(d, w)] = "mapped" /\ InPlace(d, TopMost(d, w))
<1>1. CASE d.fullscreen[w] # None
  BY <1>1, ListedIsMapped DEF TopMost
<1>2. CASE d.fullscreen[w] = None /\ d.floats[w] # <<>>
  <2>1. Head(d.floats[w]) \in ToSet(d.floats[w])
    BY <1>2, WindowsOf, Ends DEF Calm
  <2> QED BY <1>2, <2>1, ListedIsMapped DEF TopMost
<1>3. CASE d.fullscreen[w] = None /\ d.floats[w] = <<>>
  BY <1>3, ListedIsMapped DEF TopMost
<1> QED BY <1>1, <1>2, <1>3

LEMMA OutputFocusedIf ==
  ASSUME NEW d, Typed(d), NEW o,
         \A w \in Workspace :
           TopMost(d, w) # None => TopMost(d, w) \in Toplevel /\ d.life[TopMost(d, w)] = "mapped"
  PROVE  FocusTo(d, OutputFocus(d, o))
<1> DEFINE g == SelectInSeq(d.panels[o], LAMBDA l : d.want[l] = "exclusive")
           w == d.act[o]
           active == [d EXCEPT !.active = w]
<1>1. CASE o \notin d.plugged
  BY <1>1, FailFocused DEF OutputFocus
<1>2. CASE o \in d.plugged /\ g # 0
  <2>1. o \in Output
    BY <1>2, ActiveTyped
  <2>2. d.panels[o][g] \in ToSet(d.panels[o])
    BY <1>2, <2>1, Greedy
  <2>3. d.panels[o][g] \in Layer /\ d.panel[d.panels[o][g]] = "mapped"
    BY <2>1, <2>2, Elements DEF Typed, FocusTypes
  <2>4. OutputFocus(d, o) = LayerFocus(d, d.panels[o][g])
    BY <1>2 DEF OutputFocus
  <2> HIDE DEF g
  <2> QED BY <2>3, <2>4, LayerFocused
<1>3. CASE o \in d.plugged /\ g = 0
  <2>1. w \in Workspace
    BY <1>3, ActiveTyped
  <2>2. FocusTo(d, active)
    BY <2>1, ActiveKept DEF FocusTo, Typed, Fields
  <2>3. active.life = d.life /\ Typed(active)
    BY <2>2, FocusQuiet DEF FocusTo, Quiet, FocusKept, Kept
  <2>4. CASE TopMost(d, w) = None
    BY <1>3, <2>2, <2>4 DEF OutputFocus
  <2>5. CASE TopMost(d, w) # None
    <3>1. OutputFocus(d, o) = ToplevelFocus(active, TopMost(d, w))
      BY <1>3, <2>5 DEF OutputFocus
    <3>2. TopMost(d, w) \in Toplevel /\ d.life[TopMost(d, w)] = "mapped"
      BY <2>1, <2>5
    <3> HIDE DEF active, w
    <3>3. FocusTo(active, ToplevelFocus(active, TopMost(d, w)))
      BY <2>3, <3>2, ToplevelFocused
    <3> QED BY <2>2, <3>1, <3>3, FocusToTwice
  <2> QED BY <2>4, <2>5
<1> QED BY <1>1, <1>2, <1>3

LEMMA OutputFocused ==
  ASSUME NEW d, Calm(d), NEW o
  PROVE  FocusTo(d, OutputFocus(d, o))
BY TopMostIsMapped, OutputFocusedIf DEF Calm

LEMMA ActiveSet ==
  ASSUME NEW d, Calm(d), NEW w \in Workspace
  PROVE  FocusTo(d, SetActive(d, w))
<1>1. FocusTo(d, d)
  BY FocusSame DEF FocusTo, Calm
<1>2. FocusTo(d, MakeActive(d, w))
  BY ActiveFocused DEF Calm
<1>3. FocusTo(MakeActive(d, w), OutputFocus(MakeActive(d, w), d.output[w]))
  BY <1>2, FocusCalm, OutputFocused
<1> QED BY <1>1, <1>2, <1>3, FocusToTwice DEF SetActive

-----------------------------------------------------------------------------
(* One window is moved or changes its state.                                 *)

LEMMA MovedNeat ==
  ASSUME NEW d, Calm(d), NEW e, Kept(d, e, Moved), NEW t \in Toplevel, Around(d, e, t),
         IsAt(e, t, d.grabbed),
         "fullscreen" \notin d.kinds \/ t = d.grabbed => e.state[t] # "FULLSCREEN"
  PROVE  Calm(e)
<1>1. /\ e.grabbed = d.grabbed /\ e.pointer = d.pointer /\ e.shown = d.shown /\ e.life = d.life
      /\ e.focused = d.focused /\ e.kinds = d.kinds
  BY DEF Kept, But, Moved, Listed, Fields
<1>2. Tidy(e, e.grabbed)
  <2>1. Tidy(d, d.grabbed) /\ Beside(d, e, t)
    BY DEF Calm, Neat, Around
  <2> QED BY <1>1, <2>1, AroundTidy
<1>3. \A u \in Toplevel \ {t} : e.state[u] = d.state[u]
  BY DEF Around, Beside, Same
<1>4. e.ghosts \subseteq d.ghosts
  BY DEF Around
<1>5. d.grabbed \in Toplevel \cup {None}
  BY DEF Calm, Typed, GrabTypes
<1>6. Pointing(e)
  BY <1>1, <1>3, <1>4, <1>5 DEF Calm, Neat, Pointing
<1>7. NoFullscreen(e) /\ FocusIsMapped(e)
  BY <1>1, <1>3 DEF Calm, Neat, NoFullscreen, FocusIsMapped
<1> QED BY <1>1, <1>2, <1>6, <1>7 DEF Calm, Neat, Kept

LEMMA StateCalm ==
  ASSUME NEW d, Calm(d), NEW t \in Toplevel, NEW st \in State, NEW e, e = SetState(d, t, st),
         e.crashed = "none", "fullscreen" \notin d.kinds => st # "FULLSCREEN"
  PROVE  Calm(e)
<1>1. Typed(d) /\ Ordered(d) /\ IsAt(d, t, d.grabbed)
  BY DEF Calm, Neat, Tidy
<1>2. Around(d, e, t) /\ IsAt(e, t, d.grabbed)
  BY <1>1, StateSet
<1>3. Kept(d, e, Moved)
  BY <1>1, SetStateKept
<1>4. e.state[t] \in {d.state[t], st}
  BY <1>1, StateOf
<1>5. t = d.grabbed => e = d /\ d.state[t] # "FULLSCREEN"
  BY NoneIsNoName DEF SetState, Calm, Neat, Pointing
<1>6. "fullscreen" \notin d.kinds => d.state[t] # "FULLSCREEN"
  BY DEF Calm, Neat, NoFullscreen
<1> QED BY <1>2, <1>3, <1>4, <1>5, <1>6, MovedNeat

-----------------------------------------------------------------------------
(* A window is taken.                                                        *)

LEMMA Started ==
  ASSUME NEW d, Calm(d), NEW t \in Toplevel, d.pointer = t, d.kinds \cap Grabbing # {},
         NEW server \in BOOLEAN, NEW e \in {StartMove(d, t, server), StartResize(d, t, server)},
         e.crashed = "none"
  PROVE  Neat(e)
<1>1. CASE e = d
  BY <1>1 DEF Calm
<1>2. ASSUME NEW operation \in {"MOVE", "RESIZE"}, NEW taken, taken = Grab(d, t, operation, server),
             d.operation = "NONE", d.state[t] # "FULLSCREEN",
             \/ d.state[t] = "FLOAT" /\ e = Unlink(taken, t)
             \/ d.state[t] # "FLOAT" /\ e = Configure(LayoutRemove(taken, t), d.home[t])
      PROVE  Neat(e)
  <2>0. Typed(d) /\ d.grabbed = None /\ d.life[t] = "mapped" /\ t \notin d.ghosts /\ t # None
    BY <1>2, NoneIsNoName DEF Calm, Typed, GrabTypes, Neat, Pointing
  <2>1. Typed(taken)
    BY <1>2, <2>0, GrabbedKept DEF OpKept, Kept
  <2>2. /\ Quiet(d, taken) /\ taken.grabbed = t /\ taken.pointer = d.pointer
        /\ taken.shown = d.shown /\ taken.focused = d.focused /\ taken.crashed = d.crashed
    BY <1>2, <2>0 DEF Grab, Quiet, Typed, Fields
  <2>3. Ordered(d) /\ InPlace(d, t) /\ d.home[t] \in Workspace
    BY <2>0 DEF Calm, Neat, Tidy, IsAt
  <2>4. Ordered(taken) /\ InPlace(taken, t) /\ Around(d, taken, t)
    BY <2>2, <2>3, QuietPlaces
  <2>5. taken.state = d.state /\ taken.home = d.home
    BY <2>2 DEF Quiet
  <2>6. Around(taken, e, t) /\ Place(e, t) = Nowhere /\ Kept(taken, e, Listed)
    <3>1. CASE d.state[t] = "FLOAT"
      <4>1. Kept(taken, e, Listed)
        BY <1>2, <2>1, <3>1, UnlinkKept, KeptWider DEF Listed
      <4>2. Tiling(taken, t) = {} /\ Filling(taken, t) = {}
        BY <2>4, <2>5, <3>1 DEF InPlace, Place, Only
      <4>3. /\ Around(taken, e, t) /\ Floating(e, t) = {} /\ Filling(e, t) = Filling(taken, t)
            /\ Tiling(e, t) = {v \in Workspace : t = taken.master[v]}
        BY <1>2, <2>1, <2>4, <3>1, Unlinked
      <4>4. Tiling(e, t) = {}
        BY <4>2, <4>3 DEF Tiling
      <4> QED BY <4>1, <4>2, <4>3, <4>4 DEF Place, Nowhere
    <3>2. CASE d.state[t] # "FLOAT"
      <4> DEFINE a == LayoutRemove(taken, t)
      <4>1. e = Configure(a, d.home[t]) /\ d.state[t] = "TILED"
        BY <1>2, <2>0, <3>2 DEF Typed, WindowTypes, State
      <4>2. Kept(taken, a, Listed) /\ Typed(a)
        BY <2>1, LayoutRemoveKept DEF Kept
      <4> HIDE DEF a
      <4>3. Kept(a, e, Listed)
        BY <4>1, <4>2, ConfigureKept, KeptWider DEF Listed
      <4>4. Quiet(a, e) /\ a.crashed = "none"
        BY <4>1, <4>2, ConfigureQuiet DEF Later
      <4>5. Around(taken, a, t) /\ Place(a, t) = Nowhere
        BY <2>1, <2>3, <2>4, <2>5, <4>1, <4>4, LayoutRemoved DEF a
      <4>6. Around(a, e, t) /\ Place(e, t) = Place(a, t)
        <5>1. Ordered(a)
          BY <4>5 DEF Around, Beside
        <5> QED BY <4>4, <5>1, QuietPlaces
      <4>7. Around(taken, e, t)
        BY <4>5, <4>6, AroundTwice
      <4>8. Kept(taken, e, Listed)
        BY <4>2, <4>3, KeptTwice
      <4> QED BY <4>5, <4>6, <4>7, <4>8
    <3> QED BY <3>1, <3>2
  <2>7. /\ e.grabbed = t /\ e.pointer = t /\ e.shown = d.shown /\ e.focused = d.focused
        /\ e.life = d.life /\ e.state = d.state /\ e.home = d.home /\ e.kinds = d.kinds
    BY <2>2, <2>6 DEF Kept, But, Listed, Fields, Quiet
  <2>8. Beside(d, e, t) /\ e.ghosts \subseteq d.ghosts
    BY <2>4, <2>6, AroundTwice DEF Around
  <2>9. IsAt(e, t, t)
    BY <2>3, <2>6, <2>7 DEF IsAt
  <2>10. Tidy(e, e.grabbed)
    BY <2>0, <2>7, <2>8, <2>9, AroundTidy DEF Calm, Neat
  <2>11. Pointing(e)
    BY <1>2, <2>0, <2>7, <2>8 DEF Calm, Neat, Pointing
  <2>12. NoFullscreen(e) /\ FocusIsMapped(e)
    BY <2>7 DEF Calm, Neat, NoFullscreen, FocusIsMapped
  <2> QED BY <2>10, <2>11, <2>12 DEF Neat
<1>3. CASE e = StartMove(d, t, server) /\ e # d
  <2>1. /\ d.operation = "NONE" /\ d.state[t] # "FULLSCREEN"
        /\ e = IF d.state[t] = "FLOAT" THEN Unlink(Grab(d, t, "MOVE", server), t)
               ELSE Configure(LayoutRemove(Grab(d, t, "MOVE", server), t), d.home[t])
    BY <1>3 DEF StartMove
  <2> QED BY <1>2, <2>1
<1>4. CASE e = StartResize(d, t, server) /\ e # d
  <2>1. /\ d.operation = "NONE" /\ d.state[t] = "FLOAT"
        /\ e = Unlink(Grab(d, t, "RESIZE", server), t)
    BY <1>4 DEF StartResize
  <2> QED BY <1>2, <2>1
<1> QED BY <1>1, <1>3, <1>4

LEMMA GrabStarted ==
  ASSUME NEW d, Calm(d), d.kinds \cap Grabbing # {}, NEW e \in StartGrab(d), e.crashed = "none"
  PROVE  Neat(e)
<1>1. CASE d.pointer \in Toplevel
  BY <1>1, Started DEF StartGrab
<1>2. CASE d.pointer \notin Toplevel
  BY <1>2 DEF StartGrab, Calm
<1> QED BY <1>1, <1>2

-----------------------------------------------------------------------------
(* It is dropped.                                                            *)

LEMMA PointerMoved ==
  ASSUME NEW d, Calm(d), d.grabbed = None, NEW v \in Surfaces(d) \cup {None}
  PROVE  Neat([d EXCEPT !.pointer = v])
<1> DEFINE e == [d EXCEPT !.pointer = v]
<1>1. /\ Quiet(d, e) /\ e.grabbed = None /\ e.pointer = v /\ e.shown = d.shown
      /\ e.focused = d.focused
  BY DEF Quiet, Calm, Typed, Fields
<1> HIDE DEF e
<1>2. v \in Toplevel => v \in d.shown /\ d.life[v] = "mapped"
  BY NoneIsNoName, NoWindowIsAPanel DEF Surfaces
<1>3. Pointing(e)
  BY <1>1, <1>2 DEF Calm, Neat, Pointing, Quiet
<1>4. Tidy(e, e.grabbed)
  BY <1>1, QuietPlaces DEF Calm, Neat
<1>5. NoFullscreen(e) /\ FocusIsMapped(e)
  BY <1>1 DEF Calm, Neat, NoFullscreen, FocusIsMapped, Quiet
<1> QED BY <1>3, <1>4, <1>5 DEF Neat, e

LEMMA CursorCalm ==
  ASSUME NEW d, Calm(d), NEW keyboard, NEW e \in CursorFocus(d, keyboard)
  PROVE  Calm(e)
<1>0. Typed(e) /\ e.kinds = d.kinds
  BY CursorFocusKept DEF OpKept, Kept, But, Operated, Moved, Listed, Refocused, Fields, Calm
<1> SUFFICES Neat(e)
  BY <1>0 DEF Calm
<1>1. CASE d.grabbed # None
  BY <1>1 DEF CursorFocus, Calm
<1>2. CASE d.grabbed = None /\ e = [d EXCEPT !.pointer = None]
  BY <1>2, PointerMoved
<1>3. ASSUME d.grabbed = None, NEW v \in Surfaces(d), NEW f,
             f = (IF keyboard THEN ViewFocus(d, v) ELSE d),
             e = f \/ e = [f EXCEPT !.pointer = v]
      PROVE  Neat(e)
  <2>1. v \in Toplevel \cup Layer
    BY SurfacesTyped DEF Calm
  <2>2. FocusTo(d, f)
    <3>1. FocusTo(d, d)
      BY FocusSame DEF FocusTo, Calm
    <3>2. CASE v \in Layer
      <4>1. d.panel[v] = "mapped"
        BY <1>3, <3>2, SurfacesTyped DEF Calm
      <4> QED BY <3>1, <3>2, <4>1, <1>3, LayerFocused DEF ViewFocus, Calm
    <3>3. CASE v \notin Layer
      <4>1. v \in Toplevel /\ d.life[v] = "mapped"
        BY <1>3, <2>1, <3>3 DEF Surfaces
      <4> QED BY <3>1, <3>3, <4>1, <1>3, ToplevelFocused DEF ViewFocus, Calm
    <3> QED BY <3>2, <3>3
  <2>3. Calm(f)
    BY <2>2, FocusCalm
  <2>4. f.grabbed = None /\ f.shown = d.shown /\ f.life = d.life
    BY <1>3, <2>2, FocusQuiet DEF FocusTo, Quiet
  <2>5. v \in Surfaces(f)
    <3>1. CASE v \in Layer
      <4>1. d.panel[v] = "mapped" /\ f.panel = d.panel
        BY <1>3, <2>2, <3>1, SurfacesTyped DEF Calm, FocusTo, FocusKept, Kept, But, Refocused, Fields
      <4> QED BY <3>1, <4>1 DEF Surfaces
    <3>2. CASE v \notin Layer
      BY <1>3, <2>1, <2>4, <3>2 DEF Surfaces
    <3> QED BY <3>1, <3>2
  <2> QED BY <1>3, <2>3, <2>4, <2>5, PointerMoved DEF Calm
<1>4. d.grabbed = None => \/ e = [d EXCEPT !.pointer = None]
                          \/ \E v \in Surfaces(d) :
                               LET f == IF keyboard THEN ViewFocus(d, v) ELSE d IN
                               e = f \/ e = [f EXCEPT !.pointer = v]
  BY DEF CursorFocus
<1> QED BY <1>1, <1>2, <1>3, <1>4

(* Stopped where the window is already in its new place.                     *)
LEMMA SharedStop ==
  ASSUME NEW d, Typed(d), Ordinary(d.kinds), Tidy(d, None), NoFullscreen(d), FocusIsMapped(d),
         \A t \in d.ghosts \cap d.shown : d.life[t] # "mapped",
         NEW e \in StopShared(d)
  PROVE  Calm(e)
<1> DEFINE f == [d EXCEPT !.due = TRUE, !.operation = "NONE", !.grabbed = None, !.pointer = None]
<1>1. /\ Quiet(d, f) /\ f.grabbed = None /\ f.pointer = None /\ f.shown = d.shown
      /\ f.focused = d.focused
  BY DEF Quiet, Typed, Fields
<1>2. Typed(f)
  <2>1. /\ But(d, f, {"operation", "grabbed", "server_inited", "pointer", "due"})
        /\ f.operation = "NONE" /\ f.server_inited = d.server_inited /\ f.due = TRUE
    BY DEF But, Typed, Fields
  <2> HIDE DEF f
  <2>2. OpKept(d, f)
    BY <1>1, <2>1, GrabKept DEF Typed, GrabTypes
  <2> QED BY <2>2 DEF OpKept, Kept
<1>3. e \in CursorFocus(f, FALSE)
  BY DEF StopShared
<1> HIDE DEF f
<1>4. Tidy(f, f.grabbed)
  BY <1>1, QuietPlaces
<1>5. Pointing(f)
  BY <1>1, NoneIsNoName DEF Pointing, Quiet
<1>6. NoFullscreen(f) /\ FocusIsMapped(f)
  BY <1>1 DEF NoFullscreen, FocusIsMapped, Quiet
<1>7. Calm(f)
  BY <1>1, <1>2, <1>4, <1>5, <1>6 DEF Calm, Neat, Quiet
<1> QED BY <1>3, <1>7, CursorCalm

LEMMA Dropped ==
  ASSUME NEW d, Calm(d), NEW t \in Toplevel, t = d.grabbed, NEW e, e.crashed = "none",
         \/ d.state[t] # "FLOAT" /\ e \in InsertLayout(d, t)
         \/ d.state[t] = "FLOAT" /\ \E o \in d.plugged : e = InsertFloat(d, t, o),
         NEW f \in StopShared(e)
  PROVE  Calm(f)
<1>0. /\ Typed(d) /\ Ordered(d) /\ Place(d, t) = Nowhere /\ d.life[t] = "mapped"
      /\ d.home[t] \in Workspace /\ t \notin d.ghosts /\ d.state[t] # "FULLSCREEN"
      /\ d.kinds \cap Grabbing # {}
  BY NoneIsNoName DEF Calm, Neat, Tidy, IsAt, Pointing
<1>1. Kept(d, e, Moved)
  BY <1>0, InsertLayoutKept, InsertFloatKept
<1>2. /\ e.pointer = d.pointer /\ e.shown = d.shown /\ e.life = d.life /\ e.focused = d.focused
      /\ e.kinds = d.kinds /\ Typed(e)
  BY <1>1 DEF Kept, But, Moved, Listed, Fields
<1>3. Around(d, e, t) /\ e.state = d.state /\ e.home[t] \in Workspace /\ InPlace(e, t)
  <2>1. CASE d.state[t] # "FLOAT" /\ e \in InsertLayout(d, t)
    <3>1. d.state[t] = "TILED"
      BY <1>0, <2>1 DEF Typed, WindowTypes, State
    <3>2. PICK w \in Workspace : /\ Around(d, e, t) /\ e.home = d.home /\ e.state = d.state
                                 /\ Place(e, t) = Only("TILED", w)
      BY <1>0, <2>1, LayoutInserted
    <3>3. t \notin e.ghosts
      BY <1>0, <3>2 DEF Around
    <3> QED BY <1>0, <1>2, <3>1, <3>2, <3>3 DEF InPlace
  <2>2. CASE d.state[t] = "FLOAT" /\ \E o \in d.plugged : e = InsertFloat(d, t, o)
    <3>1. /\ Around(d, e, t) /\ e.state = d.state /\ e.home[t] \in Workspace
          /\ Place(e, t) = Only("FLOAT", e.home[t])
      BY <1>0, <2>2, FloatInserted
    <3> QED BY <2>2, <3>1 DEF InPlace
  <2> QED BY <2>1, <2>2
<1>4. IsAt(e, t, None)
  BY <1>0, <1>2, <1>3, NoneIsNoName DEF IsAt
<1>5. Tidy(e, None)
  <2>1. Tidy(d, t) /\ Beside(d, e, t)
    BY <1>3 DEF Calm, Neat, Around
  <2> QED BY <1>4, <2>1, AroundTidy
<1>6. NoFullscreen(e) /\ FocusIsMapped(e)
  BY <1>2, <1>3 DEF Calm, Neat, NoFullscreen, FocusIsMapped
<1>7. \A u \in e.ghosts \cap e.shown : e.life[u] # "mapped"
  BY <1>2, <1>3 DEF Calm, Neat, Pointing, Around
<1> QED BY <1>2, <1>5, <1>6, <1>7, SharedStop DEF Calm

LEMMA SharedStopAlive ==
  ASSUME NEW d, Typed(d), NEW e \in StopShared(d), e.crashed = "none"
  PROVE  d.crashed = "none"
BY StopSharedKept DEF OpKept, Kept, Later

LEMMA StoppedMove ==
  ASSUME NEW d, Calm(d), d.grabbed # None, NEW e \in StopMove(d), e.crashed = "none"
  PROVE  Calm(e)
<1> DEFINE t == d.grabbed
<1>0. t \in Toplevel /\ Typed(d)
  BY DEF Calm, Typed, GrabTypes
<1>1. PICK f : e \in StopShared(f)
             /\ \/ d.state[t] # "FLOAT" /\ f \in InsertLayout(d, t)
                \/ d.state[t] = "FLOAT" /\ ~Walkable(d) /\ f = Fail(d, "freed output")
                \/ d.state[t] = "FLOAT" /\ \E o \in d.plugged : f = InsertFloat(d, t, o)
  BY DEF StopMove
<1>2. Typed(f)
  BY <1>0, <1>1, InsertLayoutKept, InsertFloatKept, Fails DEF Kept
<1>3. f.crashed = "none"
  BY <1>1, <1>2, SharedStopAlive
<1> QED BY <1>0, <1>1, <1>3, Dropped, Fails

LEMMA StoppedResize ==
  ASSUME NEW d, Calm(d), d.grabbed # None, NEW e \in StopResize(d), e.crashed = "none"
  PROVE  Calm(e)
<1> DEFINE t == d.grabbed
<1>0. t \in Toplevel /\ Typed(d)
  BY DEF Calm, Typed, GrabTypes
<1>1. Fail(d, "assertion").crashed # "none" /\ Fail(d, "freed output").crashed # "none"
  BY <1>0, Fails
<1>2. d.state[t] = "FLOAT" /\ \E o \in d.plugged : e \in StopShared(InsertFloat(d, t, o))
  BY <1>1 DEF StopResize
<1>3. PICK o \in d.plugged : e \in StopShared(InsertFloat(d, t, o))
  BY <1>2
<1>4. InsertFloat(d, t, o).crashed = "none"
  BY <1>0, <1>3, SharedStopAlive, InsertFloatKept DEF Kept
<1> QED BY <1>0, <1>2, <1>3, <1>4, Dropped

LEMMA StoppedCalm ==
  ASSUME NEW d, Calm(d), NEW e \in StopWhatever(d), e.crashed = "none"
  PROVE  Calm(e)
<1>1. CASE d.operation = "MOVE"
  BY <1>1, StoppedMove DEF StopWhatever, Calm, Typed, GrabTypes
<1>2. CASE d.operation = "RESIZE"
  BY <1>2, StoppedResize DEF StopWhatever, Calm, Typed, GrabTypes
<1>3. CASE d.operation \in {"NONE", "DRAG"}
  BY <1>3 DEF StopWhatever
<1> QED BY <1>1, <1>2, <1>3 DEF Calm, Typed, GrabTypes

LEMMA FoundCalm ==
  ASSUME NEW d, Calm(d), NEW w
  PROVE  Calm(Found(d, w)) /\ Later(d, Found(d, w))
<1>1. FocusTo(d, Fail(d, "freed output")) /\ FocusTo(d, d)
  BY FailFocused, FocusSame DEF Calm, FocusTo
<1>2. FocusTo(d, Found(d, w))
  BY <1>1 DEF Found
<1> QED BY <1>2, FocusCalm DEF FocusTo, FocusKept, Kept

LEMMA RaisedCalm ==
  ASSUME NEW d, Calm(d), NEW e, e = Raised(d), e.crashed = "none"
  PROVE  Calm(e)
<1>1. CASE e = d
  BY <1>1
<1>2. CASE e # d
  <2> DEFINE t == d.pointer
  <2>1. t \in Toplevel /\ t # d.grabbed /\ d.state[t] = "FLOAT" /\ e = Raise(d, t)
    BY <1>2 DEF Raised
  <2>2. d.life[t] = "mapped" /\ InPlace(d, t) /\ d.home[t] \in Workspace /\ Typed(d) /\ Ordered(d)
    BY <2>1 DEF Calm, Neat, Tidy, IsAt, Pointing
  <2> HIDE DEF t
  <2>3. Around(d, e, t) /\ Place(e, t) = Place(d, t)
    BY <2>1, <2>2, RaisedPlaces
  <2>4. Kept(d, e, Listed)
    BY <2>1, <2>2, RaiseKept
  <2>5. Kept(d, e, Moved)
    BY <2>4, KeptWider DEF Moved
  <2>6. e.home = d.home /\ e.state = d.state /\ e.life = d.life /\ e.kinds = d.kinds
    BY <2>4 DEF Kept, But, Listed, Fields
  <2>7. e.ghosts \subseteq d.ghosts
    BY <2>3 DEF Around
  <2>8. IsAt(e, t, d.grabbed)
    BY <2>1, <2>2, <2>3, <2>6, <2>7 DEF IsAt, InPlace
  <2> QED BY <2>1, <2>3, <2>5, <2>6, <2>8, MovedNeat
<1> QED BY <1>1, <1>2

-----------------------------------------------------------------------------
(* A workspace is emptied into another one.                                  *)

(* Master and slaves as one list, and back.                                  *)
Chained(m, s) == IF m = None THEN <<>> ELSE <<m>> \o s

Chain(S, m, s) ==
  /\ m \in S \cup {None} /\ s \in Seq(S) /\ IsInjective(s) /\ m \notin ToSet(s)
  /\ m = None => s = <<>>

LEMMA ChainedIs ==
  ASSUME NEW S, None \notin S, NEW m, NEW s, Chain(S, m, s)
  PROVE  /\ Chained(m, s) \in Seq(S) /\ IsInjective(Chained(m, s))
         /\ ToSet(Chained(m, s)) = (ToSet(s) \cup {m}) \ {None}
<1>1. CASE m = None
  BY <1>1, Emptied DEF Chained, Chain
<1>2. CASE m # None
  <2> DEFINE a == <<m>>
  <2>1. a \in Seq(S) /\ ToSet(a) = {m} /\ IsInjective(a)
    BY <1>2, Single DEF Chain
  <2>2. Chained(m, s) = a \o s
    BY <1>2 DEF Chained
  <2> HIDE DEF a
  <2>3. s \in Seq(S) /\ IsInjective(s) /\ ToSet(a) \cap ToSet(s) = {}
    BY <2>1 DEF Chain
  <2>4. None \notin ToSet(s)
    BY Elements DEF Chain
  <2> QED BY <1>2, <2>1, <2>2, <2>3, <2>4, Joined
<1> QED BY <1>1, <1>2

LEMMA Unchained ==
  ASSUME NEW S, None \notin S, NEW q \in Seq(S), IsInjective(q),
         NEW m, m = FirstOrNone(q), NEW s, s = (IF q = <<>> THEN <<>> ELSE Tail(q))
  PROVE  Chain(S, m, s) /\ (ToSet(s) \cup {m}) \ {None} = ToSet(q)
<1>1. CASE q = <<>>
  BY <1>1, Emptied DEF Chain, FirstOrNone
<1>2. CASE q # <<>>
  <2>1. /\ m = Head(q) /\ s = Tail(q) /\ Head(q) \in ToSet(q) /\ Tail(q) \in Seq(S)
        /\ ToSet(q) = {Head(q)} \cup ToSet(Tail(q))
        /\ IsInjective(Tail(q)) /\ Head(q) \notin ToSet(Tail(q))
    BY <1>2, Ends DEF FirstOrNone
  <2>2. ToSet(q) \subseteq S
    BY Elements
  <2> QED BY <2>1, <2>2 DEF Chain
<1> QED BY <1>1, <1>2

Leaving(m, s) == IF m = None THEN <<>> ELSE <<m>> \o Reverse(s)

Onto(k, r, l) == IF k = None THEN l ELSE <<k>> \o r \o l

LEMMA Poured ==
  ASSUME NEW S, None \notin S, NEW m, NEW s, Chain(S, m, s), NEW k, NEW r, Chain(S, k, r),
         ((ToSet(s) \cup {m}) \cap (ToSet(r) \cup {k})) \subseteq {None},
         NEW leaving, leaving = Leaving(m, s), NEW tiles, tiles = Onto(k, r, leaving)
  PROVE  /\ leaving \in Seq(S) /\ ToSet(leaving) = (ToSet(s) \cup {m}) \ {None}
         /\ tiles \in Seq(S) /\ IsInjective(tiles)
         /\ ToSet(tiles) = ((ToSet(r) \cup {k}) \cup (ToSet(s) \cup {m})) \ {None}
<1> DEFINE b == Reverse(s)
           c == Chained(k, r)
<1>1. b \in Seq(S) /\ ToSet(b) = ToSet(s) /\ IsInjective(b)
  BY Reversed DEF Chain
<1>2. m = None => b = <<>>
  BY <1>1, Elements, Emptied DEF Chain
<1>3. leaving = Chained(m, b)
  BY DEF Chained, Leaving
<1> HIDE DEF b
<1>4. Chain(S, m, b)
  BY <1>1, <1>2 DEF Chain
<1>5. leaving \in Seq(S) /\ IsInjective(leaving) /\ ToSet(leaving) = (ToSet(s) \cup {m}) \ {None}
  <2>1. /\ Chained(m, b) \in Seq(S) /\ IsInjective(Chained(m, b))
        /\ ToSet(Chained(m, b)) = (ToSet(b) \cup {m}) \ {None}
    BY <1>4, ChainedIs
  <2> QED BY <1>1, <1>3, <2>1
<1>6. c \in Seq(S) /\ IsInjective(c) /\ ToSet(c) = (ToSet(r) \cup {k}) \ {None}
  BY ChainedIs
<1>7. CASE k = None
  <2>1. ToSet(r) = {} /\ tiles = leaving
    BY <1>7, Emptied DEF Chain, Onto
  <2> QED BY <1>5, <1>7, <2>1
<1>8. CASE k # None
  <2>1. tiles = c \o leaving
    BY <1>8 DEF Chained, Onto
  <2> HIDE DEF c
  <2>2. ToSet(c) \cap ToSet(leaving) = {}
    BY <1>5, <1>6
  <2>3. /\ c \o leaving \in Seq(S) /\ ToSet(c \o leaving) = ToSet(c) \cup ToSet(leaving)
        /\ IsInjective(c \o leaving)
    <3>1. c \in Seq(S) /\ leaving \in Seq(S)
      BY <1>5, <1>6
    <3>2. IsInjective(c) /\ IsInjective(leaving) /\ ToSet(c) \cap ToSet(leaving) = {}
      BY <1>5, <1>6, <2>2
    <3>3. /\ c \o leaving \in Seq(S) /\ ToSet(c \o leaving) = ToSet(c) \cup ToSet(leaving)
          /\ (IsInjective(c) /\ IsInjective(leaving) /\ ToSet(c) \cap ToSet(leaving) = {}
               => IsInjective(c \o leaving))
      BY ONLY <3>1, Joined
    <3> QED BY <3>2, <3>3
  <2> QED BY <1>5, <1>6, <2>1, <2>3
<1> QED BY <1>5, <1>7, <1>8

Emptier(e, w) ==
  e.master[w] = None /\ e.slaves[w] = <<>> /\ e.floats[w] = <<>> /\ e.fullscreen[w] = None

LEMMA ChainOf ==
  ASSUME NEW d, Typed(d), Ordered(d), NEW w \in Workspace
  PROVE  Chain(Toplevel, d.master[w], d.slaves[w])
BY WindowsOf DEF Ordered, Chain

(* The lists of w are part of those of n.                                    *)
MergedInto(d, e, w, n) ==
  /\ \A v \in Workspace \ {w, n} :
       e.master[v] = d.master[v] /\ e.slaves[v] = d.slaves[v] /\ e.floats[v] = d.floats[v]
  /\ Emptier(e, w)
  /\ Chain(Toplevel, e.master[n], e.slaves[n])
  /\ (ToSet(e.slaves[n]) \cup {e.master[n]}) \ {None}
       = ((ToSet(d.slaves[n]) \cup {d.master[n]}) \cup (ToSet(d.slaves[w]) \cup {d.master[w]})) \ {None}
  /\ IsInjective(e.floats[n])
  /\ ToSet(e.floats[n]) = ToSet(d.floats[w]) \cup ToSet(d.floats[n])

(* What evacuate leaves of the lists.                                        *)
LEMMA EvacuatedLists ==
  ASSUME NEW d, Calm(d), "fullscreen" \notin d.kinds, NEW w \in Workspace, NEW n \in Workspace, w # n,
         NEW e, e = Evacuate(d, w, n), e.crashed = "none"
  PROVE  /\ \A t \in (ToSet(d.slaves[w]) \cup {d.master[w]}) \ {None} : d.home[t] = w
         /\ e.home = [t \in Toplevel |-> IF t \in Members(d, w) THEN n ELSE d.home[t]]
         /\ e.state = d.state /\ e.life = d.life /\ e.ghosts = d.ghosts /\ e.kinds = d.kinds
         /\ e.focused = d.focused
         /\ \A v \in Workspace : e.fullscreen[v] = None
         /\ MergedInto(d, e, w, n)
<1> DEFINE leaving == IF d.master[w] = None THEN <<>>
                      ELSE <<d.master[w]>> \o Reverse(d.slaves[w])
           tiles == IF d.master[n] = None THEN leaving
                    ELSE <<d.master[n]>> \o d.slaves[n] \o leaving
           full == d.fullscreen[w]
           home == [t \in Toplevel |-> IF t \in Members(d, w) THEN n ELSE d.home[t]]
           fullscreen == [d.fullscreen EXCEPT ![w] = None,
                                              ![n] = IF full = None THEN d.fullscreen[n] ELSE full]
           poured == Reverse(d.floats[w]) \o d.floats[n]
           floats == [d.floats EXCEPT ![w] = <<>>, ![n] = poured]
           first == FirstOrNone(tiles)
           rest == IF tiles = <<>> THEN <<>> ELSE Tail(tiles)
           master == [d.master EXCEPT ![w] = None, ![n] = first]
           slaves == [d.slaves EXCEPT ![w] = <<>>, ![n] = rest]
           due == d.due \/ full # None \/ (d.floats[w] # <<>> /\ d.output[w] # d.output[n])
           moved == [d EXCEPT !.home = home, !.fullscreen = fullscreen, !.floats = floats,
                              !.master = master, !.slaves = slaves, !.due = due]
<1>0. Typed(d) /\ Ordered(d) /\ None \notin Toplevel
  BY NoneIsNoName DEF Calm, Neat, Tidy
<1>1. /\ d.master \in [Workspace -> Toplevel \cup {None}]
      /\ d.slaves \in [Workspace -> Seq(Toplevel)]
      /\ d.floats \in [Workspace -> Seq(Toplevel)]
      /\ d.fullscreen \in [Workspace -> Toplevel \cup {None}]
  BY <1>0 DEF Typed, ListTypes
<1>2. \A v \in Workspace : d.fullscreen[v] = None
  BY NobodyFullscreen
<1>3. ASSUME NEW t \in Toplevel PROVE ~(w \in Tiling(d, t) /\ n \in Tiling(d, t)) /\ ~(w \in Floating(d, t) /\ n \in Floating(d, t))
  <2>1. CASE Place(d, t) = Nowhere
    BY <2>1 DEF Place, Nowhere
  <2>2. CASE Place(d, t) # Nowhere
    <3>1. InPlace(d, t) /\ d.state[t] \in State
      BY <1>0, <2>2, FoundIsMapped DEF Typed, WindowTypes
    <3>2. PICK v \in Workspace : Place(d, t) = Only(d.state[t], v)
      BY <3>1 DEF InPlace
    <3>3. Tiling(d, t) \subseteq {v} /\ Floating(d, t) \subseteq {v}
      BY <3>1, <3>2 DEF Place, Only, State
    <3> QED BY <3>3
  <2> QED BY <2>1, <2>2
<1>4. ((ToSet(d.slaves[w]) \cup {d.master[w]}) \cap (ToSet(d.slaves[n]) \cup {d.master[n]})) \subseteq {None}
  <2> SUFFICES ASSUME NEW t, t \in ToSet(d.slaves[w]) \cup {d.master[w]}, t \in ToSet(d.slaves[n]) \cup {d.master[n]},
                      t # None
               PROVE  FALSE
    OBVIOUS
  <2>1. t \in Toplevel
    BY <1>0, WindowsOf, Elements
  <2> QED BY <1>3, <2>1 DEF Tiling
<1>5. ToSet(d.floats[w]) \cap ToSet(d.floats[n]) = {}
  <2> SUFFICES ASSUME NEW t \in ToSet(d.floats[w]), t \in ToSet(d.floats[n]) PROVE FALSE
    OBVIOUS
  <2>1. t \in Toplevel
    BY <1>0, WindowsOf, Elements
  <2> QED BY <1>3, <2>1 DEF Floating
<1>6. /\ leaving \in Seq(Toplevel) /\ ToSet(leaving) = (ToSet(d.slaves[w]) \cup {d.master[w]}) \ {None}
      /\ tiles \in Seq(Toplevel) /\ IsInjective(tiles)
      /\ ToSet(tiles) = ((ToSet(d.slaves[n]) \cup {d.master[n]}) \cup (ToSet(d.slaves[w]) \cup {d.master[w]})) \ {None}
  <2>1. Chain(Toplevel, d.master[w], d.slaves[w]) /\ Chain(Toplevel, d.master[n], d.slaves[n])
    BY <1>0, ChainOf
  <2>2. ASSUME NEW l, l = leaving, NEW q, q = tiles
        PROVE  /\ l \in Seq(Toplevel) /\ ToSet(l) = (ToSet(d.slaves[w]) \cup {d.master[w]}) \ {None}
               /\ q \in Seq(Toplevel) /\ IsInjective(q)
               /\ ToSet(q) = ((ToSet(d.slaves[n]) \cup {d.master[n]}) \cup (ToSet(d.slaves[w]) \cup {d.master[w]})) \ {None}
    <3>1. l = Leaving(d.master[w], d.slaves[w])
      BY <2>2 DEF Leaving
    <3>2. q = Onto(d.master[n], d.slaves[n], l)
      BY <2>2 DEF Onto
    <3> HIDE DEF leaving, tiles
    <3> QED BY ONLY <1>0, <1>4, <2>1, <3>1, <3>2, Poured
  <2> HIDE DEF leaving, tiles
  <2> QED BY <2>2
<1>7. e = IF leaving = <<>> THEN moved
          ELSE IF \E t \in ToSet(leaving) : d.home[t] # w THEN Fail(d, "wrong list")
          ELSE Configure(moved, n)
  BY <1>0 DEF Evacuate, Typed, Fields
<1> HIDE DEF leaving, tiles
<1>8. Chain(Toplevel, first, rest) /\ (ToSet(rest) \cup {first}) \ {None} = ToSet(tiles)
  BY <1>0, <1>6, Unchained
<1>9. /\ IsInjective(poured) /\ ToSet(poured) = ToSet(d.floats[w]) \cup ToSet(d.floats[n])
      /\ poured \in Seq(Toplevel)
  <2>1. d.floats[w] \in Seq(Toplevel) /\ d.floats[n] \in Seq(Toplevel)
        /\ IsInjective(d.floats[w]) /\ IsInjective(d.floats[n])
    BY <1>0, WindowsOf DEF Ordered
  <2> DEFINE b == Reverse(d.floats[w])
  <2>2. b \in Seq(Toplevel) /\ ToSet(b) = ToSet(d.floats[w]) /\ IsInjective(b)
    BY <2>1, Reversed
  <2>3. poured = b \o d.floats[n]
    OBVIOUS
  <2> HIDE DEF b, poured
  <2>4. ToSet(b) \cap ToSet(d.floats[n]) = {}
    BY <1>5, <2>2
  <2> QED BY <2>1, <2>2, <2>3, <2>4, Joined
<1>10. /\ moved.home = home /\ moved.state = d.state /\ moved.life = d.life /\ moved.ghosts = d.ghosts
       /\ moved.kinds = d.kinds /\ moved.focused = d.focused
       /\ moved.master = master /\ moved.slaves = slaves /\ moved.floats = floats /\ moved.fullscreen = fullscreen
  BY <1>0 DEF Typed, Fields
<1>11. Typed(moved)
  <2>1. SpaceTypes(moved) /\ But(d, moved, Spaced \ {"focused", "layer", "exclusive"})
    <3>1. /\ But(d, moved, Spaced \ {"focused", "layer", "exclusive"})
          /\ moved.output = d.output /\ moved.spaces = d.spaces /\ moved.dummy = d.dummy
          /\ moved.act = d.act /\ moved.presented = d.presented /\ moved.outputs = d.outputs
          /\ moved.plugged = d.plugged /\ moved.active = d.active
      BY <1>0 DEF But, Typed, Fields, Spaced
    <3> HIDE DEF moved
    <3> QED BY <3>1, <1>0 DEF Typed, SpaceTypes
  <2>2. moved.due \in BOOLEAN
    BY <1>0 DEF Typed, Fields, WindowTypes
  <2> HIDE DEF moved
  <2>3. first \in Toplevel \cup {None} /\ rest \in Seq(Toplevel)
    BY <1>8 DEF Chain
  <2> HIDE DEF first, rest, poured
  <2>4. master \in [Workspace -> Toplevel \cup {None}] /\ slaves \in [Workspace -> Seq(Toplevel)]
        /\ floats \in [Workspace -> Seq(Toplevel)] /\ fullscreen \in [Workspace -> Toplevel \cup {None}]
    BY <1>1, <1>9, <2>3, Emptied
  <2>5. home \in [Toplevel -> Workspace \cup {None}]
    BY <1>0 DEF Typed, WindowTypes
  <2> HIDE DEF master, slaves, floats, fullscreen, home
  <2>6. ListTypes(moved) /\ moved.home \in [Toplevel -> Workspace \cup {None}]
    BY <1>10, <2>4, <2>5 DEF ListTypes
  <2> QED BY <1>0, <2>1, <2>2, <2>6, SpacedTyped
<1>12. Quiet(moved, e) /\ e.focused = moved.focused /\ \A t \in ToSet(leaving) : d.home[t] = w
  <2> HIDE DEF moved
  <2>0. Kept(moved, Configure(moved, n), {"due", "crashed"})
    BY <1>11, ConfigureKept
  <2>3. Configure(moved, n).focused = moved.focused
    BY <2>0 DEF Kept, But, Fields
  <2>1. CASE leaving = <<>>
    BY <1>7, <2>1, QuietSame, Emptied
  <2>2. CASE leaving # <<>>
    <3>1. Fail(d, "wrong list").crashed # "none"
      BY <1>0, Fails
    <3> QED BY <1>7, <1>11, <2>2, <2>3, <3>1, ConfigureQuiet
  <2> QED BY <2>1, <2>2
<1> HIDE DEF moved, first, rest, poured
<1>13. /\ e.home = home /\ e.state = d.state /\ e.life = d.life /\ e.ghosts = d.ghosts /\ e.kinds = d.kinds
       /\ e.focused = d.focused
       /\ e.master = master /\ e.slaves = slaves /\ e.floats = floats /\ e.fullscreen = fullscreen
  BY <1>10, <1>12 DEF Quiet
<1>14. \A v \in Workspace : e.fullscreen[v] = None
  BY <1>1, <1>2, <1>13
<1>15. /\ \A v \in Workspace \ {w, n} :
            e.master[v] = d.master[v] /\ e.slaves[v] = d.slaves[v] /\ e.floats[v] = d.floats[v]
       /\ e.master[w] = None /\ e.slaves[w] = <<>> /\ e.floats[w] = <<>>
       /\ e.master[n] = first /\ e.slaves[n] = rest /\ e.floats[n] = poured
  BY <1>1, <1>13
<1> HIDE DEF home, master, slaves, floats, fullscreen
<1>16. Emptier(e, w)
  BY <1>14, <1>15 DEF Emptier
<1>17. MergedInto(d, e, w, n)
  BY <1>6, <1>8, <1>9, <1>15, <1>16 DEF MergedInto
<1> QED BY <1>6, <1>12, <1>13, <1>14, <1>17 DEF home

LEMMA Evacuated ==
  ASSUME NEW d, Calm(d), "fullscreen" \notin d.kinds, NEW w \in Workspace, NEW n \in Workspace, w # n,
         NEW e, e = Evacuate(d, w, n), e.crashed = "none"
  PROVE  Calm(e) /\ Emptier(e, w)
<1>0. /\ Typed(d) /\ Ordered(d) /\ None \notin Toplevel
      /\ \A v \in Workspace : d.fullscreen[v] = None
  BY NoneIsNoName, NobodyFullscreen DEF Calm, Neat, Tidy
<1>1. /\ e.home = [t \in Toplevel |-> IF t \in Members(d, w) THEN n ELSE d.home[t]]
      /\ e.state = d.state /\ e.life = d.life /\ e.ghosts = d.ghosts /\ e.kinds = d.kinds
      /\ e.focused = d.focused
      /\ \A v \in Workspace : e.fullscreen[v] = None
  BY EvacuatedLists
<1>2. /\ \A v \in Workspace \ {w, n} :
           e.master[v] = d.master[v] /\ e.slaves[v] = d.slaves[v] /\ e.floats[v] = d.floats[v]
      /\ Emptier(e, w)
  <2>1. MergedInto(d, e, w, n)
    BY EvacuatedLists
  <2> QED BY <2>1 DEF MergedInto
<1>3. /\ Chain(Toplevel, e.master[n], e.slaves[n])
      /\ (ToSet(e.slaves[n]) \cup {e.master[n]}) \ {None}
           = ((ToSet(d.slaves[n]) \cup {d.master[n]}) \cup (ToSet(d.slaves[w]) \cup {d.master[w]})) \ {None}
      /\ IsInjective(e.floats[n])
      /\ ToSet(e.floats[n]) = ToSet(d.floats[w]) \cup ToSet(d.floats[n])
  <2>1. MergedInto(d, e, w, n)
    BY EvacuatedLists
  <2> QED BY <2>1 DEF MergedInto
<1>4. SpaceKept(d, e)
  BY <1>0, EvacuateKept
<1>5. e.grabbed = d.grabbed /\ e.pointer = d.pointer /\ e.shown = d.shown /\ Typed(e)
  BY <1>4 DEF SpaceKept, Kept, But, Spaced, Fields
<1>6. Ordered(e)
  <2> SUFFICES ASSUME NEW v \in Workspace
               PROVE  /\ IsInjective(e.slaves[v]) /\ IsInjective(e.floats[v])
                      /\ e.master[v] \notin ToSet(e.slaves[v])
                      /\ e.master[v] = None => e.slaves[v] = <<>>
    BY DEF Ordered
  <2>1. CASE v = w
    BY <1>2, <2>1, Emptied DEF Emptier
  <2>2. CASE v = n
    BY <1>3, <2>2 DEF Chain
  <2>3. CASE v \notin {w, n}
    BY <1>0, <1>2, <2>3 DEF Ordered
  <2> QED BY <2>1, <2>2, <2>3
<1>7. ASSUME NEW t \in Toplevel, NEW v \in Workspace
      PROVE  /\ v \in Tiling(e, t) <=> v # w /\ (v \in Tiling(d, t) \/ (v = n /\ w \in Tiling(d, t)))
             /\ v \in Floating(e, t) <=> v # w /\ (v \in Floating(d, t) \/ (v = n /\ w \in Floating(d, t)))
  <2>0. t # None
    BY <1>0
  <2>1. CASE v = w
    BY <1>2, <2>0, <2>1, Emptied DEF Emptier, Tiling, Floating
  <2>2. CASE v = n
    BY <1>3, <2>0, <2>2 DEF Tiling, Floating
  <2>3. CASE v \notin {w, n}
    BY <1>2, <2>3 DEF Tiling, Floating
  <2> QED BY <2>1, <2>2, <2>3
<1>8. ASSUME NEW t \in Toplevel PROVE Filling(e, t) = {} /\ Filling(d, t) = {}
  BY <1>0, <1>1 DEF Filling
<1>9. ASSUME NEW t \in Toplevel
      PROVE  t \in Members(d, w) <=> w \in Tiling(d, t) \/ w \in Floating(d, t)
  BY <1>0 DEF Members, Tiling, Floating
<1>10. ASSUME NEW t \in Toplevel PROVE IsAt(e, t, d.grabbed)
  <2>0. IsAt(d, t, d.grabbed) /\ d.state[t] \in State
    BY DEF Calm, Neat, Tidy, Typed, WindowTypes
  <2>1. CASE t \notin Members(d, w)
    <3>1. Tiling(e, t) = Tiling(d, t) /\ Floating(e, t) = Floating(d, t)
      BY <1>7, <1>9, <2>1 DEF Tiling, Floating
    <3>2. Same(d, e, t)
      BY <1>1, <1>8, <2>1, <3>1 DEF Same, Place
    <3> QED BY <1>1, <2>0, <3>2, SameIsAt
  <2>2. CASE t \in Members(d, w)
    <3>1. Place(d, t) # Nowhere
      BY <1>9, <2>2 DEF Place, Nowhere
    <3>2. d.life[t] = "mapped" /\ t # d.grabbed /\ InPlace(d, t)
      BY <3>1, FoundIsMapped
    <3>3. PICK v \in Workspace : Place(d, t) = Only(d.state[t], v)
      BY <3>2 DEF InPlace
    <3>4. e.home[t] = n
      BY <1>1, <2>2
    <3>5. CASE d.state[t] = "TILED"
      <4>1. Tiling(d, t) = {v} /\ Floating(d, t) = {}
        BY <3>3, <3>5 DEF Place, Only
      <4>2. v = w
        BY <1>9, <2>2, <4>1
      <4>3. Tiling(e, t) = {n} /\ Floating(e, t) = {}
        BY <1>7, <4>1, <4>2 DEF Tiling, Floating
      <4>4. Place(e, t) = Only(e.state[t], n)
        BY <1>1, <1>8, <3>5, <4>3 DEF Place, Only
      <4> QED BY <1>1, <3>2, <3>4, <4>4 DEF IsAt, InPlace
    <3>6. CASE d.state[t] = "FLOAT"
      <4>1. Floating(d, t) = {v} /\ Tiling(d, t) = {}
        BY <3>3, <3>6 DEF Place, Only
      <4>2. v = w
        BY <1>9, <2>2, <4>1
      <4>3. Floating(e, t) = {n} /\ Tiling(e, t) = {}
        BY <1>7, <4>1, <4>2 DEF Tiling, Floating
      <4>4. Place(e, t) = Only(e.state[t], n)
        BY <1>1, <1>8, <3>6, <4>3 DEF Place, Only
      <4> QED BY <1>1, <3>2, <3>4, <4>4 DEF IsAt, InPlace
    <3>7. CASE d.state[t] = "FULLSCREEN"
      BY <3>7 DEF Calm, Neat, NoFullscreen
    <3> QED BY <2>0, <3>5, <3>6, <3>7 DEF State
  <2> QED BY <2>1, <2>2
<1>11. Tidy(e, e.grabbed)
  BY <1>5, <1>6, <1>10 DEF Tidy
<1>12. Pointing(e) /\ NoFullscreen(e) /\ FocusIsMapped(e)
  BY <1>1, <1>5 DEF Calm, Neat, Pointing, NoFullscreen, FocusIsMapped
<1> QED BY <1>1, <1>2, <1>5, <1>11, <1>12 DEF Calm, Neat

(* Neither windows nor what holds them are touched.                          *)
Still(d, e) ==
  /\ Quiet(d, e) /\ e.grabbed = d.grabbed /\ e.pointer = d.pointer /\ e.shown = d.shown
  /\ e.focused = d.focused

LEMMA StillCalm ==
  ASSUME NEW d, Calm(d), NEW e, Typed(e), Still(d, e)
  PROVE  Calm(e)
<1>1. Neat(e)
  BY StillNeat DEF Still, Calm
<1> QED BY <1>1 DEF Calm, Still, Quiet

LEMMA CreatedCalm ==
  ASSUME NEW d, Calm(d), NEW o \in ToSet(d.outputs), NEW w \in Workspace
  PROVE  /\ Calm(WorkspaceCreate(d, o, w)) /\ Calm(WithDummy(d, o, w))
         /\ Later(d, WithDummy(d, o, w))
<1> DEFINE e == WorkspaceCreate(d, o, w)
           f == [e EXCEPT !.dummy[o] = w]
<1>0. Typed(d)
  BY DEF Calm
<1>1. Typed(e) /\ Typed(WithDummy(d, o, w)) /\ Later(d, WithDummy(d, o, w))
  BY <1>0, WorkspaceCreateKept, WithDummyKept DEF SpaceKept, Kept
<1>2. Still(d, e)
  <2>1. CASE d.dummy[o] # None
    BY <1>0, <2>1 DEF WorkspaceCreate, Still, Quiet, Typed, Fields
  <2>2. CASE d.dummy[o] = None
    BY <1>0, <2>2 DEF WorkspaceCreate, Still, Quiet, Typed, Fields
  <2> QED BY <2>1, <2>2
<1>3. Calm(e)
  BY <1>1, <1>2, StillCalm
<1>4. WithDummy(d, o, w) \in {d, f}
  BY DEF WithDummy
<1> HIDE DEF e
<1>5. Still(e, f)
  BY <1>1 DEF Still, Quiet, Typed, Fields
<1> HIDE DEF f
<1>6. Calm(WithDummy(d, o, w))
  BY <1>1, <1>3, <1>4, <1>5, StillCalm
<1> QED BY <1>1, <1>3, <1>6 DEF e

LEMMA ActCalm ==
  ASSUME NEW d, Calm(d), NEW o, NEW n, n \in Workspace \/ n = d.act[o]
  PROVE  Calm([d EXCEPT !.act[o] = n])
<1> DEFINE e == [d EXCEPT !.act[o] = n]
<1>0. Typed(d)
  BY DEF Calm
<1>1. Typed(e)
  BY <1>0, ActKept DEF SpaceKept, Kept
<1>2. Still(d, e)
  BY <1>0 DEF Still, Quiet, Typed, Fields
<1> QED BY <1>1, <1>2, StillCalm

LEMMA FreedCalm ==
  ASSUME NEW d, Calm(d), NEW w \in Workspace, Emptier(d, w)
  PROVE  Calm(FreeWorkspace(d, w)) /\ Later(d, FreeWorkspace(d, w))
<1> DEFINE e == FreeWorkspace(d, w)
<1>0. Typed(d)
  BY DEF Calm
<1>1. Typed(e) /\ Later(d, e)
  BY <1>0, FreeWorkspaceKept DEF SpaceKept, Kept
<1>2. /\ e.master = [d.master EXCEPT ![w] = None] /\ e.slaves = [d.slaves EXCEPT ![w] = <<>>]
      /\ e.floats = [d.floats EXCEPT ![w] = <<>>] /\ e.fullscreen = [d.fullscreen EXCEPT ![w] = None]
      /\ e.home = d.home /\ e.state = d.state /\ e.life = d.life /\ e.ghosts = d.ghosts
      /\ e.kinds = d.kinds /\ e.grabbed = d.grabbed /\ e.pointer = d.pointer /\ e.shown = d.shown
      /\ e.focused = d.focused
  BY <1>0 DEF FreeWorkspace, Typed, Fields
<1> HIDE DEF e
<1>3. /\ e.master = d.master /\ e.slaves = d.slaves
      /\ e.floats = d.floats /\ e.fullscreen = d.fullscreen
  <2>1. ASSUME NEW S, NEW f \in [Workspace -> S], NEW v, f[w] = v PROVE [f EXCEPT ![w] = v] = f
    BY <2>1
  <2>2. /\ d.master \in [Workspace -> Toplevel \cup {None}] /\ d.master[w] = None
        /\ d.slaves \in [Workspace -> Seq(Toplevel)] /\ d.slaves[w] = <<>>
        /\ d.floats \in [Workspace -> Seq(Toplevel)] /\ d.floats[w] = <<>>
        /\ d.fullscreen \in [Workspace -> Toplevel \cup {None}] /\ d.fullscreen[w] = None
    BY <1>0 DEF Emptier, Typed, ListTypes
  <2>3. [d.master EXCEPT ![w] = None] = d.master
    BY <2>1, <2>2
  <2>4. [d.slaves EXCEPT ![w] = <<>>] = d.slaves
    BY <2>1, <2>2
  <2>5. [d.floats EXCEPT ![w] = <<>>] = d.floats
    BY <2>1, <2>2
  <2>6. [d.fullscreen EXCEPT ![w] = None] = d.fullscreen
    BY <2>1, <2>2
  <2> QED BY <1>2, <2>3, <2>4, <2>5, <2>6
<1>4. Still(d, e)
  BY <1>2, <1>3 DEF Still, Quiet
<1> QED BY <1>1, <1>4, StillCalm DEF e

LEMMA DestroyedCalm ==
  ASSUME NEW d, Calm(d), "fullscreen" \notin d.kinds, NEW w \in Workspace, d.output[w] # None,
         NEW n \in Workspace, NEW e, e = WorkspaceDestroy(d, w, n), e.crashed = "none"
  PROVE  Calm(e)
<1> DEFINE o == d.output[w]
           ready == WithDummy(d, o, n)
           turned == [ready EXCEPT !.act[o] = IF ready.act[o] = w THEN n ELSE ready.act[o]]
           empty == Evacuate(turned, w, n)
           left == IF empty.active = w THEN SetActive(empty, n) ELSE empty
<1>0. Typed(d) /\ o \in ToSet(d.outputs)
  BY DEF Calm, Typed, SpaceTypes
<1>1. w # n /\ e = FreeWorkspace(left, w)
  <2>1. Fail(d, "endless loop").crashed # "none" /\ Fail(d, "freed workspace").crashed # "none"
    BY <1>0, Fails
  <2> QED BY <2>1 DEF WorkspaceDestroy
<1>2. Calm(ready) /\ SpaceKept(d, ready)
  BY <1>0, CreatedCalm, WithDummyKept
<1> HIDE DEF ready
<1>3. Calm(turned)
  BY <1>2, ActCalm
<1>4. SpaceKept(ready, turned)
  BY <1>2, ActKept DEF Calm
<1>5. turned.kinds = d.kinds
  BY <1>2, <1>4 DEF SpaceKept, Kept, But, Spaced, Fields
<1> HIDE DEF turned
<1>6. SpaceKept(turned, empty)
  BY <1>3, EvacuateKept DEF Calm
<1> HIDE DEF empty
<1>7. FocusKept(empty, left)
  BY <1>6, SetActiveKept, FocusSame DEF SpaceKept, Kept
<1>8. Typed(left)
  BY <1>7 DEF FocusKept, Kept
<1> HIDE DEF left
<1>9. left.crashed = "none"
  BY <1>1, <1>8, FreeWorkspaceKept DEF SpaceKept, Kept, Later
<1>10. empty.crashed = "none"
  BY <1>7, <1>9 DEF FocusKept, Kept, Later
<1>11. Calm(empty) /\ Emptier(empty, w)
  BY <1>1, <1>3, <1>5, <1>10, Evacuated DEF empty
<1>12. FocusTo(empty, left)
  BY <1>11, ActiveSet, FocusSame DEF left, FocusTo, Calm
<1>13. Calm(left) /\ Emptier(left, w)
  BY <1>11, <1>12, FocusCalm, FocusQuiet DEF FocusTo, Quiet, Emptier
<1> QED BY <1>1, <1>13, FreedCalm

-----------------------------------------------------------------------------
(* What one window does.                                                     *)

LEMMA BesideNeat ==
  ASSUME NEW d, Calm(d), NEW t \in Toplevel, NEW e, Beside(d, e, t), IsAt(e, t, d.grabbed),
         e.grabbed = d.grabbed, e.pointer = d.pointer, e.shown \subseteq d.shown,
         e.focused \in {None, d.focused} \/ (e.focused \in Toplevel /\ d.life[e.focused] = "mapped"),
         t = d.pointer => e.life[t] = "mapped" /\ t \notin e.ghosts,
         t \in e.ghosts \cap e.shown => e.life[t] # "mapped",
         t = d.grabbed \/ "fullscreen" \notin d.kinds => e.state[t] # "FULLSCREEN",
         e.life[t] = "mapped" \/ d.kinds \cap {"direction", "move to"} = {} \/ t # e.focused
  PROVE  Neat(e)
<1>0. Typed(d) /\ d.grabbed \in Toplevel \cup {None} /\ None \notin Toplevel /\ d.ghosts \subseteq Toplevel
      /\ d.focused \in Toplevel \cup {None}
  BY NoneIsNoName DEF Calm, Typed, GrabTypes, WindowTypes, FocusTypes
<1>1. /\ e.kinds = d.kinds
      /\ \A u \in Toplevel \ {t} : /\ e.life[u] = d.life[u] /\ e.state[u] = d.state[u]
                                   /\ u \in e.ghosts => u \in d.ghosts
  BY DEF Beside, Same
<1>2. Tidy(e, e.grabbed)
  <2>1. Tidy(d, d.grabbed)
    BY DEF Calm, Neat
  <2> QED BY <2>1, AroundTidy
<1>3. Pointing(e)
  <2>1. e.pointer \in Toplevel => e.life[e.pointer] = "mapped" /\ e.pointer \notin e.ghosts
    BY <1>1 DEF Calm, Neat, Pointing
  <2>2. \A u \in e.ghosts \cap e.shown : u \in Toplevel => e.life[u] # "mapped"
    BY <1>1 DEF Calm, Neat, Pointing
  <2>3. e.grabbed # None => /\ e.pointer = e.grabbed /\ e.state[e.grabbed] # "FULLSCREEN"
                            /\ e.kinds \cap Grabbing # {}
    BY <1>0, <1>1 DEF Calm, Neat, Pointing
  <2>4. e.shown \subseteq Toplevel
    BY <1>0 DEF Typed, WindowTypes
  <2> QED BY <2>1, <2>2, <2>3, <2>4 DEF Pointing
<1>4. NoFullscreen(e)
  BY <1>1 DEF Calm, Neat, NoFullscreen
<1>5. FocusIsMapped(e)
  BY <1>0, <1>1 DEF Calm, Neat, FocusIsMapped
<1> QED BY <1>2, <1>3, <1>4, <1>5 DEF Neat

LEMMA CreateNeat ==
  ASSUME Calm(desk), NEW t \in Toplevel, Create(t)
  PROVE  Neat(desk')
<1> DEFINE e == [desk EXCEPT !.life[t] = "unmapped", !.state[t] = "TILED",
                             !.prev_state[t] = "TILED", !.home[t] = None,
                             !.shown = @ \ {t}]
<1>0. Typed(desk) /\ desk.life[t] = "absent" /\ t \notin desk.ghosts
  BY DEF Calm, Create, Freed
<1>1. /\ SameLists(desk, e) /\ e.kinds = desk.kinds /\ e.ghosts = desk.ghosts
      /\ e.grabbed = desk.grabbed /\ e.pointer = desk.pointer /\ e.focused = desk.focused
      /\ e.shown = desk.shown \ {t} /\ e.life[t] = "unmapped" /\ e.state[t] = "TILED"
      /\ \A u \in Toplevel \ {t} :
           e.home[u] = desk.home[u] /\ e.state[u] = desk.state[u] /\ e.life[u] = desk.life[u]
  BY <1>0 DEF SameLists, Typed, WindowTypes, Fields
<1>2. desk' = e
  BY DEF Create
<1> HIDE DEF e
<1>3. Beside(desk, e, t) /\ Place(e, t) = Place(desk, t)
  BY <1>1, RelabelledBeside DEF Calm, Neat, Tidy
<1>4. Place(desk, t) = Nowhere /\ desk.pointer # t
  BY <1>0 DEF Calm, Neat, Tidy, IsAt, Pointing
<1>5. IsAt(e, t, desk.grabbed)
  BY <1>1, <1>3, <1>4 DEF IsAt
<1>6. desk.kinds \cap {"direction", "move to"} = {} \/ t # e.focused
  BY <1>0, <1>1, NoneIsNoName DEF Calm, Neat, FocusIsMapped
<1>7. Neat(e)
  BY <1>0, <1>1, <1>3, <1>4, <1>5, <1>6, BesideNeat
<1> QED BY <1>2, <1>7

LEMMA DestroyNeat ==
  ASSUME Calm(desk), NEW t \in Toplevel, Destroy(t)
  PROVE  Neat(desk')
<1> DEFINE e == [desk EXCEPT !.life[t] = "absent",
                             !.pointer = IF @ = t THEN None ELSE @,
                             !.shown = IF t \in desk.ghosts THEN @ ELSE @ \ {t},
                             !.fresh = @ \ {t}]
<1>0. Typed(desk) /\ desk.life[t] = "unmapped" /\ desk.pointer # t
  BY DEF Calm, Neat, Pointing, Destroy
<1>1. /\ SameLists(desk, e) /\ e.kinds = desk.kinds /\ e.ghosts = desk.ghosts
      /\ e.grabbed = desk.grabbed /\ e.pointer = desk.pointer /\ e.focused = desk.focused
      /\ e.shown \subseteq desk.shown /\ e.life[t] = "absent" /\ e.state = desk.state
      /\ e.home = desk.home
      /\ \A u \in Toplevel \ {t} : e.life[u] = desk.life[u]
  BY <1>0 DEF SameLists, Typed, WindowTypes, Fields
<1>2. desk' = e
  BY DEF Destroy
<1> HIDE DEF e
<1>3. Beside(desk, e, t) /\ Place(e, t) = Place(desk, t)
  BY <1>1, RelabelledBeside DEF Calm, Neat, Tidy
<1>4. Place(desk, t) = Nowhere
  BY <1>0 DEF Calm, Neat, Tidy, IsAt
<1>5. IsAt(e, t, desk.grabbed)
  BY <1>1, <1>3, <1>4 DEF IsAt
<1>6. desk.kinds \cap {"direction", "move to"} = {} \/ t # e.focused
  BY <1>0, <1>1, NoneIsNoName DEF Calm, Neat, FocusIsMapped
<1>7. t = desk.grabbed \/ "fullscreen" \notin desk.kinds => e.state[t] # "FULLSCREEN"
  BY <1>0, <1>1, NoneIsNoName DEF Calm, Neat, Pointing, NoFullscreen
<1>8. Neat(e)
  BY <1>0, <1>1, <1>3, <1>5, <1>6, <1>7, BesideNeat
<1> QED BY <1>2, <1>8

(* A new window is put into the place of its kind.                           *)
LEMMA PlacedThere ==
  ASSUME NEW d, Typed(d), Ordered(d), NEW t \in Toplevel, d.state[t] \in {"TILED", "FLOAT"},
         d.home[t] \in Workspace, Place(d, t) = Nowhere, NEW e, e = Placed(d, t), e.crashed = "none"
  PROVE  /\ Kept(d, e, Listed) /\ Around(d, e, t) /\ Place(e, t) = Only(d.state[t], d.home[t])
<1> DEFINE w == d.home[t]
           a == [d EXCEPT !.due = TRUE]
           b == LayoutAdd(d, w, t)
<1>1. CASE d.state[t] = "FLOAT"
  <2>1. e = PushFloat(a, w, t)
    BY <1>1 DEF Placed
  <2>2. Kept(d, a, {"due", "crashed"})
    BY DueKept
  <2> HIDE DEF a
  <2>3. Quiet(d, a) /\ Typed(a)
    BY <2>2, QuietIf DEF Kept, Placing
  <2>4. Around(d, a, t) /\ Ordered(a) /\ Place(a, t) = Nowhere
    BY <2>3, QuietPlaces
  <2> HIDE DEF w
  <2>5. w \in Workspace
    BY DEF w
  <2>6. Around(a, e, t) /\ Place(e, t) = Only("FLOAT", w)
    BY <2>1, <2>3, <2>4, <2>5, Pushed
  <2>7. Around(d, e, t)
    BY <2>4, <2>6, AroundTwice
  <2>8. Kept(a, e, Listed)
    BY <2>1, <2>3, PushFloatKept, KeptWider DEF Listed
  <2>9. Kept(d, a, Listed)
    BY <2>2, KeptWider DEF Listed
  <2>10. Kept(d, e, Listed)
    BY <2>8, <2>9, KeptTwice
  <2> QED BY <1>1, <2>6, <2>7, <2>10 DEF w
<1>2. CASE d.state[t] = "TILED"
  <2>1. e = Configure(b, w)
    BY <1>2 DEF Placed
  <2>2. Kept(d, b, Listed)
    BY LayoutAddKept, KeptWider DEF Listed
  <2> HIDE DEF w, b
  <2>3. Typed(b) /\ w \in Workspace
    BY <2>2 DEF Kept, w
  <2>4. Kept(b, e, Listed)
    BY <2>1, <2>3, ConfigureKept, KeptWider DEF Listed
  <2>5. Quiet(b, e) /\ b.crashed = "none"
    BY <2>1, <2>3, ConfigureQuiet DEF Later
  <2>6. Around(d, b, t) /\ Place(b, t) = Only("TILED", w)
    BY <2>3, <2>5, Added DEF b
  <2>7. Ordered(b)
    BY <2>6 DEF Around, Beside
  <2>8. Around(b, e, t) /\ Place(e, t) = Place(b, t)
    BY <2>5, <2>7, QuietPlaces
  <2>9. Around(d, e, t)
    BY <2>6, <2>8, AroundTwice
  <2>10. Kept(d, e, Listed)
    BY <2>2, <2>4, KeptTwice
  <2> QED BY <1>2, <2>6, <2>8, <2>9, <2>10 DEF w
<1> QED BY <1>1, <1>2

LEMMA MapNeat ==
  ASSUME Calm(desk), NEW t \in Toplevel, NEW st \in State, Map(t, st), desk'.crashed = "none"
  PROVE  Neat(desk')
<1> DEFINE new == [desk EXCEPT !.life[t] = "mapped", !.state[t] = st, !.home[t] = desk.active,
                               !.shown = @ \ {t}, !.fresh = @ \cup {t}]
           placed == Placed(new, t)
<1>0. Typed(desk) /\ desk.life[t] = "unmapped" /\ st \in {"TILED", "FLOAT"} /\ desk.active \in Workspace
  BY DEF Calm, Map, Typed, SpaceTypes
<1>1. But(desk, new, Moved \cup {"life", "shown", "fresh", "pointer"}) /\ Later(desk, new)
  BY <1>0 DEF But, Later, Typed, Fields, Moved, Listed
<1>2. WindowTypes(new)
  BY <1>0 DEF Typed, WindowTypes, Fields, Life
<1>3. ListTypes(new) /\ new.pointer = desk.pointer
  BY <1>0 DEF Typed, ListTypes, Fields
<1>4. desk' = ToplevelFocus(placed, t)
  <2>1. Fail(desk, "freed workspace").crashed # "none"
    BY <1>0, Fails
  <2> QED BY <2>1 DEF Map
<1>5. /\ SameLists(desk, new) /\ new.kinds = desk.kinds /\ new.ghosts = desk.ghosts
      /\ new.grabbed = desk.grabbed /\ new.focused = desk.focused
      /\ new.shown = desk.shown \ {t} /\ new.life[t] = "mapped" /\ new.state[t] = st
      /\ new.home[t] = desk.active
      /\ \A u \in Toplevel \ {t} : /\ new.home[u] = desk.home[u] /\ new.state[u] = desk.state[u]
                                   /\ new.life[u] = desk.life[u]
  BY <1>0 DEF SameLists, Typed, WindowTypes, Fields
<1> HIDE DEF new
<1>6. new.pointer \in Toplevel \cup Layer \cup {None}
  BY <1>0, <1>3 DEF Typed, GrabTypes
<1>7. Typed(new)
  BY <1>0, <1>1, <1>2, <1>3, <1>6, WindowStepped DEF Stepped
<1>8. Ordered(desk) /\ Place(desk, t) = Nowhere /\ t # desk.pointer /\ t # desk.grabbed
  BY <1>0, NoneIsNoName DEF Calm, Neat, Tidy, IsAt, Pointing
<1>9. Beside(desk, new, t) /\ Ordered(new) /\ Place(new, t) = Nowhere
  BY <1>5, <1>8, RelabelledBeside
<1>10. placed.crashed = "none" /\ Typed(placed)
  <2>1. Kept(new, placed, Moved)
    <3>1. placed \in {PushFloat([new EXCEPT !.due = TRUE], new.home[t], t),
                      Configure(LayoutAdd(new, new.home[t], t), new.home[t])}
      BY DEF Placed
    <3>2. Kept(new, [new EXCEPT !.due = TRUE], Moved)
      BY <1>7, DueKept, KeptWider DEF Moved, Listed
    <3>3. Kept(new, PushFloat([new EXCEPT !.due = TRUE], new.home[t], t), Moved)
      BY <3>2, PushFloatKept, KeptWider, KeptTwice DEF Kept, Moved, Listed
    <3>4. Kept(new, LayoutAdd(new, new.home[t], t), Moved)
      BY <1>7, LayoutAddKept, KeptWider DEF Moved, Listed
    <3>5. Kept(new, Configure(LayoutAdd(new, new.home[t], t), new.home[t]), Moved)
      BY <3>4, ConfigureKept, KeptWider, KeptTwice DEF Kept, Moved, Listed
    <3> QED BY <3>1, <3>3, <3>5
  <2>2. Typed(placed)
    BY <2>1 DEF Kept
  <2> HIDE DEF placed
  <2>3. Later(placed, desk')
    BY <1>4, <2>2, ToplevelFocusKept DEF FocusKept, Kept
  <2> QED BY <2>2, <2>3 DEF Later
<1>11. /\ Kept(new, placed, Listed) /\ Around(new, placed, t)
       /\ Place(placed, t) = Only(st, desk.active)
  BY <1>0, <1>5, <1>7, <1>9, <1>10, PlacedThere
<1> HIDE DEF placed
<1>12. /\ placed.kinds = desk.kinds /\ placed.grabbed = desk.grabbed
       /\ placed.pointer = desk.pointer /\ placed.focused = desk.focused
       /\ placed.shown = desk.shown \ {t} /\ placed.life[t] = "mapped" /\ placed.state[t] = st
       /\ placed.home[t] = desk.active
  BY <1>3, <1>5, <1>11 DEF Kept, But, Listed, Fields
<1>13. Beside(desk, placed, t)
  BY <1>9, <1>11, BesideTwice DEF Around
<1>14. IsAt(placed, t, desk.grabbed)
  BY <1>0, <1>8, <1>11, <1>12 DEF IsAt, InPlace
<1>15. Neat(placed)
  BY <1>0, <1>8, <1>12, <1>13, <1>14, BesideNeat
<1>16. Calm(placed)
  BY <1>10, <1>12, <1>15 DEF Calm
<1>17. FocusTo(placed, ToplevelFocus(placed, t))
  BY <1>10, <1>12, ToplevelFocused
<1> QED BY <1>4, <1>16, <1>17, FocusCalm DEF Calm

(* Who is next in a list is another one.                                     *)
LEMMA NextIsAnother ==
  ASSUME NEW S, NEW s \in Seq(S), IsInjective(s), NEW x, NextOrPrev(s, x) # None
  PROVE  NextOrPrev(s, x) \in ToSet(s) /\ NextOrPrev(s, x) # x
<1> DEFINE i == IndexOf(s, x)
<1>1. i \in 0 .. Len(s) /\ (i # 0 => s[i] = x) /\ Len(s) \in Nat
  BY IndexIs
<1>2. NextOrPrev(s, x) = IF i = 0 THEN None
                         ELSE IF i < Len(s) THEN s[i + 1] ELSE IF i > 1 THEN s[i - 1] ELSE None
  BY DEF NextOrPrev
<1> HIDE DEF i
<1>3. PICK j \in 1 .. Len(s) : NextOrPrev(s, x) = s[j] /\ j # i /\ i \in 1 .. Len(s)
  BY <1>1, <1>2
<1>4. s[j] # s[i]
  BY <1>3 DEF IsInjective
<1> QED BY <1>1, <1>3, <1>4 DEF ToSet

(* Whoever is next is mapped, and not the one that goes.                     *)
LEMMA NextIsMapped ==
  ASSUME NEW d, Calm(d), NEW t \in Toplevel, InPlace(d, t), d.home[t] \in Workspace,
         d.state[t] # "FULLSCREEN", NEW n, n = NextToFocus(d, t), n # None
  PROVE  n \in Toplevel /\ n # t /\ d.life[n] = "mapped" /\ d.home[n] \in Workspace
<1> DEFINE w == d.home[t]
<1>0. /\ d.slaves[w] \in Seq(Toplevel) /\ d.floats[w] \in Seq(Toplevel)
      /\ IsInjective(d.slaves[w]) /\ IsInjective(d.floats[w])
      /\ d.master[w] \notin ToSet(d.slaves[w]) /\ t # None
  BY WindowsOf DEF Calm, Neat, Tidy, Ordered
<1>1. d.state[t] = "FLOAT" => t # d.master[w]
  BY DEF InPlace, Place, Only, Tiling
<1>2. d.state[t] # "FLOAT" => t \notin ToSet(d.floats[w])
  <2>1. d.state[t] # "FLOAT" => d.state[t] = "TILED"
    BY DEF Calm, Typed, WindowTypes, State
  <2> QED BY <2>1 DEF InPlace, Place, Only, Floating
<1> HIDE DEF w
<1>3. /\ \A x : NextOrPrev(d.floats[w], t) = x /\ x # None => x \in ToSet(d.floats[w]) /\ x # t
      /\ \A x : NextOrPrev(d.slaves[w], t) = x /\ x # None => x \in ToSet(d.slaves[w]) /\ x # t
  BY <1>0, NextIsAnother
<1>4. /\ \A x : LastOrNone(d.slaves[w]) = x /\ x # None => x \in ToSet(d.slaves[w])
      /\ \A x : FirstOrNone(d.floats[w]) = x /\ x # None => x \in ToSet(d.floats[w])
  <2>1. d.slaves[w] # <<>> => Last(d.slaves[w]) \in ToSet(d.slaves[w])
    BY <1>0, Ends
  <2>2. d.floats[w] # <<>> => Head(d.floats[w]) \in ToSet(d.floats[w])
    BY <1>0, Ends
  <2> QED BY <2>1, <2>2 DEF LastOrNone, FirstOrNone
<1>5. n \in ToSet(d.slaves[w]) \cup ToSet(d.floats[w]) \cup ({d.master[w], d.fullscreen[w]} \ {None}) /\ n # t
  <2>1. CASE d.state[t] = "FLOAT"
    BY <1>1, <1>3, <2>1 DEF NextToFocus, OrElse, w
  <2>2. CASE d.state[t] # "FLOAT" /\ t = d.master[w]
    BY <1>0, <1>2, <1>4, <2>2 DEF NextToFocus, OrElse, w
  <2>3. CASE d.state[t] # "FLOAT" /\ t # d.master[w]
    BY <1>0, <1>2, <1>3, <1>4, <2>3 DEF NextToFocus, OrElse, w
  <2> QED BY <2>1, <2>2, <2>3
<1>6. w \in Workspace
  BY DEF w
<1> QED BY <1>5, <1>6, ListedIsMapped

(* toplevel_focus does what it is asked for when nothing refuses.            *)
LEMMA FocusObeyed ==
  ASSUME NEW d, Typed(d), NEW n \in Toplevel \cup {None}, ~Refused(d, n),
         NEW e, e = ToplevelFocus(d, n), e.crashed = "none"
  PROVE  e.focused = n
<1> DEFINE g == Deref(Deref(d, d.focused), n)
           f == [g EXCEPT !.focused = n]
<1>1. Typed(g)
  <2>1. Typed(Deref(d, d.focused))
    BY DerefKept DEF Kept
  <2> QED BY <2>1, DerefKept DEF Kept
<1> HIDE DEF g
<1>2. f.focused = n /\ DOMAIN f = Fields
  BY <1>1 DEF Typed, Fields
<1>3. Fail(d, "freed workspace").crashed # "none"
  BY Fails
<1>4. e = f \/ e = SetActiveKeepingFocus(f, d.home[n])
  BY <1>3 DEF ToplevelFocus, g
<1> HIDE DEF f
<1>5. ASSUME NEW w PROVE SetActiveKeepingFocus(f, w).focused = n
  BY <1>2 DEF SetActiveKeepingFocus, MakeActive, Fail, Fields
<1> QED BY <1>2, <1>4, <1>5

(* Where windows are sent, nothing keeps the focus from being handed on.     *)
HandsOn(d) == d.kinds \cap {"direction", "move to"} # {} => Exclusive(d)

(* When the focused window goes the focus goes to one that is mapped; where  *)
(* it may be sent away it does not keep it.                                  *)
LEMMA HandedOn ==
  ASSUME NEW d, Calm(d), HandsOn(d), NEW t \in Toplevel, d.life[t] = "mapped", InPlace(d, t),
         d.home[t] \in Workspace, d.state[t] # "FULLSCREEN", NEW e, e = HandOn(d, t)
  PROVE  /\ FocusTo(d, e)
         /\ e.crashed = "none" /\ d.kinds \cap {"direction", "move to"} # {} => e.focused # t
<1> DEFINE n == NextToFocus(d, t)
<1>0. Typed(d) /\ t # None
  BY NoneIsNoName DEF Calm
<1>1. CASE t # d.focused
  BY <1>0, <1>1, FocusSame DEF HandOn, FocusTo
<1>2. CASE t = d.focused
  <2>1. e = ToplevelFocus(d, n)
    BY <1>2 DEF HandOn
  <2>2. n # None => n \in Toplevel /\ n # t /\ d.life[n] = "mapped" /\ d.home[n] \in Workspace
    BY NextIsMapped
  <2> HIDE DEF n
  <2>3. FocusTo(d, e)
    BY <1>0, <2>1, <2>2, ToplevelFocused
  <2>4. ASSUME e.crashed = "none", d.kinds \cap {"direction", "move to"} # {}
        PROVE  e.focused # t
    <3>1. "fullscreen" \notin d.kinds /\ d.kinds \cap Grabbing = {}
      BY <2>4 DEF Calm, Ordinary
    <3>2. d.grabbed = None /\ ~d.exclusive
      BY <1>0, <1>2, <2>4, <3>1 DEF Calm, Neat, Pointing, HandsOn, Exclusive
    <3>3. n # None => d.fullscreen[d.home[n]] = None
      BY <2>2, <3>1, NobodyFullscreen
    <3>4. ~Refused(d, n)
      BY <1>0, <1>2, <2>2, <3>2, <3>3 DEF Refused
    <3>5. e.focused = n
      <4>1. n \in Toplevel \cup {None}
        BY <2>2
      <4> QED BY <1>0, <2>1, <2>4, <3>4, <4>1, FocusObeyed
    <3> QED BY <1>0, <2>2, <3>5
  <2> QED BY <2>3, <2>4
<1> QED BY <1>1, <1>2

(* A window that nobody holds leaves its place.                              *)
LEMMA LeftPlaces ==
  ASSUME NEW d, Calm(d), HandsOn(d), NEW t \in Toplevel, d.life[t] = "mapped", t # d.grabbed,
         NEW e \in Left(d, t), e.crashed = "none"
  PROVE  /\ Kept(d, e, Moved \cup Refocused) /\ Around(d, e, t) /\ Place(e, t) = Nowhere
         /\ e.focused \in {None, d.focused} \/ (e.focused \in Toplevel /\ d.life[e.focused] = "mapped")
         /\ d.kinds \cap {"direction", "move to"} # {} => e.focused # t
         /\ e.state = d.state /\ e.home = d.home
<1>0. /\ Typed(d) /\ Ordered(d) /\ InPlace(d, t) /\ d.home[t] \in Workspace /\ d.state[t] \in State
      /\ t # None
  BY NoneIsNoName DEF Calm, Neat, Tidy, IsAt, Typed, WindowTypes
<1>1. \/ d.state[t] = "TILED" /\ e = LeaveTiled(d, t)
      \/ d.state[t] = "FLOAT" /\ e = LeaveFloat(d, t)
      \/ d.state[t] = "FULLSCREEN" /\ e = LeaveFullscreen(d, t)
  <2>1. Fail(d, "freed workspace").crashed # "none" /\ Fail(d, "wrong list").crashed # "none"
    BY <1>0, Fails
  <2> QED BY <1>0, <2>1 DEF Left, State
<1>2. CASE d.state[t] # "FULLSCREEN"
  <2> DEFINE f == HandOn(d, t)
             a == LayoutRemove(f, t)
  <2>1. FocusTo(d, f) /\ FocusKept(d, f)
    BY <1>0, <1>2, HandedOn DEF FocusTo
  <2>2. f.crashed = "none" /\ d.kinds \cap {"direction", "move to"} # {} => f.focused # t
    BY <1>0, <1>2, HandedOn
  <2>3. \/ d.state[t] = "TILED" /\ e = Configure(a, d.home[t])
        \/ d.state[t] = "FLOAT" /\ e = Unlink(f, t)
    BY <1>1, <1>2 DEF LeaveTiled, LeaveFloat
  <2> HIDE DEF f
  <2>4. Typed(f) /\ Quiet(d, f)
    BY <2>1, FocusQuiet DEF FocusKept, Kept
  <2>5. Ordered(f) /\ Around(d, f, t) /\ InPlace(f, t) /\ f.state = d.state /\ f.home = d.home
    BY <1>0, <2>4, QuietPlaces DEF Quiet
  <2>6. Around(f, e, t) /\ Place(e, t) = Nowhere /\ Kept(f, e, Listed)
    <3>1. CASE d.state[t] = "FLOAT" /\ e = Unlink(f, t)
      <4>1. Kept(f, e, Listed)
        BY <2>4, <3>1, UnlinkKept, KeptWider DEF Listed
      <4>2. Tiling(f, t) = {} /\ Filling(f, t) = {}
        BY <2>5, <3>1 DEF InPlace, Place, Only
      <4>3. /\ Around(f, e, t) /\ Floating(e, t) = {} /\ Filling(e, t) = Filling(f, t)
            /\ Tiling(e, t) = {v \in Workspace : t = f.master[v]}
        BY <2>4, <2>5, <3>1, Unlinked
      <4>4. Tiling(e, t) = {}
        BY <4>2, <4>3 DEF Tiling
      <4> QED BY <4>1, <4>2, <4>3, <4>4 DEF Place, Nowhere
    <3>2. CASE d.state[t] = "TILED" /\ e = Configure(a, d.home[t])
      <4>1. Kept(f, a, Listed) /\ Typed(a)
        BY <2>4, LayoutRemoveKept DEF Kept
      <4> HIDE DEF a
      <4>2. Kept(a, e, Listed)
        BY <3>2, <4>1, ConfigureKept, KeptWider DEF Listed
      <4>3. Quiet(a, e) /\ a.crashed = "none"
        BY <3>2, <4>1, ConfigureQuiet DEF Later
      <4>4. Around(f, a, t) /\ Place(a, t) = Nowhere
        BY <1>0, <2>4, <2>5, <3>2, <4>3, LayoutRemoved DEF a
      <4>5. Around(a, e, t) /\ Place(e, t) = Place(a, t)
        <5>1. Ordered(a)
          BY <4>4 DEF Around, Beside
        <5> QED BY <4>3, <5>1, QuietPlaces
      <4>6. Around(f, e, t)
        BY <4>4, <4>5, AroundTwice
      <4>7. Kept(f, e, Listed)
        BY <4>1, <4>2, KeptTwice
      <4> QED BY <4>4, <4>5, <4>6, <4>7
    <3> QED BY <2>3, <3>1, <3>2
  <2>7. Around(d, e, t)
    BY <2>5, <2>6, AroundTwice
  <2>8. Kept(d, f, Moved \cup Refocused) /\ Kept(f, e, Moved \cup Refocused)
    BY <2>1, <2>6, KeptWider DEF FocusKept, Moved
  <2>9. Kept(d, e, Moved \cup Refocused)
    BY <2>8, KeptTwice
  <2>10. e.focused = f.focused /\ e.state = f.state /\ e.home = f.home /\ f.crashed = "none"
    BY <2>6 DEF Kept, But, Listed, Fields, Later
  <2>11. e.focused \in {None, d.focused} \/ (e.focused \in Toplevel /\ d.life[e.focused] = "mapped")
    BY <2>1, <2>10 DEF FocusTo
  <2> QED BY <2>2, <2>5, <2>6, <2>7, <2>9, <2>10, <2>11
<1>3. CASE d.state[t] = "FULLSCREEN"
  <2> DEFINE w == d.home[t]
             a == [d EXCEPT !.fullscreen[w] = None]
             b == [a EXCEPT !.focused = None]
  <2>1. e = a \/ e = OutputFocus(b, d.output[w])
    BY <1>1, <1>3 DEF LeaveFullscreen
  <2>2. Kept(d, a, {"fullscreen"})
    BY <1>0, FullscreenKept
  <2>3. /\ a.fullscreen = [d.fullscreen EXCEPT ![w] = None] /\ a.master = d.master
        /\ a.slaves = d.slaves /\ a.floats = d.floats /\ a.kinds = d.kinds /\ a.ghosts = d.ghosts
        /\ a.life = d.life /\ a.home = d.home /\ a.state = d.state /\ a.focused = d.focused
    BY <1>0 DEF Typed, Fields
  <2>4. Place(d, t) = Only("FULLSCREEN", w) /\ w \in Workspace
    BY <1>0, <1>3 DEF InPlace
  <2>5. Tiling(d, t) = {} /\ Floating(d, t) = {} /\ Filling(d, t) = {w}
    BY <2>4 DEF Place, Only
  <2>6. d.fullscreen[w] = t
    BY <2>5 DEF Filling
  <2>7. b.focused = None /\ DOMAIN b = Fields /\ \A x \in Fields \ {"focused"} : b[x] = a[x]
    BY <2>2 DEF Kept, Typed, Fields
  <2> HIDE DEF w, b, a
  <2>8. /\ Around(d, a, t) /\ Tiling(a, t) = Tiling(d, t) /\ Floating(a, t) = Floating(d, t)
        /\ Filling(a, t) = Filling(d, t) \ {w}
    BY <1>0, <2>3, <2>4, <2>6, Filled
  <2>9. Place(a, t) = Nowhere
    BY <2>5, <2>8 DEF Place, Nowhere
  <2>10. Kept(d, a, Moved \cup Refocused) /\ Typed(a)
    BY <2>2, KeptWider DEF Kept, Moved, Listed
  <2>11. d.kinds \cap {"direction", "move to"} = {}
    <3>1. "fullscreen" \in d.kinds
      BY <1>3 DEF Calm, Neat, NoFullscreen
    <3> QED BY <3>1 DEF Calm, Ordinary
  <2>12. CASE e = a
    BY <2>3, <2>8, <2>9, <2>10, <2>11, <2>12
  <2>13. CASE e = OutputFocus(b, d.output[w])
    <3>1. Kept(a, b, Refocused) /\ Quiet(a, b)
      <4>1. But(a, b, Refocused) /\ Later(a, b)
        BY <2>7 DEF But, Later, Fields, Refocused
      <4>2. /\ b.active = a.active /\ b.act = a.act /\ b.due = a.due
            /\ b.layer = a.layer /\ b.exclusive = a.exclusive
        BY <2>7 DEF Fields
      <4>3. /\ b.active \in Workspace /\ b.act \in [Output -> Workspace \cup {None}]
            /\ \A o \in a.plugged : b.act[o] # None
            /\ b.layer \in Layer \cup {None} /\ b.exclusive \in BOOLEAN /\ b.due \in BOOLEAN
            /\ b.focused \in Toplevel \cup {None}
        BY <2>7, <2>10, <4>2 DEF Typed, SpaceTypes, FocusTypes, WindowTypes
      <4>4. Typed(b)
        BY <2>10, <4>1, <4>3, RefocusTyped
      <4>5. Quiet(a, b)
        BY <2>7 DEF Quiet, Fields
      <4> QED BY <4>1, <4>4, <4>5 DEF Kept
    <3>2. Typed(b) /\ b.life = d.life
      BY <2>3, <3>1 DEF Kept, Quiet
    <3>3. ASSUME NEW v \in Workspace, TopMost(b, v) # None
          PROVE  TopMost(b, v) \in Toplevel /\ b.life[TopMost(b, v)] = "mapped"
      <4>1. b.floats = d.floats /\ b.master = d.master /\ b.fullscreen = a.fullscreen
        BY <2>3, <2>7 DEF Fields
      <4>2. a.fullscreen[v] \in {None, d.fullscreen[v]}
        BY <1>0, <2>3 DEF Typed, ListTypes
      <4>3. d.floats[v] # <<>> => Head(d.floats[v]) \in ToSet(d.floats[v])
        BY <1>0, WindowsOf, Ends
      <4>4. TopMost(b, v) \in ToSet(d.slaves[v]) \cup ToSet(d.floats[v]) \cup ({d.master[v], d.fullscreen[v]} \ {None})
        BY <3>3, <4>1, <4>2, <4>3 DEF TopMost
      <4> QED BY <3>2, <4>4, ListedIsMapped
    <3>4. FocusTo(b, e)
      BY <2>13, <3>2, <3>3, OutputFocusedIf
    <3>5. Quiet(b, e) /\ Kept(b, e, Refocused)
      BY <3>4, FocusQuiet DEF FocusTo, FocusKept
    <3>6. Quiet(a, e) /\ Ordered(a)
      BY <2>8, <3>1, <3>5, QuietTwice DEF Around, Beside
    <3>7. Around(a, e, t) /\ Place(e, t) = Nowhere
      BY <2>9, <3>6, QuietPlaces
    <3>8. Around(d, e, t)
      BY <2>8, <3>7, AroundTwice
    <3>9. Kept(a, e, Moved \cup Refocused)
      BY <3>1, <3>5, KeptTwice, KeptWider
    <3>10. Kept(d, e, Moved \cup Refocused)
      BY <2>10, <3>9, KeptTwice
    <3>11. e.focused \in {None, d.focused} \/ (e.focused \in Toplevel /\ d.life[e.focused] = "mapped")
      BY <2>7, <3>2, <3>4 DEF FocusTo
    <3> QED BY <2>3, <2>11, <3>6, <3>7, <3>8, <3>10, <3>11 DEF Quiet
  <2> QED BY <2>1, <2>12, <2>13
<1> QED BY <1>2, <1>3

LEMMA UnmapNeat ==
  ASSUME Calm(desk), PanelsStay(desk), NEW t \in Toplevel, Unmap(t), desk'.crashed = "none"
  PROVE  Neat(desk')
<1>0. /\ Typed(desk) /\ desk.life[t] = "mapped" /\ t # desk.pointer /\ t # desk.grabbed
      /\ HandsOn(desk)
  BY NoneIsNoName DEF Calm, Ordinary, Unmap, Neat, Pointing, PanelsStay, HandsOn
<1>1. PICK d \in Left(desk, t) : desk' = [AddGhost(d, t) EXCEPT !.life[t] = "unmapped"]
  BY DEF Unmap, Unmapped
<1>2. OpKept(desk, d) /\ Typed(d)
  BY <1>0, LeftKept DEF OpKept, Kept
<1> DEFINE a == AddGhost(d, t)
           e == [a EXCEPT !.life[t] = "unmapped"]
<1>3. Fail(d, "linked twice").crashed # "none" /\ DOMAIN Fail(d, "linked twice") = Fields
  BY <1>2, Fails DEF Kept, But
<1>4. ~Linked(d, t)
  BY <1>1, <1>3 DEF AddGhost, Fields
<1>5. a = [d EXCEPT !.ghosts = @ \cup {t}, !.fresh = @ \ {t}, !.due = TRUE]
  BY <1>4 DEF AddGhost
<1>6. /\ SameLists(d, e) /\ e.kinds = d.kinds /\ e.ghosts = d.ghosts \cup {t}
      /\ e.home = d.home /\ e.state = d.state
      /\ e.grabbed = d.grabbed /\ e.pointer = d.pointer /\ e.focused = d.focused
      /\ e.shown = d.shown /\ e.life = [d.life EXCEPT ![t] = "unmapped"] /\ e.crashed = d.crashed
  BY <1>2, <1>5 DEF SameLists, Typed, Fields
<1>7. desk' = e
  BY <1>1
<1> HIDE DEF a, e
<1>8. d.crashed = "none"
  BY <1>6, <1>7
<1>9. /\ Kept(desk, d, Moved \cup Refocused) /\ Around(desk, d, t) /\ Place(d, t) = Nowhere
      /\ d.kinds \cap {"direction", "move to"} # {} => d.focused # t
      /\ d.state = desk.state
  <2>1. desk.kinds = d.kinds
    BY <1>2 DEF OpKept, Kept, But, Operated, Moved, Listed, Refocused, Fields
  <2>2. Kept(desk, d, Moved \cup Refocused) /\ Around(desk, d, t) /\ Place(d, t) = Nowhere
    BY <1>0, <1>8, LeftPlaces
  <2>3. /\ desk.kinds \cap {"direction", "move to"} # {} => d.focused # t
        /\ d.state = desk.state
    BY <1>0, <1>8, LeftPlaces
  <2> QED BY <2>1, <2>2, <2>3
<1>10. d.focused \in {None, desk.focused} \/ (d.focused \in Toplevel /\ desk.life[d.focused] = "mapped")
  BY <1>0, <1>8, LeftPlaces
<1>11. /\ d.grabbed = desk.grabbed /\ d.pointer = desk.pointer /\ d.shown = desk.shown
       /\ d.life = desk.life
  BY <1>9 DEF Kept, But, Moved, Listed, Refocused, Fields
<1>12. e.life[t] = "unmapped" /\ \A u \in Toplevel \ {t} : e.life[u] = d.life[u]
  BY <1>2, <1>6 DEF Typed, WindowTypes
<1>13. Ordered(d)
  BY <1>9 DEF Around, Beside
<1>14. Beside(d, e, t) /\ Place(e, t) = Nowhere
  <2>1. \A u \in Toplevel \ {t} : /\ e.home[u] = d.home[u] /\ e.state[u] = d.state[u]
                                   /\ e.life[u] = d.life[u] /\ (u \in e.ghosts => u \in d.ghosts)
    BY <1>6, <1>12
  <2>2. SameLists(d, e) /\ e.kinds = d.kinds
    BY <1>6
  <2>3. Beside(d, e, t) /\ Place(e, t) = Place(d, t)
    BY <1>13, <2>1, <2>2, RelabelledBeside
  <2> QED BY <1>9, <2>3
<1>15. Beside(desk, e, t)
  BY <1>9, <1>14, BesideTwice DEF Around
<1>16. IsAt(e, t, desk.grabbed)
  BY <1>12, <1>14 DEF IsAt
<1>17. /\ e.grabbed = desk.grabbed /\ e.pointer = desk.pointer /\ e.shown \subseteq desk.shown
       /\ t # desk.pointer /\ t # desk.grabbed
  BY <1>0, <1>6, <1>11
<1>18. e.focused \in {None, desk.focused} \/ (e.focused \in Toplevel /\ desk.life[e.focused] = "mapped")
  BY <1>6, <1>10
<1>19. "fullscreen" \notin desk.kinds => e.state[t] # "FULLSCREEN"
  BY <1>6, <1>9 DEF Calm, Neat, NoFullscreen
<1>20. desk.kinds \cap {"direction", "move to"} = {} \/ t # e.focused
  BY <1>6, <1>9 DEF Around, Beside
<1>21. Neat(e)
  BY <1>12, <1>15, <1>16, <1>17, <1>18, <1>19, <1>20, BesideNeat
<1> QED BY <1>7, <1>21

-----------------------------------------------------------------------------
(* What the user and the clients ask for.                                    *)

LEMMA FullscreenNeat ==
  ASSUME Calm(desk), NEW t \in Toplevel, NEW full \in BOOLEAN, RequestFullscreen(t, full),
         desk'.crashed = "none"
  PROVE  Neat(desk')
<1> DEFINE st == IF full THEN "FULLSCREEN" ELSE desk.prev_state[t]
<1>1. st \in State /\ desk' = SetState(desk, t, st) /\ "fullscreen" \in desk.kinds
  BY DEF RequestFullscreen, Happens, Calm, Typed, WindowTypes, State
<1> HIDE DEF st
<1>2. ASSUME NEW e, e = SetState(desk, t, st), e.crashed = "none" PROVE Neat(e)
  BY <1>1, <1>2, StateCalm DEF Calm
<1> QED BY <1>1, <1>2

LEMMA RequestGrabNeat ==
  ASSUME Calm(desk), NEW t \in Toplevel, RequestGrab(t), desk'.crashed = "none"
  PROVE  Neat(desk')
<1>1. /\ desk' \in {StartMove(desk, t, FALSE), StartResize(desk, t, FALSE)}
      /\ desk.pointer = t /\ desk.kinds \cap Grabbing # {}
  BY DEF RequestGrab, Happens, Grabbing
<1> QED BY <1>1, Started

LEMMA ToggleNeat ==
  ASSUME Calm(desk), UserTogglesFloat \/ UserTogglesFullscreen, desk'.crashed = "none"
  PROVE  Neat(desk')
<1> DEFINE t == desk.focused
           g == Deref(desk, t)
<1>0. Typed(desk)
  BY DEF Calm
<1>1. Calm(g) /\ Kept(desk, g, {"crashed"})
  BY <1>0, DerefFocused, DerefKept, FocusCalm
<1>2. g.state = desk.state /\ g.grabbed = desk.grabbed /\ g.kinds = desk.kinds
  BY <1>1 DEF Kept, But, Fields
<1>3. ASSUME NEW u \in Toplevel, NEW st \in State, NEW e, e = SetState(g, u, st),
             e.crashed = "none", "fullscreen" \notin desk.kinds => st # "FULLSCREEN"
      PROVE  Neat(e)
  BY <1>1, <1>2, <1>3, StateCalm DEF Calm
<1>4. CASE UserTogglesFloat
  <2>1. desk' = ToggleFloat(desk)
    BY <1>4 DEF UserTogglesFloat
  <2>2. CASE t = None
    BY <2>1, <2>2 DEF ToggleFloat, Calm
  <2>3. CASE t # None /\ t = desk.grabbed
    <3> DEFINE e == [g EXCEPT !.state[t] = Flipped(g.state[t])]
    <3>1. desk' = e
      BY <2>1, <2>3 DEF ToggleFloat
    <3>2. t \in Toplevel /\ desk.state[t] \in {"TILED", "FLOAT"}
      BY <1>0, <2>3 DEF Typed, FocusTypes, WindowTypes, State, Calm, Neat, Pointing
    <3>3. Flipped(g.state[t]) \in {"TILED", "FLOAT"}
      BY <1>2, <3>2 DEF Flipped
    <3> HIDE DEF g
    <3>4. Kept(g, e, {"state"}) /\ SameLists(g, e) /\ e.state[t] = Flipped(g.state[t])
          /\ e.home = g.home /\ e.kinds = g.kinds /\ e.life = g.life /\ e.ghosts = g.ghosts
          /\ \A u \in Toplevel \ {t} : e.state[u] = g.state[u]
      <4>1. Typed(g)
        BY <1>1 DEF Calm
      <4>2. Flipped(g.state[t]) \in State
        BY <3>3 DEF State
      <4>3. Kept(g, e, {"state"})
        BY <3>2, <4>1, <4>2, StateKept
      <4> QED BY <3>2, <4>1, <4>3 DEF SameLists, Typed, WindowTypes, Fields
    <3> HIDE DEF t, e
    <3>5. Around(g, e, t) /\ Place(e, t) = Place(g, t)
      BY <1>1, <3>4, Relabelled DEF Calm, Neat, Tidy
    <3>6. IsAt(e, t, g.grabbed)
      BY <1>1, <1>2, <2>3, <3>2, <3>4, <3>5 DEF Calm, Neat, Tidy, IsAt
    <3>7. Kept(g, e, Moved)
      BY <3>4, KeptWider DEF Moved
    <3>8. Calm(e)
      BY <1>1, <3>2, <3>3, <3>4, <3>5, <3>6, <3>7, MovedNeat
    <3> QED BY <3>1, <3>8 DEF Calm
  <2>4. CASE t # None /\ t # desk.grabbed
    <3>1. desk' = SetState(g, t, Flipped(desk.state[t])) /\ t \in Toplevel
      BY <1>0, <2>1, <2>4 DEF ToggleFloat, Typed, FocusTypes
    <3>2. /\ Flipped(desk.state[t]) \in State
          /\ "fullscreen" \notin desk.kinds => Flipped(desk.state[t]) # "FULLSCREEN"
      BY <1>0, <3>1 DEF Typed, WindowTypes, State, Flipped, Calm, Neat, NoFullscreen
    <3> HIDE DEF g, t
    <3> QED BY <1>3, <3>1, <3>2
  <2> QED BY <2>2, <2>3, <2>4
<1>5. CASE UserTogglesFullscreen
  <2> DEFINE st == IF desk.state[t] # "FULLSCREEN" THEN "FULLSCREEN" ELSE desk.prev_state[t]
  <2>1. t \in Toplevel /\ desk' = SetState(g, t, st) /\ "fullscreen" \in desk.kinds
    BY <1>0, <1>5 DEF UserTogglesFullscreen, Happens, Typed, FocusTypes
  <2>2. st \in State
    BY <1>0, <2>1 DEF Typed, WindowTypes, State
  <2> HIDE DEF g, t, st
  <2> QED BY <1>3, <2>1, <2>2
<1> QED BY <1>4, <1>5

(* A neighbour is in the same layout.                                        *)
LEMMA NeighbourThere ==
  ASSUME Typed(desk), NEW t \in Toplevel, desk.home[t] \in Workspace, NEW direction \in Direction,
         NEW n, n = InLayout(t, direction), n # None
  PROVE  n \in Toplevel /\ desk.home[t] \in Tiling(desk, n) /\ desk.state[t] = "TILED"
<1> DEFINE w == desk.home[t]
           s == desk.slaves[w]
           i == IndexOf(s, t)
<1>1. n \in Toplevel
  BY NeighbourTyped
<1>2. desk.state[t] = "TILED"
  BY DEF InLayout
<1>3. s \in Seq(Toplevel) /\ i \in 0 .. Len(s)
  BY IndexIs DEF Typed, ListTypes
<1>4. n \in {LastOrNone(s), desk.master[w]} \cup (IF i > 1 THEN {s[i - 1]} ELSE {})
              \cup (IF i < Len(s) THEN {s[i + 1]} ELSE {})
  BY <1>2 DEF InLayout, InDirection, Direction
<1> HIDE DEF s, i
<1>5. n = LastOrNone(s) => n \in ToSet(s)
  <2>1. n = LastOrNone(s) => s # <<>> /\ n = Last(s)
    BY DEF LastOrNone
  <2>2. s # <<>> => Last(s) \in ToSet(s)
    <3>1. s \in Seq(Toplevel)
      BY <1>3
    <3> QED BY <3>1, Ends
  <2> QED BY <2>1, <2>2
<1>6. n \in ToSet(s) \cup {desk.master[w]}
  <2>1. (i > 1 /\ n = s[i - 1]) \/ (i < Len(s) /\ n = s[i + 1]) => n \in ToSet(s)
    BY <1>3 DEF ToSet
  <2> QED BY <1>4, <1>5, <2>1
<1> QED BY <1>1, <1>2, <1>6 DEF Tiling, s

LEMMA SoundCalm ==
  ASSUME Calm(desk), NEW t \in Toplevel \cup {None}, NEW direction
  PROVE  LET d == Sound(desk, t, direction) IN
         Calm(d) /\ Still(desk, d) /\ (d.crashed = "none" /\ t # None => desk.home[t] \in Workspace)
<1> DEFINE d == Sound(desk, t, direction)
<1>1. Kept(desk, d, {"crashed"}) /\ (d.crashed = "none" /\ t # None => desk.home[t] \in Workspace)
  BY SoundKept DEF Calm
<1> HIDE DEF d
<1>2. Typed(d) /\ Still(desk, d)
  BY <1>1 DEF Kept, But, Fields, Still, Quiet
<1>3. Calm(d)
  BY <1>2, StillCalm
<1> QED BY <1>1, <1>2, <1>3 DEF d

LEMMA FocusDirectionNeat ==
  ASSUME Calm(desk), NEW direction \in Direction, NEW o, FocusInDirection(direction, o),
         desk'.crashed = "none"
  PROVE  Neat(desk')
<1> DEFINE t == desk.focused
           d == Sound(desk, t, direction)
           next == InLayout(t, direction)
<1>1. t \in Toplevel \cup {None} /\ Typed(desk)
  BY DEF Calm, Typed, FocusTypes
<1>2. Calm(d) /\ Still(desk, d) /\ (d.crashed = "none" /\ t # None => desk.home[t] \in Workspace)
  BY <1>1, SoundCalm
<1>3. desk' = IF d.crashed # "none" THEN d
              ELSE IF next # None THEN ToplevelFocus(d, next)
              ELSE IF o # None THEN OutputFocus(d, o) ELSE d
  BY DEF FocusInDirection
<1> HIDE DEF d
<1>4. ASSUME d.crashed = "none", next # None
      PROVE  next \in Toplevel /\ d.life[next] = "mapped"
  <2>1. t # None
    BY <1>4 DEF InLayout
  <2>2. next \in Toplevel /\ desk.home[t] \in Tiling(desk, next) /\ next # None
    BY <1>1, <1>2, <1>4, <2>1, NeighbourThere
  <2>3. next \in ToSet(desk.slaves[desk.home[t]]) \cup {desk.master[desk.home[t]]}
    BY <2>2 DEF Tiling
  <2>4. desk.life[next] = "mapped"
    <3> HIDE DEF next
    <3> QED BY <1>2, <1>4, <2>1, <2>2, <2>3, ListedIsMapped
  <2> QED BY <1>2, <2>2, <2>4 DEF Still, Quiet
<1> HIDE DEF next
<1>5. d.crashed = "none" /\ next # None => FocusTo(d, ToplevelFocus(d, next))
  BY <1>2, <1>4, ToplevelFocused DEF Calm
<1>6. FocusTo(d, OutputFocus(d, o))
  BY <1>2, OutputFocused
<1>7. \A e : FocusTo(d, e) => Neat(e)
  BY <1>2, FocusCalm DEF Calm
<1> QED BY <1>2, <1>3, <1>5, <1>6, <1>7 DEF Calm

LEMMA MoveDirectionNeat ==
  ASSUME Calm(desk), NEW direction \in Direction, NEW o, MoveInDirection(direction, o),
         desk'.crashed = "none"
  PROVE  Neat(desk')
<1> DEFINE t == desk.focused
           d == Sound(desk, t, direction)
           next == InLayout(t, direction)
           swapped == SwapLayout(d, t, next)
<1>1. /\ t \in Toplevel /\ Typed(desk) /\ t # desk.grabbed /\ "direction" \in desk.kinds /\ t # None
      /\ desk.life[t] = "mapped"
  BY NoneIsNoName DEF Calm, Typed, FocusTypes, MoveInDirection, Happens, Neat, FocusIsMapped
<1>2. Calm(d) /\ Still(desk, d) /\ (d.crashed = "none" => desk.home[t] \in Workspace)
  BY <1>1, SoundCalm
<1>3. desk' = IF d.crashed # "none" THEN d
              ELSE IF next # None THEN Configure(swapped, d.home[t])
              ELSE IF o # None THEN MoveToWorkspace(d, t, d.act[o]) ELSE d
  BY DEF MoveInDirection
<1>4. d.crashed = "none" /\ o # None => o \in desk.plugged
  BY DEF MoveInDirection, Across
<1>5. d.crashed = "none" /\ d.plugged = desk.plugged
  <2>1. Kept(desk, d, {"crashed"})
    BY <1>1, SoundKept
  <2> HIDE DEF d
  <2> QED BY <1>3, <2>1 DEF Kept, But, Fields
<1>6. next # None => next \in Toplevel /\ desk.home[t] \in Tiling(desk, next) /\ desk.state[t] = "TILED"
  BY <1>1, <1>2, <1>5, NeighbourThere
<1> HIDE DEF d, next
<1>7. /\ Typed(d) /\ Ordered(d) /\ IsAt(d, t, d.grabbed) /\ InPlace(d, t) /\ d.home[t] \in Workspace
      /\ d.home = desk.home /\ d.state = desk.state /\ d.life[t] = "mapped"
      /\ d.kinds \cap Grabbing = {} /\ "fullscreen" \notin d.kinds /\ d.state[t] # "FULLSCREEN"
  BY <1>1, <1>2 DEF Calm, Neat, Tidy, IsAt, Still, Quiet, Ordinary, NoFullscreen
<1> HIDE DEF t
<1>8. CASE next # None
  <2> DEFINE w == d.home[t]
  <2>1. w \in Tiling(d, t) /\ w \in Tiling(d, next)
    <3>1. Place(d, t) = Only("TILED", w)
      BY <1>6, <1>7, <1>8 DEF InPlace
    <3>2. Tiling(d, t) = {w}
      BY <3>1 DEF Place, Only
    <3>3. d.slaves = desk.slaves /\ d.master = desk.master
      BY <1>2 DEF Still, Quiet
    <3> QED BY <1>6, <1>7, <1>8, <3>2, <3>3 DEF Tiling
  <2>2. Around(d, swapped, t) /\ Place(swapped, t) = Place(d, t)
    BY <1>1, <1>6, <1>7, <1>8, <2>1, SwappedPlaces
  <2>3. Kept(d, swapped, Moved) /\ Typed(swapped)
    BY <1>1, <1>6, <1>7, <1>8, SwapLayoutKept, KeptWider DEF Moved, Listed, Kept
  <2> HIDE DEF swapped
  <2>4. Kept(swapped, desk', Moved) /\ Quiet(swapped, desk')
    BY <1>3, <1>5, <1>8, <2>3, ConfigureKept, ConfigureQuiet, KeptWider DEF Moved, Listed
  <2>5. Kept(d, desk', Moved)
    BY <2>3, <2>4, KeptTwice
  <2>6. Ordered(swapped)
    BY <2>2 DEF Around, Beside
  <2>7. Around(swapped, desk', t) /\ Place(desk', t) = Place(swapped, t)
    BY <2>4, <2>6, QuietPlaces
  <2>8. Around(d, desk', t) /\ Place(desk', t) = Place(d, t)
    BY <2>2, <2>7, AroundTwice
  <2>9. /\ swapped.home = d.home /\ swapped.state = d.state /\ swapped.life = d.life
        /\ swapped.ghosts = d.ghosts /\ swapped.kinds = d.kinds
    <3>1. Kept(d, swapped, {"master", "slaves"})
      BY <1>1, <1>6, <1>7, <1>8, SwapLayoutKept DEF swapped
    <3> QED BY <3>1 DEF Kept, But, Fields
  <2>10. /\ desk'.home = d.home /\ desk'.state = d.state /\ desk'.life = d.life
         /\ desk'.ghosts = d.ghosts /\ desk'.kinds = d.kinds
    BY <2>4, <2>9 DEF Quiet
  <2>11. IsAt(desk', t, d.grabbed)
    BY <1>7, <2>8, <2>10 DEF IsAt, InPlace
  <2>12. ASSUME NEW e, e = desk' PROVE Calm(e)
    BY <1>1, <1>2, <1>7, <2>5, <2>8, <2>10, <2>11, <2>12, MovedNeat
  <2> QED BY <2>12 DEF Calm
<1>9. CASE next = None /\ o # None
  <2> DEFINE w == d.act[o]
             e == MoveToWorkspace(d, t, w)
  <2>1. desk' = e /\ w \in Workspace
    BY <1>3, <1>4, <1>5, <1>7, <1>9, ActiveTyped
  <2> HIDE DEF w
  <2>2. e.crashed = "none"
    BY <2>1
  <2>3. Around(d, e, t) /\ IsAt(e, t, d.grabbed) /\ e.state = d.state
    BY <1>1, <1>7, <2>1, <2>2, MovedToWorkspace
  <2>4. Kept(d, e, Moved)
    BY <1>1, <1>7, <2>1, MoveToWorkspaceKept
  <2> HIDE DEF e
  <2>5. Calm(e)
    BY <1>1, <1>2, <1>7, <2>3, <2>4, MovedNeat
  <2> QED BY <2>1, <2>5 DEF Calm
<1>10. CASE next = None /\ o = None
  BY <1>2, <1>3, <1>5, <1>10 DEF Calm
<1> QED BY <1>8, <1>9, <1>10

LEMMA SetActiveAlive ==
  ASSUME NEW d, Typed(d), NEW w \in Workspace, SetActive(d, w).crashed = "none"
  PROVE  d.crashed = "none"
BY SetActiveKept DEF FocusKept, Kept, Later

(* What ended before a command to a workspace left everything in its place.  *)
LEMMA StopFoundCalm ==
  ASSUME Calm(desk), NEW w, NEW d \in StopWhatever(Found(desk, w)), d.crashed = "none"
  PROVE  Calm(d) /\ d.kinds = desk.kinds
<1>1. Calm(Found(desk, w))
  BY FoundCalm
<1>2. d.kinds = desk.kinds
  BY StopFoundKept DEF Stepped, Calm
<1> QED BY <1>1, <1>2, StoppedCalm

LEMMA WorkspaceNeat ==
  ASSUME Calm(desk), NEW w \in Workspace,
         ChangeWorkspace(w) \/ MoveFocusedToWorkspace(w) \/ RemoteActivate(w), desk'.crashed = "none"
  PROVE  Neat(desk')
<1>0. Typed(desk)
  BY DEF Calm
<1>1. CASE ChangeWorkspace(w)
  <2>1. PICK d \in StopWhatever(Found(desk, w)) : desk' = SetActive(d, w)
    BY <1>1 DEF ChangeWorkspace
  <2>2. Typed(d)
    BY <1>0, StopFoundKept
  <2>3. d.crashed = "none"
    BY <2>1, <2>2, SetActiveAlive
  <2>4. Calm(d)
    BY <2>3, StopFoundCalm
  <2>5. FocusTo(d, SetActive(d, w))
    BY <2>4, ActiveSet
  <2>6. Calm(SetActive(d, w))
    BY <2>4, <2>5, FocusCalm
  <2> QED BY <2>1, <2>6 DEF Calm
<1>2. CASE MoveFocusedToWorkspace(w)
  <2> DEFINE t == desk.focused
             g == Deref(desk, t)
             f == Found(g, w)
             d == MoveToWorkspace(f, t, w)
  <2>1. desk' \in {SetActiveKeepingFocus(d, w), SetActive(d, w)}
    BY <1>2 DEF MoveFocusedToWorkspace
  <2>2. t \in Toplevel /\ t # None /\ desk.life[t] = "mapped" /\ "move to" \in desk.kinds
    BY <1>0, <1>2, NoneIsNoName DEF MoveFocusedToWorkspace, Happens, Typed, FocusTypes, Calm, Neat, FocusIsMapped
  <2>3. Calm(g) /\ g.life = desk.life /\ g.kinds = desk.kinds
    BY <1>0, DerefFocused, FocusCalm, FocusQuiet DEF FocusTo, Quiet
  <2> HIDE DEF t, g
  <2>4. Calm(f) /\ Kept(g, f, Moved)
    BY <2>3, FoundCalm, FoundKept DEF Calm
  <2>5. f.life = desk.life /\ f.kinds = desk.kinds
    BY <2>3, <2>4 DEF Kept, But, Moved, Listed, Fields
  <2> HIDE DEF f
  <2>6. Kept(f, d, Moved) /\ Typed(d)
    BY <2>2, <2>4, MoveToWorkspaceKept DEF Kept, Calm
  <2>7. /\ Typed(f) /\ Ordered(f) /\ IsAt(f, t, f.grabbed) /\ "fullscreen" \notin f.kinds
        /\ f.state[t] # "FULLSCREEN" /\ f.life[t] = "mapped"
    BY <2>2, <2>4, <2>5 DEF Calm, Neat, Tidy, Ordinary, NoFullscreen
  <2>8. FocusKept(d, SetActive(d, w)) /\ FocusKept(d, SetActiveKeepingFocus(d, w))
    BY <2>6, SetActiveKept, SetActiveKeepingFocusKept
  <2> HIDE DEF d
  <2>9. d.crashed = "none"
    BY <2>1, <2>8 DEF FocusKept, Kept, Later
  <2>10. Around(f, d, t) /\ IsAt(d, t, f.grabbed) /\ d.state = f.state
    BY <2>2, <2>7, <2>9, MovedToWorkspace DEF d
  <2>11. Calm(d)
    BY <2>2, <2>4, <2>6, <2>7, <2>10, MovedNeat
  <2>12. FocusTo(d, SetActive(d, w)) /\ FocusTo(d, SetActiveKeepingFocus(d, w))
    BY <2>6, <2>11, ActiveSet, ActiveFocused
  <2>13. Calm(SetActive(d, w)) /\ Calm(SetActiveKeepingFocus(d, w))
    BY <2>11, <2>12, FocusCalm
  <2> QED BY <2>1, <2>13 DEF Calm
<1>3. CASE RemoteActivate(w)
  <2>1. desk' = SetActive(desk, w)
    BY <1>3 DEF RemoteActivate
  <2>2. Calm(SetActive(desk, w))
    BY ActiveSet, FocusCalm
  <2> QED BY <2>1, <2>2 DEF Calm
<1> QED BY <1>1, <1>2, <1>3

LEMMA WorkspacesNeat ==
  ASSUME Calm(desk), NEW w \in Workspace, desk'.crashed = "none",
         \/ \E o \in Output : CreateWorkspace(o, w) \/ RemoteCreate(o, w)
         \/ \E n \in Workspace : DestroyWorkspace(w, n) \/ RemoteRemove(w, n)
  PROVE  Neat(desk')
<1>0. Typed(desk)
  BY DEF Calm
<1>1. ASSUME NEW o \in Output, CreateWorkspace(o, w) \/ RemoteCreate(o, w)
      PROVE  Neat(desk')
  <2>1. o \in ToSet(desk.outputs) /\ desk' = WorkspaceCreate(desk, o, w)
    BY <1>0, <1>1 DEF CreateWorkspace, RemoteCreate, Typed, SpaceTypes
  <2> QED BY <2>1, CreatedCalm DEF Calm
<1>2. ASSUME NEW n \in Workspace, DestroyWorkspace(w, n)
      PROVE  Neat(desk')
  <2>1. PICK d \in StopWhatever(Found(desk, w)) : desk' = WorkspaceDestroy(d, w, n)
    BY <1>2 DEF DestroyWorkspace
  <2>2. Typed(d) /\ d.output[w] # None /\ "destroy" \in desk.kinds
    BY <1>0, <1>2, StopFoundKept DEF DestroyWorkspace, Happens, Exists
  <2> DEFINE e == WorkspaceDestroy(d, w, n)
  <2>3. d.crashed = "none"
    <3>1. Later(d, e)
      BY <2>2, WorkspaceDestroyKept DEF SpaceKept, Kept
    <3> QED BY <2>1, <3>1 DEF Later
  <2>4. Calm(d) /\ d.kinds = desk.kinds
    BY <2>3, StopFoundCalm
  <2>5. "fullscreen" \notin d.kinds
    BY <2>2, <2>4 DEF Calm, Ordinary
  <2>6. e.crashed = "none"
    BY <2>1
  <2>7. Calm(e)
    BY <2>2, <2>4, <2>5, <2>6, DestroyedCalm
  <2> QED BY <2>1, <2>7 DEF Calm
<1>3. ASSUME NEW n \in Workspace, RemoteRemove(w, n)
      PROVE  Neat(desk')
  <2> DEFINE e == WorkspaceDestroy(desk, w, n)
  <2>1. desk' = e /\ desk.output[w] # None /\ "remote" \in desk.kinds
    BY <1>3 DEF RemoteRemove, Happens, Exists
  <2>2. "fullscreen" \notin desk.kinds
    BY <2>1 DEF Calm, Ordinary
  <2>3. e.crashed = "none"
    BY <2>1
  <2>4. Calm(e)
    BY <2>1, <2>2, <2>3, DestroyedCalm
  <2> QED BY <2>1, <2>4 DEF Calm
<1> QED BY <1>1, <1>2, <1>3

-----------------------------------------------------------------------------
(* Keys, buttons and the pointer.                                            *)

LEMMA HeldCalm ==
  ASSUME NEW d, Calm(d), NEW S \in SUBSET (Key \cup {"button"}), NEW e, e = Holds(d, S)
  PROVE  Calm(e) /\ e.crashed = d.crashed
<1>1. Typed(e) /\ e.crashed = d.crashed
  BY HeldKept DEF Calm
<1>2. Still(d, e)
  BY DEF Holds, Still, Quiet, Calm, Typed, Fields
<1> QED BY <1>1, <1>2, StillCalm

LEMMA CommandGrabNeat ==
  ASSUME Calm(desk), CommandGrab, desk'.crashed = "none" PROVE Neat(desk')
<1>1. desk' \in StartGrab(desk) /\ desk.kinds \cap Grabbing # {}
  BY DEF CommandGrab, Happens, Grabbing
<1> QED BY <1>1, GrabStarted

LEMMA KeyPressNeat ==
  ASSUME Calm(desk), NEW k \in Key, KeyPress(k), desk'.crashed = "none" PROVE Neat(desk')
<1>1. PICK d \in StartGrab(desk) : desk' = [d EXCEPT !.key = k, !.held = @ \cup {k}]
  BY DEF KeyPress
<1> DEFINE e == [d EXCEPT !.key = k, !.held = @ \cup {k}]
<1>2. desk.kinds \cap Grabbing # {}
  BY DEF KeyPress, Happens, Grabbing
<1>3. OpKept(desk, d) /\ Typed(d)
  BY StartGrabKept DEF Calm, OpKept, Kept
<1>4. Still(d, e) /\ e.crashed = d.crashed
  BY <1>3 DEF Still, Quiet, Typed, Fields
<1>5. desk' = e
  BY <1>1
<1> HIDE DEF e
<1>6. d.crashed = "none"
  BY <1>4, <1>5
<1>7. Neat(d)
  BY <1>2, <1>6, GrabStarted
<1>8. Neat(e)
  BY <1>4, <1>7, StillNeat DEF Still
<1> QED BY <1>5, <1>8

LEMMA KeyReleaseNeat ==
  ASSUME Calm(desk), NEW k \in Key, KeyRelease(k), desk'.crashed = "none" PROVE Neat(desk')
<1> DEFINE S == desk.held \ {k}
           d == Holds(desk, S)
<1>1. S \in SUBSET (Key \cup {"button"})
  BY DEF Calm, Typed, GrabTypes
<1>2. d = [desk EXCEPT !.held = @ \ {k}]
  BY DEF Holds
<1>3. Calm(d)
  <2> HIDE DEF S
  <2> QED BY <1>1, HeldCalm
<1>4. CASE desk.operation # "NONE" /\ desk.server_inited /\ desk.key = k
  <2>1. PICK f \in StopWhatever(d) : desk' = [f EXCEPT !.key = None]
    BY <1>2, <1>4 DEF KeyRelease
  <2> HIDE DEF d
  <2> DEFINE e == [f EXCEPT !.key = None]
  <2>2. Typed(f)
    BY <1>3, StopWhateverKept DEF Calm, OpKept, Kept
  <2>3. Still(f, e) /\ e.crashed = f.crashed
    BY <2>2 DEF Still, Quiet, Typed, Fields
  <2>4. desk' = e
    BY <2>1
  <2> HIDE DEF e
  <2>5. f.crashed = "none"
    BY <2>3, <2>4
  <2>6. Neat(f)
    BY <1>3, <2>5, StoppedCalm DEF Calm
  <2>7. Neat(e)
    BY <2>3, <2>6, StillNeat DEF Still
  <2> QED BY <2>4, <2>7
<1>5. CASE ~(desk.operation # "NONE" /\ desk.server_inited /\ desk.key = k)
  <2>1. desk' = d
    BY <1>2, <1>5 DEF KeyRelease
  <2> HIDE DEF d
  <2> QED BY <1>3, <2>1 DEF Calm
<1> QED BY <1>4, <1>5

LEMMA ButtonNeat ==
  ASSUME Calm(desk), Press \/ Release, desk'.crashed = "none" PROVE Neat(desk')
<1> DEFINE r == Raised(desk)
           down == r.held \cup {"button"}
           up == r.held \ {"button"}
           d == Holds(r, up)
           e == Holds(r, down)
<1>1. Kept(desk, r, Moved)
  BY RaisedKept DEF Calm
<1>2. /\ Press => desk' = e
      /\ Release => desk' \in IF desk.operation # "NONE" /\ desk.server_inited THEN StopWhatever(d)
                              ELSE IF desk.operation = "DRAG"
                              THEN CursorFocus([d EXCEPT !.operation = "NONE"], TRUE)
                              ELSE {d}
  BY DEF Press, Release, Holds
<1>3. r.crashed = "none" => Calm(r)
  BY RaisedCalm
<1> HIDE DEF r
<1>4. Typed(r) /\ r.operation = desk.operation
  BY <1>1, MovedSameGrab DEF Kept, SameGrab, Calm
<1>5. down \in SUBSET (Key \cup {"button"}) /\ up \in SUBSET (Key \cup {"button"})
  BY <1>4 DEF Typed, GrabTypes
<1>6. Typed(d) /\ d.crashed = r.crashed /\ d.operation = r.operation /\ Typed(e) /\ e.crashed = r.crashed
  <2> HIDE DEF up, down
  <2> QED BY <1>4, <1>5, HeldKept
<1>7. r.crashed = "none" => Calm(d) /\ Calm(e)
  <2> HIDE DEF up, down
  <2> QED BY <1>3, <1>5, HeldCalm
<1> HIDE DEF d, e
<1>8. CASE Press
  BY <1>2, <1>6, <1>7, <1>8 DEF Calm
<1>9. CASE Release
  <2>1. CASE desk.operation # "NONE" /\ desk.server_inited
    <3>1. desk' \in StopWhatever(d)
      BY <1>2, <1>9, <2>1
    <3>2. d.crashed = "none"
      BY <1>6, <3>1, StopWhateverKept DEF OpKept, Kept, Later
    <3> QED BY <1>6, <1>7, <3>1, <3>2, StoppedCalm DEF Calm
  <2>2. CASE ~(desk.operation # "NONE" /\ desk.server_inited) /\ desk.operation = "DRAG"
    <3> DEFINE f == [d EXCEPT !.operation = "NONE"]
    <3>1. desk' \in CursorFocus(f, TRUE)
      BY <1>2, <1>9, <2>2
    <3>2. But(d, f, {"operation", "grabbed", "server_inited", "pointer", "due"})
      BY <1>6 DEF But, Typed, Fields
    <3>3. /\ f.operation = "NONE" /\ f.grabbed = d.grabbed /\ f.server_inited = d.server_inited
          /\ f.pointer = d.pointer /\ f.due = d.due /\ Still(d, f) /\ f.crashed = d.crashed
      BY <1>6 DEF Typed, Fields, Still, Quiet
    <3> HIDE DEF f
    <3>4. /\ f.grabbed \in Toplevel \cup {None} /\ (f.grabbed # None <=> f.operation \in {"MOVE", "RESIZE"})
          /\ f.server_inited \in BOOLEAN /\ f.pointer \in Toplevel \cup Layer \cup {None}
          /\ f.due \in BOOLEAN
      BY <1>4, <1>6, <2>2, <3>3 DEF Typed, GrabTypes, WindowTypes
    <3>5. Typed(f)
      BY <1>6, <3>2, <3>3, <3>4, GrabKept DEF OpKept, Kept
    <3>6. d.crashed = "none"
      BY <3>1, <3>3, <3>5, CursorFocusKept DEF OpKept, Kept, Later
    <3>7. Calm(f)
      BY <1>6, <1>7, <3>3, <3>5, <3>6, StillCalm
    <3> QED BY <3>1, <3>7, CursorCalm DEF Calm
  <2>3. CASE ~(desk.operation # "NONE" /\ desk.server_inited) /\ desk.operation # "DRAG"
    BY <1>2, <1>6, <1>7, <1>9, <2>3 DEF Calm
  <2> QED BY <2>1, <2>2, <2>3
<1> QED BY <1>8, <1>9

LEMMA DragNeat ==
  ASSUME Calm(desk), NEW icon \in BOOLEAN, Drag(icon) PROVE Neat(desk')
<1> DEFINE e == [desk EXCEPT !.operation = "DRAG", !.icon = icon, !.pointer = None]
<1>1. desk' = e /\ desk.grabbed = None
  BY DEF Drag, StartDrag, Calm, Typed, GrabTypes
<1>2. /\ Quiet(desk, e) /\ e.grabbed = None /\ e.pointer = None /\ e.shown = desk.shown
      /\ e.focused = desk.focused
  BY <1>1 DEF Quiet, Calm, Typed, Fields
<1> HIDE DEF e
<1>3. Pointing(e)
  BY <1>2, NoneIsNoName DEF Calm, Neat, Pointing, Quiet
<1>4. Tidy(e, e.grabbed)
  BY <1>1, <1>2, QuietPlaces DEF Calm, Neat
<1>5. NoFullscreen(e) /\ FocusIsMapped(e)
  BY <1>2 DEF Calm, Neat, NoFullscreen, FocusIsMapped, Quiet
<1>6. Neat(e)
  BY <1>3, <1>4, <1>5 DEF Neat
<1> QED BY <1>1, <1>6

LEMMA MotionNeat ==
  ASSUME Calm(desk), NEW o \in Output, Motion(o), desk'.crashed = "none" PROVE Neat(desk')
<1> DEFINE w == desk.act[o]
           a == [desk EXCEPT !.cursor = o]
           d == [desk EXCEPT !.cursor = o, !.active = w]
           b == [a EXCEPT !.active = w]
<1>0. Typed(desk)
  BY DEF Calm
<1>1. w \in Workspace
  BY <1>0, ActiveTyped DEF Motion
<1>2. PICK e : desk' = Tick(e) /\ (e = d \/ e \in CursorFocus(d, TRUE))
  BY DEF Motion
<1>3. d = b
  BY <1>0 DEF Typed, Fields
<1>4. Typed(a)
  <2>1. But(desk, a, Inputs)
    BY <1>0 DEF But, Typed, Fields, Inputs
  <2>2. /\ a.operation = desk.operation /\ a.grabbed = desk.grabbed
        /\ a.server_inited = desk.server_inited /\ a.icon = desk.icon /\ a.key = desk.key
        /\ a.held = desk.held /\ a.cursor = o /\ a.pointer = desk.pointer /\ a.due = desk.due
    BY <1>0 DEF Typed, Fields
  <2> HIDE DEF a
  <2>3. GrabTypes(a) /\ a.due \in BOOLEAN
    BY <1>0, <2>2 DEF Typed, GrabTypes, WindowTypes
  <2> QED BY <1>0, <2>1, <2>3, InputTyped
<1>5. Still(desk, d)
  BY <1>0 DEF Still, Quiet, Typed, Fields
<1> HIDE DEF a, w
<1>6. Typed(b)
  BY <1>1, <1>4, ActiveKept DEF FocusKept, Kept
<1> HIDE DEF b, d
<1>7. Calm(d)
  BY <1>3, <1>5, <1>6, StillCalm
<1>8. Calm(e)
  BY <1>2, <1>7, CursorCalm
<1>9. Still(e, Tick(e))
  <2>1. Kept(e, Tick(e), {"due", "crashed"})
    <3>1. Typed(e) /\ e.operation \in {"NONE", "MOVE", "RESIZE", "DRAG"}
      BY <1>8 DEF Calm, Typed, GrabTypes
    <3>2. Tick(e) \in {e, [e EXCEPT !.due = TRUE], Fail(e, "no icon")}
      BY <3>1 DEF Tick
    <3>3. Kept(e, e, {"due", "crashed"}) /\ Kept(e, [e EXCEPT !.due = TRUE], {"due", "crashed"})
      BY <3>1, KeptSame, DueKept
    <3>4. Kept(e, Fail(e, "no icon"), {"due", "crashed"})
      BY <3>1, Fails, KeptWider
    <3> QED BY <3>2, <3>3, <3>4
  <2>2. Quiet(e, Tick(e)) /\ Tick(e).grabbed = e.grabbed /\ Tick(e).pointer = e.pointer
        /\ Tick(e).shown = e.shown
    <3>1. {"due", "crashed"} \cap (Placing \cup {"grabbed", "pointer", "shown"}) = {}
      BY DEF Placing
    <3> QED BY <2>1, <3>1, KeptStill
  <2>3. Tick(e).focused = e.focused
    BY <2>1 DEF Kept, But, Fields
  <2> QED BY <2>2, <2>3 DEF Still
<1>10. Neat(Tick(e))
  BY <1>8, <1>9, StillNeat DEF Still, Calm
<1> QED BY <1>2, <1>10

-----------------------------------------------------------------------------
(* Panels and transactions leave windows where they are.                     *)

LEMMA ArrangeStill ==
  ASSUME NEW d, Typed(d), NEW os
  PROVE  Still(d, ArrangeAll(d, os)) /\ Typed(ArrangeAll(d, os))
<1> DEFINE ws == UNION {ToSet(d.spaces[o]) : o \in os}
           broken == {w \in ws : Configure(d, w).crashed # d.crashed}
           due == d.due \/ \E w \in ws : d.master[w] # None
           e == [d EXCEPT !.due = due]
<1>0. Typed(ArrangeAll(d, os))
  BY ArrangeAllKept DEF Kept
<1>1. CASE broken # {}
  <2>1. PICK w : ArrangeAll(d, os) = Configure(d, w)
    BY <1>1 DEF ArrangeAll
  <2>2. Kept(d, Configure(d, w), {"due", "crashed"})
    BY ConfigureKept
  <2>3. {"due", "crashed"} \cap (Placing \cup {"grabbed", "pointer", "shown"}) = {}
    BY DEF Placing
  <2>4. /\ Quiet(d, Configure(d, w)) /\ Configure(d, w).grabbed = d.grabbed
        /\ Configure(d, w).pointer = d.pointer /\ Configure(d, w).shown = d.shown
    BY <2>2, <2>3, KeptStill
  <2>5. Configure(d, w).focused = d.focused
    BY <2>2 DEF Kept, But, Fields
  <2> QED BY <1>0, <2>1, <2>4, <2>5 DEF Still
<1>2. CASE broken = {}
  <2>1. ArrangeAll(d, os) = e
    BY <1>2 DEF ArrangeAll
  <2> HIDE DEF due
  <2>2. Still(d, e)
    BY DEF Still, Quiet, Typed, Fields
  <2> QED BY <1>0, <2>1, <2>2
<1> QED BY <1>1, <1>2

LEMMA FailStill == ASSUME NEW d, Typed(d), NEW why, why # "none" PROVE Still(d, Fail(d, why)) /\ Typed(Fail(d, why))
<1>1. Typed(Fail(d, why))
  BY FocusFails DEF FocusKept, Kept
<1>2. Still(d, Fail(d, why))
  BY DEF Still, Quiet, Fail, Typed, Fields
<1> QED BY <1>1, <1>2

LEMMA ArrangedCalm ==
  ASSUME NEW d, Calm(d), NEW o
  PROVE  Calm(Arrange(d, o)) /\ Still(d, Arrange(d, o))
<1>1. Typed(d)
  BY DEF Calm
<1>2. Still(d, Arrange(d, o)) /\ Typed(Arrange(d, o))
  BY <1>1, ArrangeStill, FailStill DEF Arrange
<1> QED BY <1>2, StillCalm

LEMMA RearrangeNeat ==
  ASSUME Calm(desk), Rearrange PROVE Neat(desk')
<1>1. Typed(desk)
  BY DEF Calm
<1>2. \E e : desk' = e /\ Still(desk, e) /\ Typed(e)
  BY <1>1, ArrangeStill, FailStill DEF Rearrange
<1> QED BY <1>2, StillCalm DEF Calm

LEMMA LayerCreateNeat ==
  ASSUME Calm(desk), NEW l \in Layer, NEW o \in Output, LayerCreate(l, o) PROVE Neat(desk')
<1> DEFINE e == [desk EXCEPT !.panel[l] = "created", !.on[l] = o]
<1>1. Still(desk, e)
  BY DEF Still, Quiet, Calm, Typed, Fields
<1>2. desk' = e
  BY DEF LayerCreate
<1> HIDE DEF e
<1> QED BY <1>1, <1>2, StillNeat DEF Still, Calm

LEMMA LayerMapNeat ==
  ASSUME Calm(desk), NEW l \in Layer, NEW want \in {"none", "on_demand", "exclusive"}, LayerMap(l, want)
  PROVE  Neat(desk')
<1> DEFINE o == desk.on[l]
<1>0. Typed(desk)
  BY DEF Calm
<1>1. CASE o \notin desk.plugged
  <2>1. desk' = Fail(desk, "freed output")
    BY <1>1 DEF LayerMap
  <2> QED BY <1>0, <2>1, FailStill, StillCalm DEF Calm
<1>2. CASE o \in desk.plugged
  <2>1. PICK s \in Stacked(desk.panels[o], l) :
          desk' = LayerFocus(Arrange([desk EXCEPT !.panel[l] = "mapped", !.want[l] = want, !.panels[o] = s], o), l)
    BY <1>2 DEF LayerMap
  <2> DEFINE e == PanelMapped(l, want, s)
             f == Arrange(e, o)
  <2>2. desk.panel[l] = "created" /\ "layer" \in desk.kinds /\ desk' = LayerFocus(f, l)
    BY <2>1 DEF LayerMap, Happens, PanelMapped
  <2>3. Typed(e) /\ e.panel[l] = "mapped"
    BY <1>0, <1>2, <2>2, LayerListed
  <2>4. Still(desk, e)
    BY <1>0 DEF PanelMapped, Still, Quiet, Typed, Fields
  <2> HIDE DEF e
  <2>5. Calm(e)
    BY <2>3, <2>4, StillCalm
  <2>6. Calm(f)
    BY <2>5, ArrangedCalm
  <2>7. f.panel[l] = "mapped"
    BY <2>3, ArrangeKept DEF Kept, But, Moved, Listed, Fields
  <2> HIDE DEF f
  <2>8. FocusTo(f, LayerFocus(f, l))
    BY <2>6, <2>7, LayerFocused DEF Calm
  <2> QED BY <2>2, <2>6, <2>8, FocusCalm DEF Calm
<1> QED BY <1>1, <1>2

LEMMA LayerCommitNeat ==
  ASSUME Calm(desk), NEW l \in Layer, NEW want \in {"none", "on_demand", "exclusive"}, LayerCommit(l, want)
  PROVE  Neat(desk')
<1> DEFINE o == desk.on[l]
<1>0. Typed(desk)
  BY DEF Calm
<1>1. PICK s \in Stacked(RemoveFirst(desk.panels[o], l), l) :
        desk' = Arrange([desk EXCEPT !.want[l] = want, !.panels[o] = s], o)
  BY DEF LayerCommit
<1> DEFINE e == PanelChanged(l, want, s)
<1>2. Typed(e)
  BY <1>0, LayerRelisted DEF LayerCommit
<1>3. Still(desk, e)
  BY <1>0 DEF PanelChanged, Still, Quiet, Typed, Fields
<1>4. desk' = Arrange(e, o)
  BY <1>1 DEF PanelChanged
<1> HIDE DEF e
<1> QED BY <1>2, <1>3, <1>4, StillCalm, ArrangedCalm DEF Calm

LEMMA LayerUnmapNeat ==
  ASSUME Calm(desk), NEW l \in Layer, LayerUnmap(l) PROVE Neat(desk')
<1> DEFINE o == desk.on[l]
           d == [desk EXCEPT !.panel[l] = "created", !.panels[o] = RemoveFirst(@, l)]
           e == PanelGone(l)
           f == LayerGone(d, l)
<1>0. Typed(desk)
  BY DEF Calm
<1>1. desk' = Arrange(f, o) /\ "layer" \in desk.kinds
  BY DEF LayerUnmap, Happens
<1>2. f \in {e, OutputFocus(e, d.on[l])}
  BY DEF LayerGone, PanelGone
<1>3. Typed(e)
  BY <1>0, <1>1, LayerUnlisted
<1>4. Still(desk, e)
  BY <1>0 DEF PanelGone, Still, Quiet, Typed, Fields
<1> HIDE DEF d, e, f
<1>5. Calm(e)
  BY <1>3, <1>4, StillCalm
<1>6. Calm(f)
  BY <1>2, <1>5, OutputFocused, FocusCalm
<1> QED BY <1>1, <1>6, ArrangedCalm DEF Calm

LEMMA LayerDestroyNeat ==
  ASSUME Calm(desk), NEW l \in Layer, LayerDestroy(l) PROVE Neat(desk')
<1> DEFINE e == [desk EXCEPT !.panel[l] = "absent", !.on[l] = None,
                             !.pointer = IF @ = l THEN None ELSE @]
<1>0. Typed(desk) /\ l \notin Toplevel
  BY NoWindowIsAPanel DEF Calm
<1>1. desk' = e
  BY DEF LayerDestroy
<1>2. /\ Quiet(desk, e) /\ e.grabbed = desk.grabbed /\ e.shown = desk.shown
      /\ e.focused = desk.focused /\ e.pointer = IF desk.pointer = l THEN None ELSE desk.pointer
  BY <1>0 DEF Quiet, Typed, Fields
<1> HIDE DEF e
<1>3. Pointing(e)
  <2>1. e.grabbed # None => e.pointer = e.grabbed
    BY <1>0, <1>2 DEF Calm, Neat, Pointing, Typed, GrabTypes
  <2>2. e.pointer \in Toplevel => e.pointer = desk.pointer
    BY <1>2, NoneIsNoName
  <2> QED BY <1>2, <2>1, <2>2 DEF Calm, Neat, Pointing, Quiet
<1>4. Tidy(e, e.grabbed)
  BY <1>2, QuietPlaces DEF Calm, Neat
<1>5. NoFullscreen(e) /\ FocusIsMapped(e)
  BY <1>2 DEF Calm, Neat, NoFullscreen, FocusIsMapped, Quiet
<1> QED BY <1>1, <1>3, <1>4, <1>5 DEF Neat

(* Ghosts are given up, and shown are those that are there.                  *)
LEMMA PerformNeat ==
  ASSUME Calm(desk), PerformTransaction, desk'.crashed = "none" PROVE Neat(desk')
<1> DEFINE w == desk.active
           o == desk.output[w]
           old == desk.presented[o]
           hidden == IF old \in {None, w} THEN {} ELSE Members(desk, old)
           dead == {t \in desk.ghosts : desk.life[t] = "absent"}
           shown == (((desk.shown \cup desk.fresh) \ hidden) \cup Members(desk, w)) \ dead
           e == [desk EXCEPT !.presented[o] = w, !.shown = shown,
                             !.fresh = {}, !.ghosts = {}, !.due = FALSE]
<1>0. Typed(desk)
  BY DEF Calm
<1>1. desk' = e
  BY <1>0 DEF PerformTransaction, Perform, Fail, Typed, Fields
<1> HIDE DEF shown
<1>2. /\ e.master = desk.master /\ e.slaves = desk.slaves /\ e.floats = desk.floats
      /\ e.fullscreen = desk.fullscreen /\ e.home = desk.home /\ e.state = desk.state
      /\ e.life = desk.life /\ e.ghosts = {} /\ e.kinds = desk.kinds
      /\ e.grabbed = desk.grabbed /\ e.focused = desk.focused /\ e.pointer = desk.pointer
  BY <1>0 DEF Typed, Fields
<1> HIDE DEF e
<1>3. SameLists(desk, e)
  BY <1>2 DEF SameLists
<1>4. Ordered(e) /\ \A u : Place(e, u) = Place(desk, u)
  BY <1>3, ListsSame DEF Calm, Neat, Tidy
<1>5. Tidy(e, e.grabbed)
  <2> SUFFICES ASSUME NEW u \in Toplevel PROVE IsAt(e, u, desk.grabbed)
    BY <1>2, <1>4 DEF Tidy
  <2>1. Same(desk, e, u)
    BY <1>2, <1>4 DEF Same
  <2>2. IsAt(desk, u, desk.grabbed) /\ e.kinds = desk.kinds
    BY <1>2 DEF Calm, Neat, Tidy
  <2> QED BY <2>1, <2>2, SameIsAt
<1>6. Pointing(e)
  BY <1>2 DEF Calm, Neat, Pointing
<1>7. NoFullscreen(e) /\ FocusIsMapped(e)
  BY <1>2 DEF Calm, Neat, NoFullscreen, FocusIsMapped
<1> QED BY <1>1, <1>5, <1>6, <1>7 DEF Neat

-----------------------------------------------------------------------------
(* Outputs that come and go.                                                 *)

LEMMA PlugNeat ==
  ASSUME Calm(desk), NEW o \in Output, NEW w \in Workspace, Plug(o, w)
  PROVE  Neat(desk')
<1> DEFINE a == [desk EXCEPT !.outputs = <<o>> \o @, !.plugged = @ \cup {o}]
           b == WorkspaceCreate(a, o, w)
           e == WithDummy(a, o, w)
<1>0. Typed(desk) /\ desk' = e
  BY DEF Calm, Plug
<1>1. Typed(desk')
  BY <1>0, PlugStep DEF Stepped
<1>2. Still(desk, a) /\ DOMAIN a = Fields
  BY <1>0 DEF Still, Quiet, Typed, Fields
<1> HIDE DEF a
<1>3. Still(a, b) /\ DOMAIN b = Fields
  <2>1. CASE a.dummy[o] # None
    BY <1>2, <2>1 DEF WorkspaceCreate, Still, Quiet, Fields
  <2>2. CASE a.dummy[o] = None
    BY <1>2, <2>2 DEF WorkspaceCreate, Still, Quiet, Fields
  <2> QED BY <2>1, <2>2
<1>4. e = a \/ e = [b EXCEPT !.dummy[o] = w]
  BY DEF WithDummy
<1> HIDE DEF b, e
<1>5. Still(desk, e)
  <2>1. Still(a, e)
    BY <1>3, <1>4 DEF Still, Quiet, Fields
  <2> QED BY <1>2, <2>1 DEF Still, Quiet
<1> QED BY <1>0, <1>1, <1>5, StillCalm DEF Calm

(* Where the windows go when the workspace w of o does: to the first         *)
(* workspace of the next output.                                             *)
LEMMA NextHome ==
  ASSUME NEW d, Typed(d), Booked(d), Len(d.outputs) > 1, NEW o \in d.plugged,
         NEW vs \in SUBSET ToSet(d.spaces[o]), NEW e, Cleared(d, e, o, vs), e.crashed = "none",
         NEW w \in ToSet(d.spaces[o]) \ vs,
         NEW p, p = NextOrPrev(e.outputs, e.output[w])
  PROVE  /\ w \in Workspace /\ e.output[w] = o /\ p # None /\ p # o
         /\ p \in e.plugged => /\ FirstOrNone(e.spaces[p]) \in Workspace \ {w}
                               /\ e.output[FirstOrNone(e.spaces[p])] = p
<1>0. /\ d.outputs \in Seq(Output) /\ IsInjective(d.outputs) /\ None \notin Output
      /\ o \in ToSet(d.outputs) /\ ToSet(d.outputs) \subseteq Output
      /\ d.spaces \in [Output -> Seq(Workspace)]
  BY Elements, NoneIsNoName DEF Typed, SpaceTypes, Booked, Shelved
<1>1. \A q \in Output : ToSet(d.spaces[q]) \subseteq Workspace /\ \A v \in Workspace : v \in ToSet(d.spaces[q]) <=> d.output[v] = q
  <2>1. \A q \in Output : d.spaces[q] \in Seq(Workspace)
    BY <1>0
  <2>2. \A q \in Output : ToSet(d.spaces[q]) \subseteq Workspace
    BY <2>1, Elements
  <2> QED BY <2>2 DEF Booked, Shelved
<1>2. /\ e.outputs = d.outputs /\ e.plugged = d.plugged
      /\ \A v \in Workspace : e.output[v] = IF v \in vs THEN None ELSE d.output[v]
      /\ \A q \in Output \ {o} : e.spaces[q] = d.spaces[q]
  BY DEF Cleared
<1>3. w \in Workspace /\ d.output[w] = o /\ e.output[w] = o /\ o \in Output
  BY <1>0, <1>1, <1>2
<1>4. p # None /\ p # o /\ p \in Output
  <2>1. p = NextOrPrev(d.outputs, o)
    BY <1>2, <1>3
  <2>2. p # None => p \in ToSet(d.outputs) /\ p # o
    BY <1>0, <2>1, Neighbours
  <2>3. p = None => d.outputs = <<o>>
    BY <1>0, <2>1, Neighbours
  <2>4. d.outputs # <<o>>
    <3>1. Len(<<o>>) = 1
      OBVIOUS
    <3>2. ~(1 > 1)
      OBVIOUS
    <3>3. Len(d.outputs) # 1
      BY <3>2, Zenon
    <3> QED BY <3>1, <3>3, Zenon
  <2> QED BY <1>0, <2>2, <2>3, <2>4
<1>5. ASSUME p \in e.plugged
      PROVE  /\ FirstOrNone(e.spaces[p]) \in Workspace \ {w}
             /\ e.output[FirstOrNone(e.spaces[p])] = p
  <2> DEFINE n == FirstOrNone(e.spaces[p])
  <2>1. e.spaces[p] = d.spaces[p] /\ d.spaces[p] # <<>> /\ d.spaces[p] \in Seq(Workspace)
    BY <1>0, <1>2, <1>4, <1>5 DEF Booked, Furnished
  <2>2. n \in ToSet(d.spaces[p])
    BY <2>1, Ends DEF FirstOrNone
  <2> HIDE DEF n
  <2>3. n \in Workspace /\ d.output[n] = p
    BY <1>1, <1>4, <2>2
  <2>4. n \notin vs /\ n # w
    BY <1>1, <1>3, <1>4, <2>3
  <2>5. e.output[n] = p
    BY <1>2, <2>3, <2>4
  <2> QED BY <2>3, <2>4, <2>5 DEF n
<1> QED BY <1>3, <1>4, <1>5

LEMMA UnpluggedCalm ==
  ASSUME NEW d, Calm(d), "fullscreen" \notin d.kinds, NEW w \in Workspace,
         NEW p, p = NextOrPrev(d.outputs, d.output[w]), p # None,
         p \in d.plugged => FirstOrNone(d.spaces[p]) \in Workspace \ {w},
         NEW e, e = WorkspaceUnplug(d, w), e.crashed = "none"
  PROVE  Calm(e) /\ e.kinds = d.kinds
<1> DEFINE n == FirstOrNone(d.spaces[p])
           empty == Evacuate(d, w, n)
           left == IF d.active = w THEN SetActive(empty, n) ELSE empty
<1>0. Typed(d)
  BY DEF Calm
<1>1. p \in d.plugged /\ e = FreeWorkspace(left, w)
  <2>1. Fail(d, "freed output").crashed # "none"
    BY <1>0, Fails
  <2> QED BY <2>1 DEF WorkspaceUnplug
<1>2. n \in Workspace /\ n # w
  BY <1>1
<1> HIDE DEF n
<1>3. SpaceKept(d, empty)
  BY <1>0, <1>2, EvacuateKept
<1> HIDE DEF empty
<1>4. FocusKept(empty, left)
  BY <1>2, <1>3, SetActiveKept, FocusSame DEF SpaceKept, Kept
<1>5. Typed(left)
  BY <1>4 DEF FocusKept, Kept
<1> HIDE DEF left
<1>6. left.crashed = "none"
  BY <1>1, <1>5, FreeWorkspaceKept DEF SpaceKept, Kept, Later
<1>7. empty.crashed = "none"
  BY <1>4, <1>6 DEF FocusKept, Kept, Later
<1>8. Calm(empty) /\ Emptier(empty, w)
  BY <1>2, <1>7, Evacuated DEF empty
<1>9. FocusTo(empty, left)
  BY <1>2, <1>8, ActiveSet, FocusSame DEF left, FocusTo, Calm
<1>10. Calm(left) /\ Emptier(left, w)
  BY <1>8, <1>9, FocusCalm, FocusQuiet DEF FocusTo, Quiet, Emptier
<1>11. Calm(e)
  BY <1>1, <1>10, FreedCalm
<1>12. e.kinds = d.kinds
  <2>1. SpaceKept(d, e)
    BY <1>0, WorkspaceUnplugKept
  <2> QED BY <2>1 DEF SpaceKept, Kept, But, Spaced, Fields
<1> QED BY <1>11, <1>12

LEMMA AllUnpluggedCalm ==
  ASSUME NEW d, Calm(d), Booked(d), "fullscreen" \notin d.kinds, Len(d.outputs) > 1, NEW o \in d.plugged,
         NEW e, e = UnplugAll(d, d.spaces[o]), e.crashed = "none"
  PROVE  Calm(e)
<1> DEFINE list == d.spaces[o]
<1>0. Typed(d) /\ o \in Output
  BY Elements DEF Calm, Typed, SpaceTypes
<1>1. list \in Seq(Workspace) /\ IsInjective(list) /\ ToSet(list) \subseteq Workspace
  BY <1>0, Elements DEF Typed, SpaceTypes, Booked, Shelved
<1>2. \A w \in ToSet(list) : d.output[w] = o
  BY <1>0, <1>1 DEF Booked, Shelved
<1>3. e = UnplugAll(d, list) /\ \A vs \in SUBSET ToSet(list) : vs \in SUBSET ToSet(d.spaces[o])
  OBVIOUS
<1>4. \A w \in ToSet(list) : w \in ToSet(d.spaces[o])
  OBVIOUS
<1> HIDE DEF list
<1>5. PICK after :
        /\ UnplugAll(d, list) = after[Len(list)]
        /\ after[0] = d
        /\ \A n \in 1 .. Len(list) : after[n] = WorkspaceUnplug(after[n - 1], list[n])
  BY ONLY <1>1, AllUnplugged
<1>6. Len(list) \in Nat
  BY <1>1
<1> DEFINE Fine(n) == /\ Cleared(d, after[n], o, UpTo(list, n))
                      /\ after[n].crashed = "none" => Calm(after[n]) /\ after[n].kinds = d.kinds
           G == {n \in 0 .. Len(list) : Fine(n)}
<1>7. Fine(0)
  <2>1. UpTo(list, 0) = {} /\ after[0] = d
    BY <1>1, <1>5, UpToNext
  <2> QED BY <1>0, <2>1 DEF Cleared, Booked
<1>8. ASSUME NEW n \in 1 .. Len(list), Fine(n - 1)
      PROVE  Fine(n)
  <2> DEFINE f == after[n - 1]
             w == list[n]
             vs == UpTo(list, n - 1)
             p == NextOrPrev(f.outputs, f.output[w])
  <2>1. /\ w \in ToSet(list) \ vs /\ UpTo(list, n) = vs \cup {w} /\ w \in Workspace /\ d.output[w] = o
        /\ vs \in SUBSET ToSet(list)
    <3>1. \A j \in 1 .. n - 1 : j \in 1 .. Len(list)
      BY <1>6
    <3>2. vs \in SUBSET ToSet(list)
      BY <1>1, <3>1 DEF UpTo, ToSet
    <3> QED BY <1>1, <1>2, <3>2, UpToNext
  <2>2. Cleared(d, f, o, vs) /\ (f.crashed = "none" => Calm(f) /\ f.kinds = d.kinds)
    <3>1. Fine(n - 1)
      BY <1>8
    <3> QED BY ONLY <3>1
  <2>3. after[n] = WorkspaceUnplug(f, w)
    BY <1>5
  <2> HIDE DEF f, w, vs
  <2>4. Cleared(d, after[n], o, UpTo(list, n))
    BY <1>0, <2>1, <2>2, <2>3, ClearedOne
  <2>5. ASSUME after[n].crashed = "none" PROVE Calm(after[n]) /\ after[n].kinds = d.kinds
    <3>1. f.crashed = "none"
      BY <2>2, <2>3, <2>1, <2>5, WorkspaceUnplugKept DEF Cleared, SpaceKept, Kept, Later
    <3>2. p # None /\ (p \in f.plugged => FirstOrNone(f.spaces[p]) \in Workspace \ {w})
      <4>1. vs \in SUBSET ToSet(d.spaces[o]) /\ w \in ToSet(d.spaces[o]) \ vs
        BY <1>3, <1>4, <2>1
      <4> QED BY <1>0, <2>2, <3>1, <4>1, NextHome
    <3> HIDE DEF p
    <3>3. Calm(after[n]) /\ after[n].kinds = f.kinds
      <4>1. p = NextOrPrev(f.outputs, f.output[w])
        BY DEF p
      <4> QED BY <2>1, <2>2, <2>3, <2>5, <3>1, <3>2, <4>1, UnpluggedCalm
    <3> QED BY <2>2, <3>1, <3>3
  <2> QED BY <2>4, <2>5
<1> HIDE DEF Fine
<1>9. 0 \in G /\ \A n \in 1 .. Len(list) : n - 1 \in G => n \in G
  BY <1>6, <1>7, <1>8
<1>10. Len(list) \in G
  <2> HIDE DEF G
  <2> QED BY <1>6, <1>9, Upwards
<1>11. e = after[Len(list)] /\ Fine(Len(list))
  BY ONLY <1>3, <1>5, <1>10
<1> QED BY ONLY <1>11, e.crashed = "none" DEF Fine

LEMMA UnplugNeat ==
  ASSUME Calm(desk), Booked(desk), Len(desk.outputs) > 1, NEW o \in Output, NEW to, Unplug(o, to),
         desk'.crashed = "none"
  PROVE  Neat(desk')
<1> DEFINE d == UnplugAll(desk, desk.spaces[o])
           gone == {l \in Layer : d.on[l] = o /\ d.panel[l] = "mapped"}
           e == [d EXCEPT !.plugged = @ \ {o},
                          !.panel = [l \in Layer |-> IF l \in gone THEN "absent" ELSE @[l]],
                          !.panels[o] = <<>>,
                          !.cursor = to,
                          !.pointer = IF @ \in gone THEN None ELSE @]
<1>1. desk' = e /\ o \in desk.plugged /\ "hotplug" \in desk.kinds
  BY DEF Unplug, Happens
<1>2. "fullscreen" \notin desk.kinds
  BY <1>1 DEF Calm, Ordinary
<1>3. Typed(d)
  <2>1. desk.spaces[o] \in Seq(Workspace) /\ Typed(desk)
    BY DEF Calm, Typed, SpaceTypes
  <2> QED BY <2>1, UnplugAllKept DEF SpaceKept, Kept
<1>4. gone \subseteq Layer
  OBVIOUS
<1> HIDE DEF d, gone
<1>5. /\ Quiet(d, e) /\ e.grabbed = d.grabbed /\ e.shown = d.shown /\ e.focused = d.focused
      /\ e.pointer = (IF d.pointer \in gone THEN None ELSE d.pointer) /\ e.crashed = d.crashed
  BY <1>3 DEF Quiet, Typed, Fields
<1> HIDE DEF e
<1>6. Calm(d)
  BY <1>1, <1>2, <1>5, AllUnpluggedCalm DEF d
<1>7. Tidy(e, e.grabbed) /\ NoFullscreen(e) /\ FocusIsMapped(e)
  BY <1>5, <1>6, QuietPlaces DEF Calm, Neat, NoFullscreen, FocusIsMapped, Quiet
<1>8. Pointing(e)
  <2>1. d.grabbed # None => d.pointer = d.grabbed /\ d.grabbed \in Toplevel
    BY <1>6 DEF Calm, Neat, Pointing, Typed, GrabTypes
  <2>2. d.pointer \in Toplevel => e.pointer = d.pointer
    BY <1>4, <1>5, NoWindowIsAPanel
  <2>3. e.pointer \in Toplevel => e.pointer = d.pointer
    BY <1>5, NoneIsNoName
  <2> QED BY <1>5, <1>6, <2>1, <2>2, <2>3 DEF Calm, Neat, Pointing, Quiet
<1>9. Neat(e)
  BY <1>7, <1>8 DEF Neat
<1> QED BY <1>1, <1>9

-----------------------------------------------------------------------------
(* Every callback of every ordinary situation, and start-up.                 *)

(* Where outputs go there were several: with the last one its workspaces are *)
(* freed, and the windows in them are not.                                   *)
Several == "hotplug" \in desk.kinds => Len(desk.outputs) > 1

(* An output that was connected stays in the list, also when it is freed.    *)
LEMMA NextOutputs ==
  ASSUME Typed(desk), [Next]_vars
  PROVE  desk'.outputs = desk.outputs \/ \E o \in Output : desk'.outputs = <<o>> \o desk.outputs
<1>0. \A e : SpaceKept(desk, e) => e.outputs = desk.outputs
  BY DEF SpaceKept, Kept, But, Spaced, Fields
<1>1. CASE Goes(desk, desk')
  BY <1>1 DEF Goes, SameBooks
<1>2. ASSUME NEW t \in Toplevel, Create(t) \/ Destroy(t) \/ \E st \in State : Map(t, st)
      PROVE  desk'.outputs = desk.outputs
  BY <1>2, WindowsSameSpaces DEF SameSpaces
<1>3. ASSUME NEW o \in Output, NEW w \in Workspace, CreateWorkspace(o, w) \/ RemoteCreate(o, w)
      PROVE  desk'.outputs = desk.outputs
  <2>1. o \in ToSet(desk.outputs)
    BY <1>3 DEF CreateWorkspace, RemoteCreate, Typed, SpaceTypes
  <2> QED BY <1>0, <1>3, <2>1, WorkspaceCreateKept DEF CreateWorkspace, RemoteCreate
<1>4. ASSUME NEW o \in Output, NEW w \in Workspace, Plug(o, w)
      PROVE  desk'.outputs = <<o>> \o desk.outputs
  <2> DEFINE a == [desk EXCEPT !.outputs = <<o>> \o @, !.plugged = @ \cup {o}]
             b == WorkspaceCreate(a, o, w)
             e == WithDummy(a, o, w)
  <2>1. desk' = e
    BY <1>4 DEF Plug
  <2>2. a.outputs = <<o>> \o desk.outputs /\ DOMAIN a = Fields
    BY DEF Typed, Fields
  <2> HIDE DEF a
  <2>3. b.outputs = a.outputs /\ DOMAIN b = Fields
    BY <2>2 DEF WorkspaceCreate, Fields
  <2>4. e = a \/ e = [b EXCEPT !.dummy[o] = w]
    BY DEF WithDummy
  <2> HIDE DEF b, e
  <2> QED BY <2>1, <2>2, <2>3, <2>4 DEF Fields
<1>5. ASSUME NEW w \in Workspace, NEW n \in Workspace, DestroyWorkspace(w, n)
      PROVE  desk'.outputs = desk.outputs
  <2>1. PICK d \in StopWhatever(Found(desk, w)) : desk' = WorkspaceDestroy(d, w, n)
    BY <1>5 DEF DestroyWorkspace
  <2>2. Typed(d) /\ SameBooks(desk, d)
    BY StopFoundGoes DEF Goes
  <2>3. d.output[w] # None
    BY <1>5, <2>2 DEF DestroyWorkspace, SameBooks, Exists
  <2>4. SpaceKept(d, desk')
    BY <2>1, <2>2, <2>3, WorkspaceDestroyKept
  <2> QED BY <2>2, <2>4 DEF SameBooks, SpaceKept, Kept, But, Spaced, Fields
<1>6. ASSUME NEW w \in Workspace, NEW n \in Workspace, RemoteRemove(w, n)
      PROVE  desk'.outputs = desk.outputs
  BY <1>0, <1>6, WorkspaceDestroyKept DEF RemoteRemove, Exists
<1>7. ASSUME NEW o \in Output, NEW to \in Output \cup {None}, Unplug(o, to)
      PROVE  desk'.outputs = desk.outputs
  <2> DEFINE d == UnplugAll(desk, desk.spaces[o])
  <2>1. SpaceKept(desk, d)
    BY UnplugAllKept DEF Typed, SpaceTypes
  <2>2. DOMAIN d = Fields
    BY <2>1 DEF SpaceKept, Kept, But
  <2>3. desk'.outputs = d.outputs
    BY <1>7, <2>2 DEF Unplug, Fields
  <2> HIDE DEF d
  <2> QED BY <1>0, <2>1, <2>3
<1>8. CASE PerformTransaction
  BY <1>8, PerformSameSpaces DEF SameSpaces
<1> QED BY <1>1, <1>2, <1>3, <1>4, <1>5, <1>6, <1>7, <1>8, NextGoes

LEMMA NextSeveral ==
  ASSUME Typed(desk), Several, [Next]_vars
  PROVE  Several'
<1>1. Stepped(desk, desk')
  BY NextStep
<1>2. desk.outputs \in Seq(Output)
  BY DEF Typed, SpaceTypes
<1>3. desk'.outputs = desk.outputs \/ \E o \in Output : desk'.outputs = <<o>> \o desk.outputs
  BY NextOutputs
<1>4. \A o \in Output : Len(<<o>> \o desk.outputs) = 1 + Len(desk.outputs)
  BY <1>2
<1>5. desk'.kinds = desk.kinds /\ Len(desk.outputs) \in Nat
  BY <1>1, <1>2 DEF Stepped
<1>6. Len(desk'.outputs) >= Len(desk.outputs)
  <2>1. CASE desk'.outputs = desk.outputs
    BY <1>5, <2>1
  <2>2. ASSUME NEW o \in Output, desk'.outputs = <<o>> \o desk.outputs
        PROVE  Len(desk'.outputs) >= Len(desk.outputs)
    <3>1. Len(desk'.outputs) = 1 + Len(desk.outputs)
      BY <1>4, <2>2
    <3> QED BY <1>5, <3>1
  <2> QED BY <1>3, <2>1, <2>2
<1> QED BY <1>5, <1>6 DEF Several

LEMMA NextNeat ==
  ASSUME Calm(desk), Booked(desk), Several, PanelsStay(desk), desk.crashed = "none", [Next]_vars,
         desk'.crashed = "none"
  PROVE  Neat(desk')
<1>1. CASE UNCHANGED vars
  <2>1. desk' = desk
    BY <1>1 DEF vars
  <2> QED BY <2>1 DEF Calm
<1>2. CASE Windowed
  <2>1. PICK t \in Toplevel :
          \/ Create(t) \/ Unmap(t) \/ Destroy(t) \/ RequestGrab(t)
          \/ \E st \in State : Map(t, st)
          \/ \E full \in BOOLEAN : RequestFullscreen(t, full)
    BY <1>2 DEF Windowed
  <2> QED BY <2>1, CreateNeat, UnmapNeat, DestroyNeat, RequestGrabNeat, MapNeat, FullscreenNeat
<1>3. CASE Commanded
  <2>1. CASE UserTogglesFloat \/ UserTogglesFullscreen
    BY <2>1, ToggleNeat
  <2>2. CASE CommandGrab
    BY <2>2, CommandGrabNeat
  <2>3. ASSUME NEW direction \in Direction, NEW o \in Output \cup {None},
               FocusInDirection(direction, o) \/ MoveInDirection(direction, o)
        PROVE  Neat(desk')
    BY <2>3, FocusDirectionNeat, MoveDirectionNeat
  <2>4. ASSUME NEW w \in Workspace,
               ChangeWorkspace(w) \/ MoveFocusedToWorkspace(w) \/ RemoteActivate(w)
        PROVE  Neat(desk')
    BY <2>4, WorkspaceNeat
  <2>5. ASSUME NEW w \in Workspace,
               \/ \E o \in Output : CreateWorkspace(o, w) \/ RemoteCreate(o, w)
               \/ \E n \in Workspace : DestroyWorkspace(w, n) \/ RemoteRemove(w, n)
        PROVE  Neat(desk')
    BY <2>5, WorkspacesNeat
  <2> QED BY <1>3, <2>1, <2>2, <2>3, <2>4, <2>5 DEF Commanded
<1>4. CASE Input
  <2>1. CASE Press \/ Release
    BY <2>1, ButtonNeat
  <2>2. ASSUME NEW k \in Key, KeyPress(k) \/ KeyRelease(k) PROVE Neat(desk')
    BY <2>2, KeyPressNeat, KeyReleaseNeat
  <2>3. ASSUME NEW icon \in BOOLEAN, Drag(icon) PROVE Neat(desk')
    BY <2>3, DragNeat
  <2>4. ASSUME NEW o \in Output, Motion(o) PROVE Neat(desk')
    BY <2>4, MotionNeat
  <2> QED BY <1>4, <2>1, <2>2, <2>3, <2>4 DEF Input
<1>5. CASE Surroundings
  <2>1. CASE Rearrange
    BY <2>1, RearrangeNeat
  <2>2. ASSUME NEW l \in Layer,
               \/ LayerUnmap(l) \/ LayerDestroy(l)
               \/ \E o \in Output : LayerCreate(l, o)
               \/ \E want \in {"none", "on_demand", "exclusive"} : LayerMap(l, want) \/ LayerCommit(l, want)
        PROVE  Neat(desk')
    BY <2>2, LayerUnmapNeat, LayerDestroyNeat, LayerCreateNeat, LayerMapNeat, LayerCommitNeat
  <2>3. ASSUME NEW o \in Output,
               \/ \E w \in Workspace : Plug(o, w)
               \/ \E to \in Output \cup {None} : Unplug(o, to)
        PROVE  Neat(desk')
    <3>1. "hotplug" \in desk.kinds
      BY <2>3 DEF Plug, Unplug, Happens
    <3>2. Len(desk.outputs) > 1
      BY <3>1 DEF Several
    <3> QED BY <2>3, <3>2, PlugNeat, UnplugNeat
  <2> QED BY <1>5, <2>1, <2>2, <2>3 DEF Surroundings
<1>6. CASE PerformTransaction
  BY <1>6, PerformNeat
<1>7. CASE Halted
  BY <1>7 DEF Halted
<1> QED BY <1>1, <1>2, <1>3, <1>4, <1>5, <1>6, <1>7 DEF Next

LEMMA StartsNeat ==
  ASSUME Init
  PROVE  Neat(desk)
<1>1. PICK s \in Situation : desk = StartUp(s)
  BY DEF Init
<1>2. /\ desk.life = [t \in Toplevel |-> "absent"] /\ desk.ghosts = {}
      /\ desk.state = [t \in Toplevel |-> "TILED"]
      /\ desk.master = [w \in Workspace |-> None] /\ desk.slaves = [w \in Workspace |-> <<>>]
      /\ desk.floats = [w \in Workspace |-> <<>>] /\ desk.fullscreen = [w \in Workspace |-> None]
      /\ desk.focused = None /\ desk.grabbed = None /\ desk.pointer = None
  BY <1>1 DEF StartUp
<1>3. Ordered(desk)
  BY <1>2, Emptied DEF Ordered
<1>4. ASSUME NEW t \in Toplevel PROVE Place(desk, t) = Nowhere
  BY <1>2, Emptied, NoneIsNoName DEF Place, Tiling, Floating, Filling, Nowhere
<1>5. Tidy(desk, desk.grabbed)
  BY <1>2, <1>3, <1>4 DEF Tidy, IsAt
<1>6. Pointing(desk) /\ NoFullscreen(desk) /\ FocusIsMapped(desk)
  BY <1>2, NoneIsNoName DEF Pointing, NoFullscreen, FocusIsMapped
<1> QED BY <1>5, <1>6 DEF Neat

(* The inductive invariant.                                                  *)
Orderly == Ordinary(desk.kinds) /\ desk.crashed = "none" => Neat(desk)

LEMMA SeveralAlways == Spec /\ Several => [](Sane /\ Kempt /\ Several)
<1>1. ASSUME Sane, Several, [Next]_vars PROVE Several'
  BY <1>1, NextSeveral DEF Sane
<1>2. Spec /\ Several => []Several
  BY <1>1, SaneAlways, PTL DEF Spec
<1> QED BY <1>2, KemptAlways, PTL

LEMMA OrderlyAlways == Spec /\ Several => [](Sane /\ Orderly)
<1>1. Init => Sane /\ Orderly
  BY StartsTyped, StartsNeat DEF Sane, Orderly
<1>2. ASSUME Sane, Kempt, Several, Orderly, [Next]_vars PROVE Orderly'
  <2>1. Stepped(desk, desk')
    BY <1>2, NextStep DEF Sane
  <2> SUFFICES ASSUME Ordinary(desk'.kinds), desk'.crashed = "none" PROVE Neat(desk')
    BY DEF Orderly, Ordinary, Neat, Tidy, Ordered, IsAt, InPlace, Place, Only, Tiling, Floating,
           Filling, Nowhere, Pointing, NoFullscreen, FocusIsMapped
  <2>2. desk'.kinds = desk.kinds /\ desk.crashed = "none"
    BY <2>1 DEF Stepped, Later
  <2>3. Calm(desk) /\ Booked(desk)
    BY <1>2, <2>2 DEF Calm, Sane, Orderly, Kempt
  <2> QED BY <1>2, <2>2, <2>3, NextNeat DEF Sane
<1> QED BY <1>1, <1>2, SeveralAlways, PTL DEF Spec

(* Its place, as the properties of Desktop say it.                           *)
LEMMA SpotsAre ==
  ASSUME NEW t
  PROVE  /\ Spots(t, "TILED") = Tiling(desk, t)
         /\ Spots(t, "FLOAT") = Floating(desk, t)
         /\ Spots(t, "FULLSCREEN") = Filling(desk, t)
BY DEF Spots, Tiling, Floating, Filling

(* Where nothing is misplaced, a window that nobody holds is in one          *)
(* workspace, and there once and as what its state says (toplevel.c,         *)
(* layout.c, workspace.c and operation.c move it from list to list).         *)
THEOREM NeverLostNorTwice == Spec /\ Several => [](Ordinary(desk.kinds) => OnePlace)
<1>1. ASSUME Sane, Orderly, Ordinary(desk.kinds), Alive PROVE OnePlace
  <2>1. Neat(desk) /\ Typed(desk)
    BY <1>1 DEF Orderly, Alive, Sane
  <2>2. ASSUME NEW t \in Mapped \ {desk.grabbed}
        PROVE  /\ \A st \in State \ {desk.state[t]} : Spots(t, st) = {}
               /\ Cardinality(Spots(t, desk.state[t])) = 1
    <3>1. t \in Toplevel /\ InPlace(desk, t) /\ desk.state[t] \in State
      BY <2>1 DEF Mapped, Neat, Tidy, IsAt, Typed, WindowTypes
    <3>2. PICK w \in Workspace : Place(desk, t) = Only(desk.state[t], w)
      BY <3>1 DEF InPlace
    <3>3. Spots(t, desk.state[t]) = {w} /\ \A st \in State \ {desk.state[t]} : Spots(t, st) = {}
      BY <3>1, <3>2, SpotsAre DEF Place, Only, State
    <3> QED BY <3>3, FS_Singleton
  <2>3. ASSUME NEW w \in Workspace
        PROVE  /\ IsInjective(desk.slaves[w]) /\ IsInjective(desk.floats[w])
               /\ ~Contains(desk.slaves[w], desk.master[w])
    <3>1. /\ IsInjective(desk.slaves[w]) /\ IsInjective(desk.floats[w])
          /\ desk.master[w] \notin ToSet(desk.slaves[w])
      BY <2>1 DEF Neat, Tidy, Ordered
    <3> QED BY <2>1, <3>1, WindowsOf, Elements
  <2> QED BY <2>2, <2>3 DEF OnePlace
<1>2. Sane /\ Orderly => (Ordinary(desk.kinds) => OnePlace)
  BY <1>1 DEF OnePlace
<1> QED BY <1>2, OrderlyAlways, PTL

(* A window is held exactly while it is moved or resized, and is in no list  *)
(* then (operation.c).                                                       *)
THEOREM HeldApart == Spec /\ Several => [](Ordinary(desk.kinds) => HeldIsNowhere)
<1>1. ASSUME Sane, Orderly, Ordinary(desk.kinds), Alive PROVE HeldIsNowhere
  <2>1. Neat(desk) /\ Typed(desk)
    BY <1>1 DEF Orderly, Alive, Sane
  <2>2. desk.grabbed # None <=> desk.operation \in {"MOVE", "RESIZE"}
    BY <2>1 DEF Typed, GrabTypes
  <2>3. desk.grabbed # None => Place(desk, desk.grabbed) = Nowhere
    BY <2>1 DEF Neat, Tidy, IsAt, Typed, GrabTypes
  <2> QED BY <2>2, <2>3, SpotsAre DEF HeldIsNowhere, Place, Nowhere, State
<1>2. Sane /\ Orderly => (Ordinary(desk.kinds) => HeldIsNowhere)
  BY <1>1 DEF HeldIsNowhere
<1> QED BY <1>2, OrderlyAlways, PTL

(* The workspace a window points to is the one that has it.                  *)
THEOREM AlwaysAtHome == Spec /\ Several => [](Ordinary(desk.kinds) => AtHome)
<1>1. ASSUME Sane, Orderly, Ordinary(desk.kinds), Alive, desk.kinds \cap Grabbing = {} PROVE AtHome
  <2>1. Neat(desk) /\ Typed(desk)
    BY <1>1 DEF Orderly, Alive, Sane
  <2>2. ASSUME NEW t \in Mapped \ {desk.grabbed}, NEW st \in State
        PROVE  Spots(t, st) \subseteq {desk.home[t]}
    <3>1. t \in Toplevel /\ InPlace(desk, t) /\ desk.state[t] \in State
      BY <2>1 DEF Mapped, Neat, Tidy, IsAt, Typed, WindowTypes
    <3>2. Place(desk, t) = Only(desk.state[t], desk.home[t])
      BY <1>1, <3>1 DEF InPlace
    <3> QED BY <3>1, <3>2, SpotsAre DEF Place, Only, State
  <2> QED BY <2>2 DEF AtHome
<1>2. Sane /\ Orderly => (Ordinary(desk.kinds) => AtHome)
  BY <1>1 DEF AtHome
<1> QED BY <1>2, OrderlyAlways, PTL
=============================================================================
