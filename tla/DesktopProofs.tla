----------------------------- MODULE DesktopProofs -----------------------------
(***************************************************************************)
(* What holds of the desk whatever windows, workspaces, outputs, panels    *)
(* and keys there are.                                                     *)
(***************************************************************************)
EXTENDS Desktop, TLAPS, WellFoundedInduction

-----------------------------------------------------------------------------
(* Types.                                                                    *)

Fields ==
  {"kinds", "windows", "life", "ghosts", "state", "prev_state", "home",
   "master", "slaves", "floats", "fullscreen",
   "output", "spaces", "dummy", "act", "presented", "outputs", "plugged", "active",
   "focused", "layer", "exclusive", "panel", "on", "want", "panels",
   "operation", "grabbed", "server_inited", "icon", "key", "held", "cursor", "pointer",
   "shown", "fresh", "due", "crashed"}

WindowTypes(d) ==
  /\ d.life \in [Toplevel -> Life]
  /\ d.state \in [Toplevel -> State]
  /\ d.prev_state \in [Toplevel -> {"TILED", "FLOAT"}]
  /\ d.home \in [Toplevel -> Workspace \cup {None}]
  /\ d.ghosts \subseteq Toplevel /\ d.shown \subseteq Toplevel /\ d.fresh \subseteq Toplevel
  /\ d.due \in BOOLEAN

ListTypes(d) ==
  /\ d.master \in [Workspace -> Toplevel \cup {None}]
  /\ d.slaves \in [Workspace -> Seq(Toplevel)]
  /\ d.floats \in [Workspace -> Seq(Toplevel)]
  /\ d.fullscreen \in [Workspace -> Toplevel \cup {None}]

(* An output that is plugged in has an active workspace, one that never was  *)
(* has no dummy.                                                             *)
SpaceTypes(d) ==
  /\ d.output \in [Workspace -> Output \cup {None}]
  /\ d.spaces \in [Output -> Seq(Workspace)]
  /\ d.dummy \in [Output -> Workspace \cup {None}]
  /\ d.act \in [Output -> Workspace \cup {None}]
  /\ d.presented \in [Output -> Workspace \cup {None}]
  /\ d.outputs \in Seq(Output)
  /\ d.plugged \subseteq ToSet(d.outputs)
  /\ d.active \in Workspace
  /\ \A o \in d.plugged : d.act[o] # None
  /\ \A w \in Workspace : d.output[w] # None => d.output[w] \in ToSet(d.outputs)
  /\ \A o \in Output : o \notin ToSet(d.outputs) => d.dummy[o] = None

(* The high panels of an output are mapped there.                            *)
FocusTypes(d) ==
  /\ d.focused \in Toplevel \cup {None}
  /\ d.layer \in Layer \cup {None}
  /\ d.exclusive \in BOOLEAN
  /\ d.panel \in [Layer -> {"absent", "created", "mapped"}]
  /\ d.on \in [Layer -> Output \cup {None}]
  /\ d.want \in [Layer -> {"none", "on_demand", "exclusive"}]
  /\ d.panels \in [Output -> Seq(Layer)]
  /\ \A o \in Output :
       /\ IsInjective(d.panels[o])
       /\ \A l \in ToSet(d.panels[o]) : d.panel[l] = "mapped" /\ d.on[l] = o

GrabTypes(d) ==
  /\ d.operation \in {"NONE", "MOVE", "RESIZE", "DRAG"}
  /\ d.grabbed \in Toplevel \cup {None}
  /\ d.grabbed # None <=> d.operation \in {"MOVE", "RESIZE"}
  /\ d.server_inited \in BOOLEAN /\ d.icon \in BOOLEAN
  /\ d.key \in Key \cup {None} /\ d.held \subseteq Key \cup {"button"}
  /\ d.cursor \in Output \cup {None}
  /\ d.pointer \in Toplevel \cup Layer \cup {None}

Typed(d) ==
  DOMAIN d = Fields /\ WindowTypes(d) /\ ListTypes(d) /\ SpaceTypes(d) /\ FocusTypes(d) /\ GrabTypes(d)

(* Only these fields differ.                                                 *)
But(d, e, fields) == DOMAIN e = Fields /\ \A f \in Fields \ fields : e[f] = d[f]

(* A crash is for good.                                                      *)
Later(d, e) == e.crashed = "none" => d.crashed = "none"

-----------------------------------------------------------------------------
(* Lists.                                                                    *)

LEMMA Elements ==
  ASSUME NEW S, NEW s \in Seq(S)
  PROVE  /\ ToSet(s) \subseteq S
         /\ \A x : Contains(s, x) <=> x \in ToSet(s)
         /\ ToSet(s) = {} <=> s = <<>>
<1>1. ToSet(s) \subseteq S
  BY DEF ToSet
<1>2. ASSUME NEW x PROVE Contains(s, x) <=> x \in ToSet(s)
  BY DEF ToSet, Contains
<1>3. s # <<>> => s[1] \in ToSet(s)
  BY DEF ToSet
<1>4. ToSet(<<>>) = {}
  BY DEF ToSet
<1> QED BY <1>1, <1>2, <1>3, <1>4

LEMMA LeastNatural ==
  ASSUME NEW T \in SUBSET Nat, T # {}
  PROVE  \E n \in T : \A m \in T : n <= m
<1> DEFINE R == {ss \in Nat \X Nat : ss[1] < ss[2]}
<1>1. IsWellFoundedOn(R, Nat)
  BY NatLessThanWellFounded DEF OpToRel
<1>2. \A x, y \in T : x \in Nat /\ (<<y, x>> \in R \/ x <= y)
  OBVIOUS
<1> HIDE DEF R
<1>3. PICK x \in T : \A y \in T : ~(<<y, x>> \in R)
  BY <1>1, WFMin
<1> QED BY <1>2, <1>3

(* IndexOf finds an element where it is.                                     *)
LEMMA IndexIs ==
  ASSUME NEW S, NEW s \in Seq(S), NEW x
  PROVE  /\ IndexOf(s, x) \in 0 .. Len(s)
         /\ IndexOf(s, x) = 0 <=> x \notin ToSet(s)
         /\ IndexOf(s, x) # 0 => s[IndexOf(s, x)] = x
<1> DEFINE I == {i \in 1 .. Len(s) : s[i] = x}
<1>1. CASE I = {}
  BY <1>1 DEF IndexOf, SelectInSeq, ToSet
<1>2. CASE I # {}
  <2>1. I \in SUBSET Nat
    OBVIOUS
  <2>2. PICK n \in I : \A m \in I : n <= m
    BY <1>2, <2>1, LeastNatural
  <2>3. Min(I) \in I
    BY <2>2 DEF Min
  <2>4. IndexOf(s, x) = Min(I)
    BY <1>2 DEF IndexOf, SelectInSeq
  <2> QED BY <2>3, <2>4 DEF ToSet
<1> QED BY <1>1, <1>2

LEMMA Emptied == ToSet(<<>>) = {} /\ IsInjective(<<>>) /\ \A S : <<>> \in Seq(S)
BY DEF ToSet, IsInjective

LEMMA Appended ==
  ASSUME NEW S, NEW s \in Seq(S), NEW x \in S
  PROVE  /\ Append(s, x) \in Seq(S)
         /\ ToSet(Append(s, x)) = ToSet(s) \cup {x}
         /\ IsInjective(s) /\ x \notin ToSet(s) => IsInjective(Append(s, x))
<1> DEFINE r == Append(s, x)
<1>1. r \in Seq(S) /\ Len(r) = Len(s) + 1 /\ r[Len(s) + 1] = x /\ \A i \in 1 .. Len(s) : r[i] = s[i]
  OBVIOUS
<1>2. DOMAIN s = 1 .. Len(s) /\ DOMAIN r = 1 .. Len(s) + 1
  BY <1>1
<1> HIDE DEF r
<1>3. ToSet(r) = ToSet(s) \cup {x}
  <2>1. ASSUME NEW i \in DOMAIN r PROVE r[i] \in ToSet(s) \cup {x}
    BY <1>1, <1>2 DEF ToSet
  <2>2. ASSUME NEW i \in DOMAIN s PROVE s[i] \in ToSet(r)
    BY <1>1, <1>2 DEF ToSet
  <2>3. x \in ToSet(r)
    BY <1>1, <1>2 DEF ToSet
  <2> QED BY <2>1, <2>2, <2>3 DEF ToSet
<1>4. IsInjective(s) /\ x \notin ToSet(s) => IsInjective(r)
  BY <1>1, <1>2 DEF IsInjective, ToSet
<1> QED BY <1>1, <1>3, <1>4 DEF r

LEMMA Joined ==
  ASSUME NEW S, NEW s \in Seq(S), NEW r \in Seq(S)
  PROVE  /\ s \o r \in Seq(S)
         /\ ToSet(s \o r) = ToSet(s) \cup ToSet(r)
         /\ IsInjective(s) /\ IsInjective(r) /\ ToSet(s) \cap ToSet(r) = {} => IsInjective(s \o r)
<1> DEFINE q == s \o r
<1>1. /\ q \in Seq(S) /\ Len(q) = Len(s) + Len(r)
      /\ \A i \in 1 .. Len(s) : q[i] = s[i]
      /\ \A i \in 1 .. Len(r) : q[Len(s) + i] = r[i]
  OBVIOUS
<1>2. DOMAIN s = 1 .. Len(s) /\ DOMAIN r = 1 .. Len(r) /\ DOMAIN q = 1 .. Len(s) + Len(r)
      /\ Len(s) \in Nat /\ Len(r) \in Nat
  BY <1>1
<1> HIDE DEF q
<1>3. \A i \in DOMAIN q :
        \/ i \in DOMAIN s /\ q[i] = s[i]
        \/ i \notin DOMAIN s /\ i - Len(s) \in DOMAIN r /\ q[i] = r[i - Len(s)]
  <2> TAKE i \in DOMAIN q
  <2>1. CASE i \in DOMAIN s
    BY <1>1, <1>2, <2>1
  <2>2. CASE i \notin DOMAIN s
    <3>1. i - Len(s) \in 1 .. Len(r) /\ Len(s) + (i - Len(s)) = i
      BY <1>2, <2>2
    <3> QED BY <1>1, <1>2, <2>2, <3>1
  <2> QED BY <2>1, <2>2
<1>4. ToSet(q) = ToSet(s) \cup ToSet(r)
  <2>1. ASSUME NEW i \in DOMAIN q PROVE q[i] \in ToSet(s) \cup ToSet(r)
    BY <1>3 DEF ToSet
  <2>2. ASSUME NEW i \in DOMAIN s PROVE s[i] \in ToSet(q)
    BY <1>1, <1>2 DEF ToSet
  <2>3. ASSUME NEW i \in DOMAIN r PROVE r[i] \in ToSet(q)
    <3>1. Len(s) + i \in DOMAIN q
      BY <1>2
    <3> QED BY <1>1, <1>2, <3>1 DEF ToSet
  <2> QED BY <2>1, <2>2, <2>3 DEF ToSet
<1>5. IsInjective(s) /\ IsInjective(r) /\ ToSet(s) \cap ToSet(r) = {} => IsInjective(q)
  <2> SUFFICES ASSUME IsInjective(s), IsInjective(r), ToSet(s) \cap ToSet(r) = {},
                      NEW i \in DOMAIN q, NEW j \in DOMAIN q, q[i] = q[j]
               PROVE  i = j
    BY DEF IsInjective
  <2>1. \A a \in DOMAIN s, b \in DOMAIN r : s[a] # r[b]
    BY DEF ToSet
  <2>2. CASE i \in DOMAIN s /\ j \in DOMAIN s
    BY <1>3, <2>2 DEF IsInjective
  <2>3. CASE i \notin DOMAIN s /\ j \notin DOMAIN s
    <3>1. i - Len(s) = j - Len(s)
      BY <1>3, <2>3 DEF IsInjective
    <3> QED BY <3>1, <1>2
  <2> QED BY <1>3, <2>1, <2>2, <2>3
<1> QED BY <1>1, <1>4, <1>5 DEF q

LEMMA Single ==
  ASSUME NEW S, NEW x \in S
  PROVE  <<x>> \in Seq(S) /\ ToSet(<<x>>) = {x} /\ IsInjective(<<x>>)
BY DEF ToSet, IsInjective

LEMMA Sliced ==
  ASSUME NEW S, NEW s \in Seq(S), NEW a \in Nat, a >= 1, NEW b \in Nat, b <= Len(s)
  PROVE  /\ SubSeq(s, a, b) \in Seq(S)
         /\ ToSet(SubSeq(s, a, b)) = {s[i] : i \in a .. b}
         /\ IsInjective(s) => IsInjective(SubSeq(s, a, b))
<1> DEFINE r == SubSeq(s, a, b)
           n == IF a <= b THEN b - a + 1 ELSE 0
<1>0. a .. b \subseteq DOMAIN s
  OBVIOUS
<1>1. /\ r \in Seq(S) /\ Len(r) = n /\ n \in Nat
      /\ \A i \in 1 .. n : r[i] = s[a + i - 1]
  OBVIOUS
<1>2. DOMAIN r = 1 .. n
  BY <1>1
<1>3. \A i \in 1 .. n : a + i - 1 \in a .. b
  OBVIOUS
<1>4. \A j \in a .. b : j - a + 1 \in 1 .. n /\ a + (j - a + 1) - 1 = j
  OBVIOUS
<1> HIDE DEF r, n
<1>5. ToSet(r) = {s[i] : i \in a .. b}
  <2>1. ASSUME NEW i \in DOMAIN r PROVE r[i] \in {s[k] : k \in a .. b}
    BY <1>1, <1>2, <1>3
  <2>2. ASSUME NEW j \in a .. b PROVE s[j] \in ToSet(r)
    <3>1. r[j - a + 1] = s[j]
      BY <1>1, <1>4
    <3> QED BY <3>1, <1>2, <1>4 DEF ToSet
  <2> QED BY <2>1, <2>2 DEF ToSet
<1>6. IsInjective(s) => IsInjective(r)
  <2> SUFFICES ASSUME IsInjective(s), NEW i \in DOMAIN r, NEW j \in DOMAIN r, r[i] = r[j]
               PROVE  i = j
    BY DEF IsInjective
  <2>1. s[a + i - 1] = s[a + j - 1] /\ a + i - 1 \in DOMAIN s /\ a + j - 1 \in DOMAIN s
    BY <1>0, <1>1, <1>2, <1>3
  <2>2. a + i - 1 = a + j - 1
    BY <2>1 DEF IsInjective
  <2> QED BY <2>2, <1>1, <1>2
<1> QED BY <1>1, <1>5, <1>6 DEF r

(* The head and the rest, the last and the front.                            *)
LEMMA Ends ==
  ASSUME NEW S, NEW s \in Seq(S), s # <<>>
  PROVE  /\ Head(s) \in ToSet(s) /\ Tail(s) \in Seq(S)
         /\ ToSet(s) = {Head(s)} \cup ToSet(Tail(s))
         /\ IsInjective(s) => IsInjective(Tail(s)) /\ Head(s) \notin ToSet(Tail(s))
         /\ Last(s) \in ToSet(s) /\ Front(s) \in Seq(S)
         /\ ToSet(s) = {Last(s)} \cup ToSet(Front(s))
         /\ IsInjective(s) => IsInjective(Front(s)) /\ Last(s) \notin ToSet(Front(s))
<1>1. Len(s) \in Nat /\ Len(s) >= 1 /\ DOMAIN s = 1 .. Len(s)
  OBVIOUS
<1>2. Tail(s) = SubSeq(s, 2, Len(s)) /\ Head(s) = s[1]
  OBVIOUS
<1>3. /\ Tail(s) \in Seq(S) /\ ToSet(Tail(s)) = {s[i] : i \in 2 .. Len(s)}
      /\ IsInjective(s) => IsInjective(Tail(s))
  <2>1. 2 \in Nat /\ 2 >= 1 /\ Len(s) \in Nat /\ Len(s) <= Len(s)
    BY <1>1
  <2>2. /\ SubSeq(s, 2, Len(s)) \in Seq(S) /\ ToSet(SubSeq(s, 2, Len(s))) = {s[i] : i \in 2 .. Len(s)}
        /\ IsInjective(s) => IsInjective(SubSeq(s, 2, Len(s)))
    BY <2>1, Sliced
  <2> QED BY <2>2, <1>2
<1>4. /\ Front(s) \in Seq(S) /\ ToSet(Front(s)) = {s[i] : i \in 1 .. Len(s) - 1}
      /\ IsInjective(s) => IsInjective(Front(s))
  BY <1>1, Sliced, Len(s) - 1 \in Nat, Len(s) - 1 <= Len(s), 1 >= 1 DEF Front
<1>5. 1 .. Len(s) = {1} \cup 2 .. Len(s) /\ 1 .. Len(s) = {Len(s)} \cup 1 .. Len(s) - 1
  BY <1>1
<1>6. ToSet(s) = {Head(s)} \cup ToSet(Tail(s)) /\ ToSet(s) = {Last(s)} \cup ToSet(Front(s))
  BY <1>1, <1>2, <1>3, <1>4, <1>5 DEF ToSet, Last
<1>7. IsInjective(s) => Head(s) \notin ToSet(Tail(s))
  BY <1>1, <1>2, <1>3 DEF IsInjective
<1>8. IsInjective(s) => Last(s) \notin ToSet(Front(s))
  BY <1>1, <1>4 DEF IsInjective, Last
<1> QED BY <1>3, <1>4, <1>6, <1>7, <1>8

(* wl_list_remove.                                                           *)
LEMMA Removed ==
  ASSUME NEW S, NEW s \in Seq(S), NEW x
  PROVE  /\ RemoveFirst(s, x) \in Seq(S)
         /\ ToSet(RemoveFirst(s, x)) \subseteq ToSet(s)
         /\ ToSet(s) \ {x} \subseteq ToSet(RemoveFirst(s, x))
         /\ IsInjective(s) => IsInjective(RemoveFirst(s, x)) /\ x \notin ToSet(RemoveFirst(s, x))
<1> DEFINE k == IndexOf(s, x)
<1>1. CASE x \notin ToSet(s)
  <2>1. ~ \E i \in 1 .. Len(s) : s[i] = x
    BY <1>1 DEF ToSet
  <2>2. RemoveFirst(s, x) = s
    BY <2>1 DEF RemoveFirst
  <2> QED BY <1>1, <2>2
<1>2. CASE x \in ToSet(s)
  <2>1. k \in 1 .. Len(s) /\ s[k] = x /\ DOMAIN s = 1 .. Len(s) /\ Len(s) \in Nat
    BY <1>2, IndexIs
  <2>2. RemoveFirst(s, x) = RemoveAt(s, k)
    BY <1>2, <2>1 DEF RemoveFirst, IndexOf
  <2> HIDE DEF k
  <2> DEFINE a == SubSeq(s, 1, k - 1)
             b == SubSeq(s, k + 1, Len(s))
  <2>3. RemoveFirst(s, x) = a \o b
    BY <2>2 DEF RemoveAt
  <2>4. /\ a \in Seq(S) /\ ToSet(a) = {s[i] : i \in 1 .. k - 1}
        /\ IsInjective(s) => IsInjective(a)
    BY <2>1, Sliced, k - 1 \in Nat, k - 1 <= Len(s), 1 >= 1
  <2>5. /\ b \in Seq(S) /\ ToSet(b) = {s[i] : i \in k + 1 .. Len(s)}
        /\ IsInjective(s) => IsInjective(b)
    BY <2>1, Sliced, k + 1 \in Nat, Len(s) <= Len(s), k + 1 >= 1
  <2> HIDE DEF a, b
  <2>6. ToSet(s) = {x} \cup ToSet(a) \cup ToSet(b)
    <3>1. 1 .. Len(s) = {k} \cup 1 .. k - 1 \cup k + 1 .. Len(s)
      BY <2>1
    <3> QED BY <3>1, <2>1, <2>4, <2>5 DEF ToSet
  <2>7. IsInjective(s) => x \notin ToSet(a) \cup ToSet(b) /\ ToSet(a) \cap ToSet(b) = {}
    <3>1. \A i \in 1 .. k - 1 : i \in DOMAIN s /\ i # k
      BY <2>1
    <3>2. \A i \in k + 1 .. Len(s) : i \in DOMAIN s /\ i # k
      BY <2>1
    <3>3. \A i \in 1 .. k - 1, j \in k + 1 .. Len(s) : i # j
      BY <2>1
    <3> QED BY <3>1, <3>2, <3>3, <2>1, <2>4, <2>5 DEF IsInjective
  <2>8. /\ a \o b \in Seq(S)
        /\ ToSet(a \o b) = ToSet(a) \cup ToSet(b)
        /\ IsInjective(a) /\ IsInjective(b) /\ ToSet(a) \cap ToSet(b) = {} => IsInjective(a \o b)
    BY <2>4, <2>5, Joined
  <2> QED BY <2>3, <2>4, <2>5, <2>6, <2>7, <2>8
<1> QED BY <1>1, <1>2

LEMMA Reversed ==
  ASSUME NEW S, NEW s \in Seq(S)
  PROVE  /\ Reverse(s) \in Seq(S)
         /\ ToSet(Reverse(s)) = ToSet(s)
         /\ IsInjective(s) => IsInjective(Reverse(s))
<1> DEFINE r == Reverse(s)
<1>1. Len(s) \in Nat /\ DOMAIN s = 1 .. Len(s) /\ \A i \in 1 .. Len(s) : s[i] \in S
  OBVIOUS
<1>2. r \in Seq(S) /\ DOMAIN r = 1 .. Len(s) /\ \A i \in 1 .. Len(s) : r[i] = s[(Len(s) - i) + 1]
  BY <1>1 DEF Reverse
<1>3. \A i \in 1 .. Len(s) : (Len(s) - i) + 1 \in 1 .. Len(s) /\ (Len(s) - ((Len(s) - i) + 1)) + 1 = i
  BY <1>1
<1> HIDE DEF r
<1>4. ToSet(r) = ToSet(s)
  BY <1>1, <1>2, <1>3 DEF ToSet
<1>5. IsInjective(s) => IsInjective(r)
  <2> SUFFICES ASSUME IsInjective(s), NEW i \in DOMAIN r, NEW j \in DOMAIN r, r[i] = r[j]
               PROVE  i = j
    BY DEF IsInjective
  <2>1. (Len(s) - i) + 1 = (Len(s) - j) + 1
    BY <1>1, <1>2, <1>3 DEF IsInjective
  <2> QED BY <2>1, <1>1, <1>2
<1> QED BY <1>2, <1>4, <1>5 DEF r

LEMMA Inserted ==
  ASSUME NEW S, NEW s \in Seq(S), NEW i \in 1 .. Len(s) + 1, NEW x \in S
  PROVE  /\ InsertAt(s, i, x) \in Seq(S)
         /\ ToSet(InsertAt(s, i, x)) = ToSet(s) \cup {x}
         /\ IsInjective(s) /\ x \notin ToSet(s) => IsInjective(InsertAt(s, i, x))
<1> DEFINE a == SubSeq(s, 1, i - 1)
           b == SubSeq(s, i, Len(s))
<1>0. Len(s) \in Nat /\ DOMAIN s = 1 .. Len(s) /\ i \in Nat /\ i >= 1 /\ i - 1 \in Nat /\ i - 1 <= Len(s)
  OBVIOUS
<1>1. /\ a \in Seq(S) /\ ToSet(a) = {s[j] : j \in 1 .. i - 1}
      /\ IsInjective(s) => IsInjective(a)
  BY <1>0, Sliced, 1 >= 1, 1 \in Nat
<1>2. /\ b \in Seq(S) /\ ToSet(b) = {s[j] : j \in i .. Len(s)}
      /\ IsInjective(s) => IsInjective(b)
  BY <1>0, Sliced, Len(s) <= Len(s)
<1> HIDE DEF a, b
<1>3. ToSet(s) = ToSet(a) \cup ToSet(b)
  <2>1. 1 .. Len(s) = 1 .. i - 1 \cup i .. Len(s)
    BY <1>0
  <2> QED BY <2>1, <1>0, <1>1, <1>2 DEF ToSet
<1>4. IsInjective(s) => ToSet(a) \cap ToSet(b) = {}
  <2>1. \A j \in 1 .. i - 1, k \in i .. Len(s) : j # k /\ j \in DOMAIN s /\ k \in DOMAIN s
    BY <1>0
  <2> QED BY <2>1, <1>1, <1>2 DEF IsInjective
<1>5. /\ a \o <<x>> \in Seq(S)
      /\ ToSet(a \o <<x>>) = ToSet(a) \cup {x}
      /\ IsInjective(a) /\ x \notin ToSet(a) => IsInjective(a \o <<x>>)
  <2>1. <<x>> \in Seq(S) /\ ToSet(<<x>>) = {x} /\ IsInjective(<<x>>)
    BY Single
  <2>2. /\ a \o <<x>> \in Seq(S)
        /\ ToSet(a \o <<x>>) = ToSet(a) \cup ToSet(<<x>>)
        /\ IsInjective(a) /\ IsInjective(<<x>>) /\ ToSet(a) \cap ToSet(<<x>>) = {} => IsInjective(a \o <<x>>)
    BY <1>1, <2>1, Joined
  <2> QED BY <2>1, <2>2
<1>6. InsertAt(s, i, x) = (a \o <<x>>) \o b
  BY DEF InsertAt, a, b
<1>7. /\ (a \o <<x>>) \o b \in Seq(S)
      /\ ToSet((a \o <<x>>) \o b) = ToSet(a \o <<x>>) \cup ToSet(b)
      /\ IsInjective(a \o <<x>>) /\ IsInjective(b) /\ ToSet(a \o <<x>>) \cap ToSet(b) = {}
           => IsInjective((a \o <<x>>) \o b)
  BY <1>2, <1>5, Joined
<1> QED BY <1>1, <1>2, <1>3, <1>4, <1>5, <1>6, <1>7

(* Two elements change places.                                               *)
LEMMA Swapped ==
  ASSUME NEW S, NEW s \in Seq(S), NEW a \in S, NEW b \in S, NEW r,
         r = [i \in DOMAIN s |-> IF s[i] = a THEN b ELSE IF s[i] = b THEN a ELSE s[i]]
  PROVE  /\ r \in Seq(S)
         /\ ToSet(r) = {IF x = a THEN b ELSE IF x = b THEN a ELSE x : x \in ToSet(s)}
         /\ IsInjective(s) => IsInjective(r)
<1>1. DOMAIN s = 1 .. Len(s) /\ Len(s) \in Nat /\ \A i \in DOMAIN s : s[i] \in S
  OBVIOUS
<1>2. DOMAIN r = DOMAIN s /\ r \in Seq(S)
  BY <1>1
<1>3. ToSet(r) = {IF x = a THEN b ELSE IF x = b THEN a ELSE x : x \in ToSet(s)}
  BY <1>2 DEF ToSet
<1>4. IsInjective(s) => IsInjective(r)
  BY <1>2 DEF IsInjective
<1> QED BY <1>2, <1>3, <1>4

-----------------------------------------------------------------------------
(* What the operators of Windows leave alone.                                *)

Listed == {"master", "slaves", "floats", "fullscreen", "ghosts", "due", "crashed"}

Moved == Listed \cup {"home", "state", "prev_state"}

(* e follows d, and only in these fields.                                    *)
Kept(d, e, fields) == Typed(e) /\ But(d, e, fields) /\ Later(d, e)

LEMMA KeptWider ==
  ASSUME NEW d, NEW e, NEW F, NEW G, Kept(d, e, F), F \subseteq G
  PROVE  Kept(d, e, G)
BY DEF Kept, But

LEMMA KeptTwice ==
  ASSUME NEW d, NEW e, NEW f, NEW F, Kept(d, e, F), Kept(e, f, F)
  PROVE  Kept(d, f, F)
BY DEF Kept, But, Later

LEMMA KeptSame == ASSUME NEW d, NEW F, Typed(d) PROVE Kept(d, d, F)
BY DEF Kept, But, Later, Typed

(* The groups of fields that are left alone.                                 *)
LEMMA OthersSame ==
  ASSUME NEW d, Typed(d), NEW e, But(d, e, Moved)
  PROVE  SpaceTypes(e) /\ FocusTypes(e) /\ GrabTypes(e)
<1>1. /\ e.output = d.output /\ e.spaces = d.spaces /\ e.dummy = d.dummy /\ e.act = d.act
      /\ e.presented = d.presented /\ e.outputs = d.outputs /\ e.plugged = d.plugged
      /\ e.active = d.active
  BY DEF But, Moved, Listed, Fields, Typed
<1>2. /\ e.focused = d.focused /\ e.layer = d.layer /\ e.exclusive = d.exclusive
      /\ e.panel = d.panel /\ e.on = d.on /\ e.want = d.want /\ e.panels = d.panels
  BY DEF But, Moved, Listed, Fields, Typed
<1>3. /\ e.operation = d.operation /\ e.grabbed = d.grabbed /\ e.server_inited = d.server_inited
      /\ e.icon = d.icon /\ e.key = d.key /\ e.held = d.held /\ e.cursor = d.cursor
      /\ e.pointer = d.pointer
  BY DEF But, Moved, Listed, Fields, Typed
<1>4. SpaceTypes(e)
  BY <1>1 DEF Typed, SpaceTypes
<1>5. FocusTypes(e)
  BY <1>2 DEF Typed, FocusTypes
<1>6. GrabTypes(e)
  BY <1>3 DEF Typed, GrabTypes
<1> QED BY <1>4, <1>5, <1>6

LEMMA WindowsSame ==
  ASSUME NEW d, Typed(d), NEW e, NEW F, But(d, e, F),
         F \cap (Moved \cup {"life", "shown", "fresh"}) \subseteq {"crashed"}
  PROVE  WindowTypes(e) /\ ListTypes(e)
<1>1. WindowTypes(e)
  BY DEF But, Moved, Listed, Fields, Typed, WindowTypes
<1>2. ListTypes(e)
  BY DEF But, Moved, Listed, Fields, Typed, ListTypes
<1> QED BY <1>1, <1>2

LEMMA Fails ==
  ASSUME NEW d, Typed(d), NEW why, why # "none"
  PROVE  /\ Kept(d, Fail(d, why), {"crashed"})
         /\ Fail(d, why).crashed # "none"
<1>1. DOMAIN Fail(d, why) = Fields /\ But(d, Fail(d, why), {"crashed"})
  BY DEF Typed, Fail, But, Fields
<1>2. Fail(d, why).crashed # "none" /\ Later(d, Fail(d, why))
  BY DEF Typed, Fail, Later, Fields
<1>3. Typed(Fail(d, why))
  BY <1>1, OthersSame, WindowsSame DEF Typed, But, Moved, Listed
<1> QED BY <1>1, <1>2, <1>3 DEF Kept

LEMMA MovedTyped ==
  ASSUME NEW d, Typed(d), NEW e, But(d, e, Moved), WindowTypes(e), ListTypes(e)
  PROVE  Typed(e)
BY OthersSame DEF But, Typed

LEMMA UnlinkKept ==
  ASSUME NEW d, Typed(d), NEW t \in Toplevel
  PROVE  Kept(d, Unlink(d, t), {"floats", "slaves", "ghosts", "crashed"})
<1> DEFINE e == Unlink(d, t)
<1>1. CASE ~Linked(d, t)
  BY <1>1, Fails, KeptWider DEF Unlink
<1>2. CASE Linked(d, t)
  <2>1. But(d, e, {"floats", "slaves", "ghosts", "crashed"}) /\ Later(d, e)
    BY <1>2 DEF Unlink, But, Later, Typed, Fields
  <2>2. \A w \in Workspace : RemoveFirst(d.floats[w], t) \in Seq(Toplevel) /\ RemoveFirst(d.slaves[w], t) \in Seq(Toplevel)
    BY Removed DEF Typed, ListTypes
  <2>3. WindowTypes(e) /\ ListTypes(e)
    BY <1>2, <2>2 DEF Unlink, Typed, WindowTypes, ListTypes, Fields
  <2> QED BY <2>1, <2>3, MovedTyped DEF Kept, But, Moved, Listed
<1> QED BY <1>1, <1>2

LEMMA PushFloatKept ==
  ASSUME NEW d, Typed(d), NEW w, NEW t \in Toplevel
  PROVE  Kept(d, PushFloat(d, w, t), {"floats", "crashed"})
<1> DEFINE e == PushFloat(d, w, t)
<1>1. CASE Linked(d, t)
  BY <1>1, Fails, KeptWider DEF PushFloat
<1>2. CASE ~Linked(d, t)
  <2>1. But(d, e, {"floats", "crashed"}) /\ Later(d, e)
    BY <1>2 DEF PushFloat, But, Later, Typed, Fields
  <2>2. \A v \in Workspace : <<t>> \o d.floats[v] \in Seq(Toplevel)
    BY DEF Typed, ListTypes
  <2>3. WindowTypes(e) /\ ListTypes(e)
    BY <1>2, <2>2 DEF PushFloat, Typed, WindowTypes, ListTypes, Fields
  <2> QED BY <2>1, <2>3, MovedTyped DEF Kept, But, Moved, Listed
<1> QED BY <1>1, <1>2

LEMMA LayoutAddKept ==
  ASSUME NEW d, Typed(d), NEW w, NEW t \in Toplevel
  PROVE  Kept(d, LayoutAdd(d, w, t), {"master", "slaves", "crashed"})
<1> DEFINE e == LayoutAdd(d, w, t)
<1>1. CASE d.master[w] # None /\ Linked(d, t)
  BY <1>1, Fails, KeptWider DEF LayoutAdd
<1>2. CASE d.master[w] = None \/ ~Linked(d, t)
  <2>1. But(d, e, {"master", "slaves", "crashed"}) /\ Later(d, e)
    BY <1>2 DEF LayoutAdd, But, Later, Typed, Fields
  <2>2. WindowTypes(e)
    BY <2>1 DEF Typed, WindowTypes, But, Fields
  <2>3. /\ e.floats = d.floats /\ e.fullscreen = d.fullscreen
        /\ e.master = d.master \/ e.master = [d.master EXCEPT ![w] = t]
        /\ e.slaves = d.slaves \/ e.slaves = [d.slaves EXCEPT ![w] = Append(d.slaves[w], t)]
    BY <1>2 DEF LayoutAdd, Typed, Fields
  <2>4. ListTypes(e)
    <3>1. [d.slaves EXCEPT ![w] = Append(d.slaves[w], t)] \in [Workspace -> Seq(Toplevel)]
      <4>1. CASE w \in Workspace
        BY <4>1, Append(d.slaves[w], t) \in Seq(Toplevel) DEF Typed, ListTypes
      <4>2. CASE w \notin Workspace
        BY <4>2 DEF Typed, ListTypes
      <4> QED BY <4>1, <4>2
    <3> QED BY <2>3, <3>1 DEF Typed, ListTypes
  <2> QED BY <2>1, <2>2, <2>4, MovedTyped DEF Kept, But, Moved, Listed
<1> QED BY <1>1, <1>2

LEMMA FrontTyped ==
  ASSUME NEW S, NEW s \in Seq(S)
  PROVE  /\ LastOrNone(s) \in S \cup {None} /\ FirstOrNone(s) \in S \cup {None}
         /\ (IF s = <<>> THEN s ELSE Front(s)) \in Seq(S)
BY Ends, Elements DEF LastOrNone, FirstOrNone

LEMMA PromoteKept ==
  ASSUME NEW d, Typed(d), NEW w
  PROVE  Kept(d, Promote(d, w), {"master", "slaves"})
<1> DEFINE e == Promote(d, w)
<1>1. But(d, e, {"master", "slaves"}) /\ Later(d, e)
  BY DEF Promote, But, Later, Typed, Fields
<1>2. ASSUME w \in Workspace
      PROVE  /\ LastOrNone(d.slaves[w]) \in Toplevel \cup {None}
             /\ (IF d.slaves[w] = <<>> THEN d.slaves[w] ELSE Front(d.slaves[w])) \in Seq(Toplevel)
  BY <1>2, FrontTyped DEF Typed, ListTypes
<1>3. WindowTypes(e)
  BY <1>1 DEF Typed, WindowTypes, But, Fields
<1>4. ListTypes(e)
  BY <1>2 DEF Promote, Typed, ListTypes, Fields
<1> QED BY <1>1, <1>3, <1>4, MovedTyped DEF Kept, But, Moved, Listed

LEMMA LayoutRemoveKept ==
  ASSUME NEW d, Typed(d), NEW t \in Toplevel
  PROVE  Kept(d, LayoutRemove(d, t), Listed)
BY PromoteKept, UnlinkKept, KeptWider DEF LayoutRemove, Listed

LEMMA ConfigureKept ==
  ASSUME NEW d, Typed(d), NEW w
  PROVE  Kept(d, Configure(d, w), {"due", "crashed"})
<1> DEFINE e == Configure(d, w)
<1>1. CASE e = d
  BY <1>1, KeptSame
<1>2. CASE e = [d EXCEPT !.due = TRUE]
  <2>1. But(d, e, {"due", "crashed"}) /\ Later(d, e)
    BY <1>2 DEF But, Later, Typed, Fields
  <2>2. WindowTypes(e) /\ ListTypes(e)
    BY <1>2 DEF Typed, WindowTypes, ListTypes, Fields
  <2> QED BY <2>1, <2>2, MovedTyped DEF Kept, But, Moved, Listed
<1>3. CASE e = Fail(d, "configured unmapped") \/ e = Fail(d, "freed workspace")
  BY <1>3, Fails, KeptWider
<1> QED BY <1>1, <1>2, <1>3 DEF Configure

LEMMA FullscreenKept ==
  ASSUME NEW d, Typed(d), NEW w, NEW t \in Toplevel \cup {None}
  PROVE  Kept(d, [d EXCEPT !.fullscreen[w] = t], {"fullscreen"})
<1> DEFINE e == [d EXCEPT !.fullscreen[w] = t]
<1>1. But(d, e, {"fullscreen"}) /\ Later(d, e)
  BY DEF But, Later, Typed, Fields
<1>2. WindowTypes(e) /\ ListTypes(e)
  BY DEF Typed, WindowTypes, ListTypes, Fields
<1> QED BY <1>1, <1>2, MovedTyped DEF Kept, But, Moved, Listed

LEMMA StateKept ==
  ASSUME NEW d, Typed(d), NEW t \in Toplevel, NEW st \in State
  PROVE  Kept(d, [d EXCEPT !.state[t] = st], {"state"})
<1> DEFINE e == [d EXCEPT !.state[t] = st]
<1>1. But(d, e, {"state"}) /\ Later(d, e)
  BY DEF But, Later, Typed, Fields
<1>2. WindowTypes(e) /\ ListTypes(e)
  BY DEF Typed, WindowTypes, ListTypes, Fields
<1> QED BY <1>1, <1>2, MovedTyped DEF Kept, But, Moved, Listed

LEMMA LeaveStateKept ==
  ASSUME NEW d, Typed(d), NEW t \in Toplevel
  PROVE  Kept(d, LeaveState(d, t), Listed)
<1>1. d.state[t] \in State
  BY DEF Typed, WindowTypes
<1>2. CASE d.state[t] = "TILED"
  <2>1. Kept(d, LayoutRemove(d, t), Listed)
    BY LayoutRemoveKept
  <2>2. Kept(LayoutRemove(d, t), Configure(LayoutRemove(d, t), d.home[t]), Listed)
    BY <2>1, ConfigureKept, KeptWider DEF Kept, Listed
  <2> QED BY <1>2, <2>1, <2>2, KeptTwice DEF LeaveState
<1>3. CASE d.state[t] = "FLOAT"
  BY <1>3, UnlinkKept, KeptWider DEF LeaveState, Listed
<1>4. CASE d.state[t] = "FULLSCREEN"
  BY <1>4, FullscreenKept, KeptWider DEF LeaveState, Listed
<1> QED BY <1>1, <1>2, <1>3, <1>4 DEF State

LEMMA SetTiledKept ==
  ASSUME NEW d, Typed(d), NEW t \in Toplevel
  PROVE  Kept(d, SetTiled(d, t), Moved)
<1> DEFINE a == LeaveState(d, t)
           b == [a EXCEPT !.state[t] = "TILED"]
           c == LayoutAdd(b, d.home[t], t)
<1>1. Kept(d, a, Moved)
  BY LeaveStateKept, KeptWider DEF Moved
<1> HIDE DEF a
<1>2. Kept(a, b, Moved)
  BY <1>1, StateKept, KeptWider DEF Kept, Moved, State
<1> HIDE DEF b
<1>3. Kept(b, c, Moved)
  BY <1>2, LayoutAddKept, KeptWider DEF Kept, Moved, Listed
<1> HIDE DEF c
<1>4. Kept(c, Configure(c, d.home[t]), Moved)
  BY <1>3, ConfigureKept, KeptWider DEF Kept, Moved, Listed
<1>5. SetTiled(d, t) = Configure(c, d.home[t])
  BY DEF SetTiled, c, b, a
<1> QED BY <1>1, <1>2, <1>3, <1>4, <1>5, KeptTwice

LEMMA AskKept ==
  ASSUME NEW d, Typed(d), NEW t
  PROVE  Kept(d, Ask(d, t), {"due", "crashed"})
<1> DEFINE e == Ask(d, t)
<1>1. CASE d.life[t] # "mapped"
  BY <1>1, Fails, KeptWider DEF Ask
<1>2. CASE d.life[t] = "mapped"
  <2>1. But(d, e, {"due", "crashed"}) /\ Later(d, e)
    BY <1>2 DEF Ask, But, Later, Typed, Fields
  <2>2. WindowTypes(e) /\ ListTypes(e)
    BY <1>2 DEF Ask, Typed, WindowTypes, ListTypes, Fields
  <2> QED BY <2>1, <2>2, MovedTyped DEF Kept, But, Moved, Listed
<1> QED BY <1>1, <1>2

LEMMA SetFloatKept ==
  ASSUME NEW d, Typed(d), NEW t \in Toplevel
  PROVE  Kept(d, SetFloat(d, t), Moved)
<1> DEFINE a == LeaveState(d, t)
           b == Ask(a, t)
           c == [b EXCEPT !.state[t] = "FLOAT"]
<1>1. Kept(d, a, Moved)
  BY LeaveStateKept, KeptWider DEF Moved
<1> HIDE DEF a
<1>2. Kept(a, b, Moved)
  BY <1>1, AskKept, KeptWider DEF Kept, Moved, Listed
<1> HIDE DEF b
<1>3. Kept(b, c, Moved)
  BY <1>2, StateKept, KeptWider DEF Kept, Moved, State
<1> HIDE DEF c
<1>4. Kept(c, PushFloat(c, d.home[t], t), Moved)
  BY <1>3, PushFloatKept, KeptWider DEF Kept, Moved, Listed
<1>5. SetFloat(d, t) = PushFloat(c, d.home[t], t)
  BY DEF SetFloat, c, b, a
<1> QED BY <1>1, <1>2, <1>3, <1>4, <1>5, KeptTwice

LEMMA SetFullscreenKept ==
  ASSUME NEW d, Typed(d), NEW t \in Toplevel, d.state[t] # "FULLSCREEN"
  PROVE  Kept(d, SetFullscreen(d, t), Moved)
<1> DEFINE a == LeaveState(d, t)
           b == Ask(a, t)
           c == [b EXCEPT !.prev_state[t] = d.state[t],
                          !.fullscreen[d.home[t]] = t,
                          !.state[t] = "FULLSCREEN"]
<1>1. Kept(d, a, Moved)
  BY LeaveStateKept, KeptWider DEF Moved
<1> HIDE DEF a
<1>2. Kept(a, b, Moved)
  BY <1>1, AskKept, KeptWider DEF Kept, Moved, Listed
<1> HIDE DEF b
<1>3. Kept(b, c, Moved)
  <2>1. But(b, c, Moved) /\ Later(b, c)
    BY <1>2 DEF Kept, But, Later, Typed, Fields, Moved, Listed
  <2>2. d.state[t] \in {"TILED", "FLOAT"}
    BY DEF Typed, WindowTypes, State
  <2>3. WindowTypes(c)
    BY <1>2, <2>2 DEF Kept, Typed, WindowTypes, Fields, State
  <2>4. ListTypes(c)
    BY <1>2 DEF Kept, Typed, ListTypes, Fields
  <2> QED BY <1>2, <2>1, <2>3, <2>4, MovedTyped DEF Kept
<1> HIDE DEF c
<1>4. SetFullscreen(d, t) \in {d, c}
  BY DEF SetFullscreen, c, b, a
<1> QED BY <1>1, <1>2, <1>3, <1>4, KeptTwice, KeptSame

LEMMA SetStateKept ==
  ASSUME NEW d, Typed(d), NEW t \in Toplevel, NEW st \in State
  PROVE  Kept(d, SetState(d, t, st), Moved)
<1>1. CASE t = d.grabbed \/ d.state[t] = st
  BY <1>1, KeptSame DEF SetState
<1>2. CASE ~(t = d.grabbed \/ d.state[t] = st) /\ ~Exists(d, d.home[t])
  BY <1>2, Fails, KeptWider DEF SetState, Moved, Listed
<1>3. CASE ~(t = d.grabbed \/ d.state[t] = st) /\ Exists(d, d.home[t])
  BY <1>3, SetTiledKept, SetFloatKept, SetFullscreenKept DEF SetState, State
<1> QED BY <1>1, <1>2, <1>3

LEMMA MoveToWorkspaceKept ==
  ASSUME NEW d, Typed(d), NEW t \in Toplevel, NEW w \in Workspace
  PROVE  Kept(d, MoveToWorkspace(d, t, w), Moved)
<1> DEFINE old == d.home[t]
<1>1. CASE t = d.grabbed \/ old = w
  BY <1>1, KeptSame DEF MoveToWorkspace
<1>2. CASE ~(t = d.grabbed \/ old = w) /\ ~Exists(d, old)
  BY <1>2, Fails, KeptWider DEF MoveToWorkspace, Moved, Listed
<1>3. CASE ~(t = d.grabbed \/ old = w) /\ Exists(d, old) /\ d.state[t] = "TILED"
  <2> DEFINE a == LayoutRemove(d, t)
             b == LayoutAdd(a, w, t)
             c == [b EXCEPT !.home[t] = w]
             e == Configure(c, old)
  <2>1. Kept(d, a, Moved)
    BY LayoutRemoveKept, KeptWider DEF Moved
  <2> HIDE DEF a
  <2>2. Kept(a, b, Moved)
    BY <2>1, LayoutAddKept, KeptWider DEF Kept, Moved, Listed
  <2> HIDE DEF b
  <2>3. Kept(b, c, Moved)
    <3>1. But(b, c, Moved) /\ Later(b, c)
      BY <2>2 DEF Kept, But, Later, Typed, Fields, Moved, Listed
    <3>2. WindowTypes(c) /\ ListTypes(c)
      BY <2>2 DEF Kept, Typed, WindowTypes, ListTypes, Fields
    <3> QED BY <2>2, <3>1, <3>2, MovedTyped DEF Kept
  <2> HIDE DEF c
  <2>4. Kept(c, e, Moved)
    BY <2>3, ConfigureKept, KeptWider DEF Kept, Moved, Listed
  <2> HIDE DEF e
  <2>5. Kept(e, Configure(e, w), Moved)
    BY <2>4, ConfigureKept, KeptWider DEF Kept, Moved, Listed
  <2>6. MoveToWorkspace(d, t, w) = Configure(e, w)
    BY <1>3 DEF MoveToWorkspace, e, c, b, a
  <2> QED BY <2>1, <2>2, <2>3, <2>4, <2>5, <2>6, KeptTwice
<1>4. CASE ~(t = d.grabbed \/ old = w) /\ Exists(d, old) /\ d.state[t] = "FLOAT"
  <2> DEFINE a == Unlink(d, t)
             b == [a EXCEPT !.home[t] = w, !.due = @ \/ d.output[old] # d.output[w]]
  <2>1. Kept(d, a, Moved)
    BY UnlinkKept, KeptWider DEF Moved, Listed
  <2> HIDE DEF a
  <2>2. Kept(a, b, Moved)
    <3>1. But(a, b, Moved) /\ Later(a, b)
      BY <2>1 DEF Kept, But, Later, Typed, Fields, Moved, Listed
    <3>2. WindowTypes(b)
      BY <2>1 DEF Kept, Typed, WindowTypes, Fields
    <3>3. ListTypes(b)
      BY <2>1 DEF Kept, Typed, ListTypes, Fields
    <3> QED BY <2>1, <3>1, <3>2, <3>3, MovedTyped DEF Kept
  <2> HIDE DEF b
  <2>3. Kept(b, PushFloat(b, w, t), Moved)
    BY <2>2, PushFloatKept, KeptWider DEF Kept, Moved, Listed
  <2>4. MoveToWorkspace(d, t, w) = PushFloat(b, w, t)
    BY <1>4 DEF MoveToWorkspace, b, a
  <2> QED BY <2>1, <2>2, <2>3, <2>4, KeptTwice
<1>5. CASE ~(t = d.grabbed \/ old = w) /\ Exists(d, old) /\ d.state[t] = "FULLSCREEN"
  <2> DEFINE e == [d EXCEPT !.fullscreen[old] = None, !.fullscreen[w] = t, !.home[t] = w, !.due = TRUE]
  <2>1. But(d, e, Moved) /\ Later(d, e)
    BY DEF But, Later, Typed, Fields, Moved, Listed
  <2>2. WindowTypes(e)
    BY DEF Typed, WindowTypes, Fields
  <2>3. ListTypes(e)
    BY DEF Typed, ListTypes, Fields
  <2>4. MoveToWorkspace(d, t, w) = e
    BY <1>5 DEF MoveToWorkspace
  <2> QED BY <2>1, <2>2, <2>3, <2>4, MovedTyped DEF Kept
<1>6. d.state[t] \in State
  BY DEF Typed, WindowTypes
<1> QED BY <1>1, <1>2, <1>3, <1>4, <1>5, <1>6 DEF State

LEMMA RaiseKept ==
  ASSUME NEW d, Typed(d), NEW t \in Toplevel
  PROVE  Kept(d, Raise(d, t), Listed)
<1>1. Kept(d, Unlink(d, t), Listed)
  BY UnlinkKept, KeptWider DEF Listed
<1>2. Kept(Unlink(d, t), PushFloat(Unlink(d, t), d.home[t], t), Listed)
  BY <1>1, PushFloatKept, KeptWider DEF Kept, Listed
<1> QED BY <1>1, <1>2, KeptTwice DEF Raise

LEMMA SwapLayoutKept ==
  ASSUME NEW d, Typed(d), NEW a \in Toplevel, NEW b \in Toplevel
  PROVE  Kept(d, SwapLayout(d, a, b), {"master", "slaves"})
<1> DEFINE w == d.home[a]
           e == SwapLayout(d, a, b)
           r == [i \in DOMAIN d.slaves[w] |->
                   IF d.slaves[w][i] = a THEN b ELSE IF d.slaves[w][i] = b THEN a ELSE d.slaves[w][i]]
<1>1. But(d, e, {"master", "slaves"}) /\ Later(d, e)
  BY DEF SwapLayout, But, Later, Typed, Fields
<1>2. ASSUME w \in Workspace PROVE r \in Seq(Toplevel)
  <2>1. d.slaves[w] \in Seq(Toplevel)
    BY <1>2 DEF Typed, ListTypes
  <2>2. \A q : q = r => q \in Seq(Toplevel)
    BY <2>1, Swapped
  <2> QED BY <2>2
<1>3. WindowTypes(e)
  BY <1>1 DEF Typed, WindowTypes, But, Fields
<1>4. /\ e.floats = d.floats /\ e.fullscreen = d.fullscreen
      /\ e.master = [d.master EXCEPT ![w] = IF d.master[w] = a THEN b ELSE IF d.master[w] = b THEN a ELSE d.master[w]]
      /\ e.slaves = [d.slaves EXCEPT ![w] = r]
  BY DEF SwapLayout, Typed, Fields
<1> HIDE DEF r
<1>5. ListTypes(e)
  <2>1. CASE w \in Workspace
    BY <2>1, <1>2, <1>4 DEF Typed, ListTypes
  <2>2. CASE w \notin Workspace
    <3>1. [d.slaves EXCEPT ![w] = r] \in [Workspace -> Seq(Toplevel)]
      BY <2>2 DEF Typed, ListTypes
    <3>2. e.master \in [Workspace -> Toplevel \cup {None}]
      BY <2>2, <1>4 DEF Typed, ListTypes
    <3> QED BY <3>1, <3>2, <1>4 DEF Typed, ListTypes
  <2> QED BY <2>1, <2>2
<1> QED BY <1>1, <1>3, <1>5, MovedTyped DEF Kept, But, Moved, Listed

-----------------------------------------------------------------------------
(* What the operators of Focus leave alone.                                  *)

Refocused == {"active", "act", "focused", "layer", "exclusive", "due", "crashed"}

(* An exclusive panel is mapped, and no toplevel believes to have the        *)
(* keyboard.                                                                 *)
Exclusive(d) ==
  d.exclusive => d.focused = None /\ d.layer # None /\ d.panel[d.layer] = "mapped"

FocusKept(d, e) == Kept(d, e, Refocused) /\ (Exclusive(d) => Exclusive(e))

LEMMA RefocusTyped ==
  ASSUME NEW d, Typed(d), NEW e, But(d, e, Refocused),
         e.active \in Workspace, e.act \in [Output -> Workspace \cup {None}],
         \A o \in d.plugged : e.act[o] # None,
         e.focused \in Toplevel \cup {None}, e.layer \in Layer \cup {None},
         e.exclusive \in BOOLEAN, e.due \in BOOLEAN
  PROVE  Typed(e)
<1>1. /\ e.life = d.life /\ e.state = d.state /\ e.prev_state = d.prev_state /\ e.home = d.home
      /\ e.ghosts = d.ghosts /\ e.shown = d.shown /\ e.fresh = d.fresh
  BY DEF But, Refocused, Fields, Typed
<1>2. /\ e.master = d.master /\ e.slaves = d.slaves /\ e.floats = d.floats
      /\ e.fullscreen = d.fullscreen
  BY DEF But, Refocused, Fields, Typed
<1>3. /\ e.output = d.output /\ e.spaces = d.spaces /\ e.dummy = d.dummy
      /\ e.presented = d.presented /\ e.outputs = d.outputs /\ e.plugged = d.plugged
  BY DEF But, Refocused, Fields, Typed
<1>4. /\ e.panel = d.panel /\ e.on = d.on /\ e.want = d.want /\ e.panels = d.panels
  BY DEF But, Refocused, Fields, Typed
<1>5. /\ e.operation = d.operation /\ e.grabbed = d.grabbed /\ e.server_inited = d.server_inited
      /\ e.icon = d.icon /\ e.key = d.key /\ e.held = d.held /\ e.cursor = d.cursor
      /\ e.pointer = d.pointer
  BY DEF But, Refocused, Fields, Typed
<1>6. WindowTypes(e)
  BY <1>1 DEF Typed, WindowTypes
<1>7. ListTypes(e)
  BY <1>2 DEF Typed, ListTypes
<1>8. SpaceTypes(e)
  BY <1>3 DEF Typed, SpaceTypes
<1>9. FocusTypes(e)
  BY <1>4 DEF Typed, FocusTypes
<1>10. GrabTypes(e)
  BY <1>5 DEF Typed, GrabTypes
<1> QED BY <1>6, <1>7, <1>8, <1>9, <1>10 DEF Typed, But

LEMMA FocusTwice ==
  ASSUME NEW d, NEW e, NEW f, FocusKept(d, e), FocusKept(e, f)
  PROVE  FocusKept(d, f)
BY KeptTwice DEF FocusKept

LEMMA FocusSame == ASSUME NEW d, Typed(d) PROVE FocusKept(d, d)
BY KeptSame DEF FocusKept

LEMMA FocusFails ==
  ASSUME NEW d, Typed(d), NEW why, why # "none"
  PROVE  FocusKept(d, Fail(d, why))
<1>1. Kept(d, Fail(d, why), {"crashed"})
  BY Fails
<1>2. Exclusive(d) => Exclusive(Fail(d, why))
  BY <1>1 DEF Kept, But, Exclusive, Fields, Typed
<1> QED BY <1>1, <1>2, KeptWider DEF FocusKept, Refocused

LEMMA DerefKept ==
  ASSUME NEW d, Typed(d), NEW t
  PROVE  FocusKept(d, Deref(d, t)) /\ Kept(d, Deref(d, t), {"crashed"})
BY FocusFails, FocusSame, Fails, KeptSame DEF Deref

LEMMA MakeActiveKept ==
  ASSUME NEW d, Typed(d), NEW w \in Workspace
  PROVE  FocusKept(d, MakeActive(d, w))
<1> DEFINE e == [d EXCEPT !.active = w, !.act[d.output[w]] = w, !.due = TRUE]
<1>1. CASE ~Exists(d, w) \/ ~Exists(d, d.active)
  BY <1>1, FocusFails DEF MakeActive
<1>2. CASE ~(~Exists(d, w) \/ ~Exists(d, d.active))
  <2>1. But(d, e, Refocused) /\ Later(d, e)
    BY DEF But, Later, Typed, Fields, Refocused
  <2>2. /\ e.active = w /\ e.act = [d.act EXCEPT ![d.output[w]] = w] /\ e.due = TRUE
        /\ e.focused = d.focused /\ e.layer = d.layer /\ e.exclusive = d.exclusive
        /\ e.panel = d.panel
    BY DEF Typed, Fields
  <2>3. e.act \in [Output -> Workspace \cup {None}] /\ \A o \in d.plugged : e.act[o] # None
    <3>1. w # None /\ d.plugged \subseteq Output
      BY NoneIsNoName, Elements DEF Typed, SpaceTypes
    <3>2. d.act \in [Output -> Workspace \cup {None}] /\ \A o \in d.plugged : d.act[o] # None
      BY DEF Typed, SpaceTypes
    <3>3. [d.act EXCEPT ![d.output[w]] = w] \in [Output -> Workspace \cup {None}]
      BY <3>2
    <3>4. \A o \in d.plugged : [d.act EXCEPT ![d.output[w]] = w][o] # None
      BY <3>1, <3>2
    <3> QED BY <2>2, <3>3, <3>4
  <2>4. Typed(e)
    <3>1. /\ e.focused \in Toplevel \cup {None} /\ e.layer \in Layer \cup {None}
          /\ e.exclusive \in BOOLEAN /\ e.due \in BOOLEAN
      BY <2>2 DEF Typed, FocusTypes
    <3> HIDE DEF e
    <3> QED BY <2>1, <2>2, <2>3, <3>1, RefocusTyped
  <2>5. MakeActive(d, w) = e
    BY <1>2 DEF MakeActive
  <2> HIDE DEF e
  <2> QED BY <2>1, <2>2, <2>4, <2>5 DEF FocusKept, Kept, Exclusive
<1> QED BY <1>1, <1>2

LEMMA SetActiveKeepingFocusKept ==
  ASSUME NEW d, Typed(d), NEW w \in Workspace
  PROVE  FocusKept(d, SetActiveKeepingFocus(d, w))
BY MakeActiveKept, FocusSame DEF SetActiveKeepingFocus

LEMMA ToplevelFocusKept ==
  ASSUME NEW d, Typed(d), NEW t \in Toplevel \cup {None}
  PROVE  FocusKept(d, ToplevelFocus(d, t))
<1> DEFINE a == Deref(Deref(d, d.focused), t)
           f == [a EXCEPT !.focused = t]
<1>1. CASE Refused(d, t)
  BY <1>1, FocusSame DEF ToplevelFocus
<1>2. CASE ~Refused(d, t)
  <2>1. FocusKept(d, a) /\ Kept(d, a, {"crashed"})
    BY DerefKept, FocusTwice, KeptTwice DEF FocusKept, Kept
  <2>2. a.exclusive = FALSE
    BY <1>2, <2>1 DEF Refused, Kept, But, Typed, Fields, FocusTypes
  <2> HIDE DEF a
  <2>3. FocusKept(a, f)
    <3>1. But(a, f, Refocused) /\ Later(a, f)
      BY <2>1 DEF FocusKept, Kept, But, Later, Typed, Fields, Refocused
    <3>2. /\ f.active = a.active /\ f.act = a.act /\ f.due = a.due
          /\ f.focused = t /\ f.layer = a.layer /\ f.exclusive = a.exclusive
      BY <2>1 DEF FocusKept, Kept, Typed, Fields
    <3>3. Typed(f)
      <4>1. Typed(a)
        BY <2>1 DEF Kept
      <4>2. /\ f.active \in Workspace /\ f.act \in [Output -> Workspace \cup {None}]
            /\ \A o \in a.plugged : f.act[o] # None
        BY <4>1, <3>2 DEF Typed, SpaceTypes
      <4>3. /\ f.focused \in Toplevel \cup {None} /\ f.layer \in Layer \cup {None}
            /\ f.exclusive \in BOOLEAN /\ f.due \in BOOLEAN
        BY <4>1, <3>2 DEF Typed, FocusTypes, WindowTypes
      <4> HIDE DEF f
      <4> QED BY <3>1, <4>1, <4>2, <4>3, RefocusTyped
    <3> QED BY <2>2, <3>1, <3>2, <3>3 DEF FocusKept, Kept, Exclusive
  <2> HIDE DEF f
  <2>4. FocusKept(d, f)
    BY <2>1, <2>3, FocusTwice
  <2>5. CASE t = None
    BY <1>2, <2>4, <2>5 DEF ToplevelFocus, f, a
  <2>6. CASE t # None /\ ~Exists(d, d.home[t])
    BY <1>2, <2>6, FocusFails DEF ToplevelFocus
  <2>7. CASE t # None /\ Exists(d, d.home[t])
    <3>1. d.home[t] \in Workspace
      BY <2>7 DEF Exists, Typed, WindowTypes
    <3>2. FocusKept(f, SetActiveKeepingFocus(f, d.home[t]))
      BY <2>3, <3>1, SetActiveKeepingFocusKept DEF FocusKept, Kept
    <3>3. ToplevelFocus(d, t) = SetActiveKeepingFocus(f, d.home[t])
      BY <1>2, <2>7 DEF ToplevelFocus, f, a
    <3> QED BY <2>4, <3>2, <3>3, FocusTwice
  <2> QED BY <2>5, <2>6, <2>7
<1> QED BY <1>1, <1>2

LEMMA LayerFocusKept ==
  ASSUME NEW d, Typed(d), NEW l \in Layer
  PROVE  /\ Kept(d, LayerFocus(d, l), Refocused)
         /\ d.panel[l] = "mapped" => FocusKept(d, LayerFocus(d, l))
<1> DEFINE a == Deref(d, d.focused)
           e == [a EXCEPT !.focused = None, !.layer = l, !.exclusive = d.want[l] = "exclusive"]
<1>1. CASE d.want[l] = "none" \/ (d.want[l] = "on_demand" /\ d.exclusive)
  BY <1>1, FocusSame DEF LayerFocus, FocusKept
<1>2. CASE ~(d.want[l] = "none" \/ (d.want[l] = "on_demand" /\ d.exclusive))
  <2>1. Kept(d, a, {"crashed"})
    BY DerefKept
  <2> HIDE DEF a
  <2>2. But(a, e, Refocused) /\ Later(a, e)
    BY <2>1 DEF Kept, But, Later, Typed, Fields, Refocused
  <2>3. /\ e.active = a.active /\ e.act = a.act /\ e.due = a.due /\ e.panel = a.panel
        /\ e.focused = None /\ e.layer = l /\ e.exclusive = (d.want[l] = "exclusive")
    BY <2>1 DEF Kept, Typed, Fields
  <2> HIDE DEF e
  <2>4. Typed(e)
    <3>1. Typed(a)
      BY <2>1 DEF Kept
    <3>2. /\ e.active \in Workspace /\ e.act \in [Output -> Workspace \cup {None}]
          /\ \A o \in a.plugged : e.act[o] # None
      BY <3>1, <2>3 DEF Typed, SpaceTypes
    <3>3. /\ e.focused \in Toplevel \cup {None} /\ e.layer \in Layer \cup {None}
          /\ e.exclusive \in BOOLEAN /\ e.due \in BOOLEAN
      BY <3>1, <2>3 DEF Typed, WindowTypes
    <3> QED BY <2>2, <3>1, <3>2, <3>3, RefocusTyped
  <2>5. Kept(d, e, Refocused)
    BY <2>1, <2>2, <2>4, KeptWider, KeptTwice DEF Kept, Refocused
  <2>6. a.panel = d.panel
    BY <2>1 DEF Kept, But, Typed, Fields
  <2>7. d.panel[l] = "mapped" => Exclusive(e)
    BY <2>3, <2>6, NoneIsNoName DEF Exclusive
  <2>8. LayerFocus(d, l) = e
    BY <1>2 DEF LayerFocus, e, a
  <2> QED BY <2>5, <2>7, <2>8 DEF FocusKept
<1> QED BY <1>1, <1>2

LEMMA ViewFocusKept ==
  ASSUME NEW d, Typed(d), NEW v \in Toplevel \cup Layer, v \in Layer => d.panel[v] = "mapped"
  PROVE  FocusKept(d, ViewFocus(d, v))
BY LayerFocusKept, ToplevelFocusKept DEF ViewFocus

LEMMA TopMostTyped ==
  ASSUME NEW d, Typed(d), NEW w \in Workspace
  PROVE  TopMost(d, w) \in Toplevel \cup {None}
BY Ends DEF TopMost, Typed, ListTypes

(* The first high panel that wants the keyboard for itself.                  *)
LEMMA Greedy ==
  ASSUME NEW d, Typed(d), NEW o \in Output, NEW g,
         g = SelectInSeq(d.panels[o], LAMBDA l : d.want[l] = "exclusive"), g # 0
  PROVE  d.panels[o][g] \in ToSet(d.panels[o]) /\ d.want[d.panels[o][g]] = "exclusive"
<1> DEFINE I == {i \in 1 .. Len(d.panels[o]) : d.want[d.panels[o][i]] = "exclusive"}
<1>1. I # {} /\ g = Min(I)
  BY DEF SelectInSeq
<1>2. d.panels[o] \in Seq(Layer)
  BY DEF Typed, FocusTypes
<1>3. I \in SUBSET Nat
  OBVIOUS
<1> HIDE DEF I
<1>4. PICK n \in I : \A m \in I : n <= m
  BY <1>1, <1>3, LeastNatural
<1>5. g \in I
  BY <1>1, <1>4 DEF Min
<1>6. g \in 1 .. Len(d.panels[o]) /\ d.want[d.panels[o][g]] = "exclusive"
  BY <1>5 DEF I
<1>7. g \in DOMAIN d.panels[o]
  BY <1>2, <1>6
<1> QED BY <1>6, <1>7 DEF ToSet

LEMMA ActiveTyped ==
  ASSUME NEW d, Typed(d), NEW o \in d.plugged
  PROVE  o \in Output /\ d.act[o] \in Workspace
BY Elements DEF Typed, SpaceTypes

LEMMA ActiveKept ==
  ASSUME NEW d, Typed(d), NEW w \in Workspace
  PROVE  FocusKept(d, [d EXCEPT !.active = w])
<1> DEFINE e == [d EXCEPT !.active = w]
<1>1. But(d, e, Refocused) /\ Later(d, e)
  BY DEF But, Later, Typed, Fields, Refocused
<1>2. /\ e.active = w /\ e.act = d.act /\ e.due = d.due /\ e.panel = d.panel
      /\ e.focused = d.focused /\ e.layer = d.layer /\ e.exclusive = d.exclusive
  BY DEF Typed, Fields
<1> HIDE DEF e
<1>3. /\ e.active \in Workspace /\ e.act \in [Output -> Workspace \cup {None}]
      /\ \A o \in d.plugged : e.act[o] # None
  BY <1>2 DEF Typed, SpaceTypes
<1>4. /\ e.focused \in Toplevel \cup {None} /\ e.layer \in Layer \cup {None}
      /\ e.exclusive \in BOOLEAN /\ e.due \in BOOLEAN
  BY <1>2 DEF Typed, FocusTypes, WindowTypes
<1>5. Typed(e)
  BY <1>1, <1>3, <1>4, RefocusTyped
<1>6. FocusKept(d, e)
  BY <1>1, <1>2, <1>5 DEF FocusKept, Kept, Exclusive
<1> QED BY <1>6 DEF e

LEMMA OutputFocusKept ==
  ASSUME NEW d, Typed(d), NEW o
  PROVE  FocusKept(d, OutputFocus(d, o))
<1> DEFINE g == SelectInSeq(d.panels[o], LAMBDA l : d.want[l] = "exclusive")
           w == d.act[o]
           a == [d EXCEPT !.active = w]
<1>1. CASE o \notin d.plugged
  BY <1>1, FocusFails DEF OutputFocus
<1>2. CASE o \in d.plugged /\ g # 0
  <2>1. o \in Output
    BY <1>2, ActiveTyped
  <2>2. d.panels[o][g] \in ToSet(d.panels[o])
    BY <1>2, <2>1, Greedy
  <2>3. d.panels[o][g] \in Layer /\ d.panel[d.panels[o][g]] = "mapped"
    BY <2>1, <2>2, Elements DEF Typed, FocusTypes
  <2>4. OutputFocus(d, o) = LayerFocus(d, d.panels[o][g])
    BY <1>2 DEF OutputFocus
  <2> QED BY <2>3, <2>4, LayerFocusKept
<1>3. CASE o \in d.plugged /\ g = 0
  <2>1. w \in Workspace
    BY <1>3, ActiveTyped
  <2>2. FocusKept(d, a)
    BY <2>1, ActiveKept
  <2>3. TopMost(d, w) \in Toplevel \cup {None}
    BY <2>1, TopMostTyped
  <2>4. OutputFocus(d, o) = IF TopMost(d, w) = None THEN a ELSE ToplevelFocus(a, TopMost(d, w))
    BY <1>3 DEF OutputFocus
  <2> HIDE DEF a, w, g
  <2>5. FocusKept(a, ToplevelFocus(a, TopMost(d, w)))
    BY <2>2, <2>3, ToplevelFocusKept DEF FocusKept, Kept
  <2> QED BY <2>2, <2>4, <2>5, FocusTwice
<1> QED BY <1>1, <1>2, <1>3

LEMMA SetActiveKept ==
  ASSUME NEW d, Typed(d), NEW w \in Workspace
  PROVE  FocusKept(d, SetActive(d, w))
<1>1. FocusKept(d, MakeActive(d, w))
  BY MakeActiveKept
<1>2. FocusKept(MakeActive(d, w), OutputFocus(MakeActive(d, w), d.output[w]))
  BY <1>1, OutputFocusKept DEF FocusKept, Kept
<1> QED BY <1>1, <1>2, FocusTwice, FocusSame DEF SetActive

-----------------------------------------------------------------------------
(* Workspaces.                                                               *)

Spaced ==
  {"spaces", "output", "dummy", "act", "active", "presented",
   "master", "slaves", "floats", "fullscreen", "home",
   "focused", "layer", "exclusive", "due", "crashed"}

SpaceKept(d, e) == Kept(d, e, Spaced) /\ (Exclusive(d) => Exclusive(e))

LEMMA SpaceTwice ==
  ASSUME NEW d, NEW e, NEW f, SpaceKept(d, e), SpaceKept(e, f)
  PROVE  SpaceKept(d, f)
BY KeptTwice DEF SpaceKept

LEMMA SpaceSame == ASSUME NEW d, Typed(d) PROVE SpaceKept(d, d)
BY KeptSame DEF SpaceKept

LEMMA FocusSpaces == ASSUME NEW d, NEW e, FocusKept(d, e) PROVE SpaceKept(d, e)
BY KeptWider DEF FocusKept, SpaceKept, Refocused, Spaced

LEMMA SpaceFails ==
  ASSUME NEW d, Typed(d), NEW why, why # "none"
  PROVE  SpaceKept(d, Fail(d, why))
BY FocusFails, FocusSpaces

(* What the operators on workspaces leave alone in any case.                 *)
LEMMA SpacedTyped ==
  ASSUME NEW d, Typed(d), NEW e, But(d, e, Spaced \ {"focused", "layer", "exclusive"}),
         ListTypes(e), SpaceTypes(e), e.home \in [Toplevel -> Workspace \cup {None}], e.due \in BOOLEAN
  PROVE  Typed(e) /\ (Exclusive(d) => Exclusive(e))
<1>1. /\ e.life = d.life /\ e.state = d.state /\ e.prev_state = d.prev_state
      /\ e.ghosts = d.ghosts /\ e.shown = d.shown /\ e.fresh = d.fresh
  BY DEF But, Spaced, Fields, Typed
<1>2. /\ e.focused = d.focused /\ e.layer = d.layer /\ e.exclusive = d.exclusive
      /\ e.panel = d.panel /\ e.on = d.on /\ e.want = d.want /\ e.panels = d.panels
  BY DEF But, Spaced, Fields, Typed
<1>3. /\ e.operation = d.operation /\ e.grabbed = d.grabbed /\ e.server_inited = d.server_inited
      /\ e.icon = d.icon /\ e.key = d.key /\ e.held = d.held /\ e.cursor = d.cursor
      /\ e.pointer = d.pointer
  BY DEF But, Spaced, Fields, Typed
<1>4. WindowTypes(e)
  BY <1>1 DEF Typed, WindowTypes
<1>5. FocusTypes(e)
  BY <1>2 DEF Typed, FocusTypes
<1>6. GrabTypes(e)
  BY <1>3 DEF Typed, GrabTypes
<1> QED BY <1>2, <1>4, <1>5, <1>6 DEF Typed, But, Exclusive

LEMMA WorkspaceCreateKept ==
  ASSUME NEW d, Typed(d), NEW o \in ToSet(d.outputs), NEW w \in Workspace
  PROVE  SpaceKept(d, WorkspaceCreate(d, o, w))
<1> DEFINE e == WorkspaceCreate(d, o, w)
<1>0. o \in Output
  BY Elements DEF Typed, SpaceTypes
<1>1. CASE d.dummy[o] # None
  <2>1. But(d, e, Spaced \ {"focused", "layer", "exclusive"}) /\ Later(d, e)
    BY <1>1 DEF WorkspaceCreate, But, Later, Typed, Fields, Spaced
  <2>2. /\ e.output = d.output /\ e.spaces = d.spaces /\ e.act = d.act
        /\ e.presented = d.presented /\ e.outputs = d.outputs /\ e.plugged = d.plugged
        /\ e.active = d.active /\ e.dummy = [d.dummy EXCEPT ![o] = None]
    BY <1>1 DEF WorkspaceCreate, Typed, Fields
  <2>3. /\ e.master = d.master /\ e.slaves = d.slaves /\ e.floats = d.floats
        /\ e.fullscreen = d.fullscreen /\ e.home = d.home /\ e.due = d.due
    BY <1>1 DEF WorkspaceCreate, Typed, Fields
  <2> HIDE DEF e
  <2>4. SpaceTypes(e)
    BY <2>2 DEF Typed, SpaceTypes
  <2>5. ListTypes(e) /\ e.home \in [Toplevel -> Workspace \cup {None}] /\ e.due \in BOOLEAN
    BY <2>3 DEF Typed, ListTypes, WindowTypes
  <2> QED BY <2>1, <2>4, <2>5, SpacedTyped DEF SpaceKept, Kept, But, e
<1>2. CASE d.dummy[o] = None
  <2>1. But(d, e, Spaced \ {"focused", "layer", "exclusive"}) /\ Later(d, e)
    BY <1>2 DEF WorkspaceCreate, But, Later, Typed, Fields, Spaced
  <2>2. /\ e.output = [d.output EXCEPT ![w] = o] /\ e.spaces = [d.spaces EXCEPT ![o] = <<w>> \o d.spaces[o]]
        /\ e.act = [d.act EXCEPT ![o] = IF d.act[o] = None THEN w ELSE d.act[o]]
        /\ e.presented = d.presented /\ e.outputs = d.outputs /\ e.plugged = d.plugged
        /\ e.active \in {w, d.active} /\ e.dummy = d.dummy
    BY <1>2 DEF WorkspaceCreate, Typed, Fields
  <2>3. /\ e.master = d.master /\ e.slaves = d.slaves /\ e.floats = d.floats
        /\ e.fullscreen = d.fullscreen /\ e.home = d.home /\ e.due = d.due
    BY <1>2 DEF WorkspaceCreate, Typed, Fields
  <2> HIDE DEF e
  <2>4. <<w>> \o d.spaces[o] \in Seq(Workspace) /\ w # None
    BY <1>0, NoneIsNoName DEF Typed, SpaceTypes
  <2>5. SpaceTypes(e)
    <3>1. /\ e.output \in [Workspace -> Output \cup {None}]
          /\ e.spaces \in [Output -> Seq(Workspace)]
          /\ e.dummy \in [Output -> Workspace \cup {None}]
          /\ e.act \in [Output -> Workspace \cup {None}]
          /\ e.active \in Workspace
      BY <1>0, <2>2, <2>4 DEF Typed, SpaceTypes
    <3>2. /\ \A p \in e.plugged : e.act[p] # None
          /\ \A v \in Workspace : e.output[v] # None => e.output[v] \in ToSet(e.outputs)
      BY <1>0, <2>2, <2>4, Elements DEF Typed, SpaceTypes
    <3> QED BY <2>2, <3>1, <3>2 DEF Typed, SpaceTypes
  <2>6. ListTypes(e) /\ e.home \in [Toplevel -> Workspace \cup {None}] /\ e.due \in BOOLEAN
    BY <2>3 DEF Typed, ListTypes, WindowTypes
  <2> QED BY <2>1, <2>5, <2>6, SpacedTyped DEF SpaceKept, Kept, But, e
<1> QED BY <1>1, <1>2

LEMMA FreeWorkspaceKept ==
  ASSUME NEW d, Typed(d), NEW w \in Workspace
  PROVE  SpaceKept(d, FreeWorkspace(d, w))
<1> DEFINE e == FreeWorkspace(d, w)
           o == d.output[w]
<1>1. But(d, e, Spaced \ {"focused", "layer", "exclusive"}) /\ Later(d, e)
  BY DEF FreeWorkspace, But, Later, Typed, Fields, Spaced
<1>2. /\ e.output = [d.output EXCEPT ![w] = None]
      /\ e.spaces = [d.spaces EXCEPT ![o] = RemoveFirst(d.spaces[o], w)]
      /\ e.presented = [d.presented EXCEPT ![o] = IF d.presented[o] = w THEN None ELSE d.presented[o]]
      /\ e.act = d.act /\ e.outputs = d.outputs /\ e.plugged = d.plugged
      /\ e.active = d.active /\ e.dummy = d.dummy
  BY DEF FreeWorkspace, Typed, Fields
<1>3. /\ e.master = [d.master EXCEPT ![w] = None] /\ e.slaves = [d.slaves EXCEPT ![w] = <<>>]
      /\ e.floats = [d.floats EXCEPT ![w] = <<>>] /\ e.fullscreen = [d.fullscreen EXCEPT ![w] = None]
      /\ e.home = d.home /\ e.due = d.due
  BY DEF FreeWorkspace, Typed, Fields
<1> HIDE DEF e
<1>4. SpaceTypes(e)
  <2>1. d.spaces \in [Output -> Seq(Workspace)] /\ d.presented \in [Output -> Workspace \cup {None}]
    BY DEF Typed, SpaceTypes
  <2>2. o \in Output => RemoveFirst(d.spaces[o], w) \in Seq(Workspace)
    BY <2>1, Removed
  <2> HIDE DEF o
  <2>3. [d.spaces EXCEPT ![o] = RemoveFirst(d.spaces[o], w)] \in [Output -> Seq(Workspace)]
    BY <2>1, <2>2
  <2>4. [d.presented EXCEPT ![o] = IF d.presented[o] = w THEN None ELSE d.presented[o]]
          \in [Output -> Workspace \cup {None}]
    BY <2>1
  <2>5. /\ d.output \in [Workspace -> Output \cup {None}]
        /\ \A v \in Workspace : d.output[v] # None => d.output[v] \in ToSet(d.outputs)
    BY DEF Typed, SpaceTypes
  <2>6. /\ e.output \in [Workspace -> Output \cup {None}]
        /\ \A v \in Workspace : e.output[v] # None => e.output[v] \in ToSet(d.outputs)
    BY <1>2, <2>5
  <2> QED BY <1>2, <2>3, <2>4, <2>6 DEF Typed, SpaceTypes
<1>5. ListTypes(e) /\ e.home \in [Toplevel -> Workspace \cup {None}] /\ e.due \in BOOLEAN
  BY <1>3 DEF Typed, ListTypes, WindowTypes
<1> QED BY <1>1, <1>4, <1>5, SpacedTyped DEF SpaceKept, Kept, But, e

LEMMA EvacuateKept ==
  ASSUME NEW d, Typed(d), NEW w \in Workspace, NEW n \in Workspace \cup {None}
  PROVE  SpaceKept(d, Evacuate(d, w, n))
<1> DEFINE leaving == IF d.master[w] = None THEN <<>>
                      ELSE <<d.master[w]>> \o Reverse(d.slaves[w])
           tiles == IF d.master[n] = None THEN leaving
                    ELSE <<d.master[n]>> \o d.slaves[n] \o leaving
           full == d.fullscreen[w]
           home == [t \in Toplevel |-> IF t \in Members(d, w) THEN n ELSE d.home[t]]
           fullscreen == [d.fullscreen EXCEPT ![w] = None,
                                              ![n] = IF full = None THEN d.fullscreen[n] ELSE full]
           floats == [d.floats EXCEPT ![w] = <<>>, ![n] = Reverse(d.floats[w]) \o d.floats[n]]
           master == [d.master EXCEPT ![w] = None, ![n] = FirstOrNone(tiles)]
           slaves == [d.slaves EXCEPT ![w] = <<>>, ![n] = IF tiles = <<>> THEN <<>> ELSE Tail(tiles)]
           due == d.due \/ full # None \/ (d.floats[w] # <<>> /\ d.output[w] # d.output[n])
           moved == [d EXCEPT !.home = home, !.fullscreen = fullscreen, !.floats = floats,
                              !.master = master, !.slaves = slaves, !.due = due]
<1>1. /\ d.master \in [Workspace -> Toplevel \cup {None}]
      /\ d.slaves \in [Workspace -> Seq(Toplevel)]
      /\ d.floats \in [Workspace -> Seq(Toplevel)]
      /\ d.fullscreen \in [Workspace -> Toplevel \cup {None}]
      /\ d.home \in [Toplevel -> Workspace \cup {None}] /\ d.due \in BOOLEAN
  BY DEF Typed, ListTypes, WindowTypes
<1>2. leaving \in Seq(Toplevel)
  <2>1. CASE d.master[w] = None
    BY <2>1, Emptied
  <2>2. CASE d.master[w] # None
    <3>1. <<d.master[w]>> \in Seq(Toplevel) /\ Reverse(d.slaves[w]) \in Seq(Toplevel)
      BY <1>1, <2>2, Reversed
    <3> QED BY <2>2, <3>1
  <2> QED BY <2>1, <2>2
<1>3. ASSUME n \in Workspace PROVE tiles \in Seq(Toplevel) /\ Reverse(d.floats[w]) \o d.floats[n] \in Seq(Toplevel)
  <2>1. d.master[n] # None => <<d.master[n]>> \o d.slaves[n] \in Seq(Toplevel)
    BY <1>1, <1>3
  <2>2. Reverse(d.floats[w]) \in Seq(Toplevel) /\ d.floats[n] \in Seq(Toplevel)
    BY <1>1, <1>3, Reversed
  <2> HIDE DEF leaving
  <2>3. tiles \in Seq(Toplevel)
    BY <1>2, <2>1
  <2> QED BY <2>2, <2>3
<1>4. Evacuate(d, w, n) = IF leaving = <<>> THEN moved
                          ELSE IF \E t \in ToSet(leaving) : d.home[t] # w THEN Fail(d, "wrong list")
                          ELSE Configure(moved, n)
  BY DEF Evacuate, Typed, Fields
<1> HIDE DEF leaving
<1>5. ASSUME n \in Workspace
      PROVE  /\ FirstOrNone(tiles) \in Toplevel \cup {None}
             /\ (IF tiles = <<>> THEN <<>> ELSE Tail(tiles)) \in Seq(Toplevel)
  <2>1. tiles \in Seq(Toplevel)
    BY <1>3, <1>5
  <2> HIDE DEF tiles
  <2> QED BY <2>1, FrontTyped, Ends, Emptied
<1>6. home \in [Toplevel -> Workspace \cup {None}] /\ fullscreen \in [Workspace -> Toplevel \cup {None}]
      /\ due \in BOOLEAN
  BY <1>1
<1>7. floats \in [Workspace -> Seq(Toplevel)]
  <2> HIDE DEF tiles
  <2> QED BY <1>1, <1>3, Emptied
<1> HIDE DEF tiles, floats, home, fullscreen, due
<1>8. master \in [Workspace -> Toplevel \cup {None}]
  BY <1>1, <1>5
<1>9. slaves \in [Workspace -> Seq(Toplevel)]
  <2> DEFINE rest == IF tiles = <<>> THEN <<>> ELSE Tail(tiles)
  <2>1. n \in Workspace => rest \in Seq(Toplevel)
    BY <1>5
  <2> HIDE DEF rest
  <2>2. [d.slaves EXCEPT ![w] = <<>>, ![n] = rest] \in [Workspace -> Seq(Toplevel)]
    BY <1>1, <2>1, Emptied
  <2> QED BY <2>2 DEF rest
<1> HIDE DEF master, slaves
<1>10. /\ But(d, moved, Spaced \ {"focused", "layer", "exclusive"}) /\ Later(d, moved)
       /\ moved.home = home /\ moved.fullscreen = fullscreen /\ moved.floats = floats
       /\ moved.master = master /\ moved.slaves = slaves /\ moved.due = due
       /\ moved.output = d.output /\ moved.spaces = d.spaces /\ moved.dummy = d.dummy
       /\ moved.act = d.act /\ moved.presented = d.presented /\ moved.outputs = d.outputs
       /\ moved.plugged = d.plugged /\ moved.active = d.active
  BY DEF But, Later, Typed, Fields, Spaced
<1> HIDE DEF moved
<1>11. ListTypes(moved) /\ SpaceTypes(moved)
       /\ moved.home \in [Toplevel -> Workspace \cup {None}] /\ moved.due \in BOOLEAN
  BY <1>6, <1>7, <1>8, <1>9, <1>10 DEF ListTypes, SpaceTypes, Typed
<1>12. SpaceKept(d, moved)
  BY <1>10, <1>11, SpacedTyped DEF SpaceKept, Kept, But
<1>13. SpaceKept(moved, Configure(moved, n))
  <2>1. Kept(moved, Configure(moved, n), {"due", "crashed"})
    BY <1>12, ConfigureKept DEF SpaceKept, Kept
  <2>2. Exclusive(moved) => Exclusive(Configure(moved, n))
    BY <2>1, <1>12 DEF SpaceKept, Kept, But, Exclusive, Fields, Typed
  <2> QED BY <2>1, <2>2, KeptWider DEF SpaceKept, Spaced
<1>14. SpaceKept(d, Configure(moved, n)) /\ SpaceKept(d, Fail(d, "wrong list"))
  BY <1>12, <1>13, SpaceTwice, SpaceFails
<1> QED BY <1>4, <1>12, <1>14

LEMMA WithDummyKept ==
  ASSUME NEW d, Typed(d), NEW o \in ToSet(d.outputs), NEW n \in Workspace
  PROVE  SpaceKept(d, WithDummy(d, o, n))
<1> DEFINE a == WorkspaceCreate(d, o, n)
           e == [a EXCEPT !.dummy[o] = n]
<1>1. SpaceKept(d, a)
  BY WorkspaceCreateKept
<1> HIDE DEF a
<1>2. SpaceKept(a, e)
  <2>1. But(a, e, Spaced \ {"focused", "layer", "exclusive"}) /\ Later(a, e)
    BY <1>1 DEF SpaceKept, Kept, But, Later, Typed, Fields, Spaced
  <2>2. /\ e.output = a.output /\ e.spaces = a.spaces /\ e.act = a.act
        /\ e.presented = a.presented /\ e.outputs = a.outputs /\ e.plugged = a.plugged
        /\ e.active = a.active /\ e.dummy = [a.dummy EXCEPT ![o] = n]
        /\ a.outputs = d.outputs
    BY <1>1 DEF SpaceKept, Kept, But, Typed, Fields, Spaced
  <2>3. /\ e.master = a.master /\ e.slaves = a.slaves /\ e.floats = a.floats
        /\ e.fullscreen = a.fullscreen /\ e.home = a.home /\ e.due = a.due
    BY <1>1 DEF SpaceKept, Kept, Typed, Fields
  <2> HIDE DEF e
  <2>4. SpaceTypes(e)
    <3>1. SpaceTypes(a)
      BY <1>1 DEF SpaceKept, Kept, Typed
    <3> HIDE DEF SpaceKept, Kept
    <3>2. a.dummy \in [Output -> Workspace \cup {None}] /\ \A p \in Output : p \notin ToSet(a.outputs) => a.dummy[p] = None
      BY <3>1 DEF SpaceTypes
    <3>3. /\ e.dummy \in [Output -> Workspace \cup {None}]
          /\ \A p \in Output : p \notin ToSet(a.outputs) => e.dummy[p] = None
      BY <3>2, <2>2
    <3> QED BY <3>1, <2>2, <3>3 DEF SpaceTypes
  <2>5. ListTypes(e) /\ e.home \in [Toplevel -> Workspace \cup {None}] /\ e.due \in BOOLEAN
    BY <1>1, <2>3 DEF SpaceKept, Kept, Typed, ListTypes, WindowTypes
  <2> QED BY <1>1, <2>1, <2>4, <2>5, SpacedTyped DEF SpaceKept, Kept, But
<1>3. WithDummy(d, o, n) \in {d, e}
  BY DEF WithDummy, e, a
<1> QED BY <1>1, <1>2, <1>3, SpaceTwice, SpaceSame

LEMMA ActKept ==
  ASSUME NEW d, Typed(d), NEW o, NEW n, n \in Workspace \/ n = d.act[o]
  PROVE  SpaceKept(d, [d EXCEPT !.act[o] = n])
<1> DEFINE e == [d EXCEPT !.act[o] = n]
<1>1. But(d, e, Spaced \ {"focused", "layer", "exclusive"}) /\ Later(d, e)
  BY DEF But, Later, Typed, Fields, Spaced
<1>2. /\ e.output = d.output /\ e.spaces = d.spaces /\ e.dummy = d.dummy
      /\ e.presented = d.presented /\ e.outputs = d.outputs /\ e.plugged = d.plugged
      /\ e.active = d.active /\ e.act = [d.act EXCEPT ![o] = n]
  BY DEF Typed, Fields
<1>3. /\ e.master = d.master /\ e.slaves = d.slaves /\ e.floats = d.floats
      /\ e.fullscreen = d.fullscreen /\ e.home = d.home /\ e.due = d.due
  BY DEF Typed, Fields
<1> HIDE DEF e
<1>4. n \in Workspace => n # None
  BY NoneIsNoName
<1>5. SpaceTypes(e)
  <2>1. /\ d.act \in [Output -> Workspace \cup {None}] /\ \A p \in d.plugged : d.act[p] # None
        /\ d.plugged \subseteq Output
    BY Elements DEF Typed, SpaceTypes
  <2>2. e.act \in [Output -> Workspace \cup {None}] /\ \A p \in d.plugged : e.act[p] # None
    BY <1>2, <1>4, <2>1
  <2> QED BY <1>2, <2>2 DEF Typed, SpaceTypes
<1>6. ListTypes(e) /\ e.home \in [Toplevel -> Workspace \cup {None}] /\ e.due \in BOOLEAN
  BY <1>3 DEF Typed, ListTypes, WindowTypes
<1> QED BY <1>1, <1>5, <1>6, SpacedTyped DEF SpaceKept, Kept, But, e

LEMMA WorkspaceDestroyKept ==
  ASSUME NEW d, Typed(d), NEW w \in Workspace, d.output[w] # None, NEW n \in Workspace
  PROVE  SpaceKept(d, WorkspaceDestroy(d, w, n))
<1> DEFINE o == d.output[w]
           ready == WithDummy(d, o, n)
           turned == [ready EXCEPT !.act[o] = IF ready.act[o] = w THEN n ELSE ready.act[o]]
           empty == Evacuate(turned, w, n)
           left == IF empty.active = w THEN SetActive(empty, n) ELSE empty
<1>1. o \in ToSet(d.outputs)
  BY DEF Typed, SpaceTypes
<1>2. SpaceKept(d, ready)
  BY <1>1, WithDummyKept
<1>3. WorkspaceDestroy(d, w, n) \in
        {Fail(d, "endless loop"), Fail(d, "freed workspace"), FreeWorkspace(left, w)}
  BY DEF WorkspaceDestroy
<1> HIDE DEF ready
<1>4. SpaceKept(ready, turned)
  BY <1>2, ActKept DEF SpaceKept, Kept
<1> HIDE DEF turned
<1>5. SpaceKept(turned, empty)
  BY <1>4, EvacuateKept DEF SpaceKept, Kept
<1> HIDE DEF empty
<1>6. SpaceKept(empty, left)
  BY <1>5, SetActiveKept, FocusSpaces, SpaceSame DEF SpaceKept, Kept
<1> HIDE DEF left
<1>7. SpaceKept(left, FreeWorkspace(left, w))
  BY <1>6, FreeWorkspaceKept DEF SpaceKept, Kept
<1>8. SpaceKept(d, FreeWorkspace(left, w))
  BY <1>2, <1>4, <1>5, <1>6, <1>7, SpaceTwice
<1> QED BY <1>3, <1>8, SpaceFails

LEMMA WorkspaceUnplugKept ==
  ASSUME NEW d, Typed(d), NEW w \in Workspace
  PROVE  SpaceKept(d, WorkspaceUnplug(d, w))
<1> DEFINE o == NextOrPrev(d.outputs, d.output[w])
           n == FirstOrNone(d.spaces[o])
           empty == Evacuate(d, w, n)
           left == IF d.active = w THEN SetActive(empty, n) ELSE empty
<1>1. CASE o = None
  BY <1>1, FreeWorkspaceKept DEF WorkspaceUnplug
<1>2. CASE o # None /\ o \notin d.plugged
  BY <1>2, SpaceFails DEF WorkspaceUnplug
<1>3. CASE o # None /\ o \in d.plugged
  <2>1. WorkspaceUnplug(d, w) = FreeWorkspace(left, w)
    BY <1>3 DEF WorkspaceUnplug
  <2>2. n \in Workspace \cup {None}
    BY <1>3, ActiveTyped, FrontTyped DEF Typed, SpaceTypes
  <2> HIDE DEF n
  <2>3. SpaceKept(d, empty)
    BY <2>2, EvacuateKept
  <2> HIDE DEF empty
  <2>4. SpaceKept(empty, SetActive(empty, n))
    <3>1. CASE n \in Workspace
      BY <2>3, <3>1, SetActiveKept, FocusSpaces DEF SpaceKept, Kept
    <3>2. CASE n = None
      <4>1. empty.active # n
        BY <2>3, <3>2, NoneIsNoName DEF SpaceKept, Kept, Typed, SpaceTypes
      <4>2. SetActive(empty, n) = OutputFocus(Fail(empty, "freed workspace"), empty.output[n])
        BY <3>2, <4>1 DEF SetActive, MakeActive, Exists
      <4>3. FocusKept(empty, Fail(empty, "freed workspace"))
        BY <2>3, FocusFails DEF SpaceKept, Kept
      <4>4. FocusKept(Fail(empty, "freed workspace"), SetActive(empty, n))
        BY <4>2, <4>3, OutputFocusKept DEF FocusKept, Kept
      <4> QED BY <4>3, <4>4, FocusTwice, FocusSpaces
    <3> QED BY <2>2, <3>1, <3>2
  <2>5. SpaceKept(d, left)
    BY <2>3, <2>4, SpaceTwice
  <2> HIDE DEF left
  <2>6. SpaceKept(left, FreeWorkspace(left, w))
    BY <2>5, FreeWorkspaceKept DEF SpaceKept, Kept
  <2> QED BY <2>1, <2>5, <2>6, SpaceTwice
<1> QED BY <1>1, <1>2, <1>3

(* The loop over the workspaces of an output is a function of how far it has *)
(* got; that there is one takes an induction.                                *)
LEMMA AllUnplugged ==
  ASSUME NEW d, NEW list \in Seq(Workspace)
  PROVE  \E after :
           /\ UnplugAll(d, list) = after[Len(list)]
           /\ after[0] = d
           /\ \A n \in 1 .. Len(list) : after[n] = WorkspaceUnplug(after[n - 1], list[n])
<1> DEFINE Loop(g, n) ==
             g = [i \in 0 .. n |-> IF i = 0 THEN d ELSE WorkspaceUnplug(g[i - 1], list[i])]
           Gone(n) == \E g : Loop(g, n)
           T == {n \in 0 .. Len(list) : ~Gone(n)}
<1>1. T = {}
  <2> SUFFICES ASSUME T # {} PROVE FALSE
    OBVIOUS
  <2>1. T \in SUBSET Nat
    OBVIOUS
  <2>2. PICK n \in T : \A m \in T : n <= m
    <3> HIDE DEF T
    <3> QED BY <2>1, LeastNatural
  <2>3. CASE n = 0
    <3>1. Loop([i \in 0 .. 0 |-> d], 0)
      OBVIOUS
    <3> QED BY <2>2, <2>3, <3>1
  <2>4. CASE n # 0
    <3>1. n - 1 \in 0 .. Len(list) /\ n - 1 \notin T
      <4>1. n \in 0 .. Len(list) /\ Len(list) \in Nat
        OBVIOUS
      <4>2. n - 1 \in 0 .. Len(list) /\ ~(n <= n - 1)
        BY <2>4, <4>1
      <4> HIDE DEF T
      <4> QED BY <2>2, <4>2
    <3>2. PICK g : Loop(g, n - 1)
      BY <3>1
    <3> DEFINE h == [i \in 0 .. n |-> IF i = n THEN WorkspaceUnplug(g[n - 1], list[n]) ELSE g[i]]
    <3>3. ASSUME NEW i \in 0 .. n
          PROVE  h[i] = IF i = 0 THEN d ELSE WorkspaceUnplug(h[i - 1], list[i])
      <4>1. i # 0 => h[i - 1] = g[i - 1]
        BY <2>2
      <4>2. i # n => i \in 0 .. (n - 1)
        BY <2>2
      <4> QED BY <2>2, <2>4, <3>2, <4>1, <4>2
    <3>4. Loop(h, n)
      BY <3>3
    <3> QED BY <2>2, <3>4
  <2> QED BY <2>3, <2>4
<1>2. Gone(Len(list))
  BY <1>1
<1>3. PICK g : Loop(g, Len(list)) /\ UnplugAll(d, list) = g[Len(list)]
  BY <1>2 DEF UnplugAll
<1>4. g[0] = d /\ \A n \in 1 .. Len(list) : g[n] = WorkspaceUnplug(g[n - 1], list[n])
  BY <1>3
<1> QED BY <1>3, <1>4

LEMMA UnplugAllKept ==
  ASSUME NEW d, Typed(d), NEW list \in Seq(Workspace)
  PROVE  SpaceKept(d, UnplugAll(d, list))
<1>1. PICK after :
        /\ UnplugAll(d, list) = after[Len(list)]
        /\ after[0] = d
        /\ \A n \in 1 .. Len(list) : after[n] = WorkspaceUnplug(after[n - 1], list[n])
  BY ONLY list \in Seq(Workspace), AllUnplugged
<1> DEFINE T == {n \in 0 .. Len(list) : ~SpaceKept(d, after[n])}
<1>2. T = {}
  <2> SUFFICES ASSUME T # {} PROVE FALSE
    OBVIOUS
  <2>1. PICK n \in T : \A m \in T : n <= m
    <3>1. T \in SUBSET Nat
      OBVIOUS
    <3> HIDE DEF T
    <3> QED BY <3>1, LeastNatural
  <2>2. n \in 0 .. Len(list) /\ ~SpaceKept(d, after[n]) /\ Len(list) \in Nat
    OBVIOUS
  <2>3. n # 0
    BY <1>1, <2>2, SpaceSame
  <2>4. n \in 1 .. Len(list) /\ n - 1 \in 0 .. Len(list) /\ ~(n <= n - 1)
    BY <2>2, <2>3
  <2>5. SpaceKept(d, after[n - 1])
    BY <2>1, <2>4
  <2>6. list[n] \in Workspace
    BY <2>4
  <2>7. SpaceKept(after[n - 1], WorkspaceUnplug(after[n - 1], list[n]))
    BY <2>5, <2>6, WorkspaceUnplugKept DEF SpaceKept, Kept
  <2> QED BY <1>1, <2>2, <2>4, <2>5, <2>7, SpaceTwice
<1>3. Len(list) \in 0 .. Len(list)
  OBVIOUS
<1> QED BY <1>1, <1>2, <1>3

-----------------------------------------------------------------------------
(* What the operators of Operations leave alone.                             *)

Operated == Moved \cup Refocused \cup {"operation", "grabbed", "server_inited", "pointer"}

OpKept(d, e) == Kept(d, e, Operated) /\ (Exclusive(d) => Exclusive(e))

LEMMA OpTwice ==
  ASSUME NEW d, NEW e, NEW f, OpKept(d, e), OpKept(e, f)
  PROVE  OpKept(d, f)
BY KeptTwice DEF OpKept

LEMMA OpSame == ASSUME NEW d, Typed(d) PROVE OpKept(d, d)
BY KeptSame DEF OpKept

LEMMA FocusOps == ASSUME NEW d, NEW e, FocusKept(d, e) PROVE OpKept(d, e)
BY KeptWider DEF FocusKept, OpKept, Operated

LEMMA MovedOps == ASSUME NEW d, Typed(d), NEW e, Kept(d, e, Moved) PROVE OpKept(d, e)
<1>1. e.exclusive = d.exclusive /\ e.focused = d.focused /\ e.layer = d.layer /\ e.panel = d.panel
  BY DEF Kept, But, Moved, Listed, Fields, Typed
<1> QED BY <1>1, KeptWider DEF OpKept, Operated, Exclusive

LEMMA OpFails ==
  ASSUME NEW d, Typed(d), NEW why, why # "none"
  PROVE  OpKept(d, Fail(d, why))
BY FocusFails, FocusOps

(* Input alone changes.                                                      *)
Inputs ==
  {"operation", "grabbed", "server_inited", "icon", "key", "held", "cursor", "pointer", "due"}

LEMMA InputTyped ==
  ASSUME NEW d, Typed(d), NEW e, But(d, e, Inputs), GrabTypes(e), e.due \in BOOLEAN
  PROVE  Typed(e) /\ Later(d, e) /\ (Exclusive(d) => Exclusive(e))
<1>1. /\ e.life = d.life /\ e.state = d.state /\ e.prev_state = d.prev_state /\ e.home = d.home
      /\ e.ghosts = d.ghosts /\ e.shown = d.shown /\ e.fresh = d.fresh /\ e.crashed = d.crashed
  BY DEF But, Inputs, Fields, Typed
<1>2. /\ e.master = d.master /\ e.slaves = d.slaves /\ e.floats = d.floats
      /\ e.fullscreen = d.fullscreen
  BY DEF But, Inputs, Fields, Typed
<1>3. /\ e.output = d.output /\ e.spaces = d.spaces /\ e.dummy = d.dummy /\ e.act = d.act
      /\ e.presented = d.presented /\ e.outputs = d.outputs /\ e.plugged = d.plugged
      /\ e.active = d.active
  BY DEF But, Inputs, Fields, Typed
<1>4. /\ e.focused = d.focused /\ e.layer = d.layer /\ e.exclusive = d.exclusive
      /\ e.panel = d.panel /\ e.on = d.on /\ e.want = d.want /\ e.panels = d.panels
  BY DEF But, Inputs, Fields, Typed
<1>5. WindowTypes(e)
  BY <1>1 DEF Typed, WindowTypes
<1>6. ListTypes(e)
  BY <1>2 DEF Typed, ListTypes
<1>7. SpaceTypes(e)
  BY <1>3 DEF Typed, SpaceTypes
<1>8. FocusTypes(e)
  BY <1>4 DEF Typed, FocusTypes
<1> QED BY <1>1, <1>4, <1>5, <1>6, <1>7, <1>8 DEF Typed, But, Later, Exclusive

(* What is grabbed changes.                                                  *)
LEMMA GrabKept ==
  ASSUME NEW d, Typed(d), NEW e,
         But(d, e, {"operation", "grabbed", "server_inited", "pointer", "due"}),
         e.operation \in {"NONE", "MOVE", "RESIZE", "DRAG"}, e.grabbed \in Toplevel \cup {None},
         e.grabbed # None <=> e.operation \in {"MOVE", "RESIZE"},
         e.server_inited \in BOOLEAN, e.pointer \in Toplevel \cup Layer \cup {None},
         e.due \in BOOLEAN
  PROVE  OpKept(d, e)
<1>1. But(d, e, Inputs) /\ But(d, e, Operated)
  BY DEF But, Inputs, Operated, Moved, Listed, Refocused, Fields, Typed
<1>2. e.icon = d.icon /\ e.key = d.key /\ e.held = d.held /\ e.cursor = d.cursor
  BY DEF But, Typed, Fields
<1>3. GrabTypes(e)
  BY <1>2 DEF Typed, GrabTypes
<1> QED BY <1>1, <1>3, InputTyped DEF OpKept, Kept

LEMMA SurfacesTyped ==
  ASSUME NEW d, Typed(d), NEW v \in Surfaces(d)
  PROVE  v \in Toplevel \cup Layer /\ (v \in Layer => d.panel[v] = "mapped")
BY NoWindowIsAPanel DEF Surfaces, Typed, WindowTypes

LEMMA PointerKept ==
  ASSUME NEW d, Typed(d), NEW v \in Toplevel \cup Layer \cup {None}
  PROVE  OpKept(d, [d EXCEPT !.pointer = v])
<1> DEFINE e == [d EXCEPT !.pointer = v]
<1>1. But(d, e, {"operation", "grabbed", "server_inited", "pointer", "due"})
  BY DEF But, Typed, Fields
<1>2. /\ e.operation = d.operation /\ e.grabbed = d.grabbed /\ e.due = d.due
      /\ e.server_inited = d.server_inited /\ e.pointer = v
  BY DEF Typed, Fields
<1> HIDE DEF e
<1>3. /\ e.operation \in {"NONE", "MOVE", "RESIZE", "DRAG"} /\ e.grabbed \in Toplevel \cup {None}
      /\ e.grabbed # None <=> e.operation \in {"MOVE", "RESIZE"}
      /\ e.server_inited \in BOOLEAN /\ e.due \in BOOLEAN
  BY <1>2 DEF Typed, GrabTypes, WindowTypes
<1>4. OpKept(d, e)
  BY <1>1, <1>2, <1>3, GrabKept
<1> QED BY <1>4 DEF e

LEMMA CursorFocusKept ==
  ASSUME NEW d, Typed(d), NEW keyboard, NEW e \in CursorFocus(d, keyboard)
  PROVE  OpKept(d, e) /\ e.operation = d.operation /\ e.server_inited = d.server_inited
<1> DEFINE Look(v) == IF keyboard THEN ViewFocus(d, v) ELSE d
<1>1. CASE d.grabbed # None
  BY <1>1, OpSame DEF CursorFocus
<1>2. CASE d.grabbed = None /\ e = [d EXCEPT !.pointer = None]
  <2>1. OpKept(d, e)
    BY <1>2, PointerKept
  <2>2. e.operation = d.operation /\ e.server_inited = d.server_inited
    BY <1>2 DEF Typed, Fields
  <2> QED BY <2>1, <2>2
<1>3. CASE d.grabbed = None /\ e # [d EXCEPT !.pointer = None]
  <2>1. PICK v \in Surfaces(d) :
          e = IF d.operation = "DRAG" THEN Look(v) ELSE [Look(v) EXCEPT !.pointer = v]
    BY <1>3 DEF CursorFocus
  <2>2. v \in Toplevel \cup Layer /\ (v \in Layer => d.panel[v] = "mapped")
    BY SurfacesTyped
  <2>3. OpKept(d, Look(v)) /\ FocusKept(d, Look(v))
    BY <2>2, ViewFocusKept, FocusOps, OpSame, FocusSame
  <2>4. Look(v).operation = d.operation /\ Look(v).server_inited = d.server_inited
    BY <2>3 DEF FocusKept, Kept, But, Refocused, Fields, Typed
  <2> DEFINE a == Look(v)
  <2>5. /\ OpKept(d, a) /\ a.operation = d.operation /\ a.server_inited = d.server_inited
        /\ e \in {a, [a EXCEPT !.pointer = v]}
    BY <2>1, <2>3, <2>4
  <2> HIDE DEF a, Look
  <2> DEFINE b == [a EXCEPT !.pointer = v]
  <2>6. OpKept(a, b)
    BY <2>2, <2>5, PointerKept DEF OpKept, Kept
  <2>7. b.operation = a.operation /\ b.server_inited = a.server_inited
    BY <2>5 DEF OpKept, Kept, Typed, Fields
  <2>8. e \in {a, b}
    BY <2>5
  <2> HIDE DEF b
  <2>9. OpKept(d, b)
    BY <2>5, <2>6, OpTwice
  <2> QED BY <2>5, <2>7, <2>8, <2>9
<1> QED BY <1>1, <1>2, <1>3

LEMMA GrabbedKept ==
  ASSUME NEW d, Typed(d), NEW t \in Toplevel, NEW operation \in {"MOVE", "RESIZE"}, NEW server \in BOOLEAN
  PROVE  /\ OpKept(d, Grab(d, t, operation, server))
         /\ Grab(d, t, operation, server).server_inited = server
<1> DEFINE e == Grab(d, t, operation, server)
<1>1. But(d, e, {"operation", "grabbed", "server_inited", "pointer", "due"})
  BY DEF Grab, But, Typed, Fields
<1>2. /\ e.operation = operation /\ e.grabbed = t /\ e.due = TRUE
      /\ e.server_inited = server /\ e.pointer = d.pointer
  BY DEF Grab, Typed, Fields
<1> HIDE DEF e
<1>3. e.pointer \in Toplevel \cup Layer \cup {None} /\ t # None
  BY <1>2, NoneIsNoName DEF Typed, GrabTypes
<1>4. OpKept(d, e)
  BY <1>1, <1>2, <1>3, GrabKept
<1> QED BY <1>2, <1>4 DEF e

LEMMA MovedServer ==
  ASSUME NEW d, Typed(d), NEW e, Kept(d, e, Moved)
  PROVE  e.server_inited = d.server_inited /\ e.operation = d.operation /\ e.grabbed = d.grabbed
BY DEF Kept, But, Moved, Listed, Fields, Typed

(* A grab that begins says who began it.                                     *)
LEMMA StartKept ==
  ASSUME NEW d, Typed(d), NEW t \in Toplevel, NEW server \in BOOLEAN,
         NEW e \in {StartMove(d, t, server), StartResize(d, t, server)}
  PROVE  OpKept(d, e) /\ (e = d \/ e.server_inited = server)
<1> DEFINE move == Grab(d, t, "MOVE", server)
           resize == Grab(d, t, "RESIZE", server)
<1>1. /\ OpKept(d, move) /\ move.server_inited = server
      /\ OpKept(d, resize) /\ resize.server_inited = server
  BY GrabbedKept
<1>2. e \in {d, Unlink(move, t), Configure(LayoutRemove(move, t), d.home[t]), Unlink(resize, t)}
  BY DEF StartMove, StartResize
<1> HIDE DEF move, resize
<1>3. Kept(move, Unlink(move, t), Moved) /\ Kept(resize, Unlink(resize, t), Moved)
  BY <1>1, UnlinkKept, KeptWider DEF OpKept, Kept, Moved, Listed
<1>4. Kept(move, Configure(LayoutRemove(move, t), d.home[t]), Moved)
  <2>1. Kept(move, LayoutRemove(move, t), Moved)
    BY <1>1, LayoutRemoveKept, KeptWider DEF OpKept, Kept, Moved
  <2>2. Kept(LayoutRemove(move, t), Configure(LayoutRemove(move, t), d.home[t]), Moved)
    BY <2>1, ConfigureKept, KeptWider DEF Kept, Moved, Listed
  <2> QED BY <2>1, <2>2, KeptTwice
<1>5. \A f \in {Unlink(move, t), Configure(LayoutRemove(move, t), d.home[t])} :
        OpKept(d, f) /\ f.server_inited = server
  BY <1>1, <1>3, <1>4, MovedOps, MovedServer, OpTwice DEF OpKept, Kept
<1>6. OpKept(d, Unlink(resize, t)) /\ Unlink(resize, t).server_inited = server
  BY <1>1, <1>3, MovedOps, MovedServer, OpTwice DEF OpKept, Kept
<1> QED BY <1>2, <1>5, <1>6, OpSame

LEMMA InsertLayoutKept ==
  ASSUME NEW d, Typed(d), NEW t \in Toplevel, NEW e \in InsertLayout(d, t)
  PROVE  Kept(d, e, Moved)
<1> DEFINE o == IF d.cursor = None THEN FirstOrNone(d.outputs) ELSE d.cursor
           w == d.act[o]
           alone == [d EXCEPT !.master[w] = t]
           asMaster == [d EXCEPT !.master[w] = t, !.slaves[w] = Append(@, d.master[w])]
           AsSlave(i) == [d EXCEPT !.slaves[w] = InsertAt(@, i, t)]
<1>1. CASE o \notin d.plugged
  <2>1. e = Fail(d, "no output")
    BY <1>1 DEF InsertLayout
  <2> QED BY <2>1, Fails, KeptWider DEF Moved, Listed
<1>2. CASE o \in d.plugged
  <2>1. w \in Workspace
    BY <1>2, ActiveTyped
  <2>2. PICK f : /\ e = Configure(f, w)
                 /\ \/ f = alone
                    \/ d.master[w] # None /\ f = asMaster
                    \/ \E i \in 1 .. Len(d.slaves[w]) + 1 : f = AsSlave(i)
    BY <1>2 DEF InsertLayout
  <2> HIDE DEF w, o
  <2>3. /\ d.master \in [Workspace -> Toplevel \cup {None}] /\ d.slaves \in [Workspace -> Seq(Toplevel)]
        /\ d.slaves[w] \in Seq(Toplevel)
    BY <2>1 DEF Typed, ListTypes
  <2>4. But(d, f, {"master", "slaves"}) /\ Later(d, f) /\ f.floats = d.floats /\ f.fullscreen = d.fullscreen
    BY <2>2 DEF But, Later, Typed, Fields
  <2>5. /\ f.master \in {d.master, [d.master EXCEPT ![w] = t]}
        /\ \/ f.slaves = d.slaves
           \/ d.master[w] # None /\ f.slaves = [d.slaves EXCEPT ![w] = Append(d.slaves[w], d.master[w])]
           \/ \E i \in 1 .. Len(d.slaves[w]) + 1 : f.slaves = [d.slaves EXCEPT ![w] = InsertAt(d.slaves[w], i, t)]
    BY <2>2 DEF Typed, Fields
  <2>6. f.slaves \in [Workspace -> Seq(Toplevel)]
    <3>1. d.master[w] # None => Append(d.slaves[w], d.master[w]) \in Seq(Toplevel)
      BY <2>1, <2>3, Appended
    <3>2. \A i \in 1 .. Len(d.slaves[w]) + 1 : InsertAt(d.slaves[w], i, t) \in Seq(Toplevel)
      BY <2>3, Inserted
    <3> QED BY <2>1, <2>3, <2>5, <3>1, <3>2
  <2>7. ListTypes(f)
    BY <2>3, <2>4, <2>5, <2>6 DEF Typed, ListTypes
  <2>8. WindowTypes(f)
    BY <2>4 DEF Typed, WindowTypes, But, Fields
  <2>9. Kept(d, f, Moved)
    BY <2>4, <2>7, <2>8, MovedTyped DEF Kept, But, Moved, Listed
  <2>10. Kept(f, e, Moved)
    BY <2>2, <2>9, ConfigureKept, KeptWider DEF Kept, Moved, Listed
  <2> QED BY <2>9, <2>10, KeptTwice
<1> QED BY <1>1, <1>2

LEMMA InsertFloatKept ==
  ASSUME NEW d, Typed(d), NEW t \in Toplevel, NEW o \in d.plugged
  PROVE  Kept(d, InsertFloat(d, t, o), Moved)
<1> DEFINE w == d.act[o]
           a == [d EXCEPT !.home[t] = w]
<1>1. w \in Workspace
  BY ActiveTyped
<1>2. But(d, a, Moved) /\ Later(d, a)
  BY DEF But, Later, Typed, Fields, Moved, Listed
<1>3. WindowTypes(a) /\ ListTypes(a)
  BY <1>1 DEF Typed, WindowTypes, ListTypes, Fields
<1>4. InsertFloat(d, t, o) = PushFloat(a, w, t)
  BY DEF InsertFloat
<1> HIDE DEF a, w
<1>5. Kept(d, a, Moved)
  BY <1>2, <1>3, MovedTyped DEF Kept
<1>6. Kept(a, PushFloat(a, w, t), Moved)
  BY <1>5, PushFloatKept, KeptWider DEF Kept, Moved, Listed
<1> QED BY <1>4, <1>5, <1>6, KeptTwice

(* An operation that ended left nothing grabbed.                             *)
LEMMA StopSharedKept ==
  ASSUME NEW d, Typed(d), NEW e \in StopShared(d)
  PROVE  OpKept(d, e) /\ e.operation = "NONE"
<1> DEFINE a == [d EXCEPT !.due = TRUE, !.operation = "NONE", !.grabbed = None, !.pointer = None]
<1>1. But(d, a, {"operation", "grabbed", "server_inited", "pointer", "due"})
  BY DEF But, Typed, Fields
<1>2. /\ a.operation = "NONE" /\ a.grabbed = None /\ a.due = TRUE
      /\ a.server_inited = d.server_inited /\ a.pointer = None
  BY DEF Typed, Fields
<1>3. e \in CursorFocus(a, FALSE)
  BY DEF StopShared
<1> HIDE DEF a
<1>4. a.server_inited \in BOOLEAN
  BY <1>2 DEF Typed, GrabTypes
<1>5. OpKept(d, a)
  BY <1>1, <1>2, <1>4, GrabKept
<1>6. OpKept(a, e) /\ e.operation = a.operation
  BY <1>3, <1>5, CursorFocusKept DEF OpKept, Kept
<1> QED BY <1>2, <1>5, <1>6, OpTwice

(* It ends, or the compositor with it.                                       *)
Ended(e) == e.crashed = "none" => e.operation \in {"NONE", "DRAG"}

LEMMA StopMoveKept ==
  ASSUME NEW d, Typed(d), d.operation = "MOVE", NEW e \in StopMove(d)
  PROVE  OpKept(d, e) /\ Ended(e)
<1> DEFINE t == d.grabbed
<1>1. t \in Toplevel
  BY DEF Typed, GrabTypes
<1>2. PICK f : /\ e \in StopShared(f)
               /\ \/ f \in InsertLayout(d, t)
                  \/ f = Fail(d, "freed output")
                  \/ \E o \in d.plugged : f = InsertFloat(d, t, o)
  BY DEF StopMove
<1> HIDE DEF t
<1>3. OpKept(d, f)
  <2>1. CASE f \in InsertLayout(d, t)
    BY <1>1, <2>1, InsertLayoutKept, MovedOps
  <2>2. CASE f = Fail(d, "freed output")
    BY <2>2, OpFails
  <2>3. CASE \E o \in d.plugged : f = InsertFloat(d, t, o)
    BY <1>1, <2>3, InsertFloatKept, MovedOps
  <2> QED BY <1>2, <2>1, <2>2, <2>3
<1>4. OpKept(f, e) /\ e.operation = "NONE"
  BY <1>2, <1>3, StopSharedKept DEF OpKept, Kept
<1> QED BY <1>3, <1>4, OpTwice DEF Ended

LEMMA StopResizeKept ==
  ASSUME NEW d, Typed(d), d.operation = "RESIZE", NEW e \in StopResize(d)
  PROVE  OpKept(d, e) /\ Ended(e)
<1> DEFINE t == d.grabbed
<1>1. t \in Toplevel
  BY DEF Typed, GrabTypes
<1>2. \/ e = Fail(d, "assertion") \/ e = Fail(d, "freed output")
      \/ \E o \in d.plugged : e \in StopShared(InsertFloat(d, t, o))
  BY DEF StopResize
<1> HIDE DEF t
<1>3. ASSUME NEW why, why # "none", e = Fail(d, why) PROVE OpKept(d, e) /\ Ended(e)
  BY <1>3, OpFails, Fails DEF Ended
<1>4. ASSUME NEW o \in d.plugged, e \in StopShared(InsertFloat(d, t, o)) PROVE OpKept(d, e) /\ Ended(e)
  <2>1. OpKept(d, InsertFloat(d, t, o))
    BY <1>1, InsertFloatKept, MovedOps
  <2>2. OpKept(InsertFloat(d, t, o), e) /\ e.operation = "NONE"
    BY <1>4, <2>1, StopSharedKept DEF OpKept, Kept
  <2> QED BY <2>1, <2>2, OpTwice DEF Ended
<1> QED BY <1>2, <1>3, <1>4

LEMMA StopWhateverKept ==
  ASSUME NEW d, Typed(d), NEW e \in StopWhatever(d)
  PROVE  OpKept(d, e) /\ Ended(e)
<1>1. d.operation \in {"NONE", "MOVE", "RESIZE", "DRAG"}
  BY DEF Typed, GrabTypes
<1>2. CASE d.operation = "MOVE"
  BY <1>2, StopMoveKept DEF StopWhatever
<1>3. CASE d.operation = "RESIZE"
  BY <1>3, StopResizeKept DEF StopWhatever
<1>4. CASE d.operation \in {"NONE", "DRAG"}
  BY <1>4, OpSame DEF StopWhatever, Ended
<1> QED BY <1>1, <1>2, <1>3, <1>4

LEMMA DueKept ==
  ASSUME NEW d, Typed(d)
  PROVE  Kept(d, [d EXCEPT !.due = TRUE], {"due", "crashed"})
<1> DEFINE e == [d EXCEPT !.due = TRUE]
<1>1. But(d, e, {"due", "crashed"}) /\ Later(d, e)
  BY DEF But, Later, Typed, Fields
<1>2. WindowTypes(e) /\ ListTypes(e)
  BY DEF Typed, WindowTypes, ListTypes, Fields
<1> QED BY <1>1, <1>2, MovedTyped DEF Kept, But, Moved, Listed

LEMMA TickKept ==
  ASSUME NEW d, Typed(d)
  PROVE  Kept(d, Tick(d), Moved)
<1>1. d.operation \in {"NONE", "MOVE", "RESIZE", "DRAG"}
  BY DEF Typed, GrabTypes
<1>2. Tick(d) \in {d, [d EXCEPT !.due = TRUE], Fail(d, "no icon")}
  BY <1>1 DEF Tick
<1>3. Kept(d, [d EXCEPT !.due = TRUE], Moved)
  BY DueKept, KeptWider DEF Moved, Listed
<1>4. Kept(d, Fail(d, "no icon"), Moved)
  BY Fails, KeptWider DEF Moved, Listed
<1> QED BY <1>2, <1>3, <1>4, KeptSame

LEMMA ToggleFloatKept ==
  ASSUME NEW d, Typed(d)
  PROVE  OpKept(d, ToggleFloat(d)) /\ Kept(d, ToggleFloat(d), Moved)
<1> DEFINE t == d.focused
           g == Deref(d, t)
<1>1. CASE t = None
  BY <1>1, OpSame, KeptSame DEF ToggleFloat
<1>2. CASE t # None
  <2>1. t \in Toplevel /\ Kept(d, g, Moved)
    BY <1>2, DerefKept, KeptWider DEF Typed, FocusTypes, Moved, Listed
  <2>2. ToggleFloat(d) \in {[g EXCEPT !.state[t] = Flipped(g.state[t])], SetState(g, t, Flipped(d.state[t]))}
    BY <1>2 DEF ToggleFloat
  <2>3. Flipped(g.state[t]) \in State /\ Flipped(d.state[t]) \in State
    BY <2>1 DEF Flipped, Kept, Typed, WindowTypes, State
  <2> HIDE DEF g, t
  <2>4. Kept(g, [g EXCEPT !.state[t] = Flipped(g.state[t])], Moved)
    BY <2>1, <2>3, StateKept, KeptWider DEF Kept, Moved
  <2>5. Kept(g, SetState(g, t, Flipped(d.state[t])), Moved)
    BY <2>1, <2>3, SetStateKept DEF Kept
  <2>6. Kept(d, ToggleFloat(d), Moved)
    BY <2>1, <2>2, <2>4, <2>5, KeptTwice
  <2> QED BY <2>6, MovedOps
<1> QED BY <1>1, <1>2

LEMMA NextOrPrevTyped ==
  ASSUME NEW S, NEW s \in Seq(S), NEW x
  PROVE  NextOrPrev(s, x) \in S \cup {None}
<1>1. IndexOf(s, x) \in 0 .. Len(s)
  BY IndexIs
<1> QED BY <1>1 DEF NextOrPrev

LEMMA NextToFocusTyped ==
  ASSUME NEW d, Typed(d), NEW t \in Toplevel, d.home[t] \in Workspace
  PROVE  NextToFocus(d, t) \in Toplevel \cup {None}
<1> DEFINE w == d.home[t]
<1>1. d.floats[w] \in Seq(Toplevel) /\ d.slaves[w] \in Seq(Toplevel) /\ d.master[w] \in Toplevel \cup {None}
  BY DEF Typed, ListTypes
<1>2. /\ NextOrPrev(d.floats[w], t) \in Toplevel \cup {None}
      /\ NextOrPrev(d.slaves[w], t) \in Toplevel \cup {None}
      /\ LastOrNone(d.slaves[w]) \in Toplevel \cup {None}
      /\ FirstOrNone(d.floats[w]) \in Toplevel \cup {None}
  BY <1>1, NextOrPrevTyped, FrontTyped
<1> QED BY <1>1, <1>2 DEF NextToFocus, OrElse

LEMMA HandOnKept ==
  ASSUME NEW d, Typed(d), NEW t \in Toplevel, d.home[t] \in Workspace
  PROVE  FocusKept(d, HandOn(d, t))
BY NextToFocusTyped, ToplevelFocusKept, FocusSame DEF HandOn

SameGrab(d, e) == e.operation = d.operation /\ e.server_inited = d.server_inited

LEMMA FocusSameGrab == ASSUME NEW d, Typed(d), NEW e, FocusKept(d, e) PROVE SameGrab(d, e)
BY DEF FocusKept, Kept, But, Refocused, Fields, Typed, SameGrab

LEMMA MovedSameGrab == ASSUME NEW d, Typed(d), NEW e, Kept(d, e, Moved) PROVE SameGrab(d, e)
BY MovedServer DEF SameGrab

LEMMA LeftKept ==
  ASSUME NEW d, Typed(d), NEW t \in Toplevel, NEW e \in Left(d, t)
  PROVE  OpKept(d, e) /\ (Ended(e) \/ SameGrab(d, e))
<1>1. CASE t = d.grabbed
  <2>1. PICK f \in StopWhatever(d) : e = OutputFocus(f, f.output[f.active])
    BY <1>1 DEF Left
  <2>2. OpKept(d, f) /\ Ended(f)
    BY StopWhateverKept
  <2>3. FocusKept(f, e)
    BY <2>1, <2>2, OutputFocusKept DEF OpKept, Kept
  <2>4. e.operation = f.operation /\ Later(f, e)
    BY <2>2, <2>3 DEF FocusKept, OpKept, Kept, But, Refocused, Fields, Typed
  <2> QED BY <2>2, <2>3, <2>4, FocusOps, OpTwice DEF Ended, Later
<1>2. CASE t # d.grabbed /\ e \in {Fail(d, "freed workspace"), Fail(d, "wrong list")}
  BY <1>2, OpFails, Fails DEF Ended
<1>3. CASE t # d.grabbed /\ Exists(d, d.home[t]) /\ e \in {LeaveTiled(d, t), LeaveFloat(d, t)}
  <2> DEFINE f == HandOn(d, t)
  <2>1. d.home[t] \in Workspace
    BY <1>3 DEF Exists, Typed, WindowTypes
  <2>2. FocusKept(d, f) /\ OpKept(d, f)
    BY <2>1, HandOnKept, FocusOps
  <2>3. e \in {Configure(LayoutRemove(f, t), d.home[t]), Unlink(f, t)}
    BY <1>3 DEF LeaveTiled, LeaveFloat
  <2> HIDE DEF f
  <2>4. Kept(f, LayoutRemove(f, t), Moved)
    BY <2>2, LayoutRemoveKept, KeptWider DEF OpKept, Kept, Moved
  <2>5. Kept(LayoutRemove(f, t), Configure(LayoutRemove(f, t), d.home[t]), Moved)
    BY <2>4, ConfigureKept, KeptWider DEF Kept, Moved, Listed
  <2>6. Kept(f, Unlink(f, t), Moved)
    BY <2>2, UnlinkKept, KeptWider DEF OpKept, Kept, Moved, Listed
  <2>7. Kept(f, e, Moved)
    BY <2>3, <2>4, <2>5, <2>6, KeptTwice
  <2>8. OpKept(f, e)
    BY <2>2, <2>7, MovedOps DEF OpKept, Kept
  <2>9. SameGrab(d, f) /\ SameGrab(f, e)
    BY <2>2, <2>7, FocusSameGrab, MovedSameGrab DEF OpKept, Kept
  <2> QED BY <2>2, <2>8, <2>9, OpTwice DEF SameGrab
<1>4. CASE t # d.grabbed /\ Exists(d, d.home[t]) /\ e = LeaveFullscreen(d, t)
  <2> DEFINE a == [d EXCEPT !.fullscreen[d.home[t]] = None]
             b == [a EXCEPT !.focused = None]
  <2>1. Kept(d, a, Moved)
    BY FullscreenKept, KeptWider DEF Moved, Listed
  <2>2. OpKept(d, a)
    BY <2>1, MovedOps
  <2>3. e \in {a, OutputFocus(b, d.output[d.home[t]])}
    BY <1>4 DEF LeaveFullscreen
  <2> HIDE DEF a
  <2>4. FocusKept(a, b)
    <3>1. But(a, b, Refocused) /\ Later(a, b)
      BY <2>2 DEF OpKept, Kept, But, Later, Typed, Fields, Refocused
    <3>2. /\ b.active = a.active /\ b.act = a.act /\ b.due = a.due /\ b.focused = None
          /\ b.layer = a.layer /\ b.exclusive = a.exclusive /\ b.panel = a.panel
      BY <2>2 DEF OpKept, Kept, Typed, Fields
    <3> HIDE DEF b
    <3>3. Typed(a)
      BY <2>2 DEF OpKept, Kept
    <3>4. /\ b.active \in Workspace /\ b.act \in [Output -> Workspace \cup {None}]
          /\ \A o \in a.plugged : b.act[o] # None
          /\ b.layer \in Layer \cup {None} /\ b.exclusive \in BOOLEAN /\ b.due \in BOOLEAN
      BY <3>2, <3>3 DEF Typed, SpaceTypes, FocusTypes, WindowTypes
    <3>5. Typed(b)
      BY <3>1, <3>2, <3>3, <3>4, RefocusTyped
    <3> QED BY <3>1, <3>2, <3>5 DEF FocusKept, Kept, Exclusive
  <2> HIDE DEF b
  <2>5. FocusKept(b, OutputFocus(b, d.output[d.home[t]]))
    BY <2>4, OutputFocusKept DEF FocusKept, Kept
  <2>6. OpKept(a, OutputFocus(b, d.output[d.home[t]]))
    BY <2>4, <2>5, FocusTwice, FocusOps
  <2>7. SameGrab(d, a) /\ SameGrab(a, OutputFocus(b, d.output[d.home[t]]))
    <3>1. SameGrab(d, a)
      BY <2>1, MovedSameGrab
    <3>2. FocusKept(a, OutputFocus(b, d.output[d.home[t]]))
      BY <2>4, <2>5, FocusTwice
    <3> QED BY <2>2, <3>1, <3>2, FocusSameGrab DEF OpKept, Kept
  <2> QED BY <2>2, <2>3, <2>6, <2>7, OpTwice DEF SameGrab
<1>5. d.state[t] \in State
  BY DEF Typed, WindowTypes
<1> QED BY <1>1, <1>2, <1>3, <1>4, <1>5 DEF Left, State

-----------------------------------------------------------------------------
(* Steps.                                                                    *)

(* What a key started is held by that key.                                   *)
KeyHeld(d) ==
  /\ d.crashed = "none" /\ "command grab" \notin d.kinds
  /\ d.server_inited /\ d.operation \in {"MOVE", "RESIZE"}
  => d.key \in d.held

(* Where outputs are not unplugged, or there are no panels.                  *)
PanelsStay(d) ==
  ~({"layer", "hotplug"} \subseteq d.kinds) =>
    Exclusive(d) /\ ("layer" \notin d.kinds => \A l \in Layer : d.panel[l] = "absent")

Stepped(d, e) ==
  /\ Typed(e) /\ Later(d, e) /\ e.kinds = d.kinds
  /\ KeyHeld(d) => KeyHeld(e)
  /\ PanelsStay(d) => PanelsStay(e)

LEMMA SteppedTwice ==
  ASSUME NEW d, NEW e, NEW f, Stepped(d, e), Stepped(e, f)
  PROVE  Stepped(d, f)
BY DEF Stepped, Later

LEMMA OpStepped ==
  ASSUME NEW d, Typed(d), NEW e, OpKept(d, e),
         Ended(e) \/ SameGrab(d, e) \/ e.server_inited = FALSE
  PROVE  Stepped(d, e)
<1>1. e.kinds = d.kinds /\ e.key = d.key /\ e.held = d.held /\ e.panel = d.panel
  BY DEF OpKept, Kept, But, Operated, Moved, Listed, Refocused, Fields, Typed
<1>2. KeyHeld(d) => KeyHeld(e)
  BY <1>1 DEF KeyHeld, Ended, SameGrab, OpKept, Kept, Later
<1>3. PanelsStay(d) => PanelsStay(e)
  BY <1>1 DEF PanelsStay, OpKept
<1> QED BY <1>1, <1>2, <1>3 DEF Stepped, OpKept, Kept

LEMMA FocusStepped == ASSUME NEW d, Typed(d), NEW e, FocusKept(d, e) PROVE Stepped(d, e)
BY FocusOps, FocusSameGrab, OpStepped

LEMMA MovedStepped == ASSUME NEW d, Typed(d), NEW e, Kept(d, e, Moved) PROVE Stepped(d, e)
BY MovedOps, MovedSameGrab, OpStepped

LEMMA SpaceStepped == ASSUME NEW d, Typed(d), NEW e, SpaceKept(d, e) PROVE Stepped(d, e)
<1>1. /\ e.kinds = d.kinds /\ e.key = d.key /\ e.held = d.held /\ e.panel = d.panel
      /\ e.operation = d.operation /\ e.server_inited = d.server_inited
  BY DEF SpaceKept, Kept, But, Spaced, Fields, Typed
<1>2. KeyHeld(d) => KeyHeld(e)
  BY <1>1 DEF KeyHeld, SpaceKept, Kept, Later
<1>3. PanelsStay(d) => PanelsStay(e)
  BY <1>1 DEF PanelsStay, SpaceKept
<1> QED BY <1>1, <1>2, <1>3 DEF Stepped, SpaceKept, Kept

LEMMA FailStepped ==
  ASSUME NEW d, Typed(d), NEW why, why # "none" PROVE Stepped(d, Fail(d, why))
BY FocusFails, FocusStepped

LEMMA SameStepped == ASSUME NEW d, Typed(d) PROVE Stepped(d, d)
BY FocusSame, FocusStepped

(* Windows alone change.                                                     *)
LEMMA WindowStepped ==
  ASSUME NEW d, Typed(d), NEW e, But(d, e, Moved \cup {"life", "shown", "fresh", "pointer"}),
         WindowTypes(e), ListTypes(e), e.pointer \in Toplevel \cup Layer \cup {None}, Later(d, e)
  PROVE  Stepped(d, e)
<1>1. /\ e.output = d.output /\ e.spaces = d.spaces /\ e.dummy = d.dummy /\ e.act = d.act
      /\ e.presented = d.presented /\ e.outputs = d.outputs /\ e.plugged = d.plugged
      /\ e.active = d.active
  BY DEF But, Moved, Listed, Fields, Typed
<1>2. /\ e.focused = d.focused /\ e.layer = d.layer /\ e.exclusive = d.exclusive
      /\ e.panel = d.panel /\ e.on = d.on /\ e.want = d.want /\ e.panels = d.panels
  BY DEF But, Moved, Listed, Fields, Typed
<1>3. /\ e.operation = d.operation /\ e.grabbed = d.grabbed /\ e.server_inited = d.server_inited
      /\ e.icon = d.icon /\ e.key = d.key /\ e.held = d.held /\ e.cursor = d.cursor
      /\ e.kinds = d.kinds
  BY DEF But, Moved, Listed, Fields, Typed
<1>4. SpaceTypes(e)
  BY <1>1 DEF Typed, SpaceTypes
<1>5. FocusTypes(e)
  BY <1>2 DEF Typed, FocusTypes
<1>6. GrabTypes(e)
  BY <1>3 DEF Typed, GrabTypes
<1>7. Typed(e)
  BY <1>4, <1>5, <1>6 DEF Typed, But
<1>8. KeyHeld(d) => KeyHeld(e)
  BY <1>3 DEF KeyHeld, Later
<1>9. PanelsStay(d) => PanelsStay(e)
  BY <1>2, <1>3 DEF PanelsStay, Exclusive
<1> QED BY <1>3, <1>7, <1>8, <1>9 DEF Stepped

LEMMA CreateStep == ASSUME Typed(desk), NEW t \in Toplevel, Create(t) PROVE Stepped(desk, desk')
<1> DEFINE e == [desk EXCEPT !.life[t] = "unmapped", !.state[t] = "TILED",
                             !.prev_state[t] = "TILED", !.home[t] = None,
                             !.shown = @ \ {t}]
<1>1. But(desk, e, Moved \cup {"life", "shown", "fresh", "pointer"}) /\ Later(desk, e)
  BY DEF But, Later, Typed, Fields, Moved, Listed
<1>2. WindowTypes(e)
  BY DEF Typed, WindowTypes, Fields, Life, State
<1>3. ListTypes(e) /\ e.pointer = desk.pointer
  BY DEF Typed, ListTypes, Fields
<1>4. desk' = e
  BY DEF Create
<1> HIDE DEF e
<1>5. e.pointer \in Toplevel \cup Layer \cup {None}
  BY <1>3 DEF Typed, GrabTypes
<1>6. Stepped(desk, e)
  BY <1>1, <1>2, <1>3, <1>5, WindowStepped
<1> QED BY <1>4, <1>6

LEMMA MapStep ==
  ASSUME Typed(desk), NEW t \in Toplevel, NEW st \in State, Map(t, st) PROVE Stepped(desk, desk')
<1> DEFINE new == [desk EXCEPT !.life[t] = "mapped", !.state[t] = st, !.home[t] = desk.active,
                               !.shown = @ \ {t}, !.fresh = @ \cup {t}]
           placed == Placed(new, t)
<1>1. But(desk, new, Moved \cup {"life", "shown", "fresh", "pointer"}) /\ Later(desk, new)
  BY DEF But, Later, Typed, Fields, Moved, Listed
<1>2. desk.active \in Workspace
  BY DEF Typed, SpaceTypes
<1>3. WindowTypes(new)
  BY <1>2 DEF Typed, WindowTypes, Fields, Life
<1>4. ListTypes(new) /\ new.pointer = desk.pointer
  BY DEF Typed, ListTypes, Fields
<1>5. new.pointer \in Toplevel \cup Layer \cup {None}
  BY <1>4 DEF Typed, GrabTypes
<1>6. desk' \in {ToplevelFocus(placed, t), Fail(desk, "freed workspace")}
  BY DEF Map
<1> HIDE DEF new
<1>7. Stepped(desk, new)
  BY <1>1, <1>3, <1>4, <1>5, WindowStepped
<1>8. Typed(new)
  BY <1>7 DEF Stepped
<1>9. Kept(new, placed, Moved)
  <2> DEFINE a == [new EXCEPT !.due = TRUE]
             b == LayoutAdd(new, new.home[t], t)
  <2>1. placed \in {PushFloat(a, new.home[t], t), Configure(b, new.home[t])}
    BY DEF Placed
  <2>2. Kept(new, a, Moved)
    BY <1>8, DueKept, KeptWider DEF Moved, Listed
  <2> HIDE DEF a
  <2>3. Kept(a, PushFloat(a, new.home[t], t), Moved)
    BY <2>2, PushFloatKept, KeptWider DEF Kept, Moved, Listed
  <2>4. Kept(new, b, Moved)
    BY <1>8, LayoutAddKept, KeptWider DEF Moved, Listed
  <2> HIDE DEF b
  <2>5. Kept(b, Configure(b, new.home[t]), Moved)
    BY <2>4, ConfigureKept, KeptWider DEF Kept, Moved, Listed
  <2> HIDE DEF placed
  <2> QED BY <2>1, <2>2, <2>3, <2>4, <2>5, KeptTwice
<1> HIDE DEF placed
<1>10. Stepped(new, placed) /\ Typed(placed)
  BY <1>8, <1>9, MovedStepped DEF Kept
<1>11. Stepped(placed, ToplevelFocus(placed, t))
  BY <1>10, ToplevelFocusKept, FocusStepped
<1> QED BY <1>6, <1>7, <1>10, <1>11, SteppedTwice, FailStepped

LEMMA UnmapStep ==
  ASSUME Typed(desk), NEW t \in Toplevel, Unmap(t) PROVE Stepped(desk, desk')
<1>1. PICK d \in Left(desk, t) : desk' = [AddGhost(d, t) EXCEPT !.life[t] = "unmapped"]
  BY DEF Unmap, Unmapped
<1>2. Stepped(desk, d) /\ Typed(d)
  BY LeftKept, OpStepped DEF OpKept, Kept
<1> DEFINE a == AddGhost(d, t)
           e == [a EXCEPT !.life[t] = "unmapped"]
<1>3. Stepped(d, a)
  <2>1. CASE Linked(d, t)
    BY <1>2, <2>1, FailStepped DEF AddGhost
  <2>2. CASE ~Linked(d, t)
    <3>1. a = [d EXCEPT !.ghosts = @ \cup {t}, !.fresh = @ \ {t}, !.due = TRUE]
      BY <2>2 DEF AddGhost
    <3>2. But(d, a, Moved \cup {"life", "shown", "fresh", "pointer"}) /\ Later(d, a)
      BY <1>2, <3>1 DEF But, Later, Typed, Fields, Moved, Listed
    <3>3. WindowTypes(a)
      BY <1>2, <3>1 DEF Typed, WindowTypes, Fields
    <3>4. ListTypes(a) /\ a.pointer = d.pointer
      BY <1>2, <3>1 DEF Typed, ListTypes, Fields
    <3> HIDE DEF a
    <3>5. a.pointer \in Toplevel \cup Layer \cup {None}
      BY <1>2, <3>4 DEF Typed, GrabTypes
    <3> QED BY <1>2, <3>2, <3>3, <3>4, <3>5, WindowStepped
  <2> QED BY <2>1, <2>2
<1>4. desk' = e
  BY <1>1
<1> HIDE DEF a
<1>5. Typed(a)
  BY <1>3 DEF Stepped
<1>6. But(a, e, Moved \cup {"life", "shown", "fresh", "pointer"}) /\ Later(a, e)
  BY <1>5 DEF But, Later, Typed, Fields, Moved, Listed
<1>7. WindowTypes(e)
  BY <1>5 DEF Typed, WindowTypes, Fields, Life
<1>8. ListTypes(e) /\ e.pointer = a.pointer
  BY <1>5 DEF Typed, ListTypes, Fields
<1> HIDE DEF e
<1>9. e.pointer \in Toplevel \cup Layer \cup {None}
  BY <1>5, <1>8 DEF Typed, GrabTypes
<1>10. Stepped(a, e)
  BY <1>5, <1>6, <1>7, <1>8, <1>9, WindowStepped
<1> QED BY <1>2, <1>3, <1>4, <1>10, SteppedTwice

LEMMA DestroyStep ==
  ASSUME Typed(desk), NEW t \in Toplevel, Destroy(t) PROVE Stepped(desk, desk')
<1> DEFINE e == [desk EXCEPT !.life[t] = "absent",
                             !.pointer = IF @ = t THEN None ELSE @,
                             !.shown = IF t \in desk.ghosts THEN @ ELSE @ \ {t},
                             !.fresh = @ \ {t}]
<1>1. But(desk, e, Moved \cup {"life", "shown", "fresh", "pointer"}) /\ Later(desk, e)
  BY DEF But, Later, Typed, Fields, Moved, Listed
<1>2. WindowTypes(e)
  BY DEF Typed, WindowTypes, Fields, Life
<1>3. ListTypes(e) /\ e.pointer \in {None, desk.pointer}
  BY DEF Typed, ListTypes, Fields
<1>4. desk' = e
  BY DEF Destroy
<1> HIDE DEF e
<1>5. e.pointer \in Toplevel \cup Layer \cup {None}
  BY <1>3 DEF Typed, GrabTypes
<1>6. Stepped(desk, e)
  BY <1>1, <1>2, <1>3, <1>5, WindowStepped
<1> QED BY <1>4, <1>6

LEMMA FullscreenStep ==
  ASSUME Typed(desk), NEW t \in Toplevel, NEW full \in BOOLEAN, RequestFullscreen(t, full)
  PROVE  Stepped(desk, desk')
<1> DEFINE st == IF full THEN "FULLSCREEN" ELSE desk.prev_state[t]
<1>1. st \in State /\ desk' = SetState(desk, t, st)
  BY DEF RequestFullscreen, Typed, WindowTypes, State
<1> HIDE DEF st
<1> QED BY <1>1, SetStateKept, MovedStepped

LEMMA RequestGrabStep ==
  ASSUME Typed(desk), NEW t \in Toplevel, RequestGrab(t)
  PROVE  Stepped(desk, desk')
<1>1. desk' \in {StartMove(desk, t, FALSE), StartResize(desk, t, FALSE)}
  BY DEF RequestGrab
<1>2. OpKept(desk, desk') /\ (desk' = desk \/ desk'.server_inited = FALSE)
  BY <1>1, StartKept
<1> QED BY <1>2, OpStepped, SameStepped

LEMMA ToggleStep ==
  ASSUME Typed(desk), UserTogglesFloat \/ UserTogglesFullscreen
  PROVE  Stepped(desk, desk')
<1>1. CASE UserTogglesFloat
  BY <1>1, ToggleFloatKept, MovedStepped DEF UserTogglesFloat
<1>2. CASE UserTogglesFullscreen
  <2> DEFINE t == desk.focused
             g == Deref(desk, t)
             st == IF desk.state[t] # "FULLSCREEN" THEN "FULLSCREEN" ELSE desk.prev_state[t]
  <2>1. t \in Toplevel /\ desk' = SetState(g, t, st)
    BY <1>2 DEF UserTogglesFullscreen, Typed, FocusTypes
  <2>2. st \in State
    BY <2>1 DEF Typed, WindowTypes, State
  <2>3. Kept(desk, g, Moved)
    BY DerefKept, KeptWider DEF Moved, Listed
  <2> HIDE DEF t, st, g
  <2>4. Kept(g, SetState(g, t, st), Moved)
    BY <2>1, <2>2, <2>3, SetStateKept DEF Kept
  <2> QED BY <2>1, <2>3, <2>4, KeptTwice, MovedStepped
<1> QED BY <1>1, <1>2

LEMMA StartGrabKept ==
  ASSUME NEW d, Typed(d), NEW e \in StartGrab(d)
  PROVE  OpKept(d, e)
BY StartKept, OpSame DEF StartGrab

LEMMA CommandGrabStep ==
  ASSUME Typed(desk), CommandGrab
  PROVE  Stepped(desk, desk')
<1>1. OpKept(desk, desk') /\ "command grab" \in desk.kinds
  BY StartGrabKept DEF CommandGrab, Happens
<1>2. desk'.kinds = desk.kinds /\ desk'.panel = desk.panel
  BY <1>1 DEF OpKept, Kept, But, Operated, Moved, Listed, Refocused, Fields, Typed
<1>3. KeyHeld(desk')
  BY <1>1, <1>2 DEF KeyHeld
<1> QED BY <1>1, <1>2, <1>3 DEF Stepped, OpKept, Kept, PanelsStay

LEMMA SoundKept ==
  ASSUME NEW d, Typed(d), NEW t \in Toplevel \cup {None}, NEW direction
  PROVE  /\ Kept(d, Sound(d, t, direction), {"crashed"})
         /\ Sound(d, t, direction).crashed = "none" /\ t # None => d.home[t] \in Workspace
<1>1. CASE t = None
  BY <1>1, KeptSame DEF Sound
<1>2. CASE t # None /\ ~Exists(d, d.home[t])
  BY <1>2, Fails DEF Sound
<1>3. CASE t # None /\ Exists(d, d.home[t])
  <2>1. d.home[t] \in Workspace
    BY <1>3 DEF Exists, Typed, WindowTypes
  <2> QED BY <1>3, <2>1, Fails, DerefKept DEF Sound
<1> QED BY <1>1, <1>2, <1>3

LEMMA NeighbourTyped ==
  ASSUME NEW t \in Toplevel \cup {None}, NEW direction \in Direction, Typed(desk),
         t # None => desk.home[t] \in Workspace
  PROVE  InLayout(t, direction) \in Toplevel \cup {None}
<1>1. CASE t = None \/ desk.state[t] # "TILED"
  BY <1>1 DEF InLayout
<1>2. CASE t # None /\ desk.state[t] = "TILED"
  <2> DEFINE w == desk.home[t]
             s == desk.slaves[w]
             i == IndexOf(s, t)
  <2>1. s \in Seq(Toplevel) /\ desk.master[w] \in Toplevel \cup {None}
    BY <1>2 DEF Typed, ListTypes
  <2>2. i \in 0 .. Len(s) /\ LastOrNone(s) \in Toplevel \cup {None}
    BY <2>1, IndexIs, FrontTyped
  <2>3. i > 1 => s[i - 1] \in Toplevel
    <3> HIDE DEF s, i
    <3> QED BY <2>1, <2>2
  <2>4. i < Len(s) => s[i + 1] \in Toplevel
    <3> HIDE DEF s, i
    <3> QED BY <2>1, <2>2
  <2>5. InLayout(t, direction) \in
          {LastOrNone(s), None, desk.master[w]} \cup (IF i > 1 THEN {s[i - 1]} ELSE {})
            \cup (IF i < Len(s) THEN {s[i + 1]} ELSE {})
    BY <1>2 DEF InLayout, InDirection, Direction
  <2> QED BY <2>1, <2>2, <2>3, <2>4, <2>5
<1> QED BY <1>1, <1>2

LEMMA FocusDirectionStep ==
  ASSUME Typed(desk), NEW direction \in Direction, NEW o, FocusInDirection(direction, o)
  PROVE  Stepped(desk, desk')
<1> DEFINE t == desk.focused
           d == Sound(desk, t, direction)
           next == InLayout(t, direction)
<1>1. t \in Toplevel \cup {None}
  BY DEF Typed, FocusTypes
<1>2. Kept(desk, d, {"crashed"}) /\ (d.crashed = "none" /\ t # None => desk.home[t] \in Workspace)
  BY <1>1, SoundKept
<1>3. d.crashed = "none" => next \in Toplevel \cup {None}
  BY <1>1, <1>2, NeighbourTyped
<1>4. desk' = IF d.crashed # "none" THEN d
              ELSE IF next # None THEN ToplevelFocus(d, next)
              ELSE IF o # None THEN OutputFocus(d, o) ELSE d
  BY DEF FocusInDirection
<1> HIDE DEF d, next, t
<1>5. Stepped(desk, d) /\ Typed(d)
  BY <1>2, KeptWider, MovedStepped DEF Kept, Moved, Listed
<1>6. d.crashed = "none" => Stepped(d, ToplevelFocus(d, next))
  BY <1>3, <1>5, ToplevelFocusKept, FocusStepped
<1>7. Stepped(d, OutputFocus(d, o)) /\ Stepped(d, d)
  BY <1>5, OutputFocusKept, FocusStepped, SameStepped
<1> QED BY <1>4, <1>5, <1>6, <1>7, SteppedTwice

LEMMA MoveDirectionStep ==
  ASSUME Typed(desk), NEW direction \in Direction, NEW o, MoveInDirection(direction, o)
  PROVE  Stepped(desk, desk')
<1> DEFINE t == desk.focused
           d == Sound(desk, t, direction)
           next == InLayout(t, direction)
           swapped == SwapLayout(d, t, next)
<1>1. t \in Toplevel
  BY DEF Typed, FocusTypes, MoveInDirection
<1>2. Kept(desk, d, {"crashed"}) /\ (d.crashed = "none" => desk.home[t] \in Workspace)
  BY <1>1, NoneIsNoName, SoundKept
<1>3. d.crashed = "none" => next \in Toplevel \cup {None}
  BY <1>1, <1>2, NeighbourTyped
<1>4. desk' = IF d.crashed # "none" THEN d
              ELSE IF next # None THEN Configure(swapped, d.home[t])
              ELSE IF o # None THEN MoveToWorkspace(d, t, d.act[o]) ELSE d
  BY DEF MoveInDirection
<1>5. d.crashed = "none" /\ o # None => o \in desk.plugged
  BY DEF MoveInDirection, Across
<1> HIDE DEF d, next, t
<1>6. Stepped(desk, d) /\ Typed(d) /\ d.plugged = desk.plugged
  BY <1>2, KeptWider, MovedStepped DEF Kept, But, Fields, Typed, Moved, Listed
<1>7. ASSUME d.crashed = "none", next # None PROVE Stepped(d, Configure(swapped, d.home[t]))
  <2>1. Kept(d, swapped, Moved)
    BY <1>1, <1>3, <1>6, <1>7, SwapLayoutKept, KeptWider DEF Moved, Listed
  <2> HIDE DEF swapped
  <2>2. Kept(swapped, Configure(swapped, d.home[t]), Moved)
    BY <2>1, ConfigureKept, KeptWider DEF Kept, Moved, Listed
  <2> QED BY <1>6, <2>1, <2>2, KeptTwice, MovedStepped
<1>8. ASSUME d.crashed = "none", o # None PROVE Stepped(d, MoveToWorkspace(d, t, d.act[o]))
  <2>1. d.act[o] \in Workspace
    BY <1>5, <1>6, <1>8, ActiveTyped
  <2> QED BY <1>1, <1>6, <2>1, MoveToWorkspaceKept, MovedStepped
<1> QED BY <1>4, <1>6, <1>7, <1>8, SteppedTwice, SameStepped

LEMMA FoundKept ==
  ASSUME NEW d, Typed(d), NEW w
  PROVE  Kept(d, Found(d, w), Moved)
BY Fails, KeptWider, KeptSame DEF Found, Moved, Listed

(* What ends before a command to a workspace.                                *)
LEMMA StopFoundKept ==
  ASSUME NEW w, Typed(desk), NEW d \in StopWhatever(Found(desk, w))
  PROVE  Stepped(desk, d) /\ Typed(d) /\ d.output = desk.output
<1>1. Kept(desk, Found(desk, w), Moved)
  BY FoundKept
<1>2. OpKept(Found(desk, w), d) /\ Ended(d)
  BY <1>1, StopWhateverKept DEF Kept
<1>3. OpKept(desk, d)
  BY <1>1, <1>2, MovedOps, OpTwice
<1>4. d.output = desk.output
  BY <1>3 DEF OpKept, Kept, But, Operated, Moved, Listed, Refocused, Fields, Typed
<1> QED BY <1>2, <1>3, <1>4, OpStepped DEF OpKept, Kept

LEMMA WorkspaceStep ==
  ASSUME Typed(desk), NEW w \in Workspace,
         ChangeWorkspace(w) \/ MoveFocusedToWorkspace(w) \/ RemoteActivate(w)
  PROVE  Stepped(desk, desk')
<1>1. CASE ChangeWorkspace(w)
  <2>1. PICK d \in StopWhatever(Found(desk, w)) : desk' = SetActive(d, w)
    BY <1>1 DEF ChangeWorkspace
  <2>2. Stepped(desk, d) /\ Typed(d)
    BY StopFoundKept
  <2> QED BY <2>1, <2>2, SetActiveKept, FocusStepped, SteppedTwice
<1>2. CASE MoveFocusedToWorkspace(w)
  <2> DEFINE t == desk.focused
             g == Deref(desk, t)
             f == Found(g, w)
             d == MoveToWorkspace(f, t, w)
  <2>1. t \in Toplevel /\ desk' \in {SetActiveKeepingFocus(d, w), SetActive(d, w)}
    BY <1>2 DEF MoveFocusedToWorkspace, Typed, FocusTypes
  <2>2. Kept(desk, g, Moved)
    BY DerefKept, KeptWider DEF Moved, Listed
  <2> HIDE DEF g, t
  <2>3. Kept(g, f, Moved)
    BY <2>2, FoundKept DEF Kept
  <2> HIDE DEF f
  <2>4. Kept(f, d, Moved)
    BY <2>1, <2>3, MoveToWorkspaceKept DEF Kept
  <2>5. Kept(desk, d, Moved)
    BY <2>2, <2>3, <2>4, KeptTwice
  <2> HIDE DEF d
  <2>6. FocusKept(d, desk')
    BY <2>1, <2>5, SetActiveKept, SetActiveKeepingFocusKept DEF Kept
  <2> QED BY <2>5, <2>6, MovedStepped, FocusStepped, SteppedTwice DEF Kept
<1>3. CASE RemoteActivate(w)
  BY <1>3, SetActiveKept, FocusStepped DEF RemoteActivate
<1> QED BY <1>1, <1>2, <1>3

LEMMA WorkspacesStep ==
  ASSUME Typed(desk), NEW w \in Workspace,
         \/ \E o \in Output : CreateWorkspace(o, w) \/ RemoteCreate(o, w)
         \/ \E n \in Workspace : DestroyWorkspace(w, n) \/ RemoteRemove(w, n)
  PROVE  Stepped(desk, desk')
<1>1. ASSUME NEW o \in Output, CreateWorkspace(o, w) \/ RemoteCreate(o, w)
      PROVE  Stepped(desk, desk')
  <2>1. o \in ToSet(desk.outputs) /\ desk' = WorkspaceCreate(desk, o, w)
    BY <1>1 DEF CreateWorkspace, RemoteCreate, Typed, SpaceTypes
  <2> QED BY <2>1, WorkspaceCreateKept, SpaceStepped
<1>2. ASSUME NEW n \in Workspace, DestroyWorkspace(w, n)
      PROVE  Stepped(desk, desk')
  <2>1. PICK d \in StopWhatever(Found(desk, w)) : desk' = WorkspaceDestroy(d, w, n)
    BY <1>2 DEF DestroyWorkspace
  <2>2. Stepped(desk, d) /\ Typed(d) /\ d.output[w] # None
    BY <1>2, StopFoundKept DEF DestroyWorkspace, Exists
  <2> QED BY <2>1, <2>2, WorkspaceDestroyKept, SpaceStepped, SteppedTwice
<1>3. ASSUME NEW n \in Workspace, RemoteRemove(w, n)
      PROVE  Stepped(desk, desk')
  BY <1>3, WorkspaceDestroyKept, SpaceStepped DEF RemoteRemove, Exists
<1> QED BY <1>1, <1>2, <1>3

(* Keys, buttons and what they hold.                                         *)
LEMMA InputStepped ==
  ASSUME NEW d, Typed(d), NEW e, But(d, e, Inputs), GrabTypes(e), e.due \in BOOLEAN,
         KeyHeld(d) => KeyHeld(e)
  PROVE  Stepped(d, e)
<1>1. Typed(e) /\ Later(d, e) /\ (Exclusive(d) => Exclusive(e))
  BY InputTyped
<1>2. e.kinds = d.kinds /\ e.panel = d.panel
  BY DEF But, Inputs, Fields, Typed
<1> QED BY <1>1, <1>2 DEF Stepped, PanelsStay

LEMMA KeyPressStep ==
  ASSUME Typed(desk), NEW k \in Key, KeyPress(k)
  PROVE  Stepped(desk, desk')
<1>1. PICK d \in StartGrab(desk) : desk' = [d EXCEPT !.key = k, !.held = @ \cup {k}]
  BY DEF KeyPress
<1>2. OpKept(desk, d)
  BY StartGrabKept
<1> DEFINE e == [d EXCEPT !.key = k, !.held = @ \cup {k}]
<1>3. But(d, e, Inputs)
  BY <1>2 DEF OpKept, Kept, But, Typed, Fields, Inputs
<1>4. /\ e.operation = d.operation /\ e.grabbed = d.grabbed /\ e.server_inited = d.server_inited
      /\ e.icon = d.icon /\ e.key = k /\ e.held = d.held \cup {k} /\ e.cursor = d.cursor
      /\ e.pointer = d.pointer /\ e.due = d.due /\ e.kinds = d.kinds /\ e.panel = d.panel
  BY <1>2 DEF OpKept, Kept, Typed, Fields
<1>5. desk' = e
  BY <1>1
<1> HIDE DEF e
<1>6. Typed(d) /\ d.kinds = desk.kinds /\ d.panel = desk.panel
  BY <1>2 DEF OpKept, Kept, But, Operated, Moved, Listed, Refocused, Fields, Typed
<1>7. GrabTypes(e) /\ e.due \in BOOLEAN
  BY <1>4, <1>6 DEF Typed, GrabTypes, WindowTypes
<1>8. Typed(e) /\ Later(d, e) /\ (Exclusive(d) => Exclusive(e))
  BY <1>3, <1>6, <1>7, InputTyped
<1>9. KeyHeld(e)
  BY <1>4 DEF KeyHeld
<1>10. Stepped(desk, e)
  BY <1>2, <1>4, <1>6, <1>8, <1>9 DEF Stepped, OpKept, Kept, Later, PanelsStay
<1> QED BY <1>5, <1>10

Holds(d, S) == [d EXCEPT !.held = S]

LEMMA HeldKept ==
  ASSUME NEW d, Typed(d), NEW S \in SUBSET (Key \cup {"button"}), NEW e, e = Holds(d, S)
  PROVE  /\ But(d, e, Inputs) /\ GrabTypes(e) /\ e.due \in BOOLEAN /\ Typed(e) /\ Later(d, e)
         /\ Exclusive(d) => Exclusive(e)
         /\ e.operation = d.operation /\ e.server_inited = d.server_inited /\ e.key = d.key
         /\ e.held = S /\ e.kinds = d.kinds /\ e.panel = d.panel /\ e.crashed = d.crashed
<1>1. But(d, e, Inputs)
  BY DEF Holds, But, Typed, Fields, Inputs
<1>2. /\ e.operation = d.operation /\ e.grabbed = d.grabbed /\ e.server_inited = d.server_inited
      /\ e.icon = d.icon /\ e.key = d.key /\ e.held = S /\ e.cursor = d.cursor
      /\ e.pointer = d.pointer /\ e.due = d.due /\ e.kinds = d.kinds /\ e.panel = d.panel
      /\ e.crashed = d.crashed
  BY DEF Holds, Typed, Fields
<1>3. GrabTypes(e) /\ e.due \in BOOLEAN
  BY <1>2 DEF Typed, GrabTypes, WindowTypes
<1> HIDE DEF But
<1> QED BY <1>1, <1>2, <1>3, InputTyped

LEMMA KeyReleaseStep ==
  ASSUME Typed(desk), NEW k \in Key, KeyRelease(k)
  PROVE  Stepped(desk, desk')
<1> DEFINE S == desk.held \ {k}
           d == Holds(desk, S)
<1>1. S \in SUBSET (Key \cup {"button"})
  BY DEF Typed, GrabTypes
<1>2. d = [desk EXCEPT !.held = @ \ {k}]
  BY DEF Holds
<1>3. CASE desk.operation # "NONE" /\ desk.server_inited /\ desk.key = k
  <2>1. PICK f \in StopWhatever(d) : desk' = [f EXCEPT !.key = None]
    BY <1>2, <1>3 DEF KeyRelease
  <2> DEFINE e == [f EXCEPT !.key = None]
  <2> HIDE DEF S
  <2>2. /\ Typed(d) /\ Later(desk, d) /\ (Exclusive(desk) => Exclusive(d))
        /\ d.kinds = desk.kinds /\ d.panel = desk.panel
    BY <1>1, HeldKept
  <2> HIDE DEF d
  <2>3. OpKept(d, f) /\ Ended(f)
    BY <2>2, StopWhateverKept
  <2>4. But(f, e, Inputs)
    BY <2>3 DEF OpKept, Kept, But, Typed, Fields, Inputs
  <2>5. /\ e.operation = f.operation /\ e.grabbed = f.grabbed /\ e.server_inited = f.server_inited
        /\ e.icon = f.icon /\ e.key = None /\ e.held = f.held /\ e.cursor = f.cursor
        /\ e.pointer = f.pointer /\ e.due = f.due /\ e.kinds = f.kinds /\ e.panel = f.panel
        /\ e.crashed = f.crashed
    BY <2>3 DEF OpKept, Kept, Typed, Fields
  <2>6. desk' = e
    BY <2>1
  <2> HIDE DEF e
  <2>7. Typed(f) /\ f.kinds = d.kinds /\ f.panel = d.panel
    BY <2>2, <2>3 DEF OpKept, Kept, But, Operated, Moved, Listed, Refocused, Fields, Typed
  <2>8. GrabTypes(e) /\ e.due \in BOOLEAN
    BY <2>5, <2>7 DEF Typed, GrabTypes, WindowTypes
  <2>9. Typed(e) /\ Later(f, e) /\ (Exclusive(f) => Exclusive(e))
    BY <2>4, <2>7, <2>8, InputTyped
  <2>10. KeyHeld(e)
    BY <2>3, <2>5 DEF KeyHeld, Ended
  <2>11. Stepped(desk, e)
    BY <2>2, <2>3, <2>5, <2>7, <2>9, <2>10 DEF Stepped, OpKept, Kept, Later, PanelsStay
  <2> QED BY <2>6, <2>11
<1>4. CASE ~(desk.operation # "NONE" /\ desk.server_inited /\ desk.key = k)
  <2>1. desk' = d
    BY <1>2, <1>4 DEF KeyRelease
  <2>2. KeyHeld(desk) => KeyHeld(d)
    <3>1. /\ d.operation = desk.operation /\ d.server_inited = desk.server_inited
          /\ d.key = desk.key /\ d.held = S /\ d.kinds = desk.kinds /\ d.crashed = desk.crashed
      BY <1>1, HeldKept
    <3> QED BY <1>4, <3>1 DEF KeyHeld
  <2> HIDE DEF S
  <2>3. But(desk, d, Inputs) /\ GrabTypes(d) /\ d.due \in BOOLEAN
    BY <1>1, HeldKept
  <2> HIDE DEF d
  <2> QED BY <2>1, <2>2, <2>3, InputStepped
<1> QED BY <1>3, <1>4

LEMMA RaisedKept ==
  ASSUME NEW d, Typed(d)
  PROVE  Kept(d, Raised(d), Moved)
<1> DEFINE t == d.pointer
           a == Unlink(d, t)
<1>1. CASE ~(t \in Toplevel \ {d.grabbed} /\ d.state[t] = "FLOAT")
  BY <1>1, KeptSame DEF Raised
<1>2. CASE t \in Toplevel \ {d.grabbed} /\ d.state[t] = "FLOAT"
  <2>1. Kept(d, a, Moved)
    BY <1>2, UnlinkKept, KeptWider DEF Moved, Listed
  <2>2. Raised(d) = PushFloat(a, d.home[t], t)
    BY <1>2 DEF Raised, Raise
  <2> HIDE DEF a
  <2>3. Kept(a, PushFloat(a, d.home[t], t), Moved)
    BY <1>2, <2>1, PushFloatKept, KeptWider DEF Kept, Moved, Listed
  <2> QED BY <2>1, <2>2, <2>3, KeptTwice
<1> QED BY <1>1, <1>2

LEMMA ButtonStep ==
  ASSUME Typed(desk), Press \/ Release
  PROVE  Stepped(desk, desk')
<1> DEFINE r == Raised(desk)
           down == r.held \cup {"button"}
           up == r.held \ {"button"}
           d == Holds(r, up)
           e == Holds(r, down)
<1>1. Kept(desk, r, Moved)
  BY RaisedKept
<1>2. /\ Press => desk' = e
      /\ Release => desk' \in IF desk.operation # "NONE" /\ desk.server_inited THEN StopWhatever(d)
                              ELSE IF desk.operation = "DRAG"
                              THEN CursorFocus([d EXCEPT !.operation = "NONE"], TRUE)
                              ELSE {d}
  BY DEF Press, Release, Holds
<1> HIDE DEF r
<1>3. Typed(r) /\ Stepped(desk, r) /\ SameGrab(desk, r)
  BY <1>1, MovedStepped, MovedSameGrab DEF Kept
<1>4. down \in SUBSET (Key \cup {"button"}) /\ up \in SUBSET (Key \cup {"button"})
  BY <1>3 DEF Typed, GrabTypes
<1>5. CASE Press
  <2>1. KeyHeld(r) => KeyHeld(e)
    <3>1. /\ e.operation = r.operation /\ e.server_inited = r.server_inited /\ e.key = r.key
          /\ e.held = down /\ e.kinds = r.kinds /\ e.crashed = r.crashed
      <4> HIDE DEF down
      <4> QED BY <1>3, <1>4, HeldKept
    <3> QED BY <3>1 DEF KeyHeld
  <2> HIDE DEF down
  <2>2. But(r, e, Inputs) /\ GrabTypes(e) /\ e.due \in BOOLEAN
    BY <1>3, <1>4, HeldKept
  <2> HIDE DEF e
  <2>3. Stepped(r, e)
    BY <1>3, <2>1, <2>2, InputStepped
  <2> QED BY <1>2, <1>3, <1>5, <2>3, SteppedTwice
<1>6. CASE Release
  <2> HIDE DEF up
  <2>1. /\ But(r, d, Inputs) /\ GrabTypes(d) /\ d.due \in BOOLEAN /\ Typed(d) /\ Later(r, d)
        /\ Exclusive(r) => Exclusive(d)
        /\ d.operation = r.operation /\ d.server_inited = r.server_inited /\ d.key = r.key
        /\ d.kinds = r.kinds /\ d.panel = r.panel /\ d.crashed = r.crashed
    BY <1>3, <1>4, HeldKept
  <2> HIDE DEF d
  <2>2. CASE desk.operation # "NONE" /\ desk.server_inited
    <3>1. desk' \in StopWhatever(d)
      BY <1>2, <1>6, <2>2
    <3>2. OpKept(d, desk') /\ Ended(desk')
      BY <2>1, <3>1, StopWhateverKept
    <3>3. desk'.kinds = d.kinds /\ desk'.panel = d.panel
      BY <3>2, <2>1 DEF OpKept, Kept, But, Operated, Moved, Listed, Refocused, Fields, Typed
    <3>4. KeyHeld(desk')
      BY <3>2 DEF Ended, KeyHeld
    <3>5. Stepped(r, desk')
      BY <2>1, <3>2, <3>3, <3>4 DEF Stepped, OpKept, Kept, Later, PanelsStay
    <3> QED BY <1>3, <3>5, SteppedTwice
  <2>3. CASE ~(desk.operation # "NONE" /\ desk.server_inited)
    <3>1. KeyHeld(d)
      BY <1>3, <2>1, <2>3 DEF KeyHeld, SameGrab
    <3>2. Stepped(r, d)
      BY <1>3, <2>1, <3>1, InputStepped
    <3>3. CASE desk.operation = "DRAG"
      <4> DEFINE f == [d EXCEPT !.operation = "NONE"]
      <4>1. But(d, f, {"operation", "grabbed", "server_inited", "pointer", "due"})
        BY <2>1 DEF But, Typed, Fields
      <4>2. /\ f.operation = "NONE" /\ f.grabbed = d.grabbed /\ f.server_inited = d.server_inited
            /\ f.pointer = d.pointer /\ f.due = d.due
        BY <2>1 DEF Typed, Fields
      <4>3. desk' \in CursorFocus(f, TRUE)
        BY <1>2, <1>6, <2>3, <3>3
      <4> HIDE DEF f
      <4>4. /\ f.operation \in {"NONE", "MOVE", "RESIZE", "DRAG"} /\ f.grabbed \in Toplevel \cup {None}
            /\ f.grabbed # None <=> f.operation \in {"MOVE", "RESIZE"}
            /\ f.server_inited \in BOOLEAN /\ f.pointer \in Toplevel \cup Layer \cup {None}
            /\ f.due \in BOOLEAN
        BY <1>3, <2>1, <3>3, <4>2 DEF Typed, GrabTypes, WindowTypes, SameGrab
      <4>5. OpKept(d, f)
        BY <2>1, <4>1, <4>4, GrabKept
      <4>6. OpKept(f, desk') /\ desk'.operation = "NONE"
        BY <4>2, <4>3, <4>5, CursorFocusKept DEF OpKept, Kept
      <4>7. Stepped(d, desk')
        BY <2>1, <4>5, <4>6, OpTwice, OpStepped DEF Ended
      <4> QED BY <1>3, <3>2, <4>7, SteppedTwice
    <3>4. CASE desk.operation # "DRAG"
      BY <1>2, <1>3, <1>6, <2>3, <3>2, <3>4, SteppedTwice
    <3> QED BY <3>3, <3>4
  <2> QED BY <2>2, <2>3
<1> QED BY <1>5, <1>6

LEMMA DragStep ==
  ASSUME Typed(desk), NEW icon \in BOOLEAN, Drag(icon)
  PROVE  Stepped(desk, desk')
<1> DEFINE e == [desk EXCEPT !.operation = "DRAG", !.icon = icon, !.pointer = None]
<1>1. desk' = e /\ desk.operation = "NONE"
  BY DEF Drag, StartDrag
<1>2. But(desk, e, Inputs)
  BY DEF But, Typed, Fields, Inputs
<1>3. /\ e.operation = "DRAG" /\ e.grabbed = desk.grabbed /\ e.server_inited = desk.server_inited
      /\ e.icon = icon /\ e.key = desk.key /\ e.held = desk.held /\ e.cursor = desk.cursor
      /\ e.pointer = None /\ e.due = desk.due
  BY DEF Typed, Fields
<1> HIDE DEF e
<1>4. GrabTypes(e) /\ e.due \in BOOLEAN
  BY <1>1, <1>3 DEF Typed, GrabTypes, WindowTypes
<1>5. KeyHeld(e)
  BY <1>3 DEF KeyHeld
<1>6. Stepped(desk, e)
  BY <1>2, <1>4, <1>5, InputStepped
<1> QED BY <1>1, <1>6

LEMMA MotionStep ==
  ASSUME Typed(desk), NEW o \in Output, Motion(o)
  PROVE  Stepped(desk, desk')
<1> DEFINE w == desk.act[o]
           a == [desk EXCEPT !.cursor = o]
           d == [desk EXCEPT !.cursor = o, !.active = w]
           b == [a EXCEPT !.active = w]
<1>1. w \in Workspace
  BY ActiveTyped DEF Motion
<1>2. PICK e : desk' = Tick(e) /\ (e = d \/ e \in CursorFocus(d, TRUE))
  BY DEF Motion
<1>3. d = b
  OBVIOUS
<1>4. Stepped(desk, a)
  <2>1. But(desk, a, Inputs)
    BY DEF But, Typed, Fields, Inputs
  <2>2. /\ a.operation = desk.operation /\ a.grabbed = desk.grabbed
        /\ a.server_inited = desk.server_inited /\ a.icon = desk.icon /\ a.key = desk.key
        /\ a.held = desk.held /\ a.cursor = o /\ a.pointer = desk.pointer /\ a.due = desk.due
        /\ a.kinds = desk.kinds /\ a.crashed = desk.crashed
    BY DEF Typed, Fields
  <2> HIDE DEF a
  <2>3. GrabTypes(a) /\ a.due \in BOOLEAN
    BY <2>2 DEF Typed, GrabTypes, WindowTypes
  <2>4. KeyHeld(desk) => KeyHeld(a)
    BY <2>2 DEF KeyHeld
  <2> QED BY <2>1, <2>3, <2>4, InputStepped
<1>5. Typed(a)
  BY <1>4 DEF Stepped
<1> HIDE DEF d, a, w
<1>6. FocusKept(a, b)
  BY <1>1, <1>5, ActiveKept
<1> HIDE DEF b
<1>7. OpKept(b, e) /\ SameGrab(b, e)
  <2>1. Typed(b)
    BY <1>6 DEF FocusKept, Kept
  <2>2. CASE e = d
    BY <1>3, <2>1, <2>2, OpSame DEF SameGrab
  <2>3. CASE e \in CursorFocus(d, TRUE)
    BY <1>3, <2>1, <2>3, CursorFocusKept DEF SameGrab
  <2> QED BY <1>2, <2>2, <2>3
<1>8. Stepped(a, b) /\ Stepped(b, e) /\ Typed(e)
  BY <1>5, <1>6, <1>7, FocusStepped, OpStepped DEF FocusKept, OpKept, Kept
<1>9. Stepped(e, Tick(e))
  BY <1>8, TickKept, MovedStepped
<1> QED BY <1>2, <1>4, <1>8, <1>9, SteppedTwice

-----------------------------------------------------------------------------
(* Panels, outputs and transactions.                                         *)

LEMMA ArrangeAllKept ==
  ASSUME NEW d, Typed(d), NEW os
  PROVE  Kept(d, ArrangeAll(d, os), Moved)
<1> DEFINE ws == UNION {ToSet(d.spaces[o]) : o \in os}
           broken == {w \in ws : Configure(d, w).crashed # d.crashed}
           due == d.due \/ \E w \in ws : d.master[w] # None
           e == [d EXCEPT !.due = due]
<1>1. CASE broken # {}
  <2>1. ArrangeAll(d, os) = Configure(d, CHOOSE w \in broken : TRUE)
    BY <1>1 DEF ArrangeAll
  <2> QED BY <2>1, ConfigureKept, KeptWider DEF Moved, Listed
<1>2. CASE broken = {}
  <2>1. ArrangeAll(d, os) = e
    BY <1>2 DEF ArrangeAll
  <2>2. due \in BOOLEAN
    BY DEF Typed, WindowTypes
  <2> HIDE DEF due
  <2>3. But(d, e, Moved) /\ Later(d, e)
    BY DEF But, Later, Typed, Fields, Moved, Listed
  <2>4. WindowTypes(e) /\ ListTypes(e)
    BY <2>2 DEF Typed, WindowTypes, ListTypes, Fields
  <2> QED BY <2>1, <2>3, <2>4, MovedTyped DEF Kept
<1> QED BY <1>1, <1>2

LEMMA ArrangeKept ==
  ASSUME NEW d, Typed(d), NEW o
  PROVE  Kept(d, Arrange(d, o), Moved)
BY ArrangeAllKept, Fails, KeptWider DEF Arrange, Moved, Listed

LEMMA RearrangeStep ==
  ASSUME Typed(desk), Rearrange
  PROVE  Stepped(desk, desk')
BY ArrangeAllKept, MovedStepped, FailStepped DEF Rearrange

(* Panels alone change.                                                      *)
LEMMA PanelTyped ==
  ASSUME NEW d, Typed(d), NEW e,
         But(d, e, {"panel", "on", "want", "panels", "exclusive", "pointer"}),
         FocusTypes(e), e.pointer \in Toplevel \cup Layer \cup {None}
  PROVE  /\ Typed(e) /\ Later(d, e) /\ e.kinds = d.kinds
         /\ KeyHeld(d) => KeyHeld(e)
<1>1. /\ e.output = d.output /\ e.spaces = d.spaces /\ e.dummy = d.dummy /\ e.act = d.act
      /\ e.presented = d.presented /\ e.outputs = d.outputs /\ e.plugged = d.plugged
      /\ e.active = d.active
  BY DEF But, Fields, Typed
<1>2. /\ e.operation = d.operation /\ e.grabbed = d.grabbed /\ e.server_inited = d.server_inited
      /\ e.icon = d.icon /\ e.key = d.key /\ e.held = d.held /\ e.cursor = d.cursor
      /\ e.kinds = d.kinds /\ e.crashed = d.crashed
  BY DEF But, Fields, Typed
<1>3. WindowTypes(e) /\ ListTypes(e)
  BY WindowsSame DEF Moved, Listed
<1>4. SpaceTypes(e)
  BY <1>1 DEF Typed, SpaceTypes
<1>5. GrabTypes(e)
  BY <1>2 DEF Typed, GrabTypes
<1> QED BY <1>2, <1>3, <1>4, <1>5 DEF Typed, But, Later, KeyHeld

LEMMA LayerCreateStep ==
  ASSUME Typed(desk), NEW l \in Layer, NEW o \in Output, LayerCreate(l, o)
  PROVE  Stepped(desk, desk')
<1> DEFINE e == [desk EXCEPT !.panel[l] = "created", !.on[l] = o]
<1>1. desk' = e /\ "layer" \in desk.kinds /\ desk.panel[l] = "absent"
  BY DEF LayerCreate, Happens
<1>2. But(desk, e, {"panel", "on", "want", "panels", "exclusive", "pointer"})
  BY DEF But, Fields, Typed
<1>3. /\ e.panel = [desk.panel EXCEPT ![l] = "created"] /\ e.on = [desk.on EXCEPT ![l] = o]
      /\ e.want = desk.want /\ e.panels = desk.panels /\ e.exclusive = desk.exclusive
      /\ e.focused = desk.focused /\ e.layer = desk.layer /\ e.pointer = desk.pointer
  BY DEF Typed, Fields
<1> HIDE DEF e
<1>4. FocusTypes(e) /\ e.pointer \in Toplevel \cup Layer \cup {None}
  BY <1>1, <1>3 DEF Typed, FocusTypes, GrabTypes
<1>5. Typed(e) /\ Later(desk, e) /\ e.kinds = desk.kinds /\ (KeyHeld(desk) => KeyHeld(e))
  BY <1>2, <1>4, PanelTyped
<1>6. Exclusive(desk) => Exclusive(e)
  BY <1>1, <1>3 DEF Exclusive, Typed, FocusTypes
<1>7. Stepped(desk, e)
  BY <1>1, <1>5, <1>6 DEF Stepped, PanelsStay
<1> QED BY <1>1, <1>7

LEMMA StackedTyped ==
  ASSUME NEW s \in Seq(Layer), NEW l \in Layer, IsInjective(s), l \notin ToSet(s), NEW r \in Stacked(s, l)
  PROVE  r \in Seq(Layer) /\ IsInjective(r) /\ ToSet(r) \subseteq ToSet(s) \cup {l}
BY Inserted DEF Stacked

(* The high panels of one output change.                                     *)
Restacked(d, e, o, l, s) ==
  /\ d.on[l] = o /\ s \in Seq(Layer) /\ IsInjective(s) /\ ToSet(s) \subseteq ToSet(d.panels[o]) \cup {l}
  /\ e.panels = [d.panels EXCEPT ![o] = s] /\ e.on = d.on
  /\ e.want \in [Layer -> {"none", "on_demand", "exclusive"}]
  /\ \/ e.panel = [d.panel EXCEPT ![l] = "mapped"]
     \/ e.panel = [d.panel EXCEPT ![l] = "created"] /\ l \notin ToSet(s)
  /\ e.focused = d.focused /\ e.layer = d.layer /\ e.exclusive \in BOOLEAN

LEMMA PanelsTyped ==
  ASSUME NEW d, Typed(d), NEW o \in Output, NEW l \in Layer, NEW s, NEW e, Restacked(d, e, o, l, s)
  PROVE  FocusTypes(e)
<1> USE DEF Restacked
<1>1. /\ d.panels \in [Output -> Seq(Layer)] /\ d.on \in [Layer -> Output \cup {None}]
      /\ d.panel \in [Layer -> {"absent", "created", "mapped"}]
      /\ d.focused \in Toplevel \cup {None} /\ d.layer \in Layer \cup {None}
  BY DEF Typed, FocusTypes
<1>2. \A p \in Output : /\ IsInjective(d.panels[p]) /\ ToSet(d.panels[p]) \subseteq Layer
                        /\ \A k \in ToSet(d.panels[p]) : d.panel[k] = "mapped" /\ d.on[k] = p
  BY <1>1, Elements DEF Typed, FocusTypes
<1>3. e.panels \in [Output -> Seq(Layer)] /\ e.panel \in [Layer -> {"absent", "created", "mapped"}]
  <2>1. e.panels \in [Output -> Seq(Layer)]
    BY <1>1
  <2>2. [d.panel EXCEPT ![l] = "mapped"] \in [Layer -> {"absent", "created", "mapped"}]
        /\ [d.panel EXCEPT ![l] = "created"] \in [Layer -> {"absent", "created", "mapped"}]
    BY <1>1
  <2> QED BY <2>1, <2>2
<1>4. ASSUME NEW p \in Output, NEW k \in ToSet(e.panels[p])
      PROVE  e.panel[k] = "mapped" /\ e.on[k] = p
  <2>1. k \in Layer
    BY <1>3, <1>4, Elements
  <2>2. CASE p = o
    <3>1. k \in ToSet(s)
      BY <1>1, <1>4, <2>2
    <3>2. k = l \/ (d.panel[k] = "mapped" /\ d.on[k] = o)
      BY <1>2, <3>1
    <3> QED BY <1>1, <2>1, <2>2, <3>1, <3>2
  <2>3. CASE p # o
    <3>1. k \in ToSet(d.panels[p])
      BY <1>1, <1>4, <2>3
    <3>2. d.panel[k] = "mapped" /\ d.on[k] = p
      BY <1>2, <3>1
    <3> QED BY <1>1, <2>1, <2>3, <3>2
  <2> QED BY <2>2, <2>3
<1>5. \A p \in Output : IsInjective(e.panels[p])
  BY <1>1, <1>2
<1> QED BY <1>1, <1>3, <1>4, <1>5 DEF FocusTypes

(* The panel is mapped, and among the others.                                *)
PanelMapped(l, want, s) ==
  [desk EXCEPT !.panel[l] = "mapped", !.want[l] = want, !.panels[desk.on[l]] = s]

LEMMA LayerListed ==
  ASSUME Typed(desk), NEW l \in Layer, NEW want \in {"none", "on_demand", "exclusive"},
         desk.on[l] \in desk.plugged, desk.panel[l] = "created", "layer" \in desk.kinds,
         NEW s \in Stacked(desk.panels[desk.on[l]], l)
  PROVE  /\ Stepped(desk, PanelMapped(l, want, s)) /\ Typed(PanelMapped(l, want, s))
         /\ PanelMapped(l, want, s).panel[l] = "mapped"
<1> DEFINE o == desk.on[l]
           e == PanelMapped(l, want, s)
<1>2. o \in Output
  BY ActiveTyped
<1>3. /\ desk.panels[o] \in Seq(Layer) /\ IsInjective(desk.panels[o]) /\ l \notin ToSet(desk.panels[o])
  BY <1>2 DEF Typed, FocusTypes
<1>4. s \in Seq(Layer) /\ IsInjective(s) /\ ToSet(s) \subseteq ToSet(desk.panels[o]) \cup {l}
  BY <1>3, StackedTyped
<1>5. But(desk, e, {"panel", "on", "want", "panels", "exclusive", "pointer"})
  BY DEF PanelMapped, But, Fields, Typed
<1>6. /\ e.panel = [desk.panel EXCEPT ![l] = "mapped"] /\ e.on = desk.on
      /\ e.want = [desk.want EXCEPT ![l] = want] /\ e.panels = [desk.panels EXCEPT ![o] = s]
      /\ e.exclusive = desk.exclusive
      /\ e.focused = desk.focused /\ e.layer = desk.layer /\ e.pointer = desk.pointer
  BY DEF PanelMapped, Typed, Fields
<1> HIDE DEF e
<1>8. /\ desk.panel \in [Layer -> {"absent", "created", "mapped"}]
      /\ desk.want \in [Layer -> {"none", "on_demand", "exclusive"}]
      /\ desk.exclusive \in BOOLEAN /\ desk.layer \in Layer \cup {None}
      /\ desk.pointer \in Toplevel \cup Layer \cup {None}
  BY DEF Typed, FocusTypes, GrabTypes
<1>9. e.want \in [Layer -> {"none", "on_demand", "exclusive"}] /\ e.panel[l] = "mapped"
  BY <1>6, <1>8
<1>10. FocusTypes(e)
  <2>1. Restacked(desk, e, o, l, s)
    BY <1>4, <1>6, <1>8, <1>9 DEF Restacked
  <2> QED BY <1>2, <2>1, PanelsTyped
<1>11. Typed(e) /\ Later(desk, e) /\ e.kinds = desk.kinds /\ (KeyHeld(desk) => KeyHeld(e))
  BY <1>5, <1>6, <1>8, <1>10, PanelTyped
<1>12. Exclusive(desk) => Exclusive(e)
  BY <1>6, <1>8 DEF Exclusive
<1>13. Stepped(desk, e)
  BY <1>11, <1>12 DEF Stepped, PanelsStay
<1> QED BY <1>9, <1>11, <1>13 DEF e

LEMMA LayerMapStep ==
  ASSUME Typed(desk), NEW l \in Layer, NEW want \in {"none", "on_demand", "exclusive"}, LayerMap(l, want)
  PROVE  Stepped(desk, desk')
<1> DEFINE o == desk.on[l]
<1>1. CASE o \notin desk.plugged
  BY <1>1, FailStepped DEF LayerMap
<1>2. CASE o \in desk.plugged
  <2>1. PICK s \in Stacked(desk.panels[o], l) :
          desk' = LayerFocus(Arrange([desk EXCEPT !.panel[l] = "mapped", !.want[l] = want, !.panels[o] = s], o), l)
    BY <1>2 DEF LayerMap
  <2> DEFINE e == PanelMapped(l, want, s)
             f == Arrange(e, o)
  <2>2. desk.panel[l] = "created" /\ "layer" \in desk.kinds /\ desk' = LayerFocus(f, l)
    BY <2>1 DEF LayerMap, Happens, PanelMapped
  <2>3. Stepped(desk, e) /\ Typed(e) /\ e.panel[l] = "mapped"
    BY <1>2, <2>2, LayerListed
  <2> HIDE DEF e
  <2>4. Kept(e, f, Moved)
    BY <2>3, ArrangeKept
  <2> HIDE DEF f
  <2>5. Typed(f) /\ f.panel = e.panel /\ Stepped(e, f)
    BY <2>3, <2>4, MovedStepped DEF Kept, But, Moved, Listed, Fields, Typed
  <2>6. FocusKept(f, LayerFocus(f, l))
    BY <2>3, <2>5, LayerFocusKept
  <2> QED BY <2>2, <2>3, <2>5, <2>6, FocusStepped, SteppedTwice
<1> QED BY <1>1, <1>2

(* It takes another place among the others.                                  *)
PanelChanged(l, want, s) == [desk EXCEPT !.want[l] = want, !.panels[desk.on[l]] = s]

LEMMA LayerRelisted ==
  ASSUME Typed(desk), NEW l \in Layer, NEW want \in {"none", "on_demand", "exclusive"},
         desk.panel[l] = "mapped", NEW s \in Stacked(RemoveFirst(desk.panels[desk.on[l]], l), l)
  PROVE  Stepped(desk, PanelChanged(l, want, s)) /\ Typed(PanelChanged(l, want, s))
<1> DEFINE o == desk.on[l]
           rest == RemoveFirst(desk.panels[o], l)
           e == PanelChanged(l, want, s)
<1>3. /\ desk.panel \in [Layer -> {"absent", "created", "mapped"}]
      /\ desk.want \in [Layer -> {"none", "on_demand", "exclusive"}]
      /\ desk.exclusive \in BOOLEAN /\ desk.layer \in Layer \cup {None}
      /\ desk.on \in [Layer -> Output \cup {None}]
      /\ desk.panels \in [Output -> Seq(Layer)]
      /\ desk.pointer \in Toplevel \cup Layer \cup {None}
  BY DEF Typed, FocusTypes, GrabTypes
<1>4. But(desk, e, {"panel", "on", "want", "panels", "exclusive", "pointer"})
  BY DEF PanelChanged, But, Fields, Typed
<1>5. /\ e.panel = desk.panel /\ e.on = desk.on
      /\ e.want = [desk.want EXCEPT ![l] = want] /\ e.panels = [desk.panels EXCEPT ![o] = s]
      /\ e.exclusive = desk.exclusive
      /\ e.focused = desk.focused /\ e.layer = desk.layer /\ e.pointer = desk.pointer
  BY DEF PanelChanged, Typed, Fields
<1> HIDE DEF e
<1>7. e.want \in [Layer -> {"none", "on_demand", "exclusive"}] /\ DOMAIN e = Fields
      /\ e.panel = [desk.panel EXCEPT ![l] = "mapped"]
  BY <1>3, <1>4, <1>5 DEF But
<1>8. FocusTypes(e)
  <2>1. CASE o \in Output
    <3>1. desk.panels[o] \in Seq(Layer) /\ IsInjective(desk.panels[o])
      BY <2>1 DEF Typed, FocusTypes
    <3>2. /\ rest \in Seq(Layer) /\ IsInjective(rest) /\ l \notin ToSet(rest)
          /\ ToSet(rest) \subseteq ToSet(desk.panels[o])
      BY <3>1, Removed
    <3>0. s \in Stacked(rest, l)
      OBVIOUS
    <3> HIDE DEF rest
    <3>3. s \in Seq(Layer) /\ IsInjective(s) /\ ToSet(s) \subseteq ToSet(desk.panels[o]) \cup {l}
      BY <3>0, <3>2, StackedTyped
    <3>4. Restacked(desk, e, o, l, s)
      BY <1>3, <1>5, <1>7, <3>3 DEF Restacked
    <3> QED BY <2>1, <3>4, PanelsTyped
  <2>2. CASE o \notin Output
    <3>1. e.panels \in [Output -> Seq(Layer)] /\ \A p \in Output : e.panels[p] = desk.panels[p]
      <4> HIDE DEF o
      <4> QED BY <1>3, <1>5, <2>2
    <3> QED BY <1>5, <1>7, <3>1 DEF Typed, FocusTypes
  <2> QED BY <2>1, <2>2
<1>9. Typed(e) /\ Later(desk, e) /\ e.kinds = desk.kinds /\ (KeyHeld(desk) => KeyHeld(e))
  BY <1>3, <1>4, <1>5, <1>8, PanelTyped
<1>10. Exclusive(desk) => Exclusive(e)
  BY <1>5 DEF Exclusive
<1>11. Stepped(desk, e)
  BY <1>5, <1>9, <1>10 DEF Stepped, PanelsStay
<1> QED BY <1>9, <1>11 DEF e

LEMMA LayerCommitStep ==
  ASSUME Typed(desk), NEW l \in Layer, NEW want \in {"none", "on_demand", "exclusive"}, LayerCommit(l, want)
  PROVE  Stepped(desk, desk')
<1> DEFINE o == desk.on[l]
<1>1. PICK s \in Stacked(RemoveFirst(desk.panels[o], l), l) :
        desk' = Arrange([desk EXCEPT !.want[l] = want, !.panels[o] = s], o)
  BY DEF LayerCommit
<1> DEFINE e == PanelChanged(l, want, s)
<1>2. desk.panel[l] = "mapped"
  BY DEF LayerCommit
<1>3. Stepped(desk, e) /\ Typed(e)
  BY <1>2, LayerRelisted
<1>4. desk' = Arrange(e, o)
  BY <1>1 DEF PanelChanged
<1> HIDE DEF e
<1> QED BY <1>3, <1>4, ArrangeKept, MovedStepped, SteppedTwice

(* It is taken from the others, and gives up the keyboard.                   *)
PanelGone(l) ==
  LET d == [desk EXCEPT !.panel[l] = "created", !.panels[desk.on[l]] = RemoveFirst(@, l)] IN
  IF l = d.layer THEN [d EXCEPT !.exclusive = FALSE] ELSE d

LEMMA LayerUnlisted ==
  ASSUME Typed(desk), NEW l \in Layer, "layer" \in desk.kinds
  PROVE  Stepped(desk, PanelGone(l)) /\ Typed(PanelGone(l))
<1> DEFINE o == desk.on[l]
           rest == RemoveFirst(desk.panels[o], l)
           e == PanelGone(l)
<1>3. But(desk, e, {"panel", "on", "want", "panels", "exclusive", "pointer"})
  BY DEF PanelGone, But, Fields, Typed
<1>4. /\ e.panel = [desk.panel EXCEPT ![l] = "created"] /\ e.on = desk.on
      /\ e.want = desk.want /\ e.panels = [desk.panels EXCEPT ![o] = rest]
      /\ e.exclusive = IF l = desk.layer THEN FALSE ELSE desk.exclusive
      /\ e.focused = desk.focused /\ e.layer = desk.layer /\ e.pointer = desk.pointer
  BY DEF PanelGone, Typed, Fields
<1> HIDE DEF e, rest
<1>5. /\ desk.panel \in [Layer -> {"absent", "created", "mapped"}]
      /\ desk.want \in [Layer -> {"none", "on_demand", "exclusive"}]
      /\ desk.exclusive \in BOOLEAN /\ desk.layer \in Layer \cup {None}
      /\ desk.on \in [Layer -> Output \cup {None}]
      /\ desk.panels \in [Output -> Seq(Layer)]
      /\ desk.pointer \in Toplevel \cup Layer \cup {None}
      /\ desk.focused \in Toplevel \cup {None}
      /\ \A p \in Output : /\ IsInjective(desk.panels[p])
                           /\ \A k \in ToSet(desk.panels[p]) : desk.panel[k] = "mapped" /\ desk.on[k] = p
  BY DEF Typed, FocusTypes, GrabTypes
<1>51. e.panel \in [Layer -> {"absent", "created", "mapped"}]
  <2>1. desk.panel \in [Layer -> {"absent", "created", "mapped"}]
    BY <1>5
  <2>2. e.panel = [desk.panel EXCEPT ![l] = "created"]
    BY <1>4
  <2> QED BY ONLY <2>1, <2>2
<1>52. e.exclusive \in BOOLEAN /\ (e.exclusive => desk.exclusive /\ l # desk.layer)
  <2>1. desk.exclusive \in BOOLEAN
    BY <1>5
  <2>2. CASE l = desk.layer
    <3>1. e.exclusive = FALSE
      BY <1>4, <2>2
    <3> QED BY ONLY <3>1
  <2>3. CASE l # desk.layer
    <3>1. e.exclusive = desk.exclusive
      BY <1>4, <2>3
    <3> QED BY ONLY <2>1, <2>3, <3>1
  <2> QED BY <2>2, <2>3
<1>53. desk.panels \in [Output -> Seq(Layer)] /\ e.panels = [desk.panels EXCEPT ![o] = rest]
  BY <1>4, <1>5
<1>54. o \notin Output => e.panels = desk.panels
  <2> HIDE DEF o
  <2> QED BY ONLY <1>53
<1>6. FocusTypes(e)
  <2>1. CASE o \in Output
    <3>1. desk.panels[o] \in Seq(Layer) /\ IsInjective(desk.panels[o])
      BY <1>5, <2>1
    <3>2. /\ rest \in Seq(Layer) /\ IsInjective(rest) /\ l \notin ToSet(rest)
          /\ ToSet(rest) \subseteq ToSet(desk.panels[o])
      BY <3>1, Removed DEF rest
    <3>4. Restacked(desk, e, o, l, rest)
      BY <1>4, <1>5, <1>52, <3>2 DEF Restacked
    <3> QED BY <2>1, <3>4, PanelsTyped
  <2>2. CASE o \notin Output
    <3>1. e.panels = desk.panels
      BY <1>54, <2>2
    <3>2. \A p \in Output : ToSet(desk.panels[p]) \subseteq Layer
      BY <1>5, Elements
    <3>3. \A p \in Output : \A k \in ToSet(desk.panels[p]) : k # l
      BY <1>5, <2>2
    <3>4. \A p \in Output : IsInjective(e.panels[p]) /\ \A k \in ToSet(e.panels[p]) : e.panel[k] = "mapped" /\ e.on[k] = p
      BY <1>4, <1>5, <3>1, <3>2, <3>3
    <3>5. e.panels \in [Output -> Seq(Layer)]
      BY <1>53, <3>1
    <3>6. /\ e.focused \in Toplevel \cup {None} /\ e.layer \in Layer \cup {None}
          /\ e.on \in [Layer -> Output \cup {None}]
          /\ e.want \in [Layer -> {"none", "on_demand", "exclusive"}]
      BY <1>4, <1>5
    <3> QED BY ONLY <1>51, <1>52, <3>4, <3>5, <3>6 DEF FocusTypes
  <2> QED BY <2>1, <2>2
<1>7. Typed(e) /\ Later(desk, e) /\ e.kinds = desk.kinds /\ (KeyHeld(desk) => KeyHeld(e))
  BY <1>3, <1>4, <1>5, <1>6, PanelTyped
<1>8. Exclusive(desk) => Exclusive(e)
  <2>1. HAVE Exclusive(desk)
  <2>2. SUFFICES ASSUME e.exclusive
                 PROVE  e.focused = None /\ e.layer # None /\ e.panel[e.layer] = "mapped"
    BY DEF Exclusive
  <2>3. desk.exclusive /\ l # desk.layer
    BY <1>52, <2>2
  <2>4. desk.focused = None /\ desk.layer # None /\ desk.panel[desk.layer] = "mapped"
    BY <2>1, <2>3 DEF Exclusive
  <2>5. e.panel[desk.layer] = desk.panel[desk.layer]
    BY ONLY <1>4, <1>5, <2>3, <2>4
  <2> QED BY <1>4, <2>4, <2>5
<1>9. Stepped(desk, e)
  BY <1>7, <1>8 DEF Stepped, PanelsStay
<1> QED BY <1>7, <1>9 DEF e

LEMMA LayerUnmapStep ==
  ASSUME Typed(desk), NEW l \in Layer, LayerUnmap(l)
  PROVE  Stepped(desk, desk')
<1> DEFINE o == desk.on[l]
           d == [desk EXCEPT !.panel[l] = "created", !.panels[o] = RemoveFirst(@, l)]
           e == PanelGone(l)
           f == LayerGone(d, l)
<1>1. desk' = Arrange(f, o) /\ "layer" \in desk.kinds
  BY DEF LayerUnmap, Happens
<1>2. f \in {e, OutputFocus(e, d.on[l])}
  BY DEF LayerGone, PanelGone
<1>3. Stepped(desk, e) /\ Typed(e)
  BY <1>1, LayerUnlisted
<1> HIDE DEF e, f, d
<1>4. Stepped(e, f)
  BY <1>2, <1>3, OutputFocusKept, FocusStepped, SameStepped
<1>5. Stepped(f, Arrange(f, o))
  BY <1>4, ArrangeKept, MovedStepped DEF Stepped
<1> QED BY <1>1, <1>3, <1>4, <1>5, SteppedTwice

LEMMA LayerDestroyStep ==
  ASSUME Typed(desk), NEW l \in Layer, LayerDestroy(l)
  PROVE  Stepped(desk, desk')
<1> DEFINE e == [desk EXCEPT !.panel[l] = "absent", !.on[l] = None,
                             !.pointer = IF @ = l THEN None ELSE @]
<1>1. desk' = e /\ "layer" \in desk.kinds /\ desk.panel[l] = "created"
  BY DEF LayerDestroy, Happens
<1>2. But(desk, e, {"panel", "on", "want", "panels", "exclusive", "pointer"})
  BY DEF But, Fields, Typed
<1>3. /\ e.panel = [desk.panel EXCEPT ![l] = "absent"] /\ e.on = [desk.on EXCEPT ![l] = None]
      /\ e.want = desk.want /\ e.panels = desk.panels /\ e.exclusive = desk.exclusive
      /\ e.focused = desk.focused /\ e.layer = desk.layer /\ e.pointer \in {None, desk.pointer}
  BY DEF Typed, Fields
<1> HIDE DEF e
<1>4. FocusTypes(e) /\ e.pointer \in Toplevel \cup Layer \cup {None}
  <2>1. \A p \in Output : ToSet(desk.panels[p]) \subseteq Layer
    BY Elements DEF Typed, FocusTypes
  <2> QED BY <1>1, <1>3, <2>1 DEF Typed, FocusTypes, GrabTypes
<1>5. Typed(e) /\ Later(desk, e) /\ e.kinds = desk.kinds /\ (KeyHeld(desk) => KeyHeld(e))
  BY <1>2, <1>4, PanelTyped
<1>6. Exclusive(desk) => Exclusive(e)
  BY <1>1, <1>3 DEF Exclusive, Typed, FocusTypes
<1>7. Stepped(desk, e)
  BY <1>1, <1>5, <1>6 DEF Stepped, PanelsStay
<1> QED BY <1>1, <1>7

LEMMA PlugStep ==
  ASSUME Typed(desk), NEW o \in Output, NEW w \in Workspace, Plug(o, w)
  PROVE  Stepped(desk, desk')
<1> DEFINE a == [desk EXCEPT !.outputs = <<o>> \o @, !.plugged = @ \cup {o}]
           b == WorkspaceCreate(a, o, w)
           e == [b EXCEPT !.dummy[o] = w]
<1>1. o \notin ToSet(desk.outputs) /\ w # None /\ ~Exists(desk, w) /\ desk' = WithDummy(a, o, w)
  BY NoneIsNoName DEF Plug
<1>2. /\ desk.output \in [Workspace -> Output \cup {None}]
      /\ desk.spaces \in [Output -> Seq(Workspace)]
      /\ desk.dummy \in [Output -> Workspace \cup {None}]
      /\ desk.act \in [Output -> Workspace \cup {None}]
      /\ desk.outputs \in Seq(Output)
      /\ desk.plugged \subseteq ToSet(desk.outputs)
      /\ desk.active \in Workspace
      /\ \A p \in desk.plugged : desk.act[p] # None
      /\ \A v \in Workspace : desk.output[v] # None => desk.output[v] \in ToSet(desk.outputs)
      /\ \A p \in Output : p \notin ToSet(desk.outputs) => desk.dummy[p] = None
  BY DEF Typed, SpaceTypes
<1>3. a.dummy[o] = None /\ ~Exists(a, w)
  BY <1>1, <1>2 DEF Typed, Fields, Exists
<1>4. desk' = e
  BY <1>1, <1>3 DEF WithDummy
<1>5. b = [a EXCEPT !.spaces[o] = <<w>> \o @,
                    !.output[w] = o,
                    !.act[o] = IF @ = None THEN w ELSE @,
                    !.active = IF @ = None THEN w ELSE @]
  BY <1>3 DEF WorkspaceCreate
<1>6. /\ DOMAIN e = Fields
      /\ But(desk, e, {"outputs", "plugged", "spaces", "output", "act", "active", "dummy"})
  BY <1>5 DEF But, Typed, Fields
<1>7. /\ e.outputs = <<o>> \o desk.outputs /\ e.plugged = desk.plugged \cup {o}
      /\ e.spaces = [desk.spaces EXCEPT ![o] = <<w>> \o desk.spaces[o]]
      /\ e.output = [desk.output EXCEPT ![w] = o]
      /\ e.act = [desk.act EXCEPT ![o] = IF desk.act[o] = None THEN w ELSE desk.act[o]]
      /\ e.active \in {w, desk.active} /\ e.dummy = [desk.dummy EXCEPT ![o] = w]
      /\ e.presented = desk.presented
  <2>1. /\ a.outputs = <<o>> \o desk.outputs /\ a.plugged = desk.plugged \cup {o}
        /\ a.spaces = desk.spaces /\ a.output = desk.output /\ a.act = desk.act
        /\ a.active = desk.active /\ a.dummy = desk.dummy /\ a.presented = desk.presented
        /\ DOMAIN a = Fields
    BY DEF Typed, Fields
  <2> HIDE DEF a, b
  <2>2. /\ b.outputs = a.outputs /\ b.plugged = a.plugged /\ DOMAIN b = Fields
        /\ b.spaces = [a.spaces EXCEPT ![o] = <<w>> \o a.spaces[o]]
        /\ b.output = [a.output EXCEPT ![w] = o]
        /\ b.act = [a.act EXCEPT ![o] = IF a.act[o] = None THEN w ELSE a.act[o]]
        /\ b.active \in {w, a.active} /\ b.dummy = a.dummy /\ b.presented = a.presented
    BY <1>5, <2>1 DEF Fields
  <2>3. /\ e.outputs = b.outputs /\ e.plugged = b.plugged /\ e.spaces = b.spaces
        /\ e.output = b.output /\ e.act = b.act /\ e.active = b.active
        /\ e.dummy = [b.dummy EXCEPT ![o] = w] /\ e.presented = b.presented
    BY <2>2 DEF Fields
  <2> QED BY <2>1, <2>2, <2>3
<1> HIDE DEF e, b, a
<1>8. /\ <<o>> \o desk.outputs \in Seq(Output)
      /\ ToSet(<<o>> \o desk.outputs) = {o} \cup ToSet(desk.outputs)
      /\ <<w>> \o desk.spaces[o] \in Seq(Workspace)
  <2>1. <<o>> \in Seq(Output) /\ ToSet(<<o>>) = {o} /\ <<w>> \in Seq(Workspace)
    BY Single
  <2>2. <<o>> \o desk.outputs \in Seq(Output) /\ ToSet(<<o>> \o desk.outputs) = ToSet(<<o>>) \cup ToSet(desk.outputs)
    <3>1. <<o>> \in Seq(Output) /\ desk.outputs \in Seq(Output)
      BY <1>2, <2>1
    <3> QED BY <3>1, Joined
  <2>3. <<w>> \in Seq(Workspace) /\ desk.spaces[o] \in Seq(Workspace)
    BY <1>2, <2>1
  <2>4. <<w>> \o desk.spaces[o] \in Seq(Workspace)
    BY <2>3, Joined
  <2> QED BY <2>1, <2>2, <2>4
<1>9. SpaceTypes(e)
  <2>1. /\ e.outputs \in Seq(Output) /\ e.plugged \subseteq ToSet(e.outputs)
        /\ e.active \in Workspace
        /\ e.output \in [Workspace -> Output \cup {None}]
        /\ e.act \in [Output -> Workspace \cup {None}]
        /\ e.dummy \in [Output -> Workspace \cup {None}]
    BY <1>2, <1>7, <1>8
  <2>2. e.spaces \in [Output -> Seq(Workspace)]
    BY <1>2, <1>7, <1>8
  <2>3. \A p \in e.plugged : e.act[p] # None
    <3>1. desk.plugged \subseteq Output
      BY <1>2, Elements
    <3> QED BY <1>1, <1>2, <1>7, <3>1
  <2>4. \A v \in Workspace : e.output[v] # None => e.output[v] \in ToSet(e.outputs)
    BY <1>2, <1>7, <1>8
  <2>5. \A p \in Output : p \notin ToSet(e.outputs) => e.dummy[p] = None
    BY <1>2, <1>7, <1>8
  <2> QED BY <1>7, <2>1, <2>2, <2>3, <2>4, <2>5 DEF Typed, SpaceTypes
<1>10. WindowTypes(e) /\ ListTypes(e)
  BY <1>6, WindowsSame DEF Moved, Listed
<1>11. /\ e.focused = desk.focused /\ e.layer = desk.layer /\ e.exclusive = desk.exclusive
       /\ e.panel = desk.panel /\ e.on = desk.on /\ e.want = desk.want /\ e.panels = desk.panels
  BY <1>6 DEF But, Fields, Typed
<1>12. /\ e.operation = desk.operation /\ e.grabbed = desk.grabbed
       /\ e.server_inited = desk.server_inited
       /\ e.icon = desk.icon /\ e.key = desk.key /\ e.held = desk.held /\ e.cursor = desk.cursor
       /\ e.pointer = desk.pointer /\ e.kinds = desk.kinds /\ e.crashed = desk.crashed
  BY <1>6 DEF But, Fields, Typed
<1>13. FocusTypes(e) /\ GrabTypes(e)
  BY <1>11, <1>12 DEF Typed, FocusTypes, GrabTypes
<1>14. Stepped(desk, e)
  BY <1>6, <1>9, <1>10, <1>11, <1>12, <1>13
     DEF Stepped, Typed, Later, KeyHeld, PanelsStay, Exclusive
<1> QED BY <1>4, <1>14

LEMMA UnplugStep ==
  ASSUME Typed(desk), NEW o \in Output, NEW to \in Output \cup {None}, Unplug(o, to)
  PROVE  Stepped(desk, desk')
<1> DEFINE d == UnplugAll(desk, desk.spaces[o])
           gone == {l \in Layer : d.on[l] = o /\ d.panel[l] = "mapped"}
           e == [d EXCEPT !.plugged = @ \ {o},
                          !.panel = [l \in Layer |-> IF l \in gone THEN "absent" ELSE @[l]],
                          !.panels[o] = <<>>,
                          !.cursor = to,
                          !.pointer = IF @ \in gone THEN None ELSE @]
<1>1. desk' = e /\ "hotplug" \in desk.kinds
  BY DEF Unplug, Happens
<1>2. SpaceKept(desk, d)
  BY UnplugAllKept DEF Typed, SpaceTypes
<1> HIDE DEF d
<1>3. Stepped(desk, d) /\ Typed(d) /\ d.kinds = desk.kinds
  BY <1>2, SpaceStepped DEF Stepped
<1>4. But(d, e, {"plugged", "panel", "panels", "cursor", "pointer"})
  BY <1>3 DEF But, Fields, Typed
<1>5. /\ e.plugged = d.plugged \ {o}
      /\ e.panel = [l \in Layer |-> IF l \in gone THEN "absent" ELSE d.panel[l]]
      /\ e.panels = [d.panels EXCEPT ![o] = <<>>] /\ e.cursor = to
      /\ e.pointer \in {None, d.pointer}
  BY <1>3 DEF Fields, Typed
<1> HIDE DEF e
<1>6. /\ e.focused = d.focused /\ e.layer = d.layer /\ e.exclusive = d.exclusive
      /\ e.on = d.on /\ e.want = d.want
  BY <1>3, <1>4 DEF But, Fields, Typed
<1>7. FocusTypes(e)
  <2>1. /\ d.panel \in [Layer -> {"absent", "created", "mapped"}] /\ d.panels \in [Output -> Seq(Layer)]
        /\ \A p \in Output : /\ IsInjective(d.panels[p]) /\ ToSet(d.panels[p]) \subseteq Layer
                             /\ \A l \in ToSet(d.panels[p]) : d.panel[l] = "mapped" /\ d.on[l] = p
    BY <1>3, Elements DEF Typed, FocusTypes
  <2>2. e.panel \in [Layer -> {"absent", "created", "mapped"}] /\ e.panels \in [Output -> Seq(Layer)]
    BY <1>5, <2>1, Emptied
  <2>3. ASSUME NEW p \in Output
        PROVE  IsInjective(e.panels[p]) /\ \A l \in ToSet(e.panels[p]) : e.panel[l] = "mapped" /\ e.on[l] = p
    <3>1. CASE p = o
      <4>1. e.panels[p] = <<>>
        BY <1>5, <2>1, <3>1
      <4> QED BY <4>1, Emptied
    <3>2. CASE p # o
      <4>1. e.panels[p] = d.panels[p]
        BY <1>5, <2>1, <3>2
      <4> QED BY <1>5, <1>6, <2>1, <3>2, <4>1
    <3> QED BY <3>1, <3>2
  <2> QED BY <1>3, <1>6, <2>2, <2>3 DEF Typed, FocusTypes
<1>8. SpaceTypes(e)
  <2>1. /\ e.output = d.output /\ e.spaces = d.spaces /\ e.dummy = d.dummy /\ e.act = d.act
        /\ e.presented = d.presented /\ e.outputs = d.outputs /\ e.active = d.active
    BY <1>3, <1>4 DEF But, Fields, Typed
  <2> QED BY <1>3, <1>5, <2>1 DEF Typed, SpaceTypes
<1>9. WindowTypes(e) /\ ListTypes(e)
  BY <1>3, <1>4, WindowsSame DEF Moved, Listed
<1>10. /\ e.operation = d.operation /\ e.grabbed = d.grabbed /\ e.server_inited = d.server_inited
       /\ e.icon = d.icon /\ e.key = d.key /\ e.held = d.held /\ e.kinds = d.kinds
       /\ e.crashed = d.crashed
  BY <1>3, <1>4 DEF But, Fields, Typed
<1>11. GrabTypes(e)
  BY <1>3, <1>5, <1>10 DEF Typed, GrabTypes
<1>12. Typed(e)
  BY <1>4, <1>7, <1>8, <1>9, <1>11 DEF Typed, But
<1>13. PanelsStay(d) => PanelsStay(e)
  <2> SUFFICES ASSUME PanelsStay(d), ~({"layer", "hotplug"} \subseteq d.kinds)
               PROVE  Exclusive(e) /\ \A l \in Layer : e.panel[l] = "absent"
    BY <1>10 DEF PanelsStay
  <2>1. Exclusive(d) /\ \A l \in Layer : d.panel[l] = "absent"
    BY <1>1, <1>3 DEF PanelsStay
  <2>2. d.exclusive = FALSE
    BY <1>3, <2>1 DEF Exclusive, Typed, FocusTypes
  <2> QED BY <1>5, <1>6, <2>1, <2>2 DEF Exclusive
<1>14. Stepped(d, e)
  BY <1>10, <1>12, <1>13 DEF Stepped, Later, KeyHeld
<1> QED BY <1>1, <1>3, <1>14, SteppedTwice

LEMMA MembersTyped ==
  ASSUME NEW d, Typed(d), NEW w \in Workspace
  PROVE  Members(d, w) \subseteq Toplevel
<1>1. ToSet(d.floats[w]) \subseteq Toplevel /\ ToSet(d.slaves[w]) \subseteq Toplevel
  BY Elements DEF Typed, ListTypes
<1> QED BY <1>1 DEF Members, Typed, ListTypes

LEMMA PerformStep ==
  ASSUME Typed(desk), PerformTransaction
  PROVE  Stepped(desk, desk')
<1> DEFINE w == desk.active
           o == desk.output[w]
           old == desk.presented[o]
           hidden == IF old \in {None, w} THEN {} ELSE Members(desk, old)
           dead == {t \in desk.ghosts : desk.life[t] = "absent"}
           shown == (((desk.shown \cup desk.fresh) \ hidden) \cup Members(desk, w)) \ dead
           e == [desk EXCEPT !.presented[o] = w, !.shown = shown,
                             !.fresh = {}, !.ghosts = {}, !.due = FALSE]
<1>1. desk' \in {Fail(desk, "freed workspace"), Fail(desk, "freed toplevel"), e}
  BY DEF PerformTransaction, Perform
<1>2. w \in Workspace
  BY DEF Typed, SpaceTypes
<1>3. shown \subseteq Toplevel
  BY <1>2, MembersTyped DEF Typed, WindowTypes
<1> HIDE DEF shown
<1>4. But(desk, e, {"presented", "shown", "fresh", "ghosts", "due"}) /\ Later(desk, e)
  BY DEF But, Later, Fields, Typed
<1>5. /\ e.presented = [desk.presented EXCEPT ![o] = w] /\ e.shown = shown
      /\ e.fresh = {} /\ e.ghosts = {} /\ e.due = FALSE
  BY DEF Fields, Typed
<1> HIDE DEF e
<1>6. WindowTypes(e) /\ ListTypes(e)
  BY <1>3, <1>4, <1>5 DEF But, Fields, Typed, WindowTypes, ListTypes
<1>7. /\ e.output = desk.output /\ e.spaces = desk.spaces /\ e.dummy = desk.dummy
      /\ e.act = desk.act /\ e.outputs = desk.outputs /\ e.plugged = desk.plugged
      /\ e.active = desk.active
  BY <1>4 DEF But, Fields, Typed
<1>8. SpaceTypes(e)
  <2>1. e.presented \in [Output -> Workspace \cup {None}]
    <3> HIDE DEF o
    <3> QED BY <1>2, <1>5 DEF Typed, SpaceTypes
  <2> QED BY <1>7, <2>1 DEF Typed, SpaceTypes
<1>9. /\ e.focused = desk.focused /\ e.layer = desk.layer /\ e.exclusive = desk.exclusive
      /\ e.panel = desk.panel /\ e.on = desk.on /\ e.want = desk.want /\ e.panels = desk.panels
  BY <1>4 DEF But, Fields, Typed
<1>10. /\ e.operation = desk.operation /\ e.grabbed = desk.grabbed
       /\ e.server_inited = desk.server_inited
       /\ e.icon = desk.icon /\ e.key = desk.key /\ e.held = desk.held /\ e.cursor = desk.cursor
       /\ e.pointer = desk.pointer /\ e.kinds = desk.kinds
  BY <1>4 DEF But, Fields, Typed
<1>11. FocusTypes(e) /\ GrabTypes(e)
  BY <1>9, <1>10 DEF Typed, FocusTypes, GrabTypes
<1>12. Stepped(desk, e)
  BY <1>4, <1>6, <1>8, <1>9, <1>10, <1>11
     DEF Stepped, Typed, But, Later, KeyHeld, PanelsStay, Exclusive
<1> QED BY <1>1, <1>12, FailStepped

LEMMA NextStep == ASSUME Typed(desk), [Next]_vars PROVE Stepped(desk, desk')
<1>1. CASE UNCHANGED vars
  <2>1. desk' = desk
    BY <1>1 DEF vars
  <2> QED BY <2>1, SameStepped
<1>2. CASE Windowed
  <2>1. PICK t \in Toplevel :
          \/ Create(t) \/ Unmap(t) \/ Destroy(t) \/ RequestGrab(t)
          \/ \E st \in State : Map(t, st)
          \/ \E full \in BOOLEAN : RequestFullscreen(t, full)
    BY <1>2 DEF Windowed
  <2> QED BY <2>1, CreateStep, UnmapStep, DestroyStep, RequestGrabStep, MapStep, FullscreenStep
<1>3. CASE Commanded
  <2>1. CASE UserTogglesFloat \/ UserTogglesFullscreen
    BY <2>1, ToggleStep
  <2>2. CASE CommandGrab
    BY <2>2, CommandGrabStep
  <2>3. ASSUME NEW direction \in Direction, NEW o \in Output \cup {None},
               FocusInDirection(direction, o) \/ MoveInDirection(direction, o)
        PROVE  Stepped(desk, desk')
    BY <2>3, FocusDirectionStep, MoveDirectionStep
  <2>4. ASSUME NEW w \in Workspace,
               ChangeWorkspace(w) \/ MoveFocusedToWorkspace(w) \/ RemoteActivate(w)
        PROVE  Stepped(desk, desk')
    BY <2>4, WorkspaceStep
  <2>5. ASSUME NEW w \in Workspace,
               \/ \E o \in Output : CreateWorkspace(o, w) \/ RemoteCreate(o, w)
               \/ \E n \in Workspace : DestroyWorkspace(w, n) \/ RemoteRemove(w, n)
        PROVE  Stepped(desk, desk')
    BY <2>5, WorkspacesStep
  <2> QED BY <1>3, <2>1, <2>2, <2>3, <2>4, <2>5 DEF Commanded
<1>4. CASE Input
  <2>1. CASE Press \/ Release
    BY <2>1, ButtonStep
  <2>2. ASSUME NEW k \in Key, KeyPress(k) \/ KeyRelease(k) PROVE Stepped(desk, desk')
    BY <2>2, KeyPressStep, KeyReleaseStep
  <2>3. ASSUME NEW icon \in BOOLEAN, Drag(icon) PROVE Stepped(desk, desk')
    BY <2>3, DragStep
  <2>4. ASSUME NEW o \in Output, Motion(o) PROVE Stepped(desk, desk')
    BY <2>4, MotionStep
  <2> QED BY <1>4, <2>1, <2>2, <2>3, <2>4 DEF Input
<1>5. CASE Surroundings
  <2>1. CASE Rearrange
    BY <2>1, RearrangeStep
  <2>2. ASSUME NEW l \in Layer,
               \/ LayerUnmap(l) \/ LayerDestroy(l)
               \/ \E o \in Output : LayerCreate(l, o)
               \/ \E want \in {"none", "on_demand", "exclusive"} : LayerMap(l, want) \/ LayerCommit(l, want)
        PROVE  Stepped(desk, desk')
    BY <2>2, LayerUnmapStep, LayerDestroyStep, LayerCreateStep, LayerMapStep, LayerCommitStep
  <2>3. ASSUME NEW o \in Output, NEW w \in Workspace, Plug(o, w) PROVE Stepped(desk, desk')
    BY <2>3, PlugStep
  <2>4. ASSUME NEW o \in Output, NEW to \in Output \cup {None}, Unplug(o, to)
        PROVE  Stepped(desk, desk')
    BY <2>4, UnplugStep
  <2> QED BY <1>5, <2>1, <2>2, <2>3, <2>4 DEF Surroundings
<1>6. CASE PerformTransaction
  BY <1>6, PerformStep
<1>7. CASE Halted
  <2>1. desk' = desk
    BY <1>7 DEF Halted
  <2> QED BY <2>1, SameStepped
<1> QED BY <1>1, <1>2, <1>3, <1>4, <1>5, <1>6, <1>7 DEF Next

-----------------------------------------------------------------------------
(* Start-up.                                                                 *)

LEMMA StartsTyped ==
  ASSUME Init
  PROVE  Typed(desk) /\ KeyHeld(desk) /\ PanelsStay(desk)
<1>1. PICK s \in Situation : desk = StartUp(s)
  BY DEF Init
<1> DEFINE connected == s.connected
           Of(o) == IF o \in ToSet(connected) THEN s.spaces[o] ELSE <<>>
           On(w) == {o \in Output : Contains(Of(o), w)}
<1>2. /\ connected \in Seq(Output) /\ connected # <<>> /\ ToSet(connected) \subseteq Output
      /\ \A o \in ToSet(connected) : s.spaces[o] \in Seq(Workspace) /\ s.spaces[o] # <<>>
  BY SituationsAreSituations, Elements
<1>3. /\ DOMAIN desk = Fields
      /\ desk.spaces = [o \in Output |-> Of(o)]
      /\ desk.output = [w \in Workspace |-> IF On(w) = {} THEN None ELSE CHOOSE o \in On(w) : TRUE]
      /\ desk.act = [o \in Output |-> FirstOrNone(Of(o))]
      /\ desk.dummy = [o \in Output |-> None] /\ desk.presented = [o \in Output |-> None]
      /\ desk.outputs = connected /\ desk.plugged = ToSet(connected)
      /\ desk.active = Head(s.spaces[Head(connected)])
  BY <1>1 DEF StartUp, Fields
<1>4. WindowTypes(desk) /\ ListTypes(desk) /\ GrabTypes(desk) /\ FocusTypes(desk)
  <2>1. Head(connected) \in Output
    BY <1>2
  <2>2. WindowTypes(desk) /\ ListTypes(desk)
    BY <1>1 DEF StartUp, WindowTypes, ListTypes, Life, State
  <2>3. GrabTypes(desk)
    BY <1>1, <2>1 DEF StartUp, GrabTypes
  <2>4. FocusTypes(desk)
    BY <1>1, Emptied DEF StartUp, FocusTypes
  <2> QED BY <2>2, <2>3, <2>4
<1>5. SpaceTypes(desk)
  <2>1. \A o \in Output : Of(o) \in Seq(Workspace) /\ (o \in ToSet(connected) => Of(o) # <<>>)
    BY <1>2
  <2>2. \A o \in Output : \A w : Contains(Of(o), w) => o \in ToSet(connected)
    BY Emptied, Elements DEF Contains
  <2>3. \A o \in Output : /\ FirstOrNone(Of(o)) \in Workspace \cup {None}
                          /\ o \in ToSet(connected) => FirstOrNone(Of(o)) # None
    <3>1. ASSUME NEW q \in Seq(Workspace) 
          PROVE  /\ FirstOrNone(q) \in Workspace \cup {None}
                 /\ q # <<>> => FirstOrNone(q) \in Workspace
      BY DEF FirstOrNone
    <3> HIDE DEF Of
    <3> QED BY <2>1, <3>1, NoneIsNoName
  <2>4. desk.active \in Workspace
    <3>1. Head(connected) \in ToSet(connected)
      BY <1>2 DEF ToSet
    <3> QED BY <1>2, <1>3, <3>1
  <2>5. \A w \in Workspace : On(w) # {} => (CHOOSE o \in On(w) : TRUE) \in On(w)
    OBVIOUS
  <2> HIDE DEF Of
  <2>6. \A w \in Workspace : On(w) \subseteq ToSet(connected) /\ On(w) \subseteq Output
    BY <2>2
  <2> HIDE DEF On
  <2>7. desk.output \in [Workspace -> Output \cup {None}]
    BY <1>3, <2>5, <2>6
  <2>8. \A w \in Workspace : desk.output[w] # None => desk.output[w] \in ToSet(desk.outputs)
    BY <1>3, <2>5, <2>6
  <2>9. /\ desk.spaces \in [Output -> Seq(Workspace)]
        /\ desk.act \in [Output -> Workspace \cup {None}]
        /\ \A o \in desk.plugged : desk.act[o] # None
    BY <1>2, <1>3, <2>1, <2>3
  <2>10. /\ desk.dummy \in [Output -> Workspace \cup {None}]
         /\ desk.presented \in [Output -> Workspace \cup {None}]
         /\ desk.outputs \in Seq(Output) /\ desk.plugged \subseteq ToSet(desk.outputs)
         /\ \A o \in Output : desk.dummy[o] = None
    BY <1>2, <1>3
  <2> QED BY <2>4, <2>7, <2>8, <2>9, <2>10 DEF SpaceTypes
<1>6. KeyHeld(desk) /\ PanelsStay(desk)
  BY <1>1 DEF StartUp, KeyHeld, PanelsStay, Exclusive
<1> QED BY <1>3, <1>4, <1>5, <1>6 DEF Typed

(* The inductive invariant.                                                  *)
Sane == Typed(desk) /\ KeyHeld(desk) /\ PanelsStay(desk)

LEMMA SaneAlways == Spec => []Sane
<1>1. Init => Sane
  BY StartsTyped DEF Sane
<1>2. ASSUME Sane, [Next]_vars PROVE Sane'
  <2>1. Stepped(desk, desk')
    BY <1>2, NextStep DEF Sane
  <2>2. Typed(desk') /\ KeyHeld(desk') /\ PanelsStay(desk')
    BY <1>2, <2>1 DEF Stepped, Sane
  <2> QED BY <2>2 DEF Sane, Typed, KeyHeld, PanelsStay, WindowTypes, ListTypes, SpaceTypes,
                          FocusTypes, GrabTypes, Exclusive
<1> QED BY <1>1, <1>2, PTL DEF Spec

(* Whatever windows, panels, outputs and keys there are and whatever they    *)
(* do, no callback leaves a value in struct state that is not of its type.   *)
THEOREM TypesAlways == Spec => []TypeOK
<1>1. Sane => TypeOK
  <2>1. ASSUME Sane PROVE desk.plugged \subseteq Output
    BY <2>1, Elements DEF Sane, Typed, SpaceTypes
  <2> QED BY <2>1 DEF Sane, Typed, WindowTypes, ListTypes, SpaceTypes, FocusTypes, GrabTypes, TypeOK
<1> QED BY <1>1, SaneAlways, PTL

(* With any number of keys, and with grabs of clients, drags and buttons in  *)
(* between, a grab of the server is over once no key is held                 *)
(* (try_stop_operation in keyboard.c), unless a command started it.          *)
THEOREM KeyGrabsEnd == Spec => []KeyGrabEnds
<1>1. Sane => KeyGrabEnds
  BY DEF Sane, KeyHeld, KeyGrabEnds, Alive
<1> QED BY <1>1, SaneAlways, PTL

(* Where no output with panels is unplugged (output.c looks neither at the   *)
(* focused layer nor at is_exclusive), state->is_exclusive says the truth    *)
(* whatever panels map, unmap and ask for the keyboard.                      *)
THEOREM ExclusiveKeeps ==
  Spec => [](~({"layer", "hotplug"} \subseteq desk.kinds) => ExclusiveKeepsKeyboard)
<1>1. Sane => (~({"layer", "hotplug"} \subseteq desk.kinds) => ExclusiveKeepsKeyboard)
  BY DEF Sane, PanelsStay, Exclusive, ExclusiveKeepsKeyboard
<1> QED BY <1>1, SaneAlways, PTL
=============================================================================
