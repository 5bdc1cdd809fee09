---------------------------- MODULE LayoutProofs ----------------------------
(***************************************************************************)
(* Theorems about Layout for every area, gap, ratio and number of windows. *)
(* The boxes are always those that layout_configure computes from the      *)
(* present values (UpToDate); the rest is arithmetic of truncated          *)
(* divisions.                                                              *)
(***************************************************************************)
EXTENDS Layout, TLAPS

-----------------------------------------------------------------------------
(* Division.                                                                 *)

(* What the quotient of a division by a positive number is.                  *)
LEMMA Quotient ==
  ASSUME NEW a \in Int, NEW d \in Nat \ {0}
  PROVE  /\ a \div d \in Int
         /\ d * (a \div d) <= a
         /\ a < d * (a \div d) + d
  BY Z3

(* It is the only number between those bounds.                               *)
LEMMA QuotientBounds ==
  ASSUME NEW a \in Int, NEW d \in Nat \ {0}, NEW q \in Int
  PROVE  /\ d * q <= a => q <= a \div d
         /\ a < d * q + d => a \div d <= q
  <1> DEFINE p == a \div d
  <1>1. p \in Int /\ d * p <= a /\ a < d * p + d
    BY Quotient
  <1> HIDE DEF p
  <1>2. d * q <= a => q <= p
    <2>1. SUFFICES ASSUME d * q <= a, p + 1 <= q PROVE FALSE
      BY <1>1
    <2>2. d * (p + 1) <= d * q
      BY <1>1, <2>1, Z3
    <2> QED
      BY <1>1, <2>1, <2>2, Z3
  <1>3. a < d * q + d => p <= q
    <2>1. SUFFICES ASSUME a < d * q + d, q + 1 <= p PROVE FALSE
      BY <1>1
    <2>2. d * (q + 1) <= d * p
      BY <1>1, <2>1, Z3
    <2> QED
      BY <1>1, <2>1, <2>2, Z3
  <1> QED
    BY <1>2, <1>3 DEF p

(* A truncated division rounds down what is not negative and up the rest.    *)
LEMMA TruncBounds ==
  ASSUME NEW a \in Int, NEW d \in Nat \ {0}
  PROVE  /\ Trunc(a, d) \in Int
         /\ a >= 0 => d * Trunc(a, d) <= a /\ a < d * Trunc(a, d) + d
         /\ a < 0  => a <= d * Trunc(a, d) /\ d * Trunc(a, d) - d < a
  <1>1. CASE a >= 0
    BY <1>1, Quotient, Z3 DEF Trunc
  <1>2. CASE a < 0
    <2> DEFINE q == (-a) \div d
    <2>1. q \in Int /\ d * q <= -a /\ -a < d * q + d
      BY Quotient, -a \in Int
    <2>2. Trunc(a, d) = -q
      BY <1>2 DEF Trunc
    <2> HIDE DEF q
    <2>3. d * (-q) = -(d * q)
      BY <2>1, Z3
    <2> QED
      BY <1>2, <2>1, <2>2, <2>3, Z3
  <1> QED
    BY <1>1, <1>2

-----------------------------------------------------------------------------
(* The columns: the master, of r / d of a width w from x, and the slaves.    *)

(* The master is not wider than the whole and not narrower than nothing.     *)
LEMMA MasterWidth ==
  ASSUME NEW w \in Nat, NEW d \in Nat \ {0}, NEW r \in 0..d
  PROVE  Trunc(w * r, d) \in 0..w
  <1>1. w * r \in Int /\ 0 <= w * r /\ w * r <= d * w
    BY Z3
  <1> DEFINE t == Trunc(w * r, d)
  <1>2. t \in Int /\ d * t <= w * r /\ w * r < d * t + d
    BY <1>1, TruncBounds
  <1> HIDE DEF t
  <1>3. t <= w
    BY <1>1, <1>2, Z3
  <1>4. 0 <= t
    BY <1>1, <1>2, Z3
  <1> QED
    BY <1>2, <1>3, <1>4 DEF t

(* The slaves begin where the master ends or right of it.                    *)
LEMMA SlavesRightOfMaster ==
  ASSUME NEW x \in Int, NEW w \in Nat, NEW d \in Nat \ {0}, NEW r \in 0..d
  PROVE  x + Trunc(w * r, d) <= Trunc(x * d + w * r, d)
  <1> DEFINE a == w * r
             b == x * d + a
             t == Trunc(a, d)
             u == Trunc(b, d)
  <1>1. a \in Int /\ 0 <= a /\ b \in Int /\ x * d \in Int
    BY Z3
  <1>2. t \in Int /\ d * t <= a
    BY <1>1, TruncBounds
  <1>3. u \in Int /\ b < d * u + d
    BY <1>1, TruncBounds, Z3
  <1> SUFFICES x + t <= u
    OBVIOUS
  <1>4. d * (x + t) = x * d + d * t /\ d * (u + 1) = d * u + d
    BY <1>2, <1>3, Z3
  <1>5. b = x * d + a
    OBVIOUS
  <1> HIDE DEF a, b, t, u
  <1>6. d * (x + t) < d * (u + 1)
    BY <1>1, <1>2, <1>3, <1>4, <1>5, d * t \in Int, d * u \in Int, Z3
  <1> QED
    BY <1>2, <1>3, <1>6, Z3

(* The slaves end at the right side or before it: what is rounded where they *)
(* begin is not rounded the other way in their width.                        *)
LEMMA SlavesEndInside ==
  ASSUME NEW x \in Int, NEW w \in Nat, NEW d \in Nat \ {0}, NEW r \in 0..d
  PROVE  Trunc(x * d + w * r, d) + Trunc(w * (d - r), d) <= x + w
  <1> DEFINE b == x * d + w * r
             c == w * (d - r)
             u == Trunc(b, d)
             v == Trunc(c, d)
  <1>1. b \in Int /\ c \in Int /\ 0 <= c /\ b + c = d * (x + w)
    BY Z3
  <1>2. v \in Int /\ d * v <= c
    BY <1>1, TruncBounds
  <1> HIDE DEF b, c
  <1>3. u \in Int /\ (b >= 0 => d * u <= b) /\ (b < 0 => d * u - d < b)
    BY <1>1, TruncBounds
  <1>4. d * u \in Int /\ d * u < b + d
    BY <1>1, <1>3, Z3
  <1> SUFFICES u + v <= x + w
    BY DEF b, c
  <1> HIDE DEF u, v
  <1>5. d * (u + v) < d * (x + w + 1)
    BY <1>1, <1>2, <1>3, <1>4, Z3
  <1> QED
    BY <1>2, <1>3, <1>5, Z3

-----------------------------------------------------------------------------
(* The stack: m slaves in a height h.                                        *)

(* A slave ends where the next one begins or above it.                       *)
LEMMA SlavesAboveNext ==
  ASSUME NEW h \in Nat, NEW m \in Nat \ {0}, NEW i \in Nat, NEW j \in Nat, i < j
  PROVE  Trunc(i * h, m) + Trunc(h, m) <= Trunc(j * h, m)
  <1> DEFINE s == Trunc(i * h, m)
             t == Trunc(h, m)
             u == Trunc(j * h, m)
  <1>1. i * h \in Nat /\ j * h \in Nat /\ i * h + h <= j * h
    BY Z3
  <1>2. s \in Int /\ m * s <= i * h
    BY <1>1, TruncBounds, i * h \in Int, i * h >= 0
  <1>3. t \in Int /\ m * t <= h
    BY TruncBounds, h \in Int, h >= 0
  <1>4. u \in Int /\ j * h < m * u + m
    BY <1>1, TruncBounds, j * h \in Int, j * h >= 0
  <1> SUFFICES s + t <= u
    OBVIOUS
  <1> HIDE DEF s, t, u
  <1>5. m * (s + t) < m * (u + 1)
    BY <1>1, <1>2, <1>3, <1>4, Z3
  <1> QED
    BY <1>2, <1>3, <1>4, <1>5, Z3

(* The last slave, of the height the others leave, ends at the bottom or     *)
(* less than m pixels below it.                                              *)
LEMMA LastSlaveEnd ==
  ASSUME NEW h \in Nat, NEW m \in Nat \ {0}
  PROVE  Trunc((m - 1) * h, m) - (m - 1) * Trunc(h, m) \in 0..(m - 1)
  <1> DEFINE t == Trunc(h, m)
             u == Trunc((m - 1) * h, m)
  <1>1. (m - 1) * h \in Nat
    BY Z3
  <1>2. t \in Int /\ m * t <= h /\ h <= m * t + (m - 1)
    BY TruncBounds, h \in Int, h >= 0, Z3
  <1>3. u \in Int /\ m * u <= (m - 1) * h /\ (m - 1) * h < m * u + m
    BY <1>1, TruncBounds, (m - 1) * h \in Int, (m - 1) * h >= 0
  <1> SUFFICES u - (m - 1) * t \in 0..(m - 1)
    OBVIOUS
  <1> HIDE DEF t, u
  <1>4. /\ (m - 1) * (m * t) <= (m - 1) * h
        /\ (m - 1) * h <= (m - 1) * (m * t) + (m - 1) * (m - 1)
    BY <1>2, Z3
  <1> DEFINE e == u - (m - 1) * t
             a == (m - 1) * h
             b == (m - 1) * (m * t)
             c == (m - 1) * (m - 1)
  <1>5. /\ e \in Int /\ a \in Int /\ b \in Int /\ c \in Int
        /\ m * e = m * u - b
        /\ c = m * m - 2 * m + 1
    BY <1>2, <1>3, Z3
  <1>6. b <= a /\ a <= b + c /\ m * u <= a /\ a < m * u + m
    BY <1>3, <1>4
  <1> HIDE DEF a, b, c, e
  <1>7. m * (e + 1) > m * 0
    BY <1>3, <1>5, <1>6, Z3
  <1>8. m * e < m * m
    BY <1>3, <1>5, <1>6, Z3
  <1> QED
    BY <1>5, <1>7, <1>8, Z3 DEF e

-----------------------------------------------------------------------------
(* The boxes are those of the present values.                                *)
UpToDate == boxes = LayoutConfigure(usable, outer, inner, smart, ratio, windows)

ParametersOK ==
  /\ usable \in Area
  /\ outer \in Gap \cup {0}
  /\ inner \in Gap \cup {0}
  /\ smart \in BOOLEAN
  /\ ratio \in Ratio
  /\ windows \in 0..MaxWindows

IInv == ParametersOK /\ UpToDate

(* What the theorems about a state use of the parameters.                    *)
LEMMA ParametersInt ==
  ASSUME ParametersOK
  PROVE  /\ windows \in Nat
         /\ ratio \in Int
         /\ Effective(inner, smart, windows) \in Int
         /\ Inside \in Box
  <1>1. windows \in Nat /\ ratio \in Int /\ outer \in Int /\ inner \in Int
    BY RatioType, GapType, MaxWindowsType DEF ParametersOK
  <1>2. usable \in Box
    BY AreaType DEF ParametersOK
  <1>3. Effective(inner, smart, windows) \in Int /\ Effective(outer, smart, windows) \in Int
    BY <1>1 DEF Effective
  <1>4. \A g \in Int : WithoutGaps(usable, g) \in Box
    BY <1>2 DEF Box, WithoutGaps
  <1> QED
    BY <1>1, <1>3, <1>4 DEF Inside, FullArea

(* The boxes before the inner gaps are taken.                                *)
LEMMA BoxesInt ==
  ASSUME ParametersOK
  PROVE  /\ MasterBox(Inside, ratio, windows) \in Box
         /\ \A k \in 2..windows : SlaveBox(Inside, ratio, windows, k) \in Box
  <1>1. windows \in Nat /\ ratio \in Int /\ Inside \in Box
    BY ParametersInt
  <1>2. /\ Inside.x \in Int /\ Inside.y \in Int
        /\ Inside.width \in Int /\ Inside.height \in Int
    BY <1>1 DEF Box
  <1>3. \A a \in Int : Trunc(a, RatioDen) \in Int
    BY TruncBounds, RatioDenType
  <1>4. Inside.width * ratio \in Int
    BY <1>1, <1>2, Z3
  <1>5. MasterBox(Inside, ratio, windows) \in Box
    BY <1>1, <1>2, <1>3, <1>4 DEF MasterBox, Box
  <1>6. ASSUME NEW k \in 2..windows
        PROVE  SlaveBox(Inside, ratio, windows, k) \in Box
    <2>1. windows - 1 \in Nat \ {0} /\ k \in Int
      BY <1>1
    <2>2. \A a \in Int : Trunc(a, windows - 1) \in Int
      BY <2>1, TruncBounds
    <2>3. (k - 2) * Inside.height \in Int
      BY <1>2, <2>1, Z3
    <2>4. Trunc(Inside.height, windows - 1) \in Int
      BY <1>2, <2>2
    <2>5. (windows - 2) * Trunc(Inside.height, windows - 1) \in Int
      BY <1>1, <2>4, Z3
    <2>6. /\ Inside.x * RatioDen + Inside.width * ratio \in Int
          /\ Inside.width * (RatioDen - ratio) \in Int
      BY <1>1, <1>2, RatioDenType, Z3
    <2>7. /\ Trunc(Inside.x * RatioDen + Inside.width * ratio, RatioDen) \in Int
          /\ Trunc(Inside.width * (RatioDen - ratio), RatioDen) \in Int
          /\ Trunc((k - 2) * Inside.height, windows - 1) \in Int
      BY <1>3, <2>2, <2>3, <2>6
    <2> DEFINE left == Trunc(Inside.x * RatioDen + Inside.width * ratio, RatioDen)
               top == Trunc((k - 2) * Inside.height, windows - 1)
               width == Trunc(Inside.width * (RatioDen - ratio), RatioDen)
               share == Trunc(Inside.height, windows - 1)
               others == (windows - 2) * share
    <2>8. SlaveBox(Inside, ratio, windows, k) =
            [x |-> left, y |-> Inside.y + top, width |-> width,
             height |-> IF k = windows THEN Inside.height - others ELSE share]
      BY DEF SlaveBox
    <2>9. left \in Int /\ top \in Int /\ width \in Int /\ share \in Int /\ others \in Int
      BY <2>4, <2>5, <2>7
    <2> HIDE DEF left, top, width, share, others
    <2> QED
      BY <1>2, <2>8, <2>9 DEF Box
  <1> QED
    BY <1>5, <1>6

(* The gaps around a window fill what was taken for them.                    *)
LEMMA GapsUndone ==
  ASSUME NEW b \in Box, NEW g \in Int
  PROVE  /\ WithoutGaps(b, g) \in Box
         /\ WithGaps(WithoutGaps(b, g), g) = b
  BY DEF Box, WithGaps, WithoutGaps

LEMMA Places ==
  ASSUME IInv
  PROVE  /\ boxes \in [1..windows -> Box]
         /\ \A k \in 1..windows :
              Place(k) = IF k = 1 THEN MasterBox(Inside, ratio, windows)
                                  ELSE SlaveBox(Inside, ratio, windows, k)
  <1> DEFINE g == Effective(inner, smart, windows)
             raw(k) == IF k = 1 THEN MasterBox(Inside, ratio, windows)
                                ELSE SlaveBox(Inside, ratio, windows, k)
  <1>1. g \in Int /\ windows \in Nat
    BY ParametersInt DEF IInv
  <1>2. \A k \in 1..windows : raw(k) \in Box
    <2>1. \A k \in 1..windows : k = 1 \/ k \in 2..windows
      BY <1>1
    <2> QED
      BY <2>1, BoxesInt DEF IInv
  <1>3. boxes = [k \in 1..windows |-> WithoutGaps(raw(k), g)]
    BY DEF IInv, UpToDate, LayoutConfigure, Inside
  <1>4. \A k \in 1..windows : Place(k) = WithGaps(boxes[k], g)
    BY DEF Place
  <1> HIDE DEF g, raw
  <1>5. \A k \in 1..windows : WithoutGaps(raw(k), g) \in Box
    BY <1>1, <1>2, GapsUndone
  <1>6. boxes \in [1..windows -> Box]
    BY <1>3, <1>5
  <1>7. \A k \in 1..windows : Place(k) = raw(k)
    BY <1>1, <1>2, <1>3, <1>4, GapsUndone
  <1> QED
    BY <1>6, <1>7 DEF raw

-----------------------------------------------------------------------------
(* The invariant, and with it the boxes' types: every action that changes    *)
(* what layout_configure reads calls it.                                     *)
THEOREM Invariance == Spec => []IInv
  <1>1. Init => IInv
    <2> SUFFICES ASSUME Init PROVE IInv
      OBVIOUS
    <2>1. 0 \in 0..MaxWindows
      BY MaxWindowsType
    <2>2. ParametersOK
      BY <2>1, Zenon DEF Init, ParametersOK
    <2>3. UpToDate
      BY DEF Init, UpToDate, LayoutConfigure
    <2> QED
      BY <2>2, <2>3 DEF IInv
  <1>2. IInv /\ [Next]_vars => IInv'
    <2> SUFFICES ASSUME IInv, [Next]_vars PROVE IInv'
      OBVIOUS
    <2> USE DEF IInv, ParametersOK, UpToDate, Reconfigure
    <2>1. CASE Add
      BY <2>1, MaxWindowsType DEF Add
    <2>2. CASE Remove
      BY <2>2, MaxWindowsType DEF Remove
    <2>3. CASE SetGaps
      BY <2>3 DEF SetGaps
    <2>4. CASE SetSmartGaps
      BY <2>4 DEF SetSmartGaps
    <2>5. CASE SetRatio
      BY <2>5 DEF SetRatio
    <2>6. CASE AdjustRatio
      BY <2>6 DEF AdjustRatio
    <2>7. CASE LayersArrange
      BY <2>7 DEF LayersArrange
    <2>8. CASE UNCHANGED vars
      BY <2>8 DEF vars
    <2> QED
      BY <2>1, <2>2, <2>3, <2>4, <2>5, <2>6, <2>7, <2>8 DEF Next
  <1> QED
    BY <1>1, <1>2, PTL DEF Spec

(* Every window of the layout has a box of whole numbers.                    *)
THEOREM TypeCorrect == Spec => []TypeOK
  <1>1. IInv => TypeOK
    BY Places DEF IInv, ParametersOK, TypeOK
  <1> QED
    BY <1>1, Invariance, PTL

-----------------------------------------------------------------------------
(* What a sane state gives to the lemmas about columns and stack.            *)
LEMMA SaneParameters ==
  ASSUME ParametersOK, Sane
  PROVE  /\ Inside.x \in Int /\ Inside.y \in Int
         /\ Inside.width \in Nat /\ Inside.height \in Nat
         /\ RatioDen \in Nat \ {0} /\ ratio \in 0..RatioDen
         /\ windows \in Nat
  BY ParametersInt, RatioDenType DEF Sane, Box

(* A slave begins where the master ends or right of it.                      *)
LEMMA MasterLeftOfSlave ==
  ASSUME IInv, Sane, NEW k \in 2..windows
  PROVE  Place(1).x + Place(1).width <= Place(k).x
  <1>1. windows \in Nat
    BY SaneParameters DEF IInv
  <1>2. Place(1) = MasterBox(Inside, ratio, windows) /\ 1 # windows /\ windows > 1
    BY <1>1, Places
  <1>3. Place(k) = SlaveBox(Inside, ratio, windows, k)
    BY <1>1, Places
  <1>4. Inside.x + Trunc(Inside.width * ratio, RatioDen)
          <= Trunc(Inside.x * RatioDen + Inside.width * ratio, RatioDen)
    BY SaneParameters, SlavesRightOfMaster DEF IInv
  <1>5. /\ Place(1).x = Inside.x
        /\ Place(1).width = Trunc(Inside.width * ratio, RatioDen)
    BY <1>2 DEF MasterBox
  <1>6. Place(k).x = Trunc(Inside.x * RatioDen + Inside.width * ratio, RatioDen)
    BY <1>3 DEF SlaveBox
  <1> QED
    BY <1>4, <1>5, <1>6

(* A slave ends where the next one begins or above it.                       *)
LEMMA SlaveAboveSlave ==
  ASSUME IInv, Sane, NEW j \in 2..windows, NEW k \in 2..windows, j < k
  PROVE  Place(j).y + Place(j).height <= Place(k).y
  <1>1. windows \in Nat /\ Inside.height \in Nat /\ Inside.y \in Int
    BY SaneParameters DEF IInv
  <1> DEFINE m == windows - 1
             h == Inside.height
             s == Trunc((j - 2) * h, m)
             t == Trunc(h, m)
             u == Trunc((k - 2) * h, m)
  <1>2. /\ m \in Nat \ {0} /\ j - 2 \in Nat /\ k - 2 \in Nat /\ j - 2 < k - 2
        /\ j # windows /\ j # 1 /\ k # 1 /\ j \in 1..windows /\ k \in 1..windows
    BY <1>1
  <1>3. s + t <= u
    BY <1>1, <1>2, SlavesAboveNext
  <1>4. /\ Place(j).y = Inside.y + s /\ Place(j).height = t
        /\ Place(k).y = Inside.y + u
    BY <1>2, Places DEF SlaveBox
  <1>5. (j - 2) * h \in Int /\ (k - 2) * h \in Int /\ h \in Int
    BY <1>1, <1>2, Z3
  <1>6. s \in Int /\ t \in Int /\ u \in Int
    BY <1>2, <1>5, TruncBounds
  <1> HIDE DEF s, t, u
  <1> QED
    BY <1>1, <1>3, <1>4, <1>6

(* For all areas, gaps, ratios and windows: no two windows overlap, whatever *)
(* layout_configure rounds.                                                  *)
THEOREM Disjoint == Spec => []NoOverlap
  <1>1. ASSUME IInv, Sane, NEW j \in 1..windows, NEW k \in 1..windows, j < k
        PROVE  Apart(Place(j), Place(k))
    <2>1. windows \in Nat
      BY <1>1, SaneParameters DEF IInv
    <2>2. CASE j = 1
      <3>1. k \in 2..windows
        BY <1>1, <2>1, <2>2
      <3> QED
        BY <1>1, <2>2, <3>1, MasterLeftOfSlave DEF Apart
    <2>3. CASE j # 1
      <3>1. j \in 2..windows /\ k \in 2..windows
        BY <1>1, <2>1, <2>3
      <3> QED
        BY <1>1, <3>1, SlaveAboveSlave DEF Apart
    <2> QED
      BY <2>2, <2>3
  <1>2. IInv => NoOverlap
    <2> SUFFICES ASSUME IInv, Sane, NEW j \in 1..windows, NEW k \in 1..windows, j # k
                 PROVE  Apart(Place(j), Place(k))
      BY DEF NoOverlap
    <2>1. windows \in Nat
      BY SaneParameters DEF IInv
    <2>2. CASE j < k
      BY <1>1, <2>2
    <2>3. CASE k < j
      <3>1. Apart(Place(k), Place(j))
        BY <1>1, <2>3
      <3> QED
        BY <3>1 DEF Apart
    <2> QED
      BY <2>1, <2>2, <2>3
  <1> QED
    BY <1>2, Invariance, PTL

(* For all values: rounding never pushes a window over the left, the right   *)
(* or the upper side of the present usable area.                             *)
THEOREM SidesKept == Spec => []WithinSides
  <1>1. IInv => WithinSides
    <2> SUFFICES ASSUME IInv, Sane, NEW k \in 1..windows
                 PROVE  /\ Place(k).x >= Inside.x
                        /\ Place(k).x + Place(k).width <= Inside.x + Inside.width
                        /\ Place(k).y >= Inside.y
      BY DEF WithinSides
    <2>1. /\ Inside.x \in Int /\ Inside.y \in Int
          /\ Inside.width \in Nat /\ Inside.height \in Nat
          /\ RatioDen \in Nat \ {0} /\ ratio \in 0..RatioDen
          /\ windows \in Nat
      BY SaneParameters DEF IInv
    <2> DEFINE w == Trunc(Inside.width * ratio, RatioDen)
               u == Trunc(Inside.x * RatioDen + Inside.width * ratio, RatioDen)
               v == Trunc(Inside.width * (RatioDen - ratio), RatioDen)
    <2>2. w \in 0..Inside.width
      BY <2>1, MasterWidth
    <2>3. CASE k = 1
      <3>1. Place(k) = MasterBox(Inside, ratio, windows)
        BY <2>3, Places
      <3>2. /\ Place(k).x = Inside.x /\ Place(k).y = Inside.y
            /\ Place(k).width = w \/ Place(k).width = Inside.width
        BY <3>1 DEF MasterBox
      <3> QED
        BY <2>1, <2>2, <3>2
    <2>4. CASE k # 1
      <3> DEFINE m == windows - 1
                 t == Trunc((k - 2) * Inside.height, m)
      <3>1. Place(k) = SlaveBox(Inside, ratio, windows, k)
        BY <2>4, Places
      <3>2. Place(k).x = u /\ Place(k).width = v /\ Place(k).y = Inside.y + t
        BY <3>1 DEF SlaveBox
      <3>3. Inside.x + w <= u
        BY <2>1, SlavesRightOfMaster
      <3>4. u + v <= Inside.x + Inside.width
        BY <2>1, SlavesEndInside
      <3>5. /\ Inside.x * RatioDen + Inside.width * ratio \in Int
            /\ Inside.width * (RatioDen - ratio) \in Int
        BY <2>1, Z3
      <3>6. u \in Int /\ v \in Int
        BY <2>1, <3>5, TruncBounds
      <3>7. m \in Nat \ {0} /\ k - 2 \in Nat
        BY <2>1, <2>4
      <3>8. (k - 2) * Inside.height \in Int /\ 0 <= (k - 2) * Inside.height
        BY <2>1, <3>7, Z3
      <3>9. t \in Int /\ (k - 2) * Inside.height < m * t + m
        BY <3>7, <3>8, TruncBounds
      <3> HIDE DEF m, t, u, v
      <3>10. 0 <= t
        BY <3>7, <3>8, <3>9, Z3
      <3> QED
        BY <2>1, <2>2, <3>2, <3>3, <3>4, <3>6, <3>9, <3>10
    <2> QED
      BY <2>3, <2>4
  <1> QED
    BY <1>1, Invariance, PTL

(* For all values: the stack leaves no gap at the bottom, and reaches less   *)
(* than a pixel per slave below it.                                          *)
THEOREM BottomReached == Spec => []NoGapBelow
  <1>1. IInv => NoGapBelow
    <2> SUFFICES ASSUME IInv, Sane, windows > 1
                 PROVE  Below(windows) \in 0..(windows - 2)
      BY DEF NoGapBelow
    <2>1. windows \in Nat /\ Inside.y \in Int /\ Inside.height \in Nat
      BY SaneParameters DEF IInv
    <2> DEFINE m == windows - 1
               h == Inside.height
               t == Trunc(h, m)
               u == Trunc((m - 1) * h, m)
    <2>2. m \in Nat \ {0} /\ windows # 1 /\ windows \in 1..windows
      BY <2>1
    <2>3. u - (m - 1) * t \in 0..(m - 1)
      BY <2>1, <2>2, LastSlaveEnd
    <2>4. windows - 2 = m - 1
      BY <2>1
    <2>5. Place(windows) = SlaveBox(Inside, ratio, windows, windows)
      BY <2>2, Places
    <2>6. /\ Place(windows).y = Inside.y + u
          /\ Place(windows).height = h - (m - 1) * t
      BY <2>4, <2>5 DEF SlaveBox
    <2>7. (m - 1) * h \in Int /\ h \in Int
      BY <2>1, <2>2, Z3
    <2>8. t \in Int /\ u \in Int
      BY <2>2, <2>7, TruncBounds
    <2>9. (m - 1) * t \in Int
      BY <2>2, <2>8, Z3
    <2> DEFINE q == (m - 1) * t
    <2> HIDE DEF q, t, u
    <2>10. Below(windows) = u - q
      BY <2>1, <2>6, <2>8, <2>9 DEF Below, q
    <2> QED
      BY <2>3, <2>4, <2>10 DEF q
  <1> QED
    BY <1>1, Invariance, PTL
=============================================================================
