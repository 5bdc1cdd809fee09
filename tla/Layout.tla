------------------------------- MODULE Layout -------------------------------
(***************************************************************************)
(* The arithmetic of src/layout.c: the usable area of an output is divided *)
(* between the master on the left and a stack of slaves on the right.      *)
(*                                                                         *)
(* The code computes in int and float and truncates toward zero.  A ratio  *)
(* is a number of RatioDen-ths here; when RatioDen is a power of two the   *)
(* floats of the code are exact and so is the model.                       *)
(*                                                                         *)
(* Windows are places of the layout: 1 is the master, 2, 3, ... the slaves *)
(* from top to bottom.  Which window has which place does not matter here. *)
(***************************************************************************)
EXTENDS Integers

CONSTANTS
  Area,        \* usable areas the outputs and panels leave: a set of boxes
  Gap,         \* values of the gaps
  RatioDen,    \* the denominator of ratios
  Ratio,       \* numerators of master_ratio, outside of 0..RatioDen too
  MaxWindows   \* bound: tiled windows of the workspace

Box == [x : Int, y : Int, width : Int, height : Int]

ASSUME AreaType == Area \subseteq Box
ASSUME GapType == Gap \subseteq Int
ASSUME RatioDenType == RatioDen \in Nat \ {0}
ASSUME RatioType == Ratio \subseteq Int
ASSUME MaxWindowsType == MaxWindows \in Nat \ {0}

VARIABLES
  usable,        \* output->usable_area
  outer, inner,  \* config.gaps
  smart,
  ratio,         \* config.master_ratio
  windows,       \* how many windows are tiled
  boxes          \* the box last requested of each

vars == <<usable, outer, inner, smart, ratio, windows, boxes>>

-----------------------------------------------------------------------------
(* Integer division and conversion from float of the code.                   *)
Trunc(a, b) == IF a >= 0 THEN a \div b ELSE -((-a) \div b)

WithoutGaps(box, gaps) ==
  [x |-> box.x + gaps, y |-> box.y + gaps,
   width |-> box.width - 2 * gaps, height |-> box.height - 2 * gaps]

WithGaps(box, gaps) == WithoutGaps(box, -gaps)

(* Gaps vanish around a lone window if it is asked for.                      *)
Effective(gaps, on, n) == IF on /\ n = 1 THEN 0 ELSE gaps

FullArea(area, out, on, n) == WithoutGaps(area, Effective(out, on, n))

MasterBox(full, r, n) ==
  [x |-> full.x, y |-> full.y,
   width |-> IF n > 1 THEN Trunc(full.width * r, RatioDen) ELSE full.width,
   height |-> full.height]

(* Mutations: heights are rounded up; the slaves are as wide as the master   *)
(* leaves and one pixel more; the last slave is as high as the others.       *)
SlaveBoxRoundedHeights(full, r, n, k) ==
  [x |-> Trunc(full.x * RatioDen + full.width * r, RatioDen),
   y |-> full.y + Trunc((k - 2) * full.height, n - 1),
   width |-> Trunc(full.width * (RatioDen - r), RatioDen),
   height |-> Trunc(full.height + n - 2, n - 1)]

SlaveBoxWide(full, r, n, k) ==
  [x |-> Trunc(full.x * RatioDen + full.width * r, RatioDen),
   y |-> full.y + Trunc((k - 2) * full.height, n - 1),
   width |-> full.width - Trunc(full.width * r, RatioDen) + 1,
   height |-> IF k = n THEN full.height - (n - 2) * Trunc(full.height, n - 1)
                       ELSE Trunc(full.height, n - 1)]

SlaveBoxEven(full, r, n, k) ==
  [x |-> Trunc(full.x * RatioDen + full.width * r, RatioDen),
   y |-> full.y + Trunc((k - 2) * full.height, n - 1),
   width |-> Trunc(full.width * (RatioDen - r), RatioDen),
   height |-> Trunc(full.height, n - 1)]

(* Slave number k - 2 of n - 1: the last one gets what the heights of the    *)
(* others leave, but starts where its share of the whole height starts.      *)
SlaveBox(full, r, n, k) ==
  [x |-> Trunc(full.x * RatioDen + full.width * r, RatioDen),
   y |-> full.y + Trunc((k - 2) * full.height, n - 1),
   width |-> Trunc(full.width * (RatioDen - r), RatioDen),
   height |-> IF k = n THEN full.height - (n - 2) * Trunc(full.height, n - 1)
                       ELSE Trunc(full.height, n - 1)]

(* layout_configure.                                                         *)
LayoutConfigure(area, out, in, on, r, n) ==
  LET full == FullArea(area, out, on, n) IN
  [k \in 1..n |->
     WithoutGaps(IF k = 1 THEN MasterBox(full, r, n) ELSE SlaveBox(full, r, n, k),
                 Effective(in, on, n))]

(* After every change, of all workspaces (layout_reconfigure_all).           *)
Reconfigure == boxes' = LayoutConfigure(usable', outer', inner', smart', ratio', windows')

-----------------------------------------------------------------------------
(* config_init: no gaps, and a master of half the width.                     *)
Init ==
  /\ usable \in Area
  /\ outer = 0
  /\ inner = 0
  /\ smart = FALSE
  /\ ratio \in Ratio
  /\ 2 * ratio = RatioDen
  /\ windows = 0
  /\ boxes = [k \in 1..0 |-> usable]

(* layout_add and layout_remove with the call of layout_configure after them.*)
(* With no window left layout_configure returns at once.  Mutation: the      *)
(* windows are not asked again.                                              *)
AddOnly ==
  /\ windows < MaxWindows
  /\ windows' = windows + 1
  /\ UNCHANGED <<usable, outer, inner, smart, ratio, boxes>>

Add ==
  /\ windows < MaxWindows
  /\ windows' = windows + 1
  /\ UNCHANGED <<usable, outer, inner, smart, ratio>>
  /\ Reconfigure

Remove ==
  /\ windows > 0
  /\ windows' = windows - 1
  /\ UNCHANGED <<usable, outer, inner, smart, ratio>>
  /\ Reconfigure

(* The actions gaps, smart_gaps and master_ratio.  Nothing keeps the ratio   *)
(* within 0 and 1 or the gaps from being negative.                           *)
SetGaps ==
  /\ outer' \in Gap
  /\ inner' \in Gap
  /\ UNCHANGED <<usable, smart, ratio, windows>>
  /\ Reconfigure

SetSmartGaps ==
  /\ smart' \in BOOLEAN
  /\ UNCHANGED <<usable, outer, inner, ratio, windows>>
  /\ Reconfigure

SetRatio ==
  /\ ratio' \in Ratio
  /\ UNCHANGED <<usable, outer, inner, smart, windows>>
  /\ Reconfigure

AdjustRatio ==
  /\ \E change \in Ratio : ratio' = ratio + change
  /\ ratio' \in Ratio
  /\ UNCHANGED <<usable, outer, inner, smart, windows>>
  /\ Reconfigure

(* update_area and layers_arrange: a mode, a place or a panel changed.       *)
(* Mutation: as above.                                                       *)
LayersArrangeOnly ==
  /\ usable' \in Area
  /\ UNCHANGED <<outer, inner, smart, ratio, windows, boxes>>

LayersArrange ==
  /\ usable' \in Area
  /\ UNCHANGED <<outer, inner, smart, ratio, windows>>
  /\ Reconfigure

Next ==
  Add \/ Remove \/ SetGaps \/ SetSmartGaps \/ SetRatio \/ AdjustRatio \/ LayersArrange

Spec == Init /\ [][Next]_vars

-----------------------------------------------------------------------------
(* Every window of the layout has a box: no window that is added or removed  *)
(* misses the call of layout_configure.                                      *)
TypeOK ==
  /\ usable \in Area
  /\ outer \in Gap \cup {0}
  /\ inner \in Gap \cup {0}
  /\ smart \in BOOLEAN
  /\ ratio \in Ratio
  /\ windows \in 0..MaxWindows
  /\ boxes \in [1..windows -> Box]

(* What the gaps leave of the usable area.                                   *)
Inside == FullArea(usable, outer, smart, windows)

(* The values a user would choose: the outer gaps fit into the area and the  *)
(* ratio is between 0 and 1.                                                 *)
Sane == Inside.width >= 0 /\ Inside.height >= 0 /\ ratio \in 0..RatioDen

(* A window with the gaps around it.  Of two and more windows it is what     *)
(* insert_layout_at_cursor looks for the cursor in.                          *)
Place(k) == WithGaps(boxes[k], Effective(inner, smart, windows))

Apart(a, b) ==
  \/ a.x + a.width <= b.x
  \/ b.x + b.width <= a.x
  \/ a.y + a.height <= b.y
  \/ b.y + b.height <= a.y

(* No two windows, nor the gaps around them, overlap, whatever is rounded;   *)
(* so a window is dropped on at most one other.                              *)
NoOverlap ==
  Sane => \A j, k \in 1..windows : j # k => Apart(Place(j), Place(k))

(* On the left, on the right and at the top the windows and their gaps stay  *)
(* within the usable area that the panels leave now.                         *)
WithinSides ==
  Sane => \A k \in 1..windows :
            /\ Place(k).x >= Inside.x
            /\ Place(k).x + Place(k).width <= Inside.x + Inside.width
            /\ Place(k).y >= Inside.y

(* There is no gap below the stack, and the last slave ends less than one    *)
(* pixel per slave below the area.                                           *)
Below(k) == Place(k).y + Place(k).height - (Inside.y + Inside.height)

NoGapBelow ==
  Sane /\ windows > 1 => Below(windows) \in 0..(windows - 2)

-----------------------------------------------------------------------------
(* layout_configure: "in order to not have any gaps at the bottom of the     *)
(* stack, we give the last slave all the remaining height".  The height that *)
(* remains is counted from the heights of the others, the place of the slave *)
(* from its share of the whole: it ends below the usable area.               *)
LastTakesTheRemaining ==
  Sane /\ windows > 1 => Below(windows) = 0
=============================================================================
