------------------------------ MODULE MCLayout ------------------------------
(* Instances of Layout for TLC: areas small enough to be uneven under every  *)
(* division, left of the origin and right of it.                             *)
EXTENDS Layout

Areas ==
  {[x |-> left, y |-> 1, width |-> w, height |-> h] :
     left \in {-4, 0}, w \in {5, 8}, h \in {6, 9, 11}}

Gaps == {-1, 0, 1}

Quarters == -1..5
=============================================================================
