------------------------------ MODULE MCSettings ------------------------------
(* The instance of Settings for TLC.                                         *)
EXTENDS Settings

CONSTANTS b1, b2, b3, b4, b5, k1, k2, p1, p2, p3, v1, v2, v3, us, bogus, o1, o2

Blocks == {b1, b2, b3, b4, b5}

(* One of each kind of word: the flags, the options that copy and one that   *)
(* does not, values that fit and one that fits nowhere.                      *)
Words ==
  {"create_workspace", "--output", "env", "keymap", "gaps", "exit", "exec",
   "toplevel_rule", "--app_id", "--title", "--state", "tiled",
   "keybind", "--even_when_locked", "x", "up", "7", "bogus"}

(* A touchpad, a mouse whose speed cannot be set, and a pointer that is not  *)
(* driven by libinput.                                                       *)
ThreePointers == {p1, p2, p3}
Driven == {p1, p2}
Touchpads == {p1}
Faster == {p1}
Swapping == {p1, p2}

(* A rule for all, one for a device by its name, and one that takes back     *)
(* only a part of what the others set.                                       *)
ThreeRules == {
  [matches |-> ThreePointers, fields |-> [sensitivity |-> 1, acceleration |-> "on"]],
  [matches |-> {p1, p3}, fields |-> [sensitivity |-> 2, left_handed |-> "on"]],
  [matches |-> {p1, p2}, fields |-> [acceleration |-> "off"]]}

(* One unit of size is 10 pixels.                                            *)
Picture(width, height, hertz) == [width |-> width, height |-> height, refresh |-> hertz * 1000]

(* A wide screen whose modes share a height or a width with one another, and *)
(* the window of a nested backend, which has no modes.                       *)
ManyModes ==
  o1 :> <<Picture(192, 120, 60), Picture(192, 108, 50), Picture(192, 108, 75),
          Picture(192, 144, 90), Picture(128, 72, 100)>> @@
  o2 :> <<>>

For(named, fields) == [matches |-> named, fields |-> fields]

(* Sizes without a rate and with one, a scale, a place, a part of a place.   *)
SizeRules ==
  {For({o1, o2}, [width |-> 192, height |-> 108]), For({o1}, [width |-> 128, height |-> 72]),
   For({o1}, [refresh_rate |-> 60]),
   For({o2}, [scale |-> 2]), For({o1}, [x |-> 100, y |-> 0]), For({o2}, [x |-> 50])}

OtherModes == {Picture(100, 100, 60)}

BlockSymmetry == Permutations(Block)
=============================================================================
