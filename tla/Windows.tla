-------------------------------- MODULE Windows --------------------------------
(***************************************************************************)
(* Where windows are: the lists and pointers of struct workspace and       *)
(* struct toplevel, and the functions of src/layout.c, src/toplevel.c and  *)
(* src/action.c that move a window from one to another.                    *)
(*                                                                         *)
(* The compositor passes its one struct state to every function and a      *)
(* handler calls many of them in turn, so a desk is a record of the fields *)
(* of that struct (and of what it points to), and a function of the code   *)
(* is an operator from desk to desk.  Desktop.tla makes one action of each *)
(* handler.                                                                *)
(*                                                                         *)
(* Sizes and positions are left out (Transaction.tla and Layout.tla have   *)
(* them): a request for a new size only makes a transaction due.  Freed    *)
(* memory, broken links and failed assertions set "crashed", after which   *)
(* nothing more is said.                                                   *)
(***************************************************************************)
EXTENDS Integers, SequencesExt

CONSTANTS
  Toplevel, Workspace, Output, Layer,   \* names of structs; a freed one may be used again
  None                                  \* the NULL pointer

ASSUME NoneIsNoName == None \notin Toplevel \cup Workspace \cup Output \cup Layer
ASSUME NoWindowIsAPanel == Toplevel \cap Layer = {}

State == {"TILED", "FLOAT", "FULLSCREEN"}

Fail(d, why) == IF d.crashed = "none" THEN [d EXCEPT !.crashed = why] ELSE d

(* A workspace that was freed belongs to no output.                          *)
Exists(d, w) == w # None /\ d.output[w] # None

-----------------------------------------------------------------------------
(* Lists.  The head of a wl_list is the first element of the sequence.       *)

IndexOf(s, x) == SelectInSeq(s, LAMBDA y : y = x)

(* wl_list_next_or_prev.                                                     *)
NextOrPrev(s, x) ==
  LET i == IndexOf(s, x) IN
  IF i = 0 THEN None
  ELSE IF i < Len(s) THEN s[i + 1] ELSE IF i > 1 THEN s[i - 1] ELSE None

FirstOrNone(s) == IF s = <<>> THEN None ELSE Head(s)

LastOrNone(s) == IF s = <<>> THEN None ELSE Last(s)

(* The one link of a toplevel is in a list of floats, of slaves or of ghosts.*)
LinkedIn(d, t) ==
  {w \in Workspace : Contains(d.floats[w], t) \/ Contains(d.slaves[w], t)}

Linked(d, t) == t \in d.ghosts \/ LinkedIn(d, t) # {}

(* wl_list_remove, from whatever list it is in: a link that was removed      *)
(* before is NULL.                                                           *)
Unlink(d, t) ==
  IF ~Linked(d, t) THEN Fail(d, "unlinked")
  ELSE [d EXCEPT !.floats = [w \in Workspace |-> RemoveFirst(d.floats[w], t)],
                 !.slaves = [w \in Workspace |-> RemoveFirst(d.slaves[w], t)],
                 !.ghosts = @ \ {t}]

(* wl_list_insert at the front of the floats.                                *)
PushFloat(d, w, t) ==
  IF Linked(d, t) THEN Fail(d, "linked twice")
  ELSE [d EXCEPT !.floats[w] = <<t>> \o @]

(* Whom workspace_show_toplevels and update_all_borders find.                *)
Members(d, w) ==
  (ToSet(d.floats[w]) \cup ToSet(d.slaves[w]) \cup {d.master[w], d.fullscreen[w]})
    \ {None}

-----------------------------------------------------------------------------
(* The layout.                                                               *)

LayoutAdd(d, w, t) ==
  IF d.master[w] = None THEN [d EXCEPT !.master[w] = t]
  ELSE IF Linked(d, t) THEN Fail(d, "linked twice")
  ELSE [d EXCEPT !.slaves[w] = Append(@, t)]

(* The last slave follows the master.                                       *)
Promote(d, w) ==
  [d EXCEPT !.master[w] = LastOrNone(d.slaves[w]),
            !.slaves[w] = IF @ = <<>> THEN @ ELSE Front(@)]

LayoutRemove(d, t) ==
  IF d.master[d.home[t]] = t THEN Promote(d, d.home[t]) ELSE Unlink(d, t)

(* layout_configure: the windows of the layout are asked for new sizes.      *)
Configure(d, w) ==
  LET tiles == ToSet(d.slaves[w]) \cup {d.master[w]} IN
  IF d.master[w] = None THEN d
  ELSE IF \E t \in tiles : d.life[t] # "mapped" THEN Fail(d, "configured unmapped")
  ELSE IF \E t \in tiles : ~Exists(d, d.home[t]) THEN Fail(d, "freed workspace")
  ELSE [d EXCEPT !.due = TRUE]

(* find_in_direction, for a tiled toplevel.                                  *)
Direction == {"UP", "DOWN", "LEFT", "RIGHT"}

InDirection(d, t, direction) ==
  LET w == d.home[t]
      s == d.slaves[w]
      i == IndexOf(s, t)
  IN
  IF t = d.master[w]
  THEN IF direction = "RIGHT" THEN LastOrNone(s) ELSE None
  ELSE CASE direction = "UP"    -> IF i > 1 THEN s[i - 1] ELSE None
         [] direction = "DOWN"  -> IF i < Len(s) THEN s[i + 1] ELSE None
         [] direction = "LEFT"  -> d.master[w]
         [] direction = "RIGHT" -> None

(* swap_layout: both take the place of the other.                            *)
SwapLayout(d, a, b) ==
  LET w == d.home[a]
      Other(t) == IF t = a THEN b ELSE IF t = b THEN a ELSE t
  IN
  [d EXCEPT !.master[w] = Other(@),
            !.slaves[w] = [i \in DOMAIN d.slaves[w] |-> Other(d.slaves[w][i])]]

-----------------------------------------------------------------------------
(* The state of a window.                                                    *)

(* What set_tiled, set_float and set_fullscreen do first.                    *)
LeaveState(d, t) ==
  LET w == d.home[t] IN
  CASE d.state[t] = "TILED"      -> Configure(LayoutRemove(d, t), w)
    [] d.state[t] = "FLOAT"      -> Unlink(d, t)
    [] d.state[t] = "FULLSCREEN" -> [d EXCEPT !.fullscreen[w] = None]

SetTiled(d, t) ==
  Configure(LayoutAdd([LeaveState(d, t) EXCEPT !.state[t] = "TILED"], d.home[t], t),
            d.home[t])

(* A size is sent to t alone.                                                *)
Ask(d, t) ==
  IF d.life[t] # "mapped" THEN Fail(d, "configured unmapped") ELSE [d EXCEPT !.due = TRUE]

SetFloat(d, t) ==
  PushFloat([Ask(LeaveState(d, t), t) EXCEPT !.state[t] = "FLOAT"], d.home[t], t)

(* Mutation: prev_state is noted too late.                                   *)
SetFullscreenFirst(d, t) ==
  IF d.fullscreen[d.home[t]] # None THEN d
  ELSE [Ask(LeaveState(d, t), t) EXCEPT !.prev_state[t] = "FULLSCREEN",
                                        !.fullscreen[d.home[t]] = t,
                                        !.state[t] = "FULLSCREEN"]

SetFullscreen(d, t) ==
  IF d.fullscreen[d.home[t]] # None THEN d
  ELSE [Ask(LeaveState(d, t), t) EXCEPT !.prev_state[t] = d.state[t],
                                        !.fullscreen[d.home[t]] = t,
                                        !.state[t] = "FULLSCREEN"]

(* toplevel_set_state.                                                       *)
SetState(d, t, st) ==
  IF t = d.grabbed \/ d.state[t] = st THEN d
  ELSE IF ~Exists(d, d.home[t]) THEN Fail(d, "freed workspace")
  ELSE CASE st = "TILED"      -> SetTiled(d, t)
         [] st = "FLOAT"      -> SetFloat(d, t)
         [] st = "FULLSCREEN" -> SetFullscreen(d, t)

(* toplevel_move_to_workspace.  The layouts are configured with the new home *)
(* in place; a float is asked for a place only on another output.  Mutation: *)
(* a floating toplevel stays in the list it is in.                           *)
MoveToWorkspaceKeepingLink(d, t, w) ==
  LET old == d.home[t] IN
  IF t = d.grabbed \/ old = w THEN d
  ELSE IF ~Exists(d, old) THEN Fail(d, "freed workspace")
  ELSE CASE d.state[t] = "TILED" ->
              Configure(Configure([LayoutAdd(LayoutRemove(d, t), w, t)
                                     EXCEPT !.home[t] = w], old), w)
         [] d.state[t] = "FLOAT" ->
              [d EXCEPT !.home[t] = w, !.due = @ \/ d.output[old] # d.output[w]]
         [] d.state[t] = "FULLSCREEN" ->
              [d EXCEPT !.fullscreen[old] = None, !.fullscreen[w] = t,
                        !.home[t] = w, !.due = TRUE]

MoveToWorkspace(d, t, w) ==
  LET old == d.home[t] IN
  IF t = d.grabbed \/ old = w THEN d
  ELSE IF ~Exists(d, old) THEN Fail(d, "freed workspace")
  ELSE CASE d.state[t] = "TILED" ->
              Configure(Configure([LayoutAdd(LayoutRemove(d, t), w, t)
                                     EXCEPT !.home[t] = w], old), w)
         [] d.state[t] = "FLOAT" ->
              PushFloat([Unlink(d, t)
                           EXCEPT !.home[t] = w,
                                  !.due = @ \/ d.output[old] # d.output[w]], w, t)
         [] d.state[t] = "FULLSCREEN" ->
              [d EXCEPT !.fullscreen[old] = None, !.fullscreen[w] = t,
                        !.home[t] = w, !.due = TRUE]

(* toplevel_raise.                                                           *)
Raise(d, t) == PushFloat(Unlink(d, t), d.home[t], t)
=============================================================================
