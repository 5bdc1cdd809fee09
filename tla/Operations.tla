------------------------------ MODULE Operations ------------------------------
(***************************************************************************)
(* The grab: src/operation.c, and what starts and ends an operation in     *)
(* cursor.c, keyboard.c, seat.c, toplevel.c and action.c.  Positions on an *)
(* output are left out, so a function that looks at them is an operator    *)
(* from a desk to the set of desks it may lead to.                         *)
(***************************************************************************)
EXTENDS Focus

-----------------------------------------------------------------------------
(* What the pointer is over.                                                 *)

(* Surfaces that take the pointer: shown windows and mapped layers.          *)
Surfaces(d) ==
  {t \in d.shown : d.life[t] = "mapped"} \cup {l \in Layer : d.panel[l] = "mapped"}

(* cursor_focus.  During a drag wlroots keeps the pointer focus for itself.  *)
CursorFocus(d, keyboard) ==
  LET Look(v) == IF keyboard THEN ViewFocus(d, v) ELSE d
      Enter(v) == IF d.operation = "DRAG" THEN Look(v) ELSE [Look(v) EXCEPT !.pointer = v]
  IN
  IF d.grabbed # None THEN {d}
  ELSE {Enter(v) : v \in Surfaces(d)} \cup {[d EXCEPT !.pointer = None]}

-----------------------------------------------------------------------------
(* Start.                                                                    *)

Grab(d, t, operation, server) ==
  [d EXCEPT !.operation = operation,
            !.grabbed = t,
            !.server_inited = server,
            !.due = TRUE]

(* operation_start_move.  Mutation: the toplevel stays where it is.          *)
StartMoveInPlace(d, t, server) ==
  IF d.operation # "NONE" \/ d.state[t] = "FULLSCREEN" THEN d
  ELSE Grab(d, t, "MOVE", server)

StartMove(d, t, server) ==
  IF d.operation # "NONE" \/ d.state[t] = "FULLSCREEN" THEN d
  ELSE LET taken == Grab(d, t, "MOVE", server) IN
       IF d.state[t] = "FLOAT" THEN Unlink(taken, t)
       ELSE Configure(LayoutRemove(taken, t), d.home[t])

StartResize(d, t, server) ==
  IF d.operation # "NONE" \/ d.state[t] # "FLOAT" THEN d
  ELSE Unlink(Grab(d, t, "RESIZE", server), t)

(* operation_start_drag: operation_server_inited is not reset.               *)
StartDrag(d, icon) == [d EXCEPT !.operation = "DRAG", !.icon = icon, !.pointer = None]

-----------------------------------------------------------------------------
(* Stop.                                                                     *)

(* Outputs a window or the cursor may be on; a list with a freed output in   *)
(* it cannot be walked.                                                      *)
Walkable(d) == ToSet(d.outputs) \subseteq d.plugged

(* insert_layout_at_cursor: as master, as any slave, or last.                *)
InsertLayout(d, t) ==
  LET o == IF d.cursor = None THEN FirstOrNone(d.outputs) ELSE d.cursor
      w == d.act[o]
      AsMaster == [d EXCEPT !.master[w] = t, !.slaves[w] = Append(@, d.master[w])]
      AsSlave(i) == [d EXCEPT !.slaves[w] = InsertAt(@, i, t)]
  IN
  IF o \notin d.plugged THEN {Fail(d, "no output")}
  ELSE {Configure(e, w) :
          e \in IF d.master[w] = None THEN {[d EXCEPT !.master[w] = t]}
                ELSE {AsMaster} \cup {AsSlave(i) : i \in 1 .. Len(d.slaves[w]) + 1}}

(* A float goes to the output it is mostly on.                               *)
InsertFloat(d, t, o) == PushFloat([d EXCEPT !.home[t] = d.act[o]], d.act[o], t)

(* stop_shared.                                                              *)
StopShared(d) ==
  CursorFocus([d EXCEPT !.due = TRUE, !.operation = "NONE", !.grabbed = None,
                        !.pointer = None], FALSE)

(* operation_stop_move falls back to the first output.  Mutation: what was   *)
(* made a float meanwhile is tiled again.                                    *)
StopMoveTiled(d) == UNION {StopShared(e) : e \in InsertLayout(d, d.grabbed)}

StopMove(d) ==
  LET t == d.grabbed
      dropped == IF d.state[t] # "FLOAT" THEN InsertLayout(d, t)
                 ELSE IF ~Walkable(d) THEN {Fail(d, "freed output")}
                 ELSE {InsertFloat(d, t, o) : o \in d.plugged}
  IN UNION {StopShared(e) : e \in dropped}

(* operation_stop_resize: the state is asserted.                             *)
StopResize(d) ==
  IF d.state[d.grabbed] # "FLOAT" THEN {Fail(d, "assertion")}
  ELSE IF ~Walkable(d) THEN {Fail(d, "freed output")}
  ELSE UNION {StopShared(InsertFloat(d, d.grabbed, o)) : o \in d.plugged}

(* operation_stop_whatever.  Mutation: a resize is not ended.                *)
StopOnlyMoves(d) == IF d.operation = "MOVE" THEN StopMove(d) ELSE {d}

StopWhatever(d) ==
  CASE d.operation = "MOVE"            -> StopMove(d)
    [] d.operation = "RESIZE"          -> StopResize(d)
    [] d.operation \in {"NONE", "DRAG"} -> {d}

(* operation_tick.                                                           *)
Tick(d) ==
  CASE d.operation = "NONE"              -> d
    [] d.operation \in {"MOVE", "RESIZE"} -> [d EXCEPT !.due = TRUE]
    [] d.operation = "DRAG"              -> IF d.icon THEN d ELSE Fail(d, "no icon")

-----------------------------------------------------------------------------
(* toggle_float.  The grabbed toplevel only changes what it is.              *)
Flipped(st) == CASE st = "TILED" -> "FLOAT" [] st = "FLOAT" -> "TILED" [] OTHER -> st

ToggleFloat(d) ==
  LET t == d.focused
      g == Deref(d, t)
  IN
  IF t = None THEN d
  ELSE IF t = d.grabbed THEN [g EXCEPT !.state[t] = Flipped(@)]
  ELSE SetState(g, t, Flipped(d.state[t]))

-----------------------------------------------------------------------------
(* handle_unmap of a toplevel.                                               *)

(* A link that is in another list leads to the wrong windows.                *)
Misplaced(d, t) ==
  d.state[t] = "TILED" /\ t # d.master[d.home[t]] /\ ~Contains(d.slaves[d.home[t]], t)

(* find_next_to_focus_tiled and find_next_to_focus_float.                    *)
OrElse(t, otherwise) == IF t # None THEN t ELSE otherwise

NextToFocus(d, t) ==
  LET w == d.home[t] IN
  IF d.state[t] = "FLOAT" THEN OrElse(NextOrPrev(d.floats[w], t), d.master[w])
  ELSE IF t = d.master[w] THEN OrElse(LastOrNone(d.slaves[w]), FirstOrNone(d.floats[w]))
  ELSE OrElse(NextOrPrev(d.slaves[w], t), OrElse(d.master[w], FirstOrNone(d.floats[w])))

(* The focus is handed on first.                                             *)
HandOn(d, t) == IF t = d.focused THEN ToplevelFocus(d, NextToFocus(d, t)) ELSE d

LeaveTiled(d, t) == Configure(LayoutRemove(HandOn(d, t), t), d.home[t])

LeaveFloat(d, t) == Unlink(HandOn(d, t), t)

LeaveFullscreen(d, t) ==
  LET left == [d EXCEPT !.fullscreen[d.home[t]] = None] IN
  IF t = d.focused
  THEN OutputFocus([left EXCEPT !.focused = None], d.output[d.home[t]])
  ELSE left

(* transaction_add_ghost puts the one link of t in the list of ghosts.       *)
AddGhost(d, t) ==
  IF Linked(d, t) THEN Fail(d, "linked twice")
  ELSE [d EXCEPT !.ghosts = @ \cup {t}, !.fresh = @ \ {t}, !.due = TRUE]

Left(d, t) ==
  IF t = d.grabbed THEN {OutputFocus(e, e.output[e.active]) : e \in StopWhatever(d)}
  ELSE IF ~Exists(d, d.home[t]) THEN {Fail(d, "freed workspace")}
  ELSE IF Misplaced(d, t) THEN {Fail(d, "wrong list")}
  ELSE CASE d.state[t] = "TILED"      -> {LeaveTiled(d, t)}
         [] d.state[t] = "FLOAT"      -> {LeaveFloat(d, t)}
         [] d.state[t] = "FULLSCREEN" -> {LeaveFullscreen(d, t)}

Unmapped(d, t) == {[AddGhost(e, t) EXCEPT !.life[t] = "unmapped"] : e \in Left(d, t)}

-----------------------------------------------------------------------------
(* perform_transaction: who is shown, on the active output only.             *)

(* The memory of a ghost is kept after its surface is destroyed.  Mutation:  *)
(* windows are shown and hidden only when the workspace changes.             *)
Freed(d, t) == d.life[t] = "absent" /\ t \notin d.ghosts

PerformOnSwitch(d) ==
  LET w == d.active
      old == d.presented[d.output[w]]
      hidden == IF old = None THEN {} ELSE Members(d, old)
      shown == d.shown \cup d.fresh
  IN
  [d EXCEPT !.presented[d.output[w]] = w,
            !.shown = IF old = w THEN shown ELSE (shown \ hidden) \cup Members(d, w),
            !.fresh = {}, !.ghosts = {}, !.due = FALSE]

Perform(d) ==
  LET w == d.active
      old == d.presented[d.output[w]]
      hidden == IF old \in {None, w} THEN {} ELSE Members(d, old)
      dead == {t \in d.ghosts : d.life[t] = "absent"}
  IN
  IF ~Exists(d, w) THEN Fail(d, "freed workspace")
  ELSE IF \E t \in hidden \cup Members(d, w) \cup d.fresh : Freed(d, t)
  THEN Fail(d, "freed toplevel")
  ELSE [d EXCEPT !.presented[d.output[w]] = w,
                 !.shown = (((@ \cup d.fresh) \ hidden) \cup Members(d, w)) \ dead,
                 !.fresh = {}, !.ghosts = {}, !.due = FALSE]
=============================================================================
