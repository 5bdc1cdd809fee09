-------------------------------- MODULE Desktop --------------------------------
(***************************************************************************)
(* The whole desktop: windows in workspaces on outputs, panels, focus and  *)
(* grabs, and every callback that changes them.  One action is one         *)
(* callback of the event loop, or one action of the user (src/action.c),   *)
(* from entry to return.                                                   *)
(*                                                                         *)
(* The transaction engine is reduced to one flag here: something is due,   *)
(* and at some later time Perform shows it.  Transaction.tla has the rest. *)
(***************************************************************************)
EXTENDS Operations

CONSTANTS
  Key,            \* keys bound to start_move and start_resize
  Situation       \* where a behaviour takes place, see below

VARIABLE desk     \* struct state and what it points to

vars == <<desk>>

EventKinds == {
  "float", "fullscreen",              \* windows that are not tiled
  "unmap pointed",                    \* windows go while the pointer is on them
  "client grab", "command grab", "drag", "key", "button", "motion",
  "direction", "change", "move to", "create", "destroy", "remote",   \* workspaces
  "layer", "relayer", "hotplug"}

(* A situation is the kinds of events that happen, the windows there may be, *)
(* the outputs plugged in at start-up in the order of the list, and the      *)
(* workspaces the configuration file makes on each of them.                  *)
ASSUME SituationsAreSituations ==
  \A s \in Situation :
    /\ s.kinds \subseteq EventKinds
    /\ s.windows \subseteq Toplevel
    /\ s.connected \in Seq(Output) /\ s.connected # <<>> /\ IsInjective(s.connected)
    /\ s.spaces \in [ToSet(s.connected) -> Seq(Workspace) \ {<<>>}]
    /\ \A o \in ToSet(s.connected) : IsInjective(s.spaces[o])
    /\ \A o, p \in ToSet(s.connected) :
         o # p => ToSet(s.spaces[o]) \cap ToSet(s.spaces[p]) = {}

(* Kinds of events that take a window out of its place.                      *)
Grabbing == {"client grab", "command grab", "key"}

Happens(kind) == kind \in desk.kinds /\ desk.crashed = "none"

Life == {"absent", "unmapped", "mapped"}

StartUp(s) ==
  LET Of(o) == IF o \in ToSet(s.connected) THEN s.spaces[o] ELSE <<>> IN
  [kinds |-> s.kinds, windows |-> s.windows,
   life |-> [t \in Toplevel |-> "absent"],
   ghosts |-> {},
   state |-> [t \in Toplevel |-> "TILED"],
   prev_state |-> [t \in Toplevel |-> "TILED"],
   home |-> [t \in Toplevel |-> None],
   master |-> [w \in Workspace |-> None],
   slaves |-> [w \in Workspace |-> <<>>],
   floats |-> [w \in Workspace |-> <<>>],
   fullscreen |-> [w \in Workspace |-> None],
   output |-> [w \in Workspace |->
                 LET os == {o \in Output : Contains(Of(o), w)} IN
                 IF os = {} THEN None ELSE CHOOSE o \in os : TRUE],
   spaces |-> [o \in Output |-> Of(o)],
   dummy |-> [o \in Output |-> None],
   act |-> [o \in Output |-> FirstOrNone(Of(o))],
   presented |-> [o \in Output |-> None],
   outputs |-> s.connected,
   plugged |-> ToSet(s.connected),
   active |-> Head(s.spaces[Head(s.connected)]),
   focused |-> None, layer |-> None, exclusive |-> FALSE,
   panel |-> [l \in Layer |-> "absent"],
   on |-> [l \in Layer |-> None],
   want |-> [l \in Layer |-> "none"],
   panels |-> [o \in Output |-> <<>>],
   operation |-> "NONE", grabbed |-> None, server_inited |-> FALSE, icon |-> FALSE,
   key |-> None, held |-> {},
   cursor |-> Head(s.connected), pointer |-> None,
   shown |-> {}, fresh |-> {}, due |-> FALSE, crashed |-> "none"]

Init == desk \in {StartUp(s) : s \in Situation}

-----------------------------------------------------------------------------
(* Windows.                                                                  *)

(* toplevel_create; malloc may return the memory of a freed one.             *)
Create(t) ==
  /\ desk.crashed = "none" /\ t \in desk.windows
  /\ Freed(desk, t)
  /\ desk' = [desk EXCEPT !.life[t] = "unmapped", !.state[t] = "TILED",
                          !.prev_state[t] = "TILED", !.home[t] = None,
                          !.shown = @ \ {t}]

(* handle_map.  The rules decide whether it floats (default_state).          *)
Placed(d, t) ==
  IF d.state[t] = "FLOAT" THEN PushFloat([d EXCEPT !.due = TRUE], d.home[t], t)
  ELSE Configure(LayoutAdd(d, d.home[t], t), d.home[t])

Map(t, st) ==
  LET new == [desk EXCEPT !.life[t] = "mapped", !.state[t] = st, !.home[t] = desk.active,
                          !.shown = @ \ {t}, !.fresh = @ \cup {t}]
  IN
  /\ desk.crashed = "none"
  /\ desk.life[t] = "unmapped"
  /\ st = "TILED" \/ (st = "FLOAT" /\ "float" \in desk.kinds)
  /\ desk' = IF Exists(desk, desk.active) THEN ToplevelFocus(Placed(new, t), t)
             ELSE Fail(desk, "freed workspace")

(* handle_unmap.                                                             *)
Unmap(t) ==
  /\ desk.crashed = "none"
  /\ desk.life[t] = "mapped"
  /\ t = desk.pointer => "unmap pointed" \in desk.kinds
  /\ desk' \in Unmapped(desk, t)

(* handle_destroy; wlroots takes the pointer from a destroyed surface.       *)
Destroy(t) ==
  /\ desk.crashed = "none"
  /\ desk.life[t] = "unmapped"
  /\ desk' = [desk EXCEPT !.life[t] = "absent",
                          !.pointer = IF @ = t THEN None ELSE @,
                          !.shown = IF t \in desk.ghosts THEN @ ELSE @ \ {t},
                          !.fresh = @ \ {t}]

(* handle_request_fullscreen.                                                *)
RequestFullscreen(t, full) ==
  /\ Happens("fullscreen")
  /\ desk.life[t] = "mapped"
  /\ desk' = SetState(desk, t, IF full THEN "FULLSCREEN" ELSE desk.prev_state[t])

(* handle_request_move, handle_request_resize: only under the pointer.       *)
RequestGrab(t) ==
  /\ Happens("client grab")
  /\ desk.life[t] = "mapped" /\ desk.pointer = t
  /\ desk' \in {StartMove(desk, t, FALSE), StartResize(desk, t, FALSE)}

-----------------------------------------------------------------------------
(* Actions of the user.                                                      *)

UserTogglesFloat ==
  /\ Happens("float")
  /\ desk' = ToggleFloat(desk)

UserTogglesFullscreen ==
  LET t == desk.focused IN
  /\ Happens("fullscreen")
  /\ t # None
  /\ desk' = SetState(Deref(desk, t), t,
                      IF desk.state[t] # "FULLSCREEN" THEN "FULLSCREEN"
                      ELSE desk.prev_state[t])

(* focus and move: in the layout, or else to the output in that direction.   *)
(* Only up and down look at the link of the toplevel.                        *)
Sound(d, t, direction) ==
  IF t = None THEN d
  ELSE IF ~Exists(d, d.home[t]) THEN Fail(d, "freed workspace")
  ELSE IF Misplaced(d, t) /\ direction \in {"UP", "DOWN"} THEN Fail(d, "wrong list")
  ELSE Deref(d, t)

InLayout(t, direction) ==
  IF t # None /\ desk.state[t] = "TILED" THEN InDirection(desk, t, direction) ELSE None

(* wlr_output_layout_adjacent_output: another output, or none.               *)
Across(t) ==
  (desk.plugged \cup {None})
    \ {desk.output[IF t = None THEN desk.active ELSE desk.home[t]]}

FocusInDirection(direction, o) ==
  LET t == desk.focused
      d == Sound(desk, t, direction)
      next == InLayout(t, direction)
  IN
  /\ Happens("direction")
  /\ t # None => t # desk.grabbed
  /\ d.crashed = "none" => o \in Across(t)
  /\ desk' = IF d.crashed # "none" THEN d
             ELSE IF next # None THEN ToplevelFocus(d, next)
             ELSE IF o # None THEN OutputFocus(d, o) ELSE d

MoveInDirection(direction, o) ==
  LET t == desk.focused
      d == Sound(desk, t, direction)
      next == InLayout(t, direction)
  IN
  /\ Happens("direction")
  /\ t \notin {None, desk.grabbed}
  /\ d.crashed = "none" => o \in Across(t)
  /\ desk' = IF d.crashed # "none" THEN d
             ELSE IF next # None THEN Configure(SwapLayout(d, t, next), d.home[t])
             ELSE IF o # None THEN MoveToWorkspace(d, t, d.act[o]) ELSE d

(* workspace_find_by_idx walks the outputs in front of the one it is on.     *)
Found(d, w) ==
  LET before == SubSeq(d.outputs, 1, IndexOf(d.outputs, d.output[w]) - 1) IN
  IF ToSet(before) \subseteq d.plugged THEN d ELSE Fail(d, "freed output")

CreateWorkspace(o, w) ==
  /\ Happens("create")
  /\ o \in desk.plugged
  /\ ~Exists(desk, w)
  /\ desk' = WorkspaceCreate(desk, o, w)

DestroyWorkspace(w, n) ==
  /\ Happens("destroy")
  /\ Exists(desk, w)
  /\ \E d \in StopWhatever(Found(desk, w)) :
       NextWorkspace(d, w, n) /\ desk' = WorkspaceDestroy(d, w, n)

ChangeWorkspace(w) ==
  /\ Happens("change")
  /\ Exists(desk, w)
  /\ desk' \in {SetActive(d, w) : d \in StopWhatever(Found(desk, w))}

(* The focus is kept unless the workspace has a fullscreen toplevel.         *)
MoveFocusedToWorkspace(w) ==
  LET t == desk.focused
      d == MoveToWorkspace(Found(Deref(desk, t), w), t, w)
  IN
  /\ Happens("move to")
  /\ t # None /\ Exists(desk, w)
  /\ desk' = IF d.fullscreen[w] = None THEN SetActiveKeepingFocus(d, w)
             ELSE SetActive(d, w)

(* The same by the ext-workspace protocol (handle_request), which does not   *)
(* end an operation first.                                                   *)
RemoteCreate(o, w) ==
  /\ Happens("remote")
  /\ o \in desk.plugged /\ ~Exists(desk, w)
  /\ desk' = WorkspaceCreate(desk, o, w)

RemoteActivate(w) ==
  /\ Happens("remote")
  /\ Exists(desk, w)
  /\ desk' = SetActive(desk, w)

RemoteRemove(w, n) ==
  /\ Happens("remote")
  /\ Exists(desk, w) /\ NextWorkspace(desk, w, n)
  /\ desk' = WorkspaceDestroy(desk, w, n)

(* start_move and start_resize take the toplevel under the pointer.          *)
StartGrab(d) ==
  IF d.pointer \notin Toplevel THEN {d}
  ELSE {StartMove(d, d.pointer, TRUE), StartResize(d, d.pointer, TRUE)}

CommandGrab ==
  /\ Happens("command grab")
  /\ desk' \in StartGrab(desk)

-----------------------------------------------------------------------------
(* Keyboard and pointer.                                                     *)

(* handle_comp_keybinds remembers the key, whether or not anything started.  *)
KeyPress(k) ==
  /\ Happens("key")
  /\ k \notin desk.held
  /\ desk' \in {[d EXCEPT !.key = k, !.held = @ \cup {k}] : d \in StartGrab(desk)}

(* try_stop_operation.                                                       *)
KeyRelease(k) ==
  LET d == [desk EXCEPT !.held = @ \ {k}] IN
  /\ Happens("key")
  /\ k \in desk.held
  /\ IF desk.operation # "NONE" /\ desk.server_inited /\ desk.key = k
     THEN desk' \in {[e EXCEPT !.key = None] : e \in StopWhatever(d)}
     ELSE desk' = d

(* handle_button raises a float under the pointer.                           *)
Raised(d) ==
  IF d.pointer \in Toplevel \ {d.grabbed} /\ d.state[d.pointer] = "FLOAT"
  THEN Raise(d, d.pointer) ELSE d

Press ==
  /\ Happens("button")
  /\ "button" \notin desk.held
  /\ desk' = [Raised(desk) EXCEPT !.held = @ \cup {"button"}]

(* wlroots ends a drag when it is told that no button is pressed any more;   *)
(* then handle_destroy_drag runs.                                            *)
Release ==
  LET d == [Raised(desk) EXCEPT !.held = @ \ {"button"}] IN
  /\ Happens("button")
  /\ "button" \in desk.held
  /\ desk' \in IF desk.operation # "NONE" /\ desk.server_inited THEN StopWhatever(d)
                ELSE IF desk.operation = "DRAG"
                THEN CursorFocus([d EXCEPT !.operation = "NONE"], TRUE)
                ELSE {d}

(* handle_request_drag, then operation_start_drag; only with a button held.  *)
Drag(icon) ==
  /\ Happens("drag")
  /\ desk.operation = "NONE" /\ "button" \in desk.held
  /\ desk' = StartDrag(desk, icon)

(* handle_motion_shared.                                                     *)
Motion(o) ==
  LET d == [desk EXCEPT !.cursor = o, !.active = desk.act[o]]
      seen == Exists(d, d.active) /\ d.presented[d.output[d.active]] = d.active
  IN
  /\ Happens("motion")
  /\ o \in desk.plugged
  /\ desk' \in {Tick(e) : e \in IF seen THEN CursorFocus(d, TRUE) ELSE {d}}

-----------------------------------------------------------------------------
(* Panels (layer.c).                                                         *)

(* layers_arrange_all lays out every workspace of every output.              *)
ArrangeAll(d, os) ==
  LET ws == UNION {ToSet(d.spaces[o]) : o \in os}
      broken == {w \in ws : Configure(d, w).crashed # d.crashed}
  IN
  IF broken # {} THEN Configure(d, CHOOSE w \in broken : TRUE)
  ELSE [d EXCEPT !.due = @ \/ \E w \in ws : d.master[w] # None]

(* layers_arrange.                                                           *)
Arrange(d, o) ==
  IF o \notin d.plugged THEN Fail(d, "freed output") ELSE ArrangeAll(d, {o})

(* layout_reconfigure_all and layers_arrange_all: new gaps, borders, ratio,  *)
(* or a mode that an output was asked for.                                   *)
Rearrange ==
  /\ Happens("relayer")
  /\ desk' = IF ~Walkable(desk) THEN Fail(desk, "freed output")
             ELSE ArrangeAll(desk, desk.plugged)

LayerCreate(l, o) ==
  /\ Happens("layer")
  /\ desk.panel[l] = "absent" /\ o \in desk.plugged
  /\ desk' = [desk EXCEPT !.panel[l] = "created", !.on[l] = o]

(* Where a panel is among the high ones of its output (overlay, then top);   *)
(* a low one is not asked for the focus.                                     *)
Stacked(s, l) == {s} \cup {InsertAt(s, i, l) : i \in 1 .. Len(s) + 1}

(* handle_map.                                                               *)
LayerMap(l, want) ==
  LET o == desk.on[l]
      d == [desk EXCEPT !.panel[l] = "mapped", !.want[l] = want]
  IN
  /\ Happens("layer")
  /\ desk.panel[l] = "created"
  /\ IF o \notin desk.plugged THEN desk' = Fail(desk, "freed output")
     ELSE \E s \in Stacked(desk.panels[o], l) :
            desk' = LayerFocus(Arrange([d EXCEPT !.panels[o] = s], o), l)

(* handle_commit: another layer, or other wishes about the keyboard, which   *)
(* nobody looks at.                                                          *)
LayerCommit(l, want) ==
  LET o == desk.on[l] IN
  /\ Happens("relayer")
  /\ desk.panel[l] = "mapped"
  /\ \E s \in Stacked(RemoveFirst(desk.panels[o], l), l) :
       desk' = Arrange([desk EXCEPT !.want[l] = want, !.panels[o] = s], o)

(* handle_unmap.                                                            *)
LayerGone(d, l) ==
  IF l = d.layer THEN OutputFocus([d EXCEPT !.exclusive = FALSE], d.on[l]) ELSE d

(* A mapped panel has an output the program knows: output_create enters it   *)
(* in wlr_output->data for good, and Unplug takes its mapped panels away.    *)
(* So the branch for an output that is not there (layer.c:127) is not taken. *)
LayerUnmap(l) ==
  LET o == desk.on[l]
      d == [desk EXCEPT !.panel[l] = "created", !.panels[o] = RemoveFirst(@, l)]
  IN
  /\ Happens("layer")
  /\ desk.panel[l] = "mapped"
  /\ desk' = Arrange(LayerGone(d, l), o)

(* handle_destroy: neither focused_layer nor is_exclusive is looked at.      *)
LayerDestroy(l) ==
  /\ Happens("layer")
  /\ desk.panel[l] = "created"
  /\ desk' = [desk EXCEPT !.panel[l] = "absent", !.on[l] = None,
                          !.pointer = IF @ = l THEN None ELSE @]

-----------------------------------------------------------------------------
(* Outputs (output.c).                                                       *)

(* output_create.  An output that comes back is another one.                 *)
Plug(o, w) ==
  /\ Happens("hotplug")
  /\ o \notin ToSet(desk.outputs) /\ ~Exists(desk, w)
  /\ desk' = WithDummy([desk EXCEPT !.outputs = <<o>> \o @, !.plugged = @ \cup {o}], o, w)

(* handle_destroy; the output stays in the list it is in.                    *)
Unplug(o, to) ==
  LET d == UnplugAll(desk, desk.spaces[o])
      gone == {l \in Layer : d.on[l] = o /\ d.panel[l] = "mapped"}
  IN
  /\ Happens("hotplug")
  /\ o \in desk.plugged
  /\ to \in IF desk.cursor = o THEN (desk.plugged \ {o}) \cup {None} ELSE {desk.cursor}
  /\ desk' = [d EXCEPT !.plugged = @ \ {o},
                       !.panel = [l \in Layer |-> IF l \in gone THEN "absent" ELSE @[l]],
                       !.panels[o] = <<>>,
                       !.cursor = to,
                       !.pointer = IF @ \in gone THEN None ELSE @]

-----------------------------------------------------------------------------
PerformTransaction ==
  /\ desk.crashed = "none" /\ desk.due
  /\ desk' = Perform(desk)

(* After a crash nothing is left to say.                                     *)
Halted == desk.crashed # "none" /\ UNCHANGED desk

Windowed ==
  \E t \in Toplevel :
    \/ Create(t) \/ Unmap(t) \/ Destroy(t) \/ RequestGrab(t)
    \/ \E st \in State : Map(t, st)
    \/ \E full \in BOOLEAN : RequestFullscreen(t, full)

Commanded ==
  \/ UserTogglesFloat \/ UserTogglesFullscreen \/ CommandGrab
  \/ \E direction \in Direction, o \in Output \cup {None} :
       FocusInDirection(direction, o) \/ MoveInDirection(direction, o)
  \/ \E w \in Workspace :
       \/ ChangeWorkspace(w) \/ MoveFocusedToWorkspace(w) \/ RemoteActivate(w)
       \/ \E o \in Output : CreateWorkspace(o, w) \/ RemoteCreate(o, w)
       \/ \E n \in Workspace : DestroyWorkspace(w, n) \/ RemoteRemove(w, n)

Input ==
  \/ Press \/ Release
  \/ \E k \in Key : KeyPress(k) \/ KeyRelease(k)
  \/ \E icon \in BOOLEAN : Drag(icon)
  \/ \E o \in Output : Motion(o)

Surroundings ==
  \/ Rearrange
  \/ \E l \in Layer :
       \/ LayerUnmap(l) \/ LayerDestroy(l)
       \/ \E o \in Output : LayerCreate(l, o)
       \/ \E want \in {"none", "on_demand", "exclusive"} : LayerMap(l, want) \/ LayerCommit(l, want)
  \/ \E o \in Output :
       \/ \E w \in Workspace : Plug(o, w)
       \/ \E to \in Output \cup {None} : Unplug(o, to)

Next == Windowed \/ Commanded \/ Input \/ Surroundings \/ PerformTransaction \/ Halted

Spec == Init /\ [][Next]_vars

-----------------------------------------------------------------------------
(* Properties.  They are about a desk nothing has crashed yet.               *)

Alive == desk.crashed = "none"

Mapped == {t \in Toplevel : desk.life[t] = "mapped"}

(* Every field has values of its type.                                       *)
TypeOK ==
  /\ desk.life \in [Toplevel -> Life]
  /\ desk.state \in [Toplevel -> State] /\ desk.prev_state \in [Toplevel -> {"TILED", "FLOAT"}]
  /\ desk.home \in [Toplevel -> Workspace \cup {None}]
  /\ {desk.master, desk.fullscreen} \subseteq [Workspace -> Toplevel \cup {None}]
  /\ {desk.slaves, desk.floats} \subseteq [Workspace -> Seq(Toplevel)]
  /\ desk.output \in [Workspace -> Output \cup {None}]
  /\ desk.spaces \in [Output -> Seq(Workspace)]
  /\ {desk.dummy, desk.act, desk.presented} \subseteq [Output -> Workspace \cup {None}]
  /\ desk.outputs \in Seq(Output) /\ desk.plugged \subseteq Output
  /\ desk.active \in Workspace
  /\ {desk.focused, desk.grabbed} \subseteq Toplevel \cup {None}
  /\ desk.layer \in Layer \cup {None}
  /\ desk.panel \in [Layer -> {"absent", "created", "mapped"}]
  /\ desk.on \in [Layer -> Output \cup {None}]
  /\ desk.want \in [Layer -> {"none", "on_demand", "exclusive"}]
  /\ desk.panels \in [Output -> Seq(Layer)]
  /\ desk.operation \in {"NONE", "MOVE", "RESIZE", "DRAG"}
  /\ {desk.exclusive, desk.server_inited, desk.icon, desk.due} \subseteq BOOLEAN
  /\ desk.key \in Key \cup {None} /\ desk.held \subseteq Key \cup {"button"}
  /\ desk.cursor \in Output \cup {None}
  /\ desk.pointer \in Toplevel \cup Layer \cup {None}
  /\ desk.ghosts \cup desk.shown \cup desk.fresh \subseteq Toplevel

(* Where t is found as a window of that state.                               *)
Spots(t, st) ==
  {w \in Workspace :
     \/ st = "TILED" /\ t \in ToSet(desk.slaves[w]) \cup {desk.master[w]}
     \/ st = "FLOAT" /\ t \in ToSet(desk.floats[w])
     \/ st = "FULLSCREEN" /\ t = desk.fullscreen[w]}

(* Every mapped window that nobody holds is in one workspace, in the one     *)
(* place that its state says, and there once: whatever grabs, drops, state   *)
(* changes and unmaps went before, no handler loses it or enters it twice.   *)
OnePlace ==
  Alive => \A t \in Mapped \ {desk.grabbed} :
    /\ \A st \in State \ {desk.state[t]} : Spots(t, st) = {}
    /\ Cardinality(Spots(t, desk.state[t])) = 1
    /\ \A w \in Workspace :
         /\ IsInjective(desk.slaves[w]) /\ IsInjective(desk.floats[w])
         /\ ~Contains(desk.slaves[w], desk.master[w])

(* Every mapped window is in the workspace it points to, whichever was       *)
(* created, destroyed, evacuated or moved to.  (A tiled window that is       *)
(* dropped is not: insert_layout_at_cursor leaves toplevel->workspace alone.) *)
AtHome ==
  Alive /\ desk.kinds \cap Grabbing = {} => \A t \in Mapped \ {desk.grabbed} :
    \A st \in State : Spots(t, st) \subseteq {desk.home[t]}

(* A window is held exactly while an operation moves or resizes it, and is   *)
(* in no list then: nothing lays it out, hides it or moves it elsewhere.     *)
HeldIsNowhere ==
  Alive =>
    /\ desk.grabbed # None <=> desk.operation \in {"MOVE", "RESIZE"}
    /\ desk.grabbed # None => \A st \in State : Spots(desk.grabbed, st) = {}

(* The keyboard is where is_exclusive says: with a panel that is mapped, and *)
(* no toplevel believes to have it.                                          *)
ExclusiveKeepsKeyboard ==
  Alive /\ desk.exclusive =>
    /\ desk.focused = None
    /\ desk.layer # None /\ desk.panel[desk.layer] = "mapped"

(* state->active_workspace exists, and its output agrees that it is the      *)
(* active one; so does every output that is plugged in about its own.        *)
ActiveAgrees ==
  Alive =>
    /\ Exists(desk, desk.active) /\ desk.act[desk.output[desk.active]] = desk.active
    /\ \A o \in desk.plugged :
         Contains(desk.spaces[o], desk.act[o]) /\ IsInjective(desk.spaces[o])
    /\ \A o \in Output, w \in Workspace : Contains(desk.spaces[o], w) <=> desk.output[w] = o

(* A dummy workspace serves only while its output has no other.              *)
DummyAlone ==
  Alive => \A o \in desk.plugged : desk.dummy[o] # None => desk.spaces[o] = <<desk.dummy[o]>>

(* On one output: when no transaction is due, what is presented is what is   *)
(* active (or nothing was ever presented).  With several outputs a           *)
(* transaction presents one of them.                                         *)
OneOutput == Len(desk.outputs) = 1 /\ "hotplug" \notin desk.kinds

PresentedIsActive ==
  Alive /\ OneOutput /\ ~desk.due => \A o \in desk.plugged : desk.presented[o] \in {None, desk.act[o]}

(* After a workspace or a monitor went away, every window is in a workspace  *)
(* of a monitor that is there.  (One that is held meanwhile is forgotten.)   *)
NobodyStranded ==
  Alive /\ desk.plugged # {} /\ desk.kinds \cap Grabbing = {} => \A t \in Mapped : desk.output[desk.home[t]] \in desk.plugged

(* What a key started ends when no key is held any more.  (A command, too,   *)
(* starts a grab of the server, and leaves its end to the user.)             *)
KeyGrabEnds ==
  Alive /\ "command grab" \notin desk.kinds /\ desk.held = {} /\ desk.server_inited => desk.operation \notin {"MOVE", "RESIZE"}

(* On one output: when no transaction is due, every window in the layout of  *)
(* the active workspace is shown, wherever it was when that became active.   *)
ActiveIsShown ==
  Alive /\ OneOutput /\ ~desk.due =>
    (ToSet(desk.slaves[desk.active]) \cup {desk.master[desk.active]}) \ {None} \subseteq desk.shown

-----------------------------------------------------------------------------
(* What the comments of the code say, and the code does not do.              *)

(* A window that unmaps is kept as a ghost until the transaction is done,    *)
(* and is then destroyed for good (state.h:70): unless it is mapped again,   *)
(* no workspace has it, whatever was going on when it went.                  *)
GhostsAreApart ==
  Alive => \A t \in desk.ghosts \ Mapped : \A st \in State : Spots(t, st) = {}
=============================================================================
