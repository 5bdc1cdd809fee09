--------------------------------- MODULE Focus ---------------------------------
(***************************************************************************)
(* Who has the keyboard and which workspace is active: toplevel_focus,     *)
(* layer_focus and output_focus call each other, and creating, destroying  *)
(* and activating workspaces calls them.                                   *)
(***************************************************************************)
EXTENDS Windows

(* A pointer to a toplevel is used: its surface must still be there.         *)
Deref(d, t) ==
  IF t # None /\ d.life[t] = "absent" THEN Fail(d, "freed toplevel") ELSE d

(* workspace_set_active(.., keep_focus = true), without its early return.    *)
(* Mutations: its output is not told; no transaction is scheduled.           *)
MakeActiveAlone(d, w) ==
  IF ~Exists(d, w) \/ ~Exists(d, d.active) THEN Fail(d, "freed workspace")
  ELSE [d EXCEPT !.active = w, !.due = TRUE]

MakeActiveUnscheduled(d, w) ==
  IF ~Exists(d, w) \/ ~Exists(d, d.active) THEN Fail(d, "freed workspace")
  ELSE [d EXCEPT !.active = w, !.act[d.output[w]] = w]

MakeActive(d, w) ==
  IF ~Exists(d, w) \/ ~Exists(d, d.active) THEN Fail(d, "freed workspace")
  ELSE [d EXCEPT !.active = w, !.act[d.output[w]] = w, !.due = TRUE]

SetActiveKeepingFocus(d, w) == IF d.active = w THEN d ELSE MakeActive(d, w)

(* The early returns of toplevel_focus.  Mutation: none for an exclusive     *)
(* layer.                                                                    *)
RefusedButForLayers(d, t) ==
  \/ t = d.focused
  \/ d.grabbed # None /\ t # d.grabbed
  \/ /\ t # None
     /\ Exists(d, d.home[t])
     /\ d.fullscreen[d.home[t]] \notin {None, t}

Refused(d, t) ==
  \/ d.exclusive
  \/ t = d.focused
  \/ d.grabbed # None /\ t # d.grabbed
  \/ /\ t # None
     /\ Exists(d, d.home[t])
     /\ d.fullscreen[d.home[t]] \notin {None, t}

(* toplevel_focus; it never forgets a focused layer.                         *)
ToplevelFocus(d, t) ==
  LET f == [Deref(Deref(d, d.focused), t) EXCEPT !.focused = t] IN
  IF Refused(d, t) THEN d
  ELSE IF t = None THEN f
  ELSE IF ~Exists(d, d.home[t]) THEN Fail(d, "freed workspace")
  ELSE SetActiveKeepingFocus(f, d.home[t])

(* layer_focus with view_unfocus.                                            *)
LayerFocus(d, l) ==
  IF d.want[l] = "none" \/ (d.want[l] = "on_demand" /\ d.exclusive) THEN d
  ELSE [Deref(d, d.focused) EXCEPT !.focused = None,
                                   !.layer = l,
                                   !.exclusive = d.want[l] = "exclusive"]

ViewFocus(d, v) == IF v \in Layer THEN LayerFocus(d, v) ELSE ToplevelFocus(d, v)

(* output_focus: a high layer that wants the keyboard for itself, or else    *)
(* the top most toplevel.                                                    *)
TopMost(d, w) ==
  IF d.fullscreen[w] # None THEN d.fullscreen[w]
  ELSE IF d.floats[w] # <<>> THEN Head(d.floats[w])
  ELSE d.master[w]

OutputFocus(d, o) ==
  LET greedy == SelectInSeq(d.panels[o], LAMBDA l : d.want[l] = "exclusive")
      w == d.act[o]
      active == [d EXCEPT !.active = w]
  IN
  IF o \notin d.plugged THEN Fail(d, "freed output")
  ELSE IF greedy # 0 THEN LayerFocus(d, d.panels[o][greedy])
  ELSE IF TopMost(d, w) = None THEN active
  ELSE ToplevelFocus(active, TopMost(d, w))

SetActive(d, w) ==
  IF d.active = w THEN d ELSE OutputFocus(MakeActive(d, w), d.output[w])

-----------------------------------------------------------------------------
(* Workspaces.                                                               *)

(* workspace_create: the dummy of the output becomes the new workspace.      *)
(* Mutation: it stays beside it.                                             *)
WorkspaceCreateBeside(d, o, w) ==
  [d EXCEPT !.spaces[o] = <<w>> \o @,
            !.output[w] = o,
            !.act[o] = IF @ = None THEN w ELSE @,
            !.active = IF @ = None THEN w ELSE @]

WorkspaceCreate(d, o, w) ==
  IF d.dummy[o] # None THEN [d EXCEPT !.dummy[o] = None]
  ELSE [d EXCEPT !.spaces[o] = <<w>> \o @,
                 !.output[w] = o,
                 !.act[o] = IF @ = None THEN w ELSE @,
                 !.active = IF @ = None THEN w ELSE @]

(* evacuate.  The floats are moved one by one to the front of the next       *)
(* workspace, the tiled toplevels in the order they become master.  One that *)
(* believes to be elsewhere is not found, or for ever.                       *)
Evacuate(d, w, n) ==
  LET leaving == IF d.master[w] = None THEN <<>>
                 ELSE <<d.master[w]>> \o Reverse(d.slaves[w])
      tiles == IF d.master[n] = None THEN leaving
               ELSE <<d.master[n]>> \o d.slaves[n] \o leaving
      full == d.fullscreen[w]
      Over(f, new) == [f EXCEPT ![w] = None, ![n] = new]
      moved == [d EXCEPT
        !.home = [t \in Toplevel |-> IF t \in Members(d, w) THEN n ELSE d.home[t]],
        !.fullscreen = Over(d.fullscreen, IF full = None THEN d.fullscreen[n] ELSE full),
        !.floats = [d.floats EXCEPT ![w] = <<>>, ![n] = Reverse(d.floats[w]) \o d.floats[n]],
        !.master = Over(d.master, FirstOrNone(tiles)),
        !.slaves = [d.slaves EXCEPT ![w] = <<>>, ![n] = IF tiles = <<>> THEN <<>> ELSE Tail(tiles)],
        !.due = @ \/ full # None \/ (d.floats[w] # <<>> /\ d.output[w] # d.output[n])]
  IN
  IF leaving = <<>> THEN moved
  ELSE IF \E t \in ToSet(leaving) : d.home[t] # w THEN Fail(d, "wrong list")
  ELSE Configure(moved, n)

(* The end of workspace_destroy.                                             *)
FreeWorkspace(d, w) ==
  LET o == d.output[w] IN
  [d EXCEPT !.spaces[o] = RemoveFirst(@, w),
            !.output[w] = None,
            !.presented[o] = IF @ = w THEN None ELSE @,
            !.master[w] = None, !.slaves[w] = <<>>, !.floats[w] = <<>>,
            !.fullscreen[w] = None]

(* workspace_destroy on an output that stays; n is the next workspace, an    *)
(* old one or a new dummy.  When the workspace is the dummy itself, it is    *)
(* its own next one: the loop of evacuate does not end, or it is freed while *)
(* it is active.                                                             *)
NextWorkspace(d, w, n) ==
  LET old == NextOrPrev(d.spaces[d.output[w]], w) IN
  IF old # None THEN n = old
  ELSE IF d.dummy[d.output[w]] # None THEN n = w
  ELSE ~Exists(d, n)

WithDummy(d, o, n) ==
  IF Exists(d, n) THEN d ELSE [WorkspaceCreate(d, o, n) EXCEPT !.dummy[o] = n]

WorkspaceDestroy(d, w, n) ==
  LET o == d.output[w]
      ready == WithDummy(d, o, n)
      empty == Evacuate([ready EXCEPT !.act[o] = IF @ = w THEN n ELSE @], w, n)
  IN
  IF n = w THEN Fail(d, IF d.master[w] # None THEN "endless loop" ELSE "freed workspace")
  ELSE FreeWorkspace(IF empty.active = w THEN SetActive(empty, n) ELSE empty, w)

(* workspace_destroy while its output goes: what is on it moves to the first *)
(* workspace of another output of the list.  Mutation: only what is on the   *)
(* active one does.                                                          *)
WorkspaceUnplugInactive(d, w) ==
  LET o == NextOrPrev(d.outputs, d.output[w])
      n == FirstOrNone(d.spaces[o])
  IN
  IF o = None \/ d.active # w THEN FreeWorkspace(d, w)
  ELSE IF o \notin d.plugged THEN Fail(d, "freed output")
  ELSE FreeWorkspace(SetActive(Evacuate(d, w, n), n), w)

WorkspaceUnplug(d, w) ==
  LET o == NextOrPrev(d.outputs, d.output[w])
      n == FirstOrNone(d.spaces[o])
      empty == Evacuate(d, w, n)
  IN
  IF o = None THEN FreeWorkspace(d, w)
  ELSE IF o \notin d.plugged THEN Fail(d, "freed output")
  ELSE FreeWorkspace(IF d.active = w THEN SetActive(empty, n) ELSE empty, w)

(* handle_destroy of an output walks its workspaces.                         *)
UnplugAll(d, list) ==
  LET after[i \in 0 .. Len(list)] ==
        IF i = 0 THEN d ELSE WorkspaceUnplug(after[i - 1], list[i])
  IN after[Len(list)]
=============================================================================
