--------------------------------- MODULE Batch ---------------------------------
(***************************************************************************)
(* What the transaction engine promises.  Changes are collected in a batch *)
(* while the screen stays as it is, and the whole batch is shown at once:  *)
(* when nobody is waited for any more, or when it has taken too long.      *)
(* transaction.h and state.h say so; BatchRefinement.tla says which state  *)
(* of the engine is which batch.                                           *)
(***************************************************************************)
CONSTANTS
  Window, Workspace, Size,
  Nothing          \* the size of a window that is not on screen

VARIABLES
  joined,          \* the windows in the batch
  asked,           \* those whose clients have not answered yet
  frames,          \* windows that are gone; the batch will take away their last frame
  wish,            \* the size each window is to have
  screen,          \* the size each window has on screen
  wanted,          \* the workspace the user is on
  presented,       \* the workspace on screen
  late             \* the batch has taken too long

seen == <<frames, screen, presented>>

vars == <<joined, asked, wish, wanted, late, seen>>

Init ==
  /\ joined = {} /\ asked = {} /\ frames = {}
  /\ wish = [w \in Window |-> Nothing]
  /\ screen = [w \in Window |-> Nothing]
  /\ wanted \in Workspace
  /\ presented \notin Workspace
  /\ late = FALSE

(* A wish changes only for a window that is in the batch then.               *)
OnlyWishesOf(windows) ==
  /\ wish' \in [Window -> Size \cup {Nothing}]
  /\ \A w \in Window \ windows : wish'[w] = wish[w]

(* More windows join, some of them to be waited for; the user may change     *)
(* workspaces.  Nothing is seen of it yet, and there may be more time again. *)
Collect(new, waiting) ==
  /\ joined' = joined \cup new
  /\ asked' = asked \cup waiting
  /\ waiting \subseteq joined'
  /\ OnlyWishesOf(joined')
  /\ wanted' \in Workspace
  /\ late' \in {late, FALSE}
  /\ UNCHANGED seen

Answer(w) ==
  /\ w \in asked
  /\ asked' = asked \ {w}
  /\ UNCHANGED <<joined, wish, wanted, late, seen>>

(* A window goes.  Its last frame stays, and others are asked to fill its    *)
(* place.                                                                    *)
Leave(w, new, waiting) ==
  /\ joined' = (joined \ {w}) \cup new
  /\ asked' = (asked \ {w}) \cup waiting
  /\ w \notin new /\ waiting \subseteq joined'
  /\ OnlyWishesOf(joined' \cup {w}) /\ wish'[w] = Nothing
  /\ frames' = frames \cup {w}
  /\ screen' = [screen EXCEPT ![w] = Nothing]
  /\ wanted' \in Workspace
  /\ late' \in {late, FALSE}
  /\ UNCHANGED presented

PassDeadline ==
  /\ late' = TRUE
  /\ UNCHANGED <<joined, asked, wish, wanted, seen>>

(* All of it is shown: when at most the last one is waited for, who answers  *)
(* just now, or late.                                                        *)
Apply ==
  /\ late \/ \A w, x \in asked : w = x
  /\ OnlyWishesOf(joined)
  /\ screen' = [w \in Window |-> IF w \in joined THEN wish'[w] ELSE screen[w]]
  /\ presented' = wanted
  /\ frames' = {} /\ joined' = {} /\ asked' = {}
  /\ late' = FALSE
  /\ UNCHANGED wanted

Next ==
  \/ \E new, waiting \in SUBSET Window : Collect(new, waiting)
  \/ \E w \in Window : Answer(w)
  \/ \E w \in Window, new, waiting \in SUBSET Window : Leave(w, new, waiting)
  \/ PassDeadline
  \/ Apply

Spec == Init /\ [][Next]_vars

(* A window that is not in the batch is on screen as it was last asked to be.*)
InStep == \A w \in Window \ joined : screen[w] = wish[w]
=============================================================================
