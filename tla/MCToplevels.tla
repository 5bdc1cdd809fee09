----------------------------- MODULE MCToplevels -----------------------------
(* Instances of Toplevels for TLC.                                           *)
EXTENDS BatchRefinement, TLC

CONSTANTS t1, t2, w1, w2, small, large

Windows == {t1, t2}

OneWorkspace == {w1}
TwoWorkspaces == {w1, w2}

OneSize == {small}
TwoSizes == {small, large}
OneSizeOrNone == {small, NoSize}

(* Windows are interchangeable, and so are the two workspaces.               *)
WindowAndWorkspaceSymmetry == Permutations(Windows) \cup Permutations(TwoWorkspaces)

(* What decides the control of the engine: the sizes drawn, pending and      *)
(* current flow from request to screen and no guard reads them.  Of a window *)
(* that is not mapped it matters whether it floated: its workspace and what  *)
(* is shown of it are set anew before they are read, when it is mapped.      *)
Kept(t) ==
  IF life[t] = "mapped"
  THEN <<state[t], home[t], needs_initial_enable[t], shown[t]>>
  ELSE <<state[t] = "FLOAT">>

ControlView ==
  <<life, [t \in Windows |-> Kept(t)], requested, configure, snapshot,
    workspaceVars, listVars, timerVars, ghosts, crashed>>
=============================================================================
