------------------------------ MODULE Toplevels ------------------------------
(***************************************************************************)
(* The life of the windows of one output: the handlers of src/toplevel.c,  *)
(* the workspace and layout operations that call the transaction engine,   *)
(* and the three callbacks of the event loop that finish a transaction     *)
(* (a client's commit, the idle callback, the timer).                      *)
(*                                                                         *)
(* comphy is one thread running callbacks of a wl_event_loop; an action is *)
(* one callback, from entry to return.  The loop runs its idle callbacks   *)
(* before it waits for events again, and runs expired timers before it     *)
(* reads from clients.                                                     *)
(***************************************************************************)
EXTENDS Transaction

CONSTANT
  LayoutSize     \* what the layout asks for: gaps and ratio may leave no room

ASSUME LayoutSizeIsSize == LayoutSize \subseteq AnySize

Init ==
  /\ life = [t \in Toplevel |-> "absent"]
  /\ state = [t \in Toplevel |-> "TILED"]
  /\ home = [t \in Toplevel |-> None]
  /\ transaction_state = [t \in Toplevel |-> "CLEAN"]
  /\ requested = [t \in Toplevel |-> NoSize]
  /\ configure = [t \in Toplevel |-> "acked"]
  /\ geometry = [t \in Toplevel |-> NoSize]
  /\ pending = [t \in Toplevel |-> NoSize]
  /\ current = [t \in Toplevel |-> NoSize]
  /\ snapshot = [t \in Toplevel |-> FALSE]
  /\ needs_initial_enable = [t \in Toplevel |-> FALSE]
  /\ shown = [t \in Toplevel |-> FALSE]
  /\ master = [w \in Workspace |-> None]
  /\ fullscreen = [w \in Workspace |-> None]
  /\ active \in Workspace
  /\ presented = None
  /\ ghosts = {}
  /\ entries = [t \in Toplevel |-> 0]
  /\ dirty_count = 0
  /\ time_out = Unarmed
  /\ schedule = FALSE
  /\ crashed = FALSE

-----------------------------------------------------------------------------
(* Requests that create and configure a window.                              *)

(* toplevel_create; malloc returns no memory that is still referenced.       *)
Create(t) ==
  /\ life[t] = "absent"
  /\ entries[t] = 0
  /\ life' = [life EXCEPT ![t] = "created"]
  /\ needs_initial_enable' = [needs_initial_enable EXCEPT ![t] = TRUE]
  /\ UNCHANGED <<state, home, geometry, sizeVars, current, snapshot, shown,
                 workspaceVars, listVars, timerVars, ghosts, crashed>>

(* handle_commit on the initial commit: wlroots will send a configure.       *)
InitialCommit(t) ==
  /\ life[t] = "created"
  /\ life' = [life EXCEPT ![t] = "initialized"]
  /\ configure' = [configure EXCEPT ![t] = "scheduled"]
  /\ UNCHANGED <<state, home, geometry, requested, pending, sceneVars,
                 workspaceVars, listVars, timerVars, ghosts, crashed>>

(* layout_add and layout_remove: only the master is not linked in slaves.    *)
WithMaster(m, w, t) == [m EXCEPT ![w] = IF m[w] = None THEN t ELSE m[w]]

WithoutMaster(m, t, heir) == [w \in Workspace |-> IF m[w] = t THEN heir ELSE m[w]]

(* The last slave follows the master; the order of slaves is not kept.       *)
Heirs(t) ==
  LET rest == Tiled(home[t]) \ {t} IN IF rest = {} THEN {None} ELSE rest

(* What handle_map does to every window: a place on the active workspace and *)
(* a new, disabled scene tree.  The client has drawn a size of its own.      *)
Appear(t, st, drawn) ==
  /\ life[t] = "initialized"
  /\ configure[t] # "scheduled"
  /\ life' = [life EXCEPT ![t] = "mapped"]
  /\ state' = [state EXCEPT ![t] = st]
  /\ home' = [home EXCEPT ![t] = active]
  /\ geometry' = [geometry EXCEPT ![t] = drawn]
  /\ needs_initial_enable' = [needs_initial_enable EXCEPT ![t] = TRUE]
  /\ shown' = [shown EXCEPT ![t] = FALSE]
  /\ UNCHANGED <<current, fullscreen, active, presented, ghosts>>

(* Tiled: the layout of the workspace is computed again for everybody.  A    *)
(* ghost's link is in the list of ghosts; linking it to slaves corrupts both.*)
MapTiled(t) ==
  \E drawn \in Size, box \in [Tiled(active) \cup {t} -> LayoutSize] :
    /\ Appear(t, "TILED", drawn)
    /\ AddDirty(box)
    /\ master' = WithMaster(master, active, t)
    /\ crashed' = (t \in ghosts /\ master[active] # None)

MapFloat(t) ==
  \E drawn \in Size :
    /\ Appear(t, "FLOAT", drawn)
    /\ configure' = [configure EXCEPT ![t] = "acked"]
    /\ AddAuto(t)
    /\ crashed' = (t \in ghosts)
    /\ UNCHANGED <<requested, snapshot, master>>

(* With a size from the rules.  If that size is the last one requested the   *)
(* toplevel is ready at once, and the commit that mapped it, handled right   *)
(* after the map, makes it conform to what the client drew.                  *)
MapFloatSized(t) ==
  \E drawn \in Size, rule \in Size :
    LET box == [u \in {t} |-> rule] IN
    /\ Appear(t, "FLOAT", drawn)
    /\ Submit(box, {})
    /\ pending' = [pending EXCEPT ![t] = IF IsDirty(t, rule) THEN rule ELSE drawn]
    /\ ScheduleStuff
    /\ crashed' = (t \in ghosts)
    /\ UNCHANGED master

-----------------------------------------------------------------------------
(* A commit of a window that has been configured (handle_commit).            *)

(* The client may acknowledge the last configure with this commit.  A tiled  *)
(* or fullscreen client then draws the size it was told and keeps it until   *)
(* it is told another; a floating one, and one told to choose, draws what it *)
(* likes.                                                                    *)
Draw(t, acks, drawn) ==
  /\ life[t] = "mapped"
  /\ acks => configure[t] = "sent"
  /\ CASE state[t] = "FLOAT" \/ (acks /\ requested[t] = NoSize) -> drawn \in Size
       [] OTHER -> drawn = IF acks THEN requested[t] ELSE geometry[t]
  /\ configure' = IF acks THEN [configure EXCEPT ![t] = "acked"] ELSE configure
  /\ geometry' = [geometry EXCEPT ![t] = drawn]

(* The commit is older than the configure waited for, or nothing is waited   *)
(* for and the window does not float.                                        *)
CommitIgnored(t) ==
  \E acks \in BOOLEAN, drawn \in Size :
    /\ Draw(t, acks, drawn)
    /\ IF transaction_state[t] = "DIRTY" THEN configure'[t] # "acked"
                                         ELSE state[t] # "FLOAT"
    /\ UNCHANGED <<life, state, home, requested, pending, sceneVars, workspaceVars,
                   listVars, timerVars, ghosts, crashed>>

(* transaction_commit while others are still dirty.                          *)
CommitReady(t) ==
  \E acks \in BOOLEAN, drawn \in Size :
    /\ transaction_state[t] = "DIRTY"
    /\ dirty_count > 1
    /\ Draw(t, acks, drawn)
    /\ configure'[t] = "acked"
    /\ transaction_state' = [transaction_state EXCEPT ![t] = "READY"]
    /\ dirty_count' = dirty_count - 1
    /\ UNCHANGED <<life, state, home, requested, pending, sceneVars, workspaceVars,
                   entries, timerVars, ghosts, crashed>>

(* transaction_commit by the last dirty toplevel.  Mutation: by any.         *)
CommitLastAny(t) ==
  \E acks \in BOOLEAN, drawn \in Size :
    /\ transaction_state[t] = "DIRTY"
    /\ Draw(t, acks, drawn)
    /\ configure'[t] = "acked"
    /\ Perform
    /\ UNCHANGED schedule

CommitLast(t) ==
  \E acks \in BOOLEAN, drawn \in Size :
    /\ transaction_state[t] = "DIRTY"
    /\ dirty_count <= 1
    /\ Draw(t, acks, drawn)
    /\ configure'[t] = "acked"
    /\ Perform
    /\ UNCHANGED schedule

CommitFloat(t) ==
  \E acks \in BOOLEAN, drawn \in Size :
    /\ transaction_state[t] # "DIRTY"
    /\ state[t] = "FLOAT"
    /\ Draw(t, acks, drawn)
    /\ AddAuto(t)
    /\ UNCHANGED <<life, state, home, requested, sceneVars, workspaceVars, ghosts,
                   crashed>>

(* The same path taken by a window that floated before it was unmapped, has  *)
(* made its initial commit again and now commits without a buffer.           *)
CommitUnmappedFloat(t) ==
  /\ life[t] = "initialized"
  /\ state[t] = "FLOAT"
  /\ UNCHANGED geometry
  /\ AddAuto(t)
  /\ UNCHANGED <<life, state, home, requested, configure, sceneVars, workspaceVars,
                 ghosts, crashed>>

-----------------------------------------------------------------------------
(* The end of a window.                                                      *)

(* Focus is not modelled, but a window of a hidden workspace may have it (a  *)
(* switch to an empty workspace leaves it there).  When such a window is     *)
(* unmapped, toplevel_focus on the next one makes its workspace active.      *)
ActiveAfterFocus(t) ==
  {active} \cup
  {w \in Workspace : /\ w = home[t]
                     /\ state[t] # "FULLSCREEN"
                     /\ fullscreen[w] = None
                     /\ Listed(w) \ {t} # {}}

(* handle_unmap: leave the workspace and become a ghost.  wlroots forgets    *)
(* the configures and asks for an initial commit before the next map.        *)
Unmap(t) ==
  LET w == home[t]
      left == IF state[t] = "TILED" THEN Tiled(w) \ {t} ELSE {}
  IN
  /\ life[t] = "mapped"
  /\ life' = [life EXCEPT ![t] = "created"]
  /\ geometry' = [geometry EXCEPT ![t] = NoSize]
  /\ \E box \in [left -> LayoutSize], heir \in Heirs(t) :
       /\ AddGhost(t, box)
       /\ master' = WithoutMaster(master, t, heir)
  /\ fullscreen' = IF state[t] = "FULLSCREEN"
                   THEN [fullscreen EXCEPT ![w] = None] ELSE fullscreen
  /\ active' \in ActiveAfterFocus(t)
  /\ crashed' = (t \in ghosts)
  /\ UNCHANGED <<state, home, current, needs_initial_enable, shown, presented>>

(* handle_destroy: the memory of a ghost is kept for the transaction to      *)
(* free, that of any other window is freed here.  Of a destroyed window only *)
(* the link and the scene tree are used again; the rest is forgotten.        *)
Destroy(t) ==
  /\ life[t] \in {"created", "initialized"}
  /\ life' = [life EXCEPT ![t] = IF t \in ghosts THEN "destroyed" ELSE "absent"]
  /\ shown' = [shown EXCEPT ![t] = shown[t] /\ t \in ghosts]
  /\ state' = [state EXCEPT ![t] = "TILED"]
  /\ home' = [home EXCEPT ![t] = None]
  /\ transaction_state' = [transaction_state EXCEPT ![t] = "CLEAN"]
  /\ requested' = [requested EXCEPT ![t] = NoSize]
  /\ configure' = [configure EXCEPT ![t] = "acked"]
  /\ pending' = [pending EXCEPT ![t] = NoSize]
  /\ current' = [current EXCEPT ![t] = NoSize]
  /\ snapshot' = [snapshot EXCEPT ![t] = FALSE]
  /\ needs_initial_enable' = [needs_initial_enable EXCEPT ![t] = FALSE]
  /\ UNCHANGED <<geometry, workspaceVars, entries, dirty_count, timerVars, ghosts,
                 crashed>>

-----------------------------------------------------------------------------
(* Requests and key bindings that rearrange mapped windows.                  *)

(* toplevel_set_state: leave the layout, the floats or the fullscreen slot,  *)
(* enter another, arrange the layout if it changed, ask for the new size.    *)
(* Nothing happens if the fullscreen slot is taken.                          *)
SetState(t, st) ==
  LET w == home[t]
      rest == IF "TILED" \in {state[t], st} THEN Tiled(w) \ {t} ELSE {}
      own == CASE st = "TILED"      -> LayoutSize
               [] st = "FLOAT"      -> AnySize
               [] st = "FULLSCREEN" -> Size
  IN
  /\ life[t] = "mapped"
  /\ state[t] # st
  /\ st = "FULLSCREEN" => fullscreen[w] = None
  /\ state' = [state EXCEPT ![t] = st]
  /\ \E size \in own, others \in [rest -> LayoutSize] :
       AddDirty([u \in rest \cup {t} |-> IF u = t THEN size ELSE others[u]])
  /\ \E heir \in Heirs(t) :
       LET left == WithoutMaster(master, t, heir) IN
       /\ master' = IF st = "TILED" THEN WithMaster(left, w, t) ELSE left
       /\ crashed' = (t \in ghosts /\ (st = "FLOAT" \/ (st = "TILED" /\ left[w] # None)))
  /\ fullscreen' =
       CASE st = "FULLSCREEN"       -> [fullscreen EXCEPT ![w] = t]
         [] state[t] = "FULLSCREEN" -> [fullscreen EXCEPT ![w] = None]
         [] OTHER                   -> fullscreen
  /\ UNCHANGED <<life, home, geometry, current, needs_initial_enable, shown, active,
                 presented, ghosts>>

(* workspace_set_active.  Mutation: no transaction is scheduled.             *)
ChangeWorkspaceUnscheduled(w) ==
  /\ w # active
  /\ active' = w
  /\ UNCHANGED <<toplevelVars, sizeVars, sceneVars, master, fullscreen, presented,
                 listVars, timerVars, ghosts, crashed>>

ChangeWorkspace(w) ==
  /\ w # active
  /\ active' = w
  /\ UNCHANGED <<toplevelVars, sizeVars, sceneVars, master, fullscreen, presented,
                 listVars, ghosts, crashed>>
  /\ ScheduleStuff

(* The action move_to_workspace: toplevel_move_to_workspace, then            *)
(* workspace_set_active.  A fullscreen toplevel takes the slot of the        *)
(* workspace even if it is taken.                                            *)
MoveToWorkspace(t, w) ==
  LET old == home[t]
      tiled == IF state[t] = "TILED" THEN (Tiled(old) \ {t}) \cup Tiled(w) ELSE {}
      sized == IF state[t] = "FLOAT" THEN {} ELSE tiled \cup {t}
      own == IF state[t] = "TILED" THEN LayoutSize ELSE Size
  IN
  /\ life[t] = "mapped"
  /\ w # old
  /\ home' = [home EXCEPT ![t] = w]
  /\ active' = w
  /\ \E box \in [sized -> own] :
       /\ Submit(box, {})
       /\ pending' = Override(box, pending)
       /\ ScheduleIf(Pushed(box) # {} \/ w # active)
  /\ \E heir \in Heirs(t) :
       master' = IF state[t] = "TILED"
                 THEN WithMaster(WithoutMaster(master, t, heir), w, t) ELSE master
  /\ fullscreen' = IF state[t] = "FULLSCREEN"
                   THEN [fullscreen EXCEPT ![old] = None, ![w] = t] ELSE fullscreen
  /\ crashed' = (/\ t \in ghosts
                 /\ state[t] = "FLOAT" \/ (state[t] = "TILED" /\ master[w] # None))
  /\ UNCHANGED <<life, state, geometry, current, needs_initial_enable, shown,
                 presented, ghosts>>

(* layout_reconfigure_all and layers_arrange: gaps, borders, the master      *)
(* ratio or the usable area changed.                                         *)
Arrange ==
  LET tiled == {t \in Mapped : state[t] = "TILED"} IN
  /\ tiled # {}
  /\ \E box \in [tiled -> LayoutSize] : AddDirty(box)
  /\ UNCHANGED <<toplevelVars, current, needs_initial_enable, shown, workspaceVars,
                 ghosts, crashed>>

(* The action move within a layout: two tiled toplevels change places.  The  *)
(* master's link enters the list of slaves.                                  *)
Swap(t, u) ==
  /\ t \in Tiled(home[t])
  /\ u \in Tiled(home[t]) \ {t}
  /\ \E box \in [Tiled(home[t]) -> LayoutSize] : AddDirty(box)
  /\ master' = [w \in Workspace |-> CASE master[w] = t -> u
                                      [] master[w] = u -> t
                                      [] OTHER         -> master[w]]
  /\ crashed' = ({t, u} \cap ghosts # {})
  /\ UNCHANGED <<toplevelVars, current, needs_initial_enable, shown, fullscreen,
                 active, presented, ghosts>>

(* operation_start_resize and stop_shared on a floating toplevel: it changes *)
(* scene tree, not size.                                                     *)
GrabFloat(t) ==
  /\ t \in Mapped
  /\ state[t] = "FLOAT"
  /\ AddReady(t)
  /\ UNCHANGED <<toplevelVars, sizeVars, sceneVars, workspaceVars, ghosts, crashed>>

(* move and resize of operation.c, on every motion of the cursor.            *)
ResizeFloat(t) ==
  /\ t \in Mapped
  /\ state[t] = "FLOAT"
  /\ \E size \in Size : AddDirty([u \in {t} |-> size])
  /\ UNCHANGED <<toplevelVars, current, needs_initial_enable, shown, workspaceVars,
                 ghosts, crashed>>

-----------------------------------------------------------------------------
(* The event loop.                                                           *)

(* An idle callback waits: the transaction's, or one of wlroots that sends a *)
(* configure.                                                                *)
IdlePending == schedule \/ \E t \in Toplevel : configure[t] = "scheduled"

(* All idle callbacks run; idle() is the transaction's.                      *)
Idle ==
  /\ IdlePending
  /\ configure' = [t \in Toplevel |->
                     IF configure[t] = "scheduled" THEN "sent" ELSE configure[t]]
  /\ UNCHANGED geometry
  /\ schedule' = FALSE
  /\ IF schedule THEN Perform
     ELSE UNCHANGED <<life, state, home, requested, pending, sceneVars, workspaceVars,
                      listVars, time_out, ghosts, crashed>>

(* Time passes.                                                              *)
Tick ==
  /\ time_out > 0
  /\ time_out' = time_out - 1
  /\ UNCHANGED <<toplevelVars, sizeVars, sceneVars, workspaceVars, listVars, schedule,
                 ghosts, crashed>>

TimeOut ==
  /\ time_out = 0
  /\ ~IdlePending
  /\ UNCHANGED <<geometry, configure, schedule>>
  /\ Perform

-----------------------------------------------------------------------------
ClientNext(t) ==
  \/ Create(t)
  \/ InitialCommit(t)
  \/ MapTiled(t)
  \/ MapFloat(t)
  \/ MapFloatSized(t)
  \/ CommitIgnored(t)
  \/ CommitReady(t)
  \/ CommitLast(t)
  \/ CommitFloat(t)
  \/ CommitUnmappedFloat(t)
  \/ Unmap(t)
  \/ Destroy(t)

UserNext ==
  \/ \E t \in Toplevel : \E st \in State : SetState(t, st)
  \/ \E t \in Toplevel : \E w \in Workspace : MoveToWorkspace(t, w)
  \/ \E w \in Workspace : ChangeWorkspace(w)
  \/ \E t, u \in Toplevel : Swap(t, u)
  \/ \E t \in Toplevel : GrabFloat(t)
  \/ \E t \in Toplevel : ResizeFloat(t)
  \/ Arrange

LoopNext == Idle \/ Tick \/ TimeOut

Next ==
  /\ ~crashed
  /\ \/ \E t \in Toplevel : ClientNext(t)
     \/ UserNext
     \/ LoopNext

(* Undefined behaviour has been reached: the model says nothing more.        *)
Halted == crashed /\ UNCHANGED vars

Spec == Init /\ [][Next \/ Halted]_vars

(* Time passes; the loop runs idle callbacks before it waits, and expired    *)
(* timers each time it has waited, however many clients are talking.         *)
Fairness == WF_vars(~crashed /\ Idle) /\ WF_vars(~crashed /\ Tick) /\ SF_vars(~crashed /\ TimeOut)

FairSpec == Spec /\ Fairness

-----------------------------------------------------------------------------
(* Properties.                                                               *)

TypeOK ==
  /\ life \in [Toplevel -> Life]
  /\ state \in [Toplevel -> State]
  /\ home \in [Toplevel -> Workspace \cup {None}]
  /\ transaction_state \in [Toplevel -> TransactionState]
  /\ requested \in [Toplevel -> AnySize]
  /\ configure \in [Toplevel -> ConfigureState]
  /\ geometry \in [Toplevel -> AnySize]
  /\ pending \in [Toplevel -> AnySize]
  /\ current \in [Toplevel -> AnySize]
  /\ snapshot \in [Toplevel -> BOOLEAN]
  /\ needs_initial_enable \in [Toplevel -> BOOLEAN]
  /\ shown \in [Toplevel -> BOOLEAN]
  /\ master \in [Workspace -> Toplevel \cup {None}]
  /\ fullscreen \in [Workspace -> Toplevel \cup {None}]
  /\ active \in Workspace
  /\ presented \in Workspace \cup {None}
  /\ ghosts \in SUBSET Toplevel
  /\ entries \in [Toplevel -> Nat]
  /\ dirty_count \in Int
  /\ time_out \in {Unarmed} \cup 0..TimeOutTicks
  /\ schedule \in BOOLEAN
  /\ crashed \in BOOLEAN

(* dirty_count is the number of dirty toplevels, however they came and went: *)
(* marked dirty twice, unmapped while dirty, committed by the timer.         *)
(* transaction_commit decides by it whether to apply.                        *)
DirtyCountExact ==
  dirty_count = Cardinality({t \in Toplevel : transaction_state[t] = "DIRTY"})

(* Nobody waits for a transaction that nothing will finish: as long as a     *)
(* toplevel is in it, a ghost is kept for it or a switch of workspace waits  *)
(* for it, the timer runs, and either a client is waited for or the idle     *)
(* callback is armed.                                                        *)
WorkPending == Members # {} \/ ghosts # {} \/ presented \notin {active, None}

NoStuckTransaction ==
  WorkPending => /\ time_out # Unarmed
                 /\ dirty_count > 0 \/ schedule

(* The timer and the idle callback are armed only for a transaction they can *)
(* finish: idle() never applies while a client is waited for, and a timer    *)
(* left over from one transaction never cuts the next one short.             *)
CallbacksConsistent ==
  /\ schedule => dirty_count = 0
  /\ time_out # Unarmed => dirty_count > 0 \/ schedule

(* The assertion of remove_toplevel, `idx >= 0`: a toplevel that is not      *)
(* clean is in the list, whatever happened to it since it was pushed.        *)
UncleanIsListed ==
  \A t \in Toplevel : transaction_state[t] # "CLEAN" => entries[t] > 0

(* Only a mapped window is waited for: a window that is gone never commits.  *)
DirtyIsMapped ==
  \A t \in Toplevel : transaction_state[t] = "DIRTY" => life[t] = "mapped"

(* A mapped window whose content is frozen behind a snapshot is part of the  *)
(* transaction that will show its content again.                             *)
FrozenIsReleased ==
  \A t \in Mapped : snapshot[t] => transaction_state[t] # "CLEAN"

(* Between transactions the screen shows the active workspace: its tiled     *)
(* toplevels and its fullscreen one are visible, however switches, moves and *)
(* transactions were interleaved.  (A floating toplevel that is moved from a *)
(* hidden workspace to the active one makes no transaction, so it stays      *)
(* hidden until the next one.)                                               *)
Settled == ~WorkPending /\ ~schedule

PresentedIsShown ==
  ~crashed /\ Settled /\ presented # None
    => \A t \in Listed(presented) : state[t] = "FLOAT" \/ shown[t]

(* Before the timer gives up, a window that was asked for another size stays *)
(* frozen until its client acknowledges the latest request, no matter who    *)
(* else commits, maps or unmaps and how often it is asked.                   *)
AppliedOnlyWhenAcked ==
  [][time_out # 0 =>
       \A t \in Toplevel :
         (transaction_state[t] = "DIRTY" /\ transaction_state'[t] # "DIRTY"
            /\ life'[t] = "mapped")
           => configure'[t] = "acked"]_vars

(* If clients stop asking for more, every transaction ends: the timer wins   *)
(* over a client that never answers.                                         *)
QuietSettles ==
  <>[][time_out' # TimeOutTicks]_vars => []<>(crashed \/ ~WorkPending)

-----------------------------------------------------------------------------
(* What the comments of the code say and the code does not do; each is       *)
(* checked by a run that finds the counterexample.                           *)

(* remove_toplevel: "its somewhere in the list ... we find it and remove it  *)
(* from the list".  A ready toplevel that is configured again is pushed      *)
(* again, so one occurrence stays behind when it becomes a ghost, and the    *)
(* transaction frees it twice once its client destroys it.                   *)
DestroyedIsRemoved ==
  \A t \in ghosts : life[t] = "destroyed" => entries[t] = 0

(* schedule_stuff: "remove it, and instead wait for it, or the timeout".     *)
(* Every commit of a floating window starts the timer over, so a window that *)
(* keeps drawing keeps a hung one waiting forever, with the user looking on. *)
DirtyIsTimedOut ==
  <>[][~UserNext]_vars =>
    \A t \in Toplevel :
      transaction_state[t] = "DIRTY" ~> (crashed \/ transaction_state[t] # "DIRTY")

(* state.h: "when the toplevel unmaps we keep its last frame until the       *)
(* transaction finishes".  The scene tree of a window that is unmapped and   *)
(* not destroyed (its border, and its snapshot if it was frozen when it was  *)
(* unmapped) is on screen after that.                                        *)
FrameKeptForGhostsOnly ==
  \A t \in Toplevel :
    life[t] \in {"created", "initialized"} /\ shown[t] => t \in ghosts

(* toplevel.h: "keep it in the `snapshot_tree` until the client commits the  *)
(* new content coresponding to the desired geometry".  A request for the     *)
(* size requested last is not waited for, but the client may since have      *)
(* drawn another: it floated and chose its own, or it was mapped again.      *)
SnapshotUntilContent ==
  [][\A t \in Mapped :
       (snapshot[t] /\ ~snapshot'[t] /\ life'[t] = "mapped" /\ time_out # 0)
         => state[t] = "FLOAT" \/ current'[t] \in {NoSize, geometry'[t]}]_vars
=============================================================================
