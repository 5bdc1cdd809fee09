----------------------------- MODULE Transaction -----------------------------
(***************************************************************************)
(* The transaction engine of src/transaction.c.  A change of layout asks   *)
(* every affected client for a new size; the engine freezes what is on     *)
(* screen until all of them have drawn it (or a timer gives up on them),   *)
(* and then applies everything at once.                                    *)
(*                                                                         *)
(* This module holds the state (struct transaction, and the fields of      *)
(* struct toplevel, workspace and output the engine reads or writes) and   *)
(* the engine's operations as actions on that state.  Toplevels.tla        *)
(* composes them into the event handlers.                                  *)
(*                                                                         *)
(* Abstractions: a box is its size; the array transaction.toplevels is the *)
(* number of times each toplevel occurs in it; of a configure serial only  *)
(* its place in the round trip to the client is kept.                      *)
(***************************************************************************)
EXTENDS Integers, FiniteSets

CONSTANTS
  Toplevel,      \* names of struct toplevel; a freed name may be allocated again
  Workspace,     \* the workspaces of the one output
  Size,          \* the sizes a box may have
  NoSize,        \* width or height <= 0: the client chooses
  None,          \* the NULL pointer
  TimeOutTicks,  \* COMPHY_TRANSACTION_TIME_OUT_MS in ticks of the clock
  MaxEntries     \* bound: occurrences of one toplevel in transaction.toplevels

ASSUME FiniteToplevels == IsFiniteSet(Toplevel)
ASSUME NoneIsNobody == None \notin Toplevel \cup Workspace
ASSUME NoSizeIsNoSize == NoSize \notin Size
ASSUME TimeOutTicksPositive == TimeOutTicks \in Nat \ {0}
ASSUME MaxEntriesPositive == MaxEntries \in Nat \ {0}

VARIABLES
  \* struct toplevel
  life,               \* of the xdg surface and of the memory behind it
  state,              \* TILED, FLOAT or FULLSCREEN
  home,               \* toplevel->workspace
  transaction_state,  \* CLEAN, DIRTY or READY
  requested,          \* requested_width, requested_height
  configure,          \* where the last configure is on its way to the client
  geometry,           \* size of the client's last committed geometry
  pending, current,
  snapshot,           \* snapshot_tree exists (and content_tree is disabled)
  needs_initial_enable,
  shown,              \* scene_tree is enabled
  \* struct workspace, struct output
  master, fullscreen,
  active, presented,
  \* struct transaction
  ghosts,
  entries,
  dirty_count,
  time_out,
  schedule,
  \* freed memory was used or a list was corrupted
  crashed

toplevelVars == <<life, state, home, geometry>>
sizeVars == <<requested, configure, pending>>
sceneVars == <<current, snapshot, needs_initial_enable, shown>>
workspaceVars == <<master, fullscreen, active, presented>>
listVars == <<transaction_state, entries, dirty_count>>
timerVars == <<time_out, schedule>>
vars == <<toplevelVars, sizeVars, sceneVars, workspaceVars, listVars, timerVars,
          ghosts, crashed>>

-----------------------------------------------------------------------------
(* "destroyed" is is_destroyed: the xdg_toplevel is gone, the memory stays.  *)
Life == {"absent", "created", "initialized", "mapped", "destroyed"}

State == {"TILED", "FLOAT", "FULLSCREEN"}

TransactionState == {"CLEAN", "DIRTY", "READY"}

(* configure_serial against what the client has acknowledged: the configure  *)
(* waits for wlroots' idle callback, is with the client, or is acknowledged  *)
(* (current.configure_serial >= toplevel->configure_serial).                 *)
ConfigureState == {"scheduled", "sent", "acked"}

AnySize == Size \cup {NoSize}

Unarmed == -1

Mapped == {t \in Toplevel : life[t] = "mapped"}

Tiled(w) == {t \in Mapped : state[t] = "TILED" /\ home[t] = w}

(* Reachable from the workspace: fullscreen, master, slaves and floats.  A   *)
(* fullscreen toplevel whose slot another one took is in none of them.       *)
Listed(w) ==
  {t \in Mapped : home[t] = w /\ (state[t] = "FULLSCREEN" => fullscreen[w] = t)}

Override(f, g) == [x \in DOMAIN g |-> IF x \in DOMAIN f THEN f[x] ELSE g[x]]

-----------------------------------------------------------------------------
(* Mutations of schedule_stuff: it arms the idle callback only if nobody was *)
(* dirty before; it leaves it armed when somebody is; it has no timer.       *)
ScheduleStuffOnce ==
  /\ schedule' = (dirty_count' = 0 /\ (schedule \/ dirty_count = 0))
  /\ time_out' = TimeOutTicks

ScheduleStuffStaysArmed ==
  /\ schedule' = (schedule \/ dirty_count' = 0)
  /\ time_out' = TimeOutTicks

ScheduleStuffUntimed ==
  /\ schedule' = (dirty_count' = 0)
  /\ UNCHANGED time_out

(* schedule_stuff: whether or not the idle callback was armed, it ends up    *)
(* armed iff nobody is dirty; the timer always starts over.                  *)
ScheduleStuff ==
  /\ schedule' = (dirty_count' = 0)
  /\ time_out' = TimeOutTicks

ScheduleIf(called) ==
  IF called THEN ScheduleStuff ELSE UNCHANGED timerVars

(* configure()'s result, against the last size requested of the client.      *)
IsDirty(t, size) == size = NoSize \/ size # requested[t]

NewlyDirty(box) ==
  {t \in DOMAIN box : transaction_state[t] # "DIRTY" /\ IsDirty(t, box[t])}

(* Mutation: a toplevel whose size does not change is left out.              *)
NewlyReadySkipped(box) == {t \in DOMAIN box : FALSE}

NewlyReady(box) ==
  {t \in DOMAIN box : transaction_state[t] # "DIRTY" /\ ~IsDirty(t, box[t])}

Pushed(box) == NewlyDirty(box) \cup NewlyReady(box)

(* What remove_toplevel finds of the toplevels to remove: only those that    *)
(* are not clean are taken out of the list, the dirty ones of the count too. *)
(* Mutations: it looks for clean ones too; it forgets the count.             *)
TakenUnchecked(removed) == removed

Taken(removed) == {t \in removed : transaction_state[t] # "CLEAN"}

DiscountedNever(removed) == {t \in removed : FALSE}

Discounted(removed) == {t \in removed : transaction_state[t] = "DIRTY"}

(* The list and the counter after some toplevels were marked dirty, some     *)
(* were pushed as ready and some were taken out by remove_toplevel, which    *)
(* removes one occurrence.                                                   *)
Book(dirty, ready, removed) ==
  /\ \A t \in dirty \cup ready : entries[t] < MaxEntries
  /\ transaction_state' =
       [t \in Toplevel |-> CASE t \in removed -> "CLEAN"
                             [] t \in dirty   -> "DIRTY"
                             [] t \in ready   -> "READY"
                             [] OTHER         -> transaction_state[t]]
  /\ entries' =
       [t \in Toplevel |->
          CASE t \in Taken(removed)      -> entries[t] - 1
            [] t \in dirty \cup ready -> entries[t] + 1
            [] OTHER                  -> entries[t]]
  /\ dirty_count' =
       dirty_count + Cardinality(dirty) - Cardinality(Discounted(removed))

(* transaction_add_dirty for every toplevel of DOMAIN box in turn, and       *)
(* remove_toplevel for those in removed, which are being unmapped: wlroots   *)
(* forgets their configures.  Neither pending nor the timers.                *)
Submit(box, removed) ==
  /\ requested' = Override(box, requested)
  /\ configure' = [t \in Toplevel |-> CASE t \in DOMAIN box -> "scheduled"
                                        [] t \in removed    -> "acked"
                                        [] OTHER            -> configure[t]]
  /\ Book(NewlyDirty(box), NewlyReady(box), removed)
  /\ snapshot' = [t \in Toplevel |-> snapshot[t] \/ t \in Pushed(box)]

AddDirty(box) ==
  /\ Submit(box, {})
  /\ pending' = Override(box, pending)
  /\ ScheduleIf(Pushed(box) # {})

(* Mutation: the ghost is not taken out of the transaction.                  *)
AddGhostKept(t, box) ==
  /\ Submit(box, {})
  /\ pending' = Override(box, pending)
  /\ ghosts' = ghosts \cup {t}
  /\ ScheduleStuff

(* transaction_add_ghost, after the toplevels left behind were arranged.     *)
AddGhost(t, box) ==
  /\ Submit(box, {t})
  /\ pending' = Override(box, pending)
  /\ ghosts' = ghosts \cup {t}
  /\ ScheduleStuff

(* Pushed only if clean: a ready toplevel is in the list already.            *)
Join(t) ==
  IF transaction_state[t] = "CLEAN" THEN Book({}, {t}, {}) ELSE UNCHANGED listVars

(* transaction_add_auto: the toplevel takes the size its client just drew.   *)
AddAuto(t) ==
  IF transaction_state[t] = "DIRTY"
  THEN UNCHANGED <<pending, listVars, timerVars>>
  ELSE /\ Join(t)
       /\ pending' = [pending EXCEPT ![t] = geometry'[t]]
       /\ ScheduleStuff

(* transaction_add_ready: a change that is not of size.                      *)
AddReady(t) ==
  /\ Join(t)
  /\ ScheduleIf(transaction_state[t] = "CLEAN")

-----------------------------------------------------------------------------
(* Who is in the transaction.  Mutation: not those still waited for.         *)
MembersReady == {t \in Toplevel : transaction_state[t] = "READY"}

Members == {t \in Toplevel : entries[t] > 0}

(* Members that are freed memory, or that the loop of perform_transaction    *)
(* frees before remove_ghosts reads and frees them again.                    *)
Dangling == {t \in Members : life[t] \in {"absent", "destroyed"}}

Freed == {t \in ghosts : life[t] = "destroyed"}

(* Whose content is shown again.  Mutation: not of those that timed out.     *)
ThawedReady == {t \in Members : transaction_state[t] = "READY"}

Thawed == Members

(* perform_transaction: commit every member, free the ghosts that were       *)
(* destroyed, show the active workspace, disarm the timer.  A floating       *)
(* toplevel takes whatever size its client has drawn by now.  What follows   *)
(* a use of freed memory means nothing: crashed ends the behaviour.          *)
Perform ==
  /\ crashed' = (Dangling # {})
  /\ pending' = [t \in Toplevel |->
                   IF t \in Members /\ state[t] = "FLOAT" THEN geometry'[t] ELSE pending[t]]
  /\ current' = [t \in Toplevel |-> IF t \in Members THEN pending'[t] ELSE current[t]]
  /\ transaction_state' =
       [t \in Toplevel |-> IF t \in Members THEN "CLEAN" ELSE transaction_state[t]]
  /\ snapshot' = [t \in Toplevel |-> snapshot[t] /\ t \notin Thawed]
  /\ needs_initial_enable' =
       [t \in Toplevel |-> needs_initial_enable[t] /\ t \notin Members]
  /\ shown' =
       [t \in Toplevel |->
          /\ t \notin Freed
          /\ \/ t \in Listed(active)
             \/ /\ t \notin Listed(presented)
                /\ shown[t] \/ (t \in Members /\ needs_initial_enable[t])]
  /\ presented' = active
  /\ life' = [t \in Toplevel |-> IF t \in Freed THEN "absent" ELSE life[t]]
  /\ ghosts' = {}
  /\ entries' = [t \in Toplevel |-> 0]
  /\ dirty_count' = 0
  /\ time_out' = Unarmed
  /\ UNCHANGED <<state, home, requested, master, fullscreen, active>>
=============================================================================
