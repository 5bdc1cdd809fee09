--------------------------- MODULE ToplevelsProofs ---------------------------
(***************************************************************************)
(* The transaction engine for any number of toplevels, workspaces and      *)
(* sizes, any length of the timer and any bound on the list: the invariant *)
(* of its bookkeeping, that it implements Batch, and what is on the screen *)
(* while a transaction is on and between two.                              *)
(***************************************************************************)
EXTENDS BatchRefinement, FiniteSetTheorems, TLAPS

Dirty == {t \in Toplevel : transaction_state[t] = "DIRTY"}

(* The parts of TypeOK the engine's bookkeeping writes, and the others.      *)
BookType ==
  /\ transaction_state \in [Toplevel -> TransactionState]
  /\ entries \in [Toplevel -> Nat]
  /\ dirty_count \in Int

TimerType ==
  /\ time_out \in {Unarmed} \cup 0..TimeOutTicks
  /\ schedule \in BOOLEAN

SizeType ==
  /\ requested \in [Toplevel -> AnySize]
  /\ configure \in [Toplevel -> ConfigureState]
  /\ pending \in [Toplevel -> AnySize]
  /\ snapshot \in [Toplevel -> BOOLEAN]

RestType ==
  /\ life \in [Toplevel -> Life]
  /\ state \in [Toplevel -> State]
  /\ home \in [Toplevel -> Workspace \cup {None}]
  /\ geometry \in [Toplevel -> AnySize]
  /\ current \in [Toplevel -> AnySize]
  /\ needs_initial_enable \in [Toplevel -> BOOLEAN]
  /\ shown \in [Toplevel -> BOOLEAN]
  /\ master \in [Workspace -> Toplevel \cup {None}]
  /\ fullscreen \in [Workspace -> Toplevel \cup {None}]
  /\ active \in Workspace
  /\ presented \in Workspace \cup {None}
  /\ ghosts \in SUBSET Toplevel
  /\ crashed \in BOOLEAN

LEMMA TypeParts == TypeOK <=> BookType /\ TimerType /\ SizeType /\ RestType
BY DEF TypeOK, BookType, TimerType, SizeType, RestType

(* What the engine's bookkeeping keeps, and the inductive invariant: it adds *)
(* to that the types, and that only mapped toplevels are dirty, which is why *)
(* forgetting a destroyed toplevel does not change the count.                *)
BookInv ==
  /\ BookType
  /\ DirtyCountExact
  /\ UncleanIsListed

TimerInv ==
  /\ TimerType
  /\ CallbacksConsistent
  /\ NoStuckTransaction

IInv ==
  /\ BookInv
  /\ TimerInv
  /\ SizeType
  /\ RestType
  /\ DirtyIsMapped

-----------------------------------------------------------------------------
(* The bookkeeping.                                                          *)

LEMMA DirtyFinite == IsFiniteSet(Dirty) /\ Cardinality(Dirty) \in Nat
<1>1. IsFiniteSet(Dirty)
  BY FiniteToplevels, FS_Subset DEF Dirty
<1> QED
  BY <1>1, FS_CardinalityType

LEMMA CountIsNat ==
  ASSUME DirtyCountExact
  PROVE  dirty_count \in Nat /\ dirty_count = Cardinality(Dirty)
BY DirtyFinite DEF DirtyCountExact, Dirty

(* Marking toplevels that are not dirty, and removing others, keeps the      *)
(* count exact and the list complete.                                        *)
LEMMA BookKeeps ==
  ASSUME BookInv,
         NEW dirty \in SUBSET Toplevel,
         NEW ready \in SUBSET Toplevel,
         NEW removed \in SUBSET Toplevel,
         dirty \cap Dirty = {},
         ready \cap Dirty = {},
         dirty \cap ready = {},
         (dirty \cup ready) \cap removed = {},
         Book(dirty, ready, removed)
  PROVE  /\ BookInv'
         /\ Dirty' = (Dirty \ removed) \cup dirty
<1> DEFINE gone == Dirty \cap removed
<1>1. BookType'
  <2>1. transaction_state' \in [Toplevel -> TransactionState]
    BY DEF BookInv, BookType, Book, TransactionState
  <2>2. entries' \in [Toplevel -> Nat]
    BY DEF BookInv, BookType, Book, Taken, UncleanIsListed
  <2>3. dirty_count' \in Int
    <3>1. IsFiniteSet(dirty) /\ IsFiniteSet(Discounted(removed))
      BY FiniteToplevels, FS_Subset DEF Discounted
    <3>2. Cardinality(dirty) \in Nat /\ Cardinality(Discounted(removed)) \in Nat
      BY <3>1, FS_CardinalityType
    <3> QED
      BY <3>2 DEF BookInv, BookType, Book
  <2> QED
    BY <2>1, <2>2, <2>3 DEF BookType
<1>2. Dirty' = (Dirty \ removed) \cup dirty
  BY DEF Dirty, BookInv, BookType, Book, TransactionState
<1>3. DirtyCountExact'
  <2>1. IsFiniteSet(Dirty) /\ IsFiniteSet(dirty) /\ IsFiniteSet(gone)
    BY FiniteToplevels, FS_Subset DEF Dirty
  <2>2. Cardinality(Dirty) \in Nat /\ Cardinality(dirty) \in Nat /\ Cardinality(gone) \in Nat
    BY <2>1, FS_CardinalityType
  <2>3. Cardinality(Dirty \ gone) = Cardinality(Dirty) - Cardinality(gone)
    <3>1. Cardinality(Dirty \ gone) = Cardinality(Dirty) - Cardinality(Dirty \cap gone)
      BY <2>1, FS_Difference
    <3>2. Dirty \cap gone = gone
      OBVIOUS
    <3> QED
      BY <3>1, <3>2
  <2>4. Cardinality((Dirty \ gone) \cup dirty)
          = Cardinality(Dirty \ gone) + Cardinality(dirty)
    <3>1. IsFiniteSet(Dirty \ gone)
      BY <2>1, FS_Difference
    <3>2. (Dirty \ gone) \cap dirty = {}
      OBVIOUS
    <3>3. Cardinality((Dirty \ gone) \cap dirty) = 0
      BY <3>2, FS_EmptySet
    <3>4. Cardinality(Dirty \ gone) \in Nat
      BY <3>1, FS_CardinalityType
    <3>5. Cardinality((Dirty \ gone) \cup dirty)
            = Cardinality(Dirty \ gone) + Cardinality(dirty)
                - Cardinality((Dirty \ gone) \cap dirty)
      BY <2>1, <3>1, FS_Union
    <3> QED
      BY <2>2, <3>3, <3>4, <3>5
  <2>5. dirty_count' = dirty_count + Cardinality(dirty) - Cardinality(gone)
    <3>1. Discounted(removed) = gone
      BY DEF Discounted, Dirty
    <3> QED
      BY <3>1 DEF Book
  <2>6. dirty_count = Cardinality(Dirty)
    BY CountIsNat DEF BookInv
  <2>7. Dirty' = (Dirty \ gone) \cup dirty
    BY <1>2
  <2>8. dirty_count' = Cardinality(Dirty')
    BY <2>2, <2>3, <2>4, <2>5, <2>6, <2>7
  <2> QED
    BY <2>8 DEF DirtyCountExact, Dirty
<1>4. UncleanIsListed'
  BY DEF BookInv, BookType, Book, Taken, UncleanIsListed, TransactionState
<1> QED
  BY <1>1, <1>2, <1>3, <1>4 DEF BookInv

LEMMA CountIsNatNext ==
  ASSUME DirtyCountExact'
  PROVE  dirty_count' \in Nat
<1>1. IsFiniteSet({t \in Toplevel : transaction_state'[t] = "DIRTY"})
  BY FiniteToplevels, FS_Subset
<1> QED
  BY <1>1, FS_CardinalityType DEF DirtyCountExact

(* Nothing was booked.                                                       *)
LEMMA BookUntouched ==
  ASSUME BookInv, UNCHANGED listVars
  PROVE  BookInv' /\ Dirty' = Dirty /\ dirty_count' \in Nat
<1>1. BookInv' /\ Dirty' = Dirty
  BY DEF BookInv, BookType, DirtyCountExact, UncleanIsListed, Dirty, listVars
<1> QED
  BY <1>1, CountIsNatNext DEF BookInv

-----------------------------------------------------------------------------
(* The callbacks.                                                            *)

(* After schedule_stuff the callbacks fit the count, whatever they were.     *)
LEMMA ScheduleKeeps ==
  ASSUME BookInv', ScheduleStuff
  PROVE  TimerInv'
<1>1. dirty_count' \in Nat
  BY CountIsNatNext DEF BookInv
<1>2. time_out' \in 0..TimeOutTicks /\ time_out' # Unarmed
  BY TimeOutTicksPositive DEF ScheduleStuff, Unarmed
<1>3. schedule' \in BOOLEAN /\ (schedule' <=> dirty_count' = 0)
  BY DEF ScheduleStuff
<1>4. dirty_count' > 0 <=> dirty_count' # 0
  BY <1>1
<1>5. TimerType'
  BY <1>2, <1>3 DEF TimerType
<1>6. CallbacksConsistent' /\ NoStuckTransaction'
  BY <1>2, <1>3, <1>4, Zenon DEF CallbacksConsistent, NoStuckTransaction
<1> QED
  BY <1>5, <1>6 DEF TimerInv

(* The callbacks are left alone and so is what they depend on: whether       *)
(* anybody is dirty, and whether there is anything to finish.                *)
LEMMA TimerUntouched ==
  ASSUME TimerInv, UNCHANGED timerVars,
         dirty_count \in Nat, dirty_count' \in Nat,
         dirty_count' = 0 <=> dirty_count = 0,
         WorkPending' => WorkPending
  PROVE  TimerInv'
BY DEF TimerInv, TimerType, CallbacksConsistent, NoStuckTransaction, timerVars

(* No work appears as long as the list, the ghosts and the workspaces stay.  *)
LEMMA WorkUntouched ==
  ASSUME UNCHANGED <<entries, ghosts, active, presented>>
  PROVE  WorkPending' => WorkPending
BY DEF WorkPending, Members

-----------------------------------------------------------------------------
(* The operations of the engine.                                             *)

LEMMA PushedParts ==
  ASSUME BookInv, NEW D \in SUBSET Toplevel, NEW box \in [D -> AnySize]
  PROVE  /\ NewlyDirty(box) \in SUBSET D /\ NewlyReady(box) \in SUBSET D
         /\ NewlyDirty(box) \cap Dirty = {} /\ NewlyReady(box) \cap Dirty = {}
         /\ NewlyDirty(box) \cap NewlyReady(box) = {}
BY DEF NewlyDirty, NewlyReady, Dirty

LEMMA SubmitKeeps ==
  ASSUME BookInv, SizeType,
         NEW D \in SUBSET Toplevel, NEW box \in [D -> AnySize],
         NEW removed \in SUBSET Toplevel, D \cap removed = {},
         Submit(box, removed)
  PROVE  /\ BookInv'
         /\ Dirty' \subseteq (Dirty \ removed) \cup D
         /\ requested' \in [Toplevel -> AnySize]
         /\ configure' \in [Toplevel -> ConfigureState]
         /\ snapshot' \in [Toplevel -> BOOLEAN]
<1>1. BookInv' /\ Dirty' = (Dirty \ removed) \cup NewlyDirty(box)
  <2>1. Book(NewlyDirty(box), NewlyReady(box), removed)
    BY DEF Submit
  <2>2. (NewlyDirty(box) \cup NewlyReady(box)) \cap removed = {}
    BY PushedParts
  <2>3. /\ NewlyDirty(box) \in SUBSET Toplevel /\ NewlyReady(box) \in SUBSET Toplevel
        /\ NewlyDirty(box) \cap Dirty = {} /\ NewlyReady(box) \cap Dirty = {}
        /\ NewlyDirty(box) \cap NewlyReady(box) = {}
    BY PushedParts
  <2> QED
    BY <2>1, <2>2, <2>3, BookKeeps
<1>2. requested' \in [Toplevel -> AnySize]
  BY DEF Submit, Override, SizeType
<1>3. configure' \in [Toplevel -> ConfigureState]
  BY DEF Submit, SizeType, ConfigureState
<1>4. snapshot' \in [Toplevel -> BOOLEAN]
  BY DEF Submit, SizeType
<1> QED
  BY <1>1, <1>2, <1>3, <1>4, PushedParts

(* Nobody was pushed: the list is as it was.                                 *)
LEMMA NothingPushed ==
  ASSUME BookInv, NEW D \in SUBSET Toplevel, NEW box \in [D -> AnySize],
         Pushed(box) = {}, Submit(box, {})
  PROVE  UNCHANGED listVars
<1>1. NewlyDirty(box) = {} /\ NewlyReady(box) = {} /\ Book({}, {}, {})
  BY DEF Pushed, Submit
<1>2. transaction_state' = transaction_state /\ entries' = entries
  BY <1>1 DEF Book, BookInv, BookType, Taken
<1>3. dirty_count' = dirty_count
  <2>1. Discounted({}) = {} /\ Cardinality({}) = 0
    BY FS_EmptySet DEF Discounted
  <2>2. dirty_count' = dirty_count + 0 - 0
    BY <1>1, <2>1 DEF Book
  <2> QED
    BY <2>2 DEF BookInv, BookType
<1> QED
  BY <1>2, <1>3 DEF listVars

(* Sizes are requested and schedule_stuff is called, at least if anybody was *)
(* pushed or the ghosts or workspaces changed.                               *)
LEMMA SubmitThenSchedule ==
  ASSUME BookInv, TimerInv, SizeType,
         NEW D \in SUBSET Toplevel, NEW box \in [D -> AnySize],
         NEW called \in BOOLEAN,
         Submit(box, {}),
         ScheduleIf(called),
         Pushed(box) # {} => called,
         ~called => UNCHANGED <<ghosts, active, presented>>
  PROVE  BookInv' /\ TimerInv' /\ Dirty' \subseteq Dirty \cup D
<1>1. BookInv' /\ Dirty' \subseteq Dirty \cup D
  BY SubmitKeeps
<1>2. CASE called
  BY <1>1, <1>2, ScheduleKeeps DEF ScheduleIf
<1>3. CASE ~called
  <2>1. UNCHANGED listVars
    BY <1>3, NothingPushed
  <2>2. WorkPending' => WorkPending
    BY <1>3, <2>1, WorkUntouched DEF listVars
  <2>3. UNCHANGED timerVars
    BY <1>3 DEF ScheduleIf
  <2>4. dirty_count \in Nat /\ dirty_count' = dirty_count
    BY <2>1, CountIsNat DEF BookInv, listVars
  <2> QED
    BY <1>1, <2>2, <2>3, <2>4, TimerUntouched
<1> QED
  BY <1>2, <1>3, <1>1

LEMMA AddDirtyKeeps ==
  ASSUME BookInv, TimerInv, SizeType,
         NEW D \in SUBSET Toplevel, NEW box \in [D -> AnySize],
         AddDirty(box),
         UNCHANGED <<ghosts, active, presented>>
  PROVE  BookInv' /\ TimerInv' /\ SizeType' /\ Dirty' \subseteq Dirty \cup D
<1>1. Submit(box, {}) /\ ScheduleIf(Pushed(box) # {})
  BY DEF AddDirty
<1>2. BookInv' /\ TimerInv' /\ Dirty' \subseteq Dirty \cup D
  BY <1>1, SubmitThenSchedule
<1>3. pending' \in [Toplevel -> AnySize]
  BY DEF AddDirty, Override, SizeType
<1>4. SizeType'
  BY <1>1, <1>3, SubmitKeeps DEF SizeType
<1> QED
  BY <1>2, <1>4

LEMMA AddGhostKeeps ==
  ASSUME BookInv, SizeType,
         NEW t \in Toplevel,
         NEW D \in SUBSET (Toplevel \ {t}), NEW box \in [D -> AnySize],
         AddGhost(t, box)
  PROVE  BookInv' /\ TimerInv' /\ SizeType' /\ Dirty' \subseteq (Dirty \ {t}) \cup D
<1>1. Submit(box, {t}) /\ ScheduleStuff
  BY DEF AddGhost
<1>2. /\ BookInv' /\ Dirty' \subseteq (Dirty \ {t}) \cup D
      /\ requested' \in [Toplevel -> AnySize]
      /\ configure' \in [Toplevel -> ConfigureState]
      /\ snapshot' \in [Toplevel -> BOOLEAN]
  <2>1. D \in SUBSET Toplevel /\ {t} \in SUBSET Toplevel /\ D \cap {t} = {}
    OBVIOUS
  <2> QED
    BY <1>1, <2>1, SubmitKeeps
<1>3. TimerInv'
  BY <1>1, <1>2, ScheduleKeeps
<1>4. pending' \in [Toplevel -> AnySize]
  BY DEF AddGhost, Override, SizeType
<1>5. SizeType'
  BY <1>2, <1>4 DEF SizeType
<1> QED
  BY <1>2, <1>3, <1>5

(* A toplevel that is not dirty joins, or stays in, the list.                *)
LEMMA JoinKeeps ==
  ASSUME BookInv, NEW t \in Toplevel, t \notin Dirty, Join(t)
  PROVE  BookInv' /\ Dirty' = Dirty
<1>1. CASE transaction_state[t] = "CLEAN"
  <2>1. Book({}, {t}, {})
    BY <1>1 DEF Join
  <2>2. {t} \cap Dirty = {} /\ {t} \in SUBSET Toplevel
    OBVIOUS
  <2>3. BookInv' /\ Dirty' = (Dirty \ {}) \cup {}
    BY <2>1, <2>2, BookKeeps
  <2> QED
    BY <2>3
<1>2. CASE transaction_state[t] # "CLEAN"
  BY <1>2, BookUntouched DEF Join
<1> QED
  BY <1>1, <1>2

LEMMA AddAutoKeeps ==
  ASSUME BookInv, TimerInv, NEW t \in Toplevel, AddAuto(t),
         pending \in [Toplevel -> AnySize],
         geometry' \in [Toplevel -> AnySize],
         UNCHANGED <<ghosts, active, presented>>
  PROVE  /\ BookInv' /\ TimerInv' /\ Dirty' = Dirty
         /\ pending' \in [Toplevel -> AnySize]
<1>1. CASE transaction_state[t] = "DIRTY"
  <2>1. UNCHANGED <<pending, listVars, timerVars>>
    BY <1>1 DEF AddAuto
  <2>2. BookInv' /\ Dirty' = Dirty /\ dirty_count' \in Nat
    BY <2>1, BookUntouched
  <2>3. TimerInv'
    <3>1. dirty_count' = dirty_count
      BY <2>1 DEF listVars
    <3>2. WorkPending' => WorkPending
      BY <2>1, WorkUntouched DEF listVars
    <3> QED
      BY <2>1, <2>2, <3>1, <3>2, TimerUntouched
  <2> QED
    BY <2>1, <2>2, <2>3
<1>2. CASE transaction_state[t] # "DIRTY"
  <2>1. Join(t) /\ ScheduleStuff /\ pending' = [pending EXCEPT ![t] = geometry'[t]]
    BY <1>2 DEF AddAuto
  <2>2. BookInv' /\ Dirty' = Dirty
    BY <1>2, <2>1, JoinKeeps DEF Dirty
  <2>3. TimerInv'
    BY <2>1, <2>2, ScheduleKeeps
  <2> QED
    BY <2>1, <2>2, <2>3
<1> QED
  BY <1>1, <1>2

LEMMA AddReadyKeeps ==
  ASSUME BookInv, TimerInv, NEW t \in Toplevel, AddReady(t),
         UNCHANGED <<ghosts, active, presented>>
  PROVE  BookInv' /\ TimerInv' /\ Dirty' = Dirty
<1>1. CASE transaction_state[t] = "CLEAN"
  <2>1. BookInv' /\ Dirty' = Dirty
    BY <1>1, JoinKeeps DEF AddReady, Dirty
  <2> QED
    BY <1>1, <2>1, ScheduleKeeps DEF AddReady, ScheduleIf
<1>2. CASE transaction_state[t] # "CLEAN"
  <2>1. UNCHANGED listVars /\ UNCHANGED timerVars
    BY <1>2 DEF AddReady, Join, ScheduleIf
  <2>2. BookInv' /\ Dirty' = Dirty /\ dirty_count' \in Nat
    BY <2>1, BookUntouched
  <2>3. dirty_count' = dirty_count
    BY <2>1 DEF listVars
  <2>4. WorkPending' => WorkPending
    BY <2>1, WorkUntouched DEF listVars
  <2> QED
    BY <2>1, <2>2, <2>3, <2>4, TimerUntouched
<1> QED
  BY <1>1, <1>2

(* Perform empties the list: whoever is not clean is in it.                  *)
LEMMA PerformKeeps ==
  ASSUME BookInv, SizeType, RestType, Perform,
         geometry' \in [Toplevel -> AnySize],
         configure' \in [Toplevel -> ConfigureState],
         schedule' \in BOOLEAN
  PROVE  BookInv' /\ TimerInv' /\ SizeType' /\ RestType' /\ Dirty' = {}
<1>1. transaction_state' = [t \in Toplevel |-> "CLEAN"]
  <2>1. \A t \in Toplevel : t \notin Members => transaction_state[t] = "CLEAN"
    BY DEF BookInv, BookType, UncleanIsListed, Members
  <2> QED
    BY <2>1 DEF Perform
<1>2. Dirty' = {}
  BY <1>1 DEF Dirty
<1>3. BookInv'
  <2>1. BookType'
    BY <1>1 DEF Perform, BookType, TransactionState
  <2>2. DirtyCountExact'
    <3>1. {t \in Toplevel : transaction_state'[t] = "DIRTY"} = {}
      BY <1>1
    <3> QED
      BY <3>1, FS_EmptySet DEF DirtyCountExact, Perform
  <2>3. UncleanIsListed'
    BY <1>1 DEF UncleanIsListed
  <2> QED
    BY <2>1, <2>2, <2>3 DEF BookInv
<1>4. TimerInv'
  <2>1. ~WorkPending'
    BY DEF Perform, WorkPending, Members, RestType
  <2>2. time_out' = Unarmed /\ dirty_count' = 0
    BY DEF Perform
  <2>3. TimerType'
    BY <2>2 DEF TimerType
  <2>4. CallbacksConsistent' /\ NoStuckTransaction'
    BY <2>1, <2>2 DEF CallbacksConsistent, NoStuckTransaction
  <2> QED
    BY <2>3, <2>4 DEF TimerInv
<1>5. SizeType'
  <2>1. pending' \in [Toplevel -> AnySize]
    BY DEF Perform, SizeType
  <2>2. snapshot' \in [Toplevel -> BOOLEAN]
    BY DEF Perform, SizeType
  <2> QED
    BY <2>1, <2>2 DEF Perform, SizeType
<1>6. RestType'
  <2>1. life' \in [Toplevel -> Life]
    BY DEF Perform, RestType, Life
  <2>2. current' \in [Toplevel -> AnySize]
    BY <1>5 DEF Perform, RestType, SizeType
  <2>3. needs_initial_enable' \in [Toplevel -> BOOLEAN]
    BY DEF Perform, RestType
  <2>4. shown' \in [Toplevel -> BOOLEAN]
    BY DEF Perform, RestType
  <2>5. crashed' \in BOOLEAN
    BY DEF Perform
  <2> QED
    BY <2>1, <2>2, <2>3, <2>4, <2>5 DEF Perform, RestType
<1> QED
  BY <1>2, <1>3, <1>4, <1>5, <1>6

-----------------------------------------------------------------------------
(* The handlers.                                                             *)

LEMMA DirtyMapped == DirtyIsMapped <=> Dirty \subseteq Mapped
BY DEF DirtyIsMapped, Dirty, Mapped

LEMMA DirtyMappedNext == DirtyIsMapped' <=> Dirty' \subseteq Mapped'
BY DEF DirtyIsMapped, Dirty, Mapped

LEMMA SizeBox ==
  ASSUME NEW D, NEW box \in [D -> LayoutSize]
  PROVE  box \in [D -> AnySize]
BY LayoutSizeIsSize

LEMMA HeirsType ==
  ASSUME NEW t
  PROVE  Heirs(t) \subseteq Toplevel \cup {None}
BY DEF Heirs, Tiled, Mapped

LEMMA TiledIsMapped ==
  ASSUME NEW w
  PROVE  Tiled(w) \subseteq Mapped /\ Mapped \subseteq Toplevel
BY DEF Tiled, Mapped

(* An action the engine does not notice.                                     *)
LEMMA EngineUntouched ==
  ASSUME IInv, UNCHANGED <<listVars, timerVars, ghosts, active, presented>>
  PROVE  BookInv' /\ TimerInv' /\ Dirty' = Dirty
<1>1. UNCHANGED listVars /\ UNCHANGED timerVars /\ dirty_count' = dirty_count
  BY DEF listVars
<1>2. BookInv' /\ Dirty' = Dirty /\ dirty_count' \in Nat
  BY <1>1, BookUntouched DEF IInv
<1>3. WorkPending' => WorkPending
  BY WorkUntouched DEF listVars
<1> QED
  BY <1>1, <1>2, <1>3, TimerUntouched DEF IInv

LEMMA ClientStep ==
  ASSUME IInv, NEW t \in Toplevel, ClientNext(t)
  PROVE  IInv'
<1> USE DEF IInv
<1>0. Dirty \subseteq Mapped
  BY DirtyMapped
<1>1. CASE Create(t)
  <2>1. BookInv' /\ TimerInv' /\ Dirty' = Dirty
    BY <1>1, EngineUntouched DEF Create, workspaceVars
  <2>2. SizeType' /\ RestType'
    BY <1>1 DEF Create, SizeType, RestType, Life, sizeVars, workspaceVars
  <2>3. Dirty' \subseteq Mapped'
    BY <1>0, <1>1, <2>1 DEF Create, Mapped, RestType
  <2> QED
    BY <2>1, <2>2, <2>3, DirtyMappedNext
<1>2. CASE InitialCommit(t)
  <2>1. BookInv' /\ TimerInv' /\ Dirty' = Dirty
    BY <1>2, EngineUntouched DEF InitialCommit, workspaceVars
  <2>2. SizeType' /\ RestType'
    BY <1>2 DEF InitialCommit, SizeType, RestType, Life, ConfigureState, sceneVars,
                workspaceVars
  <2>3. Dirty' \subseteq Mapped'
    BY <1>0, <1>2, <2>1 DEF InitialCommit, Mapped, RestType
  <2> QED
    BY <2>1, <2>2, <2>3, DirtyMappedNext
<1>3. ASSUME NEW st \in State, NEW drawn \in Size, Appear(t, st, drawn),
             NEW D \in SUBSET (Mapped \cup {t}), Dirty' \subseteq Dirty \cup D
      PROVE  /\ Dirty' \subseteq Mapped'
             /\ UNCHANGED <<ghosts, active, presented>>
             /\ geometry' \in [Toplevel -> AnySize]
             /\ master' \in [Workspace -> Toplevel \cup {None}] /\ crashed' \in BOOLEAN
                   => RestType'
  <2>1. Mapped' = Mapped \cup {t}
    BY <1>3 DEF Appear, Mapped, RestType
  <2>2. geometry' \in [Toplevel -> AnySize]
    BY <1>3 DEF Appear, RestType, AnySize
  <2> QED
    BY <1>0, <1>3, <2>1, <2>2 DEF Appear, RestType, Life
<1>4. CASE MapTiled(t)
  <2>1. PICK drawn \in Size, box \in [Tiled(active) \cup {t} -> LayoutSize] :
               /\ Appear(t, "TILED", drawn)
               /\ AddDirty(box)
               /\ master' = WithMaster(master, active, t)
               /\ crashed' = (t \in ghosts /\ master[active] # None)
    BY <1>4 DEF MapTiled
  <2> DEFINE D == Tiled(active) \cup {t}
  <2>2. D \in SUBSET (Mapped \cup {t}) /\ D \in SUBSET Toplevel
    BY TiledIsMapped
  <2>3. box \in [D -> AnySize]
    BY SizeBox
  <2>4. UNCHANGED <<ghosts, active, presented>>
    BY <2>1 DEF Appear
  <2>5. BookInv' /\ TimerInv' /\ SizeType' /\ Dirty' \subseteq Dirty \cup D
    BY <2>1, <2>2, <2>3, <2>4, AddDirtyKeeps
  <2>6. master' \in [Workspace -> Toplevel \cup {None}] /\ crashed' \in BOOLEAN
    BY <2>1 DEF WithMaster, RestType
  <2>7. RestType' /\ Dirty' \subseteq Mapped'
    BY <1>3, <2>1, <2>2, <2>5, <2>6 DEF State
  <2> QED
    BY <2>5, <2>7, DirtyMappedNext
<1>5. CASE MapFloat(t)
  <2>1. PICK drawn \in Size :
               /\ Appear(t, "FLOAT", drawn)
               /\ configure' = [configure EXCEPT ![t] = "acked"]
               /\ AddAuto(t)
               /\ crashed' = (t \in ghosts)
               /\ UNCHANGED <<requested, snapshot, master>>
    BY <1>5 DEF MapFloat
  <2>2. UNCHANGED <<ghosts, active, presented>> /\ geometry' \in [Toplevel -> AnySize]
    BY <2>1 DEF Appear, RestType, AnySize
  <2>3. /\ BookInv' /\ TimerInv' /\ Dirty' = Dirty
        /\ pending' \in [Toplevel -> AnySize]
    BY <2>1, <2>2, AddAutoKeeps DEF SizeType
  <2>4. SizeType'
    BY <2>1, <2>3 DEF SizeType, ConfigureState
  <2>5. RestType' /\ Dirty' \subseteq Mapped'
    <3>1. master' \in [Workspace -> Toplevel \cup {None}] /\ crashed' \in BOOLEAN
      BY <2>1 DEF RestType
    <3>2. "FLOAT" \in State /\ Dirty' \subseteq Dirty \cup {} /\ {} \in SUBSET (Mapped \cup {t})
      BY <2>3 DEF State
    <3> QED
      BY <1>3, <2>1, <3>1, <3>2
  <2> QED
    BY <2>3, <2>4, <2>5, DirtyMappedNext
<1>6. CASE MapFloatSized(t)
  <2>1. PICK drawn \in Size, rule \in Size :
               /\ Appear(t, "FLOAT", drawn)
               /\ Submit([u \in {t} |-> rule], {})
               /\ pending' = [pending EXCEPT ![t] = IF IsDirty(t, rule) THEN rule ELSE drawn]
               /\ ScheduleStuff
               /\ crashed' = (t \in ghosts)
               /\ UNCHANGED master
    BY <1>6 DEF MapFloatSized
  <2> DEFINE box == [u \in {t} |-> rule]
  <2>2. {t} \in SUBSET Toplevel /\ box \in [{t} -> AnySize]
    BY DEF AnySize
  <2>3. /\ BookInv' /\ Dirty' \subseteq Dirty \cup {t}
        /\ requested' \in [Toplevel -> AnySize]
        /\ configure' \in [Toplevel -> ConfigureState]
        /\ snapshot' \in [Toplevel -> BOOLEAN]
    <3>1. {t} \cap {} = {} /\ {} \in SUBSET Toplevel
      OBVIOUS
    <3> QED
      BY <2>1, <2>2, <3>1, SubmitKeeps
  <2>4. TimerInv'
    BY <2>1, <2>3, ScheduleKeeps
  <2>5. pending' \in [Toplevel -> AnySize]
    BY <2>1 DEF SizeType, AnySize
  <2>6. SizeType'
    BY <2>3, <2>5 DEF SizeType
  <2>7. RestType' /\ Dirty' \subseteq Mapped'
    <3>1. master' \in [Workspace -> Toplevel \cup {None}] /\ crashed' \in BOOLEAN
      BY <2>1 DEF RestType
    <3>2. "FLOAT" \in State /\ {t} \in SUBSET (Mapped \cup {t})
      BY DEF State
    <3> QED
      BY <1>3, <2>1, <2>3, <3>1, <3>2
  <2> QED
    BY <2>3, <2>4, <2>6, <2>7, DirtyMappedNext
<1>7. ASSUME NEW acks \in BOOLEAN, NEW drawn \in Size, Draw(t, acks, drawn)
      PROVE  /\ t \in Mapped
             /\ configure' \in [Toplevel -> ConfigureState]
             /\ geometry' \in [Toplevel -> AnySize]
  <2>1. t \in Mapped
    BY <1>7 DEF Draw, Mapped
  <2>2. configure' \in [Toplevel -> ConfigureState]
    BY <1>7 DEF Draw, SizeType, ConfigureState
  <2>3. geometry' \in [Toplevel -> AnySize]
    BY <1>7 DEF Draw, RestType, AnySize
  <2> QED
    BY <2>1, <2>2, <2>3
<1>8. CASE CommitIgnored(t)
  <2>1. PICK acks \in BOOLEAN, drawn \in Size :
               /\ Draw(t, acks, drawn)
               /\ UNCHANGED <<life, state, home, requested, pending, sceneVars,
                              workspaceVars, listVars, timerVars, ghosts, crashed>>
    BY <1>8 DEF CommitIgnored
  <2>2. BookInv' /\ TimerInv' /\ Dirty' = Dirty
    BY <2>1, EngineUntouched DEF workspaceVars
  <2>3. configure' \in [Toplevel -> ConfigureState] /\ geometry' \in [Toplevel -> AnySize]
    BY <2>1, <1>7
  <2>4. SizeType' /\ RestType'
    BY <2>1, <2>3 DEF SizeType, RestType, sceneVars, workspaceVars
  <2>5. Dirty' \subseteq Mapped'
    BY <1>0, <2>1, <2>2 DEF Mapped
  <2> QED
    BY <2>2, <2>4, <2>5, DirtyMappedNext
<1>9. CASE CommitReady(t)
  <2>1. PICK acks \in BOOLEAN, drawn \in Size :
               /\ Draw(t, acks, drawn)
               /\ transaction_state[t] = "DIRTY"
               /\ dirty_count > 1
               /\ transaction_state' = [transaction_state EXCEPT ![t] = "READY"]
               /\ dirty_count' = dirty_count - 1
               /\ UNCHANGED <<life, state, home, requested, pending, sceneVars,
                              workspaceVars, entries, timerVars, ghosts, crashed>>
    BY <1>9 DEF CommitReady
  <2>2. dirty_count \in Nat /\ dirty_count = Cardinality(Dirty)
    BY CountIsNat DEF BookInv
  <2>3. Dirty' = Dirty \ {t} /\ t \in Dirty
    BY <2>1 DEF Dirty, BookInv, BookType
  <2>4. DirtyCountExact'
    <3>1. Cardinality(Dirty \ {t}) = Cardinality(Dirty) - 1
      BY <2>3, DirtyFinite, FS_RemoveElement
    <3>2. dirty_count' = Cardinality(Dirty')
      BY <2>1, <2>2, <2>3, <3>1
    <3> QED
      BY <3>2 DEF DirtyCountExact, Dirty
  <2>5. BookInv'
    <3>1. BookType'
      BY <2>1 DEF BookInv, BookType, TransactionState
    <3>2. UncleanIsListed'
      BY <2>1 DEF BookInv, BookType, UncleanIsListed
    <3> QED
      BY <2>4, <3>1, <3>2 DEF BookInv
  <2>6. TimerInv'
    <3>1. WorkPending' => WorkPending
      BY <2>1, WorkUntouched DEF workspaceVars
    <3>2. dirty_count' \in Nat /\ (dirty_count' = 0 <=> dirty_count = 0)
      BY <2>1, <2>2
    <3> QED
      BY <2>1, <2>2, <3>1, <3>2, TimerUntouched
  <2>7. SizeType' /\ RestType'
    BY <1>7, <2>1 DEF SizeType, RestType, sceneVars, workspaceVars
  <2>8. Dirty' \subseteq Mapped'
    BY <1>0, <2>1, <2>3 DEF Mapped
  <2> QED
    BY <2>5, <2>6, <2>7, <2>8, DirtyMappedNext
<1>10. CASE CommitLast(t)
  <2>1. PICK acks \in BOOLEAN, drawn \in Size :
               Draw(t, acks, drawn) /\ Perform /\ UNCHANGED schedule
    BY <1>10 DEF CommitLast
  <2>2. configure' \in [Toplevel -> ConfigureState] /\ geometry' \in [Toplevel -> AnySize]
    BY <1>7, <2>1
  <2>3. schedule' \in BOOLEAN
    BY <2>1 DEF TimerInv, TimerType
  <2>4. BookInv' /\ TimerInv' /\ SizeType' /\ RestType' /\ Dirty' = {}
    BY <2>1, <2>2, <2>3, PerformKeeps
  <2> QED
    BY <2>4, DirtyMappedNext
<1>11. CASE CommitFloat(t)
  <2>1. PICK acks \in BOOLEAN, drawn \in Size :
               /\ Draw(t, acks, drawn)
               /\ AddAuto(t)
               /\ UNCHANGED <<life, state, home, requested, sceneVars, workspaceVars,
                              ghosts, crashed>>
    BY <1>11 DEF CommitFloat
  <2>2. configure' \in [Toplevel -> ConfigureState] /\ geometry' \in [Toplevel -> AnySize]
    BY <1>7, <2>1
  <2>3. /\ BookInv' /\ TimerInv' /\ Dirty' = Dirty
        /\ pending' \in [Toplevel -> AnySize]
    BY <2>1, <2>2, AddAutoKeeps DEF SizeType, workspaceVars
  <2>4. SizeType' /\ RestType'
    BY <2>1, <2>2, <2>3 DEF SizeType, RestType, sceneVars, workspaceVars
  <2>5. Dirty' \subseteq Mapped'
    BY <1>0, <2>1, <2>3 DEF Mapped
  <2> QED
    BY <2>3, <2>4, <2>5, DirtyMappedNext
<1>12. CASE CommitUnmappedFloat(t)
  <2>1. /\ AddAuto(t)
        /\ UNCHANGED <<life, state, home, geometry, requested, configure, sceneVars,
                       workspaceVars, ghosts, crashed>>
    BY <1>12 DEF CommitUnmappedFloat
  <2>2. geometry' \in [Toplevel -> AnySize]
    BY <2>1 DEF RestType
  <2>3. /\ BookInv' /\ TimerInv' /\ Dirty' = Dirty
        /\ pending' \in [Toplevel -> AnySize]
    BY <2>1, <2>2, AddAutoKeeps DEF SizeType, workspaceVars
  <2>4. SizeType' /\ RestType'
    BY <2>1, <2>3 DEF SizeType, RestType, sceneVars, workspaceVars
  <2>5. Dirty' \subseteq Mapped'
    BY <1>0, <2>1, <2>3 DEF Mapped
  <2> QED
    BY <2>3, <2>4, <2>5, DirtyMappedNext
<1>13. CASE Unmap(t)
  <2> DEFINE left == IF state[t] = "TILED" THEN Tiled(home[t]) \ {t} ELSE {}
  <2>1. PICK box \in [left -> LayoutSize], heir \in Heirs(t) :
               AddGhost(t, box) /\ master' = WithoutMaster(master, t, heir)
    BY <1>13 DEF Unmap
  <2>2. left \in SUBSET (Toplevel \ {t}) /\ left \subseteq Mapped
    BY TiledIsMapped
  <2>3. box \in [left -> AnySize]
    BY SizeBox
  <2>4. BookInv' /\ TimerInv' /\ SizeType' /\ Dirty' \subseteq (Dirty \ {t}) \cup left
    BY <2>1, <2>2, <2>3, AddGhostKeeps
  <2>5. RestType'
    <3>1. master' \in [Workspace -> Toplevel \cup {None}]
      BY <2>1, HeirsType DEF WithoutMaster, RestType
    <3>2. ghosts' \in SUBSET Toplevel
      BY <2>1 DEF AddGhost, RestType
    <3>3. fullscreen' \in [Workspace -> Toplevel \cup {None}]
      BY <1>13 DEF Unmap, RestType
    <3>4. life' \in [Toplevel -> Life] /\ geometry' \in [Toplevel -> AnySize]
      BY <1>13 DEF Unmap, RestType, Life, AnySize
    <3>5. crashed' \in BOOLEAN
      BY <1>13 DEF Unmap
    <3>6. /\ active' \in Workspace
          /\ UNCHANGED <<state, home, current, needs_initial_enable, shown, presented>>
      BY <1>13 DEF Unmap, ActiveAfterFocus, RestType
    <3> QED
      BY <3>1, <3>2, <3>3, <3>4, <3>5, <3>6 DEF RestType
  <2>6. Dirty' \subseteq Mapped'
    <3>1. Mapped' = Mapped \ {t}
      BY <1>13 DEF Unmap, Mapped, RestType
    <3> QED
      BY <1>0, <2>2, <2>4, <3>1
  <2> QED
    BY <2>4, <2>5, <2>6, DirtyMappedNext
<1>14. CASE Destroy(t)
  <2>1. t \notin Dirty
    BY <1>0, <1>14 DEF Destroy, Mapped
  <2>2. /\ transaction_state' = [transaction_state EXCEPT ![t] = "CLEAN"]
        /\ UNCHANGED <<workspaceVars, entries, dirty_count, timerVars, ghosts>>
    BY <1>14 DEF Destroy
  <2>3. Dirty' = Dirty
    BY <2>1, <2>2 DEF Dirty, BookInv, BookType
  <2>4. BookInv'
    <3>1. BookType' /\ UncleanIsListed'
      BY <2>2 DEF BookInv, BookType, UncleanIsListed, TransactionState
    <3>2. DirtyCountExact'
      BY <2>2, <2>3 DEF BookInv, DirtyCountExact, Dirty
    <3> QED
      BY <3>1, <3>2 DEF BookInv
  <2>5. TimerInv'
    <3>1. WorkPending' => WorkPending
      BY <2>2, WorkUntouched DEF workspaceVars
    <3>2. dirty_count \in Nat /\ dirty_count' = dirty_count
      BY <2>2, CountIsNat DEF BookInv
    <3> QED
      BY <2>2, <3>1, <3>2, TimerUntouched
  <2>6. SizeType' /\ RestType'
    BY <1>14 DEF Destroy, SizeType, RestType, Life, State, ConfigureState, AnySize,
                 workspaceVars
  <2>7. Dirty' \subseteq Mapped'
    BY <1>0, <1>14, <2>1, <2>3 DEF Destroy, Mapped, RestType
  <2> QED
    BY <2>4, <2>5, <2>6, <2>7, DirtyMappedNext
<1> QED
  BY <1>1, <1>2, <1>4, <1>5, <1>6, <1>8, <1>9, <1>10, <1>11, <1>12, <1>13, <1>14
  DEF ClientNext

(* Whatever state is asked for, the sizes that go with it are sizes.         *)
LEMMA SetStateSizes ==
  ASSUME NEW t \in Toplevel, NEW st \in State, SetState(t, st)
  PROVE  LET rest == IF "TILED" \in {state[t], st} THEN Tiled(home[t]) \ {t} ELSE {} IN
         \E size \in AnySize, others \in [rest -> LayoutSize] :
           AddDirty([u \in rest \cup {t} |-> IF u = t THEN size ELSE others[u]])
<1> DEFINE rest == IF "TILED" \in {state[t], st} THEN Tiled(home[t]) \ {t} ELSE {}
           own == CASE st = "TILED"      -> LayoutSize
                    [] st = "FLOAT"      -> AnySize
                    [] st = "FULLSCREEN" -> Size
<1>1. PICK size \in own, others \in [rest -> LayoutSize] :
             AddDirty([u \in rest \cup {t} |-> IF u = t THEN size ELSE others[u]])
  BY DEF SetState
<1>2. own \subseteq AnySize
  BY LayoutSizeIsSize DEF AnySize, State
<1> QED
  BY <1>1, <1>2

LEMMA SetStateStep ==
  ASSUME IInv, NEW t \in Toplevel, NEW st \in State, SetState(t, st)
  PROVE  IInv'
<1> DEFINE w == home[t]
           rest == IF "TILED" \in {state[t], st} THEN Tiled(w) \ {t} ELSE {}
           D == rest \cup {t}
<1>1. t \in Mapped /\ rest \subseteq Mapped /\ D \in SUBSET Toplevel
  BY TiledIsMapped DEF SetState, Mapped
<1>2. UNCHANGED <<life, home, geometry, current, needs_initial_enable, shown, active,
                  presented, ghosts>>
  BY DEF SetState
<1>3. PICK size \in AnySize, others \in [rest -> LayoutSize] :
             AddDirty([u \in D |-> IF u = t THEN size ELSE others[u]])
  BY SetStateSizes
<1>4. [u \in D |-> IF u = t THEN size ELSE others[u]] \in [D -> AnySize]
  BY LayoutSizeIsSize
<1>5. BookInv' /\ TimerInv' /\ SizeType' /\ Dirty' \subseteq Dirty \cup D
  BY <1>1, <1>2, <1>3, <1>4, AddDirtyKeeps DEF IInv
<1>6. RestType'
  <2>1. PICK heir \in Heirs(t) :
          LET left == WithoutMaster(master, t, heir) IN
          /\ master' = IF st = "TILED" THEN WithMaster(left, w, t) ELSE left
          /\ crashed' = (t \in ghosts /\ (st = "FLOAT" \/ (st = "TILED" /\ left[w] # None)))
    BY DEF SetState
  <2>2. WithoutMaster(master, t, heir) \in [Workspace -> Toplevel \cup {None}]
    BY HeirsType DEF WithoutMaster, IInv, RestType
  <2>3. master' \in [Workspace -> Toplevel \cup {None}] /\ crashed' \in BOOLEAN
    BY <2>1, <2>2 DEF WithMaster
  <2>4. fullscreen' \in [Workspace -> Toplevel \cup {None}]
    BY DEF SetState, IInv, RestType
  <2>5. state' \in [Toplevel -> State]
    BY DEF SetState, IInv, RestType
  <2> QED
    BY <1>2, <2>3, <2>4, <2>5 DEF IInv, RestType
<1>7. Dirty' \subseteq Mapped'
  BY <1>1, <1>2, <1>5, DirtyMapped DEF IInv, Mapped
<1> QED
  BY <1>5, <1>6, <1>7, DirtyMappedNext DEF IInv

LEMMA MoveToWorkspaceStep ==
  ASSUME IInv, NEW t \in Toplevel, NEW w \in Workspace, MoveToWorkspace(t, w)
  PROVE  IInv'
<1> DEFINE old == home[t]
           tiled == IF state[t] = "TILED" THEN (Tiled(old) \ {t}) \cup Tiled(w) ELSE {}
           sized == IF state[t] = "FLOAT" THEN {} ELSE tiled \cup {t}
           own == IF state[t] = "TILED" THEN LayoutSize ELSE Size
<1>1. t \in Mapped /\ sized \subseteq Mapped /\ sized \in SUBSET Toplevel
  BY TiledIsMapped DEF MoveToWorkspace, Mapped
<1>2. /\ UNCHANGED <<life, state, geometry, current, needs_initial_enable, shown,
                     presented, ghosts>>
      /\ active' = w
  BY DEF MoveToWorkspace
<1>3. PICK box \in [sized -> own] :
             /\ Submit(box, {})
             /\ pending' = Override(box, pending)
             /\ ScheduleIf(Pushed(box) # {} \/ w # active)
  BY DEF MoveToWorkspace
<1>4. box \in [sized -> AnySize]
  BY LayoutSizeIsSize DEF AnySize
<1>5. BookInv' /\ TimerInv' /\ Dirty' \subseteq Dirty \cup sized
  <2> DEFINE called == Pushed(box) # {} \/ w # active
  <2>1. ~called => UNCHANGED <<ghosts, active, presented>>
    BY <1>2
  <2> QED
    BY <1>1, <1>3, <1>4, <2>1, SubmitThenSchedule DEF IInv
<1>6. SizeType'
  <2>1. pending' \in [Toplevel -> AnySize]
    BY <1>3, <1>4 DEF Override, IInv, SizeType
  <2>2. {} \in SUBSET Toplevel /\ sized \cap {} = {}
    OBVIOUS
  <2> QED
    BY <1>1, <1>3, <1>4, <2>1, <2>2, SubmitKeeps DEF IInv, SizeType
<1>7. RestType'
  <2>1. master' \in [Workspace -> Toplevel \cup {None}]
    <3>1. PICK heir \in Heirs(t) :
            master' = IF state[t] = "TILED"
                      THEN WithMaster(WithoutMaster(master, t, heir), w, t) ELSE master
      BY DEF MoveToWorkspace
    <3>2. WithoutMaster(master, t, heir) \in [Workspace -> Toplevel \cup {None}]
      BY HeirsType DEF WithoutMaster, IInv, RestType
    <3> QED
      BY <3>1, <3>2 DEF WithMaster, IInv, RestType
  <2>2. fullscreen' \in [Workspace -> Toplevel \cup {None}]
    BY DEF MoveToWorkspace, IInv, RestType
  <2>3. home' \in [Toplevel -> Workspace \cup {None}] /\ crashed' \in BOOLEAN
    BY DEF MoveToWorkspace, IInv, RestType
  <2> QED
    BY <1>2, <2>1, <2>2, <2>3 DEF IInv, RestType
<1>8. Dirty' \subseteq Mapped'
  BY <1>1, <1>2, <1>5, DirtyMapped DEF IInv, Mapped
<1> QED
  BY <1>5, <1>6, <1>7, <1>8, DirtyMappedNext DEF IInv

LEMMA UserStep ==
  ASSUME IInv, UserNext
  PROVE  IInv'
<1>0. Dirty \subseteq Mapped
  BY DirtyMapped DEF IInv
<1>1. CASE \E t \in Toplevel : \E st \in State : SetState(t, st)
  BY <1>1, SetStateStep
<1>2. CASE \E t \in Toplevel : \E w \in Workspace : MoveToWorkspace(t, w)
  BY <1>2, MoveToWorkspaceStep
<1>3. ASSUME NEW w \in Workspace, ChangeWorkspace(w)
      PROVE  IInv'
  <2>1. UNCHANGED listVars /\ ScheduleStuff
    BY <1>3 DEF ChangeWorkspace
  <2>2. BookInv' /\ Dirty' = Dirty
    BY <2>1, BookUntouched DEF IInv
  <2>3. TimerInv'
    BY <2>1, <2>2, ScheduleKeeps
  <2>4. SizeType' /\ RestType'
    BY <1>3 DEF ChangeWorkspace, IInv, SizeType, RestType, sizeVars, sceneVars, toplevelVars
  <2>5. Dirty' \subseteq Mapped'
    BY <1>0, <1>3, <2>2 DEF ChangeWorkspace, Mapped, toplevelVars
  <2> QED
    BY <2>2, <2>3, <2>4, <2>5, DirtyMappedNext DEF IInv
<1>4. ASSUME NEW D \in SUBSET Mapped, NEW box \in [D -> AnySize], AddDirty(box),
             UNCHANGED <<toplevelVars, current, needs_initial_enable, shown, fullscreen,
                         active, presented, ghosts>>,
             master' \in [Workspace -> Toplevel \cup {None}],
             crashed' \in BOOLEAN
      PROVE  IInv'
  <2>1. D \in SUBSET Toplevel
    BY DEF Mapped
  <2>2. BookInv' /\ TimerInv' /\ SizeType' /\ Dirty' \subseteq Dirty \cup D
    BY <1>4, <2>1, AddDirtyKeeps DEF IInv
  <2>3. RestType'
    BY <1>4 DEF IInv, RestType, toplevelVars
  <2>4. Dirty' \subseteq Mapped'
    BY <1>0, <1>4, <2>2 DEF Mapped, toplevelVars
  <2> QED
    BY <2>2, <2>3, <2>4, DirtyMappedNext DEF IInv
<1>5. ASSUME NEW t \in Toplevel, NEW u \in Toplevel, Swap(t, u)
      PROVE  IInv'
  <2>1. PICK box \in [Tiled(home[t]) -> LayoutSize] : AddDirty(box)
    BY <1>5 DEF Swap
  <2>2. Tiled(home[t]) \in SUBSET Mapped
    BY TiledIsMapped
  <2>3. master' \in [Workspace -> Toplevel \cup {None}] /\ crashed' \in BOOLEAN
    BY <1>5 DEF Swap, IInv, RestType
  <2>4. UNCHANGED <<toplevelVars, current, needs_initial_enable, shown, fullscreen,
                    active, presented, ghosts>>
    BY <1>5 DEF Swap
  <2> QED
    BY <1>4, <2>1, <2>2, <2>3, <2>4, SizeBox
<1>6. ASSUME NEW t \in Toplevel, GrabFloat(t)
      PROVE  IInv'
  <2>1. BookInv' /\ TimerInv' /\ Dirty' = Dirty
    BY <1>6, AddReadyKeeps DEF GrabFloat, IInv, workspaceVars
  <2>2. SizeType' /\ RestType'
    BY <1>6 DEF GrabFloat, IInv, SizeType, RestType, toplevelVars, sizeVars, sceneVars,
                workspaceVars
  <2>3. Dirty' \subseteq Mapped'
    BY <1>0, <1>6, <2>1 DEF GrabFloat, Mapped, toplevelVars
  <2> QED
    BY <2>1, <2>2, <2>3, DirtyMappedNext DEF IInv
<1>7. ASSUME NEW t \in Toplevel, ResizeFloat(t)
      PROVE  IInv'
  <2>1. PICK size \in Size : AddDirty([u \in {t} |-> size])
    BY <1>7 DEF ResizeFloat
  <2>2. {t} \in SUBSET Mapped /\ [u \in {t} |-> size] \in [{t} -> AnySize]
    BY <1>7 DEF ResizeFloat, AnySize
  <2>3. UNCHANGED <<toplevelVars, current, needs_initial_enable, shown, fullscreen,
                    active, presented, ghosts, master, crashed>>
    BY <1>7 DEF ResizeFloat, workspaceVars
  <2>4. master' \in [Workspace -> Toplevel \cup {None}] /\ crashed' \in BOOLEAN
    BY <2>3 DEF IInv, RestType
  <2> QED
    BY <1>4, <2>1, <2>2, <2>3, <2>4
<1>8. CASE Arrange
  <2> DEFINE tiled == {t \in Mapped : state[t] = "TILED"}
  <2>1. PICK box \in [tiled -> LayoutSize] : AddDirty(box)
    BY <1>8 DEF Arrange
  <2>2. UNCHANGED <<toplevelVars, current, needs_initial_enable, shown, fullscreen,
                    active, presented, ghosts, master, crashed>>
    BY <1>8 DEF Arrange, workspaceVars
  <2>3. master' \in [Workspace -> Toplevel \cup {None}] /\ crashed' \in BOOLEAN
    BY <2>2 DEF IInv, RestType
  <2>4. tiled \in SUBSET Mapped
    OBVIOUS
  <2> QED
    BY <1>4, <2>1, <2>2, <2>3, <2>4, SizeBox
<1> QED
  BY <1>1, <1>2, <1>3, <1>5, <1>6, <1>7, <1>8 DEF UserNext

LEMMA LoopStep ==
  ASSUME IInv, LoopNext
  PROVE  IInv'
<1>1. CASE Idle
  <2>1. /\ configure' = [t \in Toplevel |->
                           IF configure[t] = "scheduled" THEN "sent" ELSE configure[t]]
        /\ UNCHANGED geometry
        /\ schedule' = FALSE
    BY <1>1 DEF Idle
  <2>2. configure' \in [Toplevel -> ConfigureState] /\ geometry' \in [Toplevel -> AnySize]
    BY <2>1 DEF IInv, SizeType, RestType, ConfigureState
  <2>3. CASE schedule
    <3>1. Perform /\ schedule' \in BOOLEAN
      BY <1>1, <2>1, <2>3 DEF Idle
    <3>2. BookInv' /\ TimerInv' /\ SizeType' /\ RestType' /\ Dirty' = {}
      BY <2>2, <3>1, PerformKeeps DEF IInv
    <3> QED
      BY <3>2, DirtyMappedNext DEF IInv
  <2>4. CASE ~schedule
    <3>1. UNCHANGED <<life, state, home, requested, pending, sceneVars, workspaceVars,
                      listVars, time_out, ghosts, crashed>>
      BY <1>1, <2>4 DEF Idle
    <3>2. UNCHANGED timerVars
      BY <2>1, <2>4, <3>1 DEF timerVars, IInv, TimerInv, TimerType
    <3>3. BookInv' /\ TimerInv' /\ Dirty' = Dirty
      BY <3>1, <3>2, EngineUntouched DEF workspaceVars
    <3>4. SizeType' /\ RestType'
      BY <2>2, <3>1 DEF IInv, SizeType, RestType, sceneVars, workspaceVars
    <3>5. Dirty' \subseteq Mapped'
      BY <3>1, <3>3, DirtyMapped DEF IInv, Mapped
    <3> QED
      BY <3>3, <3>4, <3>5, DirtyMappedNext DEF IInv
  <2> QED
    BY <2>3, <2>4
<1>2. CASE Tick
  <2>1. time_out > 0 /\ time_out' = time_out - 1 /\ UNCHANGED <<listVars, schedule>>
    BY <1>2 DEF Tick
  <2>2. BookInv' /\ Dirty' = Dirty
    BY <2>1, BookUntouched DEF IInv
  <2>3. TimerInv'
    <3>1. time_out \in 1..TimeOutTicks /\ time_out' \in 0..TimeOutTicks
      BY <2>1, TimeOutTicksPositive DEF IInv, TimerInv, TimerType, Unarmed
    <3>2. TimerType' /\ time_out # Unarmed /\ time_out' # Unarmed
      BY <2>1, <3>1 DEF IInv, TimerInv, TimerType, Unarmed
    <3>3. schedule' = schedule /\ dirty_count' = dirty_count
      BY <2>1 DEF listVars
    <3>4. WorkPending' => WorkPending
      BY <1>2, WorkUntouched DEF Tick, listVars, workspaceVars
    <3>5. CallbacksConsistent' /\ NoStuckTransaction'
      BY <3>2, <3>3, <3>4 DEF IInv, TimerInv, CallbacksConsistent, NoStuckTransaction
    <3> QED
      BY <3>2, <3>5 DEF TimerInv
  <2>4. SizeType' /\ RestType'
    BY <1>2 DEF Tick, IInv, SizeType, RestType, toplevelVars, sizeVars, sceneVars,
                workspaceVars
  <2>5. Dirty' \subseteq Mapped'
    BY <1>2, <2>2, DirtyMapped DEF Tick, IInv, Mapped, toplevelVars
  <2> QED
    BY <2>2, <2>3, <2>4, <2>5, DirtyMappedNext DEF IInv
<1>3. CASE TimeOut
  <2>1. Perform /\ UNCHANGED <<geometry, configure, schedule>>
    BY <1>3 DEF TimeOut
  <2>2. /\ configure' \in [Toplevel -> ConfigureState]
        /\ geometry' \in [Toplevel -> AnySize]
        /\ schedule' \in BOOLEAN
    BY <2>1 DEF IInv, SizeType, RestType, TimerInv, TimerType
  <2>3. BookInv' /\ TimerInv' /\ SizeType' /\ RestType' /\ Dirty' = {}
    BY <2>1, <2>2, PerformKeeps DEF IInv
  <2> QED
    BY <2>3, DirtyMappedNext DEF IInv
<1> QED
  BY <1>1, <1>2, <1>3 DEF LoopNext

-----------------------------------------------------------------------------
(* The theorems.                                                             *)

LEMMA InitIInv == Init => IInv
<1> SUFFICES ASSUME Init PROVE IInv
  OBVIOUS
<1>1. Dirty = {}
  BY DEF Init, Dirty
<1>2. BookInv
  <2>1. BookType /\ UncleanIsListed
    BY DEF Init, BookType, TransactionState, UncleanIsListed
  <2>2. DirtyCountExact
    BY <1>1, FS_EmptySet DEF Init, DirtyCountExact, Dirty
  <2> QED
    BY <2>1, <2>2 DEF BookInv
<1>3. TimerInv
  <2>1. TimerType
    BY DEF Init, TimerType
  <2>2. CallbacksConsistent /\ ~WorkPending
    BY DEF Init, CallbacksConsistent, WorkPending, Members
  <2> QED
    BY <2>1, <2>2 DEF TimerInv, NoStuckTransaction
<1>4. SizeType
  BY DEF Init, SizeType, AnySize, ConfigureState
<1>5. RestType
  BY DEF Init, RestType, Life, State, AnySize
<1>6. DirtyIsMapped
  BY <1>1, DirtyMapped
<1> QED
  BY <1>2, <1>3, <1>4, <1>5, <1>6 DEF IInv

LEMMA StepIInv == IInv /\ [Next \/ Halted]_vars => IInv'
<1> SUFFICES ASSUME IInv, [Next \/ Halted]_vars PROVE IInv'
  OBVIOUS
<1>1. CASE UNCHANGED vars
  <2>1. UNCHANGED <<toplevelVars, sizeVars, sceneVars, workspaceVars, listVars,
                    timerVars, ghosts, crashed>>
    BY <1>1 DEF vars
  <2>2. BookInv' /\ TimerInv' /\ Dirty' = Dirty
    BY <2>1, EngineUntouched DEF workspaceVars
  <2>3. SizeType' /\ RestType'
    BY <2>1 DEF IInv, SizeType, RestType, toplevelVars, sizeVars, sceneVars, workspaceVars
  <2>4. Dirty' \subseteq Mapped'
    BY <2>1, <2>2, DirtyMapped DEF IInv, Mapped, toplevelVars
  <2> QED
    BY <2>2, <2>3, <2>4, DirtyMappedNext DEF IInv
<1>2. CASE Next
  BY <1>2, ClientStep, UserStep, LoopStep DEF Next
<1> QED
  BY <1>1, <1>2 DEF Halted

(* The inductive invariant holds in every reachable state.                   *)
THEOREM Invariance == Spec => []IInv
BY InitIInv, StepIInv, PTL DEF Spec

(* TypeOK, for any constants.                                                *)
THEOREM TypeCorrect == Spec => []TypeOK
<1>1. IInv => TypeOK
  BY TypeParts DEF IInv, BookInv, TimerInv
<1> QED
  BY <1>1, Invariance, PTL

(* The counter by which transaction_commit decides to apply is exact.        *)
THEOREM CountCorrect == Spec => []DirtyCountExact
<1>1. IInv => DirtyCountExact
  BY DEF IInv, BookInv
<1> QED
  BY <1>1, Invariance, PTL

(* The assertion of remove_toplevel never fails.                             *)
THEOREM ListComplete == Spec => []UncleanIsListed
<1>1. IInv => UncleanIsListed
  BY DEF IInv, BookInv
<1> QED
  BY <1>1, Invariance, PTL

(* A transaction with anything to do has a callback that will finish it.     *)
THEOREM NeverStuck == Spec => []NoStuckTransaction
<1>1. IInv => NoStuckTransaction
  BY DEF IInv, TimerInv
<1> QED
  BY <1>1, Invariance, PTL

(* No callback is armed that would apply too early or outlives its           *)
(* transaction.                                                              *)
THEOREM CallbacksCorrect == Spec => []CallbacksConsistent
<1>1. IInv => CallbacksConsistent
  BY DEF IInv, TimerInv
<1> QED
  BY <1>1, Invariance, PTL

(* Nobody waits for a window that is gone.                                   *)
THEOREM OnlyMappedAreDirty == Spec => []DirtyIsMapped
<1>1. IInv => DirtyIsMapped
  BY DEF IInv
<1> QED
  BY <1>1, Invariance, PTL

-----------------------------------------------------------------------------
(***************************************************************************)
(* The transaction engine implements Batch.tla, for any number of windows, *)
(* workspaces and sizes, any length of the timer and any bound on the list.*)
(* The invariant above is all the argument needs of the past.              *)
(***************************************************************************)

LEMMA JoinedAndAsked ==
  /\ \A t : t \in joined <=> t \in Mapped /\ entries[t] > 0
  /\ asked = Dirty
  /\ joined \subseteq Toplevel /\ Mapped \subseteq Toplevel
BY DEF joined, asked, Dirty, Members, Mapped

(* Who is waited for is in the batch.                                        *)
LEMMA AskedJoined ==
  ASSUME IInv
  PROVE  asked \subseteq joined
BY JoinedAndAsked DEF IInv, BookInv, UncleanIsListed, DirtyIsMapped, Dirty, Mapped

LEMMA AskedJoinedNext ==
  ASSUME IInv'
  PROVE  asked' \subseteq joined' /\ wish' \in [Toplevel -> Size \cup {NoSize}]
<1>1. asked' \subseteq joined'
  BY DEF asked, joined, Members, IInv, BookInv, UncleanIsListed, DirtyIsMapped, Mapped
<1>2. wish' \in [Toplevel -> Size \cup {NoSize}]
  BY DEF wish, IInv, SizeType, AnySize
<1> QED
  BY <1>1, <1>2

(* Windows may join and be asked, what is seen stays: a step of Collect.     *)
LEMMA Collects ==
  ASSUME IInv', Mapped \subseteq Mapped',
         Mapped' \ Mapped \subseteq joined',
         joined \subseteq joined', asked \subseteq asked',
         \A t \in Mapped : t \notin joined' => pending'[t] = pending[t],
         UNCHANGED <<screen, ghosts, presented>>,
         late' => late
  PROVE  B!Next
<1>1. \A t \in Toplevel \ joined' : wish'[t] = wish[t]
  BY DEF wish
<1>2. B!OnlyWishesOf(joined')
  BY <1>1, AskedJoinedNext DEF B!OnlyWishesOf
<1>3. active' \in Workspace
  BY DEF IInv, RestType
<1>4. joined' \in SUBSET Toplevel /\ asked' \in SUBSET Toplevel
  BY DEF joined, asked, Mapped
<1>5. late' \in {late, FALSE}
  BY DEF late
<1>6. B!Collect(joined', asked')
  BY <1>2, <1>3, <1>5, AskedJoinedNext DEF B!Collect, B!seen
<1> QED
  BY <1>4, <1>6 DEF B!Next

(* Nothing of it changes.                                                    *)
LEMMA Stutters ==
  ASSUME Mapped' = Mapped, UNCHANGED <<transaction_state, entries>>,
         \A t \in Mapped : pending'[t] = pending[t],
         UNCHANGED <<current, needs_initial_enable, workspaceVars, ghosts, time_out>>
  PROVE  UNCHANGED B!vars
<1>1. joined' = joined /\ asked' = asked
  BY DEF joined, asked, Members
<1>2. wish' = wish /\ screen' = screen
  BY DEF wish, screen, Mapped
<1>3. UNCHANGED <<active, presented, late, ghosts>>
  BY DEF workspaceVars, late
<1> QED
  BY <1>1, <1>2, <1>3 DEF B!vars, B!seen

-----------------------------------------------------------------------------
(* What the operations of the engine do to the batch.                        *)

LEMMA BookGrows ==
  ASSUME BookInv, NEW dirty \in SUBSET Toplevel, NEW ready \in SUBSET Toplevel,
         ready \cap Dirty = {}, NEW removed \in SUBSET Toplevel,
         (dirty \cup ready) \cap removed = {},
         Book(dirty, ready, removed)
  PROVE  /\ \A t \in Toplevel \ removed : entries'[t] >= entries[t]
         /\ \A t \in dirty \cup ready : entries'[t] > 0
         /\ Dirty \ removed \subseteq Dirty' /\ entries' \in [Toplevel -> Int]
<1>1. \A t \in Toplevel : entries[t] \in Nat
  BY DEF BookInv, BookType
<1>2. \A t \in Toplevel \ removed :
         entries'[t] = IF t \in dirty \cup ready THEN entries[t] + 1 ELSE entries[t]
  BY DEF Book, Taken
<1>3. Dirty \ removed \subseteq Dirty'
  BY DEF Book, Dirty
<1>4. entries' \in [Toplevel -> Int]
  BY <1>1 DEF Book
<1> QED
  BY <1>1, <1>2, <1>3, <1>4

LEMMA SubmitGrows ==
  ASSUME BookInv, NEW D \in SUBSET Toplevel, NEW box \in [D -> AnySize],
         NEW removed \in SUBSET Toplevel, D \cap removed = {},
         Submit(box, removed)
  PROVE  /\ \A t \in Toplevel \ removed : entries[t] > 0 => entries'[t] > 0
         /\ \A t \in D : entries'[t] > 0
         /\ Dirty \ removed \subseteq Dirty'
<1>1. /\ \A t \in Toplevel \ removed : entries'[t] >= entries[t]
      /\ \A t \in Pushed(box) : entries'[t] > 0
      /\ Dirty \ removed \subseteq Dirty' /\ entries' \in [Toplevel -> Int]
  <2>1. Book(NewlyDirty(box), NewlyReady(box), removed)
    BY DEF Submit
  <2>2. /\ NewlyDirty(box) \in SUBSET Toplevel /\ NewlyReady(box) \in SUBSET Toplevel
        /\ NewlyReady(box) \cap Dirty = {}
        /\ (NewlyDirty(box) \cup NewlyReady(box)) \cap removed = {}
    BY PushedParts
  <2> QED
    BY <2>1, <2>2, BookGrows DEF Pushed
<1>2. \A t \in D : t \in Pushed(box) \/ transaction_state[t] = "DIRTY"
  BY DEF Pushed, NewlyDirty, NewlyReady
<1>3. \A t \in Toplevel : entries[t] \in Nat
  BY DEF BookInv, BookType
<1>4. \A t \in Toplevel : transaction_state[t] = "DIRTY" => entries[t] > 0
  BY DEF BookInv, UncleanIsListed
<1> QED
  BY <1>1, <1>2, <1>3, <1>4

(* A window that is not waited for joins.                                    *)
LEMMA JoinGrows ==
  ASSUME BookInv, NEW t \in Toplevel, t \notin Dirty, Join(t)
  PROVE  /\ \A u \in Toplevel : entries[u] > 0 => entries'[u] > 0
         /\ entries'[t] > 0 /\ Dirty \subseteq Dirty'
<1>1. CASE transaction_state[t] = "CLEAN"
  <2>1. Book({}, {t}, {}) /\ {t} \cap Dirty = {} /\ {t} \in SUBSET Toplevel
    BY <1>1 DEF Join
  <2>2. /\ \A u \in Toplevel \ {} : entries'[u] >= entries[u]
        /\ \A u \in {} \cup {t} : entries'[u] > 0
        /\ Dirty \ {} \subseteq Dirty' /\ entries' \in [Toplevel -> Int]
    BY <2>1, BookGrows
  <2>3. \A u \in Toplevel : entries[u] \in Nat
    BY DEF BookInv, BookType
  <2> QED
    BY <2>2, <2>3
<1>2. CASE transaction_state[t] # "CLEAN"
  BY <1>2 DEF Join, listVars, BookInv, UncleanIsListed, Dirty
<1> QED
  BY <1>1, <1>2

(* schedule_stuff gives the batch its time again.                            *)
LEMMA ScheduleRestarts ==
  ASSUME NEW called, ScheduleIf(called)
  PROVE  late' => late
BY TimeOutTicksPositive DEF ScheduleIf, ScheduleStuff, late, timerVars

(* Everything is applied.                                                    *)
LEMMA Applies ==
  ASSUME IInv, IInv', Perform,
         late \/ \A t, u \in asked : t = u
  PROVE  B!Next
<1>1. Mapped' = Mapped
  BY DEF Perform, Freed, Mapped, IInv, RestType
<1>2. /\ \A t \in Mapped : t \notin joined => pending'[t] = pending[t]
      /\ \A t \in joined : current'[t] = pending'[t] /\ ~needs_initial_enable'[t]
      /\ \A t \in Mapped \ joined : /\ current'[t] = current[t]
                                    /\ needs_initial_enable'[t] = needs_initial_enable[t]
  <2>1. /\ pending' = [t \in Toplevel |->
                         IF t \in Members /\ state[t] = "FLOAT" THEN geometry'[t] ELSE pending[t]]
        /\ current' = [t \in Toplevel |-> IF t \in Members THEN pending'[t] ELSE current[t]]
        /\ needs_initial_enable' =
             [t \in Toplevel |-> needs_initial_enable[t] /\ t \notin Members]
    BY DEF Perform
  <2>2. needs_initial_enable \in [Toplevel -> BOOLEAN]
    BY DEF IInv, RestType
  <2>3. Mapped \subseteq Toplevel /\ joined = Members \cap Mapped
    BY DEF joined, Mapped
  <2> QED
    BY <2>1, <2>2, <2>3
<1>3. B!OnlyWishesOf(joined)
  BY <1>1, <1>2, AskedJoinedNext DEF wish, B!OnlyWishesOf
<1>4. screen' = [t \in Toplevel |-> IF t \in joined THEN wish'[t] ELSE screen[t]]
  BY <1>1, <1>2, JoinedAndAsked DEF wish, screen
<1>5. joined' = {} /\ ghosts' = {} /\ presented' = active /\ active' = active
  BY DEF Perform, joined, Members
<1>6. asked' = {}
  BY <1>5, AskedJoinedNext
<1>7. late' = FALSE
  BY DEF Perform, late, Unarmed
<1>8. B!Apply
  BY <1>3, <1>4, <1>5, <1>6, <1>7 DEF B!Apply
<1> QED
  BY <1>8 DEF B!Next

-----------------------------------------------------------------------------
(* The handlers.                                                             *)

(* Mapped windows are asked for sizes.                                       *)
LEMMA Requests ==
  ASSUME IInv, IInv', NEW D \in SUBSET Mapped, NEW box \in [D -> AnySize],
         Submit(box, {}), pending' = Override(box, pending),
         NEW called, ScheduleIf(called),
         UNCHANGED <<life, current, needs_initial_enable, ghosts, presented>>
  PROVE  B!Next
<1>1. Mapped' = Mapped /\ D \in SUBSET Toplevel
  BY DEF Mapped
<1>2. /\ \A t \in Toplevel : entries[t] > 0 => entries'[t] > 0
      /\ \A t \in D : entries'[t] > 0
      /\ Dirty \subseteq Dirty'
  <2>1. {} \in SUBSET Toplevel /\ D \cap {} = {} /\ BookInv
    BY DEF IInv
  <2> QED
    BY <1>1, <2>1, SubmitGrows
<1>3. joined \subseteq joined' /\ D \subseteq joined' /\ asked \subseteq asked'
  BY <1>1, <1>2 DEF joined, Members, asked, Dirty
<1>4. \A t \in Mapped : t \notin joined' => pending'[t] = pending[t]
  BY <1>3 DEF Override, IInv, SizeType, Mapped
<1>5. UNCHANGED screen /\ (late' => late)
  BY <1>1, ScheduleRestarts DEF screen
<1> QED
  BY <1>1, <1>3, <1>4, <1>5, Collects

LEMMA AddDirtyRequests ==
  ASSUME IInv, IInv', NEW D \in SUBSET Mapped, NEW box \in [D -> AnySize],
         AddDirty(box),
         UNCHANGED <<life, current, needs_initial_enable, ghosts, presented>>
  PROVE  B!Next
BY Requests DEF AddDirty

(* A window takes the size its client has drawn.                             *)
LEMMA TakesItsSize ==
  ASSUME IInv, IInv', NEW t \in Toplevel, AddAuto(t), ~(t \in Dirty),
         Mapped \subseteq Mapped', Mapped' \ Mapped \subseteq {t},
         UNCHANGED <<screen, ghosts, presented>>
  PROVE  B!Next
<1>1. Join(t) /\ ScheduleStuff /\ pending' = [pending EXCEPT ![t] = geometry'[t]]
  BY DEF AddAuto, Dirty
<1>2. /\ \A u \in Toplevel : entries[u] > 0 => entries'[u] > 0
      /\ entries'[t] > 0 /\ Dirty \subseteq Dirty'
  BY <1>1, JoinGrows DEF IInv
<1>3. joined \subseteq joined' /\ asked \subseteq asked'
  BY <1>2 DEF joined, Members, asked, Dirty
<1>4. Mapped' \ Mapped \subseteq joined'
  BY <1>2 DEF joined, Members
<1>5. \A u \in Mapped : u \notin joined' => pending'[u] = pending[u]
  BY <1>1, <1>2 DEF joined, Members, IInv, SizeType, Mapped
<1>6. late' => late
  BY <1>1, ScheduleRestarts DEF ScheduleIf
<1> QED
  BY <1>3, <1>4, <1>5, <1>6, Collects

(* A window that appears is not seen before it was applied.                  *)
LEMMA AppearsUnseen ==
  ASSUME RestType, NEW t \in Toplevel, NEW st, NEW drawn, Appear(t, st, drawn)
  PROVE  /\ Mapped' = Mapped \cup {t} /\ t \notin Mapped
         /\ UNCHANGED <<screen, ghosts, presented, active>>
<1>1. Mapped' = Mapped \cup {t} /\ t \notin Mapped
  BY DEF Appear, Mapped, RestType
<1>2. needs_initial_enable' = [needs_initial_enable EXCEPT ![t] = TRUE]
      /\ needs_initial_enable \in [Toplevel -> BOOLEAN] /\ current' = current
  BY DEF Appear, RestType
<1>3. UNCHANGED screen
  BY <1>1, <1>2 DEF screen
<1> QED
  BY <1>1, <1>3 DEF Appear

LEMMA MapTiledCollects ==
  ASSUME IInv, IInv', NEW t \in Toplevel, MapTiled(t)
  PROVE  B!Next
<1>1. PICK drawn \in Size, box \in [Tiled(active) \cup {t} -> LayoutSize] :
        Appear(t, "TILED", drawn) /\ AddDirty(box)
  BY DEF MapTiled
<1> DEFINE D == Tiled(active) \cup {t}
<1>2. Mapped' = Mapped \cup {t} /\ UNCHANGED <<screen, ghosts, presented>>
  BY <1>1, AppearsUnseen DEF IInv
<1>3. D \in SUBSET Toplevel /\ box \in [D -> AnySize]
  BY SizeBox, TiledIsMapped
<1>4. Submit(box, {}) /\ ScheduleIf(Pushed(box) # {}) /\ pending' = Override(box, pending)
  BY <1>1 DEF AddDirty
<1>5. /\ \A u \in Toplevel : entries[u] > 0 => entries'[u] > 0
      /\ \A u \in D : entries'[u] > 0
      /\ Dirty \subseteq Dirty'
  <2>1. {} \in SUBSET Toplevel /\ D \cap {} = {} /\ BookInv
    BY DEF IInv
  <2> QED
    BY <1>3, <1>4, <2>1, SubmitGrows
<1>6. joined \subseteq joined' /\ asked \subseteq asked' /\ Mapped' \ Mapped \subseteq joined'
  BY <1>2, <1>5 DEF joined, Members, asked, Dirty
<1>7. \A u \in Mapped : u \notin joined' => pending'[u] = pending[u]
  <2>1. \A u \in Mapped : u \notin joined' => u \notin D
    BY <1>2, <1>3, <1>5 DEF joined, Members
  <2> QED
    BY <1>3, <1>4, <2>1 DEF Override, IInv, SizeType, Mapped
<1>8. late' => late
  BY <1>4, ScheduleRestarts
<1> QED
  BY <1>2, <1>6, <1>7, <1>8, Collects

LEMMA MapFloatCollects ==
  ASSUME IInv, IInv', NEW t \in Toplevel, MapFloat(t)
  PROVE  B!Next
<1>1. PICK drawn \in Size : Appear(t, "FLOAT", drawn) /\ AddAuto(t)
  BY DEF MapFloat
<1>2. /\ Mapped' = Mapped \cup {t} /\ t \notin Mapped
      /\ UNCHANGED <<screen, ghosts, presented>>
  BY <1>1, AppearsUnseen DEF IInv
<1>3. t \notin Dirty
  BY <1>2, DirtyMapped DEF IInv
<1> QED
  BY <1>1, <1>2, <1>3, TakesItsSize

LEMMA MapFloatSizedCollects ==
  ASSUME IInv, IInv', NEW t \in Toplevel, MapFloatSized(t)
  PROVE  B!Next
<1>1. PICK drawn \in Size, rule \in Size :
        /\ Appear(t, "FLOAT", drawn)
        /\ Submit([u \in {t} |-> rule], {})
        /\ pending' = [pending EXCEPT ![t] = IF IsDirty(t, rule) THEN rule ELSE drawn]
        /\ ScheduleStuff
  BY DEF MapFloatSized
<1> DEFINE box == [u \in {t} |-> rule]
<1>2. Mapped' = Mapped \cup {t} /\ UNCHANGED <<screen, ghosts, presented>>
  BY <1>1, AppearsUnseen DEF IInv
<1>3. /\ \A u \in Toplevel : entries[u] > 0 => entries'[u] > 0
      /\ entries'[t] > 0
      /\ Dirty \subseteq Dirty'
  <2>1. /\ {t} \in SUBSET Toplevel /\ box \in [{t} -> AnySize]
        /\ {} \in SUBSET Toplevel /\ {t} \cap {} = {} /\ BookInv
    BY DEF IInv, AnySize
  <2> QED
    BY <1>1, <2>1, SubmitGrows
<1>4. joined \subseteq joined' /\ asked \subseteq asked' /\ Mapped' \ Mapped \subseteq joined'
  BY <1>2, <1>3 DEF joined, Members, asked, Dirty
<1>5. \A u \in Mapped : u \notin joined' => pending'[u] = pending[u]
  BY <1>1, <1>2, <1>3 DEF joined, Members, IInv, SizeType, Mapped
<1>6. late' => late
  BY <1>1, ScheduleRestarts DEF ScheduleIf
<1> QED
  BY <1>2, <1>4, <1>5, <1>6, Collects

LEMMA UnmapLeaves ==
  ASSUME IInv, IInv', NEW t \in Toplevel, Unmap(t)
  PROVE  B!Next
<1> DEFINE left == IF state[t] = "TILED" THEN Tiled(home[t]) \ {t} ELSE {}
<1>1. PICK box \in [left -> LayoutSize] : AddGhost(t, box)
  BY DEF Unmap
<1>2. /\ left \in SUBSET Toplevel /\ left \subseteq Mapped /\ t \notin left
      /\ box \in [left -> AnySize]
  BY TiledIsMapped, SizeBox
<1>3. Mapped' = Mapped \ {t} /\ t \in Mapped
  BY DEF Unmap, Mapped, IInv, RestType
<1>4. /\ Submit(box, {t}) /\ pending' = Override(box, pending)
      /\ ghosts' = ghosts \cup {t} /\ ScheduleStuff
  BY <1>1 DEF AddGhost
<1>5. /\ \A u \in Toplevel \ {t} : entries[u] > 0 => entries'[u] > 0
      /\ \A u \in left : entries'[u] > 0
      /\ Dirty \ {t} \subseteq Dirty'
  <2>1. {t} \in SUBSET Toplevel /\ left \cap {t} = {} /\ BookInv
    BY DEF IInv
  <2> QED
    BY <1>2, <1>4, <2>1, SubmitGrows
<1>6. /\ joined' = (joined \ {t}) \cup joined' /\ t \notin joined'
      /\ left \subseteq joined'
  BY <1>2, <1>3, <1>5 DEF joined, Members
<1>7. asked' = (asked \ {t}) \cup asked'
  BY <1>5 DEF asked, Dirty
<1>8. B!OnlyWishesOf(joined' \cup {t}) /\ wish'[t] = NoSize
  <2>1. \A u \in Toplevel \ (joined' \cup {t}) : wish'[u] = wish[u]
    BY <1>2, <1>3, <1>4, <1>6 DEF wish, Override, IInv, SizeType, Mapped
  <2>2. wish'[t] = NoSize
    BY <1>3 DEF wish
  <2> QED
    BY <2>1, <2>2, AskedJoinedNext DEF B!OnlyWishesOf
<1>9. screen' = [screen EXCEPT ![t] = NoSize]
  <2>1. UNCHANGED <<current, needs_initial_enable>>
    BY DEF Unmap
  <2> QED
    BY <1>3, <2>1 DEF screen
<1>10. active' \in Workspace /\ presented' = presented
  BY DEF Unmap, IInv, RestType
<1>11. late' \in {late, FALSE}
  BY <1>4, ScheduleRestarts DEF ScheduleIf, late
<1>12. B!Leave(t, joined', asked')
  BY <1>4, <1>6, <1>7, <1>8, <1>9, <1>10, <1>11, AskedJoinedNext DEF B!Leave
<1>13. joined' \in SUBSET Toplevel /\ asked' \in SUBSET Toplevel
  BY DEF joined, asked, Mapped
<1> QED
  BY <1>12, <1>13 DEF B!Next

LEMMA ClientRefines ==
  ASSUME IInv, IInv', NEW t \in Toplevel, ClientNext(t)
  PROVE  [B!Next]_(B!vars)
<1>0. Dirty \subseteq Mapped /\ Mapped \subseteq Toplevel
  BY DirtyMapped DEF IInv, Mapped
<1>1. CASE Create(t)
  <2>1. Mapped' = Mapped
    BY <1>1 DEF Create, Mapped, IInv, RestType
  <2>2. UNCHANGED <<transaction_state, entries, pending, current, workspaceVars, ghosts,
                    time_out>>
    BY <1>1 DEF Create, sizeVars, listVars, timerVars
  <2>3. /\ t \notin Mapped
        /\ needs_initial_enable' = [needs_initial_enable EXCEPT ![t] = TRUE]
    BY <1>1 DEF Create, Mapped
  <2>4. UNCHANGED joined /\ UNCHANGED asked /\ UNCHANGED wish
    BY <2>1, <2>2 DEF joined, asked, Members, wish
  <2>5. UNCHANGED screen
    BY <2>1, <2>2, <2>3 DEF screen, IInv, RestType
  <2>6. UNCHANGED <<active, presented, ghosts, late>>
    BY <2>2 DEF workspaceVars, late
  <2> QED
    BY <2>4, <2>5, <2>6 DEF B!vars, B!seen
<1>2. CASE InitialCommit(t)
  <2>1. Mapped' = Mapped
    BY <1>2 DEF InitialCommit, Mapped, IInv, RestType
  <2> QED
    BY <1>2, <2>1, Stutters DEF InitialCommit, sceneVars, listVars, timerVars
<1>3. CASE MapTiled(t) \/ MapFloat(t) \/ MapFloatSized(t)
  BY <1>3, MapTiledCollects, MapFloatCollects, MapFloatSizedCollects
<1>4. CASE CommitIgnored(t)
  <2>1. UNCHANGED <<life, state, home, requested, pending, sceneVars, workspaceVars,
                    listVars, timerVars, ghosts, crashed>>
    BY <1>4 DEF CommitIgnored
  <2>2. Mapped' = Mapped
    BY <2>1 DEF Mapped
  <2> QED
    BY <2>1, <2>2, Stutters DEF sceneVars, listVars, timerVars
<1>5. CASE CommitReady(t)
  <2>1. /\ transaction_state[t] = "DIRTY"
        /\ transaction_state' = [transaction_state EXCEPT ![t] = "READY"]
        /\ UNCHANGED <<life, pending, sceneVars, workspaceVars, entries, timerVars, ghosts>>
    BY <1>5 DEF CommitReady
  <2>2. asked' = asked \ {t} /\ t \in asked
    BY <2>1 DEF asked, IInv, BookInv, BookType
  <2>3. Mapped' = Mapped
    BY <2>1 DEF Mapped
  <2>4. UNCHANGED joined /\ UNCHANGED wish /\ UNCHANGED screen
    BY <2>1, <2>3 DEF joined, Members, wish, screen, sceneVars
  <2>5. UNCHANGED <<active, presented, ghosts, late>>
    BY <2>1 DEF workspaceVars, timerVars, late
  <2>6. B!Answer(t)
    BY <2>2, <2>4, <2>5 DEF B!Answer, B!seen
  <2> QED
    BY <2>6 DEF B!Next
<1>6. CASE CommitLast(t)
  <2>1. Perform /\ t \in Dirty /\ dirty_count <= 1
    BY <1>6 DEF CommitLast, Dirty
  <2>2. Dirty = {t}
    <3>1. dirty_count = Cardinality(Dirty) /\ dirty_count \in Nat
      BY CountIsNat DEF IInv, BookInv
    <3>2. Cardinality(Dirty \ {t}) = Cardinality(Dirty) - 1
      BY <2>1, DirtyFinite, FS_RemoveElement
    <3>3. IsFiniteSet(Dirty \ {t}) /\ Cardinality(Dirty \ {t}) \in Nat
      BY DirtyFinite, FS_Subset, FS_CardinalityType
    <3>4. Cardinality(Dirty \ {t}) = 0
      BY <2>1, <3>1, <3>2, <3>3
    <3>5. Dirty \ {t} = {}
      BY <3>3, <3>4, FS_EmptySet
    <3> QED
      BY <2>1, <3>5
  <2>3. \A u, v \in asked : u = v
    BY <2>2, JoinedAndAsked
  <2> QED
    BY <2>1, <2>3, Applies
<1>7. CASE CommitFloat(t)
  <2>1. /\ AddAuto(t) /\ transaction_state[t] # "DIRTY"
        /\ UNCHANGED <<life, sceneVars, workspaceVars, ghosts>>
    BY <1>7 DEF CommitFloat
  <2>2. Mapped' = Mapped /\ t \notin Dirty
    BY <2>1 DEF Mapped, Dirty
  <2>3. UNCHANGED <<screen, ghosts, presented>>
    BY <2>1, <2>2 DEF screen, sceneVars, workspaceVars
  <2> QED
    BY <2>1, <2>2, <2>3, TakesItsSize
<1>8. CASE CommitUnmappedFloat(t)
  <2>1. /\ AddAuto(t) /\ t \notin Mapped
        /\ UNCHANGED <<life, sceneVars, workspaceVars, ghosts>>
    BY <1>8 DEF CommitUnmappedFloat, Mapped
  <2>2. Mapped' = Mapped /\ t \notin Dirty
    BY <1>0, <2>1 DEF Mapped
  <2>3. UNCHANGED <<screen, ghosts, presented>>
    BY <2>1, <2>2 DEF screen, sceneVars, workspaceVars
  <2> QED
    BY <2>1, <2>2, <2>3, TakesItsSize
<1>9. CASE Unmap(t)
  BY <1>9, UnmapLeaves
<1>10. CASE Destroy(t)
  <2>1. Mapped' = Mapped /\ t \notin Mapped
    BY <1>10 DEF Destroy, Mapped, IInv, RestType
  <2>2. /\ transaction_state' = [transaction_state EXCEPT ![t] = "CLEAN"]
        /\ pending' = [pending EXCEPT ![t] = NoSize]
        /\ current' = [current EXCEPT ![t] = NoSize]
        /\ needs_initial_enable' = [needs_initial_enable EXCEPT ![t] = FALSE]
        /\ UNCHANGED <<workspaceVars, entries, timerVars, ghosts>>
    BY <1>10 DEF Destroy
  <2>3. UNCHANGED asked
    BY <1>0, <2>1, <2>2 DEF asked, Dirty, IInv, BookInv, BookType
  <2>4. UNCHANGED joined /\ UNCHANGED wish /\ UNCHANGED screen
    BY <1>0, <2>1, <2>2 DEF joined, Members, wish, screen, IInv, SizeType, RestType
  <2>5. UNCHANGED <<active, presented, ghosts, late>>
    BY <2>2 DEF workspaceVars, timerVars, late
  <2> QED
    BY <2>3, <2>4, <2>5 DEF B!vars, B!seen
<1> QED
  BY <1>1, <1>2, <1>3, <1>4, <1>5, <1>6, <1>7, <1>8, <1>9, <1>10 DEF ClientNext

LEMMA UserRefines ==
  ASSUME IInv, IInv', UserNext
  PROVE  [B!Next]_(B!vars)
<1>1. ASSUME NEW t \in Toplevel, NEW st \in State, SetState(t, st)
      PROVE  B!Next
  <2> DEFINE rest == IF "TILED" \in {state[t], st} THEN Tiled(home[t]) \ {t} ELSE {}
             D == rest \cup {t}
  <2>1. D \in SUBSET Mapped
    BY <1>1, TiledIsMapped DEF SetState, Mapped
  <2>2. PICK size \in AnySize, others \in [rest -> LayoutSize] :
               AddDirty([u \in D |-> IF u = t THEN size ELSE others[u]])
    BY <1>1, SetStateSizes
  <2>3. [u \in D |-> IF u = t THEN size ELSE others[u]] \in [D -> AnySize]
    BY LayoutSizeIsSize
  <2>4. UNCHANGED <<life, current, needs_initial_enable, ghosts, presented>>
    BY <1>1 DEF SetState
  <2> QED
    BY <2>1, <2>2, <2>3, <2>4, AddDirtyRequests
<1>2. ASSUME NEW t \in Toplevel, NEW w \in Workspace, MoveToWorkspace(t, w)
      PROVE  B!Next
  <2> DEFINE old == home[t]
             tiled == IF state[t] = "TILED" THEN (Tiled(old) \ {t}) \cup Tiled(w) ELSE {}
             sized == IF state[t] = "FLOAT" THEN {} ELSE tiled \cup {t}
             own == IF state[t] = "TILED" THEN LayoutSize ELSE Size
  <2>1. sized \in SUBSET Mapped
    BY <1>2, TiledIsMapped DEF MoveToWorkspace, Mapped
  <2>2. PICK box \in [sized -> own] :
               /\ Submit(box, {})
               /\ pending' = Override(box, pending)
               /\ ScheduleIf(Pushed(box) # {} \/ w # active)
    BY <1>2 DEF MoveToWorkspace
  <2>3. box \in [sized -> AnySize]
    BY LayoutSizeIsSize DEF AnySize
  <2>4. UNCHANGED <<life, current, needs_initial_enable, ghosts, presented>>
    BY <1>2 DEF MoveToWorkspace
  <2> QED
    BY <2>1, <2>2, <2>3, <2>4, Requests
<1>3. ASSUME NEW w \in Workspace, ChangeWorkspace(w)
      PROVE  B!Next
  <2>1. /\ UNCHANGED <<life, pending, sceneVars, presented, listVars, ghosts>>
        /\ ScheduleStuff
    BY <1>3 DEF ChangeWorkspace, toplevelVars, sizeVars
  <2>2. Mapped' = Mapped
    BY <2>1 DEF Mapped
  <2>3. UNCHANGED joined /\ UNCHANGED asked /\ UNCHANGED screen
    BY <2>1, <2>2 DEF joined, Members, asked, screen, listVars, sceneVars
  <2>4. late' => late
    BY <2>1, ScheduleRestarts DEF ScheduleIf
  <2> QED
    BY <2>1, <2>2, <2>3, <2>4, Collects
<1>4. ASSUME NEW t \in Toplevel, NEW u \in Toplevel, Swap(t, u)
      PROVE  B!Next
  <2>1. PICK box \in [Tiled(home[t]) -> LayoutSize] : AddDirty(box)
    BY <1>4 DEF Swap
  <2>2. Tiled(home[t]) \in SUBSET Mapped /\ box \in [Tiled(home[t]) -> AnySize]
    BY TiledIsMapped, SizeBox
  <2>3. UNCHANGED <<life, current, needs_initial_enable, ghosts, presented>>
    BY <1>4 DEF Swap, toplevelVars
  <2> QED
    BY <2>1, <2>2, <2>3, AddDirtyRequests
<1>5. ASSUME NEW t \in Toplevel, GrabFloat(t)
      PROVE  [B!Next]_(B!vars)
  <2>1. /\ AddReady(t) /\ t \in Mapped
        /\ UNCHANGED <<life, pending, sceneVars, workspaceVars, ghosts>>
    BY <1>5 DEF GrabFloat, toplevelVars, sizeVars
  <2>2. Mapped' = Mapped
    BY <2>1 DEF Mapped
  <2>3. CASE transaction_state[t] = "CLEAN"
    <3>1. Join(t) /\ ScheduleStuff /\ t \notin Dirty
      BY <2>1, <2>3 DEF AddReady, ScheduleIf, Dirty
    <3>2. /\ \A u \in Toplevel : entries[u] > 0 => entries'[u] > 0
          /\ Dirty \subseteq Dirty'
      BY <3>1, JoinGrows DEF IInv
    <3>3. joined \subseteq joined' /\ asked \subseteq asked'
      BY <2>2, <3>2 DEF joined, Members, asked, Dirty
    <3>4. UNCHANGED <<screen, ghosts, presented>>
      BY <2>1, <2>2 DEF screen, sceneVars, workspaceVars
    <3>5. late' => late
      BY <3>1, ScheduleRestarts DEF ScheduleIf
    <3> QED
      BY <2>1, <2>2, <3>3, <3>4, <3>5, Collects
  <2>4. CASE transaction_state[t] # "CLEAN"
    <3>1. UNCHANGED listVars /\ UNCHANGED timerVars
      BY <2>1, <2>4 DEF AddReady, Join, ScheduleIf
    <3> QED
      BY <2>1, <2>2, <3>1, Stutters DEF sceneVars, listVars, timerVars
  <2> QED
    BY <2>3, <2>4
<1>6. ASSUME NEW t \in Toplevel, ResizeFloat(t)
      PROVE  B!Next
  <2>1. PICK size \in Size : AddDirty([u \in {t} |-> size])
    BY <1>6 DEF ResizeFloat
  <2>2. {t} \in SUBSET Mapped /\ [u \in {t} |-> size] \in [{t} -> AnySize]
    BY <1>6 DEF ResizeFloat, AnySize
  <2>3. UNCHANGED <<life, current, needs_initial_enable, ghosts, presented>>
    BY <1>6 DEF ResizeFloat, toplevelVars, workspaceVars
  <2> QED
    BY <2>1, <2>2, <2>3, AddDirtyRequests
<1>7. ASSUME Arrange
      PROVE  B!Next
  <2> DEFINE tiled == {t \in Mapped : state[t] = "TILED"}
  <2>1. PICK box \in [tiled -> LayoutSize] : AddDirty(box)
    BY <1>7 DEF Arrange
  <2>2. tiled \in SUBSET Mapped /\ box \in [tiled -> AnySize]
    BY SizeBox
  <2>3. UNCHANGED <<life, current, needs_initial_enable, ghosts, presented>>
    BY <1>7 DEF Arrange, toplevelVars, workspaceVars
  <2> QED
    BY <2>1, <2>2, <2>3, AddDirtyRequests
<1> QED
  BY <1>1, <1>2, <1>3, <1>4, <1>5, <1>6, <1>7 DEF UserNext

LEMMA LoopRefines ==
  ASSUME IInv, IInv', LoopNext
  PROVE  [B!Next]_(B!vars)
<1>1. CASE Idle /\ schedule
  <2>1. Perform
    BY <1>1 DEF Idle
  <2>2. asked = {}
    <3>1. dirty_count = 0 /\ dirty_count = Cardinality(Dirty)
      BY <1>1, CountIsNat DEF IInv, BookInv, TimerInv, CallbacksConsistent
    <3> QED
      BY <3>1, DirtyFinite, FS_EmptySet, JoinedAndAsked
  <2> QED
    BY <2>1, <2>2, Applies
<1>2. CASE Idle /\ ~schedule
  <2>1. UNCHANGED <<life, state, home, requested, pending, sceneVars, workspaceVars,
                    listVars, time_out, ghosts, crashed>>
    BY <1>2 DEF Idle
  <2>2. Mapped' = Mapped
    BY <2>1 DEF Mapped
  <2> QED
    BY <2>1, <2>2, Stutters DEF sceneVars, listVars
<1>3. CASE Tick
  <2>1. UNCHANGED <<life, pending, sceneVars, workspaceVars, listVars, ghosts>>
    BY <1>3 DEF Tick, toplevelVars, sizeVars
  <2>2. Mapped' = Mapped
    BY <2>1 DEF Mapped
  <2>3. /\ UNCHANGED joined /\ UNCHANGED asked /\ UNCHANGED wish /\ UNCHANGED screen
        /\ UNCHANGED <<ghosts, active, presented>>
    BY <2>1, <2>2 DEF joined, Members, asked, wish, screen, listVars, sceneVars,
                      workspaceVars
  <2>4. late' = TRUE \/ late' = late
    BY <1>3 DEF Tick, late, IInv, TimerInv, TimerType, Unarmed
  <2> QED
    BY <2>3, <2>4 DEF B!Next, B!PassDeadline, B!vars, B!seen
<1>4. CASE TimeOut
  <2>1. Perform /\ late
    BY <1>4 DEF TimeOut, late
  <2> QED
    BY <2>1, Applies
<1> QED
  BY <1>1, <1>2, <1>3, <1>4 DEF LoopNext

-----------------------------------------------------------------------------
(* The theorems.                                                             *)

LEMMA InitRefines == Init => B!Init
<1> SUFFICES ASSUME Init PROVE B!Init
  OBVIOUS
<1>1. Mapped = {} /\ Members = {}
  BY DEF Init, Mapped, Members
<1>2. joined = {} /\ asked = {}
  BY <1>1 DEF Init, joined, asked
<1>3. /\ wish = [t \in Toplevel |-> NoSize]
      /\ screen = [t \in Toplevel |-> NoSize]
  BY <1>1 DEF wish, screen
<1>4. late = FALSE /\ ghosts = {} /\ active \in Workspace /\ presented \notin Workspace
  BY NoneIsNobody DEF Init, late, Unarmed
<1> QED
  BY <1>2, <1>3, <1>4 DEF B!Init

LEMMA StepRefines ==
  ASSUME IInv, [Next \/ Halted]_vars
  PROVE  [B!Next]_(B!vars)
<1>0. IInv'
  BY StepIInv
<1>1. CASE UNCHANGED vars
  <2>1. UNCHANGED <<toplevelVars, sizeVars, sceneVars, workspaceVars, listVars,
                    timerVars, ghosts, crashed>>
    BY <1>1 DEF vars
  <2>2. Mapped' = Mapped
    BY <2>1 DEF Mapped, toplevelVars
  <2> QED
    BY <2>1, <2>2, Stutters DEF sizeVars, sceneVars, listVars, timerVars
<1>2. CASE Next
  BY <1>0, <1>2, ClientRefines, UserRefines, LoopRefines DEF Next
<1> QED
  BY <1>1, <1>2 DEF Halted

(* The engine shows nothing of a batch before everybody in it has answered,  *)
(* or time is up, and then shows all of it at once: whatever windows, users, *)
(* callbacks and the timer do, and in whatever order.                        *)
THEOREM EngineAppliesBatches == Spec => AppliesBatches
<1>1. Init => B!Init
  BY InitRefines
<1>2. IInv /\ [Next \/ Halted]_vars => [B!Next]_(B!vars)
  BY StepRefines
<1> QED
  BY <1>1, <1>2, Invariance, PTL DEF Spec, AppliesBatches, B!Spec

(* What Batch promises of the screen follows from its steps alone.           *)
LEMMA BatchInStep ==
  ASSUME ShownAsAsked, screen \in [Toplevel -> AnySize], [B!Next]_(B!vars)
  PROVE  ShownAsAsked'
<1> USE DEF ShownAsAsked, B!InStep
<1>1. CASE UNCHANGED B!vars
  BY <1>1 DEF B!vars, B!seen
<1>2. ASSUME NEW new \in SUBSET Toplevel, NEW waiting \in SUBSET Toplevel,
             B!Collect(new, waiting)
      PROVE  ShownAsAsked'
  BY <1>2 DEF B!Collect, B!OnlyWishesOf, B!seen
<1>3. ASSUME NEW t \in Toplevel, B!Answer(t)
      PROVE  ShownAsAsked'
  BY <1>3 DEF B!Answer, B!seen
<1>4. ASSUME NEW t \in Toplevel, NEW new \in SUBSET Toplevel,
             NEW waiting \in SUBSET Toplevel, B!Leave(t, new, waiting)
      PROVE  ShownAsAsked'
  BY <1>4 DEF B!Leave, B!OnlyWishesOf
<1>5. CASE B!PassDeadline
  BY <1>5 DEF B!PassDeadline, B!seen
<1>6. CASE B!Apply
  BY <1>6 DEF B!Apply, B!OnlyWishesOf
<1> QED
  BY <1>1, <1>2, <1>3, <1>4, <1>5, <1>6 DEF B!Next

(* A mapped window outside of the transaction is on screen with the size     *)
(* that was last asked for.                                                  *)
THEOREM NoRequestForgotten == Spec => []ShownAsAsked
<1>1. Init => ShownAsAsked
  BY InitRefines DEF B!Init, B!InStep, ShownAsAsked
<1>2. IInv /\ ShownAsAsked /\ [Next \/ Halted]_vars => ShownAsAsked'
  <2>1. IInv => screen \in [Toplevel -> AnySize]
    BY DEF IInv, RestType, screen, AnySize
  <2> QED
    BY <2>1, StepRefines, BatchInStep
<1> QED
  BY <1>1, <1>2, Invariance, PTL DEF Spec

-----------------------------------------------------------------------------
(***************************************************************************)
(* What is on the screen while a transaction is on and between two.        *)
(*                                                                         *)
(* A window that is frozen until its client answers waits for the latest   *)
(* request as long as the timer has not given up, and while it is mapped   *)
(* there is a transaction that will show its content again.  Both follow   *)
(* from what one step can do to one window: it stays in the transaction,   *)
(* its client has answered, or the transaction is performed.               *)
(*                                                                         *)
(* A window that enters what the presented workspace lists (by being       *)
(* mapped, moved, tiled or made fullscreen) joins the transaction at once, *)
(* and leaves it only by being unmapped or when the transaction is         *)
(* performed, which shows everything listed.  So a listed window that is   *)
(* hidden is always a member, however the switches of workspace came in    *)
(* between.                                                                *)
(***************************************************************************)

(* The window u leaves neither the dirty nor the members, and is frozen only *)
(* as a member.                                                              *)
StaysMarked(u) ==
  /\ transaction_state[u] = "DIRTY" => transaction_state'[u] = "DIRTY"
  /\ transaction_state[u] # "CLEAN" => transaction_state'[u] # "CLEAN"
  /\ snapshot'[u] => snapshot[u] \/ transaction_state'[u] # "CLEAN"

(* The window was mapped before, or has just become a member.                *)
WasMappedOrJoins(u) == u \in Mapped \/ transaction_state'[u] # "CLEAN"

Answers(u) == u \in Mapped /\ transaction_state'[u] # "CLEAN" /\ configure'[u] = "acked"

IsPerformed(u) ==
  /\ Perform
  /\ time_out = 0 \/ (u \in Dirty => configure'[u] = "acked")

-----------------------------------------------------------------------------
LEMMA SubmitMarks ==
  ASSUME BookInv,
         NEW D \in SUBSET Toplevel, NEW box \in [D -> AnySize],
         NEW removed \in SUBSET Toplevel,
         Submit(box, removed),
         SizeType,
         NEW u \in Toplevel, u \notin removed
  PROVE  StaysMarked(u) /\ (u \in D => transaction_state'[u] # "CLEAN")
<1>1. Book(NewlyDirty(box), NewlyReady(box), removed)
  BY DEF Submit
<1>2. transaction_state'[u] = CASE u \in NewlyDirty(box) -> "DIRTY"
                                [] u \in NewlyReady(box) -> "READY"
                                [] OTHER                 -> transaction_state[u]
  BY <1>1 DEF Book
<1>3. transaction_state[u] = "DIRTY" => transaction_state'[u] = "DIRTY"
  BY <1>2 DEF NewlyDirty, NewlyReady
<1>4. transaction_state[u] # "CLEAN" => transaction_state'[u] # "CLEAN"
  BY <1>2
<1>5. u \in Pushed(box) => transaction_state'[u] # "CLEAN"
  BY <1>2 DEF Pushed
<1>6. snapshot'[u] => snapshot[u] \/ transaction_state'[u] # "CLEAN"
  <2>1. snapshot'[u] = (snapshot[u] \/ u \in Pushed(box))
    BY DEF Submit
  <2> QED
    BY <1>5, <2>1
<1>7. u \in D => transaction_state'[u] # "CLEAN"
  <2>1. u \in D => u \in Pushed(box) \/ transaction_state[u] = "DIRTY"
    BY DEF Pushed, NewlyDirty, NewlyReady
  <2> QED
    BY <1>3, <1>5, <2>1
<1> QED
  BY <1>3, <1>4, <1>6, <1>7 DEF StaysMarked

LEMMA JoinMarks ==
  ASSUME BookInv, NEW t \in Toplevel, t \notin Dirty, Join(t), UNCHANGED snapshot,
         NEW u \in Toplevel
  PROVE  StaysMarked(u) /\ transaction_state'[t] # "CLEAN"
<1>1. CASE transaction_state[t] = "CLEAN"
  <2>1. transaction_state' = [v \in Toplevel |-> IF v = t THEN "READY" ELSE transaction_state[v]]
    BY <1>1 DEF Join, Book
  <2> QED
    BY <1>1, <2>1 DEF StaysMarked
<1>2. CASE transaction_state[t] # "CLEAN"
  BY <1>2 DEF Join, listVars, StaysMarked
<1> QED
  BY <1>1, <1>2

LEMMA AutoMarks ==
  ASSUME BookInv, NEW t \in Toplevel, AddAuto(t), UNCHANGED snapshot, NEW u \in Toplevel
  PROVE  StaysMarked(u) /\ transaction_state'[t] # "CLEAN"
<1>1. CASE transaction_state[t] = "DIRTY"
  BY <1>1 DEF AddAuto, listVars, StaysMarked
<1>2. CASE transaction_state[t] # "DIRTY"
  BY <1>2, JoinMarks DEF AddAuto, Dirty
<1> QED
  BY <1>1, <1>2

LEMMA Untouched ==
  ASSUME UNCHANGED <<transaction_state, snapshot>>, NEW u
  PROVE  StaysMarked(u)
BY DEF StaysMarked

(* Once there is only one dirty window, nobody else is waited for.           *)
LEMMA TheLastDirty ==
  ASSUME BookInv, dirty_count <= 1, NEW t \in Dirty, NEW u \in Dirty
  PROVE  u = t
<1>1. dirty_count = Cardinality(Dirty) /\ dirty_count \in Nat
  BY CountIsNat DEF BookInv
<1>2. IsFiniteSet(Dirty \ {t}) /\ Cardinality(Dirty \ {t}) = Cardinality(Dirty) - 1
  BY DirtyFinite, FS_RemoveElement
<1>3. Cardinality(Dirty \ {t}) \in Nat
  BY <1>2, FS_CardinalityType
<1>4. Cardinality(Dirty \ {t}) = 0
  BY <1>1, <1>2, <1>3
<1> QED
  BY <1>2, <1>4, FS_EmptySet

LEMMA NobodyDirty ==
  ASSUME BookInv, dirty_count = 0
  PROVE  Dirty = {}
BY CountIsNat, DirtyFinite, FS_EmptySet DEF BookInv

-----------------------------------------------------------------------------
(* One step seen from one window that is mapped after it.                    *)
Kinds(u) ==
  \/ StaysMarked(u) /\ WasMappedOrJoins(u)
  \/ Answers(u)
  \/ IsPerformed(u)

LEMMA ClientKinds ==
  ASSUME IInv, NEW t \in Toplevel, ClientNext(t),
         NEW u \in Toplevel, life'[u] = "mapped"
  PROVE  Kinds(u)
<1> USE DEF IInv
<1>1. CASE Create(t) \/ InitialCommit(t)
  <2>1. UNCHANGED <<transaction_state, snapshot>>
    BY <1>1 DEF Create, InitialCommit, listVars, sceneVars
  <2>2. u \in Mapped
    BY <1>1 DEF Create, InitialCommit, RestType, Mapped
  <2> QED
    BY <2>1, <2>2, Untouched DEF Kinds, WasMappedOrJoins
<1>2. ASSUME NEW st, NEW drawn, Appear(t, st, drawn), u # t
      PROVE  u \in Mapped
  BY <1>2 DEF Appear, RestType, Mapped
<1>3. CASE MapTiled(t)
  <2>1. PICK drawn \in Size, box \in [Tiled(active) \cup {t} -> LayoutSize] :
               Appear(t, "TILED", drawn) /\ AddDirty(box)
    BY <1>3 DEF MapTiled
  <2> DEFINE D == Tiled(active) \cup {t}
  <2>2. D \in SUBSET Toplevel /\ {} \in SUBSET Toplevel /\ u \notin {}
    BY TiledIsMapped
  <2>3. box \in [D -> AnySize]
    BY SizeBox
  <2>4. StaysMarked(u) /\ (u \in D => transaction_state'[u] # "CLEAN")
    BY <2>1, <2>2, <2>3, SubmitMarks DEF AddDirty
  <2> QED
    BY <1>2, <2>1, <2>4 DEF Kinds, WasMappedOrJoins
<1>4. CASE MapFloat(t)
  <2>1. PICK drawn \in Size :
               Appear(t, "FLOAT", drawn) /\ AddAuto(t) /\ UNCHANGED snapshot
    BY <1>4 DEF MapFloat
  <2>2. StaysMarked(u) /\ transaction_state'[t] # "CLEAN"
    BY <2>1, AutoMarks
  <2> QED
    BY <1>2, <2>1, <2>2 DEF Kinds, WasMappedOrJoins
<1>5. CASE MapFloatSized(t)
  <2>1. PICK drawn \in Size, rule \in Size :
               Appear(t, "FLOAT", drawn) /\ Submit([v \in {t} |-> rule], {})
    BY <1>5 DEF MapFloatSized
  <2>2. /\ {t} \in SUBSET Toplevel /\ {} \in SUBSET Toplevel /\ u \notin {}
        /\ [v \in {t} |-> rule] \in [{t} -> AnySize]
    BY DEF AnySize
  <2>3. StaysMarked(u) /\ (u \in {t} => transaction_state'[u] # "CLEAN")
    BY <2>1, <2>2, SubmitMarks
  <2> QED
    BY <1>2, <2>1, <2>3 DEF Kinds, WasMappedOrJoins
<1>6. CASE CommitIgnored(t)
  <2>1. UNCHANGED <<life, transaction_state, snapshot>>
    BY <1>6 DEF CommitIgnored, listVars, sceneVars
  <2> QED
    BY <2>1, Untouched DEF Kinds, WasMappedOrJoins, Mapped
<1>7. CASE CommitReady(t)
  <2>1. /\ life[t] = "mapped"
        /\ UNCHANGED <<life, snapshot>>
        /\ transaction_state' = [transaction_state EXCEPT ![t] = "READY"]
        /\ configure'[t] = "acked"
    BY <1>7 DEF CommitReady, Draw, sceneVars
  <2>2. CASE u = t
    BY <2>1, <2>2 DEF Kinds, Answers, Mapped, BookInv, BookType
  <2>3. CASE u # t
    BY <2>1, <2>3 DEF Kinds, StaysMarked, WasMappedOrJoins, Mapped, BookInv, BookType
  <2> QED
    BY <2>2, <2>3
<1>8. CASE CommitLast(t)
  <2>1. Perform /\ t \in Dirty /\ dirty_count <= 1 /\ configure'[t] = "acked"
    BY <1>8 DEF CommitLast, Dirty
  <2> QED
    BY <2>1, TheLastDirty DEF Kinds, IsPerformed
<1>9. CASE CommitFloat(t) \/ CommitUnmappedFloat(t)
  <2>1. AddAuto(t) /\ UNCHANGED <<life, snapshot>>
    BY <1>9 DEF CommitFloat, CommitUnmappedFloat, sceneVars
  <2>2. StaysMarked(u)
    BY <2>1, AutoMarks
  <2> QED
    BY <2>1, <2>2 DEF Kinds, WasMappedOrJoins, Mapped
<1>10. CASE Unmap(t)
  <2> DEFINE left == IF state[t] = "TILED" THEN Tiled(home[t]) \ {t} ELSE {}
  <2>1. PICK box \in [left -> LayoutSize] : AddGhost(t, box)
    BY <1>10 DEF Unmap
  <2>2. u # t /\ u \in Mapped
    BY <1>10 DEF Unmap, RestType, Mapped
  <2>3. left \in SUBSET Toplevel /\ {t} \in SUBSET Toplevel /\ u \notin {t}
    BY <2>2, TiledIsMapped
  <2>4. box \in [left -> AnySize]
    BY SizeBox
  <2>5. StaysMarked(u)
    BY <2>1, <2>3, <2>4, SubmitMarks DEF AddGhost
  <2> QED
    BY <2>2, <2>5 DEF Kinds, WasMappedOrJoins
<1>11. CASE Destroy(t)
  <2>1. u # t /\ u \in Mapped
    BY <1>11 DEF Destroy, RestType, Mapped
  <2>2. StaysMarked(u)
    BY <1>11, <2>1 DEF Destroy, StaysMarked, BookInv, BookType, SizeType
  <2> QED
    BY <2>1, <2>2 DEF Kinds, WasMappedOrJoins
<1> QED
  BY <1>1, <1>3, <1>4, <1>5, <1>6, <1>7, <1>8, <1>9, <1>10, <1>11 DEF ClientNext

LEMMA UserKinds ==
  ASSUME IInv, UserNext, NEW u \in Toplevel, life'[u] = "mapped"
  PROVE  Kinds(u)
<1>1. ASSUME NEW D \in SUBSET Toplevel, NEW box \in [D -> AnySize], Submit(box, {}),
             UNCHANGED life
      PROVE  Kinds(u)
  <2>1. {} \in SUBSET Toplevel /\ u \notin {}
    OBVIOUS
  <2>2. StaysMarked(u)
    BY <1>1, <2>1, SubmitMarks DEF IInv
  <2> QED
    BY <1>1, <2>2 DEF Kinds, WasMappedOrJoins, Mapped
<1>2. ASSUME NEW t \in Toplevel, NEW st \in State, SetState(t, st)
      PROVE  Kinds(u)
  <2> DEFINE rest == IF "TILED" \in {state[t], st} THEN Tiled(home[t]) \ {t} ELSE {}
             D == rest \cup {t}
  <2>1. PICK size \in AnySize, others \in [rest -> LayoutSize] :
               AddDirty([v \in D |-> IF v = t THEN size ELSE others[v]])
    BY <1>2, SetStateSizes
  <2>2. D \in SUBSET Toplevel
    BY TiledIsMapped
  <2>3. [v \in D |-> IF v = t THEN size ELSE others[v]] \in [D -> AnySize]
    BY LayoutSizeIsSize
  <2> QED
    BY <1>1, <1>2, <2>1, <2>2, <2>3 DEF AddDirty, SetState
<1>3. ASSUME NEW t \in Toplevel, NEW w \in Workspace, MoveToWorkspace(t, w)
      PROVE  Kinds(u)
  <2> DEFINE tiled == IF state[t] = "TILED" THEN (Tiled(home[t]) \ {t}) \cup Tiled(w) ELSE {}
             sized == IF state[t] = "FLOAT" THEN {} ELSE tiled \cup {t}
             own == IF state[t] = "TILED" THEN LayoutSize ELSE Size
  <2>1. PICK box \in [sized -> own] : Submit(box, {})
    BY <1>3 DEF MoveToWorkspace
  <2>2. sized \in SUBSET Toplevel
    BY TiledIsMapped
  <2>3. box \in [sized -> AnySize]
    BY LayoutSizeIsSize DEF AnySize
  <2> QED
    BY <1>1, <1>3, <2>1, <2>2, <2>3 DEF MoveToWorkspace
<1>4. ASSUME NEW w \in Workspace, ChangeWorkspace(w)
      PROVE  Kinds(u)
  BY <1>4, Untouched
  DEF ChangeWorkspace, Kinds, WasMappedOrJoins, Mapped, toplevelVars, sceneVars, listVars
<1>5. ASSUME NEW D \in SUBSET Mapped, NEW box \in [D -> AnySize], AddDirty(box),
             UNCHANGED toplevelVars
      PROVE  Kinds(u)
  <2>1. D \in SUBSET Toplevel
    BY DEF Mapped
  <2> QED
    BY <1>1, <1>5, <2>1 DEF AddDirty, toplevelVars
<1>6. ASSUME NEW t \in Toplevel, NEW v \in Toplevel, Swap(t, v)
      PROVE  Kinds(u)
  <2>1. Tiled(home[t]) \in SUBSET Mapped
    BY TiledIsMapped
  <2> QED
    BY <1>5, <1>6, <2>1, SizeBox DEF Swap
<1>7. ASSUME NEW t \in Toplevel, GrabFloat(t)
      PROVE  Kinds(u)
  <2>1. AddReady(t) /\ UNCHANGED <<life, snapshot>>
    BY <1>7 DEF GrabFloat, toplevelVars, sceneVars
  <2>2. StaysMarked(u)
    <3>1. CASE transaction_state[t] = "CLEAN"
      BY <2>1, <3>1, JoinMarks DEF AddReady, Dirty, IInv
    <3>2. CASE transaction_state[t] # "CLEAN"
      BY <2>1, <3>2, Untouched DEF AddReady, Join, listVars
    <3> QED
      BY <3>1, <3>2
  <2> QED
    BY <2>1, <2>2 DEF Kinds, WasMappedOrJoins, Mapped
<1>8. ASSUME NEW t \in Toplevel, ResizeFloat(t)
      PROVE  Kinds(u)
  <2>1. PICK size \in Size : AddDirty([v \in {t} |-> size])
    BY <1>8 DEF ResizeFloat
  <2>2. {t} \in SUBSET Mapped /\ [v \in {t} |-> size] \in [{t} -> AnySize]
    BY <1>8 DEF ResizeFloat, AnySize
  <2> QED
    BY <1>5, <1>8, <2>1, <2>2 DEF ResizeFloat
<1>9. CASE Arrange
  <2>1. {t \in Mapped : state[t] = "TILED"} \in SUBSET Mapped
    OBVIOUS
  <2> QED
    BY <1>5, <1>9, <2>1, SizeBox DEF Arrange
<1> QED
  BY <1>2, <1>3, <1>4, <1>6, <1>7, <1>8, <1>9 DEF UserNext

LEMMA LoopKinds ==
  ASSUME IInv, LoopNext, NEW u \in Toplevel, life'[u] = "mapped"
  PROVE  Kinds(u)
<1>1. CASE Idle /\ schedule
  <2>1. dirty_count = 0
    BY <1>1 DEF IInv, TimerInv, CallbacksConsistent
  <2> QED
    BY <1>1, <2>1, NobodyDirty DEF Idle, IInv, Kinds, IsPerformed
<1>2. CASE Idle /\ ~schedule
  BY <1>2, Untouched DEF Idle, Kinds, WasMappedOrJoins, Mapped, sceneVars, listVars
<1>3. CASE Tick
  BY <1>3, Untouched
  DEF Tick, Kinds, WasMappedOrJoins, Mapped, toplevelVars, sceneVars, listVars
<1>4. CASE TimeOut
  BY <1>4 DEF TimeOut, Kinds, IsPerformed
<1> QED
  BY <1>1, <1>2, <1>3, <1>4 DEF LoopNext

LEMMA StepKinds ==
  ASSUME IInv, [Next \/ Halted]_vars, NEW u \in Toplevel, life'[u] = "mapped"
  PROVE  Kinds(u)
<1>1. CASE UNCHANGED vars
  BY <1>1, Untouched
  DEF vars, Kinds, WasMappedOrJoins, Mapped, toplevelVars, sceneVars, listVars
<1>2. CASE Next
  BY <1>2, ClientKinds, UserKinds, LoopKinds DEF Next
<1> QED
  BY <1>1, <1>2 DEF Halted

-----------------------------------------------------------------------------
(* Before the timer gives up, a window stays frozen until its client has     *)
(* acknowledged the latest request (AppliedOnlyWhenAcked).                   *)
THEOREM WaitsForAcknowledgement == Spec => AppliedOnlyWhenAcked
<1>1. ASSUME IInv, [Next \/ Halted]_vars, time_out # 0,
             NEW t \in Toplevel, transaction_state[t] = "DIRTY",
             transaction_state'[t] # "DIRTY", life'[t] = "mapped"
      PROVE  configure'[t] = "acked"
  <2>1. Kinds(t)
    BY <1>1, StepKinds
  <2> QED
    BY <1>1, <2>1 DEF Kinds, StaysMarked, Answers, IsPerformed, Dirty
<1>2. IInv /\ [Next \/ Halted]_vars =>
        (time_out # 0 =>
           \A t \in Toplevel :
             (transaction_state[t] = "DIRTY" /\ transaction_state'[t] # "DIRTY"
                /\ life'[t] = "mapped")
               => configure'[t] = "acked")
  BY <1>1
<1> QED
  BY <1>2, Invariance, PTL DEF Spec, AppliedOnlyWhenAcked

(* No mapped window stays frozen with no transaction to release it           *)
(* (FrozenIsReleased).                                                       *)
LEMMA FrozenStep ==
  ASSUME IInv, FrozenIsReleased, [Next \/ Halted]_vars
  PROVE  FrozenIsReleased'
<1> SUFFICES ASSUME NEW u \in Toplevel, life'[u] = "mapped", snapshot'[u]
             PROVE  transaction_state'[u] # "CLEAN"
  BY DEF FrozenIsReleased, Mapped
<1>1. CASE StaysMarked(u) /\ WasMappedOrJoins(u)
  BY <1>1 DEF StaysMarked, WasMappedOrJoins, FrozenIsReleased
<1>2. CASE Answers(u)
  BY <1>2 DEF Answers
<1>3. CASE IsPerformed(u)
  <2>1. snapshot[u] /\ u \notin Members /\ life[u] = "mapped"
    BY <1>3 DEF IsPerformed, Perform, Thawed
  <2>2. transaction_state[u] # "CLEAN"
    BY <2>1 DEF FrozenIsReleased, Mapped
  <2>3. u \in Members
    BY <2>2 DEF IInv, BookInv, BookType, UncleanIsListed, Members
  <2> QED
    BY <2>1, <2>3
<1> QED
  BY <1>1, <1>2, <1>3, StepKinds DEF Kinds

(* While a frozen window is mapped there is a transaction that will show its *)
(* content again (commit and transaction_add_ghost of transaction.c).        *)
THEOREM FrozenIsAlwaysReleased == Spec => []FrozenIsReleased
<1>1. Init => FrozenIsReleased
  BY DEF Init, FrozenIsReleased, Mapped
<1>2. IInv /\ FrozenIsReleased /\ [Next \/ Halted]_vars => FrozenIsReleased'
  BY FrozenStep
<1> QED
  BY <1>1, <1>2, Invariance, PTL DEF Spec

-----------------------------------------------------------------------------
(* Between transactions the screen shows the presented workspace.            *)

Seen(u) == u \in Listed(presented) /\ state[u] # "FLOAT"

HiddenIsMember ==
  presented # None =>
    \A t \in Toplevel : Seen(t) => shown[t] \/ transaction_state[t] # "CLEAN"

(* What a step that does not perform the transaction does to a window.       *)
StaysSeenOrJoins(u) ==
  \/ transaction_state'[u] # "CLEAN"
  \/ Seen(u) /\ shown'[u] = shown[u] /\ presented' = presented

LEMMA SameList ==
  ASSUME UNCHANGED <<life, state, home, fullscreen, presented, shown>>,
         NEW u, Seen(u)'
  PROVE  StaysSeenOrJoins(u)
BY DEF StaysSeenOrJoins, Seen, Listed, Mapped

(* Another window came or went, without passing the slot on.                 *)
LEMMA OtherWindow ==
  ASSUME NEW u \in Toplevel, Seen(u)',
         life'[u] = life[u], state'[u] = state[u], home'[u] = home[u],
         shown'[u] = shown[u], presented' = presented,
         \A w \in Workspace : fullscreen'[w] = u => fullscreen[w] = u,
         home[u] \in Workspace
  PROVE  StaysSeenOrJoins(u)
BY DEF StaysSeenOrJoins, Seen, Listed, Mapped

LEMMA ClientSeen ==
  ASSUME IInv, NEW t \in Toplevel, ClientNext(t), ~CommitLast(t), presented # None,
         NEW u \in Toplevel, Seen(u)'
  PROVE  StaysSeenOrJoins(u)
<1> USE DEF IInv
<1>0. life'[u] = "mapped" /\ home'[u] = presented' /\ state'[u] # "FLOAT"
  BY DEF Seen, Listed, Mapped
<1>1. CASE Create(t)
  <2>1. UNCHANGED <<state, home, fullscreen, presented, shown>> /\ life' = [life EXCEPT ![t] = "created"]
    BY <1>1 DEF Create, workspaceVars
  <2> QED
    BY <1>0, <2>1 DEF StaysSeenOrJoins, Seen, Listed, Mapped, RestType
<1>2. CASE InitialCommit(t)
  <2>1. UNCHANGED <<state, home, fullscreen, presented, shown>> /\ life' = [life EXCEPT ![t] = "initialized"]
    BY <1>2 DEF InitialCommit, workspaceVars, sceneVars
  <2> QED
    BY <1>0, <2>1 DEF StaysSeenOrJoins, Seen, Listed, Mapped, RestType
<1>3. ASSUME NEW st, NEW drawn, Appear(t, st, drawn), transaction_state'[t] # "CLEAN"
      PROVE  StaysSeenOrJoins(u)
  <2>1. CASE u = t
    BY <1>3, <2>1 DEF StaysSeenOrJoins
  <2>2. CASE u # t
    <3>1. /\ life'[u] = life[u] /\ state'[u] = state[u] /\ home'[u] = home[u]
          /\ shown'[u] = shown[u] /\ presented' = presented /\ fullscreen' = fullscreen
      BY <1>3, <2>2 DEF Appear, RestType
    <3> QED
      BY <3>1 DEF StaysSeenOrJoins, Seen, Listed, Mapped
  <2> QED
    BY <2>1, <2>2
<1>4. CASE MapTiled(t)
  <2>1. PICK drawn \in Size, box \in [Tiled(active) \cup {t} -> LayoutSize] :
               Appear(t, "TILED", drawn) /\ AddDirty(box)
    BY <1>4 DEF MapTiled
  <2> DEFINE D == Tiled(active) \cup {t}
  <2>2. D \in SUBSET Toplevel /\ {} \in SUBSET Toplevel /\ t \notin {} /\ t \in D
    BY TiledIsMapped
  <2>3. box \in [D -> AnySize]
    BY SizeBox
  <2>4. transaction_state'[t] # "CLEAN"
    BY <2>1, <2>2, <2>3, SubmitMarks DEF AddDirty
  <2> QED
    BY <1>3, <2>1, <2>4
<1>5. CASE MapFloat(t)
  <2>1. PICK drawn \in Size :
               Appear(t, "FLOAT", drawn) /\ AddAuto(t) /\ UNCHANGED snapshot
    BY <1>5 DEF MapFloat
  <2> QED
    BY <1>3, <2>1, AutoMarks
<1>6. CASE MapFloatSized(t)
  <2>1. PICK drawn \in Size, rule \in Size :
               Appear(t, "FLOAT", drawn) /\ Submit([v \in {t} |-> rule], {})
    BY <1>6 DEF MapFloatSized
  <2>2. /\ {t} \in SUBSET Toplevel /\ {} \in SUBSET Toplevel /\ t \notin {} /\ t \in {t}
        /\ [v \in {t} |-> rule] \in [{t} -> AnySize]
    BY DEF AnySize
  <2>3. transaction_state'[t] # "CLEAN"
    BY <2>1, <2>2, SubmitMarks
  <2> QED
    BY <1>3, <2>1, <2>3
<1>7. CASE CommitIgnored(t) \/ CommitReady(t) \/ CommitFloat(t) \/ CommitUnmappedFloat(t)
  <2>1. UNCHANGED <<life, state, home, fullscreen, presented, shown>>
    BY <1>7 DEF CommitIgnored, CommitReady, CommitFloat, CommitUnmappedFloat, sceneVars,
                workspaceVars
  <2> QED
    BY <2>1, SameList
<1>8. CASE Unmap(t)
  <2>1. u # t
    BY <1>0, <1>8 DEF Unmap, RestType
  <2>2. /\ life'[u] = life[u] /\ state' = state /\ home' = home
        /\ shown' = shown /\ presented' = presented
    BY <1>8, <2>1 DEF Unmap, RestType
  <2>3. \A w \in Workspace : fullscreen'[w] = u => fullscreen[w] = u
    BY <1>8, NoneIsNobody DEF Unmap, RestType
  <2>4. home[u] \in Workspace
    BY <1>0, <2>2 DEF RestType
  <2> QED
    BY <2>2, <2>3, <2>4, OtherWindow
<1>9. CASE Destroy(t)
  <2>1. u # t
    BY <1>0, <1>9 DEF Destroy, RestType
  <2>2. /\ life'[u] = life[u] /\ state'[u] = state[u] /\ home'[u] = home[u]
        /\ shown'[u] = shown[u] /\ presented' = presented /\ fullscreen' = fullscreen
    BY <1>9, <2>1 DEF Destroy, RestType, workspaceVars
  <2> QED
    BY <2>2 DEF StaysSeenOrJoins, Seen, Listed, Mapped
<1> QED
  BY <1>1, <1>2, <1>4, <1>5, <1>6, <1>7, <1>8, <1>9 DEF ClientNext

LEMMA UserSeen ==
  ASSUME IInv, UserNext, presented # None, NEW u \in Toplevel, Seen(u)'
  PROVE  StaysSeenOrJoins(u)
<1>0. life'[u] = "mapped" /\ home'[u] = presented' /\ state'[u] # "FLOAT"
  BY DEF Seen, Listed, Mapped
<1>1. ASSUME NEW t \in Toplevel, NEW st \in State, SetState(t, st)
      PROVE  StaysSeenOrJoins(u)
  <2> DEFINE rest == IF "TILED" \in {state[t], st} THEN Tiled(home[t]) \ {t} ELSE {}
             D == rest \cup {t}
  <2>1. PICK size \in AnySize, others \in [rest -> LayoutSize] :
               AddDirty([v \in D |-> IF v = t THEN size ELSE others[v]])
    BY <1>1, SetStateSizes
  <2>2. D \in SUBSET Toplevel /\ {} \in SUBSET Toplevel /\ u \notin {}
    BY TiledIsMapped
  <2>3. [v \in D |-> IF v = t THEN size ELSE others[v]] \in [D -> AnySize]
    BY LayoutSizeIsSize
  <2>4. CASE u = t
    <3>1. u \in D => transaction_state'[u] # "CLEAN"
      BY <2>1, <2>2, <2>3, SubmitMarks DEF AddDirty, IInv
    <3> QED
      BY <2>4, <3>1 DEF StaysSeenOrJoins
  <2>5. CASE u # t
    <3>1. /\ life' = life /\ state'[u] = state[u] /\ home' = home
          /\ shown' = shown /\ presented' = presented
      BY <1>1, <2>5 DEF SetState, IInv, RestType
    <3>2. \A w \in Workspace : fullscreen'[w] = u => fullscreen[w] = u
      BY <1>1, <2>5, NoneIsNobody DEF SetState, IInv, RestType
    <3>3. home[u] \in Workspace
      BY <1>0, <3>1 DEF IInv, RestType
    <3> QED
      BY <3>1, <3>2, <3>3, OtherWindow
  <2> QED
    BY <2>4, <2>5
<1>2. ASSUME NEW t \in Toplevel, NEW w \in Workspace, MoveToWorkspace(t, w)
      PROVE  StaysSeenOrJoins(u)
  <2> DEFINE tiled == IF state[t] = "TILED" THEN (Tiled(home[t]) \ {t}) \cup Tiled(w) ELSE {}
             sized == IF state[t] = "FLOAT" THEN {} ELSE tiled \cup {t}
             own == IF state[t] = "TILED" THEN LayoutSize ELSE Size
  <2>1. PICK box \in [sized -> own] : Submit(box, {})
    BY <1>2 DEF MoveToWorkspace
  <2>2. sized \in SUBSET Toplevel /\ {} \in SUBSET Toplevel /\ u \notin {}
    BY TiledIsMapped
  <2>3. box \in [sized -> AnySize]
    BY LayoutSizeIsSize DEF AnySize
  <2>4. CASE u = t
    <3>1. u \in sized => transaction_state'[u] # "CLEAN"
      BY <2>1, <2>2, <2>3, SubmitMarks DEF IInv
    <3>2. u \in sized
      BY <1>0, <1>2, <2>4 DEF MoveToWorkspace
    <3> QED
      BY <3>1, <3>2 DEF StaysSeenOrJoins
  <2>5. CASE u # t
    <3>1. /\ life' = life /\ state' = state /\ home'[u] = home[u]
          /\ shown' = shown /\ presented' = presented
      BY <1>2, <2>5 DEF MoveToWorkspace, IInv, RestType
    <3>2. \A v \in Workspace : fullscreen'[v] = u => fullscreen[v] = u
      BY <1>2, <2>5, NoneIsNobody DEF MoveToWorkspace, IInv, RestType
    <3>3. home[u] \in Workspace
      BY <1>0, <3>1 DEF IInv, RestType
    <3> QED
      BY <3>1, <3>2, <3>3, OtherWindow
  <2> QED
    BY <2>4, <2>5
<1>3. CASE \/ \E w \in Workspace : ChangeWorkspace(w)
           \/ \E t, v \in Toplevel : Swap(t, v)
           \/ \E t \in Toplevel : GrabFloat(t)
           \/ \E t \in Toplevel : ResizeFloat(t)
           \/ Arrange
  <2>1. UNCHANGED <<life, state, home, fullscreen, presented, shown>>
    BY <1>3 DEF ChangeWorkspace, Swap, GrabFloat, ResizeFloat, Arrange, toplevelVars,
                sceneVars, workspaceVars
  <2> QED
    BY <2>1, SameList
<1> QED
  BY <1>1, <1>2, <1>3 DEF UserNext

-----------------------------------------------------------------------------
(* Performing the transaction shows whatever the new workspace lists.        *)
LEMMA PerformedIsShown ==
  ASSUME Perform, NEW u \in Toplevel, Seen(u)'
  PROVE  shown'[u]
<1>1. presented' = active /\ active' = active
  BY DEF Perform
<1>2. u \notin Freed /\ life[u] = "mapped"
  BY DEF Seen, Listed, Mapped, Perform
<1>3. u \in Listed(active)
  BY <1>1, <1>2 DEF Seen, Listed, Mapped, Perform
<1> QED
  BY <1>2, <1>3 DEF Perform

LEMMA HiddenStep ==
  ASSUME IInv, HiddenIsMember, [Next \/ Halted]_vars
  PROVE  HiddenIsMember'
<1> SUFFICES ASSUME presented' # None, NEW u \in Toplevel, Seen(u)'
             PROVE  shown'[u] \/ transaction_state'[u] # "CLEAN"
  BY DEF HiddenIsMember
<1>1. life'[u] = "mapped"
  BY DEF Seen, Listed, Mapped
<1>2. ASSUME Perform
      PROVE  shown'[u]
  BY <1>2, PerformedIsShown
<1>3. ASSUME presented # None, StaysSeenOrJoins(u), StaysMarked(u)
      PROVE  shown'[u] \/ transaction_state'[u] # "CLEAN"
  BY <1>3 DEF StaysSeenOrJoins, StaysMarked, HiddenIsMember
<1>4. ASSUME ~Perform
      PROVE  presented # None
  <2>1. presented' = presented
    <3>1. CASE UNCHANGED vars
      BY <3>1 DEF vars, workspaceVars
    <3>2. ASSUME NEW t \in Toplevel, ClientNext(t)
          PROVE  presented' = presented
      BY <1>4, <3>2
      DEF ClientNext, Create, InitialCommit, MapTiled, MapFloat, MapFloatSized, Appear,
          CommitIgnored, CommitReady, CommitLast, CommitFloat, CommitUnmappedFloat,
          Unmap, Destroy, workspaceVars
    <3>3. ASSUME UserNext
          PROVE  presented' = presented
      BY <3>3
      DEF UserNext, SetState, MoveToWorkspace, ChangeWorkspace, Swap, GrabFloat,
          ResizeFloat, Arrange, workspaceVars
    <3>4. ASSUME LoopNext
          PROVE  presented' = presented
      BY <1>4, <3>4 DEF LoopNext, Idle, Tick, TimeOut, workspaceVars
    <3> QED
      BY <3>1, <3>2, <3>3, <3>4 DEF Next, Halted
  <2> QED
    BY <2>1
<1>5. ASSUME ~Perform
      PROVE  StaysSeenOrJoins(u)
  <2>1. CASE UNCHANGED vars
    BY <2>1, SameList DEF vars, toplevelVars, sceneVars, workspaceVars
  <2>2. ASSUME NEW t \in Toplevel, ClientNext(t)
        PROVE  StaysSeenOrJoins(u)
    <3>1. ~CommitLast(t)
      BY <1>5 DEF CommitLast
    <3> QED
      BY <1>4, <1>5, <2>2, <3>1, ClientSeen
  <2>3. CASE UserNext
    BY <1>4, <1>5, <2>3, UserSeen
  <2>4. CASE LoopNext
    <3>1. UNCHANGED <<life, state, home, fullscreen, presented, shown>>
      BY <1>5, <2>4 DEF LoopNext, Idle, Tick, TimeOut, toplevelVars, sceneVars, workspaceVars
    <3> QED
      BY <3>1, SameList
  <2> QED
    BY <2>1, <2>2, <2>3, <2>4 DEF Next, Halted
<1>6. Kinds(u)
  BY <1>1, StepKinds
<1> QED
  BY <1>2, <1>3, <1>4, <1>5, <1>6 DEF Kinds, Answers, IsPerformed

(* Between transactions every tiled and fullscreen window of the presented   *)
(* workspace is visible (PresentedIsShown).                                  *)
THEOREM PresentedIsAlwaysShown == Spec => []PresentedIsShown
<1>1. Init => HiddenIsMember
  BY DEF Init, HiddenIsMember
<1>2. IInv /\ HiddenIsMember /\ [Next \/ Halted]_vars => HiddenIsMember'
  BY HiddenStep
<1>3. IInv /\ HiddenIsMember => PresentedIsShown
  <2> SUFFICES ASSUME IInv, HiddenIsMember, Settled, presented # None,
                      NEW t \in Listed(presented), state[t] # "FLOAT"
               PROVE  shown[t]
    BY DEF PresentedIsShown
  <2>1. t \in Toplevel /\ Seen(t)
    BY DEF Seen, Listed, Mapped
  <2>2. t \notin Members
    BY DEF Settled, WorkPending
  <2>3. transaction_state[t] = "CLEAN"
    BY <2>1, <2>2 DEF IInv, BookInv, BookType, UncleanIsListed, Members
  <2> QED
    BY <2>1, <2>3 DEF HiddenIsMember
<1> QED
  BY <1>1, <1>2, <1>3, Invariance, PTL DEF Spec
=============================================================================
