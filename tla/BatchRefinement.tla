---------------------------- MODULE BatchRefinement ----------------------------
(***************************************************************************)
(* The engine of Transaction.tla and its users in Toplevels.tla implement  *)
(* Batch.tla.                                                              *)
(***************************************************************************)
EXTENDS Toplevels

(* A window is asked for while it is dirty and in the batch while the list   *)
(* has it; what the list keeps of windows that are gone is not (there may    *)
(* be some, see DestroyedIsRemoved).  It is on screen once its scene tree    *)
(* was enabled for the first time.                                           *)
joined == Members \cap Mapped

asked == {t \in Toplevel : transaction_state[t] = "DIRTY"}

wish == [t \in Toplevel |-> IF t \in Mapped THEN pending[t] ELSE NoSize]

screen ==
  [t \in Toplevel |->
     IF t \in Mapped /\ ~needs_initial_enable[t] THEN current[t] ELSE NoSize]

late == time_out = 0

B == INSTANCE Batch WITH Window <- Toplevel, Nothing <- NoSize,
                         frames <- ghosts, wanted <- active

(* Every step of the engine is a step of a batch, or none: whatever windows, *)
(* users, callbacks and the timer do in between, nothing new is seen before  *)
(* everybody has answered (or time is up), and then all of it is.            *)
AppliesBatches == B!Spec

(* A mapped window that is not in the transaction has on screen the size     *)
(* that was last asked for: no request of any handler is forgotten.          *)
ShownAsAsked == B!InStep
=============================================================================
