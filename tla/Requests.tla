------------------------------- MODULE Requests -------------------------------
(***************************************************************************)
(* The control socket, from a line of words to the object of an action,    *)
(* and the life of that object: action_create and action_destroy of        *)
(* src/action_parser.c, the parts of action_perform and src/keyboard.c     *)
(* that keep objects in lists, and the end in src/config.c.                *)
(*                                                                         *)
(* One step of the reader is one word taken from the line.  A line is read *)
(* within one callback, so every other action waits for the reader.        *)
(***************************************************************************)
EXTENDS Commands, FiniteSets, SequencesExt

CONSTANTS
  Block,          \* what calloc and strdup return; the size of the heap is a bound
  Word,           \* the words of the lines that are sent
  None

ASSUME NoneIsNoBlock == None \notin Block

VARIABLES
  heap,       \* the blocks: Free, or what the program reads in them
  frames,     \* the calls of action_create, the outermost first
  lists,      \* state->keybinds and the lists of rules in state->config
  stage       \* "running" until wl_display_run returns, "over" when main does

vars == <<heap, frames, lists, stage>>

List == LongLived

(* An object is its string pointers; a keybind also has the action that it   *)
(* is bound to, its type, and a key.  A string has nothing.                  *)
Free == [key |-> "free"]
Zeroed == [text |-> [s \in Slot |-> None], action |-> None, acts |-> "none", key |-> "none"]

live == {b \in Block : heap[b] # Free}
Without(blocks) == [b \in Block |-> IF b \in blocks THEN Free ELSE heap[b]]

Init ==
  /\ heap = [b \in Block |-> Free]
  /\ frames = <<>>
  /\ lists = [l \in List |-> <<>>]
  /\ stage = "running"

-----------------------------------------------------------------------------
(* The reader.                                                               *)

Depth == Len(frames)
Top == frames[Depth]
Reading == frames # <<>>
Expected == Head(Top.todo)
Waiting == Reading /\ Top.todo # <<>>

Advance(todo) == frames' = [frames EXCEPT ![Depth].todo = todo]

(* What the destroy functions free of an object.                             *)
TextsOf(b, slots) == {heap[b].text[s] : s \in slots}
ActionDestroy(type, b) == TextsOf(b, Freed[type]) \cup {b}
RuleDestroy(type, b) == TextsOf(b, RuleFreed[type]) \cup {b}

(* A keybind that fails is freed by hand, and so is every keybind around it. *)
FrameDestroy(f) ==
  IF f.object = None THEN {}
  ELSE IF f.type \in Rules THEN RuleDestroy(f.type, f.object)
  ELSE IF f.type = "keybind" THEN {f.object}
  ELSE ActionDestroy(f.type, f.object)

Refuse ==
  /\ heap' = Without(UNION {FrameDestroy(frames[i]) : i \in 1..Depth})
  /\ frames' = <<>>
  /\ UNCHANGED <<lists, stage>>

(* The words at which action_create gives up.  When the first word is no     *)
(* command it does so before it has made anything.                           *)
Unfit(word) ==
  CASE Expected.kind \in DOMAIN Reads -> word \notin Reads[Expected.kind]
    [] Expected.kind = "options" -> word \notin DOMAIN Expected.options
    [] Expected.kind = "action" -> word \notin Command
    [] OTHER -> FALSE

RefuseWord(word) == Waiting /\ Unfit(word) /\ Refuse

RefuseEnd == Waiting /\ Expected.kind \notin Omissible /\ Refuse

(* The command's name: a branch of action_create.                            *)
Ready == stage = "running" /\ ~Reading
NestedWord == Waiting /\ Expected.kind = "action"

Call(word, object) ==
  frames' = Append(frames, [type |-> word, object |-> object, todo |-> Params[word]])

Start(word, b) ==
  /\ Ready
  /\ word \in Command \ Bare
  /\ b \in Block \ live
  /\ heap' = [heap EXCEPT ![b] = Zeroed]
  /\ Call(word, b)
  /\ UNCHANGED <<lists, stage>>

StartBare(word) ==
  /\ Ready
  /\ word \in Bare
  /\ Call(word, None)
  /\ UNCHANGED <<heap, lists, stage>>

(* The rest of the line of a keybind: keybind->action is where the call      *)
(* stores the object.                                                        *)
StartNested(word, b) ==
  /\ NestedWord
  /\ word \in Command \ Bare
  /\ b \in Block \ live
  /\ heap' = [heap EXCEPT ![b] = Zeroed, ![Top.object].acts = word, ![Top.object].action = b]
  /\ Call(word, b)
  /\ UNCHANGED <<lists, stage>>

StartNestedBare(word) ==
  /\ NestedWord
  /\ word \in Bare
  /\ heap' = [heap EXCEPT ![Top.object].acts = word]
  /\ Call(word, None)
  /\ UNCHANGED <<lists, stage>>

ReadValue(word) ==
  /\ Waiting
  /\ \/ Expected.kind = "modifiers"
     \/ Expected.kind \in DOMAIN Reads \ {"key"} /\ word \in Reads[Expected.kind]
  /\ Advance(Tail(Top.todo))
  /\ UNCHANGED <<heap, lists, stage>>

ReadKey(word) ==
  /\ Waiting /\ Expected.kind = "key"
  /\ word \in Reads.key
  /\ heap' = [heap EXCEPT ![Top.object].key = word]
  /\ Advance(Tail(Top.todo))
  /\ UNCHANGED <<lists, stage>>

(* Mutated form: the first copy is forgotten.                                *)
ReadTextOverwriting(b) ==
  /\ Waiting /\ Expected.kind = "text"
  /\ b \in Block \ live
  /\ heap' = [heap EXCEPT ![b] = Zeroed, ![Top.object].text[Expected.slot] = b]
  /\ Advance(Tail(Top.todo))
  /\ UNCHANGED <<lists, stage>>

(* strdup; an option of a rule that is given again frees the first copy.     *)
ReadText(b) ==
  LET s == Expected.slot
      old == IF Top.type \in Rules THEN {heap[Top.object].text[s]} ELSE {} IN
  /\ Waiting /\ Expected.kind = "text"
  /\ b \in Block \ (live \ old)
  /\ heap' = [Without(old) EXCEPT ![b] = Zeroed, ![Top.object].text[s] = b]
  /\ Advance(Tail(Top.todo))
  /\ UNCHANGED <<lists, stage>>

ReadFlag(word) ==
  /\ Waiting /\ Expected.kind = "flag" /\ word = Expected.flag
  /\ Advance(Expected.params \o Tail(Top.todo))
  /\ UNCHANGED <<heap, lists, stage>>

(* Another word is compared with the parameter that follows.                 *)
SkipFlag(word) ==
  /\ Waiting /\ Expected.kind = "flag" /\ word # Expected.flag
  /\ Advance(Tail(Top.todo))
  /\ UNCHANGED <<heap, lists, stage>>

ReadOption(word) ==
  /\ Waiting /\ Expected.kind = "options"
  /\ word \in DOMAIN Expected.options
  /\ Advance(<<Expected.options[word]>> \o Top.todo)
  /\ UNCHANGED <<heap, lists, stage>>

ReadEnd ==
  /\ Waiting
  /\ Expected.kind \in Omissible
  /\ Advance(Tail(Top.todo))
  /\ UNCHANGED <<heap, lists, stage>>

-----------------------------------------------------------------------------
(* What is done with the object.                                             *)

(* wl_list_insert at the end for rules, at the front for keybinds.           *)
Insert(type, b) ==
  lists' = [lists EXCEPT ![type] = IF type = "keybind" THEN <<b>> \o @ ELSE Append(@, b)]

(* Mutated form: the object is destroyed whatever has become of it.          *)
FinishFreeing ==
  LET f == Head(frames) IN
  /\ Reading /\ Top.todo = <<>>
  /\ frames' = <<>>
  /\ heap' = IF f.object = None THEN heap ELSE Without(ActionDestroy(f.type, f.object))
  /\ stage' = IF f.type = "exit" THEN "stopped" ELSE stage
  /\ IF f.type \in LongLived THEN Insert(f.type, f.object) ELSE UNCHANGED lists

(* handle_request: action_perform, then action_destroy, which leaves the     *)
(* objects alone that live on.  What the others do is not about the heap.    *)
Finish ==
  LET f == Head(frames) IN
  /\ Reading /\ Top.todo = <<>>
  /\ frames' = <<>>
  /\ IF f.type \in LongLived
     THEN Insert(f.type, f.object) /\ UNCHANGED <<heap, stage>>
     ELSE /\ heap' = IF f.object = None THEN heap ELSE Without(ActionDestroy(f.type, f.object))
          /\ stage' = IF f.type = "exit" THEN "stopped" ELSE stage
          /\ UNCHANGED lists

(* handle_comp_keybinds: the first keybind in the list that matches.  A key  *)
(* that makes a rule or a keybind is pressed once: the second time the same  *)
(* link would be inserted again and the list be a list no more.              *)
Bound(k) == SelectInSeq(lists["keybind"], LAMBDA b : heap[b].key = k)

Press(k) ==
  LET b == lists["keybind"][Bound(k)]
      type == heap[b].acts
      a == heap[b].action IN
  /\ Ready
  /\ Bound(k) > 0
  /\ type \in LongLived \cup {"exit"}
  /\ IF type = "exit" THEN stage' = "stopped" /\ UNCHANGED lists
     ELSE /\ ~Contains(lists[type], a)
          /\ Insert(type, a)
          /\ UNCHANGED stage
  /\ UNCHANGED <<heap, frames>>

(* config_deinit, after the loop has ended.  The list of keybinds it walks   *)
(* is the one in struct config, where nobody puts any.                       *)
Deinit ==
  /\ stage = "stopped"
  /\ stage' = "over"
  /\ heap' = Without(UNION {UNION {RuleDestroy(r, b) : b \in ToSet(lists[r])} : r \in Rules})
  /\ lists' = [lists EXCEPT !["pointer_rule"] = <<>>, !["toplevel_rule"] = <<>>,
                            !["output_rule"] = <<>>]
  /\ UNCHANGED frames

-----------------------------------------------------------------------------
Take(word) ==
  \/ RefuseWord(word)
  \/ \E b \in Block : Start(word, b) \/ StartNested(word, b)
  \/ StartBare(word) \/ StartNestedBare(word)
  \/ ReadValue(word) \/ ReadKey(word) \/ ReadFlag(word) \/ ReadOption(word)
  \/ \E b \in Block : ReadText(b)

End == RefuseEnd \/ ReadEnd

Next ==
  \/ \E word \in Word : Take(word) \/ SkipFlag(word)
  \/ End
  \/ Finish
  \/ \E k \in Reads.key : Press(k)
  \/ Deinit

Spec == Init /\ [][Next]_vars

-----------------------------------------------------------------------------
(* What must hold.                                                           *)

(* Nobody holds the address of a block that was freed: no list, no call of   *)
(* action_create in progress, and no object that is itself allocated.  The   *)
(* many exits of action_create free what they have made so far, and only     *)
(* that; action_destroy spares what lives in a list (keybind.h:22).          *)
NoDangling ==
  stage # "over" =>
    /\ \A l \in List : ToSet(lists[l]) \subseteq live
    /\ \A i \in 1..Depth : frames[i].object \in live \cup {None}
    /\ \A b \in live : /\ heap[b].action \in live \cup {None}
                       /\ \A s \in Slot : heap[b].text[s] \in live \cup {None}

(* Every block can still be reached, and so can still be freed: whatever a   *)
(* line ends with, in the middle of an option or of the action of a keybind. *)
Held(b) ==
  \/ \E l \in List : b \in ToSet(lists[l])
  \/ \E i \in 1..Depth : b = frames[i].object
  \/ \E o \in live : b = heap[o].action \/ \E s \in Slot : b = heap[o].text[s]

NothingIsLost == \A b \in live : Held(b)
=============================================================================
