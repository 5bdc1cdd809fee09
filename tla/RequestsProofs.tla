----------------------------- MODULE RequestsProofs -----------------------------
(***************************************************************************)
(* No address of a freed block is kept and no block is lost, whatever      *)
(* words are sent and whatever number of blocks there is.  Both follow     *)
(* from who owns what: a string belongs to one slot of one object, the     *)
(* object of a nested call to the call around it, and every object has     *)
(* strings only in the slots that the function which will destroy it       *)
(* frees.                                                                  *)
(***************************************************************************)
EXTENDS Requests, TLAPS, WellFoundedInduction

-----------------------------------------------------------------------------
(* The parameters of a command: what the table of Commands is made of.       *)

Kind == {"int", "float", "sensitivity", "color", "direction", "switch", "method", "state",
         "key", "lastInt", "lastColor", "modifiers"}

Plain == {Need(k) : k \in Kind} \cup {Text(s) : s \in Slot}

Table == {PointerRule, ToplevelRule, OutputRule}

FlagWord == {"--output", "--adjust", "--even_when_locked"}

Entry ==
  Plain \cup {Need("action")} \cup {Options(table) : table \in Table}
  \cup {Flag(flag, <<>>) : flag \in FlagWord}
  \cup {Flag(flag, <<p>>) : flag \in FlagWord, p \in Plain}

(* The slots that a parameter, or what it stands for, is copied to.          *)
SlotsOf(e) ==
  {s \in Slot :
     \/ e = Text(s)
     \/ e.kind = "flag" /\ e.params = <<Text(s)>>
     \/ e.kind = "options" /\ \E w \in DOMAIN e.options : e.options[w] = Text(s)}

(* The slots that are freed with an object.                                  *)
OwnedSlots(type) == IF type \in Rules THEN RuleFreed[type] ELSE Freed[type]

Suits(type, todo) ==
  \A i \in DOMAIN todo :
    /\ SlotsOf(todo[i]) \subseteq OwnedSlots(type)
    /\ todo[i].kind = "action" => type = "keybind"
    /\ todo[i].kind = "options" => type \in Rules

(* Only rules are asked for a string again.                                  *)
Once(todo) ==
  \A i, j \in DOMAIN todo : i # j => SlotsOf(todo[i]) \cap SlotsOf(todo[j]) = {}

(* What is left to read for a command.                                       *)
Fits(type, todo) ==
  /\ todo \in Seq(Entry)
  /\ Suits(type, todo)
  /\ type \notin Rules => Once(todo)

-----------------------------------------------------------------------------
(* Types.                                                                    *)

Object ==
  [text : [Slot -> Block \cup {None}], action : Block \cup {None},
   acts : Command \cup {"none"}, key : Reads.key \cup {"none"}]

Frame == [type : Command, object : Block \cup {None}, todo : Seq(Entry)]

TypeOK ==
  /\ heap \in [Block -> Object \cup {Free}]
  /\ frames \in Seq(Frame)
  /\ lists \in [List -> Seq(Block)]
  /\ stage \in {"running", "stopped", "over"}

-----------------------------------------------------------------------------
(* Who owns what.                                                            *)

(* An object that the destroy function of its type frees with all it owns.   *)
Typed(type, b) ==
  /\ \A s \in Slot \ OwnedSlots(type) : heap[b].text[s] = None
  /\ type # "keybind" => heap[b].action = None

(* A call without an object has nothing to read.                             *)
CallMade(f) ==
  IF f.object = None THEN f.todo = <<>> /\ f.type \in Bare
  ELSE f.object \in live /\ f.type \notin Bare

CallTyped(f) ==
  f.object # None =>
    /\ Typed(f.type, f.object)
    /\ Fits(f.type, f.todo)
    /\ f.type \notin Rules =>
         \A i \in DOMAIN f.todo : \A s \in SlotsOf(f.todo[i]) : heap[f.object].text[s] = None

CallsKept ==
  /\ \A i \in 1..Depth : CallMade(frames[i]) /\ CallTyped(frames[i])
  /\ \A i, j \in 1..Depth : frames[i].object = frames[j].object /\ frames[i].object # None => i = j

(* Every call but the innermost reads the action of a keybind.               *)
CallsNested ==
  /\ \A i \in 1..(Depth - 1) :
       /\ frames[i].type = "keybind"
       /\ heap[frames[i].object].action = frames[i + 1].object
       /\ heap[frames[i].object].acts = frames[i + 1].type
  /\ Reading /\ Top.object # None => heap[Top.object].action = None

InNoCall(b) == \A i \in 1..Depth : frames[i].object # b
InNoList(b) == \A l \in List : b \notin ToSet(lists[l])

ListsKept ==
  \A l \in List : \A b \in ToSet(lists[l]) : b \in live /\ Typed(l, b) /\ InNoCall(b)

TextKept(o, s) ==
  LET t == heap[o].text[s] IN
  t # None =>
    /\ t \in live /\ heap[t] = Zeroed
    /\ InNoList(t) /\ InNoCall(t)
    /\ \A p \in live : heap[p].action # t
    /\ \A p \in live, r \in Slot : heap[p].text[r] = t => p = o /\ r = s

ActionKept(o) ==
  LET a == heap[o].action IN
  a # None =>
    /\ a \in live
    /\ \A p \in live : heap[p].action = a => p = o
    /\ \A i \in 1..Depth : frames[i].object = a => i > 1 /\ frames[i - 1].object = o

(* The action of a keybind can be inserted in a list when the key is pressed. *)
ActionTyped(o) ==
  heap[o].acts \in LongLived => heap[o].action # None /\ Typed(heap[o].acts, heap[o].action)

ObjectsKept ==
  \A o \in live : ActionKept(o) /\ ActionTyped(o) /\ \A s \in Slot : TextKept(o, s)

Owned == CallsKept /\ CallsNested /\ ListsKept /\ ObjectsKept

(* config_deinit leaves the keybinds with the addresses of the rules.        *)
IInv ==
  /\ TypeOK
  /\ stage # "running" => frames = <<>>
  /\ stage # "over" => Owned
  /\ NothingIsLost

-----------------------------------------------------------------------------
(* Facts about the table of Commands.                                        *)

(* Two tables have no command in common, so a command's parameters are those *)
(* of the table that names it.                                               *)
LEMMA TableDomains ==
  /\ DOMAIN WorkspaceCommands =
       {"create_workspace", "destroy_workspace", "change_workspace", "move_to_workspace"}
  /\ DOMAIN DirectionCommands = {"focus", "move"}
  /\ DOMAIN ProcessCommands = {"exec", "env"}
  /\ DOMAIN KeyboardCommands = {"repeat_rate", "keymap"}
  /\ DOMAIN TrackpadCommands =
       {"trackpad_disable_while_typing", "trackpad_tap_to_click", "trackpad_natural_scroll",
        "trackpad_scroll_method"}
  /\ DOMAIN CursorCommands = {"cursor_theme", "cursor_hide_after_ms"}
  /\ DOMAIN GapCommands = {"gaps", "smart_gaps"}
  /\ DOMAIN LookCommands =
       {"border_width", "border_color", "master_ratio", "client_side_decorations"}
  /\ DOMAIN RuleCommands = {"pointer_rule", "toplevel_rule", "output_rule"}
  /\ DOMAIN KeybindCommand = {"keybind"}
BY DEF WorkspaceCommands, DirectionCommands, ProcessCommands, KeyboardCommands, TrackpadCommands,
       CursorCommands, GapCommands, LookCommands, RuleCommands, KeybindCommand

LEMMA TablesApart ==
  ASSUME NEW t \in Tables, NEW u \in Tables, NEW c \in DOMAIN t, c \in DOMAIN u
  PROVE  t = u
BY TableDomains, SMTT(30) DEF Tables

LEMMA TablesNotBare ==
  ASSUME NEW t \in Tables, NEW c \in DOMAIN t
  PROVE  c \notin Bare
BY TableDomains, SMTT(30) DEF Tables, Bare

LEMMA ParamsOf ==
  ASSUME NEW t \in Tables, NEW c \in DOMAIN t
  PROVE  c \in Command /\ Params[c] = t[c]
<1>1. c \in Command
  BY DEF Command
<1>2. c \notin Bare
  BY TablesNotBare
<1>3. (CHOOSE table \in Tables : c \in DOMAIN table) = t
  BY TablesApart
<1> QED BY <1>1, <1>2, <1>3 DEF Params

LEMMA ParamsOfBare ==
  ASSUME NEW c \in Bare
  PROVE  c \in Command /\ Params[c] = <<>>
BY DEF Command, Params

LEMMA RulesAre == Rules = {"pointer_rule", "toplevel_rule", "output_rule"}
BY TableDomains DEF Rules

LEMMA LongLivedAre ==
  /\ LongLived = {"pointer_rule", "toplevel_rule", "output_rule", "keybind"}
  /\ LongLived \subseteq Command
  /\ LongLived \cap Bare = {}
<1>1. RuleCommands \in Tables /\ KeybindCommand \in Tables
  BY DEF Tables
<1>2. LongLived = {"pointer_rule", "toplevel_rule", "output_rule", "keybind"}
  BY RulesAre DEF LongLived
<1>3. LongLived \subseteq Command
  BY <1>1, <1>2, TableDomains, ParamsOf
<1> QED BY <1>2, <1>3 DEF Bare

LEMMA OwnedIsSlot == ASSUME NEW c \in Command PROVE OwnedSlots(c) \subseteq Slot
BY RulesAre DEF OwnedSlots, RuleFreed, Freed, Slot

LEMMA OwnedOfSome ==
  /\ OwnedSlots("keybind") = {}
  /\ OwnedSlots("pointer_rule") = {1}
  /\ OwnedSlots("toplevel_rule") = {1, 2}
  /\ OwnedSlots("output_rule") = {1}
  /\ OwnedSlots("create_workspace") = {1}
  /\ OwnedSlots("exec") = {1}
  /\ OwnedSlots("env") = {1, 2}
  /\ OwnedSlots("keymap") = {1, 2, 3}
  /\ OwnedSlots("cursor_theme") = {1}
<1>1. /\ "keybind" \in Command
      /\ "create_workspace" \in Command
      /\ {"exec", "env"} \subseteq Command
      /\ "keymap" \in Command
      /\ "cursor_theme" \in Command
  BY TableDomains, ParamsOf DEF Tables
<1> QED BY <1>1, RulesAre DEF OwnedSlots, RuleFreed, Freed

LEMMA SlotsOfNeed ==
  ASSUME NEW k \in Kind \cup {"action"}
  PROVE  SlotsOf(Need(k)) = {}
BY DEF SlotsOf, Need, Text, Kind

LEMMA SlotsOfText ==
  ASSUME NEW r \in Slot
  PROVE  SlotsOf(Text(r)) = {r}
BY DEF SlotsOf, Text

LEMMA SlotsOfFlag ==
  ASSUME NEW flag
  PROVE  /\ SlotsOf(Flag(flag, <<>>)) = {}
         /\ \A p \in Plain : SlotsOf(Flag(flag, <<p>>)) = SlotsOf(p)
<1>1. SlotsOf(Flag(flag, <<>>)) = {}
  BY DEF SlotsOf, Text, Flag
<1>2. ASSUME NEW p \in Plain PROVE SlotsOf(Flag(flag, <<p>>)) = SlotsOf(p)
  <2>1. p.kind # "flag" /\ p.kind # "options"
    BY DEF Plain, Need, Text, Kind
  <2>2. \A s \in Slot : <<p>> = <<Text(s)>> <=> p = Text(s)
    OBVIOUS
  <2>3. \A s : Flag(flag, <<p>>) # Text(s)
    BY DEF Flag, Text
  <2>4. Flag(flag, <<p>>).kind = "flag" /\ Flag(flag, <<p>>).params = <<p>>
    BY DEF Flag
  <2> QED BY <2>1, <2>2, <2>3, <2>4 DEF SlotsOf
<1> QED BY <1>1, <1>2

LEMMA TableIsPlain ==
  ASSUME NEW table \in Table, NEW w \in DOMAIN table
  PROVE  table[w] \in Plain
<1>1. CASE table = PointerRule
  BY <1>1 DEF PointerRule, Plain, Kind, Slot
<1>2. CASE table = ToplevelRule
  BY <1>2 DEF ToplevelRule, Plain, Kind, Slot
<1>3. CASE table = OutputRule
  BY <1>3 DEF OutputRule, Plain, Kind, Slot
<1> QED BY <1>1, <1>2, <1>3 DEF Table

LEMMA SlotsOfOptions ==
  /\ SlotsOf(Options(PointerRule)) \subseteq {1}
  /\ SlotsOf(Options(ToplevelRule)) \subseteq {1, 2}
  /\ SlotsOf(Options(OutputRule)) \subseteq {1}
  /\ \A table \in Table : \A w \in DOMAIN table : SlotsOf(table[w]) \subseteq SlotsOf(Options(table))
<1>1. ASSUME NEW table \in Table
      PROVE  SlotsOf(Options(table)) = {s \in Slot : \E w \in DOMAIN table : table[w] = Text(s)}
  BY DEF SlotsOf, Options, Text
<1>2. \A s, r \in Slot : Text(s) = Text(r) => s = r
  BY DEF Text
<1>3. \A s \in Slot : \A k : Text(s) = Need(k) => k = "text"
  BY DEF Text, Need
<1>4. ASSUME NEW table \in Table, NEW w \in DOMAIN table
      PROVE  SlotsOf(table[w]) \subseteq SlotsOf(Options(table))
  <2>1. table[w].kind # "flag" /\ table[w].kind # "options"
    BY TableIsPlain DEF Plain, Need, Text, Kind
  <2> QED BY <1>1, <2>1 DEF SlotsOf
<1>5. PointerRule \in Table /\ ToplevelRule \in Table /\ OutputRule \in Table
  BY DEF Table
<1>6. SlotsOf(Options(PointerRule)) \subseteq {1}
  <2>1. \A w \in DOMAIN PointerRule :
          PointerRule[w] \in {Text(1), Need("sensitivity"), Need("switch")}
    BY DEF PointerRule
  <2> QED BY <1>1, <1>2, <1>3, <1>5, <2>1 DEF Slot
<1>7. SlotsOf(Options(ToplevelRule)) \subseteq {1, 2}
  <2>1. \A w \in DOMAIN ToplevelRule :
          ToplevelRule[w] \in {Text(1), Text(2), Need("state"), Need("int")}
    BY DEF ToplevelRule
  <2> QED BY <1>1, <1>2, <1>3, <1>5, <2>1 DEF Slot
<1>8. SlotsOf(Options(OutputRule)) \subseteq {1}
  <2>1. \A w \in DOMAIN OutputRule : OutputRule[w] \in {Text(1), Need("float"), Need("int")}
    BY DEF OutputRule
  <2> QED BY <1>1, <1>2, <1>3, <1>5, <2>1 DEF Slot
<1> QED BY <1>4, <1>6, <1>7, <1>8

LEMMA NeedIsEntry == \A k \in Kind \cup {"action"} : Need(k) \in Entry
BY DEF Entry, Plain

LEMMA FlagIsEntry == \A flag \in FlagWord : Flag(flag, <<>>) \in Entry
BY DEF Entry

LEMMA FitsNeeds ==
  ASSUME NEW c \in Command, NEW k \in Kind, NEW m \in Kind
  PROVE  Fits(c, <<Need(k)>>) /\ Fits(c, <<Need(k), Need(m)>>)
<1>1. Need(k) \in Entry /\ Need(m) \in Entry
  BY NeedIsEntry
<1>2. /\ SlotsOf(Need(k)) = {} /\ Need(k).kind # "action" /\ Need(k).kind # "options"
      /\ SlotsOf(Need(m)) = {} /\ Need(m).kind # "action" /\ Need(m).kind # "options"
  BY SlotsOfNeed DEF Need, Kind
<1> QED BY <1>1, <1>2 DEF Fits, Suits, Once

LEMMA FitsWorkspace == \A c \in DOMAIN WorkspaceCommands : Fits(c, WorkspaceCommands[c])
<1>1. DOMAIN WorkspaceCommands \subseteq Command
  BY ParamsOf DEF Tables
<1>2. \A c \in {"destroy_workspace", "change_workspace", "move_to_workspace"} :
        WorkspaceCommands[c] = <<Need("int")>> /\ Fits(c, <<Need("int")>>)
  <2>1. \A c \in Command : Fits(c, <<Need("int")>>)
    BY FitsNeeds DEF Kind
  <2> QED BY <1>1, <2>1, TableDomains DEF WorkspaceCommands
<1>3. Fits("create_workspace", <<Flag("--output", <<Text(1)>>), Need("int")>>)
  <2> DEFINE flag == Flag("--output", <<Text(1)>>)
             int == Need("int")
  <2>1. flag \in Entry /\ int \in Entry
    BY NeedIsEntry DEF Entry, Plain, Slot, FlagWord, Kind
  <2>2. SlotsOf(flag) = {1} /\ SlotsOf(int) = {}
    BY SlotsOfFlag, SlotsOfText, SlotsOfNeed DEF Plain, Slot, Kind
  <2>3. flag.kind = "flag" /\ int.kind = "int"
    BY DEF Flag, Need
  <2> HIDE DEF flag, int
  <2>4. Fits("create_workspace", <<flag, int>>)
    BY <2>1, <2>2, <2>3, OwnedOfSome DEF Fits, Suits, Once
  <2> QED BY <2>4 DEF flag, int
<1> QED BY <1>2, <1>3, TableDomains DEF WorkspaceCommands

LEMMA FitsTexts ==
  /\ Fits("exec", <<Text(1)>>)
  /\ Fits("env", <<Text(1), Text(2)>>)
  /\ Fits("keymap", <<Text(1), Text(2), Text(3)>>)
  /\ Fits("cursor_theme", <<Text(1), Need("int")>>)
<1>1. /\ \A s \in {1, 2, 3} : Text(s) \in Entry /\ SlotsOf(Text(s)) = {s} /\ Text(s).kind = "text"
      /\ Need("int") \in Entry /\ SlotsOf(Need("int")) = {} /\ Need("int").kind = "int"
  BY SlotsOfText, SlotsOfNeed, NeedIsEntry DEF Slot, Entry, Plain, Kind, Need, Text
<1>2. Fits("exec", <<Text(1)>>)
  BY <1>1, OwnedOfSome DEF Fits, Suits, Once
<1>3. Fits("env", <<Text(1), Text(2)>>)
  BY <1>1, OwnedOfSome DEF Fits, Suits, Once
<1>4. Fits("keymap", <<Text(1), Text(2), Text(3)>>)
  BY <1>1, OwnedOfSome DEF Fits, Suits, Once
<1>5. Fits("cursor_theme", <<Text(1), Need("int")>>)
  BY <1>1, OwnedOfSome DEF Fits, Suits, Once
<1> QED BY <1>2, <1>3, <1>4, <1>5

LEMMA FitsRule ==
  /\ Fits("pointer_rule", <<Options(PointerRule)>>)
  /\ Fits("toplevel_rule", <<Options(ToplevelRule)>>)
  /\ Fits("output_rule", <<Options(OutputRule)>>)
<1>1. ASSUME NEW table \in Table PROVE Options(table) \in Entry /\ Options(table).kind = "options"
  <2>1. Options(table) \in Entry
    BY DEF Entry
  <2> QED BY <2>1 DEF Options
<1>2. ASSUME NEW c \in Rules, NEW table \in Table, SlotsOf(Options(table)) \subseteq OwnedSlots(c)
      PROVE  Fits(c, <<Options(table)>>)
  BY <1>1, <1>2 DEF Fits, Suits
<1> QED BY <1>2, RulesAre, OwnedOfSome, SlotsOfOptions DEF Table

LEMMA FitsKeybind ==
  Fits("keybind", <<Flag("--even_when_locked", <<>>), Need("modifiers"), Need("key"), Need("action")>>)
<1> DEFINE flag == Flag("--even_when_locked", <<>>)
           modifiers == Need("modifiers")
           key == Need("key")
           action == Need("action")
<1>1. {flag, modifiers, key, action} \subseteq Entry
  <2>1. "--even_when_locked" \in FlagWord /\ {"modifiers", "key", "action"} \subseteq Kind \cup {"action"}
    BY DEF FlagWord, Kind
  <2>2. flag \in Entry
    BY <2>1, FlagIsEntry
  <2>3. modifiers \in Entry /\ key \in Entry /\ action \in Entry
    BY <2>1, NeedIsEntry
  <2> HIDE DEF flag, modifiers, key, action
  <2> QED BY <2>2, <2>3
<1>2. \A e \in {flag, modifiers, key, action} : SlotsOf(e) = {}
  BY SlotsOfFlag, SlotsOfNeed DEF Kind
<1>3. \A e \in {flag, modifiers, key, action} : e.kind # "options"
  BY DEF Flag, Need
<1> HIDE DEF flag, modifiers, key, action
<1>4. Fits("keybind", <<flag, modifiers, key, action>>)
  BY <1>1, <1>2, <1>3 DEF Fits, Suits, Once
<1> QED BY <1>4 DEF flag, modifiers, key, action

LEMMA FitsFlag == Fits("master_ratio", <<Flag("--adjust", <<>>), Need("float")>>)
<1> DEFINE flag == Flag("--adjust", <<>>)
           float == Need("float")
<1>1. flag \in Entry /\ float \in Entry
  <2>1. "--adjust" \in FlagWord /\ "float" \in Kind
    BY DEF FlagWord, Kind
  <2>2. flag \in Entry
    BY <2>1, FlagIsEntry
  <2>3. float \in Entry
    BY <2>1, NeedIsEntry
  <2> QED BY <2>2, <2>3
<1>2. SlotsOf(flag) = {} /\ SlotsOf(float) = {}
  BY SlotsOfFlag, SlotsOfNeed DEF Kind
<1>3. flag.kind = "flag" /\ float.kind = "float"
  BY DEF Flag, Need
<1> HIDE DEF flag, float
<1>4. Fits("master_ratio", <<flag, float>>)
  BY <1>1, <1>2, <1>3 DEF Fits, Suits, Once
<1> QED BY <1>4 DEF flag, float

LEMMA ParamsFit == ASSUME NEW c \in Command PROVE Fits(c, Params[c])
<1>1. CASE c \in Bare
  <2>1. Fits(c, <<>>)
    BY DEF Fits, Suits, Once
  <2> QED BY <1>1, <2>1, ParamsOfBare
<1>2. ASSUME NEW t \in Tables, c \in DOMAIN t PROVE Fits(c, t[c])
  <2>1. \A k \in Kind : Fits(c, <<Need(k)>>)
    BY FitsNeeds
  <2>2. /\ Fits(c, <<Need("int"), Need("int")>>)
        /\ Fits(c, <<Need("int"), Need("lastInt")>>)
        /\ Fits(c, <<Need("color"), Need("lastColor")>>)
    BY FitsNeeds DEF Kind
  <2>3. CASE t = WorkspaceCommands
    BY <1>2, <2>3, FitsWorkspace
  <2>4. CASE t = DirectionCommands
    BY <1>2, <2>4, <2>1, TableDomains DEF DirectionCommands, Kind
  <2>5. CASE t = ProcessCommands
    BY <1>2, <2>5, FitsTexts, TableDomains DEF ProcessCommands
  <2>6. CASE t = KeyboardCommands
    BY <1>2, <2>6, <2>2, FitsTexts, TableDomains DEF KeyboardCommands, Kind
  <2>7. CASE t = TrackpadCommands
    BY <1>2, <2>7, <2>1, TableDomains DEF TrackpadCommands, Kind
  <2>8. CASE t = CursorCommands
    BY <1>2, <2>8, <2>1, FitsTexts, TableDomains DEF CursorCommands, Kind
  <2>9. CASE t = GapCommands
    BY <1>2, <2>9, <2>1, <2>2, TableDomains DEF GapCommands, Kind
  <2>10. CASE t = LookCommands
    BY <1>2, <2>10, <2>1, <2>2, FitsFlag, TableDomains DEF LookCommands, Kind
  <2>11. CASE t = RuleCommands
    BY <1>2, <2>11, FitsRule, TableDomains DEF RuleCommands
  <2>12. CASE t = KeybindCommand
    BY <1>2, <2>12, FitsKeybind, TableDomains DEF KeybindCommand
  <2> QED BY <2>3, <2>4, <2>5, <2>6, <2>7, <2>8, <2>9, <2>10, <2>11, <2>12 DEF Tables
<1> QED BY <1>1, <1>2, ParamsOf DEF Command

-----------------------------------------------------------------------------
(* Facts about objects, parameters and calls.                                *)

LEMMA FreeIsNoObject == Zeroed \in Object /\ Free \notin Object
<1>1. "free" \notin Reads.key \cup {"none"}
  BY DEF Reads, KeyName, Direction
<1>2. Free \notin Object
  BY <1>1 DEF Free, Object
<1> QED BY <1>2 DEF Zeroed, Object

LEMMA LiveIs ==
  ASSUME TypeOK
  PROVE  /\ live \subseteq Block /\ None \notin live
         /\ \A b \in Block : b \in live <=> heap[b] \in Object
BY FreeIsNoObject, NoneIsNoBlock DEF TypeOK, live

LEMMA EntryIs ==
  ASSUME NEW e \in Entry
  PROVE  /\ e.kind = "text" => e.slot \in Slot /\ SlotsOf(e) = {e.slot}
         /\ e.kind = "flag" =>
              \/ e.params = <<>>
              \/ \E p \in Plain : e.params = <<p>> /\ SlotsOf(e) = SlotsOf(p)
         /\ e.kind = "options" => e.options \in Table /\ e = Options(e.options)
<1>1. CASE e \in Plain \/ e = Need("action")
  <2>1. CASE \E k \in Kind \cup {"action"} : e = Need(k)
    BY <2>1 DEF Need, Kind
  <2>2. ASSUME NEW s \in Slot, e = Text(s) PROVE e.kind = "text" /\ e.slot = s /\ SlotsOf(e) = {s}
    BY <2>2, SlotsOfText DEF Text
  <2> QED BY <1>1, <2>1, <2>2 DEF Plain
<1>2. CASE \E table \in Table : e = Options(table)
  BY <1>2 DEF Options
<1>3. CASE \E flag \in FlagWord : e = Flag(flag, <<>>)
  BY <1>3 DEF Flag
<1>4. CASE \E flag \in FlagWord, p \in Plain : e = Flag(flag, <<p>>)
  <2>1. PICK flag \in FlagWord, p \in Plain : e = Flag(flag, <<p>>)
    BY <1>4
  <2>2. e.kind = "flag" /\ e.params = <<p>>
    BY <2>1 DEF Flag
  <2> QED BY <2>1, <2>2, SlotsOfFlag
<1> QED BY <1>1, <1>2, <1>3, <1>4 DEF Entry

LEMMA PlainIs ==
  ASSUME NEW p \in Plain
  PROVE  p \in Entry /\ p.kind # "action" /\ p.kind # "options"
BY DEF Entry, Plain, Kind, Need, Text

(* What is left to read after a word asks for no slot that was not asked for *)
(* before.                                                                   *)
Leaves(old, new) ==
  \A i \in DOMAIN new : \E j \in DOMAIN old : SlotsOf(new[i]) \subseteq SlotsOf(old[j])

LEMMA TailFits ==
  ASSUME NEW type, NEW todo, Fits(type, todo), todo # <<>>
  PROVE  Fits(type, Tail(todo)) /\ Leaves(todo, Tail(todo))
<1>1. /\ Tail(todo) \in Seq(Entry)
      /\ \A i \in DOMAIN Tail(todo) : i + 1 \in DOMAIN todo /\ Tail(todo)[i] = todo[i + 1]
      /\ \A i \in DOMAIN Tail(todo) : i \in Int
  BY DEF Fits
<1>2. Suits(type, Tail(todo))
  BY <1>1 DEF Fits, Suits
<1>3. type \notin Rules => Once(Tail(todo))
  BY <1>1 DEF Fits, Once
<1> QED BY <1>1, <1>2, <1>3 DEF Fits, Leaves

(* A word that names a flag or an option puts its parameter in front.        *)
LEMMA FrontFits ==
  ASSUME NEW type, NEW todo, Fits(type, todo),
         NEW p \in Plain, SlotsOf(p) \subseteq OwnedSlots(type),
         type \notin Rules => \A j \in DOMAIN todo : SlotsOf(p) \cap SlotsOf(todo[j]) = {}
  PROVE  Fits(type, <<p>> \o todo)
<1> DEFINE new == <<p>> \o todo
<1>1. p \in Entry /\ p.kind # "action" /\ p.kind # "options"
  BY PlainIs
<1>2. /\ new \in Seq(Entry)
      /\ DOMAIN new = 1..(Len(todo) + 1) /\ DOMAIN todo = 1..Len(todo) /\ Len(todo) \in Nat
      /\ new[1] = p
      /\ \A i \in DOMAIN new : i # 1 => i - 1 \in DOMAIN todo /\ new[i] = todo[i - 1]
  BY <1>1 DEF Fits
<1> HIDE DEF new
<1>3. Suits(type, new)
  BY <1>1, <1>2 DEF Fits, Suits
<1>4. ASSUME type \notin Rules PROVE Once(new)
  <2> SUFFICES ASSUME NEW i \in DOMAIN new, NEW j \in DOMAIN new, i # j
               PROVE  SlotsOf(new[i]) \cap SlotsOf(new[j]) = {}
    BY DEF Once
  <2>1. CASE i = 1
    BY <1>2, <1>4, <2>1
  <2>2. CASE j = 1
    BY <1>2, <1>4, <2>2
  <2>3. CASE i # 1 /\ j # 1
    <3>1. i - 1 # j - 1
      BY <1>2
    <3> QED BY <1>2, <1>4, <2>3, <3>1 DEF Fits, Once
  <2> QED BY <2>1, <2>2, <2>3
<1> QED BY <1>2, <1>3, <1>4 DEF Fits, new

-----------------------------------------------------------------------------
(* The reader moves on to the next parameter.                                *)

LEMMA ReadingIs ==
  ASSUME IInv, Reading
  PROVE  /\ stage = "running" /\ Owned
         /\ Depth \in Nat \ {0} /\ DOMAIN frames = 1..Depth
         /\ Depth \in 1..Depth
         /\ \A i \in 1..Depth : frames[i] \in Frame
BY DEF IInv, TypeOK, Reading, Depth

LEMMA WaitingIs ==
  ASSUME IInv, Waiting
  PROVE  /\ Reading /\ Top \in Frame
         /\ Top.object \in live /\ Top.object # None /\ Top.type \notin Bare
         /\ Fits(Top.type, Top.todo) /\ Typed(Top.type, Top.object)
         /\ Expected \in Entry /\ 1 \in DOMAIN Top.todo /\ Expected = Top.todo[1]
<1>1. Reading /\ Top \in Frame
  BY ReadingIs DEF Waiting, Top
<1>2. CallMade(Top) /\ CallTyped(Top)
  BY <1>1, ReadingIs DEF Owned, CallsKept, Top
<1>3. Top.object \in live /\ Top.object # None /\ Top.type \notin Bare
  BY <1>2, LiveIs DEF CallMade, Waiting, IInv
<1>4. Fits(Top.type, Top.todo) /\ Typed(Top.type, Top.object)
  BY <1>2, <1>3 DEF CallTyped
<1>5. Expected \in Entry /\ 1 \in DOMAIN Top.todo /\ Expected = Top.todo[1]
  BY <1>4 DEF Waiting, Expected, Fits
<1> QED BY <1>1, <1>3, <1>4, <1>5

LEMMA AdvanceShape ==
  ASSUME IInv, Reading, NEW new \in Seq(Entry), Advance(new)
  PROVE  /\ frames' \in Seq(Frame) /\ Depth' = Depth
         /\ \A i \in 1..Depth : frames'[i].object = frames[i].object /\ frames'[i].type = frames[i].type
         /\ \A i \in 1..Depth : frames'[i].todo = IF i = Depth THEN new ELSE frames[i].todo
         /\ frames' # <<>>
<1>1. /\ Depth \in Nat \ {0} /\ DOMAIN frames = 1..Depth /\ Depth \in 1..Depth
      /\ \A i \in 1..Depth : frames[i] \in Frame
  BY ReadingIs
<1>2. frames' = [frames EXCEPT ![Depth] = [@ EXCEPT !.todo = new]]
  BY DEF Advance
<1>3. [frames[Depth] EXCEPT !.todo = new] \in Frame
  BY <1>1 DEF Frame
<1>4. frames' = [i \in 1..Depth |-> IF i = Depth THEN [frames[Depth] EXCEPT !.todo = new] ELSE frames[i]]
  BY <1>1, <1>2
<1>5. frames' \in [1..Depth -> Frame]
  BY <1>1, <1>3, <1>4
<1>6. frames' \in Seq(Frame) /\ Len(frames') = Depth
  BY <1>1, <1>5
<1> QED BY <1>1, <1>3, <1>4, <1>6 DEF Depth, Frame

(* The heap is the same but for the keys of the objects that are being read.  *)
SameOwners ==
  /\ heap' \in [Block -> Object \cup {Free}]
  /\ live' = live
  /\ \A b \in live : /\ heap'[b].text = heap[b].text
                     /\ heap'[b].action = heap[b].action
                     /\ heap'[b].acts = heap[b].acts
                     /\ InNoCall(b) => heap'[b] = heap[b]

LEMMA AdvanceKeeps ==
  ASSUME IInv, Waiting, NEW new, Fits(Top.type, new), Leaves(Top.todo, new) \/ Top.type \in Rules,
         Advance(new), SameOwners, UNCHANGED <<lists, stage>>
  PROVE  IInv'
<1>1. /\ stage = "running" /\ Owned
      /\ Depth \in Nat \ {0} /\ Depth \in 1..Depth
  BY ReadingIs DEF Waiting
<1>2. new \in Seq(Entry)
  BY DEF Fits
<1>3. /\ frames' \in Seq(Frame) /\ Depth' = Depth
      /\ \A i \in 1..Depth : frames'[i].object = frames[i].object /\ frames'[i].type = frames[i].type
      /\ \A i \in 1..Depth : frames'[i].todo = IF i = Depth THEN new ELSE frames[i].todo
      /\ frames' # <<>>
  BY <1>2, AdvanceShape DEF Waiting
<1>4. TypeOK'
  BY <1>3 DEF IInv, TypeOK, SameOwners
<1>5. /\ live' = live
      /\ \A c \in live : /\ heap'[c].text = heap[c].text
                         /\ heap'[c].action = heap[c].action
                         /\ heap'[c].acts = heap[c].acts
                         /\ InNoCall(c) => heap'[c] = heap[c]
  BY DEF SameOwners
<1>6. CallsKept'
  <2>1. ASSUME NEW i \in 1..Depth PROVE CallMade(frames[i])' /\ CallTyped(frames[i])'
    <3>1. CallMade(frames[i]) /\ CallTyped(frames[i])
      BY <1>1 DEF Owned, CallsKept
    <3>2. CASE i # Depth
      BY <1>3, <1>5, <3>1, <3>2 DEF CallMade, CallTyped, Typed
    <3>3. CASE i = Depth
      <4>1. frames[i].object \in live /\ frames[i].object # None /\ CallMade(frames[i])'
        BY <1>3, <1>5, <3>1, <3>3, WaitingIs DEF CallMade, Top
      <4>2. ASSUME Top.type \notin Rules, NEW j \in DOMAIN new, NEW s \in SlotsOf(new[j])
            PROVE  heap[Top.object].text[s] = None
        BY <3>1, <3>3, <4>1, <4>2 DEF CallTyped, Leaves, Top
      <4> QED BY <1>3, <1>5, <3>1, <3>3, <4>1, <4>2 DEF CallTyped, Typed, Top
    <3> QED BY <3>2, <3>3
  <2> QED BY <1>1, <1>3, <2>1 DEF Owned, CallsKept
<1>7. CallsNested'
  <2>1. \A i \in 1..(Depth - 1) : i \in 1..Depth /\ i + 1 \in 1..Depth
    BY <1>1
  <2>2. CallsNested /\ Reading
    BY <1>1 DEF Owned, Waiting
  <2>3. \A i \in 1..Depth : frames[i].object # None => frames[i].object \in live
    BY <1>1 DEF Owned, CallsKept, CallMade
  <2>4. \A i \in 1..(Depth - 1) : frames[i].object # None
    BY <2>1, <2>2, <1>1, LongLivedAre DEF Owned, CallsKept, CallMade, CallsNested
  <2>5. ASSUME NEW i \in 1..(Depth - 1)
        PROVE  (/\ frames[i].type = "keybind"
                /\ heap[frames[i].object].action = frames[i + 1].object
                /\ heap[frames[i].object].acts = frames[i + 1].type)'
    BY <1>3, <1>5, <2>1, <2>2, <2>3, <2>4 DEF CallsNested
  <2>6. Top.object # None => heap'[Top.object].action = None
    BY <1>1, <1>5, <2>2, <2>3 DEF CallsNested, Top
  <2> QED BY <1>1, <1>3, <2>5, <2>6 DEF CallsNested, Top
<1>8. ListsKept'
  <2> SUFFICES ASSUME NEW l \in List, NEW b \in ToSet(lists[l])
               PROVE  (b \in live /\ Typed(l, b) /\ InNoCall(b))'
    BY DEF ListsKept
  <2>1. b \in live /\ Typed(l, b) /\ InNoCall(b)
    BY <1>1 DEF Owned, ListsKept
  <2> QED BY <1>3, <1>5, <2>1 DEF InNoCall, Typed
<1>9. ObjectsKept'
  <2> SUFFICES ASSUME NEW o \in live
               PROVE  (ActionKept(o) /\ ActionTyped(o) /\ \A s \in Slot : TextKept(o, s))'
    BY <1>5 DEF ObjectsKept
  <2>1. ActionKept(o) /\ ActionTyped(o) /\ \A s \in Slot : TextKept(o, s)
    BY <1>1 DEF Owned, ObjectsKept
  <2>2. ActionKept(o)'
    <3>1. \A i \in 1..Depth : i > 1 => i - 1 \in 1..Depth
      BY <1>1
    <3> QED BY <1>3, <1>5, <2>1, <3>1 DEF ActionKept
  <2>3. ActionTyped(o)'
    BY <1>5, <2>1 DEF ActionTyped, ActionKept, Typed
  <2>4. ASSUME NEW s \in Slot PROVE TextKept(o, s)'
    BY <1>3, <1>5, <2>1 DEF TextKept, InNoCall, InNoList
  <2> QED BY <2>2, <2>3, <2>4
<1>10. NothingIsLost'
  BY <1>3, <1>5 DEF IInv, NothingIsLost, Held
<1> QED BY <1>1, <1>4, <1>6, <1>7, <1>8, <1>9, <1>10 DEF IInv, Owned

LEMMA HeapUnchanged == ASSUME IInv, UNCHANGED heap PROVE SameOwners
BY DEF IInv, TypeOK, SameOwners, live

LEMMA ReadValueKeeps == ASSUME IInv, NEW word, ReadValue(word) \/ SkipFlag(word) \/ ReadEnd PROVE IInv'
BY WaitingIs, TailFits, AdvanceKeeps, HeapUnchanged DEF ReadValue, SkipFlag, ReadEnd, Waiting

LEMMA ReadFlagKeeps == ASSUME IInv, NEW word, ReadFlag(word) PROVE IInv'
<1> DEFINE rest == Tail(Top.todo)
<1>1. /\ Waiting /\ Expected.kind = "flag" /\ Top.todo # <<>>
      /\ Advance(Expected.params \o rest) /\ SameOwners /\ UNCHANGED <<lists, stage>>
  BY HeapUnchanged DEF ReadFlag, Waiting
<1>2. /\ Fits(Top.type, Top.todo) /\ Expected \in Entry
      /\ 1 \in DOMAIN Top.todo /\ Expected = Top.todo[1]
  BY <1>1, WaitingIs
<1>3. Fits(Top.type, rest) /\ Leaves(Top.todo, rest)
  BY <1>1, <1>2, TailFits
<1>4. CASE Expected.params = <<>>
  <2>1. Expected.params \o rest = rest
    BY <1>3, <1>4 DEF Fits
  <2> QED BY <1>1, <1>3, <2>1, AdvanceKeeps
<1>5. ASSUME NEW p \in Plain, Expected.params = <<p>>, SlotsOf(Expected) = SlotsOf(p)
      PROVE  IInv'
  <2>1. SlotsOf(p) \subseteq OwnedSlots(Top.type)
    BY <1>2, <1>5 DEF Fits, Suits
  <2>2. /\ \A i \in DOMAIN rest : i \in Nat /\ rest[i] = Top.todo[i + 1] /\ i + 1 \in DOMAIN Top.todo
        /\ \A i \in DOMAIN rest : i + 1 # 1
    BY <1>1, <1>2 DEF Fits
  <2>3. Top.type \notin Rules => \A i \in DOMAIN rest : SlotsOf(p) \cap SlotsOf(rest[i]) = {}
    BY <1>2, <1>5, <2>2 DEF Fits, Once
  <2>4. Fits(Top.type, <<p>> \o rest)
    BY <1>3, <2>1, <2>3, FrontFits
  <2>5. \A i \in DOMAIN (<<p>> \o rest) :
          \/ (<<p>> \o rest)[i] = p
          \/ i - 1 \in DOMAIN rest /\ (<<p>> \o rest)[i] = rest[i - 1]
    BY <1>3 DEF Fits
  <2>6. Leaves(Top.todo, <<p>> \o rest)
    BY <1>2, <1>3, <1>5, <2>5 DEF Leaves
  <2> QED BY <1>1, <1>5, <2>4, <2>6, AdvanceKeeps
<1> QED BY <1>1, <1>2, <1>4, <1>5, EntryIs

LEMMA ReadOptionKeeps == ASSUME IInv, NEW word, ReadOption(word) PROVE IInv'
<1> DEFINE p == Expected.options[word]
<1>1. /\ Waiting /\ Expected.kind = "options" /\ word \in DOMAIN Expected.options
      /\ Advance(<<p>> \o Top.todo) /\ SameOwners /\ UNCHANGED <<lists, stage>>
  BY HeapUnchanged DEF ReadOption
<1>2. /\ Fits(Top.type, Top.todo) /\ Expected \in Entry
      /\ 1 \in DOMAIN Top.todo /\ Expected = Top.todo[1]
  BY <1>1, WaitingIs
<1>3. Top.type \in Rules /\ SlotsOf(Expected) \subseteq OwnedSlots(Top.type)
  BY <1>1, <1>2 DEF Fits, Suits
<1>4. Expected.options \in Table /\ Expected = Options(Expected.options)
  BY <1>1, <1>2, EntryIs
<1>5. p \in Plain /\ SlotsOf(p) \subseteq SlotsOf(Expected)
  BY <1>1, <1>4, TableIsPlain, SlotsOfOptions
<1>6. Fits(Top.type, <<p>> \o Top.todo)
  BY <1>2, <1>3, <1>5, FrontFits
<1> QED BY <1>1, <1>3, <1>6, AdvanceKeeps

LEMMA ReadKeyKeeps == ASSUME IInv, NEW word, ReadKey(word) PROVE IInv'
<1>1. /\ Waiting /\ word \in Reads.key /\ Advance(Tail(Top.todo)) /\ UNCHANGED <<lists, stage>>
      /\ heap' = [heap EXCEPT ![Top.object] = [@ EXCEPT !.key = word]]
  BY DEF ReadKey
<1>2. /\ Top.object \in live /\ Fits(Top.type, Top.todo) /\ Top.todo # <<>> /\ Reading
      /\ Top.object \in Block /\ heap[Top.object] \in Object
  BY <1>1, WaitingIs, LiveIs DEF Waiting, IInv
<1>3. [heap[Top.object] EXCEPT !.key = word] \in Object
  BY <1>1, <1>2 DEF Object
<1>4. heap' \in [Block -> Object \cup {Free}]
  BY <1>1, <1>3 DEF IInv, TypeOK
<1>5. \A b \in Block : b # Top.object => heap'[b] = heap[b]
  BY <1>1 DEF IInv, TypeOK
<1>6. heap'[Top.object] = [heap[Top.object] EXCEPT !.key = word]
  BY <1>1, <1>2 DEF IInv, TypeOK
<1>7. live' = live
  BY <1>2, <1>3, <1>5, <1>6, FreeIsNoObject DEF live
<1>8. ~InNoCall(Top.object)
  BY <1>2, ReadingIs DEF InNoCall, Top
<1>9. /\ heap'[Top.object].text = heap[Top.object].text
      /\ heap'[Top.object].action = heap[Top.object].action
      /\ heap'[Top.object].acts = heap[Top.object].acts
  BY <1>2, <1>6 DEF Object
<1>10. live \subseteq Block
  BY LiveIs DEF IInv
<1>11. SameOwners
  BY <1>4, <1>5, <1>7, <1>8, <1>9, <1>10 DEF SameOwners
<1> QED BY <1>1, <1>2, <1>11, TailFits, AdvanceKeeps

-----------------------------------------------------------------------------
(* A command's name: the call starts, with an object or without.             *)

LEMMA CallShape ==
  ASSUME TypeOK, NEW word \in Command, NEW object \in Block \cup {None}, Call(word, object)
  PROVE  /\ frames' \in Seq(Frame) /\ Depth \in Nat /\ Depth' = Depth + 1
         /\ \A i \in 1..Depth : frames'[i] = frames[i]
         /\ frames'[Depth + 1].type = word
         /\ frames'[Depth + 1].object = object
         /\ frames'[Depth + 1].todo = Params[word]
         /\ frames' # <<>>
<1>1. Params[word] \in Seq(Entry)
  BY ParamsFit DEF Fits
<1>2. [type |-> word, object |-> object, todo |-> Params[word]] \in Frame
  BY <1>1 DEF Frame
<1>3. /\ frames' \in Seq(Frame) /\ Depth \in Nat /\ Depth' = Depth + 1
      /\ \A i \in 1..Depth : frames'[i] = frames[i]
      /\ frames'[Depth + 1] = [type |-> word, object |-> object, todo |-> Params[word]]
      /\ frames' # <<>>
  BY <1>2 DEF TypeOK, Call, Depth
<1> QED BY <1>3

(* What the heap is after calloc, or without it.                             *)
Allocated(object) ==
  /\ heap' \in [Block -> Object \cup {Free}]
  /\ live' = live \cup ({object} \ {None})
  /\ object # None => heap'[object] = Zeroed

LEMMA AllocatedIs ==
  ASSUME NEW object, Allocated(object)
  PROVE  /\ heap' \in [Block -> Object \cup {Free}]
         /\ live' = live \cup ({object} \ {None})
         /\ object # None => /\ heap'[object].action = None /\ heap'[object].acts = "none"
                             /\ \A s \in Slot : heap'[object].text[s] = None
BY DEF Allocated, Zeroed

LEMMA NewCall ==
  ASSUME IInv, NEW word \in Command, NEW object, object = None <=> word \in Bare,
         Allocated(object), Call(word, object), object \in (Block \ live) \cup {None}
  PROVE  (CallMade(frames[Depth]) /\ CallTyped(frames[Depth]))'
<1>1. /\ frames'[Depth'].type = word /\ frames'[Depth'].object = object
      /\ frames'[Depth'].todo = Params[word]
  BY CallShape DEF IInv
<1>2. Fits(word, Params[word]) /\ (word \in Bare => Params[word] = <<>>)
  BY ParamsFit, ParamsOfBare
<1>3. Slot \ OwnedSlots(word) \subseteq Slot
  OBVIOUS
<1>4. \A e : SlotsOf(e) \subseteq Slot
  BY DEF SlotsOf
<1> QED BY <1>1, <1>2, <1>4, AllocatedIs DEF CallMade, CallTyped, Typed

LEMMA StartKeeps ==
  ASSUME IInv, Ready, NEW word \in Command, NEW object, object = None <=> word \in Bare,
         object \in (Block \ live) \cup {None},
         Allocated(object), Call(word, object), \A c \in live : heap'[c] = heap[c],
         UNCHANGED <<lists, stage>>
  PROVE  IInv'
<1>0. /\ heap' \in [Block -> Object \cup {Free}]
      /\ live' = live \cup ({object} \ {None})
      /\ object # None => /\ heap'[object].action = None /\ heap'[object].acts = "none"
                          /\ \A s \in Slot : heap'[object].text[s] = None
  BY AllocatedIs
<1>1. stage = "running" /\ Owned /\ frames = <<>> /\ Depth = 0
  BY DEF IInv, Ready, Reading, Depth
<1>2. /\ frames' \in Seq(Frame) /\ frames' # <<>> /\ Depth' = 1
      /\ frames'[1].object = object
  BY <1>1, CallShape DEF IInv
<1>3. TypeOK'
  BY <1>0, <1>2 DEF IInv, TypeOK
<1>4. live \subseteq Block /\ None \notin live
  BY LiveIs DEF IInv
<1>5. CallsKept'
  BY <1>2, NewCall DEF CallsKept
<1>6. CallsNested'
  BY <1>0, <1>2 DEF CallsNested, Top
<1>7. ListsKept'
  <2> SUFFICES ASSUME NEW l \in List, NEW b \in ToSet(lists[l])
               PROVE  (b \in live /\ Typed(l, b) /\ InNoCall(b))'
    BY DEF ListsKept
  <2>1. b \in live /\ Typed(l, b)
    BY <1>1 DEF Owned, ListsKept
  <2> QED BY <1>0, <1>2, <1>4, <2>1 DEF InNoCall, Typed
<1>8. ObjectsKept'
  <2> SUFFICES ASSUME NEW o \in live'
               PROVE  (ActionKept(o) /\ ActionTyped(o) /\ \A s \in Slot : TextKept(o, s))'
    BY DEF ObjectsKept
  <2>1. CASE o \in live
    <3>1. ActionKept(o) /\ ActionTyped(o) /\ \A s \in Slot : TextKept(o, s)
      BY <1>1, <2>1 DEF Owned, ObjectsKept
    <3>2. ActionKept(o)'
      BY <1>0, <1>2, <1>4, <2>1, <3>1 DEF ActionKept
    <3>3. ActionTyped(o)'
      BY <1>4, <2>1, <3>1 DEF ActionTyped, ActionKept, Typed
    <3>4. ASSUME NEW s \in Slot PROVE TextKept(o, s)'
      BY <1>0, <1>2, <1>4, <2>1, <3>1 DEF TextKept, InNoCall, InNoList
    <3> QED BY <3>2, <3>3, <3>4
  <2>2. CASE o \notin live
    <3>1. o = object /\ o # None
      BY <1>0, <2>2
    <3>2. "none" \notin LongLived
      BY LongLivedAre
    <3> QED BY <1>0, <3>1, <3>2 DEF ActionKept, ActionTyped, TextKept
  <2> QED BY <2>1, <2>2
<1>9. NothingIsLost'
  <2> SUFFICES ASSUME NEW b \in live' PROVE Held(b)'
    BY DEF NothingIsLost
  <2>1. CASE b \in live
    <3>1. Held(b)
      BY <2>1 DEF IInv, NothingIsLost
    <3> QED BY <1>0, <1>1, <3>1 DEF Held
  <2>2. CASE b \notin live
    BY <1>0, <1>2, <2>2 DEF Held
  <2> QED BY <2>1, <2>2
<1> QED BY <1>1, <1>2, <1>3, <1>5, <1>6, <1>7, <1>8, <1>9 DEF IInv, Owned

LEMMA NestedKeeps ==
  ASSUME IInv, NestedWord, NEW word \in Command, NEW object, object = None <=> word \in Bare,
         object \in (Block \ live) \cup {None},
         Allocated(object), Call(word, object),
         \A c \in live : c # Top.object => heap'[c] = heap[c],
         heap'[Top.object].text = heap[Top.object].text,
         heap'[Top.object].acts = word, heap'[Top.object].action = object,
         UNCHANGED <<lists, stage>>
  PROVE  IInv'
<1>0. /\ heap' \in [Block -> Object \cup {Free}]
      /\ live' = live \cup ({object} \ {None})
      /\ object # None => /\ heap'[object].action = None /\ heap'[object].acts = "none"
                          /\ \A s \in Slot : heap'[object].text[s] = None
  BY AllocatedIs
<1>1. /\ stage = "running" /\ Owned /\ Reading
      /\ Depth \in Nat \ {0} /\ Depth \in 1..Depth
  BY ReadingIs DEF NestedWord, Waiting
<1>2. /\ Top.object \in live /\ Top.object # None /\ Expected.kind = "action"
      /\ Fits(Top.type, Top.todo) /\ 1 \in DOMAIN Top.todo /\ Expected = Top.todo[1]
  BY WaitingIs DEF NestedWord
<1>3. Top.type = "keybind"
  BY <1>2 DEF Fits, Suits
<1>4. /\ frames' \in Seq(Frame) /\ frames' # <<>> /\ Depth' = Depth + 1
      /\ \A i \in 1..Depth : frames'[i] = frames[i]
      /\ frames'[Depth + 1].object = object /\ frames'[Depth + 1].type = word
  BY CallShape DEF IInv
<1>5. TypeOK'
  BY <1>0, <1>4 DEF IInv, TypeOK
<1>6. live \subseteq Block /\ None \notin live
  BY LiveIs DEF IInv
<1>7. \A i \in 1..Depth : frames[i].object \in live \cup {None}
  BY <1>1 DEF Owned, CallsKept, CallMade
<1>8. \A i \in 1..Depth : i # Depth => frames[i].object # Top.object
  BY <1>1, <1>2 DEF Owned, CallsKept, Top
<1>9. \A c \in live : heap'[c].text = heap[c].text
  OBVIOUS
<1>10. CallsKept'
  <2>1. ASSUME NEW i \in 1..Depth PROVE (CallMade(frames[i]) /\ CallTyped(frames[i]))'
    <3>1. CallMade(frames[i]) /\ CallTyped(frames[i])
      BY <1>1 DEF Owned, CallsKept
    <3>2. CallMade(frames[i])'
      BY <1>0, <1>4, <3>1 DEF CallMade
    <3>3. CallTyped(frames[i])'
      <4> DEFINE b == frames[i].object
      <4>1. frames'[i] = frames[i] /\ (b = None \/ b \in live)
        BY <1>4, <1>7
      <4>2. CASE b = None
        BY <4>1, <4>2 DEF CallTyped
      <4>3. CASE b # None
        <5>1. b \in live /\ heap'[b].text = heap[b].text
          BY <1>9, <4>1, <4>3
        <5>2. frames[i].type # "keybind" => heap'[b] = heap[b]
          BY <1>3, <1>8, <5>1 DEF Top
        <5>3. (Typed(frames[i].type, b))'
          BY <3>1, <4>1, <4>3, <5>1, <5>2 DEF CallTyped, Typed
        <5> QED BY <3>1, <4>1, <4>3, <5>1, <5>3 DEF CallTyped
      <4> QED BY <4>2, <4>3
    <3> QED BY <3>2, <3>3
  <2>2. (CallMade(frames[Depth]) /\ CallTyped(frames[Depth]))'
    BY NewCall
  <2>3. ASSUME NEW i \in 1..Depth', NEW j \in 1..Depth',
               frames'[i].object = frames'[j].object, frames'[i].object # None
        PROVE  i = j
    <3>1. \A k \in 1..Depth' : k \in 1..Depth \/ k = Depth + 1
      BY <1>1, <1>4
    <3> QED BY <1>1, <1>4, <1>7, <2>3, <3>1 DEF Owned, CallsKept
  <2>4. \A i \in 1..Depth' : i \in 1..Depth \/ i = Depth'
    BY <1>1, <1>4
  <2> QED BY <1>4, <2>1, <2>2, <2>3, <2>4 DEF CallsKept
<1>11. CallsNested'
  <2>1. ASSUME NEW i \in 1..(Depth' - 1)
        PROVE  (/\ frames[i].type = "keybind"
                /\ heap[frames[i].object].action = frames[i + 1].object
                /\ heap[frames[i].object].acts = frames[i + 1].type)'
    <3>1. CASE i = Depth
      BY <1>1, <1>3, <1>4, <3>1 DEF Top
    <3>2. CASE i # Depth
      <4>1. i \in 1..(Depth - 1) /\ i \in 1..Depth /\ i + 1 \in 1..Depth
        BY <1>1, <1>4, <3>2
      <4>2. /\ frames[i].type = "keybind"
            /\ heap[frames[i].object].action = frames[i + 1].object
            /\ heap[frames[i].object].acts = frames[i + 1].type
        BY <1>1, <4>1 DEF Owned, CallsNested
      <4>3. frames[i].object \in live
        BY <1>1, <4>1, <4>2, LongLivedAre DEF Owned, CallsKept, CallMade
      <4>4. heap'[frames[i].object] = heap[frames[i].object]
        BY <1>8, <3>2, <4>1, <4>3
      <4> QED BY <1>4, <4>1, <4>2, <4>4
    <3> QED BY <3>1, <3>2
  <2>2. Top'.object # None => heap'[Top'.object].action = None
    BY <1>0, <1>4 DEF Top
  <2> QED BY <1>4, <2>1, <2>2 DEF CallsNested
<1>12. ListsKept'
  <2> SUFFICES ASSUME NEW l \in List, NEW b \in ToSet(lists[l])
               PROVE  (b \in live /\ Typed(l, b) /\ InNoCall(b))'
    BY DEF ListsKept
  <2>1. b \in live /\ Typed(l, b) /\ InNoCall(b)
    BY <1>1 DEF Owned, ListsKept
  <2>2. heap'[b] = heap[b]
    BY <1>1, <2>1 DEF InNoCall, Top
  <2>3. \A k \in 1..Depth' : k \in 1..Depth \/ k = Depth + 1
    BY <1>1, <1>4
  <2>4. InNoCall(b)'
    BY <1>4, <1>6, <2>1, <2>3 DEF InNoCall
  <2> QED BY <1>0, <2>1, <2>2, <2>4 DEF Typed
<1>13. ObjectsKept'
  <2> SUFFICES ASSUME NEW o \in live'
               PROVE  (ActionKept(o) /\ ActionTyped(o) /\ \A s \in Slot : TextKept(o, s))'
    BY DEF ObjectsKept
  <2>1. \A k \in 1..Depth' : k \in 1..Depth \/ k = Depth + 1
    BY <1>1, <1>4
  <2>2. CASE o \in live
    <3>1. ActionKept(o) /\ ActionTyped(o) /\ \A s \in Slot : TextKept(o, s)
      BY <1>1, <2>2 DEF Owned, ObjectsKept
    <3>2. \A p \in live : heap[p].action \in live \cup {None}
      BY <1>1 DEF Owned, ObjectsKept, ActionKept
    <3>3. ActionKept(o)'
      <4>1. CASE o = Top.object
        <5>1. \A p \in live' : p # o => heap'[p].action # object \/ object = None
          BY <1>0, <1>6, <3>2, <4>1
        <5>2. \A k \in 1..Depth' : frames'[k].object = object /\ object # None => k = Depth + 1
          BY <1>4, <1>7, <2>1
        <5>3. frames'[Depth].object = o /\ Depth + 1 > 1 /\ (Depth + 1) - 1 = Depth
          BY <1>1, <1>4, <4>1 DEF Top
        <5> QED BY <1>0, <4>1, <5>1, <5>2, <5>3 DEF ActionKept
      <4>2. CASE o # Top.object
        <5>1. \A k \in 1..Depth : k > 1 => k - 1 \in 1..Depth
          BY <1>1
        <5>2. heap'[o].action = heap[o].action /\ heap[o].action \in live \cup {None}
          BY <2>2, <3>2, <4>2
        <5>3. \A p \in live' : heap'[p].action = heap[o].action /\ heap[o].action # None => p = o
          BY <1>0, <1>6, <2>2, <3>1, <4>2, <5>2 DEF ActionKept
        <5>4. \A k \in 1..Depth' : frames'[k].object = heap[o].action /\ heap[o].action # None
                                   => k > 1 /\ frames'[k - 1].object = o
          BY <1>4, <1>6, <2>1, <3>1, <5>1, <5>2 DEF ActionKept
        <5> QED BY <1>0, <5>2, <5>3, <5>4 DEF ActionKept
      <4> QED BY <4>1, <4>2
    <3>4. ActionTyped(o)'
      <4>1. CASE o = Top.object
        <5>1. word \in LongLived => object # None
          BY LongLivedAre
        <5>2. object # None => Typed(word, object)'
          BY <1>0 DEF Typed
        <5> QED BY <4>1, <5>1, <5>2 DEF ActionTyped
      <4>2. CASE o # Top.object
        <5> SUFFICES ASSUME heap[o].acts \in LongLived
                     PROVE  heap[o].action # None /\ Typed(heap[o].acts, heap[o].action)'
          BY <2>2, <4>2 DEF ActionTyped
        <5>1. heap[o].action \in live /\ Typed(heap[o].acts, heap[o].action)
          BY <2>2, <3>1, <3>2 DEF ActionTyped
        <5>2. CASE heap[o].action # Top.object
          <6>1. heap'[o] = heap[o] /\ heap'[heap[o].action] = heap[heap[o].action]
            BY <2>2, <4>2, <5>1, <5>2
          <6>2. Typed(heap[o].acts, heap[o].action)
            BY <5>1
          <6> QED BY <1>6, <5>1, <6>1, <6>2 DEF Typed
        <5>3. CASE heap[o].action = Top.object
          <6>1. Depth > 1 /\ frames[Depth - 1].object = o
            BY <1>1, <1>2, <3>1, <5>3 DEF ActionKept, Top
          <6>2. Depth - 1 \in 1..(Depth - 1) /\ (Depth - 1) + 1 = Depth
            BY <1>1, <6>1
          <6>3. heap[o].acts = "keybind"
            BY <1>1, <1>3, <6>1, <6>2 DEF Owned, CallsNested, Top
          <6> QED BY <1>2, <1>9, <2>2, <4>2, <5>1, <5>3, <6>3 DEF Typed
        <5> QED BY <1>6, <5>1, <5>2, <5>3
      <4> QED BY <4>1, <4>2
    <3>5. ASSUME NEW s \in Slot PROVE TextKept(o, s)'
      <4>1. heap'[o].text[s] = heap[o].text[s]
        BY <1>9, <2>2
      <4> SUFFICES ASSUME NEW t, t = heap[o].text[s], t # None
                   PROVE  /\ t \in live' /\ heap'[t] = Zeroed
                          /\ InNoList(t)' /\ InNoCall(t)'
                          /\ \A p \in live' : heap'[p].action # t
                          /\ \A p \in live', r \in Slot : heap'[p].text[r] = t => p = o /\ r = s
        BY <4>1 DEF TextKept
      <4>2. /\ t \in live /\ heap[t] = Zeroed
            /\ InNoList(t) /\ InNoCall(t)
            /\ \A p \in live : heap[p].action # t
            /\ \A p \in live, r \in Slot : heap[p].text[r] = t => p = o /\ r = s
        BY <3>1 DEF TextKept
      <4>3. t # Top.object
        BY <1>1, <4>2 DEF InNoCall, Top
      <4>4. InNoCall(t)' /\ InNoList(t)'
        BY <1>4, <1>6, <2>1, <4>2 DEF InNoCall, InNoList
      <4>5. \A p \in live' : heap'[p].action # t
        BY <1>0, <1>6, <4>2
      <4>6. \A p \in live', r \in Slot : heap'[p].text[r] = t => p = o /\ r = s
        BY <1>0, <1>6, <1>9, <4>2
      <4> QED BY <1>0, <4>2, <4>3, <4>4, <4>5, <4>6
    <3> QED BY <3>3, <3>4, <3>5
  <2>3. CASE o \notin live
    <3>1. o = object /\ o # None
      BY <1>0, <2>3
    <3>2. "none" \notin LongLived
      BY LongLivedAre
    <3> QED BY <1>0, <3>1, <3>2 DEF ActionKept, ActionTyped, TextKept
  <2> QED BY <2>2, <2>3
<1>14. NothingIsLost'
  <2> SUFFICES ASSUME NEW b \in live' PROVE Held(b)'
    BY DEF NothingIsLost
  <2>1. CASE b \in live
    <3>1. Held(b)
      BY <2>1 DEF IInv, NothingIsLost
    <3>2. heap[Top.object].action = None
      BY <1>1, <1>2 DEF Owned, CallsNested
    <3>3. CASE \E i \in 1..Depth : b = frames[i].object
      BY <1>1, <1>4, <3>3 DEF Held
    <3>4. CASE \E l \in List : b \in ToSet(lists[l])
      BY <3>4 DEF Held
    <3>5. CASE \E p \in live : b = heap[p].action \/ \E s \in Slot : b = heap[p].text[s]
      BY <1>0, <1>6, <1>9, <2>1, <3>2, <3>5 DEF Held
    <3> QED BY <3>1, <3>3, <3>4, <3>5 DEF Held
  <2>2. CASE b \notin live
    <3>1. b = object /\ Depth + 1 \in 1..Depth'
      BY <1>0, <1>1, <1>4, <2>2
    <3> QED BY <1>4, <3>1 DEF Held
  <2> QED BY <2>1, <2>2
<1> QED BY <1>1, <1>4, <1>5, <1>10, <1>11, <1>12, <1>13, <1>14 DEF IInv, Owned

LEMMA StartsKeep ==
  ASSUME IInv, NEW word, NEW b,
         Start(word, b) \/ StartBare(word) \/ StartNested(word, b) \/ StartNestedBare(word)
  PROVE  IInv'
<1>1. /\ TypeOK /\ live \subseteq Block /\ None \notin live /\ None \notin Block
      /\ heap \in [Block -> Object \cup {Free}] /\ Zeroed \in Object /\ Free \notin Object
  BY LiveIs, FreeIsNoObject, NoneIsNoBlock DEF IInv, TypeOK
<1>2. CASE Start(word, b)
  <2>1. /\ Ready /\ word \in Command /\ word \notin Bare /\ b \in Block \ live
        /\ heap' = [heap EXCEPT ![b] = Zeroed] /\ Call(word, b) /\ UNCHANGED <<lists, stage>>
    BY <1>2 DEF Start
  <2>2. Allocated(b) /\ \A c \in live : heap'[c] = heap[c]
    BY <1>1, <2>1 DEF Allocated, live
  <2> QED BY <1>1, <2>1, <2>2, StartKeeps
<1>3. CASE StartBare(word)
  <2>1. word \in Command
    BY <1>3, ParamsOfBare DEF StartBare
  <2>2. Allocated(None)
    BY <1>1, <1>3 DEF Allocated, live, StartBare
  <2> QED BY <1>3, <2>1, <2>2, StartKeeps DEF StartBare
<1>4. ASSUME NestedWord
      PROVE  /\ Top.object \in live /\ heap[Top.object] \in Object
             /\ heap[Top.object].action = None
  BY <1>4, WaitingIs, LiveIs, ReadingIs DEF NestedWord, IInv, Owned, CallsNested
<1>5. CASE StartNested(word, b)
  <2>1. /\ NestedWord /\ word \in Command /\ word \notin Bare /\ b \in Block \ live
        /\ Call(word, b) /\ UNCHANGED <<lists, stage>>
        /\ heap' = [heap EXCEPT ![b] = Zeroed,
                                ![Top.object] = [[@ EXCEPT !.acts = word] EXCEPT !.action = b]]
    BY <1>5, <1>1, <1>4 DEF StartNested
  <2>2. /\ b # Top.object
        /\ [[heap[Top.object] EXCEPT !.acts = word] EXCEPT !.action = b] \in Object
    BY <1>4, <2>1 DEF Object
  <2>3. /\ heap' \in [Block -> Object \cup {Free}] /\ heap'[b] = Zeroed
        /\ heap'[Top.object] = [[heap[Top.object] EXCEPT !.acts = word] EXCEPT !.action = b]
        /\ \A c \in Block : c # b /\ c # Top.object => heap'[c] = heap[c]
    BY <1>1, <1>4, <2>1, <2>2
  <2>4. live' = live \cup {b}
    BY <1>1, <1>4, <2>1, <2>2, <2>3 DEF live
  <2>5. Allocated(b) /\ \A c \in live : c # Top.object => heap'[c] = heap[c]
    BY <1>1, <2>1, <2>3, <2>4 DEF Allocated
  <2>6. /\ heap'[Top.object].text = heap[Top.object].text
        /\ heap'[Top.object].acts = word /\ heap'[Top.object].action = b
    BY <1>4, <2>3 DEF Object
  <2> QED BY <1>1, <2>1, <2>5, <2>6, NestedKeeps
<1>6. CASE StartNestedBare(word)
  <2>1. /\ NestedWord /\ word \in Command /\ word \in Bare
        /\ Call(word, None) /\ UNCHANGED <<lists, stage>>
        /\ heap' = [heap EXCEPT ![Top.object] = [@ EXCEPT !.acts = word]]
    BY <1>6, ParamsOfBare DEF StartNestedBare
  <2>2. [heap[Top.object] EXCEPT !.acts = word] \in Object
    BY <1>4, <2>1 DEF Object
  <2>3. /\ heap' \in [Block -> Object \cup {Free}]
        /\ heap'[Top.object] = [heap[Top.object] EXCEPT !.acts = word]
        /\ \A c \in Block : c # Top.object => heap'[c] = heap[c]
    BY <1>1, <1>4, <2>1, <2>2
  <2>4. live' = live
    BY <1>1, <1>4, <2>1, <2>2, <2>3 DEF live
  <2>5. Allocated(None) /\ \A c \in live : c # Top.object => heap'[c] = heap[c]
    BY <1>1, <2>3, <2>4 DEF Allocated
  <2>6. /\ heap'[Top.object].text = heap[Top.object].text
        /\ heap'[Top.object].acts = word /\ heap'[Top.object].action = None
    BY <1>4, <2>1, <2>3 DEF Object
  <2> QED BY <1>1, <2>1, <2>5, <2>6, NestedKeeps
<1> QED BY <1>2, <1>3, <1>5, <1>6

-----------------------------------------------------------------------------
(* A word is copied; the copy it replaces, of a rule, is freed.              *)

(* A block that is free, or the string in the slot that is written.          *)
Spare(c, s) ==
  /\ InNoList(c) /\ InNoCall(c)
  /\ \A p \in live : heap[p].action # c
  /\ \A p \in live, r \in Slot : heap[p].text[r] = c => p = Top.object /\ r = s

LEMMA FreeIsSpare ==
  ASSUME IInv, Reading, NEW b \in Block \ live, NEW s
  PROVE  Spare(b, s)
<1>1. Owned /\ None # b
  BY ReadingIs, NoneIsNoBlock
<1>2. InNoList(b)
  BY <1>1 DEF Owned, ListsKept, InNoList
<1>3. InNoCall(b)
  BY <1>1 DEF Owned, CallsKept, CallMade, InNoCall
<1>4. \A p \in live : heap[p].action # b
  BY <1>1 DEF Owned, ObjectsKept, ActionKept
<1>5. \A p \in live, r \in Slot : heap[p].text[r] # b
  BY <1>1 DEF Owned, ObjectsKept, TextKept
<1> QED BY <1>2, <1>3, <1>4, <1>5 DEF Spare

LEMMA ReadTextEffect ==
  ASSUME IInv, NEW b \in Block, ReadText(b)
  PROVE  \E s \in Slot : \E old :
           /\ old = heap[Top.object].text[s]
           /\ SlotsOf(Expected) = {s}
           /\ Top.type \notin Rules => old = None
           /\ old # None => old \in live /\ heap[old] = Zeroed /\ Spare(old, s)
           /\ Spare(b, s)
           /\ b # Top.object /\ old # Top.object /\ (b \in live => b = old)
           /\ heap' \in [Block -> Object \cup {Free}]
           /\ live' = (live \ {old}) \cup {b}
           /\ heap'[b] = Zeroed
           /\ \A c \in live : c # old /\ c # b /\ c # Top.object => heap'[c] = heap[c]
           /\ heap'[Top.object].action = heap[Top.object].action
           /\ heap'[Top.object].acts = heap[Top.object].acts
           /\ heap'[Top.object].text = [heap[Top.object].text EXCEPT ![s] = b]
<1> DEFINE s == Expected.slot
           o == Top.object
           old == heap[o].text[s]
           gone == IF Top.type \in Rules THEN {old} ELSE {}
<1>1. /\ Waiting /\ Expected.kind = "text" /\ b \in Block \ (live \ gone)
      /\ heap' = [Without(gone) EXCEPT ![b] = Zeroed, ![o].text[s] = b]
  BY Zenon DEF ReadText
<1>2. /\ Reading /\ o \in live /\ o # None /\ Expected \in Entry
      /\ 1 \in DOMAIN Top.todo /\ Expected = Top.todo[1]
  BY <1>1, WaitingIs
<1>3. s \in Slot /\ SlotsOf(Expected) = {s}
  BY <1>1, <1>2, EntryIs
<1>4. /\ live \subseteq Block /\ None \notin live /\ None \notin Block
      /\ heap \in [Block -> Object \cup {Free}] /\ Zeroed \in Object /\ Free \notin Object
      /\ heap[o] \in Object /\ o \in Block
  BY <1>2, LiveIs, FreeIsNoObject, NoneIsNoBlock DEF IInv, TypeOK
<1>5. Top.type \notin Rules => old = None
  <2>1. CallTyped(Top) /\ Top.object # None
    BY <1>2, ReadingIs DEF Owned, CallsKept, Top
  <2> QED BY <1>2, <1>3, <2>1 DEF CallTyped
<1>6. old # None => old \in live /\ heap[old] = Zeroed /\ Spare(old, s)
  <2>1. TextKept(o, s)
    BY <1>2, <1>3, ReadingIs DEF Owned, ObjectsKept
  <2> QED BY <2>1 DEF TextKept, Spare
<1>7. Depth \in 1..Depth
  BY <1>2, ReadingIs
<1>8. old # o
  <2>1. Spare(old, s) => InNoCall(old)
    BY DEF Spare
  <2>2. ~InNoCall(o)
    BY <1>7 DEF InNoCall, Top
  <2> QED BY <1>2, <1>6, <2>1, <2>2
<1>9. b \notin live \/ b = old
  BY <1>1
<1>10. Spare(b, s) /\ b # o
  BY <1>2, <1>4, <1>6, <1>8, <1>9, FreeIsSpare
<1> HIDE DEF s
<1>11. [heap[o] EXCEPT !.text = [heap[o].text EXCEPT ![s] = b]] \in Object
  BY <1>3, <1>4 DEF Object
<1>12. Without(gone) \in [Block -> Object \cup {Free}]
       /\ \A c \in Block : Without(gone)[c] = IF c \in gone THEN Free ELSE heap[c]
  BY <1>4 DEF Without
<1>13. o \notin gone
  BY <1>8
<1>14. /\ heap' \in [Block -> Object \cup {Free}]
       /\ heap'[b] = Zeroed
       /\ heap'[o] = [heap[o] EXCEPT !.text = [heap[o].text EXCEPT ![s] = b]]
       /\ \A c \in Block : c # b /\ c # o => heap'[c] = IF c \in gone THEN Free ELSE heap[c]
  <2> DEFINE rest == Without(gone)
             mid == [rest EXCEPT ![b] = Zeroed]
  <2>1. heap' = [rest EXCEPT ![b] = Zeroed, ![o].text[s] = b]
    BY <1>1
  <2>2. rest \in [Block -> Object \cup {Free}] /\ rest[o] = heap[o]
    BY <1>4, <1>12, <1>13
  <2> HIDE DEF gone, o, rest
  <2>3. heap' = [mid EXCEPT ![o] = [mid[o] EXCEPT !.text = [mid[o].text EXCEPT ![s] = b]]]
    BY <2>1
  <2>4. /\ mid \in [Block -> Object \cup {Free}]
        /\ mid[o] = heap[o] /\ mid[b] = Zeroed
        /\ \A c \in Block : c # b => mid[c] = IF c \in gone THEN Free ELSE heap[c]
    BY <1>4, <1>10, <1>12, <2>2 DEF rest
  <2> HIDE DEF mid
  <2> QED BY <1>4, <1>10, <1>11, <2>3, <2>4
<1>15. \A c \in Block : c \in gone <=> c = old
  BY <1>4, <1>5
<1>16. live' = (live \ {old}) \cup {b}
  <2>1. \A c \in Block : c \in live' <=> c = b \/ (c \in live /\ c # old)
    <3> HIDE DEF old, gone, o
    <3> QED BY <1>2, <1>4, <1>8, <1>10, <1>11, <1>14, <1>15 DEF live
  <2>2. live' \subseteq Block
    BY DEF live
  <2> QED BY <1>4, <2>1, <2>2
<1>17. /\ heap'[o].action = heap[o].action
       /\ heap'[o].acts = heap[o].acts
       /\ heap'[o].text = [heap[o].text EXCEPT ![s] = b]
  BY <1>4, <1>14 DEF Object
<1>18. \A c \in live : c # old /\ c # b /\ c # o => heap'[c] = heap[c]
  BY <1>4, <1>14, <1>15
<1> HIDE DEF old, gone
<1>19. s \in Slot
  BY <1>3
<1> USE <1>19
<1> WITNESS s \in Slot
<1> WITNESS old
<1> QED BY <1>3, <1>5, <1>6, <1>8, <1>9, <1>10, <1>14, <1>16, <1>17, <1>18 DEF old

LEMMA ReadTextKeeps == ASSUME IInv, NEW b \in Block, ReadText(b) PROVE IInv'
<1> DEFINE o == Top.object
           rest == Tail(Top.todo)
<1>1. /\ Waiting /\ Advance(rest) /\ UNCHANGED <<lists, stage>>
  BY DEF ReadText
<1>2. PICK s \in Slot : \E old :
           /\ old = heap[o].text[s]
           /\ SlotsOf(Expected) = {s}
           /\ Top.type \notin Rules => old = None
           /\ old # None => old \in live /\ heap[old] = Zeroed /\ Spare(old, s)
           /\ Spare(b, s)
           /\ b # o /\ old # o /\ (b \in live => b = old)
           /\ heap' \in [Block -> Object \cup {Free}]
           /\ live' = (live \ {old}) \cup {b}
           /\ heap'[b] = Zeroed
           /\ \A c \in live : c # old /\ c # b /\ c # o => heap'[c] = heap[c]
           /\ heap'[o].action = heap[o].action
           /\ heap'[o].acts = heap[o].acts
           /\ heap'[o].text = [heap[o].text EXCEPT ![s] = b]
  BY ReadTextEffect
<1>3. PICK old :
           /\ old = heap[o].text[s]
           /\ SlotsOf(Expected) = {s}
           /\ Top.type \notin Rules => old = None
           /\ old # None => old \in live /\ heap[old] = Zeroed /\ Spare(old, s)
           /\ Spare(b, s)
           /\ b # o /\ old # o /\ (b \in live => b = old)
           /\ heap' \in [Block -> Object \cup {Free}]
           /\ live' = (live \ {old}) \cup {b}
           /\ heap'[b] = Zeroed
           /\ \A c \in live : c # old /\ c # b /\ c # o => heap'[c] = heap[c]
           /\ heap'[o].action = heap[o].action
           /\ heap'[o].acts = heap[o].acts
           /\ heap'[o].text = [heap[o].text EXCEPT ![s] = b]
  BY <1>2
<1>4. /\ stage = "running" /\ Owned /\ Reading
      /\ Depth \in Nat \ {0} /\ Depth \in 1..Depth
  BY <1>1, ReadingIs DEF Waiting
<1>5. /\ o \in live /\ o # None /\ Top.type \notin Bare
      /\ Fits(Top.type, Top.todo) /\ Top.todo # <<>>
      /\ Expected \in Entry /\ 1 \in DOMAIN Top.todo /\ Expected = Top.todo[1]
  BY <1>1, WaitingIs DEF Waiting
<1>6. Fits(Top.type, rest) /\ rest \in Seq(Entry)
  BY <1>5, TailFits DEF Fits
<1>7. /\ frames' \in Seq(Frame) /\ Depth' = Depth /\ frames' # <<>>
      /\ \A i \in 1..Depth : frames'[i].object = frames[i].object /\ frames'[i].type = frames[i].type
      /\ \A i \in 1..Depth : frames'[i].todo = IF i = Depth THEN rest ELSE frames[i].todo
  BY <1>1, <1>4, <1>6, AdvanceShape
<1>8. /\ live \subseteq Block /\ None \notin live /\ b # None /\ heap[o] \in Object
      /\ heap[o].text \in [Slot -> Block \cup {None}]
  BY <1>5, LiveIs, NoneIsNoBlock DEF IInv, Object
<1>9. TypeOK'
  BY <1>1, <1>3, <1>7 DEF IInv, TypeOK
<1>10. s \in OwnedSlots(Top.type)
  BY <1>3, <1>5 DEF Fits, Suits
<1>11. \A c \in live : InNoCall(c) \/ (c # old /\ c # b)
  BY <1>3, <1>8 DEF Spare
<1>12. \A i \in 1..Depth : /\ frames[i].object \in live \cup {None}
                           /\ frames[i].object # old \/ frames[i].object = None
                           /\ frames[i].object # b
                           /\ i # Depth => frames[i].object # o
  BY <1>3, <1>4, <1>5, <1>8 DEF Owned, CallsKept, CallMade, Spare, InNoCall, Top
<1>13. ASSUME NEW p \in live', p # b
       PROVE  /\ p \in live /\ p # old
              /\ heap'[p].action = heap[p].action
              /\ heap'[p].acts = heap[p].acts
              /\ \A r \in Slot : heap'[p].text[r] = IF p = o /\ r = s THEN b ELSE heap[p].text[r]
              /\ p # o => heap'[p] = heap[p]
  <2>1. p \in live /\ p # old
    BY <1>3, <1>13
  <2>2. CASE p = o
    BY <1>3, <1>8, <2>1, <2>2
  <2>3. CASE p # o
    BY <1>3, <1>13, <2>1, <2>3
  <2> QED BY <2>1, <2>2, <2>3
<1>14. /\ b \in live' /\ heap'[b] = Zeroed
       /\ heap'[b].action = None /\ heap'[b].acts = "none"
       /\ \A r \in Slot : heap'[b].text[r] = None
  BY <1>3 DEF Zeroed
<1>15. o \in live' /\ heap'[o].text[s] = b
  BY <1>3, <1>5, <1>8
<1> HIDE DEF o, rest
<1>16. CallsKept'
  <2>1. ASSUME NEW i \in 1..Depth PROVE CallMade(frames[i])' /\ CallTyped(frames[i])'
    <3>1. CallMade(frames[i]) /\ CallTyped(frames[i])
      BY <1>4 DEF Owned, CallsKept
    <3>2. CASE i # Depth
      <4>1. /\ frames'[i].object = frames[i].object /\ frames'[i].type = frames[i].type
            /\ frames'[i].todo = frames[i].todo
        BY <1>7, <3>2
      <4>2. frames[i].object # None =>
              /\ frames[i].object \in live' /\ frames[i].object # b /\ frames[i].object # o
              /\ heap'[frames[i].object] = heap[frames[i].object]
        BY <1>3, <1>12, <1>13, <3>2
      <4> QED BY <3>1, <4>1, <4>2 DEF CallMade, CallTyped, Typed
    <3>3. CASE i = Depth
      <4>1. /\ frames'[i].object = o /\ frames'[i].type = Top.type /\ frames'[i].todo = rest
            /\ frames[i].object = o /\ frames[i].type = Top.type /\ frames[i].todo = Top.todo
        BY <1>7, <3>3 DEF Top, o
      <4>2. CallMade(frames[i])'
        BY <1>5, <1>15, <4>1 DEF CallMade
      <4>3. Typed(Top.type, o)
        BY <1>5, <3>1, <4>1 DEF CallTyped
      <4>4. \A r \in Slot \ OwnedSlots(Top.type) : heap'[o].text[r] = None
        BY <1>10, <1>13, <1>15, <1>3, <4>3 DEF Typed
      <4>5. Top.type # "keybind" => heap'[o].action = None
        BY <1>3, <4>3 DEF Typed
      <4>6. ASSUME Top.type \notin Rules, NEW j \in DOMAIN rest, NEW r \in SlotsOf(rest[j])
            PROVE  heap'[o].text[r] = None
        <5>1. j + 1 \in DOMAIN Top.todo /\ rest[j] = Top.todo[j + 1] /\ j + 1 # 1
          BY <1>5 DEF Fits, rest
        <5>2. r \in Slot /\ heap[o].text[r] = None
          BY <1>5, <3>1, <4>1, <4>6, <5>1 DEF CallTyped, SlotsOf
        <5>3. SlotsOf(Top.todo[1]) \cap SlotsOf(Top.todo[j + 1]) = {}
          BY <1>5, <4>6, <5>1 DEF Fits, Once
        <5>4. r # s
          BY <1>3, <1>5, <5>1, <5>3
        <5> QED BY <1>13, <1>15, <1>3, <5>2, <5>4
      <4> QED BY <1>6, <4>1, <4>2, <4>4, <4>5, <4>6 DEF CallTyped, Typed
    <3> QED BY <3>2, <3>3
  <2>2. \A i, j \in 1..Depth : frames'[i].object = frames'[j].object /\ frames'[i].object # None
                               => i = j
    BY <1>4, <1>7 DEF Owned, CallsKept
  <2> QED BY <1>7, <2>1, <2>2 DEF CallsKept
<1>17. CallsNested'
  <2>1. \A i \in 1..(Depth - 1) : i \in 1..Depth /\ i + 1 \in 1..Depth /\ i # Depth
    BY <1>4
  <2>2. ASSUME NEW i \in 1..(Depth - 1)
        PROVE  (/\ frames[i].type = "keybind"
                /\ heap[frames[i].object].action = frames[i + 1].object
                /\ heap[frames[i].object].acts = frames[i + 1].type)'
    <3>1. /\ frames[i].type = "keybind"
          /\ heap[frames[i].object].action = frames[i + 1].object
          /\ heap[frames[i].object].acts = frames[i + 1].type
      BY <1>4 DEF Owned, CallsNested
    <3>2. frames[i].object # None
      BY <1>4, <2>1, <3>1, LongLivedAre DEF Owned, CallsKept, CallMade
    <3>3. heap'[frames[i].object] = heap[frames[i].object]
      BY <1>3, <1>12, <1>13, <2>1, <3>2
    <3> QED BY <1>7, <2>1, <3>1, <3>3
  <2>3. Top'.object = o /\ heap'[o].action = None
    BY <1>3, <1>4, <1>5, <1>7 DEF Owned, CallsNested, Top, o
  <2> QED BY <1>7, <2>2, <2>3 DEF CallsNested
<1>18. ListsKept'
  <2> SUFFICES ASSUME NEW l \in List, NEW c \in ToSet(lists[l])
               PROVE  (c \in live /\ Typed(l, c) /\ InNoCall(c))'
    BY <1>1 DEF ListsKept
  <2>1. c \in live /\ Typed(l, c) /\ InNoCall(c)
    BY <1>4 DEF Owned, ListsKept
  <2>2. c # b /\ c # old
    BY <1>3, <1>8, <2>1 DEF Spare, InNoList
  <2>3. c # o
    BY <1>4, <2>1 DEF InNoCall, Top, o
  <2>4. c \in live' /\ heap'[c] = heap[c]
    BY <1>3, <1>13, <2>1, <2>2, <2>3
  <2> QED BY <1>7, <2>1, <2>4 DEF InNoCall, Typed
<1>19. ObjectsKept'
  <2> SUFFICES ASSUME NEW p \in live'
               PROVE  (ActionKept(p) /\ ActionTyped(p) /\ \A r \in Slot : TextKept(p, r))'
    BY DEF ObjectsKept
  <2>1. CASE p = b
    <3>1. "none" \notin LongLived
      BY LongLivedAre
    <3> QED BY <1>14, <2>1, <3>1 DEF ActionKept, ActionTyped, TextKept
  <2>2. CASE p # b
    <3>1. p \in live /\ p # old /\ heap'[p].action = heap[p].action /\ heap'[p].acts = heap[p].acts
      BY <1>13, <2>2
    <3>2. ActionKept(p) /\ ActionTyped(p) /\ \A r \in Slot : TextKept(p, r)
      BY <1>4, <3>1 DEF Owned, ObjectsKept
    <3>3. heap[p].action # None =>
            heap[p].action \in live' /\ heap[p].action # b /\ heap[p].action # old
      BY <1>3, <1>8, <3>1, <3>2 DEF ActionKept, Spare
    <3>4. ActionKept(p)'
      <4> SUFFICES ASSUME NEW a, a = heap[p].action, a # None
                   PROVE  /\ a \in live'
                          /\ \A q \in live' : heap'[q].action = a => q = p
                          /\ \A i \in 1..Depth' : frames'[i].object = a
                                                  => i > 1 /\ frames'[i - 1].object = p
        BY <3>1 DEF ActionKept
      <4>1. \A q \in live' : heap'[q].action = a => q = p
        BY <1>13, <1>14, <3>1, <3>2 DEF ActionKept
      <4>2. \A i \in 1..Depth : i > 1 => i - 1 \in 1..Depth
        BY <1>4
      <4> QED BY <1>7, <3>1, <3>2, <3>3, <4>1, <4>2 DEF ActionKept
    <3>5. ActionTyped(p)'
      <4> SUFFICES ASSUME NEW t, NEW a, t = heap[p].acts, a = heap[p].action, t \in LongLived
                   PROVE  a # None /\ Typed(t, a)'
        BY <3>1 DEF ActionTyped
      <4>1. a # None /\ Typed(t, a)
        BY <3>2 DEF ActionTyped
      <4>2. CASE a # o
        <5>1. heap'[a] = heap[a]
          BY <1>13, <3>3, <4>1, <4>2
        <5> QED BY <4>1, <5>1 DEF Typed
      <4>3. CASE a = o
        <5>1. Depth > 1 /\ frames[Depth - 1].object = p
          BY <1>4, <3>2, <4>1, <4>3 DEF ActionKept, Top, o
        <5>2. Depth - 1 \in 1..(Depth - 1) /\ (Depth - 1) + 1 = Depth
          BY <1>4, <5>1
        <5>3. t = Top.type
          BY <1>4, <5>1, <5>2 DEF Owned, CallsNested, Top
        <5>4. \A r \in Slot \ OwnedSlots(t) : heap'[a].text[r] = None
          BY <1>3, <1>10, <1>13, <1>15, <4>1, <4>3, <5>3 DEF Typed
        <5> QED BY <1>3, <4>1, <4>3, <5>4 DEF Typed
      <4> QED BY <4>2, <4>3
    <3>6. ASSUME NEW r \in Slot PROVE TextKept(p, r)'
      <4>1. heap'[p].text[r] = IF p = o /\ r = s THEN b ELSE heap[p].text[r]
        BY <1>13, <2>2
      <4> SUFFICES ASSUME NEW t, t = heap'[p].text[r], t # None
                   PROVE  /\ t \in live' /\ heap'[t] = Zeroed
                          /\ InNoList(t)' /\ InNoCall(t)'
                          /\ \A q \in live' : heap'[q].action # t
                          /\ \A q \in live', u \in Slot : heap'[q].text[u] = t => q = p /\ u = r
        BY DEF TextKept
      <4>2. CASE p = o /\ r = s
        <5>1. t = b
          BY <4>1, <4>2
        <5>2. InNoList(b)' /\ InNoCall(b)'
          BY <1>1, <1>3, <1>7 DEF Spare, InNoList, InNoCall
        <5>3. \A q \in live' : heap'[q].action # b
          BY <1>3, <1>8, <1>13, <1>14 DEF Spare
        <5>4. ASSUME NEW q \in live', NEW u \in Slot, heap'[q].text[u] = b
              PROVE  q = o /\ u = s
          BY <1>3, <1>8, <1>13, <1>14, <5>4 DEF Spare, o
        <5> QED BY <1>14, <4>2, <5>1, <5>2, <5>3, <5>4
      <4>3. CASE ~(p = o /\ r = s)
        <5>1. /\ t = heap[p].text[r] /\ t \in live /\ heap[t] = Zeroed
              /\ InNoList(t) /\ InNoCall(t)
              /\ \A q \in live : heap[q].action # t
              /\ \A q \in live, u \in Slot : heap[q].text[u] = t => q = p /\ u = r
          BY <3>2, <4>1, <4>3 DEF TextKept
        <5>2. t # b /\ t # old
          BY <1>3, <1>8, <3>1, <4>3, <5>1 DEF Spare, o
        <5>3. t # o
          BY <1>4, <5>1 DEF InNoCall, Top, o
        <5>4. t \in live' /\ heap'[t] = Zeroed
          BY <1>3, <5>1, <5>2, <5>3
        <5>5. InNoList(t)' /\ InNoCall(t)'
          BY <1>1, <1>7, <5>1 DEF InNoList, InNoCall
        <5>6. \A q \in live' : heap'[q].action # t
          BY <1>13, <1>14, <5>1
        <5>7. \A q \in live', u \in Slot : heap'[q].text[u] = t => q = p /\ u = r
          BY <1>13, <1>14, <5>1, <5>2
        <5> QED BY <5>4, <5>5, <5>6, <5>7
      <4> QED BY <4>2, <4>3
    <3> QED BY <3>4, <3>5, <3>6
  <2> QED BY <2>1, <2>2
<1>20. NothingIsLost'
  <2> SUFFICES ASSUME NEW c \in live' PROVE Held(c)'
    BY DEF NothingIsLost
  <2>1. CASE c = b
    BY <1>3, <1>15, <2>1 DEF Held
  <2>2. CASE c # b
    <3>1. c \in live /\ c # old /\ Held(c)
      BY <1>13, <2>2 DEF IInv, NothingIsLost
    <3>2. CASE \E l \in List : c \in ToSet(lists[l])
      BY <1>1, <3>2 DEF Held
    <3>3. CASE \E i \in 1..Depth : c = frames[i].object
      BY <1>7, <3>3 DEF Held
    <3>4. ASSUME NEW p \in live, c = heap[p].action \/ \E r \in Slot : c = heap[p].text[r]
          PROVE  Held(c)'
      <4>1. c # None
        BY <1>8, <3>1
      <4>2. p # old /\ p # b
        <5>1. p = old => heap[p] = Zeroed
          BY <1>3, <1>8
        <5>2. b \in live => b = old
          BY <1>3
        <5> QED BY <3>4, <4>1, <5>1, <5>2 DEF Zeroed
      <4>3. p \in live'
        BY <1>3, <4>2
      <4> QED BY <1>3, <1>13, <3>1, <3>4, <4>2, <4>3 DEF Held
    <3> QED BY <3>1, <3>2, <3>3, <3>4 DEF Held
  <2> QED BY <2>1, <2>2
<1> QED BY <1>1, <1>4, <1>7, <1>9, <1>16, <1>17, <1>18, <1>19, <1>20 DEF IInv, Owned

-----------------------------------------------------------------------------
(* The calls end, and their objects with them.                               *)

(* A block that a call owns.                                                 *)
InCall(c) ==
  \E i \in 1..Depth :
    \/ c = frames[i].object
    \/ frames[i].object # None /\ \E s \in Slot : c = heap[frames[i].object].text[s]

LEMMA WithoutIs ==
  ASSUME TypeOK, NEW gone, heap' = Without(gone)
  PROVE  /\ heap' \in [Block -> Object \cup {Free}]
         /\ live' = live \ gone
         /\ \A c \in live' : heap'[c] = heap[c]
<1>1. /\ heap' \in [Block -> Object \cup {Free}]
      /\ \A c \in Block : heap'[c] = IF c \in gone THEN Free ELSE heap[c]
  BY DEF TypeOK, Without
<1>2. live' = live \ gone
  BY <1>1 DEF live
<1> QED BY <1>1, <1>2, LiveIs

LEMMA DestroyKeeps ==
  ASSUME IInv, Reading, NEW gone, heap' = Without(gone), frames' = <<>>, UNCHANGED lists,
         stage' \in {"running", "stopped"}, \A c \in live : c \in gone <=> InCall(c)
  PROVE  IInv'
<1>1. /\ stage = "running" /\ Owned
      /\ Depth \in Nat \ {0} /\ Depth \in 1..Depth
  BY ReadingIs
<1>2. /\ heap' \in [Block -> Object \cup {Free}] /\ None \notin live
      /\ \A c \in live' : c \in live /\ ~InCall(c) /\ InNoCall(c) /\ heap'[c] = heap[c]
      /\ \A c \in live : ~InCall(c) => c \in live'
  BY WithoutIs, LiveIs DEF IInv, InCall, InNoCall
<1>3. frames' \in Seq(Frame) /\ Depth' = 0 /\ ~Reading'
  BY DEF Depth, Reading
<1>4. TypeOK'
  BY <1>2, <1>3 DEF IInv, TypeOK
<1>5. CallsKept' /\ CallsNested'
  BY <1>3 DEF CallsKept, CallsNested
<1>6. \A i \in 1..Depth : frames[i].object \in live \cup {None}
  BY <1>1 DEF Owned, CallsKept, CallMade
<1>7. ListsKept'
  <2> SUFFICES ASSUME NEW l \in List, NEW c \in ToSet(lists[l])
               PROVE  (c \in live /\ Typed(l, c) /\ InNoCall(c))'
    BY DEF ListsKept
  <2>1. c \in live /\ Typed(l, c) /\ InNoCall(c)
    BY <1>1 DEF Owned, ListsKept
  <2>2. \A p \in live, s \in Slot : heap[p].text[s] # c
    BY <1>1, <1>2, <2>1 DEF Owned, ObjectsKept, TextKept, InNoList
  <2>3. c \in live' /\ heap'[c] = heap[c]
    BY <1>2, <1>6, <2>1, <2>2 DEF InCall, InNoCall
  <2> QED BY <1>3, <2>1, <2>3 DEF Typed, InNoCall
<1>8. ObjectsKept'
  <2> SUFFICES ASSUME NEW o \in live'
               PROVE  (ActionKept(o) /\ ActionTyped(o) /\ \A s \in Slot : TextKept(o, s))'
    BY DEF ObjectsKept
  <2>1. o \in live /\ ~InCall(o) /\ InNoCall(o) /\ heap'[o] = heap[o]
    BY <1>2
  <2>2. ActionKept(o) /\ ActionTyped(o) /\ \A s \in Slot : TextKept(o, s)
    BY <1>1, <2>1 DEF Owned, ObjectsKept
  <2>3. ASSUME heap[o].action # None PROVE heap[o].action \in live'
    <3>1. heap[o].action \in live
      BY <2>2, <2>3 DEF ActionKept
    <3>2. InNoCall(heap[o].action)
      <4>1. \A i \in 1..Depth : i > 1 => i - 1 \in 1..Depth
        BY <1>1
      <4> QED BY <2>1, <2>2, <2>3, <4>1 DEF ActionKept, InNoCall
    <3>3. \A p \in live, s \in Slot : heap[p].text[s] # heap[o].action
      BY <1>1, <2>1, <2>3 DEF Owned, ObjectsKept, TextKept
    <3> QED BY <1>2, <1>6, <3>1, <3>2, <3>3 DEF InCall, InNoCall
  <2>4. ActionKept(o)'
    BY <1>2, <1>3, <2>1, <2>2, <2>3 DEF ActionKept
  <2>5. ActionTyped(o)'
    BY <1>2, <2>1, <2>2, <2>3 DEF ActionTyped, Typed
  <2>6. ASSUME NEW s \in Slot PROVE TextKept(o, s)'
    <3> SUFFICES ASSUME NEW t, t = heap[o].text[s], t # None
                 PROVE  /\ t \in live' /\ heap'[t] = Zeroed
                        /\ InNoList(t)' /\ InNoCall(t)'
                        /\ \A p \in live' : heap'[p].action # t
                        /\ \A p \in live', r \in Slot : heap'[p].text[r] = t => p = o /\ r = s
      BY <2>1 DEF TextKept
    <3>1. /\ t \in live /\ heap[t] = Zeroed
          /\ InNoList(t) /\ InNoCall(t)
          /\ \A p \in live : heap[p].action # t
          /\ \A p \in live, r \in Slot : heap[p].text[r] = t => p = o /\ r = s
      BY <2>2 DEF TextKept
    <3>2. t \in live'
      BY <1>2, <1>6, <2>1, <3>1 DEF InCall, InNoCall
    <3> QED BY <1>2, <1>3, <3>1, <3>2 DEF InNoList, InNoCall
  <2> QED BY <2>4, <2>5, <2>6
<1>9. NothingIsLost'
  <2> SUFFICES ASSUME NEW c \in live' PROVE Held(c)'
    BY DEF NothingIsLost
  <2>1. c \in live /\ c # None /\ ~InCall(c) /\ InNoCall(c) /\ Held(c)
    BY <1>2 DEF IInv, NothingIsLost
  <2>2. CASE \E l \in List : c \in ToSet(lists[l])
    BY <2>2 DEF Held
  <2>3. ASSUME NEW p \in live, c = heap[p].action \/ \E s \in Slot : c = heap[p].text[s]
        PROVE  Held(c)'
    <3>1. ASSUME NEW i \in 1..Depth PROVE p # frames[i].object
      <4>1. CASE i = Depth
        BY <1>1, <1>2, <2>1, <2>3, <4>1 DEF Owned, CallsNested, InCall, Top
      <4>2. CASE i # Depth
        <5>1. i \in 1..(Depth - 1) /\ i + 1 \in 1..Depth
          BY <1>1, <4>2
        <5> QED BY <1>1, <1>2, <2>1, <2>3, <5>1 DEF Owned, CallsNested, InCall, InNoCall
      <4> QED BY <4>1, <4>2
    <3>2. ASSUME NEW q \in live, NEW s \in Slot, p = heap[q].text[s] PROVE FALSE
      <4>1. heap[p] = Zeroed
        BY <1>1, <1>2, <3>2 DEF Owned, ObjectsKept, TextKept
      <4> QED BY <2>1, <2>3, <4>1 DEF Zeroed
    <3>3. p \in live'
      BY <1>2, <1>6, <3>1, <3>2 DEF InCall
    <3> QED BY <1>2, <2>3, <3>3 DEF Held
  <2> QED BY <2>1, <2>2, <2>3 DEF Held, InNoCall
<1> QED BY <1>3, <1>4, <1>5, <1>7, <1>8, <1>9 DEF IInv, Owned

LEMMA FrameDestroyIs ==
  ASSUME IInv, Reading, NEW i \in 1..Depth, NEW c \in live
  PROVE  /\ c \in FrameDestroy(frames[i]) <=>
              \/ c = frames[i].object
              \/ frames[i].object # None /\ \E s \in Slot : c = heap[frames[i].object].text[s]
         /\ frames[i].type \notin LongLived /\ frames[i].object # None =>
              ActionDestroy(frames[i].type, frames[i].object) = FrameDestroy(frames[i])
<1> DEFINE f == frames[i]
<1>1. f.type \in Command /\ CallMade(f) /\ CallTyped(f) /\ None \notin live
  BY ReadingIs, LiveIs DEF Owned, CallsKept, IInv, Frame
<1>2. f.type \notin LongLived => ActionDestroy(f.type, f.object) = FrameDestroy(f) \/ f.object = None
  BY DEF FrameDestroy, LongLived
<1>3. CASE f.object = None
  BY <1>1, <1>3 DEF FrameDestroy
<1>4. CASE f.object # None
  <2>1. /\ \A s \in Slot \ OwnedSlots(f.type) : heap[f.object].text[s] = None
        /\ OwnedSlots(f.type) \subseteq Slot
    BY <1>1, <1>4, OwnedIsSlot DEF CallTyped, Typed
  <2>2. CASE f.type = "keybind"
    <3>1. FrameDestroy(f) = {f.object}
      BY <1>4, <2>2, RulesAre DEF FrameDestroy
    <3>2. \A s \in Slot : heap[f.object].text[s] = None
      BY <2>1, <2>2, OwnedOfSome
    <3>3. f.type \in LongLived
      BY <2>2 DEF LongLived
    <3> QED BY <1>1, <3>1, <3>2, <3>3
  <2>3. CASE f.type # "keybind"
    <3>1. FrameDestroy(f) = TextsOf(f.object, OwnedSlots(f.type)) \cup {f.object}
      BY <1>4, <2>3 DEF FrameDestroy, RuleDestroy, ActionDestroy, OwnedSlots
    <3> QED BY <1>1, <1>2, <1>4, <2>1, <3>1 DEF TextsOf
  <2> QED BY <1>2, <1>4, <2>2, <2>3
<1> QED BY <1>2, <1>3, <1>4

LEMMA RefuseKeeps == ASSUME IInv, Waiting, Refuse PROVE IInv'
<1> DEFINE gone == UNION {FrameDestroy(frames[i]) : i \in 1..Depth}
<1>1. /\ Reading /\ heap' = Without(gone) /\ frames' = <<>> /\ UNCHANGED <<lists, stage>>
  BY DEF Waiting, Refuse
<1>2. \A c : c \in gone <=> \E i \in 1..Depth : c \in FrameDestroy(frames[i])
  OBVIOUS
<1>3. \A c \in live : c \in gone <=> InCall(c)
  BY <1>1, <1>2, FrameDestroyIs DEF InCall
<1> HIDE DEF gone
<1> QED BY <1>1, <1>3, ReadingIs, DestroyKeeps

(* An object is inserted in the list where it lives on.                      *)
LEMMA InsertIs ==
  ASSUME TypeOK, NEW l \in List, NEW b \in Block, Insert(l, b)
  PROVE  /\ lists' \in [List -> Seq(Block)]
         /\ \A m \in List : ToSet(lists'[m]) = ToSet(lists[m]) \cup (IF m = l THEN {b} ELSE {})
<1>1. /\ lists[l] \in Seq(Block)
      /\ lists' = [lists EXCEPT ![l] = IF l = "keybind" THEN <<b>> \o lists[l] ELSE Append(lists[l], b)]
  BY DEF TypeOK, Insert
<1>2. /\ <<b>> \o lists[l] \in Seq(Block)
      /\ ToSet(<<b>> \o lists[l]) = ToSet(lists[l]) \cup {b}
  <2> DEFINE new == <<b>> \o lists[l]
  <2>1. /\ new \in Seq(Block) /\ new[1] = b /\ 1 \in DOMAIN new
        /\ DOMAIN new = 1..(Len(lists[l]) + 1) /\ DOMAIN lists[l] = 1..Len(lists[l])
        /\ Len(lists[l]) \in Nat
        /\ \A i \in DOMAIN lists[l] : i + 1 \in DOMAIN new /\ new[i + 1] = lists[l][i]
        /\ \A i \in DOMAIN new : i # 1 => i - 1 \in DOMAIN lists[l] /\ new[i] = lists[l][i - 1]
    BY <1>1
  <2> HIDE DEF new
  <2>2. ToSet(new) = ToSet(lists[l]) \cup {b}
    BY <2>1 DEF ToSet
  <2> QED BY <2>1, <2>2 DEF new
<1>3. /\ Append(lists[l], b) \in Seq(Block)
      /\ ToSet(Append(lists[l], b)) = ToSet(lists[l]) \cup {b}
  <2> DEFINE new == Append(lists[l], b)
  <2>1. /\ new \in Seq(Block) /\ new[Len(lists[l]) + 1] = b
        /\ DOMAIN new = 1..(Len(lists[l]) + 1) /\ DOMAIN lists[l] = 1..Len(lists[l])
        /\ Len(lists[l]) \in Nat
        /\ \A i \in DOMAIN lists[l] : new[i] = lists[l][i]
    BY <1>1
  <2> HIDE DEF new
  <2>2. ToSet(new) = ToSet(lists[l]) \cup {b}
    BY <2>1 DEF ToSet
  <2> QED BY <2>1, <2>2 DEF new
<1> QED BY <1>1, <1>2, <1>3 DEF TypeOK

LEMMA InsertKeeps ==
  ASSUME IInv, stage = "running", NEW l \in List, NEW b \in live, Insert(l, b), Typed(l, b),
         \A p \in live, s \in Slot : heap[p].text[s] # b,
         frames' = <<>>, UNCHANGED <<heap, stage>>,
         \A i \in 1..Depth : frames[i].object \in {b, None}
                             \/ \E p \in live : frames[i].object = heap[p].action
  PROVE  IInv'
<1>1. Owned /\ live' = live /\ live \subseteq Block /\ None \notin live
  BY LiveIs DEF IInv, live
<1>2. /\ lists' \in [List -> Seq(Block)]
      /\ \A m \in List : ToSet(lists'[m]) = ToSet(lists[m]) \cup (IF m = l THEN {b} ELSE {})
  BY <1>1, InsertIs DEF IInv
<1>3. frames' \in Seq(Frame) /\ Depth' = 0 /\ ~Reading'
  BY DEF Depth, Reading
<1>4. TypeOK'
  BY <1>2, <1>3 DEF IInv, TypeOK
<1>5. CallsKept' /\ CallsNested'
  BY <1>3 DEF CallsKept, CallsNested
<1>6. ListsKept'
  <2> SUFFICES ASSUME NEW m \in List, NEW c \in ToSet(lists'[m])
               PROVE  (c \in live /\ Typed(m, c) /\ InNoCall(c))'
    BY DEF ListsKept
  <2>1. c \in ToSet(lists[m]) \/ (c = b /\ m = l)
    BY <1>2
  <2>2. c \in live /\ Typed(m, c)
    BY <1>1, <2>1 DEF Owned, ListsKept
  <2> QED BY <1>1, <1>3, <2>2 DEF InNoCall, Typed
<1>7. ObjectsKept'
  <2> SUFFICES ASSUME NEW o \in live
               PROVE  (ActionKept(o) /\ ActionTyped(o) /\ \A s \in Slot : TextKept(o, s))'
    BY <1>1 DEF ObjectsKept
  <2>1. ActionKept(o) /\ ActionTyped(o) /\ \A s \in Slot : TextKept(o, s)
    BY <1>1 DEF Owned, ObjectsKept
  <2>2. ASSUME NEW s \in Slot PROVE TextKept(o, s)'
    BY <1>1, <1>2, <1>3, <2>1 DEF TextKept, InNoList, InNoCall
  <2> QED BY <1>1, <1>3, <2>1, <2>2 DEF ActionKept, ActionTyped, Typed
<1>8. NothingIsLost'
  <2> SUFFICES ASSUME NEW c \in live PROVE Held(c)'
    BY <1>1 DEF NothingIsLost
  <2>1. Held(c) /\ c # None
    BY <1>1 DEF IInv, NothingIsLost
  <2> QED BY <1>1, <1>2, <2>1 DEF Held
<1> QED BY <1>3, <1>4, <1>5, <1>6, <1>7, <1>8 DEF IInv, Owned

LEMMA FinishKeeps == ASSUME IInv, Finish PROVE IInv'
<1> DEFINE f == frames[1]
<1>1. /\ Reading /\ Top.todo = <<>> /\ frames' = <<>> /\ Head(frames) = f
      /\ stage = "running" /\ Owned /\ Depth \in Nat \ {0} /\ Depth \in 1..Depth /\ 1 \in 1..Depth
      /\ f \in Frame
  BY ReadingIs DEF Finish
<1>2. f.type \in Command /\ CallMade(f) /\ CallTyped(f)
  BY <1>1 DEF Owned, CallsKept, Frame
<1>3. CASE f.type \in LongLived
  <2>1. Insert(f.type, f.object) /\ UNCHANGED <<heap, stage>>
    BY <1>1, <1>3 DEF Finish
  <2>2. f.object \in live /\ f.object # None /\ Typed(f.type, f.object)
    BY <1>2, <1>3, LongLivedAre, LiveIs DEF CallMade, CallTyped, IInv
  <2>3. \A p \in live, s \in Slot : heap[p].text[s] # f.object
    BY <1>1, <2>2 DEF Owned, ObjectsKept, TextKept, InNoCall
  <2>4. ASSUME NEW i \in 1..Depth
        PROVE  \/ frames[i].object \in {f.object, None}
               \/ \E p \in live : frames[i].object = heap[p].action
    <3>1. CASE i = 1
      BY <3>1
    <3>2. CASE i # 1
      <4>1. i - 1 \in 1..(Depth - 1) /\ i - 1 \in 1..Depth /\ (i - 1) + 1 = i
        BY <1>1, <3>2
      <4>2. /\ frames[i - 1].type = "keybind"
            /\ heap[frames[i - 1].object].action = frames[(i - 1) + 1].object
        BY <1>1, <4>1 DEF Owned, CallsNested
      <4>3. frames[i - 1].object \in live
        BY <1>1, <4>1, <4>2, LongLivedAre DEF Owned, CallsKept, CallMade
      <4> QED BY <4>1, <4>2, <4>3
    <3> QED BY <3>1, <3>2
  <2> HIDE DEF f
  <2> QED BY <1>1, <1>3, <2>1, <2>2, <2>3, <2>4, InsertKeeps DEF List
<1>4. CASE f.type \notin LongLived
  <2>1. /\ heap' = IF f.object = None THEN heap ELSE Without(ActionDestroy(f.type, f.object))
        /\ stage' \in {"running", "stopped"} /\ UNCHANGED lists
    BY <1>1, <1>4 DEF Finish
  <2>2. Depth = 1
    <3> SUFFICES ASSUME 1 \in 1..(Depth - 1) PROVE FALSE
      BY <1>1
    <3> QED BY <1>1, <1>4 DEF Owned, CallsNested, LongLived
  <2>3. CASE f.object = None
    <3>1. heap' = Without({})
      BY <2>1, <2>3 DEF Without, IInv, TypeOK
    <3>2. \A c \in live : ~InCall(c)
      BY <2>2, <2>3, LiveIs DEF InCall, IInv
    <3> QED BY <1>1, <2>1, <3>1, <3>2, DestroyKeeps
  <2>4. CASE f.object # None
    <3>1. heap' = Without(FrameDestroy(f))
      BY <1>1, <1>2, <1>4, <2>1, <2>4, FrameDestroyIs DEF CallMade
    <3>2. \A c \in live : c \in FrameDestroy(f) <=> InCall(c)
      BY <1>1, <2>2, FrameDestroyIs DEF InCall
    <3> QED BY <1>1, <2>1, <3>1, <3>2, DestroyKeeps
  <2> QED BY <2>3, <2>4
<1> QED BY <1>3, <1>4

(* What SelectInSeq finds is there: a set of natural numbers has a least.    *)
LEMMA LeastNatural ==
  ASSUME NEW T \in SUBSET Nat, T # {}
  PROVE  \E n \in T : \A m \in T : n <= m
<1> DEFINE R == {ss \in Nat \X Nat : ss[1] < ss[2]}
<1>1. IsWellFoundedOn(R, Nat)
  BY NatLessThanWellFounded DEF OpToRel
<1>2. \A x, y \in T : x \in Nat /\ (<<y, x>> \in R \/ x <= y)
  OBVIOUS
<1> HIDE DEF R
<1>3. PICK x \in T : \A y \in T : ~(<<y, x>> \in R)
  BY <1>1, WFMin
<1> QED BY <1>2, <1>3

LEMMA BoundIs ==
  ASSUME NEW k, Bound(k) > 0
  PROVE  Bound(k) \in DOMAIN lists["keybind"] \/ lists["keybind"] \notin Seq(Block)
<1> DEFINE keys == lists["keybind"]
           I == {i \in 1..Len(keys) : heap[keys[i]].key = k}
<1>1. I # {} /\ Bound(k) = Min(I)
  BY DEF Bound, SelectInSeq
<1>2. I \in SUBSET Nat
  OBVIOUS
<1>3. Min(I) \in I
  <2> HIDE DEF I
  <2> QED BY <1>1, <1>2, LeastNatural DEF Min
<1> QED BY <1>1, <1>3

LEMMA PressKeeps == ASSUME IInv, NEW k, Press(k) PROVE IInv'
<1> DEFINE b == lists["keybind"][Bound(k)]
           type == heap[b].acts
           a == heap[b].action
<1>1. /\ stage = "running" /\ frames = <<>> /\ Bound(k) > 0 /\ type \in LongLived \cup {"exit"}
      /\ UNCHANGED <<heap, frames>>
      /\ type = "exit" => stage' = "stopped" /\ UNCHANGED lists
      /\ type # "exit" => Insert(type, a) /\ UNCHANGED stage
  BY DEF Press, Ready, Reading
<1>2. Owned /\ "keybind" \in List /\ lists["keybind"] \in Seq(Block)
  BY <1>1 DEF IInv, TypeOK, List, LongLived
<1>3. b \in ToSet(lists["keybind"])
  BY <1>1, <1>2, BoundIs DEF ToSet
<1>4. b \in live
  BY <1>2, <1>3 DEF Owned, ListsKept
<1>5. ActionKept(b) /\ ActionTyped(b)
  BY <1>2, <1>4 DEF Owned, ObjectsKept
<1>6. CASE type = "exit"
  <2>1. UNCHANGED vars \/ (UNCHANGED <<heap, frames, lists>> /\ stage' = "stopped")
    BY <1>1, <1>6
  <2>2. TypeOK' /\ Owned' /\ NothingIsLost'
    BY <1>1, <1>2, <2>1, <1>6
    DEF IInv, TypeOK, Owned, NothingIsLost, Held, live, CallsKept, CallMade, CallTyped, Typed,
        CallsNested, Top, Depth, Reading, ListsKept, InNoCall, InNoList, ObjectsKept, ActionKept,
        ActionTyped, TextKept
  <2> QED BY <1>1, <2>2 DEF IInv
<1>7. CASE type # "exit"
  <2>1. type \in List /\ a # None /\ Typed(type, a) /\ a \in live
    BY <1>1, <1>5, <1>7 DEF ActionTyped, ActionKept, List
  <2>2. \A p \in live, s \in Slot : heap[p].text[s] # a
    BY <1>2, <1>4, <2>1 DEF Owned, ObjectsKept, TextKept
  <2>3. Depth = 0
    BY <1>1 DEF Depth
  <2> HIDE DEF type, a
  <2> QED BY <1>1, <1>7, <2>1, <2>2, <2>3, InsertKeeps
<1> QED BY <1>6, <1>7

LEMMA DeinitKeeps == ASSUME IInv, Deinit PROVE IInv'
<1> DEFINE gone == UNION {UNION {RuleDestroy(r, b) : b \in ToSet(lists[r])} : r \in Rules}
<1>1. /\ stage = "stopped" /\ stage' = "over" /\ heap' = Without(gone) /\ UNCHANGED frames
      /\ lists' = [lists EXCEPT !["pointer_rule"] = <<>>, !["toplevel_rule"] = <<>>,
                                !["output_rule"] = <<>>]
  BY DEF Deinit
<1>2. Owned /\ frames = <<>> /\ TypeOK /\ NothingIsLost /\ Depth = 0 /\ None \notin live
  BY <1>1, LiveIs DEF IInv, Depth
<1>3. \A c : c \in gone <=> \E r \in Rules : \E b \in ToSet(lists[r]) : c \in RuleDestroy(r, b)
  OBVIOUS
<1> HIDE DEF gone
<1>4. /\ heap' \in [Block -> Object \cup {Free}] /\ live' = live \ gone
      /\ \A c \in live' : heap'[c] = heap[c]
  BY <1>1, <1>2, WithoutIs
<1>5. /\ lists' \in [List -> Seq(Block)]
      /\ lists'["keybind"] = lists["keybind"] /\ List = Rules \cup {"keybind"}
  <2>1. /\ List = Rules \cup {"keybind"} /\ Rules = {"pointer_rule", "toplevel_rule", "output_rule"}
        /\ lists \in [List -> Seq(Block)] /\ <<>> \in Seq(Block)
    BY <1>2, RulesAre DEF TypeOK, List, LongLived
  <2> HIDE DEF List
  <2>2. lists'["keybind"] = lists["keybind"]
    BY <1>1, <2>1
  <2>3. lists' \in [List -> Seq(Block)]
    BY <1>1, <2>1
  <2> QED BY <2>1, <2>2, <2>3
<1>6. ASSUME NEW r \in Rules, NEW b \in ToSet(lists[r])
      PROVE  /\ b \in live /\ b \in gone /\ heap[b].action = None
             /\ \A s \in Slot : heap[b].text[s] \in gone \cup {None}
  <2>1. b \in live /\ Typed(r, b)
    BY <1>2, <1>5 DEF Owned, ListsKept
  <2>2. RuleDestroy(r, b) \subseteq gone
    BY <1>3
  <2>3. r # "keybind" /\ OwnedSlots(r) = RuleFreed[r]
    BY RulesAre DEF OwnedSlots
  <2> QED BY <2>1, <2>2, <2>3 DEF Typed, RuleDestroy, TextsOf
<1>7. NothingIsLost'
  <2> SUFFICES ASSUME NEW c \in live' PROVE Held(c)'
    BY DEF NothingIsLost
  <2>1. c \in live /\ c \notin gone /\ Held(c)
    BY <1>2, <1>4 DEF NothingIsLost
  <2>2. CASE \E l \in List : c \in ToSet(lists[l])
    BY <1>5, <1>6, <2>1, <2>2 DEF Held
  <2>3. ASSUME NEW p \in live, c = heap[p].action \/ \E s \in Slot : c = heap[p].text[s]
        PROVE  Held(c)'
    <3>1. ASSUME p \in gone PROVE FALSE
      <4>1. PICK r \in Rules : \E b \in ToSet(lists[r]) : p \in RuleDestroy(r, b)
        BY <1>3, <3>1
      <4>2. PICK b \in ToSet(lists[r]) : p \in RuleDestroy(r, b)
        BY <4>1
      <4>3. CASE p = b
        BY <1>2, <1>6, <2>1, <2>3, <4>3
      <4>4. CASE p # b
        <5>1. RuleFreed[r] \subseteq Slot
          BY RulesAre DEF RuleFreed, Slot
        <5>2. PICK s \in Slot : p = heap[b].text[s]
          BY <4>2, <4>4, <5>1 DEF RuleDestroy, TextsOf
        <5>3. b \in live /\ TextKept(b, s)
          BY <1>2, <1>6 DEF Owned, ObjectsKept
        <5>4. heap[p] = Zeroed
          BY <1>2, <5>2, <5>3 DEF TextKept
        <5> QED BY <1>2, <2>1, <2>3, <5>4 DEF Zeroed
      <4> QED BY <4>3, <4>4
    <3>2. p \in live'
      BY <1>4, <3>1
    <3> QED BY <1>4, <2>3, <3>2 DEF Held
  <2> QED BY <1>2, <2>1, <2>2, <2>3 DEF Held
<1> QED BY <1>1, <1>2, <1>4, <1>5, <1>7 DEF IInv, TypeOK

-----------------------------------------------------------------------------
(* What holds of every behaviour.                                            *)

(* A step with any word: Word is what the lines of an instance are made of.  *)
Step ==
  \/ \E word : Take(word) \/ SkipFlag(word)
  \/ End
  \/ Finish
  \/ \E k : Press(k)
  \/ Deinit

LEMMA InitOwns == ASSUME Init PROVE IInv
<1>1. TypeOK
  BY DEF Init, TypeOK
<1>2. live = {} /\ frames = <<>> /\ Depth = 0 /\ ~Reading
  BY DEF Init, live, Depth, Reading
<1>3. \A l \in List : ToSet(lists[l]) = {}
  BY DEF Init, ToSet
<1>4. Owned
  BY <1>2, <1>3 DEF Owned, CallsKept, CallsNested, ListsKept, ObjectsKept
<1> QED BY <1>1, <1>2, <1>4 DEF Init, IInv, NothingIsLost

(* Every step leaves every block with one owner.                             *)
LEMMA StepOwns == ASSUME IInv, [Step]_vars PROVE IInv'
<1>1. ASSUME NEW word, Take(word) PROVE IInv'
  <2>1. CASE RefuseWord(word)
    BY <2>1, RefuseKeeps DEF RefuseWord
  <2>2. CASE \E b \in Block : Start(word, b) \/ StartNested(word, b)
    BY <2>2, StartsKeep
  <2>3. CASE StartBare(word) \/ StartNestedBare(word)
    BY <2>3, StartsKeep
  <2>4. CASE ReadValue(word)
    BY <2>4, ReadValueKeeps
  <2>5. CASE ReadKey(word)
    BY <2>5, ReadKeyKeeps
  <2>6. CASE ReadFlag(word)
    BY <2>6, ReadFlagKeeps
  <2>7. CASE ReadOption(word)
    BY <2>7, ReadOptionKeeps
  <2>8. CASE \E b \in Block : ReadText(b)
    BY <2>8, ReadTextKeeps
  <2> QED BY <1>1, <2>1, <2>2, <2>3, <2>4, <2>5, <2>6, <2>7, <2>8 DEF Take
<1>2. ASSUME NEW word, SkipFlag(word) PROVE IInv'
  BY <1>2, ReadValueKeeps
<1>3. CASE End
  BY <1>3, ReadValueKeeps, RefuseKeeps DEF End, RefuseEnd
<1>4. CASE Finish
  BY <1>4, FinishKeeps
<1>5. ASSUME NEW k, Press(k) PROVE IInv'
  BY <1>5, PressKeeps
<1>6. CASE Deinit
  BY <1>6, DeinitKeeps
<1>7. CASE UNCHANGED vars
  BY <1>7
  DEF vars, IInv, TypeOK, Owned, NothingIsLost, Held, live, CallsKept, CallMade, CallTyped, Typed,
      CallsNested, Top, Depth, Reading, ListsKept, InNoCall, InNoList, ObjectsKept, ActionKept,
      ActionTyped, TextKept
<1> QED BY <1>1, <1>2, <1>3, <1>4, <1>5, <1>6, <1>7 DEF Step

LEMMA OwnersKept == ASSUME IInv PROVE NoDangling /\ NothingIsLost
BY DEF IInv, NoDangling, Owned, ListsKept, CallsKept, CallMade, ObjectsKept, ActionKept, TextKept

(* Every block that was taken has exactly one owner, a list, a call that is  *)
(* reading a line or an object, whatever the lines are and wherever          *)
(* handle_request or action_create gives up.                                 *)
THEOREM OwnersAlways == Spec => []IInv
<1>1. [Next]_vars => [Step]_vars
  BY DEF Next, Step
<1> QED BY <1>1, InitOwns, StepOwns, PTL DEF Spec

(* Nobody holds the address of a block that was freed: handle_request and    *)
(* the many exits of action_create free an object once, and nothing else     *)
(* points to it.                                                             *)
THEOREM NeverDangling == Spec => []NoDangling
BY OwnersAlways, OwnersKept, PTL

(* Every block can still be reached: no line, however it ends, leaves one    *)
(* behind.                                                                   *)
THEOREM NeverLost == Spec => []NothingIsLost
BY OwnersAlways, OwnersKept, PTL
=============================================================================
