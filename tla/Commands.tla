------------------------------- MODULE Commands -------------------------------
(***************************************************************************)
(* The commands of comphyctl: for each the parameters that action_create   *)
(* (src/action_parser.c) takes from the line, in order.  A parameter is    *)
(*   kind     what the next word is read as: a key of Reads, "text" (any   *)
(*            word, copied with strdup), "modifiers" (any word, unknown    *)
(*            tokens are ignored), "flag", "options" or "action"           *)
(*   slot     for "text": which string of the object holds the copy        *)
(*   flag     for "flag": the word that may stand here                     *)
(*   options  for "flag" and "options": what each such word is followed by *)
(* An object never has more than three strings, Slot numbers them in the   *)
(* order of its struct in src/action_types.h and src/rules.h.              *)
(***************************************************************************)
EXTENDS Naturals, Sequences

Slot == 1..3

Need(kind) == [kind |-> kind]
Text(s) == [kind |-> "text", slot |-> s]
Flag(flag, params) == [kind |-> "flag", flag |-> flag, params |-> params]
Options(table) == [kind |-> "options", options |-> table]

-----------------------------------------------------------------------------
(* The words that each parse_* function takes; two numbers stand for all,    *)
(* and strtof reads "nan".                                                   *)

Direction == {"up", "right", "down", "left"}
Switch == {"on", "off"}
ScrollMethod == {"none", "two_fingers", "edge", "on_button_down"}
RuleState == {"tiled", "float"}
KeyName == {"return", "enter", "backspace", "delete", "escape", "tab"} \cup Direction
Integral == {"7"}
Decimal == Integral \cup {"0.5", "nan"}
Color == {"#112233", "#11223344"}

(* A sensitivity is refused if it is above 1 or below -1: "nan" is neither.  *)
Sensitivity == Decimal \ Integral

Reads ==
  [int |-> Integral, float |-> Decimal, sensitivity |-> Sensitivity, color |-> Color,
   direction |-> Direction, switch |-> Switch, method |-> ScrollMethod,
   state |-> RuleState, key |-> KeyName \cup {"x"},
   lastInt |-> Integral, lastColor |-> Color]

(* The parameters that may be left out at the end of the line.               *)
Omissible == {"lastInt", "lastColor", "options"}

-----------------------------------------------------------------------------
(* The branches of action_create.                                            *)

WorkspaceCommands ==
  [create_workspace |-> <<Flag("--output", <<Text(1)>>), Need("int")>>,
   destroy_workspace |-> <<Need("int")>>,
   change_workspace |-> <<Need("int")>>,
   move_to_workspace |-> <<Need("int")>>]

DirectionCommands ==
  [focus |-> <<Need("direction")>>,
   move |-> <<Need("direction")>>]

ProcessCommands ==
  [exec |-> <<Text(1)>>,
   env |-> <<Text(1), Text(2)>>]

(* These leave *dest NULL: there is no object.                               *)
Bare == {"exit", "close", "toggle_float", "toggle_fullscreen", "start_move", "start_resize"}

KeyboardCommands ==
  [repeat_rate |-> <<Need("int"), Need("int")>>,
   keymap |-> <<Text(1), Text(2), Text(3)>>]

TrackpadCommands ==
  [trackpad_disable_while_typing |-> <<Need("switch")>>,
   trackpad_tap_to_click |-> <<Need("switch")>>,
   trackpad_natural_scroll |-> <<Need("switch")>>,
   trackpad_scroll_method |-> <<Need("method")>>]

CursorCommands ==
  [cursor_theme |-> <<Text(1), Need("int")>>,
   cursor_hide_after_ms |-> <<Need("int")>>]

GapCommands ==
  [gaps |-> <<Need("int"), Need("lastInt")>>,
   smart_gaps |-> <<Need("switch")>>]

LookCommands ==
  [border_width |-> <<Need("int")>>,
   border_color |-> <<Need("color"), Need("lastColor")>>,
   master_ratio |-> <<Flag("--adjust", <<>>), Need("float")>>,
   client_side_decorations |-> <<Need("switch")>>]

PointerRule ==
  [o \in {"--name", "--sensitivity", "--acceleration", "--left_handed"} |->
     IF o = "--name" THEN Text(1)
     ELSE Need(IF o = "--sensitivity" THEN "sensitivity" ELSE "switch")]

ToplevelRule ==
  [o \in {"--app_id", "--title", "--state", "--width", "--height"} |->
     IF o = "--app_id" THEN Text(1)
     ELSE IF o = "--title" THEN Text(2)
     ELSE Need(IF o = "--state" THEN "state" ELSE "int")]

(* Mutated form: the scale cannot be set.                                    *)
OutputRuleUnscaled ==
  [o \in {"--name", "--x", "--y", "--width", "--height", "--refresh_rate"} |->
     IF o = "--name" THEN Text(1) ELSE Need("int")]

OutputRule ==
  [o \in {"--name", "--x", "--y", "--width", "--height", "--refresh_rate", "--scale"} |->
     IF o = "--name" THEN Text(1)
     ELSE Need(IF o = "--scale" THEN "float" ELSE "int")]

RuleCommands ==
  [pointer_rule |-> <<Options(PointerRule)>>,
   toplevel_rule |-> <<Options(ToplevelRule)>>,
   output_rule |-> <<Options(OutputRule)>>]

KeybindCommand ==
  [keybind |-> <<Flag("--even_when_locked", <<>>), Need("modifiers"), Need("key"), Need("action")>>]

Tables ==
  {WorkspaceCommands, DirectionCommands, ProcessCommands, KeyboardCommands, TrackpadCommands,
   CursorCommands, GapCommands, LookCommands, RuleCommands, KeybindCommand}

Command == Bare \cup UNION {DOMAIN table : table \in Tables}

Params ==
  [c \in Command |-> IF c \in Bare THEN <<>>
                     ELSE (CHOOSE table \in Tables : c \in DOMAIN table)[c]]

Rules == DOMAIN RuleCommands

(* The objects that outlive the command: "managed separately".               *)
LongLived == Rules \cup {"keybind"}

(* The strings that action_destroy frees before the object itself.           *)
Freed ==
  [c \in Command |->
     IF c \in {"create_workspace", "exec", "cursor_theme"} THEN {1}
     ELSE IF c = "env" THEN {1, 2}
     ELSE IF c = "keymap" THEN {1, 2, 3}
     ELSE {}]

(* The strings that the functions of src/rules.c free before the rule.       *)
RuleFreed ==
  [c \in Rules |-> IF c = "toplevel_rule" THEN {1, 2} ELSE {1}]
=============================================================================
