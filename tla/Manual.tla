-------------------------------- MODULE Manual --------------------------------
(***************************************************************************)
(* The reader of Requests, fed with the lines that comphyctl_commands.txt  *)
(* promises.  The parser was generated from that file (action_parser.c:16) *)
(* and patched since.                                                      *)
(***************************************************************************)
EXTENDS Requests, TLC

VARIABLES
  line,         \* what of the line is still to be written or sent
  refused       \* where the reader gave up: what it wanted there, and what it found

manualVars == <<heap, frames, lists, stage, line, refused>>

(* The notation of the file: one of some words; something in brackets; the   *)
(* rest of a line, which is a command itself.                                *)
One(words) == [part |-> "one", words |-> words]
Maybe(parts) == [part |-> "maybe", parts |-> parts]
Rest == [part |-> "rest"]

AString == One({"bogus"})
AnInt == One({"7"})
AFloat == One({"0.5", "7"})
AColor == One({"#112233", "#11223344"})
OnOff == One({"on", "off"})
ADirection == One({"up", "right", "down", "left"})
Option(name, part) == Maybe(<<One({name}), part>>)

CommandLines ==
  "create_workspace" :> <<Option("--output", AString), AnInt>> @@
  "change_workspace" :> <<AnInt>> @@
  "move_to_workspace" :> <<AnInt>> @@
  "focus" :> <<ADirection>> @@
  "move" :> <<ADirection>> @@
  "exec" :> <<AString>> @@
  "env" :> <<AString, AString>> @@
  [c \in {"close", "exit", "toggle_float", "toggle_fullscreen", "start_move", "start_resize"}
     |-> <<>>]

SettingLines ==
  "repeat_rate" :> <<AnInt, AnInt>> @@
  "keymap" :> <<AString, AString, AString>> @@
  "trackpad_disable_while_typing" :> <<OnOff>> @@
  "trackpad_natural_scroll" :> <<OnOff>> @@
  "trackpad_scroll_method" :> <<One({"none", "two_fingers", "edge", "on_button_down"})>> @@
  "cursor_theme" :> <<AString, AnInt>> @@
  "cursor_hide_after_ms" :> <<AnInt>> @@
  "gaps" :> <<AnInt, AnInt>> @@
  "smart_gaps" :> <<OnOff>> @@
  "border_width" :> <<AnInt>> @@
  "border_color" :> <<AColor, AColor>> @@
  "master_ratio" :> <<Maybe(<<One({"--adjust"})>>), AFloat>> @@
  "client_side_decorations" :> <<OnOff>>

RuleLines ==
  "pointer_rule" :> <<Option("--name", AString), Option("--sensitivity", AFloat),
                      Option("--acceleration", OnOff), Option("--left_handed", OnOff)>> @@
  "toplevel_rule" :> <<Option("--app_id", AString), Option("--title", AString),
                       Option("--state", One({"float", "tiled"})), Option("--width", AnInt),
                       Option("--height", AnInt)>> @@
  "output_rule" :> <<Option("--name", AString), Option("--x", AnInt), Option("--y", AnInt),
                     Option("--width", AnInt), Option("--height", AnInt),
                     Option("--refresh_rate", AnInt), Option("--scale", AFloat)>>

KeybindLine ==
  "create_keybind" :> <<Maybe(<<One({"--even_when_locked"})>>), AString, AString, Rest>>

Lines == CommandLines @@ SettingLines @@ RuleLines @@ KeybindLine

-----------------------------------------------------------------------------
ManualInit ==
  /\ Init
  /\ \E c \in DOMAIN Lines : line = <<One({c})>> \o Lines[c]
  /\ refused = <<>>

(* The writer leaves each part in brackets out or not, and picks the command *)
(* that a key is bound to; one that binds a key in its turn is not tried.    *)
Written(parts) == \A i \in DOMAIN parts : parts[i].part = "one"

Choose ==
  /\ \E i \in DOMAIN line :
       LET before == SubSeq(line, 1, i - 1)
           after == SubSeq(line, i + 1, Len(line)) IN
       /\ Written(before)
       /\ \/ /\ line[i].part = "maybe"
             /\ line' \in {before \o after, before \o line[i].parts \o after}
          \/ /\ line[i].part = "rest"
             /\ \E c \in DOMAIN Lines \ {"create_keybind"} :
                  line' = before \o <<One({c})>> \o Lines[c] \o after
  /\ UNCHANGED <<vars, refused>>

(* Then the line is sent.  The first word that does not fit ends it.         *)
Offered == IF line # <<>> /\ Written(line) THEN Head(line).words ELSE {}

SendUnknown(word) ==
  /\ Ready /\ word \notin Command
  /\ line' = <<>> /\ refused' = <<"command", word>>
  /\ UNCHANGED vars

SendUnfit(word) ==
  /\ RefuseWord(word)
  /\ line' = <<>> /\ refused' = <<Expected.kind, word>>

SendFit(word) ==
  /\ Waiting => ~Unfit(word)
  /\ Take(word)
  /\ line' = Tail(line)
  /\ UNCHANGED refused

SendPastFlag(word) ==
  /\ SkipFlag(word)
  /\ UNCHANGED <<line, refused>>

EndLine ==
  /\ line = <<>>
  /\ End
  /\ refused' = IF frames' = <<>> THEN <<Expected.kind, "">> ELSE refused
  /\ UNCHANGED line

(* handle_request does not look at what is left of the line.                 *)
Perform ==
  /\ Finish
  /\ refused' = IF line = <<>> THEN refused ELSE <<"end", CHOOSE word \in Offered : TRUE>>
  /\ line' = <<>>

ManualNext ==
  \/ Choose
  \/ \E word \in Offered :
       SendUnknown(word) \/ SendUnfit(word) \/ SendFit(word) \/ SendPastFlag(word)
  \/ EndLine
  \/ Perform

ManualSpec == ManualInit /\ [][ManualNext]_manualVars

-----------------------------------------------------------------------------
(* A line that comphyctl_commands.txt allows is taken to its last word: no   *)
(* command, option or value of the file is unknown to action_create, and no  *)
(* word is left over.  (It does not hold: see NoOtherRefusal.)               *)
PromisesAreKept == refused = <<>>

(* Two promises of the file are not kept: action_create binds keys under     *)
(* another name (action_parser.c:1045), and takes a sensitivity from -1 to 1 *)
(* only (action_parser.c:827).  Every other line is taken to its last word.  *)
NoOtherRefusal ==
  refused \in {<<>>, <<"command", "create_keybind">>, <<"sensitivity", "7">>}
=============================================================================
