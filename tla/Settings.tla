------------------------------- MODULE Settings -------------------------------
(***************************************************************************)
(* Everything a line of the control socket can set: the reader of lines    *)
(* (Requests), the lines of the manual (Manual), input devices and         *)
(* decorations (Devices) and screens (Displays).                           *)
(*                                                                         *)
(* The parts share no state, each command writes fields of struct config   *)
(* that only its own part reads.  So a behaviour is one of one part, and   *)
(* what holds in each holds in all of them together.                       *)
(***************************************************************************)
EXTENDS Manual

CONSTANTS
  Keyboard, Pointer, Window, Libinput, Trackpad, TouchSetting,     \* of Devices
  Accelerating, LeftHanding, Rate, Keymap, BadKeymap, DeviceRule,
  Output, Modes, ScreenRule, BackendMode,                              \* of Displays
  MaxRules                     \* bound on every list of rules

(* A mode of an output, its rate in mHz.                                     *)
VideoMode == [width : Nat, height : Nat, refresh : Nat]

ASSUME PointerKinds ==
  Trackpad \subseteq Libinput /\ Libinput \cup Accelerating \cup LeftHanding \subseteq Pointer
ASSUME TouchSettings ==
  TouchSetting \subseteq {"dwt", "tap_to_click", "natural_scroll", "scroll_method"}
ASSUME BadKeymapsAreKeymaps == BadKeymap \subseteq Keymap
ASSUME ModesOfOutputs == \A o \in Output : Modes[o] \in Seq(VideoMode)
ASSUME BackendModesAreModes == BackendMode \subseteq VideoMode
ASSUME NoneIsNoMode == None \notin VideoMode
ASSUME MaxRulesIsNatural == MaxRules \in Nat

VARIABLES
  config, keyboards, pointers, touch, committed, decorations,      \* of Devices
  rules, outputs, mode, scale, layout, place, area, byRules,       \* of Displays
  part                         \* whose behaviour it is

D == INSTANCE Devices
S == INSTANCE Displays

deviceVars == <<config, keyboards, pointers, touch, committed, decorations>>
screenVars == <<rules, outputs, mode, scale, layout, place, area, byRules>>
settingsVars == <<manualVars, deviceVars, screenVars, part>>

SettingsInit ==
  /\ part \in {"requests", "manual", "keyboards", "pointers", "decorations", "screens"}
  /\ IF part = "manual" THEN ManualInit ELSE Init /\ line = <<>> /\ refused = <<>>
  /\ D!Init
  /\ S!Init

NextRequest == part = "requests" /\ Next /\ UNCHANGED <<line, refused, deviceVars, screenVars, part>>

NextLine == part = "manual" /\ ManualNext /\ UNCHANGED <<deviceVars, screenVars, part>>

NextKeyboard == part = "keyboards" /\ D!NextKeyboard /\ UNCHANGED <<manualVars, screenVars, part>>

NextPointer == part = "pointers" /\ D!NextPointer /\ UNCHANGED <<manualVars, screenVars, part>>

NextDecoration ==
  part = "decorations" /\ D!NextDecoration /\ UNCHANGED <<manualVars, screenVars, part>>

NextScreen == part = "screens" /\ S!Next /\ UNCHANGED <<manualVars, deviceVars, part>>

SettingsNext ==
  \/ NextRequest \/ NextLine
  \/ NextKeyboard \/ NextPointer \/ NextDecoration
  \/ NextScreen

SettingsSpec == SettingsInit /\ [][SettingsNext]_settingsVars

-----------------------------------------------------------------------------
(* The properties of Devices and Displays, under their own names.            *)

(* Every keyboard that is plugged in has the rate and the keymap of the      *)
(* configuration, whether it came before the command or after it.            *)
KeyboardsAgree == D!KeyboardsAgree

(* Every pointer has for each field what the last rule says that matches it. *)
PointersFollowRules == D!PointersFollowRules

(* A window that was told a mode was told the one configured now.            *)
DecorationsAgree == D!DecorationsAgree

(* Rules that ask for a size alone get the fastest mode of that size.        *)
FastestOfTheSize == S!FastestOfTheSize

(* The width in which windows are laid out is the one of the screen.         *)
WidthIsRemembered == S!WidthIsRemembered
=============================================================================
