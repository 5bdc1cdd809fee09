-------------------------------- MODULE Devices --------------------------------
(***************************************************************************)
(* The settings of struct config (include/config.h) and what they are      *)
(* applied to: keyboards, pointers and the decorations of windows.  A      *)
(* command stores its value and applies it to what is there; what comes    *)
(* later is configured when it is created.  Whatever the order, both ways  *)
(* must agree.                                                             *)
(***************************************************************************)
EXTENDS Naturals, Sequences

CONSTANTS
  Keyboard, Pointer, Window,
  Libinput, Trackpad,     \* the pointers that libinput drives, those with a touch surface
  Accelerating,           \* the pointers whose speed and acceleration can be set
  LeftHanding,            \* and those whose buttons can be swapped, as libinput says
  TouchSetting,           \* the settings of trackpads that commands are sent for
  Rate, Keymap,           \* values of repeat_rate and keymap
  BadKeymap,              \* the keymaps that xkbcommon cannot compile
  DeviceRule,            \* the rules that are sent: the pointers whose name matches,
                          \* and the values of the fields that are set
  MaxRules,               \* bound on the length of the list of rules
  None

VARIABLES
  config,        \* struct config
  keyboards,     \* what each keyboard is set to; None if it is not plugged in
  pointers,      \* the same for pointers
  touch,         \* of a trackpad, the four settings of libinput
  committed,     \* the windows whose xdg surface is initialized
  decorations    \* the mode a window was told to use; "untold"; None without the object

vars == <<config, keyboards, pointers, touch, committed, decorations>>

Switch == {"on", "off"}
Mode == {"client", "server"}

(* struct pointer_rule, with the fields that a device gets.                  *)
Zero == [sensitivity |-> 0, acceleration |-> "off", left_handed |-> "off"]

-----------------------------------------------------------------------------
(* config_init.  A touch setting is zero in struct config; "unset" tells     *)
(* that no command has set it.                                               *)
Init ==
  /\ config = [repeat |-> None, keymap |-> None, csd |-> FALSE, pointer_rules |-> <<>>,
               touch |-> [s \in TouchSetting |-> "unset"]]
  /\ keyboards = [k \in Keyboard |-> None]
  /\ pointers = [p \in Pointer |-> None]
  /\ touch = [p \in Pointer |-> [s \in TouchSetting |-> "unset"]]
  /\ committed = {}
  /\ decorations = [w \in Window |-> None]

Plugged(devices) == {d \in DOMAIN devices : devices[d] # None}

(* keyboard_set_repeat_rate and keyboard_set_keymap: a keymap that does not  *)
(* compile is replaced by the default one, None.                             *)
Compiled(keymap) == IF keymap \in BadKeymap THEN None ELSE keymap
Configured(rate, keymap) == [repeat |-> rate, keymap |-> Compiled(keymap)]

(* Mutated form: a keyboard that comes later has the default repeat rate.    *)
PlugKeyboardPlain(k) ==
  /\ keyboards[k] = None
  /\ keyboards' = [keyboards EXCEPT ![k] = Configured(None, config.keymap)]
  /\ UNCHANGED <<config, pointers, touch, committed, decorations>>

(* keyboard_create, handle_destroy.                                          *)
PlugKeyboard(k) ==
  /\ keyboards[k] = None
  /\ keyboards' = [keyboards EXCEPT ![k] = Configured(config.repeat, config.keymap)]
  /\ UNCHANGED <<config, pointers, touch, committed, decorations>>

UnplugKeyboard(k) ==
  /\ keyboards[k] # None
  /\ keyboards' = [keyboards EXCEPT ![k] = None]
  /\ UNCHANGED <<config, pointers, touch, committed, decorations>>

RepeatRate(r) ==
  /\ config' = [config EXCEPT !.repeat = r]
  /\ keyboards' = [k \in Keyboard |->
                     IF keyboards[k] = None THEN None ELSE [keyboards[k] EXCEPT !.repeat = r]]
  /\ UNCHANGED <<pointers, touch, committed, decorations>>

SetKeymap(m) ==
  /\ config' = [config EXCEPT !.keymap = m]
  /\ keyboards' = [k \in Keyboard |->
                     IF keyboards[k] = None THEN None
                     ELSE [keyboards[k] EXCEPT !.keymap = Compiled(m)]]
  /\ UNCHANGED <<pointers, touch, committed, decorations>>

-----------------------------------------------------------------------------
(* create_config: the rules that match, one after the other.                 *)
Override(p, rule, settings) ==
  IF p \notin rule.matches THEN settings
  ELSE [f \in DOMAIN settings |-> IF f \in DOMAIN rule.fields THEN rule.fields[f] ELSE settings[f]]

FromRules(list, p) ==
  LET after[n \in 0..Len(list)] ==
        IF n = 0 THEN Zero ELSE Override(p, list[n], after[n - 1]) IN
  after[Len(list)]

(* pointer_configure_from_rules: only what libinput drives, and of that what *)
(* it says is available.                                                     *)
Available(p) ==
  {f \in DOMAIN Zero : /\ p \in Libinput
                       /\ p \in IF f = "left_handed" THEN LeftHanding ELSE Accelerating}

Pointed(list, p) ==
  LET settings == FromRules(list, p) IN
  [f \in DOMAIN Zero |-> IF f \in Available(p) THEN settings[f] ELSE None]

(* pointer_create, handle_destroy.                                           *)
PlugPointer(p) ==
  /\ pointers[p] = None
  /\ pointers' = [pointers EXCEPT ![p] = Pointed(config.pointer_rules, p)]
  /\ touch' = [touch EXCEPT ![p] = [s \in TouchSetting |-> "unset"]]
  /\ UNCHANGED <<config, keyboards, committed, decorations>>

UnplugPointer(p) ==
  /\ pointers[p] # None
  /\ pointers' = [pointers EXCEPT ![p] = None]
  /\ UNCHANGED <<config, keyboards, touch, committed, decorations>>

(* Mutated form: the new rule alone is applied.                              *)
AddRuleAlone(rule) ==
  /\ Len(config.pointer_rules) < MaxRules
  /\ config' = [config EXCEPT !.pointer_rules = Append(@, rule)]
  /\ pointers' = [p \in Pointer |-> IF pointers[p] = None THEN None ELSE Pointed(<<rule>>, p)]
  /\ UNCHANGED <<keyboards, touch, committed, decorations>>

AddPointerRule(rule) ==
  LET list == Append(config.pointer_rules, rule) IN
  /\ Len(config.pointer_rules) < MaxRules
  /\ config' = [config EXCEPT !.pointer_rules = list]
  /\ pointers' = [p \in Pointer |-> IF pointers[p] = None THEN None ELSE Pointed(list, p)]
  /\ UNCHANGED <<keyboards, touch, committed, decorations>>

(* pointer_if_trackpad_set_dwt, and so on.                                   *)
SetTouch(s, value) ==
  /\ config' = [config EXCEPT !.touch[s] = value]
  /\ touch' = [p \in Pointer |->
                 IF p \in Trackpad /\ pointers[p] # None THEN [touch[p] EXCEPT ![s] = value]
                 ELSE touch[p]]
  /\ UNCHANGED <<keyboards, pointers, committed, decorations>>

-----------------------------------------------------------------------------
(* Decorations.                                                              *)

Wanted == IF config.csd THEN "client" ELSE "server"

InitialCommit(w) ==
  /\ w \notin committed
  /\ committed' = committed \cup {w}
  /\ UNCHANGED <<config, keyboards, pointers, touch, decorations>>

(* handle_new_decoration: before its first commit a window is told nothing.  *)
Decorate(w) ==
  /\ decorations[w] = None
  /\ decorations' = [decorations EXCEPT ![w] = IF w \in committed THEN Wanted ELSE "untold"]
  /\ UNCHANGED <<config, keyboards, pointers, touch, committed>>

(* The object dies with the window at the latest.                            *)
Close(w) ==
  /\ w \in committed
  /\ committed' = committed \ {w}
  /\ decorations' = [decorations EXCEPT ![w] = None]
  /\ UNCHANGED <<config, keyboards, pointers, touch>>

(* Mutated form: windows that are open keep their decorations.               *)
ClientSideLater(csd) ==
  /\ config' = [config EXCEPT !.csd = csd]
  /\ UNCHANGED <<keyboards, pointers, touch, committed, decorations>>

(* client_side_decorations: decoration_update.                               *)
ClientSideDecorations(csd) ==
  /\ config' = [config EXCEPT !.csd = csd]
  /\ decorations' = [w \in Window |->
                       IF decorations[w] = None THEN None
                       ELSE IF csd THEN "client" ELSE "server"]
  /\ UNCHANGED <<keyboards, pointers, touch, committed>>

-----------------------------------------------------------------------------
NextKeyboard ==
  \/ \E k \in Keyboard : PlugKeyboard(k) \/ UnplugKeyboard(k)
  \/ \E r \in Rate : RepeatRate(r)
  \/ \E m \in Keymap : SetKeymap(m)

NextPointer ==
  \/ \E p \in Pointer : PlugPointer(p) \/ UnplugPointer(p)
  \/ \E rule \in DeviceRule : AddPointerRule(rule)
  \/ \E s \in TouchSetting, value \in Switch : SetTouch(s, value)

NextDecoration ==
  \/ \E w \in Window : InitialCommit(w) \/ Decorate(w) \/ Close(w)
  \/ \E csd \in BOOLEAN : ClientSideDecorations(csd)

Next == NextKeyboard \/ NextPointer \/ NextDecoration

Spec == Init /\ [][Next]_vars

-----------------------------------------------------------------------------
(* What must hold.                                                           *)

(* Every keyboard that is plugged in has the rate and the keymap of the      *)
(* configuration, whether it came before the command or after it.            *)
KeyboardsAgree ==
  \A k \in Plugged(keyboards) : keyboards[k] = Configured(config.repeat, config.keymap)

(* Every pointer has for each field that can be set what the last rule says  *)
(* that matches it and sets the field (action.c:578: "so it overrides        *)
(* others").                                                                 *)
PointersFollowRules ==
  \A p \in Plugged(pointers) : \A f \in Available(p) :
    LET setters == {i \in DOMAIN config.pointer_rules :
                      /\ p \in config.pointer_rules[i].matches
                      /\ f \in DOMAIN config.pointer_rules[i].fields} IN
    pointers[p][f] = IF setters = {} THEN Zero[f]
                     ELSE config.pointer_rules[CHOOSE i \in setters : \A j \in setters : j <= i].fields[f]

(* A window that was told a mode was told the one that the configuration     *)
(* asks for now.  (One decorated before its first commit is told nothing     *)
(* until the setting changes.)                                               *)
DecorationsAgree ==
  \A w \in Window : decorations[w] \in {None, "untold", Wanted}
=============================================================================
