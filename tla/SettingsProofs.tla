---------------------------- MODULE SettingsProofs ----------------------------
(***************************************************************************)
(* What is proved of Settings for any devices, windows, rules, modes and   *)
(* values.                                                                 *)
(*                                                                         *)
(* Devices and windows agree with the configuration: a command changes the *)
(* configuration and every object in one step, and an object that comes    *)
(* later reads what the last command stored.  What rules and modes come to *)
(* takes an induction over the list that a loop goes through: a set of     *)
(* natural numbers has a least element, and at the least number of passes  *)
(* after which something were wrong it would not be.                       *)
(***************************************************************************)
EXTENDS Settings, RequestsProofs

ConfigShape ==
  config \in [repeat : Rate \cup {None}, keymap : Keymap \cup {None}, csd : BOOLEAN,
              pointer_rules : Seq(DeviceRule), touch : [TouchSetting -> D!Switch \cup {"unset"}]]

KeyboardShape == DOMAIN keyboards = Keyboard
DecorationShape == DOMAIN decorations = Window

Shape == ConfigShape /\ KeyboardShape /\ DecorationShape

(* The variables start in their shape: no command has been sent.             *)
LEMMA ShapeInit == D!Init => Shape
<1> SUFFICES ASSUME D!Init PROVE Shape
  OBVIOUS
<1>1. ConfigShape
  <2>1. <<>> \in Seq(DeviceRule)
    OBVIOUS
  <2> QED BY <2>1 DEF D!Init, ConfigShape
<1>2. KeyboardShape
  BY DEF D!Init, KeyboardShape
<1>3. DecorationShape
  BY DEF D!Init, DecorationShape
<1> QED BY <1>1, <1>2, <1>3 DEF Shape

(* Every command stores a value of the kind its field holds, and no step     *)
(* adds or removes a keyboard or a window from the tables.                   *)
LEMMA ShapeNext == ASSUME Shape, [D!Next]_D!vars PROVE Shape'
<1> USE DEF Shape
<1>1. CASE D!NextKeyboard
  <2>1. ASSUME NEW k \in Keyboard, D!PlugKeyboard(k) \/ D!UnplugKeyboard(k) PROVE Shape'
    BY <2>1 DEF D!PlugKeyboard, D!UnplugKeyboard, ConfigShape, KeyboardShape, DecorationShape
  <2>2. ASSUME NEW r \in Rate, D!RepeatRate(r) PROVE Shape'
    BY <2>2 DEF D!RepeatRate, ConfigShape, KeyboardShape, DecorationShape
  <2>3. ASSUME NEW m \in Keymap, D!SetKeymap(m) PROVE Shape'
    BY <2>3 DEF D!SetKeymap, ConfigShape, KeyboardShape, DecorationShape
  <2> QED BY <1>1, <2>1, <2>2, <2>3 DEF D!NextKeyboard
<1>2. CASE D!NextPointer
  <2>1. ASSUME NEW p \in Pointer, D!PlugPointer(p) \/ D!UnplugPointer(p) PROVE Shape'
    BY <2>1 DEF D!PlugPointer, D!UnplugPointer, ConfigShape, KeyboardShape, DecorationShape
  <2>2. ASSUME NEW rule \in DeviceRule, D!AddPointerRule(rule) PROVE Shape'
    <3>1. Append(config.pointer_rules, rule) \in Seq(DeviceRule)
      BY DEF ConfigShape
    <3>2. ConfigShape'
      BY <2>2, <3>1 DEF D!AddPointerRule, ConfigShape
    <3> QED BY <2>2, <3>2 DEF D!AddPointerRule, KeyboardShape, DecorationShape
  <2>3. ASSUME NEW s \in TouchSetting, NEW value \in D!Switch, D!SetTouch(s, value) PROVE Shape'
    <3>1. [config.touch EXCEPT ![s] = value] \in [TouchSetting -> D!Switch \cup {"unset"}]
      BY DEF ConfigShape
    <3>2. ConfigShape'
      BY <2>3, <3>1 DEF D!SetTouch, ConfigShape
    <3> QED BY <2>3, <3>2 DEF D!SetTouch, KeyboardShape, DecorationShape
  <2> QED BY <1>2, <2>1, <2>2, <2>3 DEF D!NextPointer
<1>3. CASE D!NextDecoration
  <2>1. ASSUME NEW w \in Window, D!InitialCommit(w) \/ D!Decorate(w) \/ D!Close(w) PROVE Shape'
    BY <2>1 DEF D!InitialCommit, D!Decorate, D!Close, ConfigShape, KeyboardShape, DecorationShape
  <2>2. ASSUME NEW csd \in BOOLEAN, D!ClientSideDecorations(csd) PROVE Shape'
    BY <2>2 DEF D!ClientSideDecorations, ConfigShape, KeyboardShape, DecorationShape
  <2> QED BY <1>3, <2>1, <2>2 DEF D!NextDecoration
<1>4. CASE UNCHANGED D!vars
  BY <1>4 DEF D!vars, ConfigShape, KeyboardShape, DecorationShape
<1> QED BY <1>1, <1>2, <1>3, <1>4 DEF D!Next

(* A step of any part is one of the devices, or leaves them alone.           *)
LEMMA DevicesStep ==
  ASSUME [SettingsNext]_settingsVars
  PROVE  [D!Next]_D!vars
<1>1. CASE NextRequest \/ NextLine \/ NextScreen
  BY <1>1 DEF NextRequest, NextLine, NextScreen, deviceVars, D!vars
<1>2. CASE NextKeyboard \/ NextPointer \/ NextDecoration
  BY <1>2 DEF NextKeyboard, NextPointer, NextDecoration, D!Next
<1>3. CASE UNCHANGED settingsVars
  BY <1>3 DEF settingsVars, deviceVars, D!vars
<1> QED BY <1>1, <1>2, <1>3 DEF SettingsNext

-----------------------------------------------------------------------------
(* Keyboards.                                                                *)

(* A step of the pointers or of the decorations keeps what keyboards and     *)
(* their part of the configuration are.                                      *)
LEMMA OthersKeepKeyboards ==
  ASSUME Shape, D!NextPointer \/ D!NextDecoration
  PROVE  /\ keyboards' = keyboards
         /\ config'.repeat = config.repeat
         /\ config'.keymap = config.keymap
<1> USE DEF Shape, ConfigShape
<1>1. CASE D!NextPointer
  BY <1>1 DEF D!NextPointer, D!PlugPointer, D!UnplugPointer, D!AddPointerRule, D!SetTouch
<1>2. CASE D!NextDecoration
  BY <1>2 DEF D!NextDecoration, D!InitialCommit, D!Decorate, D!Close, D!ClientSideDecorations
<1> QED BY <1>1, <1>2

LEMMA KeyboardsNext ==
  ASSUME Shape, KeyboardsAgree, [D!Next]_D!vars
  PROVE  KeyboardsAgree'
<1> USE DEF Shape, KeyboardsAgree, D!KeyboardsAgree, D!Plugged, D!Configured
<1>1. CASE D!NextKeyboard
  <2>1. ASSUME NEW k \in Keyboard, D!PlugKeyboard(k) PROVE KeyboardsAgree'
    BY <2>1 DEF D!PlugKeyboard, KeyboardShape
  <2>2. ASSUME NEW k \in Keyboard, D!UnplugKeyboard(k) PROVE KeyboardsAgree'
    BY <2>2 DEF D!UnplugKeyboard, KeyboardShape
  <2>3. ASSUME NEW r \in Rate, D!RepeatRate(r) PROVE KeyboardsAgree'
    <3>1. config'.repeat = r /\ config'.keymap = config.keymap
      BY <2>3 DEF D!RepeatRate, ConfigShape
    <3>2. ASSUME NEW k \in Keyboard, keyboards[k] # None
          PROVE  keyboards'[k] = D!Configured(r, config.keymap)
      BY <2>3, <3>2 DEF D!RepeatRate, KeyboardShape
    <3> QED BY <2>3, <3>1, <3>2 DEF D!RepeatRate, KeyboardShape
  <2>4. ASSUME NEW m \in Keymap, D!SetKeymap(m) PROVE KeyboardsAgree'
    <3>1. config'.repeat = config.repeat /\ config'.keymap = m
      BY <2>4 DEF D!SetKeymap, ConfigShape
    <3>2. ASSUME NEW k \in Keyboard, keyboards[k] # None
          PROVE  keyboards'[k] = D!Configured(config.repeat, m)
      BY <2>4, <3>2 DEF D!SetKeymap, KeyboardShape
    <3> QED BY <2>4, <3>1, <3>2 DEF D!SetKeymap, KeyboardShape
  <2> QED BY <1>1, <2>1, <2>2, <2>3, <2>4 DEF D!NextKeyboard
<1>2. CASE D!NextPointer \/ D!NextDecoration
  BY <1>2, OthersKeepKeyboards
<1>3. CASE UNCHANGED D!vars
  BY <1>3 DEF D!vars
<1> QED BY <1>1, <1>2, <1>3 DEF D!Next

(* Whenever a keyboard is plugged in and whatever commands come before and   *)
(* after, it repeats and translates keys as the configuration says           *)
(* (keyboard_create; the repeat_rate and keymap commands).                   *)
THEOREM EveryKeyboardAgrees == SettingsSpec => []KeyboardsAgree
<1>1. SettingsInit => Shape /\ KeyboardsAgree
  <2>1. D!Init => KeyboardsAgree
    BY DEF D!Init, KeyboardsAgree, D!KeyboardsAgree, D!Plugged
  <2> QED BY <2>1, ShapeInit DEF SettingsInit
<1>2. Shape /\ KeyboardsAgree /\ [SettingsNext]_settingsVars => Shape' /\ KeyboardsAgree'
  BY DevicesStep, ShapeNext, KeyboardsNext
<1> QED BY <1>1, <1>2, PTL DEF SettingsSpec

-----------------------------------------------------------------------------
(* Decorations.                                                              *)

(* A step of the keyboards or of the pointers keeps what decorations and     *)
(* their part of the configuration are.                                      *)
LEMMA OthersKeepDecorations ==
  ASSUME Shape, D!NextKeyboard \/ D!NextPointer
  PROVE  decorations' = decorations /\ config'.csd = config.csd
<1> USE DEF Shape, ConfigShape
<1>1. CASE D!NextKeyboard
  BY <1>1 DEF D!NextKeyboard, D!PlugKeyboard, D!UnplugKeyboard, D!RepeatRate, D!SetKeymap
<1>2. CASE D!NextPointer
  BY <1>2 DEF D!NextPointer, D!PlugPointer, D!UnplugPointer, D!AddPointerRule, D!SetTouch
<1> QED BY <1>1, <1>2

LEMMA DecorationsNext ==
  ASSUME Shape, DecorationsAgree, [D!Next]_D!vars
  PROVE  DecorationsAgree'
<1> USE DEF Shape, DecorationsAgree, D!DecorationsAgree, D!Wanted
<1>1. CASE D!NextDecoration
  <2>1. ASSUME NEW w \in Window, D!InitialCommit(w) PROVE DecorationsAgree'
    BY <2>1 DEF D!InitialCommit
  <2>2. ASSUME NEW w \in Window, D!Decorate(w) PROVE DecorationsAgree'
    BY <2>2 DEF D!Decorate, DecorationShape
  <2>3. ASSUME NEW w \in Window, D!Close(w) PROVE DecorationsAgree'
    BY <2>3 DEF D!Close, DecorationShape
  <2>4. ASSUME NEW csd \in BOOLEAN, D!ClientSideDecorations(csd) PROVE DecorationsAgree'
    <3>1. config'.csd = csd
      BY <2>4 DEF D!ClientSideDecorations, ConfigShape
    <3> QED BY <2>4, <3>1 DEF D!ClientSideDecorations
  <2> QED BY <1>1, <2>1, <2>2, <2>3, <2>4 DEF D!NextDecoration
<1>2. CASE D!NextKeyboard \/ D!NextPointer
  BY <1>2, OthersKeepDecorations
<1>3. CASE UNCHANGED D!vars
  BY <1>3 DEF D!vars
<1> QED BY <1>1, <1>2, <1>3 DEF D!Next

(* A window is told client-side or server-side decorations as the            *)
(* configuration says, and every window is told again when it changes        *)
(* (handle_new_decoration; the client_side_decorations command).             *)
THEOREM EveryDecorationAgrees == SettingsSpec => []DecorationsAgree
<1>1. SettingsInit => Shape /\ DecorationsAgree
  <2>1. D!Init => DecorationsAgree
    BY DEF D!Init, DecorationsAgree, D!DecorationsAgree
  <2> QED BY <2>1, ShapeInit DEF SettingsInit
<1>2. Shape /\ DecorationsAgree /\ [SettingsNext]_settingsVars => Shape' /\ DecorationsAgree'
  BY DevicesStep, ShapeNext, DecorationsNext
<1> QED BY <1>1, <1>2, PTL DEF SettingsSpec

-----------------------------------------------------------------------------
(* Requests: the owners of RequestsProofs, in the part that reads lines of   *)
(* the manual too.                                                           *)

(* A step of any part is one of the reader, or leaves the heap alone.        *)
LEMMA RequestsStep ==
  ASSUME [SettingsNext]_settingsVars
  PROVE  [Step]_vars
<1>1. CASE NextRequest
  BY <1>1 DEF NextRequest, Next, Step
<1>2. CASE NextLine
  <2>1. ASSUME Choose PROVE UNCHANGED vars
    BY <2>1 DEF Choose
  <2>2. ASSUME NEW word, SendUnknown(word) \/ SendUnfit(word) PROVE [Step]_vars
    BY <2>2 DEF SendUnknown, SendUnfit, Take, Step
  <2>3. ASSUME NEW word, SendFit(word) \/ SendPastFlag(word) PROVE Step
    BY <2>3 DEF SendFit, SendPastFlag, Step
  <2>4. ASSUME EndLine \/ Perform PROVE Step
    BY <2>4 DEF EndLine, Perform, Step
  <2> QED BY <1>2, <2>1, <2>2, <2>3, <2>4 DEF NextLine, ManualNext
<1>3. CASE NextKeyboard \/ NextPointer \/ NextDecoration \/ NextScreen
  BY <1>3 DEF NextKeyboard, NextPointer, NextDecoration, NextScreen, manualVars, vars
<1>4. CASE UNCHANGED settingsVars
  BY <1>4 DEF settingsVars, manualVars, vars
<1> QED BY <1>1, <1>2, <1>3, <1>4 DEF SettingsNext

(* No line of the manual, whatever is chosen in it, leaves a block behind or *)
(* an address that dangles: the reader is the same.                          *)
THEOREM SettingsOwn == SettingsSpec => [](NoDangling /\ NothingIsLost)
<1>1. SettingsInit => IInv
  BY InitOwns DEF SettingsInit, ManualInit
<1>2. IInv /\ [SettingsNext]_settingsVars => IInv'
  BY RequestsStep, StepOwns
<1> QED BY <1>1, <1>2, OwnersKept, PTL DEF SettingsSpec

-----------------------------------------------------------------------------
(* Loops.  A loop over a list is a function of how far it has got; that      *)
(* there is one takes an induction.                                          *)

(* A set of indices that is not empty has a last one.                        *)
LEMMA LastIndex ==
  ASSUME NEW N \in Nat, NEW T \in SUBSET (1..N), T # {}
  PROVE  \E i \in T : \A j \in T : j <= i
<1> DEFINE U == {k \in Nat : \A j \in T : j <= k}
<1>1. N \in U
  OBVIOUS
<1>2. PICK k \in U : \A m \in U : k <= m
  <2> HIDE DEF U
  <2>1. U \in SUBSET Nat
    BY DEF U
  <2> QED BY <1>1, <2>1, LeastNatural
<1>3. k \in T
  <2> SUFFICES ASSUME k \notin T PROVE FALSE
    OBVIOUS
  <2>1. \A j \in T : j \in 1..N /\ j <= k /\ j # k
    OBVIOUS
  <2>2. k # 0
    <3>1. PICK j \in T : TRUE
      OBVIOUS
    <3>2. j \in 1..N /\ j <= k
      BY <2>1
    <3> QED BY <3>2
  <2>3. k - 1 \in Nat /\ \A j \in T : j <= k - 1
    BY <2>1, <2>2
  <2> QED BY <1>2, <2>3
<1> QED BY <1>3

(* The rules are applied one after the other.                                *)
LEMMA RulesApplied ==
  ASSUME NEW list \in Seq(DeviceRule), NEW p
  PROVE  \E after :
           /\ D!FromRules(list, p) = after[Len(list)]
           /\ after[0] = D!Zero
           /\ \A n \in 1..Len(list) : after[n] = D!Override(p, list[n], after[n - 1])
<1> DEFINE Loop(g, n) ==
             g = [i \in 0..n |-> IF i = 0 THEN D!Zero ELSE D!Override(p, list[i], g[i - 1])]
           Ends(n) == \E g : Loop(g, n)
           T == {n \in 0..Len(list) : ~Ends(n)}
<1>1. T = {}
  <2> SUFFICES ASSUME T # {} PROVE FALSE
    OBVIOUS
  <2>1. T \in SUBSET Nat
    OBVIOUS
  <2>2. PICK n \in T : \A m \in T : n <= m
    <3> HIDE DEF T
    <3> QED BY <2>1, LeastNatural
  <2>3. CASE n = 0
    <3>1. Loop([i \in 0..0 |-> D!Zero], 0)
      OBVIOUS
    <3> QED BY <2>2, <2>3, <3>1
  <2>4. CASE n # 0
    <3>1. n - 1 \in 0..Len(list) /\ n - 1 \notin T
      <4>1. n \in 0..Len(list) /\ Len(list) \in Nat
        OBVIOUS
      <4>2. n - 1 \in 0..Len(list) /\ ~(n <= n - 1)
        BY <2>4, <4>1
      <4> HIDE DEF T
      <4> QED BY <2>2, <4>2
    <3>2. PICK g : Loop(g, n - 1)
      BY <3>1
    <3> DEFINE h == [i \in 0..n |-> IF i = n THEN D!Override(p, list[n], g[n - 1]) ELSE g[i]]
    <3>3. ASSUME NEW i \in 0..n
          PROVE  h[i] = IF i = 0 THEN D!Zero ELSE D!Override(p, list[i], h[i - 1])
      <4>1. i # 0 => h[i - 1] = g[i - 1]
        BY <2>2
      <4>2. i # n => i \in 0..(n - 1)
        BY <2>2
      <4> QED BY <2>2, <2>4, <3>2, <4>1, <4>2
    <3>4. Loop(h, n)
      BY <3>3
    <3> QED BY <2>2, <3>4
  <2> QED BY <2>3, <2>4
<1>2. Ends(Len(list))
  BY <1>1
<1>3. PICK g : Loop(g, Len(list)) /\ D!FromRules(list, p) = g[Len(list)]
  BY <1>2 DEF D!FromRules
<1>4. g[0] = D!Zero /\ \A n \in 1..Len(list) : g[n] = D!Override(p, list[n], g[n - 1])
  BY <1>3
<1> QED BY <1>3, <1>4

-----------------------------------------------------------------------------
(* Pointers.                                                                 *)

Setters(list, p, f) == {i \in DOMAIN list : p \in list[i].matches /\ f \in DOMAIN list[i].fields}

(* A field has the value of the last rule that matches and sets it.          *)
LEMMA LastRuleCounts ==
  ASSUME NEW list \in Seq(DeviceRule), NEW p, NEW f \in DOMAIN D!Zero
  PROVE  /\ Setters(list, p, f) = {} => D!FromRules(list, p)[f] = D!Zero[f]
         /\ \A i \in Setters(list, p, f) :
              (\A j \in Setters(list, p, f) : j <= i) => D!FromRules(list, p)[f] = list[i].fields[f]
<1>1. PICK after :
        /\ D!FromRules(list, p) = after[Len(list)]
        /\ after[0] = D!Zero
        /\ \A n \in 1..Len(list) : after[n] = D!Override(p, list[n], after[n - 1])
  BY RulesApplied
<1> DEFINE Places == Setters(list, p, f)
           Right(n) ==
             /\ DOMAIN after[n] = DOMAIN D!Zero
             /\ (\A j \in Places : ~(j <= n)) => after[n][f] = D!Zero[f]
             /\ \A i \in Places : i <= n /\ (\A j \in Places : j <= n => j <= i)
                               => after[n][f] = list[i].fields[f]
           T == {n \in 0..Len(list) : ~Right(n)}
<1>2. Places \subseteq 1..Len(list) /\ Len(list) \in Nat
  BY DEF Setters
<1>3. T = {}
  <2> SUFFICES ASSUME T # {} PROVE FALSE
    OBVIOUS
  <2>1. PICK n \in T : \A m \in T : n <= m
    <3>1. T \in SUBSET Nat
      OBVIOUS
    <3> HIDE DEF T
    <3> QED BY <3>1, LeastNatural
  <2>2. n \in 0..Len(list) /\ ~Right(n)
    OBVIOUS
  <2>3. n # 0
    <3>1. Right(0)
      BY <1>1, <1>2
    <3> HIDE DEF Right
    <3> QED BY <2>2, <3>1
  <2>4. n \in 1..Len(list) /\ n - 1 \in 0..Len(list) /\ ~(n <= n - 1)
    BY <1>2, <2>2, <2>3
  <2>5. Right(n - 1)
    <3> HIDE DEF Right
    <3> QED BY <2>1, <2>4
  <2>6. after[n] = D!Override(p, list[n], after[n - 1])
    BY <1>1, <2>4
  <2>7. DOMAIN after[n] = DOMAIN D!Zero
    BY <2>5, <2>6 DEF D!Override
  <2>8. \A j \in Places : j \in 1..Len(list) /\ (j <= n <=> j <= n - 1 \/ j = n)
    BY <1>2, <2>4
  <2>9. CASE n \in Places
    <3>1. after[n][f] = list[n].fields[f]
      BY <2>5, <2>6, <2>9 DEF D!Override, Setters
    <3>2. \A i \in Places : i <= n /\ (\A j \in Places : j <= n => j <= i) => i = n
      BY <1>2, <2>4, <2>9
    <3> QED BY <2>2, <2>4, <2>7, <2>9, <3>1, <3>2
  <2>10. CASE n \notin Places
    <3>1. after[n][f] = after[n - 1][f]
      <4>1. n \in DOMAIN list
        BY <2>4
      <4> QED BY <2>5, <2>6, <2>10, <4>1 DEF D!Override, Setters
    <3>2. \A j \in Places : j <= n <=> j <= n - 1
      BY <2>8, <2>10
    <3> HIDE DEF Places
    <3> QED BY <2>2, <2>5, <2>7, <3>1, <3>2
  <2> QED BY <2>9, <2>10
<1>4. Right(Len(list))
  BY <1>2, <1>3
<1>5. \A j \in Places : j <= Len(list)
  BY <1>2
<1> QED BY <1>1, <1>4, <1>5

(* A pointer that is plugged in was configured from the rules as they are.   *)
PointersConfigured ==
  /\ DOMAIN pointers = Pointer
  /\ \A p \in Pointer : pointers[p] # None => pointers[p] = D!Pointed(config.pointer_rules, p)

LEMMA PointersNext ==
  ASSUME Shape, PointersConfigured, [D!Next]_D!vars
  PROVE  PointersConfigured'
<1> USE DEF Shape, PointersConfigured
<1>1. CASE D!NextPointer
  <2>1. ASSUME NEW p \in Pointer, D!PlugPointer(p) \/ D!UnplugPointer(p) PROVE PointersConfigured'
    <3>1. config' = config
      BY <2>1 DEF D!PlugPointer, D!UnplugPointer
    <3>2. \/ pointers' = [pointers EXCEPT ![p] = D!Pointed(config.pointer_rules, p)]
          \/ pointers' = [pointers EXCEPT ![p] = None]
      BY <2>1 DEF D!PlugPointer, D!UnplugPointer
    <3>3. \A q : D!Pointed(config.pointer_rules, q)' = D!Pointed(config.pointer_rules, q)
      BY <3>1 DEF D!Pointed
    <3> QED BY <3>1, <3>2
  <2>2. ASSUME NEW rule \in DeviceRule, D!AddPointerRule(rule) PROVE PointersConfigured'
    <3>1. config'.pointer_rules = Append(config.pointer_rules, rule)
      BY <2>2 DEF D!AddPointerRule, ConfigShape
    <3> QED BY <2>2, <3>1 DEF D!AddPointerRule
  <2>3. ASSUME NEW s \in TouchSetting, NEW value \in D!Switch, D!SetTouch(s, value)
        PROVE  PointersConfigured'
    <3>1. config'.pointer_rules = config.pointer_rules
      BY <2>3 DEF D!SetTouch, ConfigShape
    <3> QED BY <2>3, <3>1 DEF D!SetTouch
  <2> QED BY <1>1, <2>1, <2>2, <2>3 DEF D!NextPointer
<1>2. CASE D!NextKeyboard
  <2>1. config'.pointer_rules = config.pointer_rules /\ pointers' = pointers
    BY <1>2 DEF D!NextKeyboard, D!PlugKeyboard, D!UnplugKeyboard, D!RepeatRate, D!SetKeymap,
                ConfigShape
  <2> QED BY <2>1
<1>3. CASE D!NextDecoration
  <2>1. config'.pointer_rules = config.pointer_rules /\ pointers' = pointers
    BY <1>3 DEF D!NextDecoration, D!InitialCommit, D!Decorate, D!Close, D!ClientSideDecorations,
                ConfigShape
  <2> QED BY <2>1
<1>4. CASE UNCHANGED D!vars
  BY <1>4 DEF D!vars
<1> QED BY <1>1, <1>2, <1>3, <1>4 DEF D!Next

LEMMA ConfiguredFollows == ASSUME Shape, PointersConfigured PROVE PointersFollowRules
<1> DEFINE list == config.pointer_rules
<1> SUFFICES ASSUME NEW p \in D!Plugged(pointers), NEW f \in D!Available(p)
             PROVE  pointers[p][f] =
                      IF Setters(list, p, f) = {} THEN D!Zero[f]
                      ELSE list[CHOOSE i \in Setters(list, p, f) :
                                  \A j \in Setters(list, p, f) : j <= i].fields[f]
  BY DEF PointersFollowRules, D!PointersFollowRules, Setters
<1>0. f \in DOMAIN D!Zero /\ p \in Pointer /\ pointers[p] = D!Pointed(list, p)
  BY DEF PointersConfigured, D!Plugged, D!Available
<1>1. pointers[p][f] = D!FromRules(list, p)[f]
  BY <1>0 DEF D!Pointed
<1>2. list \in Seq(DeviceRule) /\ Len(list) \in Nat /\ Setters(list, p, f) \in SUBSET (1..Len(list))
  BY DEF Shape, ConfigShape, Setters
<1> HIDE DEF list
<1>3. CASE Setters(list, p, f) = {}
  BY <1>0, <1>1, <1>2, <1>3, LastRuleCounts
<1>4. CASE Setters(list, p, f) # {}
  <2>1. \E i \in Setters(list, p, f) : \A j \in Setters(list, p, f) : j <= i
    BY <1>2, <1>4, LastIndex
  <2> QED BY <1>0, <1>1, <1>2, <1>4, <2>1, LastRuleCounts
<1> QED BY <1>3, <1>4

(* Every pointer has for each field what the last rule says that matches it  *)
(* and sets the field, whenever it is plugged in and however many rules      *)
(* there are (pointer_configure_from_rules; the pointer_rule command).       *)
THEOREM EveryPointerFollows == SettingsSpec => []PointersFollowRules
<1>1. SettingsInit => Shape /\ PointersConfigured
  <2>1. D!Init => PointersConfigured
    BY DEF D!Init, PointersConfigured
  <2> QED BY <2>1, ShapeInit DEF SettingsInit
<1>2. Shape /\ PointersConfigured /\ [SettingsNext]_settingsVars => Shape' /\ PointersConfigured'
  BY DevicesStep, ShapeNext, PointersNext
<1> QED BY <1>1, <1>2, ConfiguredFollows, PTL DEF SettingsSpec

-----------------------------------------------------------------------------
(* Screens.                                                                  *)

LEMMA ModesAre ==
  ASSUME NEW o \in Output
  PROVE  /\ Modes[o] \in Seq(VideoMode) /\ Len(Modes[o]) \in Nat
         /\ \A i \in 1..Len(Modes[o]) : /\ Modes[o][i] # None /\ Modes[o][i] \in VideoMode
                                        /\ Modes[o][i].refresh \in Nat
<1>1. Modes[o] \in Seq(VideoMode)
  BY ModesOfOutputs
<1>2. \A m \in VideoMode : m # None /\ m.refresh \in Nat
  BY NoneIsNoMode DEF VideoMode
<1> QED BY <1>1, <1>2

(* find_highest_refresh goes through the modes one after the other.          *)
LEMMA ModesCompared ==
  ASSUME NEW o \in Output, NEW wanted
  PROVE  \E best :
           /\ S!FindHighestRefresh(o, wanted) = S!OrPreferred(o, best[Len(Modes[o])])
           /\ best[0] = None
           /\ \A n \in 1..Len(Modes[o]) :
                best[n] = IF S!FasterAndFit(Modes[o][n], wanted, best[n - 1]) THEN Modes[o][n]
                          ELSE best[n - 1]
<1> DEFINE list == Modes[o]
           Loop(g, n) ==
             g = [i \in 0..n |-> IF i = 0 THEN None
                                 ELSE IF S!FasterAndFit(list[i], wanted, g[i - 1]) THEN list[i]
                                 ELSE g[i - 1]]
           Ends(n) == \E g : Loop(g, n)
           T == {n \in 0..Len(list) : ~Ends(n)}
<1>0. Len(list) \in Nat
  BY ModesAre
<1>1. T = {}
  <2> SUFFICES ASSUME T # {} PROVE FALSE
    OBVIOUS
  <2>1. T \in SUBSET Nat
    OBVIOUS
  <2>2. PICK n \in T : \A m \in T : n <= m
    <3> HIDE DEF T
    <3> QED BY <2>1, LeastNatural
  <2>3. CASE n = 0
    <3>1. Loop([i \in 0..0 |-> None], 0)
      OBVIOUS
    <3> QED BY <2>2, <2>3, <3>1
  <2>4. CASE n # 0
    <3>1. n - 1 \in 0..Len(list) /\ n - 1 \notin T
      <4>1. n \in 0..Len(list)
        OBVIOUS
      <4>2. n - 1 \in 0..Len(list) /\ ~(n <= n - 1)
        BY <1>0, <2>4, <4>1
      <4> HIDE DEF T
      <4> QED BY <2>2, <4>2
    <3>2. PICK g : Loop(g, n - 1)
      BY <3>1
    <3> DEFINE h == [i \in 0..n |-> IF i = n THEN IF S!FasterAndFit(list[n], wanted, g[n - 1])
                                                  THEN list[n] ELSE g[n - 1]
                                    ELSE g[i]]
    <3>3. ASSUME NEW i \in 0..n
          PROVE  h[i] = IF i = 0 THEN None
                        ELSE IF S!FasterAndFit(list[i], wanted, h[i - 1]) THEN list[i] ELSE h[i - 1]
      <4>1. i # 0 => h[i - 1] = g[i - 1]
        BY <1>0, <2>2
      <4>2. i # n => i \in 0..(n - 1)
        BY <1>0, <2>2
      <4> QED BY <2>2, <2>4, <3>2, <4>1, <4>2
    <3>4. Loop(h, n)
      BY <3>3
    <3> QED BY <2>2, <3>4
  <2> QED BY <2>3, <2>4
<1>2. Ends(Len(list))
  BY <1>0, <1>1
<1>3. PICK g : Loop(g, Len(list)) /\ S!FindHighestRefresh(o, wanted) = S!OrPreferred(o, g[Len(list)])
  BY <1>2 DEF S!FindHighestRefresh
<1>4. /\ g[0] = None
      /\ \A n \in 1..Len(list) :
           g[n] = IF S!FasterAndFit(list[n], wanted, g[n - 1]) THEN list[n] ELSE g[n - 1]
  <2>1. \A i \in 0..Len(list) :
          g[i] = IF i = 0 THEN None
                 ELSE IF S!FasterAndFit(list[i], wanted, g[i - 1]) THEN list[i] ELSE g[i - 1]
    BY <1>0, <1>3
  <2>2. \A n \in 1..Len(list) : n \in 0..Len(list) /\ n # 0
    BY <1>0
  <2>3. 0 \in 0..Len(list)
    BY <1>0
  <2> HIDE DEF list
  <2> QED BY <2>1, <2>2, <2>3
<1> QED BY <1>3, <1>4

(* What it finds is of the size that is asked for, and no mode of that size  *)
(* is faster.                                                                *)
LEMMA HighestRefresh ==
  ASSUME NEW o \in Output, NEW wanted, S!OfSize(o, wanted) # {}
  PROVE  LET found == S!FindHighestRefresh(o, wanted) IN
         /\ found # None /\ found \in S!OfSize(o, wanted)
         /\ \A m \in S!OfSize(o, wanted) : m.refresh <= found.refresh
<1> DEFINE list == Modes[o]
           Fit(m) == m.width = wanted.width /\ m.height = wanted.height
<1>1. PICK best :
        /\ S!FindHighestRefresh(o, wanted) = S!OrPreferred(o, best[Len(list)])
        /\ best[0] = None
        /\ \A n \in 1..Len(list) :
             best[n] = IF S!FasterAndFit(list[n], wanted, best[n - 1]) THEN list[n] ELSE best[n - 1]
  BY ModesCompared
<1> DEFINE Right(n) ==
             /\ best[n] = None => \A i \in 1..n : ~Fit(list[i])
             /\ best[n] # None =>
                  /\ \E i \in 1..n : best[n] = list[i] /\ Fit(list[i])
                  /\ \A i \in 1..n : Fit(list[i]) => list[i].refresh <= best[n].refresh
           T == {n \in 0..Len(list) : ~Right(n)}
<1>2. /\ Len(list) \in Nat
      /\ \A i \in 1..Len(list) : list[i] # None /\ list[i].refresh \in Nat
  BY ModesAre
<1>3. T = {}
  <2> SUFFICES ASSUME T # {} PROVE FALSE
    OBVIOUS
  <2>1. PICK n \in T : \A m \in T : n <= m
    <3>1. T \in SUBSET Nat
      OBVIOUS
    <3> HIDE DEF T
    <3> QED BY <3>1, LeastNatural
  <2>2. n \in 0..Len(list) /\ ~Right(n)
    OBVIOUS
  <2>3. n # 0
    <3>1. Right(0)
      BY <1>1
    <3> HIDE DEF Right
    <3> QED BY <2>2, <3>1
  <2>4. n \in 1..Len(list) /\ n - 1 \in 0..Len(list) /\ ~(n <= n - 1)
    BY <1>2, <2>2, <2>3
  <2>5. Right(n - 1)
    <3> HIDE DEF Right
    <3> QED BY <2>1, <2>4
  <2>6. best[n] = IF S!FasterAndFit(list[n], wanted, best[n - 1]) THEN list[n] ELSE best[n - 1]
    BY <1>1, <2>4
  <2>7. \A i \in 1..n : i \in 1..Len(list) /\ (i = n \/ i \in 1..(n - 1))
    BY <1>2, <2>4
  <2>8. n \in 1..n /\ \A i \in 1..(n - 1) : i \in 1..n
    BY <2>4
  <2>9. CASE S!FasterAndFit(list[n], wanted, best[n - 1])
    <3>1. best[n] = list[n] /\ list[n] # None /\ Fit(list[n])
      BY <1>2, <2>4, <2>6, <2>9 DEF S!FasterAndFit
    <3>2. ASSUME NEW i \in 1..n, Fit(list[i]) PROVE list[i].refresh <= list[n].refresh
      <4>1. CASE i = n
        BY <1>2, <2>4, <4>1
      <4>2. CASE i \in 1..(n - 1)
        <5>1. best[n - 1] # None
          BY <2>5, <3>2, <4>2
        <5>2. list[n].refresh > best[n - 1].refresh
          BY <2>9, <5>1 DEF S!FasterAndFit
        <5>3. list[i].refresh <= best[n - 1].refresh
          BY <2>5, <3>2, <4>2, <5>1
        <5>4. PICK j \in 1..(n - 1) : best[n - 1] = list[j]
          BY <2>5, <5>1
        <5>5. best[n - 1].refresh \in Nat
          BY <1>2, <2>7, <2>8, <5>4
        <5> QED BY <1>2, <2>4, <2>7, <5>2, <5>3, <5>5
      <4> QED BY <2>7, <4>1, <4>2
    <3> QED BY <2>2, <2>8, <3>1, <3>2
  <2>10. CASE ~S!FasterAndFit(list[n], wanted, best[n - 1])
    <3>1. best[n] = best[n - 1]
      BY <2>6, <2>10
    <3>2. CASE best[n - 1] = None
      <4>1. ~Fit(list[n])
        BY <2>10, <3>2 DEF S!FasterAndFit
      <4> QED BY <2>2, <2>5, <2>7, <3>1, <3>2, <4>1
    <3>3. CASE best[n - 1] # None
      <4>1. PICK j \in 1..(n - 1) : best[n - 1] = list[j] /\ Fit(list[j])
        BY <2>5, <3>3
      <4>2. best[n - 1].refresh \in Nat /\ list[n].refresh \in Nat
        BY <1>2, <2>4, <2>7, <2>8, <4>1
      <4>3. Fit(list[n]) => list[n].refresh <= best[n - 1].refresh
        BY <2>10, <4>2 DEF S!FasterAndFit
      <4> QED BY <2>2, <2>5, <2>7, <2>8, <3>1, <3>3, <4>1, <4>3
    <3> QED BY <3>2, <3>3
  <2> QED BY <2>9, <2>10
<1>4. Right(Len(list))
  <2> HIDE DEF Right
  <2> QED BY <1>2, <1>3
<1>5. S!OfSize(o, wanted) = {list[i] : i \in {j \in 1..Len(list) : Fit(list[j])}}
  BY ModesAre DEF S!OfSize, S!ToSet
<1>6. best[Len(list)] # None
  BY <1>4, <1>5
<1>7. S!FindHighestRefresh(o, wanted) = best[Len(list)]
  BY <1>1, <1>6 DEF S!OrPreferred
<1> QED BY <1>4, <1>5, <1>6, <1>7

(* Fields of one record of screens: what output_configure_from_rules leaves  *)
(* behind for the output it is called for, and for the others.               *)
Snapshot(s) ==
  /\ DOMAIN s = {"mode", "scale", "layout", "place", "area"}
  /\ DOMAIN s.mode = Output /\ DOMAIN s.scale = Output
  /\ DOMAIN s.place = Output /\ DOMAIN s.area = Output

Fitting(s, o) == s.area[o].width = s.mode[o].width \div s.scale[o]

Chosen(s, list, o) ==
  LET wanted == S!Config(list, o) IN
  S!ChosenMode(o, wanted) # None => s.mode[o] = S!ChosenMode(o, wanted)

SameFor(s, t, o) == t.mode[o] = s.mode[o] /\ t.scale[o] = s.scale[o] /\ t.area[o] = s.area[o]

LEMMA AreaUpdated ==
  ASSUME NEW s, Snapshot(s), NEW o \in Output
  PROVE  LET t == S!UpdateArea(s, o) IN
         /\ Snapshot(t) /\ t.mode = s.mode /\ t.scale = s.scale /\ Fitting(t, o)
         /\ \A p \in Output \ {o} : SameFor(s, t, p)
<1> DEFINE t == S!UpdateArea(s, o)
<1>1. PICK new : new.width = s.mode[o].width \div s.scale[o] /\ t = [s EXCEPT !.area[o] = new]
  <2> DEFINE widths == [p \in Output |-> s.mode[p].width \div s.scale[p]]
             xs == [p \in S!ToSet(s.layout) |-> s.place[p]]
             new == [x |-> S!XOf(s.layout, xs, widths, o), width |-> widths[o]]
  <2>1. t = [s EXCEPT !.area[o] = new]
    BY DEF S!UpdateArea
  <2>2. new.width = s.mode[o].width \div s.scale[o]
    OBVIOUS
  <2> HIDE DEF t, new
  <2> QED BY <2>1, <2>2
<1> HIDE DEF t
<1>2. t = [s EXCEPT !.area = [s.area EXCEPT ![o] = new]]
  BY <1>1
<1>3. /\ DOMAIN t = DOMAIN s /\ t.mode = s.mode /\ t.scale = s.scale /\ t.place = s.place
      /\ t.area = [s.area EXCEPT ![o] = new]
  BY <1>2 DEF Snapshot
<1>4. Snapshot(t) /\ Fitting(t, o)
  BY <1>1, <1>3 DEF Snapshot, Fitting
<1>5. \A p \in Output \ {o} : SameFor(s, t, p)
  BY <1>3 DEF Snapshot, SameFor
<1> QED BY <1>3, <1>4, <1>5 DEF t

LEMMA OneConfigured ==
  ASSUME NEW s, Snapshot(s), NEW list, NEW o \in Output
  PROVE  LET t == S!ConfigureFromRules(s, list, o) IN
         /\ Snapshot(t) /\ Fitting(t, o) /\ Chosen(t, list, o)
         /\ \A p \in Output \ {o} : SameFor(s, t, p)
<1> DEFINE t == S!ConfigureFromRules(s, list, o)
           rule == S!Config(list, o)
           chosen == S!Modeset(o, rule, s.mode[o])
           scaled == IF rule.scale > 0 THEN rule.scale ELSE s.scale[o]
           added == IF S!Contains(s.layout, o) THEN s.layout ELSE Append(s.layout, o)
           placed == S!ChosenPlace(rule)
           set == [s EXCEPT !.mode[o] = chosen, !.scale[o] = scaled, !.layout = added,
                            !.place[o] = placed]
<1>1. t = S!UpdateArea(set, o)
  BY Zenon DEF S!ConfigureFromRules
<1> HIDE DEF t, chosen, scaled, added, placed, rule
<1>2. /\ DOMAIN set = DOMAIN s /\ set.area = s.area
      /\ set.mode = [s.mode EXCEPT ![o] = chosen]
      /\ set.scale = [s.scale EXCEPT ![o] = scaled]
      /\ set.place = [s.place EXCEPT ![o] = placed]
  BY <1>1 DEF Snapshot
<1>3. Snapshot(set) /\ set.mode[o] = chosen
  BY <1>2 DEF Snapshot
<1>4. /\ Snapshot(t) /\ t.mode = set.mode /\ Fitting(t, o)
      /\ \A p \in Output \ {o} : SameFor(set, t, p)
  BY <1>1, <1>3, AreaUpdated
<1>5. Chosen(t, list, o)
  BY <1>3, <1>4 DEF Chosen, chosen, rule, S!Modeset
<1>6. \A p \in Output \ {o} : SameFor(s, set, p)
  BY <1>2 DEF Snapshot, SameFor
<1>7. \A p \in Output \ {o} : SameFor(s, t, p)
  BY <1>4, <1>6 DEF SameFor
<1> QED BY <1>4, <1>5, <1>7 DEF t

Pass(after, s, list, order) ==
  /\ after[0] = s
  /\ \A n \in 1..Len(order) : after[n] = S!ConfigureFromRules(after[n - 1], list, order[n])

LEMMA ScreensConfigured ==
  ASSUME NEW s, NEW list, NEW order \in Seq(Output)
  PROVE  \E after : S!ConfigureAll(s, list, order) = after[Len(order)] /\ Pass(after, s, list, order)
<1> DEFINE Loop(g, n) ==
             g = [i \in 0..n |-> IF i = 0 THEN s ELSE S!ConfigureFromRules(g[i - 1], list, order[i])]
           Ends(n) == \E g : Loop(g, n)
           T == {n \in 0..Len(order) : ~Ends(n)}
<1>1. T = {}
  <2> SUFFICES ASSUME T # {} PROVE FALSE
    OBVIOUS
  <2>1. T \in SUBSET Nat
    OBVIOUS
  <2>2. PICK n \in T : \A m \in T : n <= m
    <3> HIDE DEF T
    <3> QED BY <2>1, LeastNatural
  <2>3. CASE n = 0
    <3>1. Loop([i \in 0..0 |-> s], 0)
      OBVIOUS
    <3> QED BY <2>2, <2>3, <3>1
  <2>4. CASE n # 0
    <3>1. n - 1 \in 0..Len(order) /\ n - 1 \notin T
      <4>1. n \in 0..Len(order) /\ Len(order) \in Nat
        OBVIOUS
      <4>2. n - 1 \in 0..Len(order) /\ ~(n <= n - 1)
        BY <2>4, <4>1
      <4> HIDE DEF T
      <4> QED BY <2>2, <4>2
    <3>2. PICK g : Loop(g, n - 1)
      BY <3>1
    <3> DEFINE h == [i \in 0..n |-> IF i = n THEN S!ConfigureFromRules(g[n - 1], list, order[n])
                                    ELSE g[i]]
    <3>3. ASSUME NEW i \in 0..n
          PROVE  h[i] = IF i = 0 THEN s ELSE S!ConfigureFromRules(h[i - 1], list, order[i])
      <4>1. i # 0 => h[i - 1] = g[i - 1]
        BY <2>2
      <4>2. i # n => i \in 0..(n - 1)
        BY <2>2
      <4> QED BY <2>2, <2>4, <3>2, <4>1, <4>2
    <3>4. Loop(h, n)
      BY <3>3
    <3> QED BY <2>2, <3>4
  <2> QED BY <2>3, <2>4
<1>2. Ends(Len(order))
  BY <1>1
<1>3. PICK g : Loop(g, Len(order)) /\ S!ConfigureAll(s, list, order) = g[Len(order)]
  BY <1>2 DEF S!ConfigureAll
<1>4. Pass(g, s, list, order)
  BY <1>3 DEF Pass
<1> QED BY <1>3, <1>4

(* After the loop over the outputs every one of them has its mode and area.  *)
LEMMA AllConfigured ==
  ASSUME NEW s, Snapshot(s), NEW list, NEW order \in Seq(Output)
  PROVE  LET t == S!ConfigureAll(s, list, order) IN
         /\ Snapshot(t)
         /\ \A o \in S!ToSet(order) : Fitting(t, o) /\ Chosen(t, list, o)
<1>1. PICK after :
        S!ConfigureAll(s, list, order) = after[Len(order)] /\ Pass(after, s, list, order)
  BY ScreensConfigured
<1> DEFINE Right(n) ==
             /\ Snapshot(after[n])
             /\ \A i \in 1..n : Fitting(after[n], order[i]) /\ Chosen(after[n], list, order[i])
           T == {n \in 0..Len(order) : ~Right(n)}
<1>2. T = {}
  <2> SUFFICES ASSUME T # {} PROVE FALSE
    OBVIOUS
  <2>1. PICK n \in T : \A m \in T : n <= m
    <3>1. T \in SUBSET Nat
      OBVIOUS
    <3> HIDE DEF T
    <3> QED BY <3>1, LeastNatural
  <2>2. n \in 0..Len(order) /\ ~Right(n) /\ Len(order) \in Nat
    OBVIOUS
  <2>3. n # 0
    <3>1. Right(0)
      BY <1>1 DEF Pass
    <3> HIDE DEF Right
    <3> QED BY <2>2, <3>1
  <2>4. n \in 1..Len(order) /\ n - 1 \in 0..Len(order) /\ ~(n <= n - 1)
    BY <2>2, <2>3
  <2>5. Right(n - 1)
    <3> HIDE DEF Right
    <3> QED BY <2>1, <2>4
  <2>6. /\ order[n] \in Output
        /\ \A i \in 1..n : order[i] \in Output /\ (i = n \/ i \in 1..(n - 1))
    BY <2>4
  <2>7. /\ Snapshot(after[n]) /\ Fitting(after[n], order[n]) /\ Chosen(after[n], list, order[n])
        /\ \A p \in Output \ {order[n]} : SameFor(after[n - 1], after[n], p)
    BY <1>1, <2>4, <2>5, <2>6, OneConfigured DEF Pass
  <2>8. ASSUME NEW i \in 1..n
        PROVE  Fitting(after[n], order[i]) /\ Chosen(after[n], list, order[i])
    <3>1. CASE order[i] = order[n]
      BY <2>7, <3>1
    <3>2. CASE order[i] # order[n]
      BY <2>5, <2>6, <2>7, <3>2 DEF SameFor, Fitting, Chosen
    <3> QED BY <3>1, <3>2
  <2> QED BY <2>2, <2>7, <2>8
<1>3. Right(Len(order))
  <2> HIDE DEF Right
  <2> QED BY <1>2
<1>4. S!ToSet(order) = {order[i] : i \in 1..Len(order)}
  BY DEF S!ToSet
<1> QED BY <1>1, <1>3, <1>4

-----------------------------------------------------------------------------
(* The screens as the program knows them.                                    *)

ScreensShape == outputs \in Seq(Output) /\ byRules \subseteq S!ToSet(outputs) /\ Snapshot(S!Screens)

ScreensKept ==
  /\ ScreensShape
  /\ \A o \in S!ToSet(outputs) : Fitting(S!Screens, o)
  /\ \A o \in byRules : Chosen(S!Screens, rules, o)

LEMMA BecomeIs == ASSUME NEW s, Snapshot(s), S!Become(s)
                  PROVE  /\ Snapshot(S!Screens')
                         /\ \A o : Fitting(S!Screens', o) <=> Fitting(s, o)
                         /\ \A o, list : Chosen(S!Screens', list, o) <=> Chosen(s, list, o)
BY DEF S!Become, S!Screens, Snapshot, Fitting, Chosen

(* A step of any part is one of the screens, or leaves them alone.           *)
LEMMA ScreensStep ==
  ASSUME [SettingsNext]_settingsVars
  PROVE  [S!Next]_S!vars
<1>1. CASE NextRequest \/ NextLine \/ NextKeyboard \/ NextPointer \/ NextDecoration
  BY <1>1 DEF NextRequest, NextLine, NextKeyboard, NextPointer, NextDecoration, screenVars, S!vars
<1>2. CASE NextScreen
  BY <1>2 DEF NextScreen
<1>3. CASE UNCHANGED settingsVars
  BY <1>3 DEF settingsVars, screenVars, S!vars
<1> QED BY <1>1, <1>2, <1>3 DEF SettingsNext

LEMMA ScreensNext ==
  ASSUME ScreensKept, [S!Next]_S!vars
  PROVE  ScreensKept'
<1>0. /\ outputs \in Seq(Output) /\ byRules \subseteq S!ToSet(outputs) /\ Snapshot(S!Screens)
      /\ S!ToSet(outputs) \subseteq Output
  BY DEF ScreensKept, ScreensShape, S!ToSet
<1>1. ASSUME NEW o \in Output, S!OutputCreate(o) PROVE ScreensKept'
  <2> DEFINE t == S!ConfigureFromRules(S!Screens, rules, o)
  <2>1. /\ ~S!Contains(outputs, o) /\ outputs' = <<o>> \o outputs /\ S!Become(t)
        /\ byRules' = byRules \cup {o} /\ rules' = rules
    BY <1>1 DEF S!OutputCreate
  <2>2. /\ Snapshot(t) /\ Fitting(t, o) /\ Chosen(t, rules, o)
        /\ \A p \in Output \ {o} : SameFor(S!Screens, t, p)
    BY <1>0, OneConfigured
  <2> HIDE DEF t
  <2>3. outputs' \in Seq(Output) /\ S!ToSet(outputs') = S!ToSet(outputs) \cup {o}
    <3> DEFINE new == <<o>> \o outputs
    <3>1. /\ new \in Seq(Output) /\ new[1] = o /\ 1 \in DOMAIN new
          /\ DOMAIN new = 1..(Len(outputs) + 1) /\ DOMAIN outputs = 1..Len(outputs)
          /\ Len(outputs) \in Nat
          /\ \A i \in DOMAIN outputs : i + 1 \in DOMAIN new /\ new[i + 1] = outputs[i]
          /\ \A i \in DOMAIN new : i # 1 => i - 1 \in DOMAIN outputs /\ new[i] = outputs[i - 1]
      BY <1>0
    <3> HIDE DEF new
    <3>2. S!ToSet(new) = S!ToSet(outputs) \cup {o}
      BY <3>1 DEF S!ToSet
    <3> QED BY <2>1, <3>1, <3>2 DEF new
  <2>4. \A p \in S!ToSet(outputs) : Fitting(t, p)
    BY <1>0, <2>2 DEF ScreensKept, SameFor, Fitting
  <2>5. \A p \in byRules : Chosen(t, rules, p)
    BY <1>0, <2>2 DEF ScreensKept, SameFor, Chosen
  <2>6. /\ Snapshot(S!Screens')
        /\ \A p : Fitting(S!Screens', p) <=> Fitting(t, p)
        /\ \A p : Chosen(S!Screens', rules, p) <=> Chosen(t, rules, p)
    BY <2>1, <2>2, BecomeIs
  <2> QED BY <1>0, <2>1, <2>2, <2>3, <2>4, <2>5, <2>6 DEF ScreensKept, ScreensShape
<1>2. ASSUME NEW rule, S!AddOutputRule(rule) PROVE ScreensKept'
  <2> DEFINE list == Append(rules, rule)
             t == S!ConfigureAll(S!Screens, list, outputs)
  <2>1. /\ rules' = list /\ S!Become(t) /\ byRules' = S!ToSet(outputs) /\ outputs' = outputs
    BY <1>2 DEF S!AddOutputRule
  <2>2. Snapshot(t) /\ \A o \in S!ToSet(outputs) : Fitting(t, o) /\ Chosen(t, list, o)
    BY <1>0, AllConfigured
  <2> HIDE DEF t, list
  <2>3. /\ Snapshot(S!Screens')
        /\ \A p : Fitting(S!Screens', p) <=> Fitting(t, p)
        /\ \A p : Chosen(S!Screens', list, p) <=> Chosen(t, list, p)
    BY <2>1, <2>2, BecomeIs
  <2> QED BY <1>0, <2>1, <2>2, <2>3 DEF ScreensKept, ScreensShape
<1>3. ASSUME NEW o \in Output, NEW m, S!RequestState(o, m) PROVE ScreensKept'
  <2> DEFINE s == [S!Screens EXCEPT !.mode[o] = m]
             t == S!UpdateArea(s, o)
  <2>1. S!Become(t) /\ byRules' = byRules \ {o} /\ rules' = rules /\ outputs' = outputs
    BY <1>3 DEF S!RequestState
  <2>2. /\ DOMAIN s = DOMAIN S!Screens /\ s.mode = [S!Screens.mode EXCEPT ![o] = m]
        /\ s.scale = S!Screens.scale /\ s.place = S!Screens.place /\ s.area = S!Screens.area
    BY <1>0 DEF Snapshot
  <2> HIDE DEF s
  <2>3. Snapshot(s) /\ \A p \in Output \ {o} : SameFor(S!Screens, s, p)
    BY <1>0, <2>2 DEF Snapshot, SameFor
  <2>4. /\ Snapshot(t) /\ Fitting(t, o)
        /\ \A p \in Output \ {o} : SameFor(s, t, p)
    BY <2>3, AreaUpdated
  <2> HIDE DEF t
  <2>5. \A p \in Output \ {o} : SameFor(S!Screens, t, p)
    BY <2>3, <2>4 DEF SameFor
  <2>6. /\ \A p \in S!ToSet(outputs) : Fitting(t, p)
        /\ \A p \in byRules \ {o} : Chosen(t, rules, p)
    BY <1>0, <2>4, <2>5 DEF ScreensKept, SameFor, Fitting, Chosen
  <2>7. /\ Snapshot(S!Screens')
        /\ \A p : Fitting(S!Screens', p) <=> Fitting(t, p)
        /\ \A p : Chosen(S!Screens', rules, p) <=> Chosen(t, rules, p)
    BY <2>1, <2>4, BecomeIs
  <2> QED BY <1>0, <2>1, <2>6, <2>7 DEF ScreensKept, ScreensShape
<1>4. CASE UNCHANGED S!vars
  BY <1>4 DEF S!vars, ScreensKept, ScreensShape, S!Screens, Fitting, Chosen, Snapshot
<1> QED BY <1>1, <1>2, <1>3, <1>4 DEF S!Next

LEMMA ScreensInit == ASSUME S!Init PROVE ScreensKept
<1>1. outputs = <<>> /\ byRules = {} /\ S!ToSet(outputs) = {}
  BY DEF S!Init, S!ToSet
<1>2. Snapshot(S!Screens)
  BY DEF S!Init, S!Screens, Snapshot
<1> QED BY <1>1, <1>2 DEF ScreensKept, ScreensShape

LEMMA KeptIs == ASSUME ScreensKept PROVE FastestOfTheSize /\ WidthIsRemembered
<1>1. /\ S!Screens.mode = mode /\ S!Screens.scale = scale /\ S!Screens.area = area
      /\ byRules \subseteq Output
  BY DEF ScreensKept, ScreensShape, S!Screens, S!ToSet
<1>2. WidthIsRemembered
  BY <1>1 DEF ScreensKept, Fitting, WidthIsRemembered, S!WidthIsRemembered, S!Width
<1>3. FastestOfTheSize
  <2> SUFFICES ASSUME NEW o \in byRules, NEW wanted, wanted = S!Config(rules, o),
                      S!Asks(wanted), wanted.refresh_rate = 0, S!OfSize(o, wanted) # {}
               PROVE  /\ mode[o] \in S!OfSize(o, wanted)
                      /\ \A m \in S!OfSize(o, wanted) : m.refresh <= mode[o].refresh
    BY DEF FastestOfTheSize, S!FastestOfTheSize
  <2>1. S!ChosenMode(o, wanted) = S!FindHighestRefresh(o, wanted)
    BY DEF S!ChosenMode, S!Asks
  <2>2. S!ChosenMode(o, wanted) # None
    BY <1>1, <2>1, HighestRefresh
  <2>3. mode[o] = S!FindHighestRefresh(o, wanted)
    BY <1>1, <2>1, <2>2 DEF ScreensKept, Chosen
  <2> QED BY <1>1, <2>3, HighestRefresh
<1> QED BY <1>2, <1>3

LEMMA ScreensInvariant == SettingsSpec => []ScreensKept
<1>1. SettingsInit => ScreensKept
  BY ScreensInit DEF SettingsInit
<1>2. ScreensKept /\ [SettingsNext]_settingsVars => ScreensKept'
  BY ScreensStep, ScreensNext
<1> QED BY <1>1, <1>2, PTL DEF SettingsSpec

(* An output whose rules ask for a size alone gets a mode of that size if it *)
(* has one, and none of that size is faster, whatever modes there are        *)
(* (modeset, find_highest_refresh).                                          *)
THEOREM FastestIsChosen == SettingsSpec => []FastestOfTheSize
BY ScreensInvariant, KeptIs, PTL

(* The program lays windows out in the width that the screen has, whatever   *)
(* rules and requests have changed it (update_area).                         *)
THEOREM WidthIsKnown == SettingsSpec => []WidthIsRemembered
BY ScreensInvariant, KeptIs, PTL
=============================================================================
