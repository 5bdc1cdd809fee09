-------------------------------- MODULE Displays --------------------------------
(***************************************************************************)
(* Outputs as screens: the mode that the rules choose, the place in the    *)
(* layout, and the area that the program remembers (src/output.c).  Only   *)
(* the x axis of the layout is modelled; all outputs stand side by side.   *)
(*                                                                         *)
(* Unplugging is in Desktop: it leaves the freed output in the list, and a *)
(* rule that is added later would read it.                                 *)
(***************************************************************************)
EXTENDS Integers, Sequences, FiniteSets, SequencesExt, Folds

CONSTANTS
  Output,
  Modes,          \* of each output, as the kernel lists them; the preferred one first.
                  \* An output of a nested backend has none.
  ScreenRule,     \* the rules that are sent: the outputs whose name matches, and fields
  BackendMode,        \* the modes that a nested backend may begin with or ask for
  MaxRules,       \* bound on the list of rules
  None

VARIABLES
  rules,          \* config.output_rules
  outputs,        \* state->outputs, the newest first
  mode, scale,    \* of every output that is plugged in
  layout,         \* wlr_output_layout: the outputs in the order they were added
  place,          \* the x a rule gives an output there; None if it is placed automatically
  area,           \* output->full_area: [x, width]
  byRules         \* the outputs whose mode was last set by output_configure_from_rules

vars == <<rules, outputs, mode, scale, layout, place, area, byRules>>

-----------------------------------------------------------------------------
(* wlr_output_layout: outputs without a place stand to the right of those    *)
(* with one, in the order they were added.                                   *)
Width(o) == mode[o].width \div scale[o]

Right(xs, widths) ==
  LET edges == {xs[o] + widths[o] : o \in {p \in DOMAIN xs : xs[p] # None}} IN
  IF edges = {} THEN 0 ELSE CHOOSE e \in edges : \A f \in edges : f <= e

XOf(order, xs, widths, o) ==
  IF xs[o] # None THEN xs[o]
  ELSE LET before == {i \in DOMAIN order : xs[order[i]] = None
                                           /\ \E j \in DOMAIN order : order[j] = o /\ i < j} IN
       MapThenFoldSet(+, Right(xs, widths), LAMBDA i : widths[order[i]],
                      LAMBDA S : CHOOSE i \in S : TRUE, before)

-----------------------------------------------------------------------------
(* create_config: the rules that match, the later ones override.  A field    *)
(* that no rule sets is zero, and for x and y that is remembered.            *)
Zero == [width |-> 0, height |-> 0, refresh_rate |-> 0, scale |-> 0, x |-> None, y |-> None]

Override(o, rule, config) ==
  IF o \notin rule.matches THEN config
  ELSE [f \in DOMAIN config |-> IF f \in DOMAIN rule.fields THEN rule.fields[f] ELSE config[f]]

Config(list, o) ==
  LET after[n \in 0..Len(list)] ==
        IF n = 0 THEN Zero ELSE Override(o, list[n], after[n - 1]) IN
  after[Len(list)]

(* mode_fit_and_better.  The rate of a mode is in mHz.                       *)
Distance(a, b) == IF a > b THEN a - b ELSE b - a

FitAndBetter(m, config, best) ==
  /\ m.width = config.width \/ m.height = config.height
  /\ best = None \/ Distance(m.refresh, config.refresh_rate) < Distance(best.refresh, config.refresh_rate)

(* Mutated form: one of the two lengths is enough.                           *)
FasterAndNear(m, config, best) ==
  /\ m.width = config.width \/ m.height = config.height
  /\ best = None \/ m.refresh > best.refresh

FasterAndFit(m, config, best) ==
  /\ m.width = config.width /\ m.height = config.height
  /\ best = None \/ m.refresh > best.refresh

(* wlr_output_preferred_mode.                                                *)
Preferred(o) == IF Modes[o] = <<>> THEN None ELSE Head(Modes[o])
OrPreferred(o, best) == IF best = None THEN Preferred(o) ELSE best

(* find_mode, find_highest_refresh: the first of the best modes in the list. *)
FindMode(o, config) ==
  LET best[n \in 0..Len(Modes[o])] ==
        IF n = 0 THEN None
        ELSE IF FitAndBetter(Modes[o][n], config, best[n - 1]) THEN Modes[o][n]
        ELSE best[n - 1] IN
  OrPreferred(o, best[Len(Modes[o])])

FindHighestRefresh(o, config) ==
  LET best[n \in 0..Len(Modes[o])] ==
        IF n = 0 THEN None
        ELSE IF FasterAndFit(Modes[o][n], config, best[n - 1]) THEN Modes[o][n]
        ELSE best[n - 1] IN
  OrPreferred(o, best[Len(Modes[o])])

(* modeset: the output without modes keeps the one it has.                   *)
ChosenMode(o, config) ==
  IF config.width = 0 \/ config.height = 0 THEN Preferred(o)
  ELSE IF config.refresh_rate = 0 THEN FindHighestRefresh(o, config)
  ELSE FindMode(o, config)

Modeset(o, config, present) ==
  IF ChosenMode(o, config) = None THEN present ELSE ChosenMode(o, config)

ChosenPlace(config) == IF config.x # None /\ config.y # None THEN config.x ELSE None

-----------------------------------------------------------------------------
(* An output comes with a mode of the backend's choice.                      *)
Init ==
  /\ rules = <<>>
  /\ outputs = <<>>
  /\ mode \in [Output -> BackendMode]
  /\ scale = [o \in Output |-> 1]
  /\ layout = <<>>
  /\ place = [o \in Output |-> None]
  /\ area = [o \in Output |-> [x |-> 0, width |-> 0]]
  /\ byRules = {}

(* What output_configure_from_rules reads and writes, as one record.         *)
Screens == [mode |-> mode, scale |-> scale, layout |-> layout, place |-> place, area |-> area]

Become(s) ==
  /\ mode' = s.mode /\ scale' = s.scale
  /\ layout' = s.layout /\ place' = s.place /\ area' = s.area

(* update_area: the area of this output, from where the layout has it now.   *)
UpdateArea(s, o) ==
  LET widths == [p \in Output |-> s.mode[p].width \div s.scale[p]]
      xs == [p \in ToSet(s.layout) |-> s.place[p]] IN
  [s EXCEPT !.area[o] = [x |-> XOf(s.layout, xs, widths, o), width |-> widths[o]]]

(* modeset, then wlr_output_layout_add or _add_auto, then update_area.       *)
ConfigureFromRules(s, list, o) ==
  LET config == Config(list, o)
      set == [s EXCEPT !.mode[o] = Modeset(o, config, @),
                       !.scale[o] = IF config.scale > 0 THEN config.scale ELSE @,
                       !.layout = IF Contains(@, o) THEN @ ELSE Append(@, o),
                       !.place[o] = ChosenPlace(config)] IN
  UpdateArea(set, o)

(* output_create.                                                            *)
OutputCreate(o) ==
  /\ ~Contains(outputs, o)
  /\ outputs' = <<o>> \o outputs
  /\ Become(ConfigureFromRules(Screens, rules, o))
  /\ byRules' = byRules \cup {o}
  /\ UNCHANGED rules

(* The command output_rule: all outputs, in the order of the list.           *)
ConfigureAll(s, list, order) ==
  LET after[n \in 0..Len(order)] ==
        IF n = 0 THEN s ELSE ConfigureFromRules(after[n - 1], list, order[n]) IN
  after[Len(order)]

AddOutputRule(rule) ==
  /\ Len(rules) < MaxRules
  /\ rules' = Append(rules, rule)
  /\ Become(ConfigureAll(Screens, rules', outputs))
  /\ byRules' = ToSet(outputs)
  /\ UNCHANGED outputs

(* Mutated form: the area is left as it was.                                 *)
RequestStateOnly(o, m) ==
  /\ Contains(outputs, o)
  /\ Become([Screens EXCEPT !.mode[o] = m])
  /\ byRules' = byRules \ {o}
  /\ UNCHANGED <<rules, outputs>>

(* handle_request_state.                                                     *)
RequestState(o, m) ==
  /\ Contains(outputs, o)
  /\ Become(UpdateArea([Screens EXCEPT !.mode[o] = m], o))
  /\ byRules' = byRules \ {o}
  /\ UNCHANGED <<rules, outputs>>

Next ==
  \/ \E o \in Output : OutputCreate(o)
  \/ \E rule \in ScreenRule : AddOutputRule(rule)
  \/ \E o \in Output, m \in BackendMode : RequestState(o, m)

Spec == Init /\ [][Next]_vars

-----------------------------------------------------------------------------
(* What must hold.                                                           *)

OfSize(o, config) ==
  {m \in ToSet(Modes[o]) : m.width = config.width /\ m.height = config.height}

Asks(config) == config.width # 0 /\ config.height # 0

(* Rules that ask for a size but not for a rate get a mode of that size if   *)
(* there is one, and no mode of that size is faster.                         *)
FastestOfTheSize ==
  \A o \in byRules :
    LET config == Config(rules, o) IN
    Asks(config) /\ config.refresh_rate = 0 /\ OfSize(o, config) # {} =>
      /\ mode[o] \in OfSize(o, config)
      /\ \A m \in OfSize(o, config) : m.refresh <= mode[o].refresh

(* The width in which windows are laid out is the one of the screen.         *)
WidthIsRemembered ==
  \A o \in ToSet(outputs) : area[o].width = Width(o)
=============================================================================
