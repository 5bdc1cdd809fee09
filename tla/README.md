# A verification development for comphy

comphy is a tiling Wayland compositor written in C on top of wlroots. It is one
thread: every piece of its code is a callback of one `wl_event_loop` (a client's
request or commit, an input event, a timer, an idle callback), and every callback
reads and writes one global `struct state`. So there are no data races, and yet
almost everything that is hard in it is concurrency: between two callbacks for
one window any other client may commit, unmap or vanish, the user may press a
key, a monitor may go, and a timer may expire.

This directory models the program in four parts: the *transaction engine* with
the windows that go through it, and what it promises; the arithmetic of the
*layout*; the *desktop* of windows, workspaces, monitors, panels, focus and
grabs; and the *settings*, from the words of a command to the devices it
configures. TLC checks all of it on small instances, and TLAPS proves the main
invariants of each part, and that the engine keeps its promise, for any number of
windows, workspaces, sizes, rules, blocks of memory and whatever else there is.

## 1. Inventory

Paths are relative to the repository; `src/src` holds the C files.

| component | files | state | operations | modelled in |
|---|---|---|---|---|
| transaction engine | `transaction.c` | `struct transaction`: list of toplevels, `dirty_count`, timer, idle callback, ghosts; per toplevel `transaction_state`, `pending`/`current`, snapshot | `add_dirty`, `add_auto`, `add_ready`, `add_ghost`, `schedule`, `commit`; callbacks `idle`, `time_out` | `Transaction`, `Batch` |
| toplevel life cycle | `toplevel.c`, `xdg_shell.c` | `struct toplevel` | `create`, `handle_map/commit/unmap/destroy`, `set_state`, `move_to_workspace`, `focus`, requests of the client | `Toplevels`, `Windows`, `Desktop` |
| layout | `layout.c`, `box_helpers.h` | master and list of slaves of a workspace | `add`, `remove`, `configure`, `reconfigure_all` | `Layout`, `Windows` |
| workspaces | `workspace.c` | lists of windows; which one is active, presented, a dummy | `create`, `destroy` with evacuation, `set_active`, `show_toplevels` | `Focus`, `Desktop`, `Toplevels` |
| action dispatcher | `action.c` | none | 32 kinds of action | `Desktop`, `Toplevels`, `Layout`, `Devices`, `Displays`, `Requests` |
| move and resize | `operation.c` | `operation`, `grabbed_toplevel`, `operation_key`, `operation_server_inited` | start, tick, stop, drop | `Operations`, `Desktop` |
| outputs | `output.c` | modes, areas, workspaces and panels of a monitor | hotplug, rules, `output_focus` | `Displays`, `Focus`, `Desktop` |
| layer shell | `layer.c`, `layer_shell.c` | panels per output, focused layer, `is_exclusive` | map, commit, unmap, destroy, arrange, focus | `Desktop`, `Focus`, `Layout` |
| cursor, pointer | `cursor.c`, `pointer.c` | position, what it is over, device settings | motion, buttons, rules | `Operations`, `Desktop`, `Devices` |
| keyboard, key bindings | `keyboard.c`, `keybind.c` | bindings, the key that ends an operation | press, release, keymap, rate | `Desktop`, `Requests`, `Devices` |
| action parser | `action_parser.c`, `util/parse.h`, `util/shell_parser.h` | objects on the heap | words to actions, freeing | `Commands`, `Requests`, `Manual` |
| control socket | `ctl.c` | the listening socket | accept, read, perform, reply | `Requests` (once it is read) |
| external workspaces | `ext_workspace.c` | protocol handles | activate, create, remove | `Desktop` |
| rules, configuration | `rules.c`, `config.c` | lists of rules, `struct config` | match, override, free | `Requests`, `Devices`, `Displays` |
| decoration, gamma | `decoration.c`, `gamma_control.c` | a mode per window | new object, setting | `Devices` |
| seat | `seat.c` | the drag | request, start, end | `Desktop` |
| scene, views | `scene.c`, `view.c` | trees | hit test | `Operations` |
| popups, session lock, pointer constraints, backend, start-up | one file each | small | small | section 7 |

What makes each correct, and what is hard about it:

* **Transaction engine.** The count of dirty windows must be exact and the list
  complete, whatever leaves by commit, unmap or timeout; exactly one of
  *somebody is waited for* / *the idle callback is armed* holds while there is
  work; nothing is applied before all clients have answered, unless the timer
  fired, and then all of it is; nothing frozen or hidden stays so. Ordering,
  timeouts and stale entries make this hard.
* **Toplevel life cycle.** A surface can be mapped, unmapped, mapped again and
  destroyed while it is waited for, ready, held, or a ghost of an earlier life.
* **Layout.** Boxes inside the usable area, no overlap, no gap; every window
  asked for its box whenever the layout changes.
* **Workspaces, outputs, focus.** Every mapped window is in exactly one list of
  the workspace it points to, on a monitor that is there; the active workspace
  exists and its output agrees; what is visible is the active workspace. The
  functions call each other in circles: `toplevel_focus` activates a workspace,
  `workspace_set_active` focuses an output, `output_focus` focuses a toplevel,
  each with early returns.
* **Operations.** A grabbed window is in no list, and is put back into exactly
  one whoever ends the grab: the button, the key, a command, its own unmap.
* **Layers.** Exclusive focus stays with a layer that is mapped, and no window
  takes the keyboard meanwhile.
* **Parser.** A line is one action or an error; memory is freed once, also when
  the line of a binding fails in the middle of the action it contains; every line
  the manual allows should be accepted.
* **Configuration.** The order of commands and of devices that appear must not
  matter.

`PROJECT.json` lists the hazards behind these sentences one by one, at the line
where each bites, with the properties that would catch it going wrong.

## 2. Plan

| | modules | state |
|---|---|---|
| 1 | `Transaction`, `Toplevels`: the engine and its callers; `ToplevelsProofs` | done |
| 2 | `Layout`, `LayoutProofs` | done |
| 3 | `Batch`, the abstract promise; `BatchRefinement`, the mapping; second part of `ToplevelsProofs`, that every step maps to a step or a stutter | done |
| 4 | `Windows`, `Focus`, `Operations`, `Desktop`: lists, focus, grabs, panels, monitors | done |
| 5 | `Commands`, `Requests`, `Manual`: the parser, its memory, and the manual; `RequestsProofs`, that every block has one owner | done; what becomes of the manual's lines is model-checked only |
| 6 | `Devices`, `Displays`, `Settings`: what commands configure; `SettingsProofs` | done, proved |
| 7 | `DesktopProofs`: types, the end of grabs, the exclusive panel | done |
| 8 | `PlacesProofs`: where windows are (`OnePlace`, `AtHome`, `HeldIsNowhere`) | done |
| 9 | `SpacesProofs`: which workspaces there are (`DummyAlone`) | done |
| 10 | `ActiveProofs`: which of them is active and what is seen (`ActiveAgrees`, `NobodyStranded`, `PresentedIsActive`, `ActiveIsShown`) | done |

`Toplevels` extends `Transaction`; `BatchRefinement` extends `Toplevels` and
instantiates `Batch`; `Operations` extends `Focus`, which extends `Windows`, and
`Desktop` extends `Operations`; `Manual` extends `Requests`, which extends
`Commands`, and `Settings` puts `Manual`, `Devices` and `Displays` side by side.
`Layout` stands alone and says which sizes `Toplevels` draws from `LayoutSize`.

## 3. The model

### `Transaction`: the engine

Each operator is one function of `transaction.c`, written as an action on the
variables the function changes.

| module | code |
|---|---|
| `entries[t]` | how often `t` occurs in `transaction.toplevels`; the order is never used |
| `configure[t]` | `configure_serial` against the serial the client acknowledged: `scheduled` (wlroots will send it from its own idle callback), `sent`, `acked` |
| `time_out`, `schedule` | the two event sources; `time_out` is the number of ticks left, `-1` for `NULL` |
| `requested`, `pending`, `current`, `geometry` | boxes, of which only the size is kept |
| `snapshot[t]` | `snapshot_tree` exists, that is, the content on screen is frozen |
| `shown[t]`, `needs_initial_enable[t]` | the scene tree is enabled; it will be by the first commit |
| `life[t]` | of the xdg surface, and of the memory: `absent`, `created`, `initialized`, `mapped`, `destroyed` (`is_destroyed`) |
| `crashed` | freed memory was used or a link put in two lists; the code has no meaning after it |
| `Submit`, `AddDirty` | `configure` and `transaction_add_dirty`, for all the toplevels of one `layout_configure` at once |
| `AddAuto`, `AddReady`, `AddGhost` | the functions of those names |
| `ScheduleStuff` | `schedule_stuff` |
| `Perform` | `perform_transaction` with `commit`, `remove_ghosts`, `show_workspace`, `remove_time_out` |

`Submit` does several toplevels in one step because the code does them in one
callback and the calls commute: each touches the fields of its own toplevel and
the counter.

### `Toplevels`: the callbacks

One action is one callback, from entry to return, with all it calls: a window's
`Create`, `InitialCommit`, `MapTiled`/`MapFloat`/`MapFloatSized`,
`CommitIgnored`/`CommitReady`/`CommitLast`/`CommitFloat`/`CommitUnmappedFloat`
(the branches of `handle_commit` and `transaction_commit`), `Unmap`, `Destroy`;
the user's `SetState`, `MoveToWorkspace`, `ChangeWorkspace`, `Swap`, `Arrange`,
`GrabFloat`, `ResizeFloat`; the loop's `Idle`, `Tick`, `TimeOut`.

What is abstracted, and in which direction:

* A box is its size, and a layout gives its windows *any* sizes of
  `LayoutSize`, where `NoSize` is a box that is empty because gaps or the ratio
  leave no room. The model has more behaviours than the code.
* The order of slaves is not kept: *any* slave may follow the master. More
  behaviours again. (`Windows` keeps the order.)
* Serials: `configure[t] = "acked"` stands for
  `current.configure_serial >= configure_serial`. Wrap-around of 32 bits is not
  modelled.
* A tiled or fullscreen client draws the size it acknowledged and keeps it; a
  floating one draws what it likes. A client that acknowledges and draws
  something else is covered as far as the engine looks, since it compares no
  sizes of drawn content.
* Of the focus only this is left: unmapping the focused window of a hidden
  workspace may make that workspace active (`ActiveAfterFocus`). Who has the
  focus is a nondeterministic choice; user actions apply to any mapped window.
* Moving and resizing appear as what they do to the transaction (`GrabFloat`,
  `ResizeFloat`). That a grabbed window leaves its list is in `Desktop`.
* One output; a panel that changes the usable area is `Arrange`.
* `malloc` may return the memory of a freed toplevel: a name is used again once
  neither the list nor a link refers to it. A use of freed memory, or a link
  entered in a second list, sets `crashed`, after which only `Halted` is possible.

The loop runs all pending idle callbacks in one iteration and before it waits
again, and dispatches expired timers before the clients' sockets. The model lets
commits of clients happen while idle callbacks are pending, which includes every
order of callbacks within one iteration.

### `Batch` and `BatchRefinement`: what the engine promises

`Batch` knows no states, counters, serials, snapshots or callbacks. Windows join
a batch (`Collect`), those that are asked answer (`Answer`), one may go and leave
its last frame on screen (`Leave`), the deadline passes (`PassDeadline`), and then
the batch is shown: every window that joined gets the size wished for, the frames
of the windows that are gone disappear, and the workspace the user is on is
presented, all in one step (`Apply`). Until then nothing that is `seen` changes.
`Apply` needs a late batch, or at most one window that is still asked, which
answers in that very step (`transaction_commit` of the last dirty window applies
at once).

`BatchRefinement` maps the engine to it: `joined` are the mapped windows the list
has, `asked` the dirty ones, `wish` is `pending`, `screen` is `current` once the
scene tree was enabled, `late` is an expired timer. `AppliesBatches` says that
`Toplevels` implements `Batch` under this mapping. The sense of it: no handler,
in no order, applies half of a batch, applies it early, or changes what is seen
outside of it. `ShownAsAsked` is the abstract invariant seen through the mapping:
a mapped window outside the transaction has on screen what it was last asked for.

### `Layout`: the boxes

`LayoutConfigure` is `layout_configure` as a function of the usable area, the
gaps, the master ratio and the number of windows; `MasterBox` and `SlaveBox` are
its two initialisers, `WithoutGaps` and `WithGaps` the helpers of
`box_helpers.h`. The state is what these depend on and `boxes`, the boxes
requested last; `Add`, `Remove`, `SetGaps`, `SetSmartGaps`, `SetRatio`,
`AdjustRatio` and `LayersArrange` change it as the code does, each with the call
of `layout_configure` that follows.

* `Trunc` is the C division and the conversion from `float`: toward zero, so
  *up* left of the origin, where an output may well be placed.
* The ratio is `ratio / RatioDen`. For a power of two every product of the code
  is exact in a `float` (of the sizes screens have), and the model computes what
  the code computes. For other denominators the code rounds before it truncates,
  which the model leaves out.
* A window is its place in the layout. Which window that is belongs to
  `Windows`.
* `Sane` is what a user is supposed to choose: outer gaps that fit into the area
  and a ratio between 0 and 1. Nothing in the code enforces it, and the model
  reaches states outside of it.

### `Windows`, `Focus`, `Operations`, `Desktop`: the whole desk

The code passes its one `struct state` to every function, and a handler calls
many of them in turn, reading what the one before wrote. So the state of
`Desktop` is one record, `desk`, with the fields of that struct and of what it
points to, and a function of the code is an operator from desk to desk, composed
as the code composes them; an operator that looks at positions, which are left
out, leads to a *set* of desks. One action is one handler.

| field | code |
|---|---|
| `life`, `state`, `prev_state`, `home` | a toplevel: its surface, `state`, `prev_state`, `workspace` |
| `master`, `slaves`, `floats`, `fullscreen` | the layout and the lists of a workspace; the head of a `wl_list` comes first |
| `ghosts` | `transaction.ghosts`; the one `link` of a toplevel is in a list of floats, of slaves, or here |
| `spaces`, `dummy`, `act`, `presented` | `workspaces`, `dummy_workspace`, `active_workspace`, `presented_workspace` of an output |
| `outputs`, `plugged` | `state->outputs`, in which an output stays when it is freed; those that are not |
| `active`, `focused`, `layer`, `exclusive` | `active_workspace`, `focused_toplevel`, `focused_layer`, `is_exclusive` |
| `panel`, `on`, `want`, `panels` | a layer surface, its output, its keyboard interactivity; the high layers of an output |
| `operation`, `grabbed`, `server_inited`, `key`, `icon` | the grab; `operation_key`; whether a drag has an icon |
| `held`, `cursor`, `pointer` | keys and buttons that are down; the output the cursor is on; what it is over |
| `shown`, `fresh`, `due` | enabled scene trees; windows mapped since; a transaction will be performed |
| `kinds`, `windows` | the situation (below); never changed |

`Windows` has the lists and what moves a window from one to another
(`LayoutAdd`, `LayoutRemove`, `SetState`, `MoveToWorkspace`, `Raise`); `Focus`
has `ToplevelFocus`, `LayerFocus`, `OutputFocus`, `SetActive`, which call one
another, and `WorkspaceCreate`, `WorkspaceDestroy`, `Evacuate`;
`Operations` has the grab, `CursorFocus`, `ToggleFloat`, the unmap of a window,
and `Perform`, what is shown at the end of a transaction. The engine itself is
reduced to `due`: when it runs is the question of `Toplevels`, what it shows the
one of `Desktop`. `crashed` says why the program stopped: freed memory was used,
a link was entered in two lists or removed from none, an assertion failed, a loop
does not end. Nothing is said of a desk after that.

**Situations.** All kinds of events at once are out of reach, so a behaviour
begins in a *situation*: the kinds of events that happen, the windows there may
be, the monitors and workspaces at start-up. Everything else (mapping, unmapping,
destruction, transactions) happens in all of them.

| situation | windows, workspaces | what happens |
|---|---|---|
| `Grabs` | 2, 2 | clients ask to be moved and resized, drags with and without an icon, buttons, switches of workspace |
| `Drops` | 3, 1 | grabs by commands, dropped anywhere in a layout whose slaves have an order; focus and swaps in directions |
| `Keys` | 1, 2 | two keys that start grabs, held and released in any order |
| `Desks` | 2, 2 | workspaces are created, destroyed and evacuated, windows follow and float |
| `Remotes` | 1, 2 | the workspace protocol does the same, also while a window is held |
| `Panels` | 2, 1 | two panels with all wishes about the keyboard, fullscreen windows |
| `Monitors` | 1, 3 on 2 outputs | hotplug with a third output |
| `Neighbours` | 2, 1 on each of 2 outputs | focus and windows move between monitors |
| `Mishaps` | 2, 2 | as `Grabs`, but windows may go while the pointer is on them (only in `unmap_grabbed`) |

Restrictions that the properties of the passing run depend on, and why:

* A window under the pointer is not unmapped, except in `Mishaps`. A *held*
  window is under the pointer, and its unmap breaks the lists (section 5).
* No situation moves a fullscreen window to a workspace that has one; the code
  then takes the slot and leaves the other window in no list.
* `AtHome` and `NobodyStranded` speak of situations without grabs: a tiled window
  dropped on another monitor keeps its old `workspace` pointer, and a window that
  is held while its workspace is removed keeps a dangling one.
* `KeyGrabEnds` leaves grabs by commands aside: there is no key to release.
* No situation unplugs an output that has panels: `is_exclusive` outlives the
  panel then, and `ExclusiveKeepsKeyboard` does not hold.
* `LayerUnmap` has no branch for a panel without an output (`layer.c:127`):
  `output_create` enters every output in `wlr_output->data` for good, and an output
  that goes takes its mapped panels along.
* `PresentedIsActive` and `ActiveIsShown` speak of one output: with two, a
  transaction presents only the one that is active when it is performed.

### `Commands`, `Requests`, `Manual`: a line of the control socket

`Commands` is the table behind the branches of `action_create`: which parameters
each command takes from the line, which words each is read as, which may be left
out, which copies a string and into which field, and what each destroy function
frees. `Requests` reads a line by that table, one word per step: `frames` is the
stack of calls of `action_create` (a key binding contains the action it is bound
to), `heap` the blocks that `calloc` and `strdup` returned, `lists` the bindings
and rules. `Finish` is `action_perform` and `action_destroy`, which spares what
was put into a list; `Press` performs the action of a binding; `Deinit` is
`config_deinit`. A word is one of a small set, and read or refused; its
characters, and those of numbers and colours, are left out.

`Manual` feeds the reader with the lines of `comphyctl_commands.txt` as the file
has them: a writer leaves each part in brackets out or not, picks the command a
key is bound to, and sends the line word by word; where the file says *float* the
word is one between 0 and 1 or one above. `refused` is what the parser wanted and
found where it gave up. `PromisesAreKept`, every such line is taken to its last
word, does not hold (run `promises`): the file calls the command `create_keybind`
and the parser `keybind`. `NoOtherRefusal` says which words are refused, and that
there are no others. Bindings written as the parser wants them are among the
lines of `Requests`.

A key bound to a rule is pressed once in `Requests`: the second press would insert
the same link again.

### `Devices`, `Displays`, `Settings`: what commands configure

`Devices`: a command stores its value in `struct config` and applies it to the
keyboards, pointers or decorations that are there; `PlugKeyboard`, `PlugPointer`,
`Decorate` configure what comes later. A trackpad that comes later does not get
the trackpad settings and a decoration made before its window's first commit is
told nothing; the properties leave both out. What libinput says a pointer has
not (`Available`) is not set for it, and the other settings of its rule are.

`Displays`: the rules of an output (`Config`), the mode they choose
(`ChosenMode` with the two comparison functions as they are written; the window of
a nested backend has no modes and keeps the one it has, `Modeset`), the place
`wlr_output_layout` gives (external, on the x axis), and `area`, which the program
remembers. Unplugging is in `Desktop`.

`Settings` is their sum. The parts share no state, each command writes fields that
only its own part reads; so a behaviour is one of one part, and what holds in each
holds in all of them together.

## 4. What is checked

| run | question | instance | states |
|---|---|---|---|
| `engine` | bookkeeping of the engine under all interleavings, with switches and moves against transactions under way | 2 windows, 2 workspaces, 1 size and none, 1 tick | 480 000 |
| `timer` | does every transaction end, and is it a batch | 2 windows, 1 workspace, 1 size and none, 2 ticks, fairness | 291 000 |
| `tiling` | do the boxes tile the area | up to 5 windows, 12 areas | 9 000 |
| `desktop` | lists, focus, grabs, panels, monitors | the eight situations above | 634 000 |
| `settings` | lines, memory, devices and screens | 5 blocks, 18 words; 2 keyboards, 3 pointers, 3 windows, 2 outputs, 3 rules | 98 000 |
| `starvation` | is a hung client given up on | as `timer` | violated |
| `stale_entry` | is a destroyed window out of the list | 2 windows, 1 size | violated |
| `ghost_frame` | does the last frame go with the ghost | 2 windows, 1 size | violated |
| `stale_size` | is the snapshot kept until the content fits | 2 windows, 2 sizes, 3 ticks | violated |
| `last_slave` | does the stack end at the bottom | as `tiling` | violated |
| `unmap_grabbed` | is a ghost in no workspace | `Mishaps` | violated |
| `promises` | is every line of the manual accepted | all lines of the file | violated |

**Of `engine`.** `DirtyCountExact`: `dirty_count` is the number of
dirty windows. `NoStuckTransaction`: while anything waits for a transaction, the
timer runs, and a client is waited for or the idle callback is armed.
`CallbacksConsistent`: idle is armed only with nobody dirty, the timer only for
something to finish, so neither cuts a later transaction short.
`UncleanIsListed`: the assertion in `remove_toplevel` cannot fail.
`DirtyIsMapped`: nobody waits for a window that is gone. `FrozenIsReleased`: a
frozen window is part of the transaction that will thaw it.
`AppliedOnlyWhenAcked`: before the timer gives up, a dirty window stops being
waited for only when its client acknowledged the *latest* request, or it is
unmapped. `PresentedIsShown`: whenever no transaction is under way,
every tiled and fullscreen window of the presented workspace is visible.
Floating windows are excluded, and must be: a floating window moved from a hidden
workspace to the active one joins no transaction and stays hidden until the next
one. With two workspaces a switch may be the work that waits
(`NoStuckTransaction`).

**Of `timer`.** `QuietSettles`: if from some point on nobody restarts the timer,
every transaction ends, though a client may never answer. `AppliesBatches`: the
engine implements `Batch`. `ShownAsAsked`: no request is forgotten.

**Of `tiling`.** In a sane state: `NoOverlap`, no two windows nor the gaps
around them overlap; `WithinSides`, none reaches over the left, right or upper
side of the area the panels leave *now*; `NoGapBelow`, the last slave ends at the
bottom or below it, by less than a pixel per slave. The boxes are compared with
the present area, gaps and number of windows, so a change that forgets to call
`layout_configure` is caught too.

**Of `desktop`.** `OnePlace`: every mapped window that nobody holds is in the one
place its state says, once. `AtHome`: in the workspace it points to.
`HeldIsNowhere`: a held window is in no list, and is held exactly as long as a
move or resize is on. `KeyGrabEnds`: what a key started is over when no key is
down. `ExclusiveKeepsKeyboard`: exclusive focus belongs to a layer that is mapped,
and no window has the keyboard then. `ActiveAgrees`: the active workspace exists
and is the one its output thinks is active; lists of workspaces and their outputs
agree. `DummyAlone`: a dummy workspace serves only while its output has no other.
`NobodyStranded`: after workspaces and monitors went, every window is on a monitor
that is there. `PresentedIsActive`, `ActiveIsShown`: the screen follows the active
workspace.

**Of `settings`.** `NoDangling`: no list, no call in progress and no object holds
the address of a freed block. `NothingIsLost`: every block can still be reached,
whatever word a line fails at. `NoOtherRefusal`: of the manual's lines only those
with `create_keybind` or a sensitivity above 1 are refused, and at that word.
`KeyboardsAgree`,
`PointersFollowRules`, `DecorationsAgree`: the order of commands and devices does
not matter. `FastestOfTheSize`: rules with a size and no rate get the fastest mode
of that size. `WidthIsRemembered`: windows are laid out in the width of the
screen.

**Bounds.** Two windows are enough for one to be waited for while the other
commits, maps, unmaps or is destroyed, for a master and a slave, and for two
occurrences and one removal in the list; the count goes through 0, 1, 2. One
size and none (`NoSize`: gaps and ratio leave no room) are two different requests,
so that a request may be new or ready at once. `TimeOutTicks` (the length of the time-out in ticks) of 1
separates *running* from *expired*; 2 lets a restart happen strictly between;
the counterexample of `stale_size` takes place before the timer expires.
`MaxEntries` bounds how often one window is pushed: 2 is the least that shows
the stale entry, and the bookkeeping has no case for more. The runs with time use
1, since a longer list changes nothing about who ends a transaction.

The areas of `tiling` are 5 or 8 wide and 6, 9 or 11 high, left of the origin and
at it: with 1 to 4 slaves every remainder occurs, with quarters for a ratio (from
-1/4 to 5/4) exact and inexact widths; gaps are -1, 0 and 1.

In `desktop` no counter is bounded; the bounds are the situations. Three windows
make a master and two slaves, so that a drop may come before, between and after;
two panels compete for the keyboard; two keys tell the one that started a grab
from another; three workspaces leave one over to become the dummy; a third output
is plugged in while another goes.

In `settings` five blocks hold a binding, the rule it makes and that rule's
strings; a line that needs a sixth is not read. The words are one of each kind:
flags, options that copy and one that does not, values that fit and one that fits
nowhere. `MaxRules` is 3: two that set a field and one that takes a part back.

**Views and symmetry.** `ControlView` drops `geometry`, `pending`, `current`:
no guard and none of the properties of `engine` reads them, they flow from
request to screen. Of a window that is not mapped it also drops the workspace and
what is shown of it, which `Appear` sets anew, and of its state all but whether it
floated; the properties speak of what a workspace lists. Windows, workspaces, panels
or blocks of memory, are interchangeable where a run says so. Symmetry is used in
safety runs only, and a view only where no property of the run, but for the types,
reads what the view drops.

**Deadlock** is checked in all runs but `settings` and `promises`, where the program
ends (`exit`) and a line of the manual comes to its end.

**Fairness.** Only the runs about time assume any. `WF(Idle)`:
`wl_event_loop_dispatch` runs idle callbacks before it waits. `WF(Tick)`: time
passes. `SF(TimeOut)`: an expired timer is dispatched each time the loop has
waited, even while clients talk all the time; strong because `Idle` callbacks that
are pending disable it for a moment. Nothing is assumed of clients or of the user.

## 5. What the code does that its comments do not say

With a run:

* **`stale_entry`** (`transaction.c:411`). `transaction_add_dirty` pushes a
  toplevel that is `READY`, and so already in the list, once more. Unmapping it
  removes one occurrence; if its client then destroys it before the transaction
  ends, `perform_transaction` frees it, and `remove_ghosts` reads and frees it
  again. In the trace a floating window whose size did not change is tiled,
  unmapped and destroyed within one transaction. `AddAuto` and `AddReady` test
  for `CLEAN` first; `add_dirty` tests for `DIRTY` only.
* **`starvation`** (`transaction.c:333`). Every call of `schedule_stuff` starts
  the timer over, and every commit of a floating window calls it. A floating
  video player keeps a hung tiled window, and so the whole screen layout, waiting
  for ever.
* **`ghost_frame`** (`transaction.c:227`). A window that is unmapped but not
  destroyed keeps its enabled scene tree after the transaction; when it is mapped
  again the pointer to that tree is overwritten.
* **`stale_size`** (`transaction.c:383`). `configure` compares with the size
  *requested* last. A window that has drawn another size since then, because it
  floated, counts as ready at once, and its snapshot is dropped before it has
  drawn the new size.
* **`last_slave`** (`layout.c:83`). A slave begins at `i * height / slave_count`,
  but the last one is as high as what the rounded heights of the others leave. Of
  11 pixels three slaves get 3, 3 and 5 pixels from 0, 3 and 7 on: the last one
  ends a pixel below the area, and there is a pixel's gap above it. The comment
  wants no gap at the bottom; the overlap with a panel there goes unnoticed.
* **`unmap_grabbed`** (`toplevel.c:277`). Unmapping the held window first ends
  the grab, which drops the window into a list of a workspace; then
  `transaction_add_ghost` enters the same link in the list of ghosts. The
  workspace keeps a window that is gone.
* **`promises`** (`action_parser.c:1045`). `comphyctl_commands.txt:37` and
  `keybind.h:23` call the command that binds a key `create_keybind`; the parser
  knows it as `keybind` only, as `examples/example.conf:212` writes it.

In the model, without a run of its own, because no text of the repository promises
otherwise, the model stops there, or another run would only repeat `promises`:
a sensitivity outside -1 to 1 is refused where the manual says *float*; a ghost that is mapped again has its link in
two lists; `toggle_float` during a resize makes the end of the resize fail its
assertion; a floating window that was never fullscreen and whose client asks to
leave fullscreen is tiled; the focus stays on an unmapped window when
`toplevel_focus` returns early; destroying a dummy workspace with a window on it
does not end; an output that is freed stays in `state->outputs`; a move asked for
by a client is not ended by the button, and a drag leaves `operation_server_inited`
of the operation before it; a panel that goes changes the active workspace to the
one of its output; `is_exclusive` outlives the exclusive panel when its output is unplugged; workspaces do not return to an output that comes back;
bindings are not freed at exit, since `config_deinit` walks a list nobody fills; a
rule with a width or a height in common with a mode may choose that mode; the area
of the neighbours of an output that changes its mode is not computed again.

## 6. What is proved

The theorems about `Toplevels` hold for every finite set of windows and every set
of workspaces and sizes, every time-out of at least one tick and every bound on
the list. The assumptions are those of `Transaction`: `FiniteToplevels`,
`NoneIsNobody`, `NoSizeIsNoSize`, `TimeOutTicksPositive`, `MaxEntriesPositive`,
and `LayoutSizeIsSize` of `Toplevels`. Those about `Layout` hold for all areas
and gaps of whole numbers (`AreaType`, `GapType`), all ratios, also those whose
floats are not exact, as fractions (`RatioDenType`, `RatioType`), and every
number of windows (`MaxWindowsType`). Those about `Requests` and `Settings` hold
for any blocks of memory, words, rules, devices and modes. `FastestIsChosen`
assumes that `None` is no mode (`ModesOfOutputs`, `NoneIsNoMode`), the proofs about memory that `None` is no
block (`NoneIsNoBlock`). Those about `Desktop` hold for any windows, workspaces, outputs,
panels and keys and any situations that start with an output on which there is a
workspace, each workspace once (`SituationsAreSituations`); names are not `None`
(`NoneIsNoName`), a window is not a panel (`NoWindowIsAPanel`).

* **`ToplevelsProofs`.** `Invariance`: the inductive invariant `IInv` is the
  conjunction of the types, `DirtyCountExact`, `UncleanIsListed`,
  `CallbacksConsistent`, `NoStuckTransaction` and `DirtyIsMapped`. None of the
  main ones is inductive alone. `UncleanIsListed` keeps `entries` from going
  below zero when `remove_toplevel` takes one out, and makes `Perform` clean
  everybody; the exact count makes the test `dirty_count = 0` in
  `schedule_stuff` mean that nobody is waited for; `DirtyIsMapped` is why
  `Destroy`, which forgets a window's state without touching the counter, keeps
  the count exact. The proof goes operation by operation (`SubmitKeeps`,
  `AddGhostKeeps`, `ScheduleKeeps`, `PerformKeeps`, ...) and then action by
  action. `TypeCorrect`, `CountCorrect`, `ListComplete`, `NeverStuck`,
  `CallbacksCorrect` and `OnlyMappedAreDirty` are its corollaries.
* **`ToplevelsProofs`, second part.** `EngineAppliesBatches`: the refinement. The initial states
  map to an initial state, and each action is, by way of `IInv`, a step of `Batch`
  or a stutter. Most handlers only let the batch grow (`Collects`) or do nothing
  to it (`Stutters`); `Unmap` is a `Leave`, with the windows that take the place
  asked in the same step; a commit answers, or is the last one and applies.
  `Apply` needs that nobody else is asked: the counter is 1 and the committing
  window is dirty, so by the exact count it is the only one; for the idle callback
  it is `CallbacksConsistent`. All of the batch is applied because the list is
  complete (`UncleanIsListed`). `NoRequestForgotten` is the abstract invariant
  `InStep`, carried over.
* **`ToplevelsProofs`, third part.** Seen from one window, every step is of one of three kinds
  (`StepKinds`): it leaves the window marked as it was or marks it; it is the
  window's own answer; or it performs the transaction, and then the timer had
  expired or everybody dirty had acknowledged. The last case is where
  `CallbacksConsistent` (idle) and the exact count (the last commit:
  `TheLastDirty`) are used. `WaitsForAcknowledgement` and
  `FrozenIsAlwaysReleased` follow. For `PresentedIsAlwaysShown` the strengthening
  is `HiddenIsMember`: a listed tiled or fullscreen window of the presented
  workspace that is not visible is in the transaction, and between transactions
  nobody is.
* **`LayoutProofs`.** `Invariance`: the boxes are always those that
  `layout_configure` computes from the present values. The rest is arithmetic,
  lemma by lemma: what truncation does (`Quotient`, `TruncBounds`); that the
  stack begins right of the master and ends inside (`SlavesRightOfMaster`,
  `SlavesEndInside`: what is rounded up where the stack begins is rounded down in
  its width); that a slave ends above the next (`SlavesAboveNext`) and the last
  one less than a pixel per slave below the bottom (`LastSlaveEnd`). `Disjoint`,
  `SidesKept` and `BottomReached` follow.
* **`RequestsProofs`.** `NoDangling` and `NothingIsLost` say two halves of one
  thing and neither is inductive: that nobody holds a freed block does not keep
  two from holding the same one and freeing it twice. The invariant `IInv`
  (`OwnersAlways`) says that every block in use has exactly one owner: it is an
  entry of one list, once; or what one call of the parser, at one depth of the
  calls, is filling; or what an object points to; and that the calls in progress
  form a stack in which each is read for the one below. With it each way out of
  `action_create`, also the one in the middle of the action of a binding, frees
  what the call owned and nobody else's. `NeverDangling` and `NeverLost` follow.
* **`SettingsProofs`.** `EveryKeyboardAgrees`, `EveryDecorationAgrees` and
  `EveryPointerFollows`: the invariants are inductive together with the shape of
  the tables (`Shape`). A step of `Settings` is one of `Devices`, of `Displays` or
  of `Requests` or leaves their variables alone, which also carries the
  theorems about memory over (`SettingsOwn`). The loops over rules and over modes
  are recursive functions on the length of a list; what they compute is shown by
  the first place where it would be wrong (`WFMin` on the natural numbers).
  `FastestIsChosen` needs that what the loop has chosen so far is of the size
  asked for and not slower than what it passed; `WidthIsKnown` that the area
  remembered changes with every mode, whoever asked for it.
* **`DesktopProofs`.** The inductive invariant `Sane` is `Typed`, `KeyHeld` and
  `PanelsStay`. `TypeOK` is not inductive: a record must have no more fields than
  the code's struct; an output that is plugged in must have an active workspace,
  or `workspace_destroy` and `output_focus` would make `None` the active one; a
  workspace must be on an output of the list; a window is grabbed exactly while
  an operation moves or resizes it; and what is in the list of high panels must be
  mapped on that output, since `output_focus` takes the first of them for the
  keyboard. `KeyHeld` is why `KeyGrabEnds` holds: the key that ends the grab
  (`operation_key`) is down as long as it is on, so every release that matters is
  that one. `PanelsStay` is `ExclusiveKeepsKeyboard` where outputs with panels are
  not unplugged; `handle_destroy` of `output.c` looks neither at the focused layer
  nor at `is_exclusive`, so where they are the property does not hold, and the
  theorem says so. The functions of the code call each other, so the proof has
  one lemma for each function (`SetActive`, `OutputFocus`, `ToplevelFocus`,
  `WorkspaceDestroy`, `StopWhatever`, ...: which fields it writes, and that it
  keeps the types) and then one for each handler, which composes them
  (`UnmapStep`, `KeyReleaseStep`, `UnplugStep`, ...: `Stepped`). `TypesAlways`,
  `KeyGrabsEnd` and `ExclusiveKeeps` are the corollaries.
* **`PlacesProofs`.** `NeverLostNorTwice`, `HeldApart` and `AlwaysAtHome`: the
  place of a window is the set of workspaces whose layout, floats and fullscreen
  pointer have it. The invariant `Neat` adds to the three properties what the
  handlers rely on without looking: a window that is not mapped is in no list; a
  layout without a master is empty; the pointer is on a mapped window that is no
  ghost, and on the one that is held; a held window does not fill the screen; no
  ghost that is still shown is mapped; a focused window is mapped where windows
  are sent. Every function is described by what it does to the one window it is about
  (its place before and after) and that every other stays where it is (`Around`),
  so that a handler is their composition: `StateSet`, `MovedToWorkspace`,
  `Started`, `Dropped`, `LeftPlaces`; only the evacuation of a workspace is about
  many (`Evacuated`: the windows poured one by one into the next workspace are
  neither lost nor doubled), and unplugging an output is that for each of its workspaces
  (`AllUnpluggedCalm`). The hypothesis `Ordinary` names the situations in
  which the code does misplace windows, and the theorems leave these out: a
  window that unmaps under the pointer, or with it held, can be listed again; of
  two fullscreen windows sent to one workspace, or left there by an output that
  goes, the pointer keeps one; a tiled window dropped on another workspace does
  not know it, and moving it on takes a link out of the wrong list; and an output
  that goes with the panel that has the keyboard leaves the focus on windows that
  unmap. `Several` says that where outputs are unplugged more than one is in the
  list: the last one frees its workspaces, and not the windows in them. It has to
  hold at the start only, since no output ever leaves the list (`SeveralAlways`).
  Situations with grabs and directions on one workspace, in which no
  window can be misplaced, are left out by `Ordinary` with the others and stay
  with TLC.
* **`SpacesProofs`.** `DummiesAlone` holds in every situation, with outputs
  unplugged and workspaces destroyed in any order. The invariant is `Booked`:
  the lists of workspaces of the outputs and the output each workspace points to
  say the same, each workspace once; an output that is plugged in has one at
  least; and a dummy is alone on its output. The last is not inductive without
  the others: `workspace_destroy` makes a dummy when it finds the list empty but
  for what it destroys, and `workspace_create` frees the dummy it finds. Almost
  every function leaves all of this alone; that is said once for each of them
  (`Goes`: which workspaces there are stays, what becomes active is one of them
  on its own output, and what enters a layout or becomes active leaves a
  transaction due), and every theorem about workspaces uses it.
* **`ActiveProofs`.** `ActiveAlways`, `NobodyIsStranded`, `PresentedAlways` and
  `ShownAlways`: the invariant is `Lively`. `Acting`: the active workspace exists
  and is the active one of its output, and so has every output one of its own.
  `Housed`: the home of every mapped window exists. `UpToDate`: on one monitor
  nothing that is active waits to be presented or shown unless a transaction is
  due. `Acting` needs `Housed`, since focusing a window makes its home active;
  and `Housed` needs that the workspace that is freed is nobody's home when its
  windows have been poured into the next (`EmptierVacant`, from `AtHome`). In
  between `workspace_destroy` focuses windows and outputs while the workspace it
  will free is still in the list; `Away` and its lemmas say that nothing it calls
  leads back to it (`DestroyActing`). An output that is unplugged goes through
  the same for each of its workspaces, and its own active one may be freed long
  before the output is: `Acting` and `Away` except it until its list is empty
  (`AllUnpluggedActing`). One that comes has nothing active, or
  `workspace_create` would keep that (`Blank`). The hypothesis `Settled` is about
  situations in which workspaces or outputs go away only: there windows must be
  at home, so nothing may misplace them or drop them into a workspace they do not
  know, and where outputs go there were `Several`.
  With a tiled window that was dropped on another workspace, destroying the
  one it still points to leaves it stranded, and focusing it then makes a freed
  workspace active. Where neither workspaces nor outputs go away, `ActiveAlways`,
  `NobodyIsStranded` and `PresentedAlways` need no hypothesis, and `ShownAlways`
  only `Ordinary`.

Model-checked only:

* `QuietSettles` and the violation of `DirtyIsTimedOut`: liveness under fairness
  is out of this prover's reach.
* `NoOtherRefusal`: about lines word by word, against a table.
* `OnePlace`, `AtHome` and `HeldIsNowhere` in the situations that are not
  `Ordinary`, and `ActiveAgrees` and `NobodyStranded` in those that are not
  `Settled`: of what the run checks, grabs and directions on one workspace, and
  workspaces removed while a window is held.
* The seven violations. No module uses a recursive operator.

## 7. Not modelled

* **Popups**: unconstraining one is geometry; they take no part in transactions.
* **Session lock, pointer constraints**: mostly commented out in this commit.
* **Gamma control, selections, axis, swipe and pinch events**: one request,
  forwarded to wlroots.
* **Backend and start-up** (`backend.c`, `comphy.c`, `state.c`, `system.c`,
  `color.c`): initialisation, fork and exec, conversions of colours. The state
  they leave behind is `StartUp` of `Desktop` and the `Init` of the others.
* **The socket itself**: `ctl.c` reads once and blocks the loop while it waits; a
  blocked loop is not a state of the models. The client program is I/O.
* **Action dispatcher**: `exec`, `env`, `close`, cursor themes and the timer that
  hides the cursor have no effect on any state modelled here.
* **Characters**: the shell parser, numbers and colours are read or refused as
  wholes; app ids and titles reach the model as *the rules match or not*.
* Positions on a monitor, borders, clips, cursor images and logging: no guard of
  the models reads them.

## 8. Running

`tlc -config Engine.cfg MCToplevels.tla` and so on for each configuration.
`Engine`, `Timer`, `Starvation`, `StaleEntry`, `GhostFrame` and
`StaleSize` belong to `MCToplevels.tla`, `Tiling` and `LastSlave` to
`MCLayout.tla`, `Desktop` and `UnmapGrabbed` to `MCDesktop.tla`, `Settings` to
`MCSettings.tla`, `Promises` to `Manual.tla`. The longest takes three minutes with two workers. `tlapm` checks
`ToplevelsProofs.tla`, `LayoutProofs.tla`, `RequestsProofs.tla`,
`SettingsProofs.tla`, `DesktopProofs.tla`, `SpacesProofs.tla`, `PlacesProofs.tla`
and `ActiveProofs.tla` (one to ten minutes each; each of the last three extends
the one before it).
