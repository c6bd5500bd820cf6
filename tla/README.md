# A TLA+ model of wiremix-extras

wiremix is a terminal mixer for PipeWire. This directory models the fork
`wiremix-extras`: the thread that talks to PipeWire, the thread that draws and
takes keys, the queues and atomics between them, the file that running instances
share, and the decisions each side takes from what it knows of the other.

Paths below are relative to the repository (`src/app.rs` and so on).

## The system

    PipeWire server
      | registry, proxies, streams (callbacks)
      v
    PipeWire thread (wirehose::session)     --- StateEvent --->  App thread (App::run)
      proxies, stream registry, sync registry                      State, View, ObjectList,
      event fds for garbage and shutdown    <--- Command ---       capture manager, hide state
      process callback  ===== peaks, peaks_dirty (atomics) =====     | meters
                                                                     |  hidden.toml (inotify)
                                                                     v  other instances

| Component | State | Operations | Hard part | What makes it correct |
|---|---|---|---|---|
| Capture manager, `src/app.rs` | `capturable_objects`, `capturing_objects`, `visible_objects`, rotation counters, `hidden_*` | eligibility, start/stop, rotation, scrolling, hide and unhide, reload of the hide file | every route starts and stops under its own conditions; HashSet order; stale sets | caps never exceeded, nothing hidden, gone or off screen captured, everyone sampled |
| Graph mirror, `src/wirehose/state.rs` | nodes, links, devices, metadata | `update` per event, returning capture eligibility | late events of removed objects, id reuse | equals the graph once the channel is drained |
| Stream and proxy registries | streams or proxies, listeners, garbage, event fd | add, remove, `collect_garbage` | nothing may be freed inside a callback; renewal under one id | no orphan, no leak, no listener outlives what it listens to |
| Session, `src/wirehose/session.rs` | sync registry, channel ends, shutdown fd | registry callbacks, done, watches, drop | completion of the dump; a drop at any moment | ready once, after the dump; join returns |
| Commands, `execute.rs`, `stream.rs`, `node.rs`, `device.rs`, `metadata.rs` | proxies | `execute_command`, info and param callbacks | commands and events cross | streams and settings follow the App, and the view follows the server |
| Durable hide state, `src/hidden_state.rs` | `hidden.toml`, its temporary file, matchers in memory | load, save, watch, reload | several instances, crash between write and rename | file never half written; instances converge |
| View, `src/view.rs` | a snapshot of State ordered for display | rebuild; volume, mute, target, default commands | snapshot older than state; limits | commands stay within what keys asked for; limits hold |
| Object list, `src/object_list.rs` | `top`, `selected`, `selected_channel`, dropdown | move, update, `visible_objects`, mouse areas | list changes under selection and scroll position | selection follows its object; the slice never runs past the end |
| Channel pairing and rows, `src/channel_pairing.rs`, `node_widget.rs` | none | `group_channels`, heights, rows | reported positions in any order and number | every channel on one row |
| Peak metering, `src/wirehose/stream.rs`, `node_widget.rs` | atomics | process callback, drawing | a flag set by one thread and cleared by the other | no wake-up lost |
| Frame pacing, input, help, configuration, SPA decoding, tracing | mostly pure | | | |

`PROJECT.json` lists every component with its status, every hazard with its
line, and for each definition of the modules the source lines it stands for.

## Modules

| Module | Models | State |
|---|---|---|
| `PwState` | `State`: nodes and links and the eligibility each update causes | `nodes`, `node`, `links` |
| `Capture` (extends `PwState`) | the capture manager and `App::run` | as in the code; `issued` is the set of commands of the last handler |
| `StreamRegistry` | `StreamRegistry` | maps as sets of entries; `connected` is what the server still has |
| `Pipeline` (extends both) | both threads and their channels, for captures | `eventQ`, `cmdQ`, the server's `graph`, each stream's `target` serial, `peaks`; two history variables about formats and stops |
| `Deferred` | abstract: what is let go of in a callback is parked, and freed by a signalled collection only | `live`, `parked`, `signalled` |
| `ProxyRegistry` | `ProxyRegistry` | maps as sets of entries, two listeners per proxy |
| `Session` (extends `ProxyRegistry`) | spawn, connect, initial dump, binding and removal of globals, shutdown and join | server objects, both message streams, syncs pending, the App's `mirror` |
| `HiddenSync` | load, the five steps of a save, watch, reload, crash and restart of several instances | inodes and their content, what the two names refer to, `pc`, `matchers`, pending notifications |
| `Mixer` | volume, mute, target, default, route and profile, from key to server and back to the screen, with the peak events among them | `server`, `commands`, `events`, `state`, `dirty`, `view`, `screen`, `peaksDirty`; `missed` is history |
| `NodeLayout` | pairing of channels, rows and heights of a node | none |
| `ObjectList` (extends `NodeLayout`) | the lists of the tabs, the order of the view, keys, mouse areas, the reconciling frame | `nodes`, `hidden`, `view`, `lists`, `drawn`, size of the terminal |
| `PeakMeter` | the atomics shared by process callback and meter, one access a step, with the events and frames around them | callback and App program counters, `unread`, `flag`, arrays |
| `MC...` | values and restricted specifications for TLC | |
| `CaptureProofs`, `PipelineProofs`, `StreamRegistryProofs`, `SessionProofs`, `HiddenSyncProofs`, `MixerProofs`, `ObjectListProofs`, `PeakMeterProofs` | theorems | |

How they compose. `Pipeline` is `Capture` on one thread, `StreamRegistry` on the
other, and the channels between them. `Session` is `ProxyRegistry` driven by the
registry callbacks. Both registries implement `Deferred` by a refinement mapping
(`FreedOutsideCallbacks`, once for objects and once for their listeners), checked
with the calls their real callers make and proved for any calls. `HiddenSync` has
the file that `Capture` takes as an input (`HiddenFileChanged`). `PeakMeter` takes
the starting and stopping of streams, which `Pipeline` decides, as free. `Mixer`
and `ObjectList` split a key: what it does to the list is in one, the command it
sends in the other.

Conventions. An action stands for a whole handler with every call it makes; in
`Capture` the loop of `App::run` is two actions, `Refresh` (rebuild the view,
find what is visible, `update_capturing`) and `RenderFrame` or `SkipFrame`
(`rotate_capturing`, or no frame due), between which no event is handled, and
`handle_events` is any number of event actions between two iterations. A frame is
drawn only if one was asked for (`needsRender`): by an event that affects an object
on the screen, a hide or a reload, a changed set of visible objects, or whatever else
(`AskForFrame`: other keys, a resize, a cycling label). In
`ObjectList` that half of the loop is the one action `Frame`. A loop
over a HashSet that calls `start_capture` is the choice of a set `Admit`
allows: any maximal set of starts under the caps, which is what the arbitrary
order of iteration can produce. A `CaptureEligibility` is a value computed next
to the update. A media class, a name, a channel layout are model values; a
matcher is the name it matches; `frames_since_rotation` saturates at the
interval, beyond which the code does not tell its values apart. Volumes are
integers in steps of the cube root the code adds to; whether a peak has been
loaded is all that is kept of it.

Operators named as mutants in a comment (`AtCapOffByOne`, `UpdateUnclamped`,
...) are plausible bugs of the definition that follows them. Nothing uses them
but the mutation runs `PROJECT.json` lists, one per checked property, in which
the property must fail.

External parts. The server gives a free id to a new object with the next serial;
an `object.serial` is never reused. It serves a connection in order, refuses a
bind whose object is gone by removing the proxy, and tells every bound proxy of a
removal. A format may come for any registered stream at any moment, once or again:
`capture_node` connects with AUTOCONNECT, so a stream whose target has gone, or was
never there when it connected, may be linked to something else, and nothing says that
what was stopped before has been collected by then. `capture_node` may fail. In
`Mixer` a card that changes profile removes its sink and brings it back under its id,
and reports profile and route in either order. The file system of `HiddenSync` has inodes, names and offsets: `open` truncates what the name holds,
`rename` moves the name only.

Atomics. All accesses in `src/wirehose/stream.rs` and the meters are `Relaxed`.
`PeakMeter` takes them to be seen in program order, as they are on the processors
where this is mostly run; weaker memory is outside the model. A meter is drawn in one
piece or in rows (a channel or a pair each, taken in the order of the array), and each
row ends with the store that clears the flag.

## Runs

Passing:

- `capture_rotation`: three streams, cap of two, rotation under the fairness
  below, nobody hides. `CapNeverExceeded`, `CapturesAreEligible`, and the
  rotation's two promises: `RotationIsStaggered` (a tick moves the window by one
  place, and stops and starts at most one capture) and `RotationSamplesAll`
  (while more nodes stay eligible than the cap, each is captured again and
  again). The second has the premise that frames are asked for again and again:
  `rotate_capturing` is called for a drawn frame only, and nothing makes one be drawn
  while what is on the screen is at rest (`finding_stall`). One node is on the screen or
  none.
- `capture_global`: lazy capture, global cap of one, a foreign or own capture
  node on the graph, hides of both kinds. `GlobalCapHasNoSelfLag`,
  `LazyCapturesVisible`, `HiddenInstanceNotCaptured`.
- `capture_uncapped`: a sink that is captured only while linked, a stream that
  gets its serial late, format changes, scrolling, hides of both kinds and reloads
  of the hide file, with hidden items not captured. `NothingLeftOut`: without a
  cap, whatever order the reasons to capture come in, none is missed. It supposes a
  server that is `Steady`: a node keeps its media class, a sink comes with its serial
  and keeps its name, and no two nodes share a name. The last is the hazard at
  `src/app.rs` 1214: a durable hide or its end concerns all nodes of a name, but the
  handler starts or stops only the selected one.
- `pipeline`: one id, two owners in turn, restarts by format changes, stops and
  resumptions by reloads of the hide file, failing captures, formats for any registered
  stream at any time, two messages in flight each way. Whenever nothing is in flight the
  App mirrors the graph and has nothing left of a node that went (`MirrorAtRest`), the
  streams are what the App believes, each taps the present owner of its id, and
  only captured nodes have meters; no stream is orphaned, and the registry
  implements `Deferred` with the calls its real callers make. A late format does bring
  an id back into `State::nodes` (`finding_ghost`); `MirrorAtRest` says that the entry
  has no properties, so that nothing shows it, captures it or counts it.
  `MeterFollowsStream`: once the events are handled, a registered stream whose format
  came feeds the meter of its node, whatever was evicted, stopped and collected before.
  It speaks of formats that come when no stopped stream of that id awaits its collection
  (`owed` and `fed` record it). That in the program no other comes is plausible, as
  negotiating takes round trips and the collection is due at once, but no code makes
  it so; `MeterFollowsEveryFormat`, the same of all formats, is refuted in the model.
- `pipeline_cap`: two ids, cap of one, rotation: `StreamsWithinCap`, on the
  real streams rather than the App's set.
- `pipeline_live`: channels of one message. `GoneIsReleased`.
- `hidden_sync`: two instances toggle one name, save in steps that interleave,
  fail, crash and restart. `InstancesAgree` (quiet instances show what the file
  says), `AloneNeverHalfWritten`, and `SettlesDown`: a reload never answers a
  change with another, so the notification an instance gets of its own save does
  not echo.
- `session`: a client and a node or an unmonitored object that reuses its id, in
  the dump and after it. `ReadyAfterInitial`, `EventuallyReady`, `JoinReturns`
  (dropped while connecting, in the dump, in a collection or after the end),
  `SessionMirrors` and `KnownAreHeard` (once nothing is in flight the App knows
  the monitored objects, each with its proxy and both listeners),
  `ListenersHaveProxies` and the refinement of `Deferred`.
- `ui`: two objects, one of three channels of which the outer two pair up (right
  first), a second, empty tab, terminals of 8 and 13 rows, two events between
  frames. `SliceInBounds`, `SelectionFollowsObject`, `UniformOnScreen`,
  `UpUndoesDown`, `RowsCoverChannels`.
- `mixer`: a stereo stream with one channel at zero, a card with two routes in
  one profile, a sink without routes in another, none in the third; up to two keys, one
  act of another client and one peak event, three in all, under any delay.
  `ViewAtRest`, `ScreenAtRest`, `StepsWithinKeys`, `MaxRespected`, `ChosenTargetKept`.
  A peak event handled after another event of its batch cancels the rebuild that one
  needs (`finding_staleview`), and it stays cancelled until an event comes that is not a
  peak event; if that event affects nothing on the screen, the view is then right and
  the screen still is not. `missed` records either. So the view is claimed right at
  rest but for such a rebuild, and what would be shown if one were built now is claimed
  right without exception: nothing is lost from `State`, only from what is drawn of it.
- `peaks`: two channels, two arrays, streams stopping and restarting, the node
  leaving and re-entering the screen. `QuietShowsLast` and `MeterKeepsUp`.
  Deadlock is checked here.

Violation:

- `finding_staleview`: `state_dirty` is overwritten by the next event of a
  batch; a peak notification cancels a rebuild.

The other disagreements between the code and its text are listed under
"findings" with quotations. Those with a formal statement can be reproduced:
run the module with the `finding_*.cfg` named in the finding (`tlc -config
finding_scroll.cfg MCCapture`, and so on). Their statements stand at the end of
their modules, after the properties that hold: `RotationNeverStalls`,
`EveryEligibleSampled`, `VisibleNodesCaptured`, `HiddenPermanentNotCaptured`
(`Capture`), `MetersHoldWhileEligible`, `NothingLeftOfGone` (`Pipeline`), `NeverLeftHalfWritten` (`HiddenSync`),
`CursorOnlyInChannels` (`ObjectList`), `TargetOnScreen` (`Mixer`); but for
`finding_kinds`, which is `SessionMirrors` with an id used for a node and a link. `LastPeaksShown`
(`PeakMeter`) is what `QuietShowsLast` would be without its exception: a callback
that finds the flag set by the drawing that is just reading sends no wake-up, so
the buffer it stored waits for the next one. With buffers coming it is
repaired within a buffer, which is why it is a hazard and no finding.
`MeterFollowsEveryFormat` (`Pipeline`, `finding_earlyformat.cfg`) is no finding either:
its counterexample needs a format sooner than the main loop lets one come.

Bounds. Each is a CONSTANT or a definition of the MC module.

- *Capture.* Three nodes and a cap of two are the least where the rotation's window
  is more than one place wide and wraps while it leaves something out. Two names
  plus the capture name tell apart what matchers and filters do. One link makes a
  sink gain and lose its only input.
- *Pipeline.* Two serials on one id are one reuse; a third owner meets the same
  leftovers as the second. Two messages in each channel are enough for a start, a
  stop and a removal to overtake one another in every order, as each crossing
  involves at most a pair in one direction and a pair in the other. Three streams
  are one registered, one parked, and one to start or held by a meter or an event;
  with four, `pipeline` does not end in reasonable time. `pipeline_live` has channels of
  one message for the same reason. `CrossingSpec` keeps the App in
  the state before it is ready, where it handles events, commands and hide-file
  reloads but does not scroll or rotate; `RotatingSpec` is the complement without
  hiding, formats and channel layouts; `RotationSpec` is `Capture` without hiding.
- *HiddenSync.* Two instances are what a race needs; a third inode is free while
  the file and an open writer hold two. Two unhandled notifications (`MaxPending`)
  have the same effect as one, since a reload reads the file as it is then. One
  name suffices for lists of different length; two are used for the finding.
- *Session.* One id is reused once (`MaxObjects` 2 counts objects added after the
  dump), by a kind that is monitored or not; four proxies leave one free while an
  evicted one awaits collection. No id is used for two monitored kinds, without which
  `SessionMirrors` fails (`finding_kinds`).
- *ObjectList.* Two events between frames (`MaxBatch`) let each event act on a view
  and on mouse areas that an earlier one has made stale. Two objects of different
  height and two terminal heights make the list scroll, shrink below its viewport
  and fit again. The lists of the code differ only in what they contain.
- *Mixer.* `MaxKeys` 2, `MaxOthers` 1, `MaxPeaks` 1, and `MaxActs` 3 of all these: two
  steps taken from one old view, and something that changes between them; or an act,
  the peak event that hides it from the view, and another act that may bring it back.
  `MaxActs` is what makes the run feasible; the proofs know no bound. The two routes
  are alike in all but what is set of them, and symmetric.
- *PeakMeter.* `MaxQueue` 1 (2 has been run, with the same result): a queue of one
  holds either a wake-up or what overtakes it. Two arrays are the running one and
  its successor.

`MaxQueue` bounds channels that are unbounded in the code. Except in `peaks`, no
run is checked for deadlock, as the environment may stop: a server without events,
a user without keys, a program that has ended are quiet.

Fairness. `Capture`: the initial dump ends (`Ready`), the loop iterates
(`Refresh`, then a frame or not) as long as a frame is asked for, and such a frame is
drawn some time (strong fairness of `RenderFrame`, which is enabled only then), because
`needs_render` stays set through the iterations that come too early, `App::run` waits
no longer than `duration_until_next_frame`, and the pacer admits a frame each period.
With no frame asked for the loop may block for ever. Events, users and scrolling are
never fair, and that frames are asked for is not assumed: it is the premise of
`RotationSamplesAll`. `Pipeline`: each reader comes back to its channel;
strong fairness, because a bounded channel on the other side can disable a
reader for a while, which an unbounded one never does; the same for the watch
on the event fd. The server and its formats are not fair. `HiddenSync`:
an instance finishes its save, handles its notifications, and sets up its watch.
`Session`: the server answers, `connect` returns, and the main loop serves each of
its sources; only `App::run` need not return. `PeakMeter`: a callback runs to its
end, the App's loop goes on, a batch ends if its queue is found empty again and
again, and the pacer lets frames through. `MeterKeepsUp` supposes what the code
cannot give: that the queue is empty again and again (`handle_events` returns only
then).

What the interface models assume of sizes: `update()` and `visible_objects()` are
given the height of the whole frame, `render()` that height less the menu line;
the last row drawn may be cut, and counts with all its mouse areas, as the code
calls it "partially rendered but still has all the important parts rendered".

## Proofs

All for every value of the constants under the assumptions named in the modules:
`NodeIdAssumption` (ids are a finite set of naturals), `NoneAssumption` (`None` is
no id, name, class or record), `PropsAssumption`, `ConfigAssumption`,
`BoundsAssumption`; `PipelineAssumption`; `IdAssumption`, `TabAssumption`,
`ShapeAssumption`, `TargetAssumption`, `ScreenAssumption` and `ViewAssumption`
(targets are counted in naturals, the views come from the configuration);
`MeterAssumption`; `SessionAssumption` (ids and proxies are finite sets, the own
client's id is used for nothing else); `HiddenSyncAssumption` (more inodes than instances, so that a
save always finds a free one); `NodeAssumption`, `LevelAssumption`,
`ProfileAssumption` and `VolumesAssumption` (routes are no nodes, levels are
naturals, what is there at first and what other clients set has a node's channels
and respects the maximum).

`CaptureProofs`: `TypeCorrect`, and `Inductive`, from which `CapHolds`,
`GlobalCapHolds`, `CapturesEligible`, `HiddenNotCaptured` and `LazyOnScreen`
follow. The invariant is the conjunction of those properties with the type
invariant. They need each other: that a restart adds no capture rests on what
is captured being known, and that a removal or an unhide leaves nothing behind
rests on captures being eligible. The argument is the same for each action:
lemmas say what a start, a stop, and a set admitted by the caps do to
`capturing` (the cap is carried by the cardinality of a finite set that grows
by an admitted set), and one step per action says that what the action changes
around it (`nodes`, `visible`, `hiddenInstance`) does not take a running
capture out of its conditions. `NothingMissed` is the converse, `NothingLeftOut`:
without caps what may be captured is. There the invariant (`StartedOK`) adds what
State may know: what is known of a node was announced in one piece (`Announced`), and
what is eligible is known (`EligibleKnown`). It is needed where an event calls no start:
properties that change an eligible node must not lift a reason that kept it from
starting, and lifting a durable hide must free only the node it was lifted for. These
are the two places where `Steady` is used. `RotationByOne` is `RotationIsStaggered` for
any number of nodes and any cap (with no global cap, which could keep a window from
being filled): every eligible node has an offset from the start, around the circle of
ranks (`Offsets`), so windows that start in neighbouring places differ by one node at
either end (`Windows`), also when the start was left beyond a set that has shrunk.

`PipelineProofs`: `RealStreamsWithinCap` and `ThreadsAgreeAtRest`, which are
`StreamsWithinCap` and `StreamsMatchCapturing` for any number of nodes and channels
of any length, with ids freed and reused while messages cross. The App decides on
`capturing`; the streams lag behind it by the commands in flight. So the inductive
invariant (`PipelineInductive`) follows them: `Running(q, c, k)` is what streams `c`
come to when the first `k` commands of `q` are executed. It says that every prefix
of the channel keeps the streams within the caps (`InFlightWithinCaps`; this is where
a burst that stops before it starts, or starts within the caps and then stops,
matters), that the whole channel ends in `capturing` (`EndsInCapturing`), that no
captured node's last command is a stop (`NotStopped`), and that a captured node that
ends without a stream is one whose start failed or whose removal is still in the
event channel (`NoneMissing`). `PipelineIsCapture` shows that every step of the
composition is a step or a stutter of `Capture`, so `IInv`, and with it every theorem
of `CaptureProofs`, holds of the App in the composition; the other proofs use it.
`PipelineIsRegistry` does the same for the PipeWire thread and `StreamRegistry`.

The second half of `PipelineProofs` follows the event channel in the same way
(`MirrorInductive`). `MirrorOK` says of each id what its events in flight come to: an
announced node is, or will be, in State with the serial of its present holder; of a node
that has gone the App has no properties, or has a removal coming behind every event that
could give it some. A format that comes late may put the id back among the nodes, but
gives it nothing, and no event about a node's properties, layout or links is sent after
its removal; this is what makes `MirrorAtRest` hold of a server that sends formats for
any stream. `SerialsOK` bounds all serials known, sent or tapped by the last one given out.
`TargetsLast`: a stream, or a start in flight, that no later stop undoes is for the
holder of its id, or the removal is still to be heard of (which will send that stop).
`MetersOK`: a meter that is shown once the channel has drained belongs to a stream, or to
one whose garbage, and with it the stopped event, is still to be collected. With empty
channels these become `MirrorCatchesUp`, `TargetsCatchUp` and `MetersHaveCaptures`, that
is `MirrorAtRest`, `TargetsAreCurrent` and `NoMeterWithoutCapture`. `FedOK` follows the
formats likewise: behind the last started event of a stream that `fed` names there is
none that clears the meter or gives it to another, and no garbage of its id that could
still send one. `MetersFollow` is `MeterFollowsStream`.

`StreamRegistryProofs`: `RegistryInductive`, the properties of the registry in
any order of its operations, and the refinement `StreamsDeferred`. The
strengthening is `RegisteredOnce` (no stream under two ids): without it, evicting
the stream of one id could disconnect that of another. `SessionProofs` begins with
the same for proxies (`ProxyInductive`, `ListenersOutlived`, `ProxiesDeferred`),
where the strengthening says that a proxy is held under one id and kind, is not
parked while it is held, and has the listeners of its own id only. In both,
what the abstract specification promises follows from the refinement
(`StreamsNotForgotten`, `ProxiesNotForgotten`): while anything is parked a collection
is signalled, and nothing is both parked and in use.

`SessionProofs`: all four invariants of `session`, for any ids, proxies and kinds and
queues of any length. `Base` ties every reference to a proxy (in the maps, at the
server, in either queue) to the id and kind its callbacks hold, so that a message is
heard for the object it was sent about, and says that a sync or its answer exists
once. `SessionDrivesRegistry` rests on it: the session makes only steps of
`ProxyRegistry`, so `ListenersOutlived` holds of it (`SessionListenersOutlived`).
`InitialOK` adds what an object of the dump that is not yet reported is waiting for: its
global; or its bind, ahead of a sync that is pending; or its info, ahead of the answer
to that sync (`SessionInductive`). So the last answer cannot overtake it
(`ReadyIsAfterInitial`). `Kept` is about what comes after: an id has one proxy
at most (`OneEach`) with its two listeners (`Attended`), and of each id the removal of
one owner and the info of the next are told apart by the global between them
(`InTurn`), an owner is announced, bound or known, and what is known has an owner or a
removal on its way (`Followed`). It is inductive (`SessionFollows`) when no id is used
for two monitored kinds, which `SessionCatchesUp` and `SessionListens` assume
(`OneKind`): otherwise they are false, as `finding_kinds` shows.

`HiddenSyncProofs`: `AloneKeepsWhole` and `QuietInstancesAgree`, for any number of
instances, names and inodes. The invariant (`HiddenSyncInductive`) has three parts. An
instance has an inode open just while it writes and closes, and the temporary name is
not the final one (`SavesOK`). While saves have not overlapped, the one under way has
written to the temporary file what it is to rename (`AloneOK`). And each instance that a
change has not passed by agrees with the file or has a reason to look again
(`Agreed`): it has been notified, it will itself rename, or someone who has the file
open will close it.

`MixerProofs`: all five properties of `mixer`. `MixerInductive` puts every volume that
exists anywhere (at the server, in a command or event, in State, in the View) in the
range of what was asked for that channel (`Reach`, `Fitting`), a range that only grows
(`Wider`); a step computed from an old view starts in the range, so what it sends is in
the range it extends. `StepsKept` and `MaximumKept` follow. `MixerCatchesUp`: applied to
State in order, the events on their way lead (`Leads`) to a State that agrees with the
server (`Told`); each act of the server appends the events that keep this true, with
profile and route in either order, and a route that is not active is told only with the
profile that ends it. A view that is not due to be rebuilt, and has missed no rebuild,
is that of State. With no events this is `ViewCatchesUp`. For `ScreenCatchesUp` the
invariant is that while no redraw is asked for and none was missed, what is drawn of a
node is what the view has (`Drawn`), and State says of it still what the view says
(`StillSo`): an event that changes it concerns an object among `visible_objects`. Peak
events may come at any time and in any number. For `ChosenKept` it is that
the two writes of `set_target` stay adjacent in the command channel (`PairsOK`), so that
at each moment the server has either the target or its first half with the second at
the head of the channel (`TargetSet`).

`ObjectListProofs`: all five properties of `ui`, for any objects, shapes, tabs, view
cycle, layout and terminal heights. The inductive invariant (`ListInductive`) is the
types, that the view lists no object twice and has the node of every object it lists,
and that a list has an open dropdown only for an object that offers targets; it is all
the keys, the mouse areas of an older frame and `update()` have in common. `SliceSafe`
rests on `UpdateInBounds`, a lemma on `update()` alone: whatever the list, the view and
the terminal, the chain of its three clamps leaves a viewport that starts in the list.
`FollowsObject` is about `update()` and the rebuilt view together. `KeysReverse` needs
that no object is listed twice, so that "the object before the next one" is the one
`down()` came from, and a count of the channels in channel view. `NothingOffScreen`
rests on `GroupsPartition`: `group_channels` puts every channel of a node into one
group and one place of it, whatever positions are reported, so every channel is on one
row of `NodeRows` and is set by one bar. `SelectionStaysOnScreen`: the rows `update()`
counts as fitting are a prefix of those of the list, and where all have one height,
their number does not depend on the top, so that moving the top until the selected
object is among them is enough.

What these prove about a computation that recurs over a list or over channels
(`GroupChannels`, the fitting rows) is about recursive *functions*, and the induction is
stated with a set in place of a predicate (`NatSet`: a set that has 0 and is closed
under successor has every natural number, from the well-foundedness of `<`);
`Iterates` shows that a function defined by such a recursion exists and has its equation.

`PeakMeterProofs`: `NoWakeUpLost`, which is `QuietShowsLast` for any number of
channels, arrays and messages. The inductive invariant (`MeterInductive`) has two
ideas: while the meter is on the screen and no frame is asked for, a set flag means
that a wake-up is on its way (`FlagIsAnnounced`), so that a callback which finds it
set may keep silent; and what a drawing in progress has missed belongs to a
callback that is not done, that has announced it, or that overtook the drawing
(`MissedWhileLoading`, `MissedWhileClearing`, `MissedSince`).

Only model-checked: the liveness properties (`RotationSamplesAll`, `GoneIsReleased`,
`SettlesDown`, `EventuallyReady`, `JoinReturns`, `MeterKeepsUp`):
liveness under fairness, and ENABLED, are out of the prover's reach. Every invariant
and action property of the passing runs is proved.

## Not modelled

- Rendering of cells and styles, the widgets of devices, drawing of meters;
  configuration parsing, name templates and overrides, key tables, SPA decoding,
  logging: conversions whose errors are local and easy to test.
- Peak values: searching samples and ballistics are floating point. Likewise the
  rounding of cube roots in `View::volume` (levels are exact integers here).
- The help menu (one scroll position), the drag row, and the runtime toggle of
  `compact_layout` (the layout is a constant).
- Clients, and two metadata objects of one name at once, which the session manager
  does not make. Nodes in `Pipeline` have no links (sinks are covered by
  `Capture`). Several active routes on several card devices.
- A `sync` that fails in the dump; the order of Ready among other events in the
  App's channel (`Session` applies events as they are sent, `Pipeline` has the
  channel).
- That wiremix's own capture nodes are source outputs and so enter
  `capturable_objects` (a test's comment in `src/app.rs` says otherwise), where
  they take up places in the rotation window until the filter refuses them, is in
  the model (`capture_global`) but excluded from the rotation's promise.

## Plan

Done: capture, registries, channels, session, shared file, lists, mixer, meters,
the refinements of `Deferred`, the findings, and the proofs above.

Left, in order of use:

1. `Mixer` with several card devices and active routes.
2. `ObjectList` with the drag row and the runtime layout toggle.
