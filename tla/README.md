# ritoclient in TLA+

ritoclient is a Rust library that drives the Riot Client on the same machine: it
starts the client, or wakes it, or finds it, asks it over its loopback REST API
to launch a game, follows the session that results, and keeps the client's
window out of the way. This directory models that program, checks the models
with TLC and proves the central ones with TLAPS. Every definition is translated
from the source; `PROJECT.json` maps each one to its lines.

## 1. Inventory

| Part | Source | State | Operations | Modelled by |
|---|---|---|---|---|
| launch | `ritoclient/src/launch.rs` | per call: the stop flag, the route and pid, and in the wait `started`, `refused_since`, `last_wake` | `launch_with_stop`, `launch_inner`, `already_running`, `adopt`, `cold_start`, `hand_off`, `wait_for_launcher`, `wake`, `StopFlag::stop` | `Launch`, `LaunchContract` |
| progress | `progress.rs` | none; the observer's last stage | `on_progress` | `LaunchContract` |
| API answers | `core/src/client.rs` (`Presence`), `types.rs` | none | `Presence::from`, `riot_error`, `readiness_of`, `attempt_launch`, `refusal` | `LocalApi` |
| client and game | external; read through `lockfile.rs`, `processes.rs` | process, lockfile, launcher plugin, launch in flight, session, game | boot, lockfile, serve, idle, quit, play, start, exit | `RiotClient` |
| session watcher | `session.rs` | `SessionTracker` (`phase`, `game_running`), `stopped` | `watch_session`, `step`, `stop` | `SessionWatcher`, `SessionEvents` |
| window hider | `session.rs` | `stopped`, two deadlines | `hide_for_play_session`, `wait_for_game`, `hide_now`, `stop` | `WindowHider` |
| requests | `core/src/client.rs`, `retry.rs`, `endpoint.rs` | attempt, elapsed time, policy | `attempt`, `send`, `next_delay`, the finishers | `Request` |
| lockfile, processes | `core/src/lockfile.rs`, `processes.rs` | none | `live_lockfile`, `is_running`, `pid_of` | by what they answer, in `RiotClient` and `Request` |
| routes | `core/src/route.rs`, `xtask/src/surface.rs` | none | `parse_function`, `derive_segments`, `path`, `bind` | `Naming` |
| endpoints, models | `ritoclient-api/src` | none | generated tables and serde types | not modelled: declarations |
| installs | `installs.rs` | none; the document and the executables are the clients' | `load`, `candidates`, `resolve_riot_client` | `Installs`; `Launch` takes the result |
| patchlines, ids | `models_ext.rs`, `ids.rs` | none | readings of the registry | `install_root`, `secondary_dir` in `Installs`; `has_ended` in `SessionWatcher` |
| spawn, window | `spawn.rs`, `window.rs` | none | one system call each | the effect of a spawn, in `ColdStart` |
| code generator | `xtask/src/codegen` | types emitted, names given, the generated tree | `resolve`, `ModelResolver`, `emit`, the wipe and the writes | `ModelResolver`, `Emission`, `Codegen` |
| schema snapshot | `xtask/src/snapshot.rs`, `surface.rs` | files under `schema/` | wake, dump, filter, probe, write | `Snapshot` |

**How the parts interact.** A call of `launch_with_stop` runs on its caller's
thread and reads or changes the machine through requests, the process table and
the lockfile; a clone of its `StopFlag` belongs to another thread. A watcher and
a hider each run on a thread of their own, share one `AtomicBool` with the
`SessionWatch` they return, and read the same machine. No lock or channel is
shared: all interaction is through the Riot Client and the process table, which
move between any two readings. Every request re-reads the lockfile, because
waking the client moves its port. The endpoints and models are not written by
hand: a tool generates them, offline, from a checked-in schema, and shares
nothing with the library but the files it leaves. That schema is a snapshot,
which another tool takes of a live client through the library's own `Client`.

**What is hard.** A request can be carried out and its answer lost. A 404 means
two things. The client can be starting, idle, restarting, refusing for a while,
or gone, and can be replaced under another pid. The scan of processes, the
lockfile and the API are read at different moments. A stop can land anywhere.
Deadlines are read once a pass, after requests that take their own time. The
schema's types form a graph with cycles, and the generator removes the tree it
is about to write. A function's name has no separators, and the path that is
read out of it is what every request of that endpoint goes to. The snapshot is
taken of a client that boots or idles under it. The document that names the
clients' executables is rewritten by whichever client starts.

**What makes each part correct.**

- *launch*: one launch is never queued on another; a refusal is final only when
  nothing is in flight; the wait is bounded; a stop costs one more act, or the rest
  of a wake; one terminal stage, last, that agrees with the result; every call
  returns.
- *session watcher*: the events are a true account of changes; `Lost` is never
  told under a game that kept running; a stop leaves at most the rest of one
  poll; the watch ends.
- *window hider*: the client's own un-hide is outlasted; nothing is hidden
  before or long after the game; one hide at most after a stop; it ends.
- *requests*: the budget is kept; no more sends than allowed; a restart of the
  listener is survived; a success means the request was carried out.
- *code generator*: every type that can be reached is written once and as the
  schema has it, on any graph; each name leads to the type it stands for; an
  input that will not do costs nothing; a run that succeeds leaves a whole tree,
  each file of which declares or imports exactly the names it uses.
- *routes*: a name is taken apart without loss, and read as the template it
  stands for wherever only one reading is possible; a request reaches its route
  with every value in its own place, unless a value spells a later placeholder.
- *schema snapshot*: what is taken is a booted client's; what is kept is closed
  and no more than that; hand-written overrides survive; a run ends.
- *installs*: the client that owns an install is the one started, however the
  root is spelled and whatever the other clients do.

The hazards list of `PROJECT.json` has each of these at its line, and those no
property covers yet.

## 2. The modules

**`LocalApi`** - a reply is a status class and a kind of body, the two facts the
code branches on; `Presence`, `ReadinessOf`, `AttemptOf` and `Refusal` are the
readings of it.

**`RiotClient`** - the machine: `rc` (state, pid, the pid the lockfile names, a
launch in flight and whether the API reports it, a session) and `game`. The
constant `Outside` says which things may happen besides the launches modelled:
the player opening or quitting the client or pressing Play, the game being
started past the client, a process snapshot failing, an unreadable answer. All
of it is external and modelled by what the code relies on.

**`Launch`** - any number of calls against one machine. `call[c]` is the state of
one call, its `pc` the next thing it does to the machine; `Start`, `Known`,
`Adopt`, `Resolve`, `HandOff` and `ColdStart` are `launch_inner` and its routes,
`Pass`, `Probe`, `ReadPid`, `Post`, `Wake` and `Deadline` one pass of
`wait_for_launcher`, the lockfile being read for the pid a moment before the POST.
A step is one exchange with the machine and whatever the code does with its
answer; the machine may move between two steps. Each call has a clock,
`elapsed`, that its own requests and sleeps advance by any time up to their
timeouts. `queued`, `asked` (the client took a launch from this call) and `late`
(what the call did to the machine after its stop) are history.

**`LaunchContract`** - the abstract specification of what a caller and its
observer see: which stage may follow which, and which result goes with which
terminal stage. Its inputs are whether the client took a launch from the call and
whether the game is up, one of which `Launched` needs. `Launch` implements it
(`KeepsContract`). It is the contract the code keeps; `progress.rs` promises more
(section 3, disagreements).

**`SessionWatcher`** - the watching thread, one step per reading and per event;
the record of the session and the game move freely. `late` counts what is told
after a stop, by kind of event. **`SessionEvents`** is its
abstract specification: an observer that keeps a picture from events alone.

**`WindowHider`** - the hiding thread in real seconds, with a `Tick`, because what
matters in it is which of two windows is longer. Time passes only in sleeps and
requests.

**`Request`** - `RequestBuilder::send` under a policy of attempts, deadline or
both, against a listener that stops, moves and is mute, and the finishers.

**`ModelResolver`** - the walk over the schema's types. `emitted` is the list of
flat types, a slot reserved before its fields are seen to; `stack` holds the
calls of `emit_struct` under way; `MapField` is `map_field_type` with the call it
may make, and `FieldFails` its refusals; `shorts` is the map from short to flat names
that all namespaces share. A name is the sequence of its words, so that a
namespace's prefix can be taken off it; how words are cased is left out.

**`Emission`** - what `emit` writes, as far as names go: the modules each file
declares, its imports, which the code decides by summary flags, and apart from
them the names its items are written with.

**`Codegen`** - one run of `cargo xtask ritoclient-codegen` after another.
`Load`, `Endpoint`, `Fields`, `Output` and `Close` resolve the namespaces, with
each refusal at its place, a name that `parse_function` cannot read among them; `Emit`, `Wipe`, `Write` and `Format` replace the tree.
`Mishap` ends a run at any of the last three, by an error of the disk or by a
kill, with the file or the removal under way half done, and `Again` starts it
anew. What is written to a file is only "new", "torn" or "old". A tree without
`lib.rs` is where `Again` stops: the generated crate is a member of the workspace
that the tool's own alias belongs to, and cargo loads no workspace with a member
that has no target.

**`Naming`** - one function from its name in the client's help to the path of a
request. `Parse`, `TakeParam` and `TakeWord` are `parse_function` and the loop of
`derive_segments`; `Declare` is the route, `BindNext` one round of the loop of
`Route::bind`, which replaces a placeholder wherever it stands in the path
(`Replaced`), the values put there before included; `Send` is the assertion after
it, which a debug build makes and a release build does not. A name is the sequence
of its words, a value any sequence of symbols: characters, and the braces and words
of a placeholder. `%2F` in a path is two symbols, so that `encode_segment` is
modelled by what it does and can be seen to be injective.

**`Snapshot`** - one run of `cargo xtask ritoclient-snapshot` after another. The
client is a `level` of booting, each function, type, path and schema being there
`from` some level on; it registers more, idles, quits and starts between any two
steps. A function has any number of arguments and a return, a type any number of
fields, and a description two names; a path and a schema are documents, functions
from key paths to leaves, with references at any depth; and a document can lack a
part that the filters insist on (`lacks`). `TypeRef`, `TypeRefs`, `FunctionRefs` and
`SchemaRefs` are the collectors. `Count`, `Wake`, `Poll` and `Look` are `ensure_awake`, in seconds;
`FetchHelp` and `FetchOpenapi` read what is there at that moment; `FilterHelp`,
`FilterOpenapi` and `Probe` are loops, a name or a function at a time; the writes
follow one by one, each of them able to fail or be cut short. A directory entry is
the run it is `of`, and whether it is whole.

**`Installs`** - `resolve_riot_client` while the clients live: one that starts
writes itself into the document, which cannot be read until it has, and one that
updates is off the disk until it is back. A path is a sequence of names and
separators as it was typed, so that `NormalizeKey` and `InstallsKey` are the code's.
The root comes from a user, or from what the registry says of a patchline.

`MCLaunch`, `MCRequest`, `MCCodegen`, `MCNaming`, `MCSnapshot` and `MCInstalls` hold the sets the configurations need; the
others are run directly.

The theorems and their proofs are in `LaunchProofs`, `SessionWatcherProofs`,
`WindowHiderProofs`, `RequestProofs`, `SnapshotProofs`, `CodegenProofs`,
`NamingProofs` and `InstallsProofs`, each of which extends the module it is about.

## 3. The runs

| Run | Shows |
|---|---|
| `launch_alone` | With no other launcher and an honest client (no unreadable answers, no launch in flight that goes unreported): `NoQueuedLaunch`, `RefusedMeansNothingInFlight`. Lost answers, crashes, restarts, tray idling and failed snapshots are all in. |
| `launch_anything` | With everything in `Happenings`: `TypeOK`, `BoundedWait`, `StopLag` (one act after a stop, or the attempts of a wake), `KeepsContract`, `Returns`. |
| `session_watch` | `KeepsEvents`, `LostMeansTheGameStopped`, `StopIsNearlySilent` (one poll's worth of events after a stop), `WatchEnds`. |
| `window_hider` | `WindowStaysHidden`, `HidesOnlyAroundTheGame` (with at most one hide after a stop), `HiderEnds`. |
| `request` | `TypeOK` (with the number of the attempt within the policy's), `RestartIsRiddenOut`, `BudgetIsKept` (attempts and deadline), `SuccessIsHandled`, `Ends`. |
| `codegen` | `EachTypeOnce`, `GroupsAreWhole`, `CrateHoldsTogether`, `RefusedInputSparesTheTree`, `TreeIsWhole`, `Ends`. |
| `routes` | `NameIsReadBack`, `TemplateIsFound`, `ValuesKeepTheirPlace` (for any values none of which spells a later placeholder). |
| `snapshot` | `ClosureIsExact` (against who mentions whom, said without the collectors), `SurfaceIsWorthTaking`, `DirectoryIsRespected`, `OneSnapshot`, `Ends`. |
| `installs` | `OwnerWins`, `NotFoundMeansGone`. |

Three more runs each refute one thing the repository says of itself:

| Run | What the code does |
|---|---|
| `request_deadline` | The backoff overflows `Duration` before it is capped, and panics. |
| `codegen_tolerance` | A regeneration removes `models/tolerant.rs`, which is hand-written, and emits nothing that uses it. |
| `installs_game_dir` | An install whose own directory is called `Game` is looked up under its parent. |

Four disagreements have a configuration beside the runs, to be started by hand
with `tlc -config <file> <module>`; each ends with a behaviour of the code that
the quoted sentence excludes, and is a finding of `PROJECT.json`:

| Configuration | Module | Property | What the code does |
|---|---|---|---|
| `launch_stop.cfg` | `MCLaunch` | `StopLagsByOneRequest` | `wake` (`launch.rs:995`) does not see the stop flag: a stop during it is followed by up to three POSTs and the sleeps between them. `launch.rs:190-191` and `294-295` speak of one in-flight request. |
| `launch_unasked.cfg` | `MCLaunch` | `LaunchedMeansAccepted` | A game that comes up while the call waits (`launch.rs:1150`) is told as `Launched`, with no request accepted. `progress.rs:25` says "The client accepted the request.", and `launch.rs:345-346` that a caller watching for it "is watching for a game that started because it asked". |
| `session_stop.cfg` | `SessionWatcher` | `StopTellsOneMore` | A poll under way tells all it has found after the stop, up to three events. `session.rs:57-58` says "or one more event on a session observer". |
| `routes_braces.cfg` | `MCNaming` | `NoValueIsRewritten` | A value that spells the placeholder of a parameter bound after it is substituted in its turn (`route.rs:99`); the path has no brace left for the assertion of `route.rs:102`, and addresses another resource, against `route.rs:89-91`. |

Beside each stands the property that does hold, and is checked and proved:
`StopLag`, `KeepsContract`, `StopIsNearlySilent` and `ValuesKeepTheirPlace`.

**Other disagreements.** Five more were met while modelling. They are
schedules of the models above, which is why no property of a passing run
excludes them:

- `launch.rs:1150` scans for the game before the probe and not again before the
  POST; a launch in flight that becomes a running game in between is launched a
  second time, though `launch.rs:773` calls the probe "the guard against launching
  twice".
- `launch.rs:623` takes only a readable lockfile for a running client; one that is
  booting is cold-started over (`docs/plans/launch-flow-136.md:58`, "Never
  cold-start over a live client").
- `launch.rs:1141` reads the stop flag before the probe: a launch POST can be begun
  after the stop, which is one more request and not one that was in flight.
- `session.rs:274` reports `Lost` at a first lookup that finds no record and no game,
  with no `Opened` before it (`session.rs:75`).
- `session.rs:379` returns early and leaves `is_watching` true (`session.rs:65`).

**Bounds.** The launch runs use one call, two pids, which is enough for a client to be replaced, and a clock of a few
ticks. What matters of the constants is their order, which both runs keep: the
budget exceeds the grace and the grace the cooldown, the attempts of a wake together
outlast the cooldown, and a POST may outlast a probe and a poll. `launch_anything`
has them as close together as that order allows. `launch_alone` has room for a whole grace and a wake of three attempts;
the proofs carry the properties to every value. `session_watch` has two phases
and one ending the crate knows and one it does not. `window_hider` uses the code's
5 s, 10 s and 2 s; only the wait for the game is cut from 300 s, and a game is
started at most twice. `request` has two ports, delays of 1, 2 and 4 ticks and
every kind of policy; `Duration::MAX` is narrowed to a width that nine
doublings pass, where the code's takes 68, so that the run that looks for the
overflow is finite. `codegen` takes every graph of three types with none, one or
two fields each (the type of the second namespace has at most one), which has
self-loops, cycles through another namespace, and diamonds; renames, a dropped
field and a colliding name; one input for each refusal; trees that are absent,
of another schema or half written, with up to two mishaps. `routes` takes every
template of up to three segments over five literals and the parameters of nine
argument lists, among them two that begin alike and one spelled in both of the
client's ways, with eight names that are odd or no function's at all; six
values, among them a plain one, one that cuts a path, one that looks encoded, one
with a brace and one with a placeholder in it. `snapshot` takes three types with one
of seven lists of none to three fields each, that refer to others by type and by
element, the schemas having the same references at two depths, from a client that
stays up; four documents that each lack a part; and one cyclic graph from a client at any level that changes its
mind twice, with a mishap, twice in a row; its deadline is 3 s for the code's 90,
its sleep 2 s for 5. `installs` has two clients, two installs and all spellings the
tests name, and lets the clients act three times, enough to start, be removed
and come back during one call.

**Fairness.** Weak fairness of the thread modelled: it is scheduled, and every
request it makes has a timeout (`QUERY_TIMEOUT` or its own). In `WindowHider`
also of time, and of the client showing its window once it set out to. Nothing
is assumed of the player, of the game, or of a client that never finishes
booting; `WatchEnds` and `HiderEnds` state what they need of them as premises.
In `Codegen`, of the tool, which runs on once started; nothing makes anyone start
it again. In `Snapshot`, of the tool, of time, and of a client that has come as far
as the floor, whose last plugins register within `Beat`. Deadlock is not checked: a
call, a watch, a hider, a request, a run of either tool, a resolution of an
executable and a name all end.

**Assumed of the outside.** `UnhideAssumption`: the client shows its window soon
enough after the game exits that a request under way as the re-hide window ends
still comes after it. The code says as much of `REHIDE_WINDOW`; the model shows
the slack it needs. Process snapshots do not fail in `session_watch` (`Blind`):
one that does reads as no game, and the watcher then reports `Lost` under it.
`NamesAreDistinct`, the premise of `EachTypeOnce`: no override gives a type the
name of another that is met. The generator does not check it, and without it the
run finds one type standing for two; `MCCodegen` has the case (`Colliding`). Nor
does it check that the names of endpoints, methods and modules are distinct, or
that a generated test binds an endpoint without a body: `CrateHoldsTogether` is
about what is imported and declared, not about what is declared twice.
`BeatAssumption`: the last plugins register within the settling sleep, which is
what the sleep is for (`snapshot.rs:129`). In `Naming` a resource is the derived one, and
each parameter of a route is bound once (`BoundOnce`). `ValuesKeepTheirPlace` has
that as its premise, and that no value spells the placeholder of a parameter bound
after it (`NoneSpellsALater`), which `bind` asks of no caller: it holds of every
value without braces. `ValuesAssumption` says only that a value is a sequence of
symbols; no value of `SmallValues` is empty or a dot segment. `FunctionsAssumption`: a name is words, none of them a brace.
`TemplateIsFound` is about the names that are `Derivable`: the words after the
version spell the template (`Stands`), no two literals are adjacent, the ambiguity
that `surface.rs:159` documents, and no argument can be read where the template has
none or a shorter one. In `Installs` no path has
doubled separators, and no install but that of `installs_game_dir` is in a directory
called `Game`.

## 4. The proofs

All are checked by TLAPS for every value of the constants that keeps the
assumptions named. Between them they state every invariant and every action
property that the passing runs check.

**`LaunchProofs`**, for any set of calls, pids and times:

- **TypeCorrect**, **WaitIsBounded**, **StopIsPrompt** from one inductive
  invariant, `CallInv`: every call is `Sound`, which is three things. `Paced`:
  the clock at each `pc` is bounded by the budget and the requests made since
  the top of the pass; `BoundedWait` alone is not inductive, since it says
  nothing of a call in the middle of a pass. `Lagging`: the acts counted after
  the stop are none until the call comes to its one act of the pass, and in a wake
  fewer than the attempt it is at. `Staged`: the stage last told fits the `pc`.
- **ContractIsKept**, that `Launch` implements `LaunchContract`: initial states
  map to initial states and each action to one contract step or a stutter,
  using `Staged`.
- **NothingIsQueued** and **RefusalIsFinal** from `Clear`: between a probe that
  reported nothing pending and the POST it leads to, no launch is in flight.
  They assume `OneCall` and `HonestMachine`: no second launcher and no player
  pressing Play, no launch in flight the API does not report, no unreadable
  answer from a serving plugin. Each is needed; `ReadinessOf` reads an unreadable
  body as nothing pending, and nothing in the code orders two launchers.

**`SessionWatcherProofs`**, for any set of phases and any machine:

- **StopSilences** from `Silenced`: which kinds of event cannot have been told since
  the stop, at each place of a poll. None is told between the look at the flag
  and the first event, and each place tells its own kind and leads on to later ones.
- **LostIsGrounded** from `Grounded`: a scan that found no game is remembered in
  `wasDown` whatever the game does between it and the event. It assumes `~Blind`,
  as the run does; with failing snapshots the property is false, which is the
  hazard at `processes.rs:52`.
- **EventsAreKept**, that `SessionWatcher` implements `SessionEvents`. Each
  thread step is one step of the observer's picture or a stutter. `Pictured`
  relates what the tracker holds to what the observer has heard: they differ only
  between `Opened` and the first `GameStarted`, and nothing is over before the
  thread is out of its loop.

**`WindowHiderProofs`**, for any times that keep `TimeAssumption` and
`UnhideAssumption`:

- **HidesAroundTheGame** from `Around` and `Silence`: how long ago the game went
  is bounded at each place by what is left of the sleep it fell into, of the
  re-hide window and of the last sleep begun within it; the hides after a stop are
  none until a place that has looked at the flag.
- **WindowIsLeftHidden** from `LeftHidden` and `DueInTime`: once the re-hide window
  has run, the game has been gone for at least as long, so that a window shown by
  the client was shown before a hide that came after it. This is where
  `UnhideAssumption` is used.

**`RequestProofs`**, for any ports, policies, delays and times, `Duration::MAX`
included:

- **RestartsAreRiddenOut**, **BudgetsAreKept** and **SuccessesAreHandled** from
  `ReqInv`. `Counted`: an attempt under way has not been carried out, so there
  are at most as many requests handled as attempts begun. `Started`: an
  attempt begins before the deadline, or is the first. `Settled`: the port a
  request was sent to is the listener's unless it stopped, moved or went mute
  during the attempt. `Carried`: what is returned fits the last outcome.
- **RequestTypeCorrect** needs `AttemptsAreCounted` too: another attempt is begun
  only where `Spent` is false.
- `GrowthType` shows first that the delays, a recursive function of the attempt,
  are naturals.

**`SnapshotProofs`**, for any surface (any graph of types and schemas, cyclic or
not), any levels a client goes through and any number of runs:

- **ClosuresAreExact** from `Closing`, on any number of arguments, fields and nested
  references. `TypeGraph` and `SchemaGraph` show that the collectors, with their
  loops, find the names that the documents mention and no others. The work list says what is kept and what is
  still to be looked at; when it is empty, what is kept contains its roots, is
  closed under reference, and each of it is in every closed set with those roots,
  which is what exactness means. `Grown` is that invariant on its way, for a set
  of things kept and a queue, whatever the names refer to; `SearchEnds` turns it
  into the closure of a graph.
- **SurfacesAreWorthTaking** from `InTime` and `Awake`: a client that stayed was above
  the floor at the last look, and one that was woken has had `Settle` to register
  its last plugins. `BeatAssumption` is used here and nowhere else.
- **SnapshotsAreOne** from `Written`: at each write, the files before it are this
  run's and whole.
- **DirectoriesAreRespected**, an action property, from `Fetched`: the first write
  is past every fetch, filter and probe, and `overrides.toml` is written only where
  there is none.

**`CodegenProofs`**, for any inputs of their type
(`IsInput`: any schema graph, any overrides) and any tree found:

- **TypesAreEmittedOnce**. `WalkInv` is what holds in the middle of the walk.
  `Flat`: the list has no name twice. `Framed`: each call of `emit_struct` under
  way has rendered the first of the fields kept of its type, under the names of
  types that are in the list, and has the others before it. `Settled`: a slot is filled and
  whole, or still empty and some call's. When no call is left, every slot is whole.
  The property alone says nothing of slots under way, and a cycle of types is
  exactly a slot that is referred to while under way.
- **GroupsStayWhole**. `Collected` says of the namespace under way that each short
  name it refers to still stands for a model one of its endpoints returns; a later
  endpoint may take the name over, and `GroupsAreWhole` speaks of the outputs only
  where short names are distinct. `Made` says of each namespace resolved that its
  exports hold every struct a kept field of theirs refers to and all that its
  endpoints return; the list of types only grows, so that it lasts.
  `ReachableIsClosed` shows that `ReachableFrom`, as many rounds as there are types,
  is closed: each round before the last that matters adds a type.
- **CratesHoldTogether** from `Collected`, `Made` and `FilesAreTyped`: each endpoint of
  a namespace under way has its route and refers to models that are emitted; each
  file's import flags then agree with the names its items are written with.
- **TreesAreWhole** and **RefusedInputsSpareTheTree** from `Writing`: the files there and
  those still to come are all of the crate's, whatever the run before left; and
  `Places`: where in the input the run is, and that nothing is written before the
  last namespace is resolved.

**`NamingProofs`**, for any names, arguments and templates, and any values that keep
`SymbolsAssumption`, `FunctionsAssumption` and `ValuesAssumption`:

- **NamesAreReadBack** from `ReadSoFar`: the verb, namespace, version and rest are
  the parts of the name that the first version past its second word divides
  (`ParsedOf`), and what the segments and the waiting words spell is the rest up to
  the next word. `PartsOfName` puts the parts together again.
- **TemplatesAreFound** from `Following`: for a `Derivable` name the segments so far
  are the first ones of its template, and the words that wait are the first of its
  next literal. A literal is followed word by word because an argument that could be
  read in it would have to be covered by a parameter, and none covers it; where a
  parameter begins, `Matched`, which takes the longest argument, takes its own.
  `TemplateIsLaid` and `TemplateClimbs` say where each segment is spelled: one after
  another, without gap or overlap.
- **ValuesStayInPlace** from `NoBrace` and `Bound`: the values given and the
  parameters still unbound are together the parameters of the route, in order, and
  at each segment's place stands its literal, the encoding of its value, or its own
  placeholder. A literal has no brace (`NoBrace`), so that no placeholder occurs in
  it (`NoneInPlain`); a placeholder occurs in another only if they are the same
  (`NoneInAnother`), and in itself once, whole (`OccurrenceIs`, `AllReplaced`); in the
  values put in before it does not occur by the premise (`Harmless`), which holds of a
  beginning of the values if it holds of all (`HarmlessBefore`). So each round
  replaces one segment and no part of another. The braces a value may have are
  encoded as they are, and `EncodedIsSafe` says of every value that what would cut
  the path is gone.
  `EncodeInjective`: two values with one encoding are one value, since an escape
  begins with `%`, which is itself escaped; without that an encoded `/` and a value
  that looks like one would be the same.

**`InstallsProofs`**, for any paths, documents and clients that come, go and write
meanwhile:

- **OwnersWin** and **NoneIsMissed** from `Standing` and `Looking`: what is not gone since
  the document was read is on disk; the queue is the rest of the candidates of
  some reading, and those before it were gone when they were looked at.
- `KeySpellsDirectory` and `OneKeyOneDirectory`: the keys of two paths are the same
  just where the paths name the same directory, in any case, with either slash and
  with or without the last one; `InstallsKeySpells`, that a root's key is its
  install's.
- Assumed: `SpellingAssumption`, that lower case makes no slash; `SourcesAssumption`
  and `DocumentsAssumption`, that paths are a drive and names with one separator
  between them and an optional last one, and that no key of the document is empty,
  which is how the client writes them.

Each module has a **TypeOK** theorem of its own (Installs' types are in
`Standing`). Every inductive invariant was checked by TLC, on the instance of the
component's run, before it was proved.

**How recursive definitions are reasoned about.** The library's induction takes an
operator as its parameter, which the provers here cannot use. `LeastNatural`, from
the well-foundedness of `<`, gives the same by a least counterexample: what a
recursive *function* over the naturals computes is shown by first showing that the
function exists (`GrowthType`, `FlattenExists`, `AmongExists`, `ReachedExists`). `ByAppending` is
the same for sequences: a set of sequences that has the empty one, and with each
all that are one element longer, has every sequence. The parameters of a route are
a recursive function (`Params`) and no `SelectSeq` for that reason.

**What is only model-checked.** Liveness (`Returns`, `WatchEnds`, `HiderEnds`, every
`Ends`): the prover does not reach liveness under fairness. The runs and the other
configurations that refute something are counterexamples and need no proof.

## 5. The plan

1. Done: `LocalApi`, `RiotClient`, `Launch`, `LaunchContract`; `SessionWatcher`,
   `SessionEvents`, `WindowHider`, `Request`; `ModelResolver`, `Emission`, `Codegen`;
   `Naming`; `Snapshot`; `Installs`; and the proofs of every invariant and action
   property they check.
2. `Launcher::close`, `session` and `availability` against `RiotClient`: one stateless
   request each, of interest once the client's side of a close is known.

## 6. Not modelled

TLS, JSON and the HTTP stack; Windows' process and window calls beyond what they
answer; log lines; the text of errors; other platforms, where a launch is
refused before it begins; how words are cased; the generated tests and the text
around the names in a generated file; a resource spelled by an override, which the
checked-in overrides do not use; `patchline_client`, which nothing calls; the
examples.
