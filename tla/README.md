# redis-diag in TLA+

This directory is the verification project of redis-diag (`redis-top`): a Go
terminal program that polls a Redis server or a Redis Cluster, keeps the latest
answers in memory and draws them in panels, optionally with a `MONITOR` stream
beside them. The modules are translated from the Go source; TLC checks them on
small instances and TLAPS proves the central facts for every value of the
constants. Line numbers refer to files under `src/`.

Contents: [the system](#the-system) · [the modules](#the-modules) ·
[the runs](#the-runs) · [the proofs](#the-proofs) ·
[disagreements found](#disagreements-between-documentation-and-code) ·
[what is not modelled](#what-is-not-modelled) · [plan](#plan) ·
[running it](#running-it)

## The system

Goroutines: `main`, tview's event loop (key handlers run on it), one redraw
goroutine of `App.Run`, one ticker goroutine per panel (six), at most one
collection goroutine per panel at a time (started by the scheduler), the node
refresher, and one goroutine per `MONITOR` stream, of which several can be
alive.

| Component | State it keeps | Operations | Interacts by |
|---|---|---|---|
| Scheduler `internal/poll/scheduler.go` | `state` (name → running, pending) under `mu`, `wg` | `Run`, `Stop`, `Wait` | called by the tickers; calls back the engine's collectors |
| Policy `internal/poll/policy.go` | none | `FromConfig`, `ShouldSkip` | nothing calls it |
| Engine `internal/runtime/engine.go` | `nodes`, `errors`, client sort and filter, slow log mode under `mu`; `wg` | `Start`, `SetTarget`, tickers, refresher, six `collect*`, settings, `Wait` | calls source, scheduler and store; is called by the UI and `main` |
| Store `internal/store/store.go` | one map per panel, node id → snapshot, under an RW mutex | `Set*`, getters, `PruneNodes` | written by collectors, refresher and UI, read by the UI |
| Source `internal/source/redis/source.go` | `rdb`, `addr`; `nodeClients` under `nodeMu`; `lastCommandCalls`, `slowlogSeen` under `mu` | `SetTarget`, `Close`, `DiscoverNodes`, six `Fetch*` | Redis over TCP; called by collectors, refresher and UI |
| Reply parsers `internal/source/redis/parse.go` | none | pure functions | called by the source |
| Stream `internal/monitor/stream.go` | `running`, `err`, `cancel`, `node`, `buf` | `Start`, `Stop`, `Running`, `Snapshot`, `run` | its own connection; called by the UI |
| Buffer `internal/monitor/buffer.go` | ring array, `head`, `count` under `mu` | `Add`, `Events`, `EventsInWindow`, `Aggregate` | written by streams, read by the UI |
| UI `internal/ui/app.go` | `done`, `refreshCh`, selection and view settings | key handlers, `Run`, `refresh`, render functions | calls engine, store, stream; tview |
| Config `internal/config/*` | the parsed configuration | `Default`, `Normalize`, flags, URI | filled by `main`, read at start |
| MONITOR parser `internal/monitor/parser.go` | none | `ParseLine` | called by the streams |
| Program `cmd/redis-top/main.go` | – | start, run the UI, cancel, wait, close | all of the above |

What is hard about each part, and what has to hold of it:

* **Scheduler.** A request that arrives while its job runs is coalesced into a
  mark; the goroutine looks at the mark and leaves under the same mutex. Passes
  of a panel must not overlap, and no mark may be left with nobody to see it.
  Everything above the scheduler relies on the first fact.
* **Engine.** A pass works on a copy of the node list and writes results of
  nodes that may be gone; the refresher and `SetTarget` publish lists that may
  be old; an error and its snapshot are written in two critical sections. The
  view must converge to the cluster, an error must be the newest outcome, and
  the shutdown must wait for everybody and then end.
* **Source, single server.** Every server is the node `standalone`: baselines
  and snapshots of two servers share a key. A comparison with another server's
  answer must be as rare as the code makes it, and the program must end up on
  the target.
* **Source, Cluster.** Two mutexes, taken in different orders of code, protect
  the table of clients and the baselines, and the discovery deletes baselines
  under the wrong one. Connections must not pile up, a client must not be
  closed under a request, the event loop must get out of `SetTarget`.
* **Panels with an algorithm.** The slow log's "new" mode remembers the ids of
  one poll only; the clients panel skips polls of crowded servers; the big key
  panel samples under a limit and a deadline; the commands panel subtracts
  counters that a server resets or restarts, over times between polls that may
  have failed. No entry twice and none left out, no calls that nobody made.
* **Client list.** Filter, order, limit and totals are computed one after the
  other: what is cut off must be what belongs last, and must be said to be cut.
* **Stream.** Streams of several starts share three fields without saying which
  of them they belong to: a late failure of an old one hits its successor.
* **Buffer and MONITOR.** Slot arithmetic at the wrap; lines torn by a read
  deadline; a window between two clocks. The counts must be of the window and
  of all of it.
* **UI.** The redraw goroutine waits for the event loop, and `App.Run` waits
  for the redraw goroutine. Three places close `a.done`.
* **Topology.** Two loops number the nodes, one for the screen and one for the
  keys, over a list that changes between a redraw and a key, and between the two
  readings of a redraw; `m` must lead back.
* **Configuration.** Defaults are normalized before the flags are parsed and
  again after: whatever the flags, what the program starts with must be usable.

`PROJECT.json` lists these hazards one by one with their lines and the
properties about them.

## The modules

| Module | Models | Composition |
|---|---|---|
| `Coalescer` | what the scheduler promises: a queue of at most two owed passes per name, one of them under way | abstract specification |
| `Scheduler` | `Scheduler.Run`, the goroutine, the WaitGroup | implements `Coalescer` |
| `SchedulerProofs` | its theorems | extends `Scheduler` |
| `Engine` | `Start`, tickers, passes, refresher, `SetTarget`, store, errors, shutdown | instantiates `Scheduler` on the panels |
| `EngineProofs` | its theorems | extends `Engine`, instantiates `SchedulerProofs` |
| `MCEngine` | the symmetry of the goroutines | extends `Engine` |
| `Target` | switching servers without Cluster: source, engine and store together | uses `PassesNeverOverlap` as its pass structure |
| `ClusterSource` | the source in Cluster mode: the two mutexes, clients, baselines | same |
| `TargetProofs`, `ClusterSourceProofs` | their theorems | each extends its module |
| `Slowlog`, `Clients`, `BigKeys`, `Commands` | four collectors with what they read | each a component |
| `ClientList` | `parseClientList` and `FetchClients`: filter, order, limit, totals | a component |
| `Monitor` | from a `MONITOR` line to the counts: read deadline, parser, ring, window | instantiates `Buffer` |
| `Topology` | panel 8, the digits, Enter and `m`, with the servers and their replication | a component |
| `Config` | `Default`, the flags with a number, `Normalize` | a component |
| `Panels` | the eight parts above side by side, one of them moving | instantiates the eight |
| `MCPanels` | the events of the ring | extends `Panels` |
| `PanelsProofs` | theorems about settings, clients, slow log, big keys, commands and client list | extends `Panels` |
| `ScreenProofs` | theorems about the topology panel and `MONITOR`, and the types of all panels | extends `PanelsProofs` |
| `Stream` | `monitor.Stream` and its callers in the UI | |
| `StreamProofs` | its theorems | extends `Stream` |
| `Recent` | what the buffer promises: the newest events in order | abstract specification |
| `BufferConstants` | capacity and events, with their assumption | |
| `Buffer` | the ring | extends `BufferConstants`, implements `Recent` |
| `App` | event loop, redraw goroutine, `App.Run` | tview is external |
| `AppProofs` | its theorems | extends `App` |

### State and actions

A step is one critical section of a mutex, one answer of a server, or one
hand-over on a channel. Code in between touches only local variables, so
nothing finer can be observed; what does touch shared state without a mutex
(`Stream`'s read of `s.buf`, the deletes of `DiscoverNodes`) is a choice among
the outcomes the build can produce.

**Scheduler.** `state` is the map (an absent key reads as the zero `jobState`),
`pc` and `job` are the goroutines. `Run` is `RunCoalesced` or `RunSpawn`;
`BeginPass`/`EndPass` bracket the call of `fn`, which happens without the lock;
`Recheck` is the critical section after it, `Done` the deferred `wg.Done`. The
goroutine supply `Runners` is finite: when it is used up a spawn has to wait,
which a run with one goroutine more than the names can keep in their loops
makes harmless (a name has one looping goroutine and any number on their way
out).

**Engine.** `nodes`, `errors`, `store` are the maps, reduced to which keys hold
something; `nodes` also keeps the status, since passes leave offline nodes out.
A pass is `BeginPass` (copy of the list), then for each node one answer
(`FetchOK`, `FetchErr`, or `Throttle` in the clients panel), then `ClearError`
and `SaveSnapshot`, or `RecordError`. The refresher and `SetTarget` are
discover → prune the store → publish, with the difference the code has: only
the refresher drops the errors of lost nodes. `main` walks `boot → spawn → ui →
waitTickers → waitPasses → close → closed`. A ticker whose select finds both
the tick and the cancelled context ready may take either, so `Tick` is enabled
after the cancellation. Nodes of a pass are taken in any order; the code's
order is the list's, which is one of them.

**Target.** A datum is represented by the server it came from. `FetchOK` is the
answer, `Fold` the comparison with the baseline under `s.mu`, `Compare` the
comparison with the stored snapshot in the replication panel. `SwitchSource` is
`Source.SetTarget`, one critical section as far as `rdb`, `addr` and the
baselines are concerned. The panels share only the target, so one is followed.

**ClusterSource.** `clients` is the table, `open` counts connection pools,
`baseline` the nodes with an entry in the panel's map, `nodeMu` and `mu` say
who holds the mutexes. `Request`/`Answer` bracket `withNodeClient`, which holds
`nodeMu` for a whole request; `Fold`/`Folded` bracket the critical section of
`mu`. `Update` is `DiscoverNodes` on the table; a fold that holds `mu` at that
moment may make the runtime end the program (`crashed`), or not. `SetTarget`
takes `nodeMu`, then `mu`.

**Slowlog, Clients, BigKeys.** One action per critical section or request. The
settings keys of the UI are actions that may come between any two of them. A
key's size is what `estimateBigKey` returns, 0 when it returns nothing.

**Commands.** `calls` are the server's counters, `reply` an answer on its way
to the critical section of `FetchCommandStats`, `baseline` and `sampled` are
`lastCommandCalls` and the age of `lastCommandSample`. `Fold` is that section,
with `parseCommandStats`' comparison in `Delta`. An answer carries the history
it was given at, so that a rate can be compared with the calls really made.

**ClientList.** The reply comes line by line; `Parse` is `parseClientList` and
the rest of `FetchClients`. `sort.Slice` is not stable: `Sorted` is every order
it may leave, as an arrangement of the lines of the reply, since two clients
may be alike. `addr` is reduced to what cutting it at the first colon makes of
it: the IPv6 addresses of the model, which begin with the same group, become one.

**Monitor.** `Line` is a line that arrives in one go: parsed and added.
`TornLine` is one whose beginning the 500 ms deadline dropped: what is left has
no metadata, or a time that is the tail of one, long ago. `EventsInWindow` and
the sums of `Aggregate` are sets of positions in `Buffer`'s `Events` and their
sizes.

**Topology.** `masterOf` is the servers' replication, `nodes` and `replication`
are what the engine and the store hold of it, in whatever order they came.
`topologyNodes` is the list behind the keys (`Those` is its loops over the nodes,
as a recursive function), `renderTopology` the rows of the tree, marked at an
index. `Draw` reads the list and the snapshot twice, as the code does: the rows
are those of the first reading, the index is that of `topologyNodes`' own, and
what the refresher and the replication panel publish in between is in the primed
variables of the step. `screen` remembers what was marked, for which selection,
and whether the selected node `moved` between the readings. A key handler is a
step, with `Engine.SetTarget` inside, which may fail to discover; Enter, too,
reads the list a second time, for `masterAddr` (`Homes`). Replicas of a replica,
and the rows without an address that `slave_*` lines of `INFO` give, are there.

**Config.** `Parse` is a flag, in any order and repeated, `Start` the second
`Normalize`. `flags` remembers what was given.

**Panels.** The parts share no state, so interleaving them would only multiply
their states: a behaviour picks a part and follows it, with the others at rest
in one of their initial states. Every reachable state of every part occurs.

**Stream.** Stream `g` is the `g`-th call of `Start`. `cancel` is the stream
that `s.cancel` would cancel. `pc[g]` is its goroutine: dial, handshake, loop,
read, add, fail, gone. The UI's `toggleMonitor` asks `Running()` in one step
and acts in another; `Stop` and the `cancel()` after the unlock are two.

**Buffer.** The array, `head` and `count`, literally; each method holds `b.mu`.

**App.** tview is not part of the repository: it is modelled as the program
uses it. `QueueUpdateDraw` queues a function and waits until the loop has run
it; `Stop` closes the screen, after which a nil event ends the loop. Keys are
typed ahead, at most `MaxEvents` of them; `quits` counts those among them that
quit.

`PROJECT.json` maps every definition to its lines.

## The runs

All twelve finish within four minutes on two cores.

| Run | Instance | Shows |
|---|---|---|
| `scheduler` | 2 names, 3 goroutines | `NoOverlap`: passes of a name do not overlap. `MarkHasRunner`: `s.state` and the goroutines agree. `ImplementsCoalescer`: every request is followed by a pass that begins after it. |
| `engine_safety` | clients + dashboard, 1 node, 3 goroutines (symmetric), no membership change | `NoUseAfterClose`, `NoSpawnWhileWaiting`: the order of the waits in the shutdown. `ErrorsAreNews`: a shown error is the newest outcome. |
| `engine_liveness` | 1 panel, 1 node, 2 goroutines, 1 change | `Heals`: list, snapshots and errors converge to the membership. `ShutdownTerminates`. |
| `target` | 2 servers, 2 switches, commands and replication panel | `MixedOnlyIfCaught`, `ConnectedUnlessUndone`, `FollowsTarget`: what a switch can disturb, and that it passes. |
| `target_reconnect` | same, replication only | a counterexample, see below |
| `cluster_source` | 1 node, 2 addresses, a folding and a non-folding panel, 1 change, 1 switch | `OnePoolPerNode`, `BaselineIfOvertaken`, `CrashHasCause`, `ClientStaysDuringCall`, `SetTargetReturns`, `ClientsHeal`: what the two mutexes protect, and what they do not. |
| `panels` | eight parts, each by itself; their bounds are below | `NewExactlyOnce` (slow log), `ChangesLiftThrottle` (clients), `WholeWalkIsTop` (big keys), `RatesAreCalls` (commands), `ListIsHonest` (client list), `CountsAreRecent` and `ImplementsRecent` (`MONITOR`), `TreeAgrees`, `EnterGoesToMarked`, `HomeIsOrigin` (topology), `StartsSound` (settings). |
| `bigkeys_resume` | 3 keys in 2 batches | a counterexample, see below |
| `stream` | 3 starts | `RunningIsAlive`, `NoOrphan`, `OneLateEvent`, `StrangersAreLate`, `CancelledEnds`. |
| `app` | 3 keys ahead | `RefreshShown`: a change reaches the screen without the ticker. `PanicNeedsTwoQuits`: only a second quit key in the queue closes `a.done` twice. |
| `app_quit` | same | a counterexample, see below |
| `refresh_flag` | 2 flags | a counterexample, see below |

Every module's type invariant is checked as well, that of `Scheduler` within
`engine_safety`; that of `Stream` is part of a proved invariant.

Several properties say exactly *when* something unwanted can happen, because
the code does not exclude it. `MixedOnlyIfCaught`: a rate computed from two
servers needs an answer that a switch overtook on its way to `s.mu`, at most one
per switch; the replication panel, whose baseline is the store, has one per
switch. `ConnectedUnlessUndone`: the list `SetTarget` published is replaced by
the old server's only by a discovery that had already asked. `BaselineIfOvertaken`,
`CrashHasCause`, `NoOrphan`, `StrangersAreLate`, `NewExactlyOnce` (ids used
again after a restart), `RatesAreCalls` (resets, new commands, a timeout's worth
of time), `CountsAreRecent` (torn lines, IPv6 clients, the skew of the clocks),
`TreeAgrees` (replicas of masters after the first), `EnterGoesToMarked` (a
selected node that moved while the tree was drawn), `WholeWalkIsTop` (keys the
walk went past) and `OnePoolPerNode` (pools a switch dropped) have the same form:
without its exception each is refuted, by the behaviour the exception names.
Such a property bounds what its exception does; it does not say that the code is
right to allow it.

`RatesAreCalls`, `ListIsHonest`, `CountsAreRecent` and `NewExactlyOnce` are
conjunctions; their parts are in the modules of the components, with a mutant
for each.

### Bounds, and why they suffice

* *Goroutines.* The scheduler's hard cases need one goroutine leaving while
  the next of the same name starts, beside another name: three goroutines.
  The engine has the same supply; with one panel two are enough.
* *Nodes.* Panels treat nodes independently (maps by id), and the interesting
  races are between actors on the same node: one node suffices for the
  engine and the cluster source. `cluster_source`'s safety properties were also
  explored with two nodes at one address each (1.1 million states), and
  `engine_liveness` with two membership changes (470 thousand).
* *Membership changes and switches.* A stale actor needs one change after it
  read. `target` allows two switches so that there is a switch away and back,
  and a switch during the discovery of an earlier one.
* *Slow log.* Limit 2 with three ids lets entries leave the newest ones;
  two starts let an id be used again.
* *Clients.* Ages up to 5 are all the throttle distinguishes; three edits
  change a setting, the other, and the first one back.
* *Big keys.* Every distribution of three keys over two batches and of sizes
  0 to 2; a sample limit of 2 that a batch can cross, one place in the top.
* *Commands.* Two commands of up to three calls, one reset, two ticks between
  folds, a timeout of one: a reset between two answers and one while an answer
  is on its way, failed polls between two folds, a slow answer before a fast one.
* *Client list.* Three clients with every command, two numbers and both kinds of
  addresses; limits 1 and 2 are below, at and above what the filter keeps. Three
  elements are what the axioms of an order speak of.
* *MONITOR.* A ring of 2 and three lines go past its wrap; a window of 1, clocks one
  tick apart and a clock up to 2 put events inside, at and outside the window. A
  torn line whose rest reads like a whole `MONITOR` line, because an
  argument contains one, is left out.
* *Topology.* Three servers with every replication among them, in single mode
  replicas of replicas too, one failover. The two that the program was not
  started with are interchangeable, and so are the counted commands of
  *Commands* (`Symmetry` in `MCPanels`); no property of the run is about liveness.
* *Settings.* Two flags, the same one twice or two, with values -1, 0 and 5. Flags
  set different fields and only `Refresh` is read for another one, so a third
  flag meets nothing new; `SettingsSound` proves it for any number.
* *Streams.* Three starts: a stream, its successor, and the successor that an
  orphan meets. Two would hide the third stream's view of the flag.
* *Keys typed ahead.* Three: a quit key, a second, and one in between.

The bounds of the slow log and the clients are those of `panels`, too.

`cluster_source`, `app` and `app_quit` switch the deadlock check off: after a
crash, or after `App.Run` has returned or hung, nothing more happens. In the
others a state without a successor would be an error; where the modelled
program ends (`Engine`, `Stream`) the specification says so with an explicit
stuttering step.

### Fairness

* `Scheduler`: weak fairness of each goroutine. `s.mu` is never held across
  `fn`, and `fn` returns because every request has a timeout.
* `Engine`: tickers tick, goroutines that can move do, `main` moves through its
  waits, and the refresher's discovery succeeds some time (its failures
  repeat at every tick). Membership changes, keys and the *outcome* of a
  fetch are under no obligation.
* `Target`: the pass, the refresher and a `SetTarget` under way move on, and as
  in `Engine` the refresher's discovery succeeds some time: for the server
  that is connected last, `FollowsTarget` assumes that it answers one of the
  discoveries asked for every tick. Switching is voluntary.
* `ClusterSource`: strong fairness for those who wait for a mutex: Go's
  mutex goes over to its starvation mode after a millisecond and hands itself to
  the first waiter, so a lock that is free again and again is granted. Strong
  fairness of `EndPass` stands for a pass making a bounded number of
  requests. An answer comes, because requests time out.
* `Stream`: the event loop and whatever is bounded by a dial or read deadline.
  `AUTH` and `MONITOR` have none, so the handshake has no fairness:
  `CancelledEnds` therefore speaks of streams past it.
* `App`: each goroutine moves. `select` takes a random ready case, so
  none is forced; the ticker is not relied on.

## The proofs

The runs look at small instances; the theorems hold for every value of the
constants that satisfy the named assumption of the module. Each proof module
defines an invariant, proves that it holds initially and that every action of
`Next` preserves it, one lemma or step per action, and derives the property from
it.

| Module | Assumes | Proves |
|---|---|---|
| `SchedulerProofs` | at least one goroutine | `MarkHasRunner`, `NoOverlap`, and `Refinement`: every step is a step of `Coalescer` or leaves it unchanged |
| `EngineProofs` | at least one goroutine, a natural number of changes | the engine's steps are the scheduler's (`EngineDrivesScheduler`); `ErrorsAreNews`, `NoUseAfterClose`, `NoSpawnWhileWaiting`, `TypeOK`; and `SettledStays`, the "for good" of `Heals` |
| `TargetProofs` | the absent address is none of the servers | `MixedOnlyIfCaught`, `ConnectedUnlessUndone`, `TypeOK` |
| `ClusterSourceProofs` | a node; the markers for "no client" and "nobody" are no addresses and no panels | `OnePoolPerNode`, `BaselineIfOvertaken`, `CrashHasCause`, `ClientStaysDuringCall`, `TypeOK` |
| `StreamProofs` | a natural number of starts | `RunningIsAlive`, `NoOrphan`, `OneLateEvent`, `StrangersAreLate` |
| `PanelsProofs` | `PanelsAssumption`: the limits and batches are positive, the other bounds natural numbers | `StartsSound`, `ChangesLiftThrottle`, `NewExactlyOnce`, `WholeWalkIsTop`, `RatesAreCalls`, `ListIsHonest` |
| `ScreenProofs` | the same; a finite number of servers, the origin among them; the empty address and the one of a line without address are none of theirs; a ring of at least one place | `TreeAgrees`, `EnterGoesToMarked`, `HomeIsOrigin`, `NoHole`, the refinement `ImplementsRecent`, `CountsAreRecent`, `TypeOK` |
| `AppProofs` | a natural number of keys typed ahead | `PanicNeedsTwoQuits`, `TypeOK` |

With these every invariant and every action property that a run checks is a
theorem; the runs are where a formula is tried before it is proved, and where
its mutants are refuted. `Panels`' constant `Event` is what the ring can
hold; the five theorems that look into it have the hypothesis
`Event = Mon!MonitorEvent`, the events `ParseLine` makes. `MCPanels` gives
`Event` this value.

Why the invariants are what they are:

* **Scheduler**, `IInv == TypeOK /\ MarkHasRunner`. `NoOverlap` alone is not
  inductive: a `Run` that finds `running` false spawns, so one has to know that
  no goroutine of the name is in its loop then, and exactly one when it is true.
  For the refinement, the passes owed are the goroutine about to call `fn` and
  the mark.
* **Engine.** The module instantiates `SchedulerProofs`, so the scheduler's
  invariant is an invariant here without being proved again. `ShutdownInv` says
  what lies behind each position of `main`: beyond the first wait the tickers
  and the refresher are gone, beyond the second no goroutine is left; nobody who
  could call `Run` exists then, so that goroutines only become fewer
  (`PassesShrink`). For `ErrorsAreNews` the strengthening is `FailureIsNewest`:
  a failure on its way into `e.errors` is the newest outcome of its node. Only
  a pass of the same panel could make it old, and `NoOverlap` excludes that.
  `SettledStays` says that what `Heals` reaches is not left again. It needs more
  than the list, snapshots and errors being right (`NothingStale`): a view taken
  by the refresher or by the UI, or a node a pass still has to ask, may be of the
  old membership and bring back what is gone. `Covered` allows for one gap: a
  first snapshot follows the error that was cleared for it, and between the two
  steps the node has neither.
* **Target.** Comparisons still due are counted with those already made:
  `MixedBudget` says that made + due is at most the overtaken answers (or the
  switches, in the replication panel, where the chain stored snapshot – pass –
  target is what is still to be compared). `OvertakenFindsNone` is why an
  overtaken answer costs one comparison and not two: the switch that overtook it
  took the baseline away.
* **ClusterSource.** `Locks` ties the holder of each mutex to the program
  counters. A request holds `nodeMu`, and every step that replaces the table
  needs it (`ClientsStay`). `Overtaken` follows an answer from the request to
  the baseline; `Resting` says that nothing ever listed more than the members
  while there was no change.
* **Stream.** `FlagTrue` and `FlagLowered` relate the flag to the last stream
  and to `s.cancel`; `clobbered` is the one way they come apart. `LateLeaves`
  says that a stream which has delivered its late event is at its look at the
  context.
* **Panels.** A step is a step of one part (`OnePart`), and each part has an
  invariant of its own.
  * *Settings.* `SettingsInv` adds to `StartsSound` what the flags have left in
    the settings before the start.
  * *Clients.* `ClientsInv` follows the settings from where a pass compared or
    read them to where it ends, as long as nobody has changed one since it began;
    and, for the list that is stored, since the pass read the first of the two.
  * *Slow log.* `SlowInv` says why remembering one poll is enough: of the entries
    already shown, those among the newest `Limit` are remembered, and an entry
    that has left the newest does not come back (`NewestOnlyLeave`, a fact about
    cardinalities); and every remembered id was shown by some entry, of this start
    of the server or an earlier one.
  * *Big keys.* `KeysInv` says how far a walk has got (`Looked`): every key of a
    page behind the cursor is a candidate, or the pass went past it, or it is left
    of the batch. A cursor of 0 is the start as well as the end, which
    is why an empty sample has to go with the first. At the end the candidates are
    cut to the top; that what is left is `TopK` rows with nothing bigger left out
    (`KeptAreTop`) needs that a set has a part of its `TopK` biggest at all
    (`BiggestRows`, by induction on the size). That the sample stays within its
    limit is a part of `KeysInv`, too.
  * *Commands.* The properties speak of the answers behind the snapshot, the
    steps of the next ones. `AnswerOrder` says of baseline, answer and counters
    that each is `Later` than the one before: ahead by exactly the calls made in
    between, or, after a reset, holding no more than those. `Later` is transitive
    (`LaterGoesOn`), so calls, resets, lost answers and folds only move along
    the chain. `AnswerAges` carries the age of the answer over to the baseline,
    which is all by which a rate's time can be wrong.
  * *Client list.* `ListingInv` is its properties; the work is in `ParseStep`. What
    the sort leaves is an arrangement that has each kept line once (`Arranged`: an
    injection between sets of one size is onto), so a client missing from the rows
    is one behind the cut, and the list is full. Each of the orders compares one
    number or, by command, two in turn (`LessIs`).
  * *Topology.* `TopologyInv` says what a list of nodes can look like (one node
    of an address that exists without Cluster, a master or replica for each server
    with it) and that a screen with marks for a node that did not move while it
    was drawn has the node's address among them. `TreeAgrees` compares two walks over such a list; how they
    number it follows from what the loops keep (`KeptSoFar`). `HomeInv` adds to
    `HomeIsOrigin` that a list in single mode is one node of role `unknown` whose
    address is the origin until `masterAddr` is set: the reason why `Homes` is the
    origin alone, be the list stale or new.
  * *The ring.* `RingInv`: as long as the ring is not full the written slots are
    those below `head`. The refinement is a case split on whether the
    ring is full and whether the slot wraps; the only facts about `%` it needs
    are two (`ModSmall`, `ModWrap`).
  * *The counts of MONITOR.* `Sources` matches the events of the ring with the lines
    they came from, in order; a whole line without an event was overwritten.
    Both halves of `CountsAreRecent` then compare sets along this matching
    (`Matched`).
  * *Types.* `TypeInv` is the invariants above with the bounds, which the other
    properties do not depend on.
* **App.** `QuitsAhead` are the quit keys the loop has yet to see. Until the loop
  has ended, `a.done` is closed by a quit key only, and that key is no longer in
  the queue (`QuitInv`): so one quit key cannot meet itself, nor the way out of
  `App.Run`, which begins when the loop has ended. `QueueInv` is the room the
  queue has while the screen is there.

Two lemmas stand for induction over the numbers: the theorems of the library take
an operator, which the provers cannot supply, so `NumberInduction` says
it of sets, by way of the least element of one (`LeastNumber`).

What stays with TLC is everything under fairness (`ImplementsCoalescer`'s
liveness, the convergence in `Heals`, `ShutdownTerminates`, `FollowsTarget`,
`SetTargetReturns`, `ClientsHeal`, `CancelledEnds`, `RefreshShown`), since the
prover knows neither `ENABLED` nor fairness. No module here declares a recursive
operator; the recursive function of `Topology` is unfolded step by step.

## Disagreements between documentation and code

Four runs show that the program does not do what its README says:

* `target_reconnect`: README.md:185 says a reconnect is recorded when
  `master_link_down_since_seconds` falls from above 60 to below 10. Connecting
  from a replica whose link was down to a healthy server records one too: the
  snapshots of both are stored under `standalone` and compared
  (engine.go:188-193).
* `bigkeys_resume`: README.md:234 says an unfinished `SCAN` continues at
  `RemainingCursor` the next time. Each pass starts at 0 (source.go:371) and
  nothing reads the field.
* `app_quit`: README.md:391 says `q` quits. When the redraw goroutine has just
  queued its update as the loop ends, it waits for ever in `QueueUpdateDraw`,
  and `App.Run` waits for it (app.go:224-234).
* `refresh_flag`: README.md:68 calls `--refresh` the global refresh interval of
  the dashboard, clients and commands panels. `Default` ends with `Normalize`
  (config.go:91), which fills those intervals with one second before the flag is
  parsed, and the second `Normalize` finds them positive: the flag has no effect
  on them.

Seen while modelling, without a run of their own:

* After `Enter`, the refresher may publish the *old* server's list once
  more; README.md:334-335 describes the switch as immediate
  (`ConnectedUnlessUndone` states when).
* A `QPSDelta` may subtract the counters of two servers after a switch
  (`MixedOnlyIfCaught`).
* The event of a stream that was cancelled may appear under its successor's
  node (`StrangersAreLate`).
* Two quit keys in the event queue close `a.done` twice (app.go:83): the state
  `panicked` of `App`, and `PanicNeedsTwoQuits`.
* The first switch in Cluster mode replaces a client of one type by one of
  another while a discovery may read it without a mutex (source.go:94, 134-146;
  `CrashHasCause`).
* The digits beside the replicas of a second master select a replica of the
  first, or nothing (`TreeAgrees`); the mark then stands at two nodes.
* README.md:334 says that the green node is the selected one. When the list or
  the snapshot is replaced while the tree is drawn, the row that is green is the
  one at the selected node's new place (app.go:370, 395 against 289, 311), and
  Enter goes to the selected node, which is not green, until the next drawing
  (`EnterGoesToMarked` without `~screen.moved` is refuted in five states).
* A replica shows rows for the lines `slave_*` of its own `INFO`, and Enter on
  one connects to the address ":"; `m` still leads back (`HomeIsOrigin`).
* The commands of `MONITOR` clients with an IPv6 address are counted as writes
  (`CountsAreRecent`), and IPv6 clients whose addresses begin with the same group
  share a row per IP (`ListIsHonest`).
* `Source.SetTarget` does not carry over every option of the first client (TLS
  configuration, context timeouts).
* `LastReconnectedAt` is not carried from one replication snapshot to the next:
  it is shown for one interval.
* README.md:149 says that with more than 5000 connections the clients panel skips
  a refresh within 5 seconds of the last one. The code also skips with more than
  1000, within 3 seconds (engine.go:283-290), and in either case does *not* skip
  after a change of the sort order or the filter (engine.go:279-280, 286-287),
  which is what `ChangesLiftThrottle` states.
* `Scheduler.Stop` forgets a job whose goroutine still runs; a `Run` after it
  would overlap. Nothing calls `Stop`.

## What is not modelled

* `poll.FromConfig`, `poll.ShouldSkip`, `Scheduler.Stop`: no caller.
* The address, URI, credentials and switches of the configuration
  (`ResolveTarget` and its helpers), the exits of `main` on errors: sequential
  code on strings, without state.
* The string work of the reply parsers and of the `MONITOR` line parser: unit
  tests reach it. What the parsers do to rows, counters, nodes and events is
  modelled.
* Rendering and layout, but for the digits and marks of the topology panel.
  `Tab` and the node it selects for the monitor: no panel shows that node.
* `Aggregate`'s counts by command and by client, which are the same walk as
  those of reads and writes.
* Durations. A timeout is an outcome a request can have at any time. Where the
  age of something decides (clients throttle, big key deadline) it is state.
* The contents of snapshots beyond what later code compares.

## Plan

Order of work, most important behaviour first. Done so far: the scheduler with
its refinement and proofs, the engine with its shutdown and its convergence,
switching of servers, the source in Cluster mode and the stream, each with the
proofs of its safety; the panel algorithms, the buffer and the counts above it,
the topology panel and the settings, each with its properties proved; the event
loop, proved.

To extend the model:

1. Two nodes in the engine's runs; `Engine` and `Target` in one composition.
2. `Tab` and the monitor's node, if a panel comes to show it.

To prove:

1. The "for good" of `FollowsTarget` and `ClientsHeal`, as `SettledStays` has it
   for `Heals`.
2. The safety half of the hand-over between redraw and event loop.

## Running it

```
tlc -workers 2 -config Scheduler.cfg Scheduler.tla      # a run: see PROJECT.json
tlapm SchedulerProofs.tla                               # the proofs of a module
```
