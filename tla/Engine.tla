------------------------------- MODULE Engine -------------------------------
(***************************************************************************)
(* runtime.Engine (internal/runtime/engine.go) against a cluster whose     *)
(* membership changes: the panel tickers that feed poll.Scheduler, the     *)
(* collection passes, the node refresher, SetTarget from the UI, the       *)
(* snapshot store and the panel errors, and main's shutdown sequence.      *)
(*                                                                         *)
(* A step is one critical section of e.mu, of store.mu or of the           *)
(* scheduler's mutex, or one answer of a redis server: everything in       *)
(* between interleaves.  What a snapshot holds is abstracted to its being  *)
(* there; Target.tla looks at where it came from.                          *)
(***************************************************************************)
EXTENDS Naturals, FiniteSets

CONSTANTS
    Panels,                 \* ticker names, the scheduler's job names
    NodeIds,                \* cluster node ids that may ever be a member
    Runners,                \* scheduler goroutines, at most this many alive
    MaxChanges              \* bound: membership changes of the cluster

ASSUME EngineAssumption ==
    /\ Runners # {}
    /\ MaxChanges \in Nat

VARIABLES
    \* the cluster
    truth, changes,         \* status of each node id, and changes so far
    \* poll.Scheduler
    state, pc, job,
    \* the engine
    nodes,                  \* e.nodes: the status each node id was seen with
    errors, nodesError,     \* e.errors: panel -> node ids, and "nodes"/"_"
    store,                  \* panel -> node ids that have a snapshot
    ticker,                 \* panel ticker goroutines
    pass,                   \* the collection pass each runner executes
    refresher, refreshView, \* the node refresh goroutine and what it read
    ui, uiView,             \* SetTarget called from the UI's event loop
    main,                   \* the main goroutine
    last                    \* history: how the newest fetch of a panel ended

schedVars == <<state, pc, job>>
viewVars == <<nodes, errors, nodesError, store>>
refreshVars == <<refresher, refreshView>>
uiVars == <<ui, uiView>>
mainVars == <<ticker, main>>
actorVars == <<refreshVars, uiVars, mainVars>>
envVars == <<truth, changes>>
passVars == <<pass, last>>
vars == <<envVars, schedVars, viewVars, actorVars, passVars>>

Sched == INSTANCE Scheduler WITH Names <- Panels

Passes == Sched!Counted       \* the goroutines the scheduler's wg counts

Status == {"absent", "offline", "online"}
Views == [NodeIds -> Status]

Members(view) == {n \in NodeIds : view[n] # "absent"}
Online(view) == {n \in NodeIds : view[n] = "online"}

(* Mutant: only the deferred cancel() is left, which runs when main returns.*)
CancelDeferred == main = "closed"

(* The context main cancels when the UI has returned.                       *)
CtxDone == main \in {"waitTickers", "waitPasses", "close", "closed"}

Idle == [todo |-> {}, at |-> {}, step |-> "loop"]

Init ==
    /\ truth = [n \in NodeIds |-> "online"]
    /\ changes = 0
    /\ Sched!Init
    /\ nodes = [n \in NodeIds |-> "absent"]
    /\ errors = [p \in Panels |-> {}]
    /\ nodesError = FALSE
    /\ store = [p \in Panels |-> {}]
    /\ ticker = [p \in Panels |-> "none"]
    /\ pass = [r \in Runners |-> Idle]
    /\ refresher = "none"
    /\ refreshView = nodes
    /\ ui = "idle"
    /\ uiView = nodes
    /\ main = "boot"
    /\ last = [p \in Panels |-> [n \in NodeIds |-> "none"]]

-----------------------------------------------------------------------------
(* The cluster: a node joins, leaves, or is marked failed by its peers.     *)

Change(n, s) ==
    /\ changes < MaxChanges
    /\ s # truth[n]
    /\ truth' = [truth EXCEPT ![n] = s]
    /\ changes' = changes + 1
    /\ UNCHANGED <<schedVars, viewVars, actorVars, passVars>>

-----------------------------------------------------------------------------
(* store.PruneNodes, and the two ways of replacing e.nodes.                 *)

PruneNodes(view) == store' = [p \in Panels |-> store[p] \cap Members(view)]

(* Mutant: the errors of lost nodes stay.                                   *)
PublishKeepErrors(view) == nodes' = view /\ UNCHANGED errors

(* The refresher's critical section also drops the errors of lost nodes ... *)
PublishAndPrune(view) ==
    /\ nodes' = view
    /\ errors' = [p \in Panels |-> errors[p] \cap Members(view)]

(* ... SetTarget's and Start's do not.                                      *)
Publish(view) == nodes' = view /\ UNCHANGED errors

-----------------------------------------------------------------------------
(* Start: discover, publish, then spawn the refresher and the tickers.      *)

Boot ==
    /\ main = "boot"
    /\ PruneNodes(truth)
    /\ Publish(truth)
    /\ main' = "spawn"
    /\ refresher' = "wait"
    /\ UNCHANGED <<envVars, schedVars, nodesError, refreshView, uiVars,
                   ticker, passVars>>

(* Discovery failed: main ends in log.Fatal before anything was spawned.    *)
BootFails ==
    /\ main = "boot"
    /\ main' = "failed"
    /\ UNCHANGED <<envVars, schedVars, viewVars, refreshVars, uiVars,
                   ticker, passVars>>

(* spawnTicker runs a first pass at once.  Start returns after the last     *)
(* one; the order of the panels makes no difference here.                   *)
SpawnTicker(p) ==
    /\ main = "spawn"
    /\ ticker[p] = "none"
    /\ Sched!Run(p)
    /\ ticker' = [ticker EXCEPT ![p] = "select"]
    /\ main' = IF \A q \in Panels \ {p} : ticker[q] # "none"
               THEN "ui" ELSE "spawn"
    /\ UNCHANGED <<envVars, viewVars, refreshVars, uiVars, passVars>>

-----------------------------------------------------------------------------
(* A panel ticker: select picks either case when both are ready, so a tick  *)
(* may still be served after the context was cancelled.                     *)

Tick(p) ==
    /\ ticker[p] = "select"
    /\ Sched!Run(p)
    /\ UNCHANGED <<envVars, viewVars, actorVars, passVars>>

TickerExit(p) ==
    /\ ticker[p] = "select"
    /\ CtxDone
    /\ ticker' = [ticker EXCEPT ![p] = "gone"]
    /\ UNCHANGED <<envVars, schedVars, viewVars, refreshVars, uiVars, main,
                   passVars>>

-----------------------------------------------------------------------------
(* A collection pass: runCollectionPass with one of the collect functions.  *)

(* The pass works on a copy of e.nodes without the offline ones.            *)
BeginPass(r) ==
    /\ Sched!BeginPass(r)
    /\ pass' = [pass EXCEPT ![r].todo = Online(nodes)]
    /\ UNCHANGED <<envVars, viewVars, actorVars, last>>

InPass(r, step) == pc[r] = "fn" /\ pass[r].step = step

(* The node whose answer r is recording: a singleton, or {} between nodes.  *)
At(r) == pass[r].at

Answer(r, n, step, result) ==
    /\ InPass(r, "loop")
    /\ n \in pass[r].todo
    /\ pass' = [pass EXCEPT ![r] = [todo |-> @.todo \ {n}, at |-> {n}, step |-> step]]
    /\ last' = [last EXCEPT ![job[r]][n] = result]
    /\ UNCHANGED <<envVars, schedVars, viewVars, actorVars>>

(* The fetch of n succeeded: possible also for a node that left the cluster *)
(* and still answers, but not with a cancelled context.                     *)
FetchOK(r, n) == ~CtxDone /\ Answer(r, n, "clear", "ok")

FetchErr(r, n) == Answer(r, n, "fail", "err")

(* collectClients leaves a crowded node out while its last list is recent:  *)
(* the count comes from the dashboard panel (Clients.tla: counts, ages).    *)
Throttle(r, n) ==
    /\ InPass(r, "loop")
    /\ n \in pass[r].todo
    /\ job[r] = "clients"
    /\ "dashboard" \in Panels
    /\ n \in store["dashboard"] \cap store["clients"]
    /\ pass' = [pass EXCEPT ![r].todo = @ \ {n}]
    /\ UNCHANGED <<envVars, schedVars, viewVars, actorVars, last>>

Ended(r) == pass' = [pass EXCEPT ![r].at = {}, ![r].step = "loop"]

(* Mutant: a success does not clear the error.                              *)
ForgetClear(r) ==
    /\ InPass(r, "clear")
    /\ pass' = [pass EXCEPT ![r].step = "save"]
    /\ UNCHANGED <<envVars, schedVars, viewVars, actorVars, last>>

(* setError(panel, node, "") and then store.Set: two critical sections.     *)
ClearError(r) ==
    /\ InPass(r, "clear")
    /\ errors' = [errors EXCEPT ![job[r]] = @ \ At(r)]
    /\ pass' = [pass EXCEPT ![r].step = "save"]
    /\ UNCHANGED <<envVars, schedVars, nodes, nodesError, store, actorVars,
                   last>>

SaveSnapshot(r) ==
    /\ InPass(r, "save")
    /\ store' = [store EXCEPT ![job[r]] = @ \cup At(r)]
    /\ Ended(r)
    /\ UNCHANGED <<envVars, schedVars, nodes, nodesError, errors, actorVars,
                   last>>

(* setError(panel, node, err): the old snapshot stays.                      *)
RecordError(r) ==
    /\ InPass(r, "fail")
    /\ errors' = [errors EXCEPT ![job[r]] = @ \cup At(r)]
    /\ Ended(r)
    /\ UNCHANGED <<envVars, schedVars, nodes, nodesError, store, actorVars,
                   last>>

EndPass(r) ==
    /\ InPass(r, "loop")
    /\ pass[r].todo = {}
    /\ Sched!EndPass(r)
    /\ UNCHANGED <<envVars, viewVars, actorVars, passVars>>

(* The scheduler's own steps of the goroutine.                              *)
Reschedule(r) ==
    /\ Sched!Recheck(r) \/ Sched!Done(r)
    /\ UNCHANGED <<envVars, viewVars, actorVars, passVars>>

RunnerStep(r) ==
    \/ BeginPass(r)
    \/ \E n \in NodeIds : FetchOK(r, n) \/ FetchErr(r, n) \/ Throttle(r, n)
    \/ ClearError(r)
    \/ SaveSnapshot(r)
    \/ RecordError(r)
    \/ EndPass(r)
    \/ Reschedule(r)

-----------------------------------------------------------------------------
(* The node refresher: DiscoverNodes, the store pruned, the list replaced.  *)
(* Its own error is set or cleared as soon as the discovery has answered.   *)

RefreshFails ==
    /\ refresher = "wait"
    /\ nodesError' = TRUE
    /\ UNCHANGED <<envVars, schedVars, nodes, errors, store, actorVars,
                   passVars>>

RefreshDiscover ==
    /\ refresher = "wait"
    /\ ~CtxDone
    /\ refreshView' = truth
    /\ refresher' = "prune"
    /\ nodesError' = FALSE
    /\ UNCHANGED <<envVars, schedVars, nodes, errors, store, uiVars,
                   mainVars, passVars>>

RefreshPrune ==
    /\ refresher = "prune"
    /\ PruneNodes(refreshView)
    /\ refresher' = "publish"
    /\ UNCHANGED <<envVars, schedVars, nodes, errors, nodesError,
                   refreshView, uiVars, mainVars, passVars>>

RefreshPublish ==
    /\ refresher = "publish"
    /\ PublishAndPrune(refreshView)
    /\ refresher' = "wait"
    /\ UNCHANGED <<envVars, schedVars, nodesError, store, refreshView,
                   uiVars, mainVars, passVars>>

RefreshExit ==
    /\ refresher = "wait"
    /\ CtxDone
    /\ refresher' = "gone"
    /\ UNCHANGED <<envVars, schedVars, viewVars, refreshView, uiVars,
                   mainVars, passVars>>

-----------------------------------------------------------------------------
(* Enter on a replica: Engine.SetTarget, inside the UI's event loop.  The   *)
(* source is switched first (Target.tla); when the discovery that follows   *)
(* fails, the old list stays and nothing changes here.                      *)

SetTargetDiscover ==
    /\ main = "ui"
    /\ ui = "idle"
    /\ uiView' = truth
    /\ ui' = "prune"
    /\ UNCHANGED <<envVars, schedVars, viewVars, refreshVars, mainVars,
                   passVars>>

SetTargetPrune ==
    /\ ui = "prune"
    /\ PruneNodes(uiView)
    /\ ui' = "publish"
    /\ UNCHANGED <<envVars, schedVars, nodes, errors, nodesError,
                   refreshVars, uiView, mainVars, passVars>>

SetTargetPublish ==
    /\ ui = "publish"
    /\ Publish(uiView)
    /\ ui' = "idle"
    /\ UNCHANGED <<envVars, schedVars, nodesError, store, refreshVars,
                   uiView, mainVars, passVars>>

-----------------------------------------------------------------------------
(* main after app.Run: cancel(), engine.Wait(), src.Close().                *)

Quit ==
    /\ main = "ui"
    /\ ui = "idle"
    /\ main' = "waitTickers"
    /\ UNCHANGED <<envVars, schedVars, viewVars, refreshVars, uiVars,
                   ticker, passVars>>

(* Mutant: the panel tickers are not counted by e.wg.                       *)
RefresherGone == refresher = "gone"

EngineGone == refresher = "gone" /\ \A p \in Panels : ticker[p] = "gone"

MainMoves(from, to) ==
    /\ main = from
    /\ main' = to
    /\ UNCHANGED <<envVars, schedVars, viewVars, refreshVars, uiVars,
                   ticker, passVars>>

(* Mutant: the passes are awaited before the tickers that start them.       *)
WaitSwapped ==
    \/ Passes = {} /\ MainMoves("waitTickers", "waitPasses")
    \/ EngineGone /\ MainMoves("waitPasses", "close")

(* Engine.Wait: e.wg, then the scheduler's.                                 *)
Wait ==
    \/ EngineGone /\ MainMoves("waitTickers", "waitPasses")
    \/ Passes = {} /\ MainMoves("waitPasses", "close")

Close == MainMoves("close", "closed")

Terminated == main \in {"closed", "failed"} /\ UNCHANGED vars

-----------------------------------------------------------------------------

Refresh == RefreshFails \/ RefreshDiscover \/ RefreshPrune \/ RefreshPublish \/ RefreshExit

SetTarget == SetTargetDiscover \/ SetTargetPrune \/ SetTargetPublish

Next ==
    \/ \E n \in NodeIds, s \in Status : Change(n, s)
    \/ Boot \/ BootFails
    \/ \E p \in Panels : SpawnTicker(p) \/ Tick(p) \/ TickerExit(p)
    \/ \E r \in Runners : RunnerStep(r)
    \/ Refresh
    \/ SetTarget
    \/ Quit \/ Wait \/ Close
    \/ Terminated

Safety == Init /\ [][Next]_vars

(* Tickers keep ticking, goroutines that can move do, every request has a   *)
(* timeout, and a discovery succeeds again some time: its failures are      *)
(* retried at every tick for as long as they last.  Membership changes, the *)
(* user's keys and the outcome of a fetch are under no obligation.          *)
Fairness ==
    /\ WF_vars(Boot \/ BootFails)
    /\ \A p \in Panels :
        WF_vars(SpawnTicker(p)) /\ WF_vars(Tick(p)) /\ WF_vars(TickerExit(p))
    /\ \A r \in Runners : WF_vars(RunnerStep(r))
    /\ WF_vars(RefreshDiscover)
    /\ WF_vars(RefreshPrune \/ RefreshPublish)
    /\ WF_vars(RefreshExit)
    /\ WF_vars(SetTargetPrune \/ SetTargetPublish)
    /\ WF_vars(Wait \/ Close)

Spec == Safety /\ Fairness

-----------------------------------------------------------------------------

(* Every variable has its type, a pass records at most one answer at a      *)
(* time, and a goroutine outside of fn has no pass.                         *)
TypeOK ==
    /\ Sched!TypeOK
    /\ truth \in Views /\ nodes \in Views
    /\ changes \in 0..MaxChanges
    /\ errors \in [Panels -> SUBSET NodeIds]
    /\ nodesError \in BOOLEAN
    /\ store \in [Panels -> SUBSET NodeIds]
    /\ ticker \in [Panels -> {"none", "select", "gone"}]
    /\ pass \in [Runners -> [todo : SUBSET NodeIds, at : SUBSET NodeIds,
                             step : {"loop", "clear", "save", "fail"}]]
    /\ \A r \in Runners :
        /\ pass[r].step = "loop" <=> pass[r].at = {}
        /\ pc[r] # "fn" => pass[r] = Idle
    /\ refresher \in {"none", "wait", "prune", "publish", "gone"}
    /\ refreshView \in Views
    /\ ui \in {"idle", "prune", "publish"}
    /\ uiView \in Views
    /\ main \in {"boot", "spawn", "ui", "waitTickers", "waitPasses", "close",
                 "closed", "failed"}
    /\ last \in [Panels -> [NodeIds -> {"none", "ok", "err"}]]

(* main closes the source only when nobody can be using it: every goroutine *)
(* the engine started has returned, also a pass started by a tick served    *)
(* after the cancellation, and a pending one (main.go:48-52,                *)
(* engine.go:107-113, 160-163).                                             *)
NoUseAfterClose ==
    main \in {"close", "closed"} =>
        Passes = {} /\ EngineGone /\ ui = "idle"

(* Once main waits for the passes no new one is spawned: the scheduler's    *)
(* WaitGroup is never incremented while main is in its Wait, which would    *)
(* race with a counter at zero (scheduler.go:34-36, 68-70).                 *)
NoSpawnWhileWaiting ==
    [][(main \in {"waitPasses", "close", "closed"}) =>
        Passes' \subseteq Passes]_vars

(* A panel error on screen is the outcome of the newest fetch, never an     *)
(* older failure that outlived a success or overtook it on the way into     *)
(* e.errors (engine.go:174-231; it rests on passes of a panel not           *)
(* overlapping).                                                            *)
ErrorsAreNews ==
    \A p \in Panels : \A n \in errors[p] :
        \/ last[p][n] = "err"
        \/ \E r \in Runners : job[r] = p /\ At(r) = {n} /\ InPass(r, "clear")

(* Quitting ends: main gets through engine.Wait and closes the source,      *)
(* whatever ticks, pending marks and passes the cancellation met.           *)
ShutdownTerminates == main = "waitTickers" ~> main = "closed"

(* Once the membership has stopped changing the program comes to show just  *)
(* the cluster, for good: no node, snapshot or error of a lost node left,   *)
(* although passes with an old copy of the list and SetTarget keep writing  *)
(* and publishing; and every online node has a snapshot or an error in      *)
(* every panel (engine.go:119-158, 165-172; store.go:127-160).              *)
Settled ==
    /\ nodes = truth
    /\ \A p \in Panels :
        /\ store[p] \cup errors[p] \subseteq Members(truth)
        /\ Online(truth) \subseteq store[p] \cup errors[p]

Heals == <>[](Settled \/ CtxDone \/ main = "failed")

=============================================================================
