------------------------------- MODULE Target -------------------------------
(***************************************************************************)
(* Connecting to another server while the collectors run, without Cluster: *)
(* Engine.SetTarget and Source.SetTarget against the collection passes and *)
(* the node refresher (internal/runtime/engine.go,                         *)
(* internal/source/redis/source.go, internal/store/store.go).              *)
(*                                                                         *)
(* Without Cluster every server is the node "standalone", so snapshots,    *)
(* errors and baselines of the old server live under the key of the new    *)
(* one; the model keeps, for each of them, the server it came from.        *)
(* The panels share nothing but the target, so a behaviour follows one of  *)
(* them.  It has one pass at a time: SchedulerProofs!PassesNeverOverlap.   *)
(***************************************************************************)
EXTENDS Naturals

CONSTANTS
    Addrs,                  \* servers the user may connect to
    NoAddr,                 \* no server: a baseline or snapshot not taken yet
    Panels,                 \* panels that compare with a previous answer: the
                            \* replication panel with the one in the store, the
                            \* others with a baseline kept by the source
    MaxSwitches             \* bound: SetTarget calls

ASSUME TargetAssumption ==
    /\ NoAddr \notin Addrs
    /\ MaxSwitches \in Nat

VARIABLES
    target,                 \* s.rdb and s.addr, replaced together
    panel,                  \* the panel followed, never changed
    baseline,               \* server of its lastCommandCalls / slowlogSeen
    node,                   \* e.nodes[0].Addr
    store,                  \* its snapshot under "standalone"
    error,                  \* an error of it is shown
    pass,                   \* the pass its goroutine is in
    refresher, refreshAddr, \* node refresher, and the address it discovered
    ui, uiAddr,             \* SetTarget in the UI's event loop
    switches,               \* SetTarget calls so far
    mixed,                  \* history: answers compared with another server's
    caught,                 \* history: switches that met an answer on its way
                            \* to the baseline
    wasDown,                \* history: servers that reported a long link outage
    undone                  \* history: the list SetTarget published was
                            \* overwritten by an older discovery

sourceVars == <<panel, target, baseline>>
storeVars == <<store, error>>
refreshVars == <<refresher, refreshAddr>>
uiVars == <<ui, uiAddr, switches>>
historyVars == <<mixed, caught, wasDown, undone>>
vars == <<sourceVars, node, storeVars, pass, refreshVars, uiVars, historyVars>>

(* master_link_down_since_seconds: below 10, from 10 to 60, above 60.       *)
Links == {"up", "brief", "long"}

(* from: the server that answered; reconnected: LastReconnectedAt is set.   *)
Snapshots == [from : Addrs \cup {NoAddr}, link : Links, reconnected : BOOLEAN]

NoSnapshot == [from |-> NoAddr, link |-> "up", reconnected |-> FALSE]

Idle == [step |-> "idle", snap |-> NoSnapshot]

Init ==
    /\ target \in Addrs
    /\ panel \in Panels
    /\ baseline = NoAddr
    /\ node = target
    /\ store = NoSnapshot
    /\ error = FALSE
    /\ pass = Idle
    /\ refresher = "wait" /\ refreshAddr = target
    /\ ui = "idle" /\ uiAddr = target
    /\ switches = 0
    /\ mixed = 0
    /\ caught = 0
    /\ wasDown = {} /\ undone = FALSE

-----------------------------------------------------------------------------
(* A pass.  The request goes to whatever client s.rdb is, not to the node   *)
(* the pass was given; SetTarget closes that client before it replaces it,  *)
(* so an answer always is the current target's.                             *)

FetchOK(link) ==
    /\ pass.step = "idle"
    /\ panel # "replication" => link = "up"
    /\ pass' = [step |-> IF panel = "replication" THEN "clear" ELSE "fold",
                snap |-> [NoSnapshot EXCEPT !.from = target, !.link = link]]
    /\ wasDown' = wasDown \cup IF link = "long" THEN {target} ELSE {}
    /\ UNCHANGED <<sourceVars, node, storeVars, refreshVars, uiVars, mixed, caught,
                   undone>>

(* Mutant: no return after the error.                                       *)
FetchErrGoesOn ==
    /\ pass.step = "idle"
    /\ pass' = [pass EXCEPT !.step = "clear"]
    /\ UNCHANGED <<sourceVars, node, storeVars, refreshVars, uiVars, historyVars>>

FetchErr ==
    /\ pass.step = "idle"
    /\ pass' = [pass EXCEPT !.step = "fail"]
    /\ UNCHANGED <<sourceVars, node, storeVars, refreshVars, uiVars, historyVars>>

CountMixed(prev) ==
    mixed' = mixed + IF prev \in {NoAddr, pass.snap.from} THEN 0 ELSE 1

(* FetchCommandStats and FetchSlowlog, the answer being in: under s.mu it   *)
(* is compared with the baseline and becomes the baseline.                  *)
Fold ==
    /\ pass.step = "fold"
    /\ pass' = [pass EXCEPT !.step = "clear"]
    /\ baseline' = pass.snap.from
    /\ CountMixed(baseline)
    /\ UNCHANGED <<panel, target, node, storeVars, refreshVars, uiVars, caught,
                   wasDown, undone>>

ClearError ==
    /\ pass.step = "clear"
    /\ error' = FALSE
    /\ pass' = [pass EXCEPT !.step =
                    IF panel = "replication" THEN "compare" ELSE "save"]
    /\ UNCHANGED <<sourceVars, node, store, refreshVars, uiVars, historyVars>>

(* collectReplication reads the previous snapshot back from the store.      *)
Compare ==
    /\ pass.step = "compare"
    /\ pass' = [pass EXCEPT !.step = "save",
                            !.snap.reconnected =
                                store.link = "long" /\ pass.snap.link = "up"]
    /\ CountMixed(store.from)
    /\ UNCHANGED <<sourceVars, node, storeVars, refreshVars, uiVars, caught,
                   wasDown, undone>>

SaveSnapshot ==
    /\ pass.step = "save"
    /\ store' = pass.snap
    /\ pass' = Idle
    /\ UNCHANGED <<sourceVars, node, error, refreshVars, uiVars, historyVars>>

RecordError ==
    /\ pass.step = "fail"
    /\ error' = TRUE
    /\ pass' = Idle
    /\ UNCHANGED <<sourceVars, node, store, refreshVars, uiVars, historyVars>>

PassStep ==
    \/ \E link \in Links : FetchOK(link)
    \/ FetchErr
    \/ Fold \/ ClearError \/ Compare \/ SaveSnapshot \/ RecordError

-----------------------------------------------------------------------------
(* The node refresher.  DiscoverNodes answers with one node, "standalone"   *)
(* at s.addr: pruning with it never removes anything.  A failed discovery   *)
(* changes nothing modelled here.                                           *)

RefreshDiscover ==
    /\ refresher = "wait"
    /\ refreshAddr' = target
    /\ refresher' = "publish"
    /\ UNCHANGED <<sourceVars, node, storeVars, pass, uiVars, historyVars>>

(* Mutant: a list with the node ids of the old one is not published.        *)
PublishIfNewIds ==
    /\ refresher = "publish"
    /\ refresher' = "wait"
    /\ UNCHANGED <<sourceVars, node, storeVars, pass, refreshAddr, uiVars,
                   historyVars>>

RefreshPublish ==
    /\ refresher = "publish"
    /\ node' = refreshAddr
    /\ refresher' = "wait"
    /\ undone' = (ui = "shown" /\ refreshAddr # target)
    /\ UNCHANGED <<sourceVars, storeVars, pass, refreshAddr, uiVars, mixed, caught,
                   wasDown>>

-----------------------------------------------------------------------------
(* Engine.SetTarget, called from the UI on Enter.  Between two of them ui   *)
(* is `idle`, or `shown` when the last one succeeded.                       *)

CountCaught ==
    caught' = caught + IF pass.step = "fold" THEN 1 ELSE 0

(* Mutant: the baselines survive the switch.                                *)
KeepBaselines(a) ==
    /\ ui \in {"idle", "shown"}
    /\ switches < MaxSwitches
    /\ target' = a
    /\ ui' = "discover"
    /\ switches' = switches + 1
    /\ CountCaught
    /\ UNCHANGED <<panel, baseline, node, storeVars, pass, refreshVars, uiAddr,
                   mixed, wasDown, undone>>

(* Source.SetTarget: the client replaced, the baselines dropped.            *)
SwitchSource(a) ==
    /\ ui \in {"idle", "shown"}
    /\ switches < MaxSwitches
    /\ target' = a
    /\ baseline' = NoAddr
    /\ ui' = "discover"
    /\ switches' = switches + 1
    /\ CountCaught
    /\ UNCHANGED <<panel, node, storeVars, pass, refreshVars, uiAddr, mixed,
                   wasDown, undone>>

(* The discovery fails: SetTarget returns with the source switched and the  *)
(* old node list; the UI ignores the error.                                 *)
SetTargetFails ==
    /\ ui = "discover"
    /\ ui' = "idle"
    /\ UNCHANGED <<sourceVars, node, storeVars, pass, refreshVars, uiAddr,
                   switches, historyVars>>

SetTargetDiscover ==
    /\ ui = "discover"
    /\ uiAddr' = target
    /\ ui' = "publish"
    /\ UNCHANGED <<sourceVars, node, storeVars, pass, refreshVars, switches,
                   historyVars>>

(* Mutant: only the node ids are compared, and nothing is published.        *)
SetTargetKeepsList ==
    /\ ui = "publish"
    /\ ui' = "shown"
    /\ undone' = FALSE
    /\ UNCHANGED <<sourceVars, node, storeVars, pass, refreshVars, uiAddr, switches,
                   mixed, caught, wasDown>>

SetTargetPublish ==
    /\ ui = "publish"
    /\ node' = uiAddr
    /\ ui' = "shown"
    /\ undone' = FALSE
    /\ UNCHANGED <<sourceVars, storeVars, pass, refreshVars, uiAddr, switches,
                   mixed, caught, wasDown>>

-----------------------------------------------------------------------------

Refresh == RefreshDiscover \/ RefreshPublish

SetTarget == SetTargetFails \/ SetTargetDiscover \/ SetTargetPublish

Next ==
    \/ PassStep
    \/ Refresh
    \/ \E a \in Addrs : SwitchSource(a)
    \/ SetTarget

Safety == Init /\ [][Next]_vars

(* The panels and the refresher are polled for ever, and their requests     *)
(* time out; the user does not have to press a key.  A failed discovery is  *)
(* a stutter here (see RefreshDiscover), so fairness of Refresh assumes     *)
(* that the discovery of the connected server succeeds some time.           *)
Spec ==
    /\ Safety
    /\ WF_vars(PassStep)
    /\ WF_vars(Refresh)
    /\ WF_vars(SetTarget)

-----------------------------------------------------------------------------

(* Every variable has its type, and what is on its way to the store is an   *)
(* answer of some server.                                                   *)
TypeOK ==
    /\ panel \in Panels /\ target \in Addrs /\ baseline \in Addrs \cup {NoAddr}
    /\ node \in Addrs
    /\ store \in Snapshots
    /\ error \in BOOLEAN
    /\ pass \in [step : {"idle", "fold", "clear", "compare", "save", "fail"},
                snap : Snapshots]
    /\ pass.snap.from = NoAddr <=> pass.step \in {"idle", "fail"}
    /\ refresher \in {"wait", "publish"} /\ refreshAddr \in Addrs
    /\ ui \in {"idle", "discover", "publish", "shown"} /\ uiAddr \in Addrs
    /\ switches \in 0..MaxSwitches
    /\ mixed \in Nat /\ caught \in Nat
    /\ wasDown \subseteq Addrs /\ undone \in BOOLEAN

(* A rate or a "new" mark computed from two different servers can appear    *)
(* only after a switch that overtook an answer waiting for s.mu, and at     *)
(* most one per such switch: dropping the baselines under that mutex keeps  *)
(* every other one out.  The replication panel compares with the store,     *)
(* which no switch clears: there it is one per switch                       *)
(* (source.go:79-104, 286-289, 445-462; engine.go:188-193).                 *)
MixedOnlyIfCaught ==
    mixed <= IF panel = "replication" THEN switches ELSE caught

(* When the user leaves the target alone the program ends up on it, for     *)
(* good: the node list says so and the panel shows the target's data or     *)
(* an error, whatever was in flight in the refresher and the passes.        *)
FollowsTarget ==
    <>[](node = target /\ (store.from = target \/ error))

(* Once SetTarget has returned without an error the node list is the        *)
(* target's; nothing but a refresh that had asked the old target before the *)
(* switch, and publishes after it, takes that back, for one interval        *)
(* (engine.go:74-91, 129-154).                                              *)
ConnectedUnlessUndone == ui = "shown" /\ ~undone => node = target

(* README.md:185: a reconnect is recorded when a server's                   *)
(* master_link_down_since_seconds falls from above 60 to below 10.          *)
ReconnectIsReal ==
    store.reconnected => store.from \in wasDown

=============================================================================
