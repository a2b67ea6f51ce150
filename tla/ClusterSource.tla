--------------------------- MODULE ClusterSource ---------------------------
(***************************************************************************)
(* redis.Source with --cluster (internal/source/redis/source.go): the      *)
(* collectors reach every node through a client of its own.  nodeMu guards *)
(* the table of these clients and is held while a request is under way; mu *)
(* guards the baselines the command and slow log panels compare with.      *)
(* DiscoverNodes, for the node refresher or for Engine.SetTarget, brings   *)
(* the table up to date; under nodeMu alone it also deletes baselines.     *)
(*                                                                         *)
(* SetTarget connects to another node of the same cluster, so the client   *)
(* used for the discovery is not modelled, but for the failures it causes. *)
(***************************************************************************)
EXTENDS Integers, FiniteSets

CONSTANTS
    NodeIds,
    Addrs,
    Gone,                   \* no address: not a member, not listed, no client
    Panels,
    Folders,                \* the panels with a baseline
    Nobody,                 \* no holder of a mutex
    MaxChanges,             \* bound: membership changes
    MaxSwitches             \* bound: SetTarget calls

ASSUME ClusterSourceAssumption ==
    /\ NodeIds # {}
    /\ Gone \notin Addrs
    /\ Folders \subseteq Panels
    /\ Nobody \notin Panels \cup {"ui"} /\ "ui" \notin Panels
    /\ MaxChanges \in Nat /\ MaxSwitches \in Nat

Views == [NodeIds -> Addrs \cup {Gone}]

Discoverers == {"refresher", "ui"}

VARIABLES
    members,                \* the cluster: node -> address or Gone
    changes,                \* membership changes so far
    nodes,                  \* e.nodes
    clients,                \* s.nodeClients: node -> address of its client
    open,                   \* node -> connection pools not closed
    baseline,               \* nodes in lastCommandCalls / slowlogSeen
    nodeMu, mu,             \* holders
    pass,                   \* panel -> where its pass is, the nodes of its copy
                            \* of the list still to come, the node it is at
    discovery,              \* discoverer -> its step, what CLUSTER NODES said
    switches,               \* SetTarget calls so far
    crashed,                \* by a concurrent map access or a torn s.rdb
    dropped,                \* history: node -> pools SetTarget let go of
    overtaken               \* history: nodes whose client went away while an
                            \* answer of theirs was on its way to the baseline

clusterVars == <<members, changes>>
clientVars == <<clients, open>>
lockVars == <<nodeMu, mu>>
historyVars == <<dropped, overtaken>>
vars == <<clusterVars, nodes, clientVars, baseline, lockVars, pass, discovery,
          switches, crashed, historyVars>>

Listed(view) == {n \in NodeIds : view[n] # Gone}

NoNodes == [n \in NodeIds |-> Gone]

(* Engine.Start has discovered and published before anything polls.         *)
Init ==
    /\ members \in Views
    /\ changes = 0
    /\ nodes = members /\ clients = members
    /\ open = [n \in NodeIds |-> IF clients[n] = Gone THEN 0 ELSE 1]
    /\ baseline = {}
    /\ nodeMu = Nobody /\ mu = Nobody
    /\ pass \in [Panels -> {[step |-> "idle", view |-> NoNodes, node |-> n] :
                                n \in {CHOOSE n \in NodeIds : TRUE}}]
    /\ discovery = [d \in Discoverers |-> [step |-> "idle", found |-> NoNodes]]
    /\ switches = 0
    /\ crashed = FALSE
    /\ dropped = [n \in NodeIds |-> 0]
    /\ overtaken = {}

(* A node joins, leaves or moves to another address.                        *)
Change(n) ==
    /\ changes < MaxChanges
    /\ \E a \in (Addrs \cup {Gone}) \ {members[n]} :
            members' = [members EXCEPT ![n] = a]
    /\ changes' = changes + 1
    /\ UNCHANGED <<nodes, clientVars, baseline, lockVars, pass, discovery,
                   switches, crashed, historyVars>>

-----------------------------------------------------------------------------
(* The table of clients.                                                    *)

One(b) == IF b THEN 1 ELSE 0

(* Mutant: a client whose address changed is replaced without being closed. *)
ReplaceUnclosed(table) ==
    /\ clients' = table
    /\ open' = [n \in NodeIds |->
            open[n] - One(table[n] = Gone /\ clients[n] # Gone)
                    + One(table[n] \notin {clients[n], Gone})]

(* The clients become those of `table`: one for another address, or for a   *)
(* node that is not there, is closed, and missing ones are created.         *)
Replace(table) ==
    /\ clients' = table
    /\ open' = [n \in NodeIds |->
            open[n] - One(clients[n] \notin {table[n], Gone})
                    + One(table[n] \notin {clients[n], Gone})]

OnTheWay(n) ==
    \E p \in Folders : pass[p].step \in {"fold", "folding"} /\ pass[p].node = n

(* Mutant: the baselines are left behind.                                   *)
ForgetClients(removed) ==
    /\ baseline' = baseline
    /\ overtaken' = (overtaken \ removed) \cup {n \in removed : OnTheWay(n)}

(* The baselines of nodes whose client goes away go with it.                *)
Forget(removed) ==
    /\ baseline' = baseline \ removed
    /\ overtaken' = (overtaken \ removed) \cup {n \in removed : OnTheWay(n)}

-----------------------------------------------------------------------------
(* A pass of panel p: its copy of the node list, node by node.  Nodes that  *)
(* are not online are passed over, so a pass may end with some left.        *)

Goes(p, from, to) ==
    /\ pass[p].step = from
    /\ pass' = [pass EXCEPT ![p].step = to]

BeginPass(p) ==
    /\ pass[p].step = "idle"
    /\ pass' = [pass EXCEPT ![p].step = "next", ![p].view = nodes]
    /\ UNCHANGED <<clusterVars, nodes, clientVars, baseline, lockVars, discovery,
                   switches, crashed, historyVars>>

EndPass(p) ==
    /\ pass[p].step = "next"
    /\ pass' = [pass EXCEPT ![p].step = "idle", ![p].view = NoNodes]
    /\ UNCHANGED <<clusterVars, nodes, clientVars, baseline, lockVars, discovery,
                   switches, crashed, historyVars>>

(* Mutant: nodeMu guards the lookup of the client only.                     *)
RequestUnlocked(p, n) ==
    /\ pass[p].step = "next"
    /\ pass[p].view[n] # Gone
    /\ nodeMu = Nobody
    /\ Replace([clients EXCEPT ![n] = pass[p].view[n]])
    /\ pass' = [pass EXCEPT ![p].step = "call", ![p].node = n]
    /\ UNCHANGED <<clusterVars, nodes, baseline, lockVars, discovery, switches,
                   crashed, historyVars>>

(* withNodeClient: nodeMu is taken, the client found or made ...            *)
Request(p, n) ==
    /\ pass[p].step = "next"
    /\ pass[p].view[n] # Gone
    /\ nodeMu = Nobody
    /\ nodeMu' = p
    /\ Replace([clients EXCEPT ![n] = pass[p].view[n]])
    /\ pass' = [pass EXCEPT ![p].step = "call", ![p].node = n]
    /\ UNCHANGED <<clusterVars, nodes, baseline, mu, discovery, switches,
                   crashed, historyVars>>

(* Mutant: an error returns without releasing it.                           *)
AnswerKeepsMu(p) ==
    /\ pass[p].step = "call"
    /\ \/ p \in Folders /\ pass' = [pass EXCEPT ![p].step = "fold"]
       \/ pass' = [pass EXCEPT ![p].step = "next", ![p].view[pass[p].node] = Gone]
    /\ nodeMu' \in {Nobody, p}
    /\ UNCHANGED <<clusterVars, nodes, clientVars, baseline, mu, discovery,
                   switches, crashed, historyVars>>

(* ... and released with the answer.  Folders go on to their baseline, the  *)
(* others may have more requests for the same node: FetchBigKeys.           *)
Answer(p) ==
    /\ pass[p].step = "call"
    /\ \/ p \in Folders /\ pass' = [pass EXCEPT ![p].step = "fold"]
       \/ p \notin Folders /\ pass' = [pass EXCEPT ![p].step = "next"]
       \/ pass' = [pass EXCEPT ![p].step = "next", ![p].view[pass[p].node] = Gone]
    /\ nodeMu' = Nobody
    /\ UNCHANGED <<clusterVars, nodes, clientVars, baseline, mu, discovery,
                   switches, crashed, historyVars>>

(* Under mu, without nodeMu, the old baseline is read ...                   *)
Fold(p) ==
    /\ Goes(p, "fold", "folding")
    /\ mu = Nobody /\ mu' = p
    /\ UNCHANGED <<clusterVars, nodes, clientVars, baseline, nodeMu, discovery,
                   switches, crashed, historyVars>>

(* Mutant: the snapshot is finished with nodeMu held.                       *)
FoldUnderBoth(p) ==
    /\ pass[p].step = "folding"
    /\ nodeMu = Nobody
    /\ pass' = [pass EXCEPT ![p].step = "next", ![p].view[pass[p].node] = Gone]
    /\ baseline' = baseline \cup {pass[p].node}
    /\ mu' = Nobody
    /\ UNCHANGED <<clusterVars, nodes, clientVars, nodeMu, discovery, switches,
                   crashed, historyVars>>

(* ... and the new one written.                                             *)
Folded(p) ==
    /\ pass[p].step = "folding"
    /\ pass' = [pass EXCEPT ![p].step = "next", ![p].view[pass[p].node] = Gone]
    /\ baseline' = baseline \cup {pass[p].node}
    /\ mu' = Nobody
    /\ UNCHANGED <<clusterVars, nodes, clientVars, nodeMu, discovery, switches,
                   crashed, historyVars>>

-----------------------------------------------------------------------------
(* DiscoverNodes and the publication of what it returns.                    *)

(* Mutant: a failed CLUSTER NODES counts as an empty answer.              *)
AskErrIgnored(d) ==
    /\ discovery[d].step = "ask"
    /\ discovery' = [discovery EXCEPT ![d].step = "table"]
    /\ UNCHANGED <<clusterVars, nodes, clientVars, baseline, lockVars, pass,
                   switches, crashed, historyVars>>

(* CLUSTER NODES answers ...                                                *)
Ask(d) ==
    /\ discovery[d].step = "ask"
    /\ discovery' = [discovery EXCEPT ![d].step = "table", ![d].found = members]
    /\ UNCHANGED <<clusterVars, nodes, clientVars, baseline, lockVars, pass,
                   switches, crashed, historyVars>>

(* ... or fails, and nothing is updated or published.                       *)
AskFails(d) ==
    /\ discovery[d].step = "ask"
    /\ discovery' = [discovery EXCEPT ![d].step = "idle"]
    /\ UNCHANGED <<clusterVars, nodes, clientVars, baseline, lockVars, pass,
                   switches, crashed, historyVars>>

(* The nodes DiscoverNodes deletes from the maps: clients no longer listed. *)
Unlisted(d) == {n \in Listed(clients) : discovery[d].found[n] = Gone}

(* Mutant: clients of nodes that left the cluster are kept.                 *)
UpdateKeeps(d) ==
    /\ discovery[d].step = "table"
    /\ nodeMu = Nobody
    /\ Replace([n \in NodeIds |-> IF discovery[d].found[n] = Gone
                                  THEN clients[n] ELSE discovery[d].found[n]])
    /\ discovery' = [discovery EXCEPT ![d].step = "publish"]
    /\ UNCHANGED <<clusterVars, nodes, baseline, lockVars, pass, switches,
                   crashed, historyVars>>

(* The table is brought up to date under nodeMu.  A fold may hold mu at     *)
(* that moment: a delete is then a concurrent access to the map it uses,    *)
(* which ends the program when the runtime notices it.                      *)
Update(d) ==
    /\ discovery[d].step = "table"
    /\ nodeMu = Nobody
    /\ Replace(discovery[d].found)
    /\ Forget(Unlisted(d))
    /\ crashed' \in {FALSE, mu # Nobody /\ Unlisted(d) # {}}
    /\ discovery' = [discovery EXCEPT ![d].step = "publish"]
    /\ UNCHANGED <<clusterVars, nodes, lockVars, pass, switches, dropped>>

Publish(d) ==
    /\ discovery[d].step = "publish"
    /\ nodes' = discovery[d].found
    /\ discovery' = [discovery EXCEPT ![d] = [step |-> "idle", found |-> NoNodes]]
    /\ UNCHANGED <<clusterVars, clientVars, baseline, lockVars, pass, switches,
                   crashed, historyVars>>

Refresh ==
    /\ discovery["refresher"].step = "idle"
    /\ discovery' = [discovery EXCEPT !["refresher"].step = "ask"]
    /\ UNCHANGED <<clusterVars, nodes, clientVars, baseline, lockVars, pass,
                   switches, crashed, historyVars>>

(* Source.SetTarget on the UI's event loop: nodeMu first ...                *)
SetTarget ==
    /\ discovery["ui"].step = "idle"
    /\ switches < MaxSwitches
    /\ switches' = switches + 1
    /\ discovery' = [discovery EXCEPT !["ui"].step = "nodeMu"]
    /\ UNCHANGED <<clusterVars, nodes, clientVars, baseline, lockVars, pass,
                   crashed, historyVars>>

SetTargetLocks ==
    /\ discovery["ui"].step = "nodeMu"
    /\ nodeMu = Nobody /\ nodeMu' = "ui"
    /\ discovery' = [discovery EXCEPT !["ui"].step = "mu"]
    /\ UNCHANGED <<clusterVars, nodes, clientVars, baseline, mu, pass, switches,
                   crashed, historyVars>>

(* ... then mu: the tables are new, the old clients stay open.  The first   *)
(* time s.rdb goes from a client of the cluster to one of a single server,  *)
(* both words of the interface; the refresher's discovery reads it without  *)
(* a mutex and may take one word of each.                                   *)
SetTargetDrops ==
    /\ discovery["ui"].step = "mu"
    /\ mu = Nobody
    /\ nodeMu' = Nobody
    /\ clients' = NoNodes
    /\ dropped' = [n \in NodeIds |-> dropped[n] + One(clients[n] # Gone)]
    /\ Forget(NodeIds)
    /\ crashed' \in {FALSE, switches = 1 /\ discovery["refresher"].step = "ask"}
    /\ discovery' = [discovery EXCEPT !["ui"].step = "ask"]
    /\ UNCHANGED <<clusterVars, nodes, open, mu, pass, switches>>

-----------------------------------------------------------------------------

PassStep(p) ==
    \/ BeginPass(p) \/ EndPass(p) \/ Answer(p) \/ Fold(p) \/ Folded(p)
    \/ \E n \in NodeIds : Request(p, n)

Discover(d) == Ask(d) \/ AskFails(d) \/ Update(d) \/ Publish(d)

SwitchStep == SetTargetLocks \/ SetTargetDrops

Next ==
    /\ ~crashed
    /\ \/ \E n \in NodeIds : Change(n)
       \/ \E p \in Panels : PassStep(p)
       \/ \E d \in Discoverers : Discover(d)
       \/ Refresh \/ SetTarget \/ SwitchStep

Safety == Init /\ [][Next]_vars

(* Requests time out; and a pass makes a bounded number of them, so that it *)
(* ends: the fairness of EndPass.                                           *)
Answered(p) == Answer(p) \/ Fold(p) \/ Folded(p)

(* The cluster answers now and then.                                        *)
Discovers(d) == Ask(d) \/ Update(d) \/ Publish(d)

(* A mutex of Go goes to everyone who waits for it: strong fairness.  After *)
(* a crash nothing runs.                                                    *)
Fairness ==
    /\ \A p \in Panels :
        /\ WF_vars(~crashed /\ Answered(p))
        /\ SF_vars(~crashed /\ EndPass(p))
    /\ \A d \in Discoverers : SF_vars(~crashed /\ Discovers(d))
    /\ SF_vars(~crashed /\ SwitchStep)
    /\ WF_vars(~crashed /\ Refresh)

Spec == Safety /\ Fairness

-----------------------------------------------------------------------------

Steps == {"idle", "next", "call", "fold", "folding"}

(* Every variable has its type, and the mutexes are held exactly by those   *)
(* who are between taking and releasing them.                               *)
TypeOK ==
    /\ members \in Views /\ nodes \in Views /\ clients \in Views
    /\ changes \in 0..MaxChanges /\ switches \in 0..MaxSwitches
    /\ open \in [NodeIds -> Nat] /\ dropped \in [NodeIds -> Nat]
    /\ baseline \subseteq NodeIds /\ overtaken \subseteq NodeIds
    /\ nodeMu \in Panels \cup {"ui", Nobody} /\ mu \in Folders \cup {Nobody}
    /\ pass \in [Panels -> [step : Steps, view : Views, node : NodeIds]]
    /\ discovery \in [Discoverers ->
            [step : {"idle", "nodeMu", "mu", "ask", "table", "publish"},
             found : Views]]
    /\ \A p \in Panels : nodeMu = p <=> pass[p].step = "call"
    /\ nodeMu = "ui" <=> discovery["ui"].step = "mu"
    /\ \A p \in Panels : mu = p <=> pass[p].step = "folding"
    /\ crashed \in BOOLEAN

(* Connections do not pile up while nodes come, go, move and are looked up  *)
(* under old addresses: a node has the one pool in the table, and the ones  *)
(* SetTarget let go of without closing them (source.go:104, 137-150,        *)
(* 511-527).                                                                *)
OnePoolPerNode ==
    \A n \in NodeIds : open[n] = One(clients[n] # Gone) + dropped[n]

(* A baseline outlives its node's client only if a discovery or a switch    *)
(* overtook an answer on its way to it: it can then be years old when the   *)
(* node comes back (source.go:141-151, 286-289, 445-462).                   *)
BaselineIfOvertaken ==
    \A n \in baseline : clients[n] = Gone => n \in overtaken

(* The unguarded deletes of DiscoverNodes meet a fold only in a cluster     *)
(* whose membership changes; failed discoveries do not end the program, and *)
(* SetTarget only the first time, in the middle of a discovery              *)
(* (source.go:94, 142-150, 486, 505).                                       *)
CrashHasCause ==
    crashed =>
        \/ changes > 0
        \/ switches = 1 /\ \A d \in Discoverers : discovery[d].step = "ask"

(* Nobody closes or replaces a client while a request is under way on it    *)
(* (source.go:511-536).                                                     *)
ClientStaysDuringCall ==
    [][\A p \in Panels :
        pass[p].step = "call" /\ pass'[p].step = "call" =>
            clients'[pass[p].node] = clients[pass[p].node]]_vars

(* The event loop gets out of SetTarget, whatever holds the two mutexes     *)
(* (source.go:76-80, 529-536).                                              *)
SetTargetReturns ==
    discovery["ui"].step # "idle" ~> discovery["ui"].step = "idle" \/ crashed

(* Once the membership rests, the list and the clients are the cluster's,   *)
(* although stale passes bring clients of gone nodes and old addresses back *)
(* (source.go:121-153, 511-536).                                            *)
ClientsHeal == <>[](crashed \/ (nodes = members /\ clients = members))

=============================================================================
