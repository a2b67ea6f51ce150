------------------------------ MODULE Topology ------------------------------
(***************************************************************************)
(* Panel 8 and the keys that move between servers: the tree with a digit   *)
(* beside each node (App.renderTopology), the list the digits are looked   *)
(* up in (App.topologyNodes), and the handlers of the digits, Enter and    *)
(* `m` in NewApp (internal/ui/app.go).  Without Cluster the tree is one    *)
(* node and the replicas its INFO replication names                        *)
(* (Source.FetchReplication); in a Cluster it is the list CLUSTER NODES    *)
(* answered with, in whatever order.                                       *)
(*                                                                         *)
(* Handlers and the redraw run on one event loop: each is a step.  The     *)
(* list and the snapshot are replaced by other goroutines; where a step    *)
(* reads them twice, what is published in between is part of the step.     *)
(* SetTarget is inside the steps of its keys, with the end it comes to;    *)
(* what may happen while it works is in module Target.                     *)
(***************************************************************************)
EXTENDS Naturals, Sequences, SequencesExt, FiniteSets

CONSTANTS
    Addrs,                  \* the servers; in a Cluster also the node ids
    Origin,                 \* the server of the command line
    NoAddr,                 \* the empty string
    Phantom,                \* ":", the address of a line that has none
    MaxFailovers            \* bound: changes of the replication

VARIABLES
    mode,                   \* "single" or "cluster": --cluster, never changed
    masterOf,               \* who replicates from whom; NoAddr: a master
    failovers,
    target,                 \* the server the source is connected to
    nodes,                  \* engine.Nodes()
    replication,            \* store.Replication: ConnectedSlaves and Replicas
    selectedPanel,          \* 8, 3 for those with an `m` of their own, 1 else
    selected,               \* topologySelectedNodeID
    masterAddr,
    screen                  \* the tree last drawn: the addresses it marks, the
                            \* selection it was drawn for, and whether that
                            \* moved in the list while the tree was drawn

worldVars == <<mode, masterOf, failovers>>
dataVars == <<target, nodes, replication>>
uiVars == <<selectedPanel, selected, masterAddr>>
vars == <<worldVars, dataVars, uiVars, screen>>

(* Replicas have masters; in single mode they may have replicas, and in a   *)
(* Cluster CLUSTER NODES may not know the master of one (Phantom here).     *)
Worlds(m) ==
    IF m = "single"
    THEN {w \in [Addrs -> Addrs \cup {NoAddr}] : \A a \in Addrs :
            w[a] # NoAddr => w[w[a]] = NoAddr \/ w[w[w[a]]] = NoAddr}
    ELSE {w \in [Addrs -> Addrs \cup {NoAddr, Phantom}] : \A a \in Addrs :
            w[a] \in Addrs => w[w[a]] = NoAddr}

Slaves(w, a) == {b \in Addrs : w[b] = a}

Node(id, addr, role, master) ==
    [id |-> id, addr |-> addr, role |-> role, master |-> master]

Replica(addr, master) == Node(addr, addr, "replica", master)

Standalone(a) == <<Node("standalone", a, "unknown", NoAddr)>>

(* A line of CLUSTER NODES.                                                 *)
ClusterNode(a, master) ==
    Node(a, a, IF master = NoAddr THEN "master" ELSE "replica",
         IF master = Phantom THEN NoAddr ELSE master)

(* DiscoverNodes: parseClusterNodes keeps the order of the reply.           *)
Discovered(w, a) ==
    IF mode = "single" THEN {Standalone(a)} ELSE
        {[i \in DOMAIN order |-> ClusterNode(order[i], w[order[i]])] :
            order \in SetToSeqs(Addrs)}

(* FetchReplication: every line of the reply that begins with "slave" is a  *)
(* replica, and the order is that of a Go map.  A replica's own reply has   *)
(* lines like slave_priority: they give one row without an address (one     *)
(* stands for all of them here).                                            *)
SlaveLines(w, a) == Slaves(w, a) \cup IF w[a] = NoAddr THEN {} ELSE {Phantom}

NoReplication == [connected |-> 0, replicas |-> <<>>]

Init ==
    /\ mode \in {"single", "cluster"}
    /\ masterOf \in Worlds(mode)
    /\ failovers = 0
    /\ target = Origin
    /\ nodes \in Discovered(masterOf, Origin)
    /\ replication = NoReplication
    /\ selectedPanel = 1 /\ selected = NoAddr /\ masterAddr = NoAddr
    /\ screen = [marks |-> {}, selected |-> NoAddr, moved |-> FALSE]

-----------------------------------------------------------------------------
(* The servers, the node refresher and the replication panel.               *)

(* Replica a takes the place of its master.                                 *)
Failover(a) ==
    /\ failovers < MaxFailovers
    /\ masterOf[a] \in Addrs
    /\ failovers' = failovers + 1
    /\ masterOf' = [b \in Addrs |->
            IF b = a THEN masterOf[masterOf[a]]
            ELSE IF masterOf[a] \in {b, masterOf[b]} THEN a ELSE masterOf[b]]
    /\ masterOf' \in Worlds(mode)
    /\ UNCHANGED <<mode, dataVars, uiVars, screen>>

(* What the refresher and the replication panel may publish next.           *)
NewLists == IF target = Phantom THEN {} ELSE Discovered(masterOf, target)

NewSnapshots ==
    IF mode # "single" \/ target = Phantom THEN {} ELSE
        {[connected |-> Cardinality(Slaves(masterOf, target)), replicas |-> rows] :
            rows \in SetToSeqs(SlaveLines(masterOf, target))}

Publish ==
    /\ nodes' \in NewLists \ {nodes}
    /\ UNCHANGED <<worldVars, target, replication, uiVars, screen>>

FetchReplication ==
    /\ replication' \in NewSnapshots \ {replication}
    /\ UNCHANGED <<worldVars, target, nodes, uiVars, screen>>

-----------------------------------------------------------------------------
(* The list behind the digits and the tree on the screen.                   *)

HasReplicas == Len(nodes) = 1 /\ replication.connected > 0

(* What the loops over the nodes append, as a function that proofs can open *)
(* (they cannot open SelectSeq).                                            *)
Those(list, chosen) ==
    LET kept[i \in 0..Len(list)] ==
            IF i = 0 THEN <<>>
            ELSE IF list[i] \in chosen THEN Append(kept[i - 1], list[i])
            ELSE kept[i - 1]
    IN  kept[Len(list)]

Masters == Those(nodes, {n \in ToSet(nodes) : n.role = "master"})

ReplicasOf(master) ==
    Those(nodes, {n \in ToSet(nodes) : n.role # "master" /\ n.master = master.id})

(* The node and the replicas of its snapshot.                               *)
Family ==
    nodes \o [i \in DOMAIN replication.replicas |->
                Replica(replication.replicas[i], nodes[1].id)]

(* Mutant: the replicas of every master follow.                             *)
AllReplicas ==
    IF HasReplicas THEN Family
    ELSE IF Len(nodes) = 1 THEN nodes ELSE
        Masters \o Those(nodes, {n \in ToSet(nodes) : n.role # "master"})

(* Without a master in the list its first node counts as one.               *)
Heads == IF Masters = <<>> THEN <<nodes[1]>> ELSE Masters

(* Only the first master's replicas follow the masters.                     *)
topologyNodes ==
    IF HasReplicas THEN Family
    ELSE IF Len(nodes) = 1 THEN nodes ELSE Heads \o ReplicasOf(Heads[1])

(* selectedIdx + 1, or 0: where a list has the selected node.               *)
Place(list) == SelectInSeq(list, LAMBDA n : n.id = selected)

SelectedIndex == Place(topologyNodes)

Row(index, digit, node) ==
    [digit |-> digit, node |-> node, marked |-> digit = index]

(* The rows of the tree, marked at an index.  Below each master the digits  *)
(* start anew.  A node without replicas is drawn without a mark.            *)
renderTopology(index) ==
    IF HasReplicas THEN {Row(index, i, Family[i]) : i \in DOMAIN Family}
    ELSE IF Len(nodes) = 1 THEN {[Row(index, 1, nodes[1]) EXCEPT !.marked = FALSE]}
    ELSE {Row(index, i, Heads[i]) : i \in DOMAIN Heads} \cup
         UNION {{Row(index, Len(Heads) + i, ReplicasOf(m)[i]) :
                    i \in DOMAIN ReplicasOf(m)} : m \in ToSet(Heads)}

Marks(index) == {r.node.addr : r \in {t \in renderTopology(index) : t.marked}}

(* The rows are those of one reading of the list and the snapshot, the      *)
(* index is that of a second one, which topologyNodes does for itself.      *)
(* What is published in between is in the primed variables.  Two readings   *)
(* are enough: within each, the list is read before the snapshot, and a     *)
(* snapshot (list) stored in between can as well be stored before (after)   *)
(* both, since neither depends on the other.                                *)
Draw ==
    /\ selectedPanel = 8
    /\ nodes' \in {nodes} \cup NewLists
    /\ replication' \in {replication} \cup NewSnapshots
    /\ UNCHANGED <<worldVars, target, uiVars>>
    /\ \E list \in {topologyNodes'} :
            screen' = [marks |-> Marks(Place(list)), selected |-> selected,
                       moved |-> Place(list) # SelectedIndex]
    /\ screen' # screen

-----------------------------------------------------------------------------
(* The keys.                                                                *)

(* Engine.SetTarget(a), its error ignored: the source is switched, the list *)
(* and its snapshots stay when the discovery fails.                         *)
SetTarget(a) ==
    /\ target' = a
    /\ \/ a # Phantom /\ nodes' \in Discovered(masterOf, a)
       \/ nodes' = nodes
    /\ UNCHANGED <<worldVars, replication>>

OtherPanel ==
    /\ selectedPanel # 8
    /\ selectedPanel' \in {1, 3}
    /\ UNCHANGED <<worldVars, dataVars, selected, masterAddr, screen>>

OpenTopology ==
    /\ selectedPanel # 8
    /\ selectedPanel' = 8 /\ selected' = NoAddr
    /\ UNCHANGED <<worldVars, dataVars, masterAddr, screen>>

PressDigit(d) ==
    /\ selectedPanel = 8
    /\ d \in DOMAIN topologyNodes
    /\ selected' = topologyNodes[d].id
    /\ UNCHANGED <<worldVars, dataVars, selectedPanel, masterAddr, screen>>

(* The first node of a list with role master or unknown.                    *)
FirstMaster(list) ==
    LET i == SelectInSeq(list, LAMBDA n : n.role \in {"master", "unknown"})
    IN  IF i = 0 THEN NoAddr ELSE list[i].addr

(* What masterAddr is, or becomes: Enter reads the list a second time for   *)
(* it, so that it may be the next one.                                      *)
Homes ==
    IF masterAddr # NoAddr THEN {masterAddr}
    ELSE {FirstMaster(list) : list \in {nodes} \cup NewLists}

(* Mutant: the node is remembered by its place in the list.                 *)
EnterByPlace ==
    /\ selectedPanel = 8
    /\ selectedPanel' = 1
    /\ IF SelectedIndex # 0 /\ SelectedIndex < Len(topologyNodes)
         THEN /\ masterAddr' \in Homes
              /\ SetTarget(topologyNodes[SelectedIndex + 1].addr)
         ELSE UNCHANGED <<worldVars, dataVars, masterAddr>>
    /\ UNCHANGED <<selected, screen>>

(* Mutant: every Enter remembers the node it leaves.                        *)
EnterForgets ==
    /\ selectedPanel = 8
    /\ selectedPanel' = 1
    /\ IF SelectedIndex # 0 /\ topologyNodes[SelectedIndex].role = "replica"
         THEN /\ masterAddr' = nodes[1].addr
              /\ SetTarget(topologyNodes[SelectedIndex].addr)
         ELSE UNCHANGED <<worldVars, dataVars, masterAddr>>
    /\ UNCHANGED <<selected, screen>>

(* Only a replica is connected to; the panel is left in any case.           *)
Enter ==
    /\ selectedPanel = 8
    /\ selectedPanel' = 1
    /\ IF SelectedIndex # 0 /\ topologyNodes[SelectedIndex].role = "replica"
         THEN /\ masterAddr' \in Homes
              /\ SetTarget(topologyNodes[SelectedIndex].addr)
         ELSE UNCHANGED <<worldVars, dataVars, masterAddr>>
    /\ UNCHANGED <<selected, screen>>

PressM ==
    /\ selectedPanel # 3 /\ masterAddr # NoAddr
    /\ SetTarget(masterAddr)
    /\ UNCHANGED <<uiVars, screen>>

Next ==
    \/ \E a \in Addrs : Failover(a)
    \/ Publish \/ FetchReplication \/ Draw
    \/ OtherPanel \/ OpenTopology \/ Enter \/ PressM
    \/ \E d \in 1..9 : PressDigit(d)

Spec == Init /\ [][Next]_vars

-----------------------------------------------------------------------------

(* Every variable has its type, and the list on the screen is of the mode.  *)
TypeOK ==
    /\ mode \in {"single", "cluster"}
    /\ masterOf \in Worlds(mode) /\ failovers \in 0..MaxFailovers
    /\ target \in Addrs \cup {Phantom}
    /\ Len(nodes) = IF mode = "single" THEN 1 ELSE Cardinality(Addrs)
    /\ ToSet(replication.replicas) \subseteq Addrs \cup {Phantom}
    /\ selectedPanel \in {1, 3, 8}
    /\ selected \in Addrs \cup {NoAddr, Phantom, "standalone"}
    /\ masterAddr \in Addrs \cup {NoAddr}
    /\ screen.marks \subseteq Addrs \cup {Phantom}

(* What the tree says and what the keys do agree, although two loops number *)
(* the nodes: a digit selects the node it stands beside, and the mark is at *)
(* the selected node.  The exception are the replicas of masters after the  *)
(* first: their digits begin anew, select a replica of the first master or  *)
(* nothing, and they are marked along with it (app.go:343-356, 442-504).    *)
TreeAgrees ==
    \A row \in renderTopology(SelectedIndex) :
        \/ /\ row.digit \in DOMAIN topologyNodes
           /\ topologyNodes[row.digit] = row.node
           /\ row.marked => row.node.id = selected
        \/ /\ row.node.role = "replica"
           /\ \E i \in DOMAIN Heads \ {1} : row.node.master = Heads[i].id

(* Enter connects to the node that is marked on the screen, also when the   *)
(* list or the snapshot has been replaced or reordered since it was drawn,  *)
(* as long as the selection is the one it was drawn for: the selection is   *)
(* an id, not a place (app.go:167-189).  The mark is wrong only if the      *)
(* selected node moved in the list between the two readings of one drawing: *)
(* it is then at the row that had the node's new place (app.go:370, 395     *)
(* against 289, 311), until the tree is drawn again.                        *)
EnterGoesToMarked ==
    [][Enter /\ target' # target /\ screen.selected = selected /\ ~screen.moved
        => screen.marks = {} \/ target' \in screen.marks]_vars

(* Without Cluster `m` leads back to the server the program was started     *)
(* with from wherever Enter has led, be it over replicas of replicas, a     *)
(* failover, or to an address that is none (app.go:150-155, 177-185).       *)
HomeIsOrigin ==
    mode = "single" => masterAddr \in {NoAddr, Origin}
                       /\ (target # Origin => masterAddr = Origin)

=============================================================================
