---------------------------- MODULE ScreenProofs ----------------------------
(***************************************************************************)
(* What holds for every value of the constants of the topology panel and   *)
(* of MONITOR, and the types of all panels.                                *)
(***************************************************************************)
EXTENDS PanelsProofs

-----------------------------------------------------------------------------
(* The topology panel.                                                      *)

(* The loops keep elements of the list, those they are asked to keep.       *)
KeptSoFar(list, chosen, n, f) ==
    f = [i \in 0..n |->
            IF i = 0 THEN <<>>
            ELSE IF list[i] \in chosen THEN Append(f[i - 1], list[i])
            ELSE f[i - 1]]

LEMMA ThoseExist ==
  ASSUME NEW list, NEW chosen
  PROVE  \A n \in Nat : \E f : KeptSoFar(list, chosen, n, f)
<1> DEFINE T == {n \in Nat : \E f : KeptSoFar(list, chosen, n, f)}
<1>1. 0 \in T
  <2>1. KeptSoFar(list, chosen, 0, [i \in 0..0 |-> <<>>])
    BY DEF KeptSoFar
  <2> QED
    BY <2>1
<1>2. ASSUME NEW n \in Nat, n \in T PROVE n + 1 \in T
  <2>1. PICK f : KeptSoFar(list, chosen, n, f)
    BY <1>2
  <2> DEFINE last == IF list[n + 1] \in chosen THEN Append(f[n], list[n + 1])
                     ELSE f[n]
             g == [i \in 0..n + 1 |-> IF i = n + 1 THEN last ELSE f[i]]
  <2>2. \A i \in 0..n : f[i] = IF i = 0 THEN <<>>
                               ELSE IF list[i] \in chosen
                                    THEN Append(f[i - 1], list[i]) ELSE f[i - 1]
    BY <2>1 DEF KeptSoFar
  <2>3. \A i \in 1..n + 1 : g[i - 1] = f[i - 1]
    OBVIOUS
  <2>4. g = [i \in 0..n + 1 |->
                IF i = 0 THEN <<>>
                ELSE IF list[i] \in chosen THEN Append(g[i - 1], list[i])
                ELSE g[i - 1]]
    <3>1. ASSUME NEW i \in 0..n + 1
          PROVE  g[i] = IF i = 0 THEN <<>>
                        ELSE IF list[i] \in chosen THEN Append(g[i - 1], list[i])
                        ELSE g[i - 1]
      <4>1. CASE i = n + 1
        BY <2>3, <4>1
      <4>2. CASE i \in 0..n
        BY <2>2, <2>3, <4>2
      <4> QED
        BY <4>1, <4>2
    <3> HIDE DEF last
    <3> QED
      BY <3>1
  <2> HIDE DEF g
  <2>5. KeptSoFar(list, chosen, n + 1, g)
    BY <2>4 DEF KeptSoFar
  <2> QED
    BY <2>5
<1> HIDE DEF T
<1>3. Nat \subseteq T
  BY <1>1, <1>2, NumberInduction
<1> QED
  BY <1>3 DEF T

LEMMA ThoseKept ==
  ASSUME NEW S, NEW list \in Seq(S), NEW chosen
  PROVE  Topo!Those(list, chosen) \in Seq(S \cap chosen)
<1> DEFINE f == CHOOSE f : KeptSoFar(list, chosen, Len(list), f)
<1>1. Len(list) \in Nat
  OBVIOUS
<1>2. KeptSoFar(list, chosen, Len(list), f)
  BY <1>1, ThoseExist
<1>3. Topo!Those(list, chosen) = f[Len(list)]
  BY DEF Topo!Those, KeptSoFar
<1> HIDE DEF f
<1> DEFINE T == {n \in Nat : n <= Len(list) => f[n] \in Seq(S \cap chosen)}
<1>4. 0 \in T
  <2>1. f[0] = <<>>
    BY <1>1, <1>2 DEF KeptSoFar
  <2>2. <<>> \in Seq(S \cap chosen)
    OBVIOUS
  <2> QED
    BY <2>1, <2>2
<1>5. ASSUME NEW n \in Nat, n \in T PROVE n + 1 \in T
  <2> SUFFICES ASSUME n + 1 <= Len(list) PROVE f[n + 1] \in Seq(S \cap chosen)
    OBVIOUS
  <2>1. f[n] \in Seq(S \cap chosen) /\ list[n + 1] \in S
    BY <1>1, <1>5
  <2>2. f[n + 1] = IF list[n + 1] \in chosen THEN Append(f[n], list[n + 1]) ELSE f[n]
    <3>1. n + 1 \in 0..Len(list) /\ n + 1 # 0 /\ (n + 1) - 1 = n
      BY <1>1
    <3> QED
      BY <1>2, <3>1 DEF KeptSoFar
  <2> QED
    BY <2>1, <2>2, AppendProperties
<1> HIDE DEF T
<1>6. Nat \subseteq T
  BY <1>4, <1>5, NumberInduction
<1> QED
  BY <1>1, <1>3, <1>6 DEF T

(* A node of the tree: but for the one without Cluster, whose id is the     *)
(* same wherever it is, ids are addresses.                                  *)
TreeNode ==
    {n \in [id : Addrs \cup {Phantom, "standalone"}, addr : Addrs \cup {Phantom},
            role : {"unknown", "master", "replica"},
            master : Addrs \cup {NoAddr, Phantom, "standalone"}] :
        IF n.role = "unknown" THEN n.id = "standalone" ELSE n.id = n.addr}

(* Only a list of one node has a node whose role is not known.              *)
ListInv ==
    /\ nodes \in Seq(TreeNode) /\ Len(nodes) >= 1
    /\ Len(nodes) # 1 => \A i \in DOMAIN nodes : nodes[i].role # "unknown"
    /\ replication.replicas \in Seq(Addrs \cup {Phantom})

LEMMA FamilyNodes == ASSUME ListInv PROVE Topo!Family \in Seq(TreeNode)
<1> DEFINE rows == replication.replicas
           kin == [i \in DOMAIN rows |-> Topo!Replica(rows[i], nodes[1].id)]
<1>1. nodes \in Seq(TreeNode) /\ rows \in Seq(Addrs \cup {Phantom})
      /\ nodes[1].id \in Addrs \cup {Phantom, "standalone"}
  BY DEF ListInv, TreeNode
<1>2. \A a \in Addrs \cup {Phantom} : Topo!Replica(a, nodes[1].id) \in TreeNode
  BY <1>1 DEF Topo!Replica, Topo!Node, TreeNode
<1>3. kin \in Seq(TreeNode)
  BY <1>1, <1>2
<1> QED
  BY <1>1, <1>3, ConcatProperties DEF Topo!Family

LEMMA HeadNodes ==
  ASSUME ListInv
  PROVE  /\ Topo!Heads \in Seq(TreeNode) /\ Len(Topo!Heads) \in Nat \ {0}
         /\ Topo!Heads[1] \in TreeNode
<1>1. Topo!Masters \in Seq(TreeNode \cap {n \in Topo!ToSet(nodes) : n.role = "master"})
  BY ThoseKept DEF ListInv, Topo!Masters
<1>2. Topo!Masters \in Seq(TreeNode)
  BY <1>1
<1>3. nodes[1] \in TreeNode
  BY DEF ListInv
<1>4. Topo!Heads \in Seq(TreeNode) /\ Topo!Heads # <<>>
  BY <1>2, <1>3 DEF Topo!Heads
<1> QED
  BY <1>4

LEMMA ReplicaNodes ==
  ASSUME ListInv, NEW m
  PROVE  /\ Topo!ReplicasOf(m) \in Seq(TreeNode)
         /\ \A i \in DOMAIN Topo!ReplicasOf(m) :
                /\ Topo!ReplicasOf(m)[i].master = m.id
                /\ Len(nodes) # 1 => Topo!ReplicasOf(m)[i].role = "replica"
<1> DEFINE own == {n \in Topo!ToSet(nodes) : n.role # "master" /\ n.master = m.id}
<1>1. Topo!ReplicasOf(m) \in Seq(TreeNode \cap own)
  BY ThoseKept DEF ListInv, Topo!ReplicasOf
<1>2. ASSUME NEW n \in own, n \in TreeNode, Len(nodes) # 1 PROVE n.role = "replica"
  BY <1>2 DEF ListInv, Topo!ToSet, TreeNode
<1>3. ASSUME NEW n \in own PROVE n.master = m.id
  OBVIOUS
<1> HIDE DEF own
<1>4. Topo!ReplicasOf(m) \in Seq(TreeNode)
  BY <1>1
<1>5. \A i \in DOMAIN Topo!ReplicasOf(m) : Topo!ReplicasOf(m)[i] \in TreeNode \cap own
  BY <1>1
<1> QED
  BY <1>2, <1>3, <1>4, <1>5

LEMMA TreeNodes ==
  ASSUME ListInv
  PROVE  Topo!topologyNodes \in Seq(TreeNode)
<1>1. nodes \in Seq(TreeNode)
  BY DEF ListInv
<1>2. Topo!Heads \o Topo!ReplicasOf(Topo!Heads[1]) \in Seq(TreeNode)
  BY HeadNodes, ReplicaNodes, ConcatProperties
<1> QED
  BY <1>1, <1>2, FamilyNodes DEF Topo!topologyNodes

(* The index the keys and the tree look up is of the selected node, or 0.   *)
LEMMA IndexSelects ==
  ASSUME ListInv
  PROVE  /\ Topo!SelectedIndex \in 0..Len(Topo!topologyNodes)
         /\ Topo!SelectedIndex # 0 =>
                Topo!topologyNodes[Topo!SelectedIndex].id = selected
<1> DEFINE list == Topo!topologyNodes
           I == {i \in 1..Len(list) : list[i].id = selected}
<1>1. list \in Seq(TreeNode)
  BY TreeNodes
<1> HIDE DEF list
<1>2. Len(list) \in Nat
  BY <1>1
<1>3. Topo!SelectedIndex = IF I # {} THEN Topo!Min(I) ELSE 0
  BY DEF Topo!SelectedIndex, Topo!Place, Topo!SelectInSeq, list
<1>4. I # {} => Topo!Min(I) \in I
  <2> SUFFICES ASSUME I # {} PROVE Topo!Min(I) \in I
    OBVIOUS
  <2>1. \E m \in I : \A k \in I : m <= k
    <3>1. I \subseteq Nat
      BY <1>2
    <3> HIDE DEF I
    <3> QED
      BY <3>1, LeastNumber
  <2> HIDE DEF I
  <2> QED
    BY <2>1 DEF Topo!Min
<1>5. Topo!SelectedIndex # 0 => Topo!SelectedIndex \in I
  BY <1>3, <1>4
<1>6. I \subseteq 0..Len(list)
  BY <1>2
<1>7. Topo!SelectedIndex \in 0..Len(list)
  <2>1. 0 \in 0..Len(list)
    BY <1>2
  <2> HIDE DEF I
  <2> QED
    BY <1>5, <1>6, <2>1, Zenon
<1> QED
  BY <1>5, <1>7 DEF list

(* Where there is more than one node and no snapshot of replicas.           *)
LEMMA DigitsOfHeads ==
  ASSUME ListInv
  PROVE  LET heads == Topo!Heads
             first == Topo!ReplicasOf(heads[1])
         IN  /\ DOMAIN (heads \o first) = 1..Len(heads) + Len(first)
             /\ Len(heads) \in Nat \ {0} /\ Len(first) \in Nat
             /\ DOMAIN heads = 1..Len(heads) /\ DOMAIN first = 1..Len(first)
             /\ \A i \in DOMAIN heads : (heads \o first)[i] = heads[i]
             /\ \A i \in DOMAIN first : (heads \o first)[Len(heads) + i] = first[i]
<1> DEFINE heads == Topo!Heads
           first == Topo!ReplicasOf(heads[1])
<1>1. heads \in Seq(TreeNode) /\ first \in Seq(TreeNode) /\ Len(heads) \in Nat \ {0}
  BY HeadNodes, ReplicaNodes
<1> HIDE DEF heads, first
<1>2. \A i \in 1..Len(first) : (heads \o first)[Len(heads) + i] = first[i]
  BY <1>1
<1>3. /\ DOMAIN (heads \o first) = 1..Len(heads) + Len(first)
      /\ \A i \in 1..Len(heads) : (heads \o first)[i] = heads[i]
  BY <1>1
<1> QED
  BY <1>1, <1>2, <1>3 DEF heads, first

(* A node of the list in the tree has its digit ...                         *)
LEMMA DigitsOfRows ==
  ASSUME ListInv, NEW index, NEW row \in Topo!renderTopology(index)
  PROVE  \/ /\ row.digit \in DOMAIN Topo!topologyNodes
            /\ Topo!topologyNodes[row.digit] = row.node
            /\ row.marked => row.digit = index
         \/ /\ row.node.role = "replica"
            /\ \E i \in DOMAIN Topo!Heads \ {1} : row.node.master = Topo!Heads[i].id
<1> DEFINE heads == Topo!Heads
           first == Topo!ReplicasOf(heads[1])
<1>1. CASE Topo!HasReplicas
  <2>1. PICK i \in DOMAIN Topo!Family : row = Topo!Row(index, i, Topo!Family[i])
    BY <1>1 DEF Topo!renderTopology
  <2>2. row.digit = i /\ row.node = Topo!Family[i]
        /\ row.marked = (i = index)
    BY <2>1 DEF Topo!Row
  <2>3. Topo!topologyNodes = Topo!Family
    BY <1>1 DEF Topo!topologyNodes
  <2> QED
    BY <2>1, <2>2, <2>3
<1>2. CASE ~Topo!HasReplicas /\ Len(nodes) = 1
  <2>1. row = [Topo!Row(index, 1, nodes[1]) EXCEPT !.marked = FALSE]
    BY <1>2 DEF Topo!renderTopology
  <2>2. row.digit = 1 /\ row.node = nodes[1] /\ row.marked = FALSE
    BY <2>1 DEF Topo!Row
  <2>3. 1 \in DOMAIN nodes
    BY <1>2 DEF ListInv
  <2> QED
    BY <1>2, <2>2, <2>3 DEF Topo!topologyNodes
<1>3. CASE ~Topo!HasReplicas /\ Len(nodes) # 1
  <2>1. Topo!topologyNodes = heads \o first
    BY <1>3 DEF Topo!topologyNodes
  <2>2. \/ \E i \in DOMAIN heads : row = Topo!Row(index, i, heads[i])
        \/ \E k \in DOMAIN heads : \E i \in DOMAIN Topo!ReplicasOf(heads[k]) :
                row = Topo!Row(index, Len(heads) + i, Topo!ReplicasOf(heads[k])[i])
    BY <1>3 DEF Topo!renderTopology, Topo!ToSet
  <2>3. CASE \E i \in DOMAIN heads : row = Topo!Row(index, i, heads[i])
    <3>1. PICK i \in DOMAIN heads : row = Topo!Row(index, i, heads[i])
      BY <2>3
    <3>2. row.digit = i /\ row.node = heads[i] /\ row.marked = (i = index)
      BY <3>1 DEF Topo!Row
    <3>3. i \in DOMAIN (heads \o first) /\ (heads \o first)[i] = heads[i]
      BY DigitsOfHeads
    <3> QED
      BY <2>1, <3>2, <3>3
  <2>4. ASSUME NEW k \in DOMAIN heads, NEW i \in DOMAIN Topo!ReplicasOf(heads[k]),
               row = Topo!Row(index, Len(heads) + i, Topo!ReplicasOf(heads[k])[i])
        PROVE  \/ /\ row.digit \in DOMAIN Topo!topologyNodes
                  /\ Topo!topologyNodes[row.digit] = row.node
                  /\ row.marked => row.digit = index
               \/ /\ row.node.role = "replica"
                  /\ \E j \in DOMAIN heads \ {1} : row.node.master = heads[j].id
    <3>1. /\ row.digit = Len(heads) + i
          /\ row.node = Topo!ReplicasOf(heads[k])[i]
          /\ row.marked = (Len(heads) + i = index)
      BY <2>4 DEF Topo!Row
    <3>2. row.node.master = heads[k].id /\ row.node.role = "replica"
      BY <1>3, <3>1, ReplicaNodes
    <3>3. CASE k = 1
      <4>1. /\ Len(heads) + i \in DOMAIN (heads \o first)
            /\ (heads \o first)[Len(heads) + i] = first[i]
        BY <3>3, DigitsOfHeads
      <4> QED
        BY <2>1, <3>1, <3>3, <4>1
    <3> QED
      BY <3>2, <3>3
  <2> QED
    BY <2>2, <2>3, <2>4
<1> QED
  BY <1>1, <1>2, <1>3

(* ... and each node the digits can select is in the tree, unless the tree  *)
(* has no mark at all.                                                      *)
LEMMA RowsOfDigits ==
  ASSUME ListInv, NEW index, NEW d \in DOMAIN Topo!topologyNodes,
         NEW row \in Topo!renderTopology(index), row.marked
  PROVE  Topo!Row(index, d, Topo!topologyNodes[d]) \in Topo!renderTopology(index)
<1> DEFINE heads == Topo!Heads
           first == Topo!ReplicasOf(heads[1])
<1>1. CASE Topo!HasReplicas
  BY <1>1 DEF Topo!renderTopology, Topo!topologyNodes
<1>2. CASE ~Topo!HasReplicas /\ Len(nodes) = 1
  <2>1. row = [Topo!Row(index, 1, nodes[1]) EXCEPT !.marked = FALSE]
    BY <1>2 DEF Topo!renderTopology
  <2>2. row.marked = FALSE
    BY <2>1 DEF Topo!Row
  <2> QED
    BY <2>2
<1>3. CASE ~Topo!HasReplicas /\ Len(nodes) # 1
  <2>1. Topo!topologyNodes = heads \o first
    BY <1>3 DEF Topo!topologyNodes
  <2>2. Topo!renderTopology(index) =
            {Topo!Row(index, i, heads[i]) : i \in DOMAIN heads} \cup
            UNION {{Topo!Row(index, Len(heads) + i, Topo!ReplicasOf(m)[i]) :
                        i \in DOMAIN Topo!ReplicasOf(m)} : m \in Topo!ToSet(heads)}
    BY <1>3 DEF Topo!renderTopology
  <2>3. CASE d \in DOMAIN heads
    BY <2>1, <2>2, <2>3, DigitsOfHeads
  <2>4. CASE d \notin DOMAIN heads
    <3> DEFINE i == d - Len(heads)
    <3>1. i \in DOMAIN first /\ d = Len(heads) + i
      BY <2>1, <2>4, DigitsOfHeads
    <3>2. (heads \o first)[d] = first[i]
      BY <3>1, DigitsOfHeads
    <3>3. heads[1] \in Topo!ToSet(heads)
      BY DigitsOfHeads DEF Topo!ToSet
    <3>4. Topo!Row(index, Len(heads) + i, first[i]) \in Topo!renderTopology(index)
      BY <2>2, <3>1, <3>3
    <3> QED
      BY <2>1, <3>1, <3>2, <3>4
  <2> QED
    BY <2>3, <2>4
<1> QED
  BY <1>1, <1>2, <1>3

(* A list the source has answered with.                                     *)
NodesOf(list) ==
    /\ list \in Seq(TreeNode) /\ \A i \in DOMAIN list : list[i].addr \in Addrs
    /\ kind = "single" => Len(list) = 1
    /\ kind = "cluster" => /\ Len(list) = Cardinality(Addrs)
                           /\ \A i \in DOMAIN list : list[i].role # "unknown"

ServersInv ==
    /\ kind \in {"single", "cluster"}
    /\ masterOf \in Topo!Worlds(kind) /\ failovers \in 0..MaxFailovers
    /\ target \in Addrs \cup {Phantom}
    /\ replication.replicas \in Seq(Addrs \cup {Phantom})

(* Marks that were drawn for a node other than the one without Cluster, and *)
(* one that did not move while they were drawn, are there for its address,  *)
(* whatever else is marked along with it.                                   *)
ScreenInv ==
    /\ selectedPanel \in {1, 3, 8}
    /\ selected \in Addrs \cup {NoAddr, Phantom, "standalone"}
    /\ masterAddr \in Addrs \cup {NoAddr}
    /\ screen.marks \subseteq Addrs \cup {Phantom}
    /\ ~screen.moved /\ screen.marks # {} /\ screen.selected # "standalone" =>
            screen.selected \in screen.marks

TopologyInv == NodesOf(nodes) /\ ServersInv /\ ScreenInv

LEMMA ListOfInv == ASSUME TopologyInv PROVE ListInv
<1>1. Cardinality(Addrs) \in Nat \ {0}
  BY PanelsAssumption, FS_CardinalityType, FS_EmptySet
<1>2. /\ nodes \in Seq(TreeNode) /\ kind \in {"single", "cluster"}
      /\ replication.replicas \in Seq(Addrs \cup {Phantom})
  BY DEF TopologyInv, NodesOf, ServersInv
<1>3. CASE kind = "single"
  <2>1. Len(nodes) = 1
    BY <1>3 DEF TopologyInv, NodesOf
  <2> QED
    BY <1>2, <2>1 DEF ListInv
<1>4. CASE kind = "cluster"
  <2>1. /\ Len(nodes) = Cardinality(Addrs)
        /\ \A i \in DOMAIN nodes : nodes[i].role # "unknown"
    BY <1>4 DEF TopologyInv, NodesOf
  <2>2. Len(nodes) >= 1
    BY <1>1, <2>1
  <2> QED
    BY <1>2, <2>1, <2>2 DEF ListInv
<1> QED
  BY <1>2, <1>3, <1>4

LEMMA StandaloneNode ==
  ASSUME NEW a \in Addrs
  PROVE  /\ Topo!Standalone(a) \in Seq(TreeNode) /\ Len(Topo!Standalone(a)) = 1
         /\ Topo!Standalone(a)[1].addr = a
BY DEF Topo!Standalone, Topo!Node, TreeNode

LEMMA CountsOfTopology == \A T : Topo!Cardinality(T) = Cardinality(T)
BY DEF Topo!Cardinality, Cardinality

(* An order of a finite set is a sequence.                                  *)
LEMMA OrdersAreLists ==
  ASSUME NEW S, IsFiniteSet(S), NEW order \in Topo!SetToSeqs(S)
  PROVE  order \in Seq(S) /\ Len(order) = Cardinality(S)
<1>1. order \in [1..Cardinality(S) -> S]
  BY CountsOfTopology DEF Topo!SetToSeqs
<1>2. Cardinality(S) \in Nat
  BY FS_CardinalityType
<1> QED
  BY <1>1, <1>2

(* What a discovery answers with.                                           *)
LEMMA DiscoveredNodes ==
  ASSUME NEW a \in Addrs, NEW w \in Topo!Worlds(kind),
         kind \in {"single", "cluster"}, NEW list \in Topo!Discovered(w, a)
  PROVE  NodesOf(list)
<1>1. CASE kind = "single"
  BY <1>1, StandaloneNode DEF Topo!Discovered, NodesOf
<1>2. CASE kind = "cluster"
  <2>1. PICK order \in Topo!SetToSeqs(Addrs) :
            list = [i \in DOMAIN order |-> Topo!ClusterNode(order[i], w[order[i]])]
    BY <1>2 DEF Topo!Discovered
  <2>2. order \in Seq(Addrs) /\ Len(order) = Cardinality(Addrs)
    BY OrdersAreLists, PanelsAssumption
  <2>3. \A b \in Addrs : w[b] \in Addrs \cup {NoAddr, Phantom}
    BY <1>2 DEF Topo!Worlds
  <2>4. ASSUME NEW b \in Addrs
        PROVE  /\ Topo!ClusterNode(b, w[b]) \in TreeNode
               /\ Topo!ClusterNode(b, w[b]).role # "unknown"
               /\ Topo!ClusterNode(b, w[b]).addr \in Addrs
    BY <2>3 DEF Topo!ClusterNode, Topo!Node, TreeNode
  <2> QED
    BY <1>2, <2>1, <2>2, <2>4 DEF NodesOf
<1> QED
  BY <1>1, <1>2

LEMMA MarkedRows ==
  ASSUME ListInv, NEW index, NEW row \in Topo!renderTopology(index), row.marked
  PROVE  row.digit = index /\ row.digit # 0
<1>1. CASE Topo!HasReplicas
  <2>1. PICK i \in DOMAIN Topo!Family : row = Topo!Row(index, i, Topo!Family[i])
    BY <1>1 DEF Topo!renderTopology
  <2>2. row.digit = i /\ row.marked = (i = index)
    BY <2>1 DEF Topo!Row
  <2>3. i # 0
    BY FamilyNodes
  <2> QED
    BY <2>2, <2>3
<1>2. CASE ~Topo!HasReplicas /\ Len(nodes) = 1
  <2>1. row = [Topo!Row(index, 1, nodes[1]) EXCEPT !.marked = FALSE]
    BY <1>2 DEF Topo!renderTopology
  <2>2. row.marked = FALSE
    BY <2>1 DEF Topo!Row
  <2> QED
    BY <2>2
<1>3. CASE ~Topo!HasReplicas /\ Len(nodes) # 1
  <2> DEFINE heads == Topo!Heads
  <2>1. \/ \E i \in DOMAIN heads : row = Topo!Row(index, i, heads[i])
        \/ \E m : \E i \in DOMAIN Topo!ReplicasOf(m) :
                row = Topo!Row(index, Len(heads) + i, Topo!ReplicasOf(m)[i])
    BY <1>3 DEF Topo!renderTopology
  <2>2. CASE \E i \in DOMAIN heads : row = Topo!Row(index, i, heads[i])
    <3>1. PICK i \in DOMAIN heads : row = Topo!Row(index, i, heads[i])
      BY <2>2
    <3>2. row.digit = i /\ row.marked = (i = index)
      BY <3>1 DEF Topo!Row
    <3>3. i # 0
      BY DigitsOfHeads
    <3> QED
      BY <3>2, <3>3
  <2>3. ASSUME NEW m, NEW i \in DOMAIN Topo!ReplicasOf(m),
               row = Topo!Row(index, Len(heads) + i, Topo!ReplicasOf(m)[i])
        PROVE  row.digit = index /\ row.digit # 0
    <3>1. /\ row.digit = Len(heads) + i
          /\ row.marked = (Len(heads) + i = index)
      BY <2>3 DEF Topo!Row
    <3>2. Topo!ReplicasOf(m) \in Seq(TreeNode)
      BY ReplicaNodes
    <3>3. i \in Nat /\ Len(heads) \in Nat \ {0}
      BY <3>2, HeadNodes
    <3> HIDE DEF heads
    <3>4. Len(heads) + i # 0
      BY <3>3
    <3> QED
      BY <3>1, <3>4
  <2> QED
    BY <2>1, <2>2, <2>3
<1> QED
  BY <1>1, <1>2, <1>3

(* A tree marked at the place the selected node has in its own list has a   *)
(* mark at the address of that node, if it has one at all.                  *)
LEMMA DrawMarks ==
  ASSUME ListInv, selected # "standalone", Topo!Marks(Topo!SelectedIndex) # {}
  PROVE  selected \in Topo!Marks(Topo!SelectedIndex)
<1> DEFINE d == Topo!SelectedIndex
           list == Topo!topologyNodes
<1>1. PICK row \in Topo!renderTopology(d) : row.marked
  BY DEF Topo!Marks
<1>2. d # 0
  BY <1>1, MarkedRows
<1>3. d \in DOMAIN list /\ list[d].id = selected /\ list[d] \in TreeNode
  BY <1>2, IndexSelects, TreeNodes
<1>4. list[d].addr = selected
  BY <1>3 DEF TreeNode
<1>5. Topo!Row(d, d, list[d]) \in Topo!renderTopology(d)
  BY <1>1, <1>3, RowsOfDigits
<1>6. Topo!Row(d, d, list[d]).marked /\ Topo!Row(d, d, list[d]).node = list[d]
  BY DEF Topo!Row
<1> HIDE DEF d, list
<1>7. list[d].addr \in Topo!Marks(d)
  BY <1>5, <1>6 DEF Topo!Marks
<1> QED
  BY <1>4, <1>7 DEF d

LEMMA RowNodes ==
  ASSUME ListInv, NEW index, NEW row \in Topo!renderTopology(index)
  PROVE  row.node \in TreeNode
<1>1. CASE Topo!HasReplicas
  <2>1. PICK i \in DOMAIN Topo!Family : row = Topo!Row(index, i, Topo!Family[i])
    BY <1>1 DEF Topo!renderTopology
  <2> QED
    BY <2>1, FamilyNodes DEF Topo!Row
<1>2. CASE ~Topo!HasReplicas /\ Len(nodes) = 1
  <2>1. row.node = nodes[1]
    BY <1>2 DEF Topo!renderTopology, Topo!Row
  <2> QED
    BY <2>1 DEF ListInv
<1>3. CASE ~Topo!HasReplicas /\ Len(nodes) # 1
  <2> DEFINE heads == Topo!Heads
  <2>1. \/ \E i \in DOMAIN heads : row = Topo!Row(index, i, heads[i])
        \/ \E m : \E i \in DOMAIN Topo!ReplicasOf(m) :
                row = Topo!Row(index, Len(heads) + i, Topo!ReplicasOf(m)[i])
    BY <1>3 DEF Topo!renderTopology
  <2>2. (\E i \in DOMAIN heads : row.node = heads[i])
        \/ \E m : \E i \in DOMAIN Topo!ReplicasOf(m) : row.node = Topo!ReplicasOf(m)[i]
    BY <2>1 DEF Topo!Row
  <2>3. \A m : Topo!ReplicasOf(m) \in Seq(TreeNode)
    BY ReplicaNodes
  <2>4. heads \in Seq(TreeNode)
    BY HeadNodes
  <2> HIDE DEF heads
  <2> QED
    BY <2>2, <2>3, <2>4
<1> QED
  BY <1>1, <1>2, <1>3

LEMMA MarkTypes ==
  ASSUME ListInv, NEW index
  PROVE  Topo!Marks(index) \subseteq Addrs \cup {Phantom}
<1>1. \A r \in Topo!renderTopology(index) : r.node.addr \in Addrs \cup {Phantom}
  BY RowNodes DEF TreeNode
<1> QED
  BY <1>1 DEF Topo!Marks

(* What may be published.                                                   *)
LEMMA NewListNodes == ASSUME TopologyInv PROVE \A list \in Topo!NewLists : NodesOf(list)
<1>1. kind \in {"single", "cluster"} /\ masterOf \in Topo!Worlds(kind)
      /\ target \in Addrs \cup {Phantom}
  BY DEF TopologyInv, ServersInv
<1>2. ASSUME NEW list \in Topo!NewLists
      PROVE  target # Phantom /\ list \in Topo!Discovered(masterOf, target)
  BY DEF Topo!NewLists
<1> QED
  BY <1>1, <1>2, DiscoveredNodes

LEMMA NewSnapshotTypes ==
  ASSUME NEW snapshot \in Topo!NewSnapshots
  PROVE  snapshot.replicas \in Seq(Addrs \cup {Phantom})
<1>1. PICK rows \in Topo!SetToSeqs(Topo!SlaveLines(masterOf, target)) :
            snapshot.replicas = rows
  BY DEF Topo!NewSnapshots
<1>2. Topo!SlaveLines(masterOf, target) \subseteq Addrs \cup {Phantom}
  BY DEF Topo!SlaveLines, Topo!Slaves
<1>3. IsFiniteSet(Addrs \cup {Phantom})
  BY PanelsAssumption, FS_AddElement
<1>4. rows \in Seq(Topo!SlaveLines(masterOf, target))
  BY <1>2, <1>3, FS_Subset, OrdersAreLists
<1> QED
  BY <1>1, <1>2, <1>4

LEMMA MasterAddr ==
  ASSUME NEW list, NodesOf(list)
  PROVE  Topo!FirstMaster(list) \in Addrs \cup {NoAddr}
<1> DEFINE I == {i \in 1..Len(list) : list[i].role \in {"master", "unknown"}}
           i == Topo!SelectInSeq(list, LAMBDA n : n.role \in {"master", "unknown"})
<1>1. i = IF I # {} THEN Topo!Min(I) ELSE 0
  BY DEF Topo!SelectInSeq
<1>2. I # {} => Topo!Min(I) \in I
  <2> SUFFICES ASSUME I # {} PROVE Topo!Min(I) \in I
    OBVIOUS
  <2>1. \E m \in I : \A k \in I : m <= k
    <3>1. I \subseteq Nat
      BY DEF NodesOf
    <3> HIDE DEF I
    <3> QED
      BY <3>1, LeastNumber
  <2> HIDE DEF I
  <2> QED
    BY <2>1 DEF Topo!Min
<1>3. i # 0 => i \in DOMAIN list
  BY <1>1, <1>2 DEF NodesOf
<1>4. Topo!FirstMaster(list) = IF i = 0 THEN NoAddr ELSE list[i].addr
  BY DEF Topo!FirstMaster
<1> HIDE DEF i
<1> QED
  BY <1>3, <1>4 DEF NodesOf

LEMMA HomeAddrs == ASSUME TopologyInv PROVE Topo!Homes \subseteq Addrs \cup {NoAddr}
<1>1. masterAddr \in Addrs \cup {NoAddr}
  BY DEF TopologyInv, ScreenInv
<1>2. \A list \in {nodes} \cup Topo!NewLists :
        Topo!FirstMaster(list) \in Addrs \cup {NoAddr}
  BY NewListNodes, MasterAddr DEF TopologyInv
<1> QED
  BY <1>1, <1>2 DEF Topo!Homes

LEMMA Switched ==
  ASSUME TopologyInv, NEW a \in Addrs \cup {Phantom}, Topo!SetTarget(a)
  PROVE  NodesOf(nodes)' /\ ServersInv'
<1>1. /\ target' = a /\ UNCHANGED <<kind, masterOf, failovers, replication>>
      /\ (a \in Addrs /\ nodes' \in Topo!Discovered(masterOf, a)) \/ nodes' = nodes
  BY DEF Topo!SetTarget, Topo!worldVars
<1>2. NodesOf(nodes')
  BY <1>1, DiscoveredNodes DEF TopologyInv, ServersInv
<1>3. ServersInv'
  BY <1>1 DEF TopologyInv, ServersInv, Topo!Worlds
<1> QED
  BY <1>1, <1>2, <1>3 DEF NodesOf

LEMMA TopologyInit == Init => TopologyInv
<1> SUFFICES ASSUME Init PROVE TopologyInv
  OBVIOUS
<1>1. /\ kind \in {"single", "cluster"} /\ masterOf \in Topo!Worlds(kind)
      /\ failovers = 0 /\ target = Origin /\ nodes \in Topo!Discovered(masterOf, Origin)
      /\ replication = Topo!NoReplication
      /\ selectedPanel = 1 /\ selected = NoAddr /\ masterAddr = NoAddr
      /\ screen = [marks |-> {}, selected |-> NoAddr, moved |-> FALSE]
  BY DEF Init, Topo!Init
<1>2. NodesOf(nodes)
  BY <1>1, DiscoveredNodes, PanelsAssumption
<1>3. replication.replicas \in Seq(Addrs \cup {Phantom})
      /\ Topo!ToSet(replication.replicas) \subseteq Addrs \cup {Phantom}
  BY <1>1 DEF Topo!NoReplication, Topo!ToSet
<1>4. failovers \in 0..MaxFailovers
  BY <1>1, PanelsAssumption
<1> QED
  BY <1>1, <1>2, <1>3, <1>4, PanelsAssumption
     DEF TopologyInv, ServersInv, ScreenInv

LEMMA TopologyStep == ASSUME TopologyInv, [Next]_vars PROVE TopologyInv'
<1>0. ListInv /\ ServersInv /\ ScreenInv /\ NodesOf(nodes)
  BY ListOfInv DEF TopologyInv
<1>1. ASSUME NEW a \in Addrs, Topo!Failover(a) PROVE TopologyInv'
  <2>1. /\ failovers < MaxFailovers /\ failovers' = failovers + 1
        /\ masterOf' \in Topo!Worlds(kind)
        /\ UNCHANGED <<kind, target, nodes, replication, selectedPanel, selected,
                       masterAddr, screen>>
    BY <1>1 DEF Topo!Failover, Topo!dataVars, Topo!uiVars
  <2>2. failovers' \in 0..MaxFailovers
    <3>1. MaxFailovers \in Nat
      BY PanelsAssumption
    <3>2. failovers \in 0..MaxFailovers
      BY <1>0 DEF ServersInv
    <3> QED
      BY <2>1, <3>1, <3>2
  <2>3. Topo!Worlds(kind)' = Topo!Worlds(kind)
    BY <2>1 DEF Topo!Worlds
  <2> QED
    BY <1>0, <2>1, <2>2, <2>3 DEF TopologyInv, ServersInv, ScreenInv, NodesOf
<1>2. CASE Topo!Publish
  <2>1. /\ nodes' \in Topo!NewLists
        /\ UNCHANGED <<kind, masterOf, failovers, target, replication, selectedPanel,
                       selected, masterAddr, screen>>
    BY <1>2 DEF Topo!Publish, Topo!worldVars, Topo!uiVars
  <2>2. NodesOf(nodes')
    BY <2>1, NewListNodes
  <2> QED
    BY <1>0, <2>1, <2>2 DEF TopologyInv, ServersInv, ScreenInv, NodesOf
<1>3. CASE Topo!FetchReplication
  <2>1. replication'.replicas \in Seq(Addrs \cup {Phantom})
    BY <1>3, NewSnapshotTypes DEF Topo!FetchReplication
  <2>2. UNCHANGED <<kind, masterOf, failovers, target, nodes, selectedPanel,
                    selected, masterAddr, screen>>
    BY <1>3 DEF Topo!FetchReplication, Topo!worldVars, Topo!uiVars
  <2> QED
    BY <1>0, <2>1, <2>2 DEF TopologyInv, ServersInv, ScreenInv, NodesOf
<1>4. CASE Topo!Draw
  <2>1. /\ nodes' \in {nodes} \cup Topo!NewLists
        /\ replication' \in {replication} \cup Topo!NewSnapshots
        /\ UNCHANGED <<kind, masterOf, failovers, target, selectedPanel, selected,
                       masterAddr>>
    BY <1>4 DEF Topo!Draw, Topo!worldVars, Topo!uiVars
  <2>2. NodesOf(nodes')
    BY <1>0, <2>1, NewListNodes
  <2>3. replication'.replicas \in Seq(Addrs \cup {Phantom})
    BY <1>0, <2>1, NewSnapshotTypes DEF ServersInv
  <2>4. PICK index :
            screen' = [marks |-> Topo!Marks(index), selected |-> selected,
                       moved |-> index # Topo!SelectedIndex]
    BY <1>4 DEF Topo!Draw
  <2>5. screen'.marks \subseteq Addrs \cup {Phantom}
    BY <1>0, <2>4, MarkTypes
  <2>6. /\ screen'.selected = selected
        /\ ~screen'.moved => screen'.marks = Topo!Marks(Topo!SelectedIndex)
    BY <2>4
  <2>7. ~screen'.moved /\ screen'.marks # {} /\ selected # "standalone"
            => selected \in screen'.marks
    BY <1>0, <2>6, DrawMarks
  <2> QED
    BY <1>0, <2>1, <2>2, <2>3, <2>5, <2>6, <2>7
       DEF TopologyInv, ServersInv, ScreenInv, NodesOf
<1>5. CASE Topo!OtherPanel \/ Topo!OpenTopology
  <2>1. /\ selectedPanel' \in {1, 3, 8} /\ selected' \in {selected, NoAddr}
        /\ UNCHANGED <<kind, masterOf, failovers, target, nodes, replication,
                       masterAddr, screen>>
    BY <1>5 DEF Topo!OtherPanel, Topo!OpenTopology, Topo!worldVars, Topo!dataVars
  <2> QED
    BY <1>0, <2>1 DEF TopologyInv, ServersInv, ScreenInv, NodesOf
<1>6. ASSUME NEW d \in 1..9, Topo!PressDigit(d) PROVE TopologyInv'
  <2>1. /\ d \in DOMAIN Topo!topologyNodes /\ selected' = Topo!topologyNodes[d].id
        /\ UNCHANGED <<kind, masterOf, failovers, target, nodes, replication,
                       selectedPanel, masterAddr, screen>>
    BY <1>6 DEF Topo!PressDigit, Topo!worldVars, Topo!dataVars
  <2>2. selected' \in Addrs \cup {Phantom, "standalone"}
    BY <1>0, <2>1, TreeNodes DEF TreeNode
  <2> QED
    BY <1>0, <2>1, <2>2 DEF TopologyInv, ServersInv, ScreenInv, NodesOf
<1>7. CASE Topo!Enter
  <2>1. CASE UNCHANGED <<kind, masterOf, failovers, target, nodes, replication,
                         masterAddr>>
    <3>1. selectedPanel' = 1 /\ UNCHANGED <<selected, screen>>
      BY <1>7 DEF Topo!Enter
    <3> QED
      BY <1>0, <2>1, <3>1 DEF TopologyInv, ServersInv, ScreenInv, NodesOf
  <2>2. ASSUME NEW a \in Addrs \cup {Phantom}, Topo!SetTarget(a),
               masterAddr' \in Topo!Homes
        PROVE  TopologyInv'
    <3>1. selectedPanel' = 1 /\ UNCHANGED <<selected, screen>>
      BY <1>7 DEF Topo!Enter
    <3>2. masterAddr' \in Addrs \cup {NoAddr}
      BY <2>2, HomeAddrs
    <3> QED
      BY <1>0, <2>2, <3>1, <3>2, Switched DEF TopologyInv, ScreenInv
  <2>3. \/ UNCHANGED <<kind, masterOf, failovers, target, nodes, replication,
                       masterAddr>>
        \/ /\ Topo!SelectedIndex # 0 /\ masterAddr' \in Topo!Homes
           /\ Topo!SetTarget(Topo!topologyNodes[Topo!SelectedIndex].addr)
    BY <1>7 DEF Topo!Enter, Topo!worldVars, Topo!dataVars
  <2>4. Topo!SelectedIndex # 0 =>
            Topo!topologyNodes[Topo!SelectedIndex].addr \in Addrs \cup {Phantom}
    BY <1>0, IndexSelects, TreeNodes DEF TreeNode
  <2> QED
    BY <2>1, <2>2, <2>3, <2>4
<1>8. CASE Topo!PressM
  <2>1. masterAddr \in Addrs /\ Topo!SetTarget(masterAddr)
        /\ UNCHANGED <<selectedPanel, selected, masterAddr, screen>>
    BY <1>0, <1>8 DEF Topo!PressM, Topo!uiVars, ScreenInv
  <2> QED
    BY <1>0, <2>1, Switched DEF TopologyInv, ScreenInv
<1>9. CASE UNCHANGED topoVars
  BY <1>0, <1>9 DEF topoVars, TopologyInv, ServersInv, ScreenInv, NodesOf
<1> QED
  BY <1>1, <1>2, <1>3, <1>4, <1>5, <1>6, <1>7, <1>8, <1>9, OnePart DEF Topo!Next

LEMMA TopologyTyped == TopologyInv => Topo!TypeOK
<1> SUFFICES ASSUME TopologyInv PROVE Topo!TypeOK
  OBVIOUS
<1>1. Topo!ToSet(replication.replicas) \subseteq Addrs \cup {Phantom}
  BY DEF TopologyInv, ServersInv, Topo!ToSet
<1> QED
  BY <1>1, CountsOfTopology
     DEF TopologyInv, NodesOf, ServersInv, ScreenInv, Topo!TypeOK

(* The digits and the marks of the tree are those of the keys, for any      *)
(* servers, replication and order of the lists, and however old the list or *)
(* the snapshot is (app.go:343-356, 442-504).                               *)
THEOREM TreeAndKeysAgree == Spec => []TreeAgrees
<1>1. TopologyInv /\ [Next]_vars => TopologyInv'
  BY TopologyStep
<1>2. TopologyInv => TreeAgrees
  <2> SUFFICES ASSUME TopologyInv,
                  NEW row \in Topo!renderTopology(Topo!SelectedIndex)
               PROVE  \/ /\ row.digit \in DOMAIN Topo!topologyNodes
                         /\ Topo!topologyNodes[row.digit] = row.node
                         /\ row.marked => row.node.id = selected
                      \/ /\ row.node.role = "replica"
                         /\ \E i \in DOMAIN Topo!Heads \ {1} :
                                row.node.master = Topo!Heads[i].id
    BY DEF TreeAgrees, Topo!TreeAgrees
  <2>1. ListInv
    BY ListOfInv
  <2>2. row.marked => Topo!SelectedIndex # 0
    BY <2>1, MarkedRows
  <2> QED
    BY <2>1, <2>2, DigitsOfRows, IndexSelects
<1> QED
  BY <1>1, <1>2, TopologyInit, PTL DEF Spec

(* Enter goes to the marked node, however many failovers, polls and other   *)
(* changes of the list lie between the drawing and the key, and whatever is *)
(* published between the two readings of the drawing, if only the selected  *)
(* node keeps its place in between (app.go:167-189, 369-510).               *)
THEOREM EnterHitsMark == Spec => EnterGoesToMarked
<1>1. TopologyInv /\ [Next]_vars => TopologyInv'
  BY TopologyStep
<1>2. ASSUME TopologyInv, Topo!Enter, target' # target, screen.selected = selected,
             ~screen.moved
      PROVE  screen.marks = {} \/ target' \in screen.marks
  <2> DEFINE n == Topo!topologyNodes[Topo!SelectedIndex]
  <2>1. ListInv
    BY <1>2, ListOfInv
  <2>2. Topo!SelectedIndex # 0 /\ n.role = "replica" /\ target' = n.addr
    BY <1>2 DEF Topo!Enter, Topo!SetTarget, Topo!dataVars
  <2>3. n \in TreeNode /\ n.id = selected
    BY <2>1, <2>2, IndexSelects, TreeNodes
  <2>4. n.id = n.addr /\ n.addr \in Addrs \cup {Phantom}
    <3> HIDE DEF n
    <3> QED
      BY <2>2, <2>3 DEF TreeNode
  <2>5. selected # "standalone"
    BY <2>3, <2>4, PanelsAssumption
  <2> QED
    BY <1>2, <2>2, <2>3, <2>4, <2>5 DEF TopologyInv, ScreenInv
<1>3. TopologyInv /\ [Next]_vars =>
        [Topo!Enter /\ target' # target /\ screen.selected = selected /\ ~screen.moved
            => screen.marks = {} \/ target' \in screen.marks]_(Topo!vars)
  BY <1>2
<1> QED
  BY <1>1, <1>3, TopologyInit, PTL DEF Spec, EnterGoesToMarked, Topo!EnterGoesToMarked

(* Until Enter has connected to a replica for the first time, the program   *)
(* is where it was started and the list says so: that is when the address   *)
(* for `m` is taken from the list.                                          *)
HomeInv ==
    kind = "single" =>
        /\ masterAddr \in {NoAddr, Origin}
        /\ masterAddr = NoAddr => target = Origin /\ nodes = Topo!Standalone(Origin)

(* The first master of the list of one node is that node.                   *)
LEMMA MasterOfOne ==
  ASSUME NEW a PROVE Topo!FirstMaster(Topo!Standalone(a)) = a
<1> DEFINE list == Topo!Standalone(a)
           I == {i \in 1..Len(list) : list[i].role \in {"master", "unknown"}}
<1>1. Len(list) = 1 /\ list[1].role = "unknown" /\ list[1].addr = a
  BY DEF Topo!Standalone, Topo!Node
<1> HIDE DEF list
<1>2. I = {1}
  BY <1>1
<1>3. Topo!Min(I) = 1
  BY <1>2 DEF Topo!Min
<1>4. Topo!SelectInSeq(list, LAMBDA n : n.role \in {"master", "unknown"}) = 1
  BY <1>2, <1>3 DEF Topo!SelectInSeq
<1>5. Topo!FirstMaster(list) = a
  BY <1>1, <1>4 DEF Topo!FirstMaster
<1> QED
  BY <1>5 DEF list

(* Without Cluster the refresher only ever publishes the server itself.     *)
LEMMA NewListOfOne ==
  ASSUME kind = "single", NEW list \in Topo!NewLists
  PROVE  list = Topo!Standalone(target)
BY DEF Topo!NewLists, Topo!Discovered

LEMMA HomesOfOne ==
  ASSUME HomeInv, kind = "single"
  PROVE  Topo!Homes \subseteq {Origin}
<1>1. CASE masterAddr = NoAddr
  <2>1. nodes = Topo!Standalone(Origin) /\ target = Origin
    BY <1>1 DEF HomeInv
  <2>2. \A list \in {nodes} \cup Topo!NewLists : list = Topo!Standalone(Origin)
    BY <2>1, NewListOfOne
  <2>3. \A list \in {nodes} \cup Topo!NewLists : Topo!FirstMaster(list) = Origin
    BY <2>2, MasterOfOne
  <2> QED
    BY <1>1, <2>3 DEF Topo!Homes
<1>2. CASE masterAddr # NoAddr
  BY <1>2 DEF HomeInv, Topo!Homes
<1> QED
  BY <1>1, <1>2

LEMMA HomeStep == ASSUME HomeInv, [Next]_vars PROVE HomeInv'
<1> USE DEF Topo!worldVars, Topo!dataVars, Topo!uiVars
<1>1. CASE UNCHANGED <<kind, masterAddr, target, nodes>>
  BY <1>1 DEF HomeInv, Topo!Standalone, Topo!Node
<1>2. ASSUME kind' = kind, kind = "single" => masterAddr' = Origin PROVE HomeInv'
  <2>1. Origin # NoAddr
    BY PanelsAssumption
  <2> QED
    BY <1>2, <2>1 DEF HomeInv
<1>3. CASE (\E a \in Addrs : Topo!Failover(a)) \/ Topo!FetchReplication
           \/ Topo!OtherPanel \/ Topo!OpenTopology
           \/ (\E d \in 1..9 : Topo!PressDigit(d)) \/ UNCHANGED topoVars
  BY <1>1, <1>3 DEF Topo!Failover, Topo!FetchReplication, Topo!OtherPanel,
     Topo!OpenTopology, Topo!PressDigit, topoVars
<1>4. CASE Topo!Publish \/ Topo!Draw
  <2>1. /\ kind' = kind /\ masterAddr' = masterAddr /\ target' = target
        /\ nodes' \in {nodes} \cup Topo!NewLists
    BY <1>4 DEF Topo!Publish, Topo!Draw
  <2>2. kind = "single" => nodes' \in {nodes, Topo!Standalone(target)}
    BY <2>1, NewListOfOne
  <2> QED
    BY <2>1, <2>2 DEF HomeInv, Topo!Standalone, Topo!Node
<1>5. CASE Topo!Enter
  <2>1. kind' = kind
    BY <1>5 DEF Topo!Enter, Topo!SetTarget
  <2>2. masterAddr' \in Topo!Homes \/ UNCHANGED <<masterAddr, target, nodes>>
    BY <1>5 DEF Topo!Enter
  <2> QED
    BY <1>1, <1>2, <2>1, <2>2, HomesOfOne
<1>6. CASE Topo!PressM
  <2>1. kind' = kind /\ masterAddr' = masterAddr /\ masterAddr # NoAddr
    BY <1>6 DEF Topo!PressM, Topo!SetTarget
  <2> QED
    BY <1>2, <2>1 DEF HomeInv
<1> QED
  BY <1>3, <1>4, <1>5, <1>6, OnePart DEF Topo!Next

(* Without Cluster `m` leads back to where the program was started, for any *)
(* servers, replication, failovers and stale lists (app.go:150-155,         *)
(* 177-185).                                                                *)
THEOREM LeadsHome == Spec => []HomeIsOrigin
<1>1. Init => HomeInv
  BY DEF Init, Topo!Init, HomeInv, Topo!Discovered, Topo!Standalone, Topo!Node
<1>2. HomeInv /\ [Next]_vars => HomeInv'
  BY HomeStep
<1>3. HomeInv => HomeIsOrigin
  BY DEF HomeInv, HomeIsOrigin, Topo!HomeIsOrigin
<1> QED
  BY <1>1, <1>2, <1>3, PTL DEF Spec

-----------------------------------------------------------------------------
(* MONITOR: the ring.                                                       *)

(* The only facts about % that the buffer needs: its arguments lie in       *)
(* 0 .. 2 * Capacity - 1.                                                   *)
LEMMA ModSmall ==
  ASSUME NEW n \in Nat \ {0}, NEW x \in 0..(n - 1)
  PROVE  x % n = x
OBVIOUS

LEMMA ModWrap ==
  ASSUME NEW n \in Nat \ {0}, NEW x \in n..(2 * n - 1)
  PROVE  x % n = x - n
OBVIOUS

LEMMA Predecessor ==
  ASSUME NEW n \in Nat, NEW i \in 1..n
  PROVE  i - 1 \in 0..(n - 1)
OBVIOUS

(* head after an Add.                                                       *)
LEMMA HeadValue ==
  ASSUME NEW h \in 0..(Capacity - 1)
  PROVE  (h + 1) % Capacity = IF h + 1 < Capacity THEN h + 1 ELSE 0
<1>1. CASE h + 1 < Capacity
  BY <1>1, ModSmall, BufferAssumption
<1>2. CASE h + 1 = Capacity
  BY <1>2, ModWrap, BufferAssumption
<1>3. h + 1 <= Capacity
  BY BufferAssumption
<1>4. QED
  BY <1>1, <1>2, <1>3, BufferAssumption

(* Slot(i) without the %: a ring that is not full starts at slot 0, a full  *)
(* one at its head.                                                         *)
SlotOf(h, c, i) ==
    IF c < Capacity THEN i ELSE IF h + i < Capacity THEN h + i ELSE (h + i) - Capacity

LEMMA SlotValue ==
  ASSUME NEW h \in 0..(Capacity - 1), NEW c \in 0..Capacity, c < Capacity => h = c,
         NEW i \in 0..(c - 1)
  PROVE  (h - c + i + Capacity) % Capacity = SlotOf(h, c, i)
<1>1. CASE c < Capacity
  <2>1. h - c + i + Capacity = i + Capacity
    BY <1>1, BufferAssumption
  <2>2. i + Capacity \in Capacity..(2 * Capacity - 1)
    BY <1>1, BufferAssumption
  <2>3. (i + Capacity) % Capacity = i
    BY <2>2, ModWrap, BufferAssumption
  <2>4. QED
    BY <1>1, <2>1, <2>3 DEF SlotOf
<1>2. CASE c = Capacity
  <2>1. h - c + i + Capacity = h + i
    BY <1>2, BufferAssumption
  <2>2. CASE h + i < Capacity
    <3>1. h + i \in 0..(Capacity - 1)
      BY <1>2, <2>2, BufferAssumption
    <3>2. (h + i) % Capacity = h + i
      BY <3>1, ModSmall, BufferAssumption
    <3>3. SlotOf(h, c, i) = h + i
      BY <1>2, <2>2, BufferAssumption DEF SlotOf
    <3>4. QED
      BY <2>1, <3>2, <3>3, Zenon
  <2>3. CASE ~(h + i < Capacity)
    <3>1. h + i \in Capacity..(2 * Capacity - 1)
      BY <1>2, <2>3, BufferAssumption
    <3>2. \A x \in Capacity..(2 * Capacity - 1) : x % Capacity = x - Capacity
      BY ModWrap, BufferAssumption
    <3>3. (h + i) % Capacity = (h + i) - Capacity
      BY <3>1, <3>2, Zenon
    <3>4. SlotOf(h, c, i) = (h + i) - Capacity
      BY <1>2, <2>3, BufferAssumption DEF SlotOf
    <3>5. QED
      BY <2>1, <3>3, <3>4, Zenon
  <2>4. QED
    BY <2>2, <2>3
<1>3. QED
  BY <1>1, <1>2, BufferAssumption

(* Every slot has its type, and those never written are exactly those from  *)
(* the head on while the ring has not wrapped.                              *)
RingInv ==
    /\ events \in [0..(Capacity - 1) -> Event \cup {NoEvent}]
    /\ head \in 0..(Capacity - 1) /\ count \in 0..Capacity
    /\ count < Capacity => head = count
    /\ \A i \in 0..(Capacity - 1) : events[i] = NoEvent <=> i >= count

LEMMA RingInvIs == RingInv <=> Mon!Buf!IInv
BY DEF RingInv, Mon!Buf!IInv, Mon!Buf!TypeOK, Mon!Buf!Filled, Mon!Buf!Slots

LEMMA RingInit == Mon!Buf!Init => RingInv
BY BufferAssumption DEF Mon!Buf!Init, Mon!Buf!Slots, RingInv

LEMMA AddRing ==
  ASSUME RingInv, NEW e \in Event, Mon!Buf!Add(e)
  PROVE  RingInv'
<1>1. head' = IF head + 1 < Capacity THEN head + 1 ELSE 0
  BY HeadValue DEF RingInv, Mon!Buf!Add
<1>2. /\ events' \in [0..(Capacity - 1) -> Event \cup {NoEvent}]
      /\ head' \in 0..(Capacity - 1) /\ count' \in 0..Capacity
  BY <1>1, BufferAssumption DEF RingInv, Mon!Buf!Add
<1>3. (count < Capacity => head = count)'
  BY <1>1, BufferAssumption DEF RingInv, Mon!Buf!Add
<1>4. ASSUME NEW i \in 0..(Capacity - 1)
      PROVE  events'[i] = NoEvent <=> i >= count'
  <2>1. e # NoEvent
    BY BufferAssumption
  <2>2. events'[i] = IF i = head THEN e ELSE events[i]
    BY <1>4 DEF RingInv, Mon!Buf!Add
  <2>3. QED
    BY <2>1, <2>2, BufferAssumption DEF RingInv, Mon!Buf!Add
<1>5. QED
  BY <1>2, <1>3, <1>4 DEF RingInv

LEMMA EventsValue ==
  ASSUME RingInv
  PROVE  /\ Mon!Buf!Events \in Seq(Event \cup {NoEvent})
         /\ Len(Mon!Buf!Events) = count
         /\ \A i \in 1..count : Mon!Buf!Events[i] = events[SlotOf(head, count, i - 1)]
<1>1. ASSUME NEW i \in 1..count
      PROVE  Mon!Buf!Slot(i - 1) = SlotOf(head, count, i - 1)
  <2>1. i - 1 \in 0..(count - 1)
    BY <1>1 DEF RingInv
  <2>2. QED
    BY <2>1, SlotValue DEF RingInv, Mon!Buf!Slot
<1>2. ASSUME NEW i \in 1..count
      PROVE  SlotOf(head, count, i - 1) \in 0..(Capacity - 1)
  BY <1>2, BufferAssumption DEF RingInv, SlotOf
<1>3. \A i \in 1..count : events[Mon!Buf!Slot(i - 1)] \in Event \cup {NoEvent}
  BY <1>1, <1>2 DEF RingInv
<1>4. QED
  BY <1>1, <1>3 DEF Mon!Buf!Events, RingInv

LEMMA AddRefines ==
  ASSUME RingInv, NEW e \in Event, Mon!Buf!Add(e)
  PROVE  Mon!Buf!Events' = Mon!Buf!Abstract!Newest(Append(Mon!Buf!Events, e))
<1> USE BufferAssumption
<1>0. /\ count \in Nat /\ Capacity \in Nat
      /\ count < Capacity \/ count = Capacity
  BY DEF RingInv
<1>1. RingInv'
  BY AddRing
<1>2. head' = IF head + 1 < Capacity THEN head + 1 ELSE 0
  BY HeadValue DEF RingInv, Mon!Buf!Add
<1>3. /\ Mon!Buf!Events \in Seq(Event \cup {NoEvent})
      /\ Len(Mon!Buf!Events) = count
      /\ \A i \in 1..count : Mon!Buf!Events[i] = events[SlotOf(head, count, i - 1)]
  BY EventsValue
<1> DEFINE all == Append(Mon!Buf!Events, e)
<1>4. /\ all \in Seq(Event \cup {NoEvent})
      /\ Len(all) = count + 1
      /\ \A i \in 1..count : all[i] = Mon!Buf!Events[i]
      /\ all[count + 1] = e
  BY <1>3 DEF RingInv
<1>5. \A i \in 1..count' :
          Mon!Buf!Slot(i - 1)' = SlotOf(head', count', i - 1)
  <2> SUFFICES ASSUME NEW i \in 1..count'
               PROVE  Mon!Buf!Slot(i - 1)' = SlotOf(head', count', i - 1)
    OBVIOUS
  <2>1. /\ head' \in 0..(Capacity - 1) /\ count' \in 0..Capacity
        /\ count' < Capacity => head' = count'
    BY <1>1 DEF RingInv
  <2>2. count' \in Nat
    BY <2>1, BufferAssumption
  <2>3. i - 1 \in 0..(count' - 1)
    BY <2>2, Predecessor
  <2>4. QED
    BY <2>1, <2>3, SlotValue DEF Mon!Buf!Slot
<1>6. Mon!Buf!Events' = [i \in 1..count' |-> events'[SlotOf(head', count', i - 1)]]
  BY <1>5 DEF Mon!Buf!Events
<1>7. ASSUME NEW j \in 0..(Capacity - 1)
      PROVE  events'[j] = IF j = head THEN e ELSE events[j]
  BY <1>7 DEF RingInv, Mon!Buf!Add
<1>8. CASE count < Capacity
  <2>1. count' = count + 1 /\ head = count
    BY <1>8 DEF Mon!Buf!Add, RingInv, Mon!Buf!Filled
  <2>2. Mon!Buf!Abstract!Newest(all) = all
    BY <1>4, <1>8, BufferAssumption DEF Mon!Buf!Abstract!Newest, RingInv
  <2>3. ASSUME NEW i \in 1..(count + 1)
        PROVE  events'[SlotOf(head', count', i - 1)] = all[i]
    <3>1. SlotOf(head', count', i - 1) = i - 1
      BY <1>2, <1>8, <2>1, <2>3, BufferAssumption DEF SlotOf, RingInv
    <3>2. i - 1 \in 0..(Capacity - 1)
      BY <1>8, <2>3, BufferAssumption DEF RingInv
    <3>3. CASE i = count + 1
      BY <1>4, <1>7, <2>1, <3>1, <3>2, <3>3 DEF RingInv
    <3>4. CASE i \in 1..count
      BY <1>3, <1>4, <1>7, <1>8, <2>1, <3>1, <3>2, <3>4 DEF SlotOf, RingInv
    <3>5. QED
      <4>1. i = count + 1 \/ i \in 1..count
        BY <1>0, <2>3
      <4>2. QED
        BY <3>3, <3>4, <4>1, Zenon
  <2>4. Mon!Buf!Events' = [i \in 1..(count + 1) |-> all[i]]
    BY <1>6, <2>1, <2>3, Zenon
  <2>5. all = [i \in 1..(count + 1) |-> all[i]]
    BY <1>4, LenProperties
  <2>6. QED
    BY <2>2, <2>4, <2>5, Zenon
<1>9. CASE count = Capacity
  <2>1. count' = count
    BY <1>9, BufferAssumption DEF Mon!Buf!Add
  <2>2. Mon!Buf!Abstract!Newest(all) = Tail(all)
    BY <1>4, <1>9, BufferAssumption DEF Mon!Buf!Abstract!Newest
  <2>3. /\ Tail(all) \in Seq(Event \cup {NoEvent})
        /\ Len(Tail(all)) = count
        /\ \A i \in 1..count : Tail(all)[i] = all[i + 1]
    BY <1>4, <1>9, BufferAssumption
  <2>4. ASSUME NEW i \in 1..count
        PROVE  events'[SlotOf(head', count', i - 1)] = all[i + 1]
    <3> DEFINE j == SlotOf(head', count', i - 1)
    <3>1. CASE i = count
      <4>1. j = head
        BY <1>2, <1>9, <2>1, <3>1, BufferAssumption DEF SlotOf, RingInv
      <4>2. QED
        BY <1>4, <1>7, <3>1, <4>1 DEF RingInv
    <3>2. CASE i < count
      <4>1. j = SlotOf(head, count, i) /\ j # head /\ j \in 0..(Capacity - 1)
        BY <1>2, <1>9, <2>1, <2>4, <3>2, BufferAssumption DEF SlotOf, RingInv
      <4>2. i + 1 \in 1..count
        BY <2>4, <3>2 DEF RingInv
      <4>3. all[i + 1] = events[SlotOf(head, count, i)]
        BY <1>3, <1>4, <4>2
      <4>4. QED
        BY <1>7, <4>1, <4>3
    <3>3. QED
      <4>1. i = count \/ i < count
        BY <1>0, <2>4
      <4>2. QED
        BY <3>1, <3>2, <4>1, Zenon
  <2>5. Mon!Buf!Events' = [i \in 1..count |-> Tail(all)[i]]
    BY <1>6, <2>1, <2>3, <2>4, Zenon
  <2>6. Tail(all) = [i \in 1..count |-> Tail(all)[i]]
    BY <2>3, LenProperties
  <2>7. QED
    BY <2>2, <2>5, <2>6, Zenon
<1>10. QED
  BY <1>0, <1>8, <1>9, Zenon

Clocks == now \in 0..MaxNow /\ skew \in -MaxSkew..MaxSkew

LEMMA ClocksInit == Init => Clocks
BY PanelsAssumption DEF Init, Mon!Init, Clocks

LEMMA ClocksStep == ASSUME Clocks, [Next]_vars PROVE Clocks'
<1>0. MaxNow \in Nat
  BY PanelsAssumption
<1>1. CASE Mon!Next
  <2>1. CASE Mon!Tick
    BY <1>0, <2>1 DEF Mon!Tick, Clocks
  <2>2. CASE \E c \in Mon!Command : Mon!Line(c) \/ Mon!TornLine(c)
    BY <2>2 DEF Mon!Line, Mon!TornLine, Clocks
  <2> QED
    BY <1>1, <2>1, <2>2 DEF Mon!Next
<1>2. CASE UNCHANGED monVars
  BY <1>2 DEF monVars, Clocks
<1> QED
  BY <1>1, <1>2, OnePart

(* What is parsed is an event.                                              *)
LEMMA Parsed ==
  ASSUME Clocks, NEW c \in Mon!Command
  PROVE  /\ Mon!ParseLine(c, now + skew) \in Mon!MonitorEvent
         /\ Mon!ParseLine(c, Mon!Ancient) \in Mon!MonitorEvent
<1>1. now + skew \in -MaxSkew..MaxNow + MaxSkew
  BY PanelsAssumption DEF Clocks
<1>2. c.cmd \in {"get", "set"}
  BY DEF Mon!Command
<1> QED
  BY <1>1, <1>2 DEF Mon!ParseLine, Mon!MonitorEvent

LEMMA RingStep ==
  ASSUME Event = Mon!MonitorEvent, Clocks, [Next]_vars
  PROVE  (\E e \in Event : Mon!Buf!Add(e)) \/ UNCHANGED <<events, head, count>>
<1>1. ASSUME NEW c \in Mon!Command, Mon!Line(c) \/ Mon!TornLine(c)
      PROVE  (\E e \in Event : Mon!Buf!Add(e)) \/ UNCHANGED <<events, head, count>>
  BY <1>1, Parsed DEF Mon!Line, Mon!TornLine, Mon!ringVars
<1>2. CASE Mon!Tick \/ UNCHANGED monVars
  BY <1>2 DEF Mon!Tick, Mon!ringVars, monVars
<1> QED
  BY <1>1, <1>2, OnePart DEF Mon!Next

LEMMA RingStays ==
  ASSUME Event = Mon!MonitorEvent, Clocks, RingInv, [Next]_vars
  PROVE  RingInv'
<1>1. ASSUME UNCHANGED <<events, head, count>> PROVE RingInv'
  BY <1>1 DEF RingInv
<1>2. ASSUME NEW e \in Event, Mon!Buf!Add(e) PROVE RingInv'
  BY <1>2, AddRing
<1> QED
  BY <1>1, <1>2, RingStep

(* The slots written are those behind the head, for every capacity          *)
(* (buffer.go:31-41).                                                       *)
THEOREM RingInvariant ==
  ASSUME Event = Mon!MonitorEvent
  PROVE  Spec => [](Clocks /\ RingInv)
<1>1. Init => Clocks /\ RingInv
  BY ClocksInit, RingInit DEF Init, Mon!Init
<1>2. Clocks /\ RingInv /\ [Next]_vars => Clocks' /\ RingInv'
  BY ClocksStep, RingStays
<1> QED
  BY <1>1, <1>2, PTL DEF Spec

(* So no reader of the ring sees a slot that was never written              *)
(* (buffer.go:43-102).                                                      *)
THEOREM NoHoleRead ==
  ASSUME Event = Mon!MonitorEvent
  PROVE  Spec => []Mon!Buf!NoHole
<1>1. RingInv => Mon!Buf!NoHole
  <2> SUFFICES ASSUME RingInv, NEW i \in 0..(count - 1)
               PROVE  events[Mon!Buf!Slot(i)] \in Event
    BY DEF Mon!Buf!NoHole
  <2>1. Mon!Buf!Slot(i) = SlotOf(head, count, i)
    BY SlotValue DEF RingInv, Mon!Buf!Slot
  <2>2. Mon!Buf!Slot(i) \in 0..(Capacity - 1) /\ Mon!Buf!Slot(i) < count
    BY <2>1, BufferAssumption DEF RingInv, SlotOf
  <2>3. events[Mon!Buf!Slot(i)] # NoEvent
    BY <2>2, BufferAssumption DEF RingInv
  <2> QED
    BY <2>2, <2>3 DEF RingInv
<1> QED
  BY <1>1, RingInvariant, PTL

(* Whatever lines come, whole or torn, whatever the capacity, and however   *)
(* often the ring has wrapped, Events() is the newest events that were      *)
(* parsed, oldest first (buffer.go:43-62).                                  *)
THEOREM RingIsRecent ==
  ASSUME Event = Mon!MonitorEvent
  PROVE  Spec => ImplementsRecent
<1>1. Init => Mon!Buf!Abstract!Init
  BY DEF Init, Mon!Init, Mon!Buf!Init, Mon!Buf!Abstract!Init, Mon!Buf!Events
<1>2. Clocks /\ RingInv /\ [Next]_vars => [Mon!Buf!Abstract!Next]_(Mon!Buf!Events)
  <2> SUFFICES ASSUME Clocks, RingInv, [Next]_vars
               PROVE  [Mon!Buf!Abstract!Next]_(Mon!Buf!Events)
    OBVIOUS
  <2>1. ASSUME NEW e \in Event, Mon!Buf!Add(e) PROVE Mon!Buf!Abstract!Next
    BY <2>1, AddRefines DEF Mon!Buf!Abstract!Next, Mon!Buf!Abstract!Add
  <2>2. CASE UNCHANGED <<events, head, count>>
    BY <2>2 DEF Mon!Buf!Events, Mon!Buf!Slot
  <2> QED
    BY <2>1, <2>2, RingStep
<1> QED
  BY <1>1, <1>2, RingInvariant, PTL
     DEF Spec, ImplementsRecent, Mon!Buf!ImplementsRecent, Mon!Buf!Abstract!Spec

-----------------------------------------------------------------------------
(* MONITOR: the counts.                                                     *)

SentLine == [at : Int, cmd : {"get", "set"}, v6 : BOOLEAN, torn : BOOLEAN]

(* What the ring gets of a line, if anything.                               *)
EventOf(c) == Mon!ParseLine(c, IF c.torn THEN Mon!Ancient ELSE c.at + skew)

(* The i-th event of the ring is that of line src[i].  They are in order,   *)
(* and a whole line that has none was overwritten.                          *)
Sources(src) ==
    /\ src \in [1..count -> 1..Len(sent)]
    /\ \A i, j \in 1..count : i < j => src[i] < src[j]
    /\ \A i \in 1..count : src[i] + (count - i) <= Len(sent)
    /\ \A i \in 1..count : Mon!Buf!Events[i] = EventOf(sent[src[i]])
    /\ \A k \in 1..Len(sent) : ~sent[k].torn =>
            (\E i \in 1..count : src[i] = k) \/ (count = Capacity /\ k < src[1])

LinesInv == Clocks /\ RingInv /\ sent \in Seq(SentLine) /\ \E src : Sources(src)

(* The events after an Add: the new one last, the others moved up if the    *)
(* ring was full.                                                           *)
LEMMA EventsMove ==
  ASSUME RingInv, NEW e \in Event, Mon!Buf!Add(e)
  PROVE  /\ Mon!Buf!Events'[count'] = e
         /\ \A i \in 1..(count' - 1) :
                Mon!Buf!Events'[i] =
                    Mon!Buf!Events[IF count < Capacity THEN i ELSE i + 1]
<1> DEFINE all == Append(Mon!Buf!Events, e)
<1>1. /\ Mon!Buf!Events \in Seq(Event \cup {NoEvent})
      /\ Len(Mon!Buf!Events) = count
  BY EventsValue
<1>2. /\ all \in Seq(Event \cup {NoEvent}) /\ Len(all) = count + 1
      /\ \A i \in 1..count : all[i] = Mon!Buf!Events[i]
      /\ all[count + 1] = e
  BY <1>1
<1>3. Mon!Buf!Events' = IF count + 1 <= Capacity THEN all ELSE Tail(all)
  BY <1>2, AddRefines DEF Mon!Buf!Abstract!Newest
<1> HIDE DEF all
<1>4. count \in 0..Capacity /\ Capacity \in Nat \ {0}
  BY BufferAssumption DEF RingInv
<1>5. count' = IF count < Capacity THEN count + 1 ELSE count
  BY DEF Mon!Buf!Add
<1>6. CASE count < Capacity
  BY <1>2, <1>3, <1>4, <1>5, <1>6
<1>7. CASE count = Capacity
  <2>1. Len(Tail(all)) = count /\ \A i \in 1..count : Tail(all)[i] = all[i + 1]
    BY <1>2, <1>4, <1>7
  <2>2. Mon!Buf!Events' = Tail(all) /\ count' = count
    BY <1>3, <1>4, <1>5, <1>7
  <2> QED
    BY <1>2, <1>4, <1>7, <2>1, <2>2
<1> QED
  BY <1>4, <1>6, <1>7

LEMMA LastOrBefore ==
  ASSUME NEW n \in Nat
  PROVE  /\ \A i \in 1..n : i = n \/ i \in 1..(n - 1)
         /\ \A i, j \in 1..n : i < j => i \in 1..(n - 1)
OBVIOUS

(* A line that goes into the ring.                                          *)
LEMMA LineSources ==
  ASSUME LinesInv, NEW r \in SentLine, sent' = Append(sent, r), skew' = skew,
         EventOf(r) \in Event, Mon!Buf!Add(EventOf(r))
  PROVE  (\E src : Sources(src))'
<1>1. PICK src : Sources(src)
  BY DEF LinesInv
<1>2. count \in 0..Capacity /\ Capacity \in Nat \ {0}
  BY BufferAssumption DEF LinesInv, RingInv
<1> DEFINE d == IF count < Capacity THEN 0 ELSE 1
<1>3. d \in {0, 1} /\ count' = (count + 1) - d /\ (d = 1 <=> count = Capacity)
  BY <1>2 DEF Mon!Buf!Add
<1>4. /\ Len(sent) \in Nat /\ Len(sent') = Len(sent) + 1
      /\ \A k \in 1..Len(sent) : sent'[k] = sent[k]
      /\ sent'[Len(sent) + 1] = r
  BY DEF LinesInv
<1>5. /\ \A i \in 1..count : src[i] \in 1..Len(sent)
      /\ \A i, j \in 1..count : i < j => src[i] < src[j]
      /\ \A i \in 1..count : src[i] + (count - i) <= Len(sent)
  BY <1>1 DEF Sources
<1>6. /\ Mon!Buf!Events'[count'] = EventOf(r)
      /\ \A i \in 1..(count' - 1) : Mon!Buf!Events'[i] = Mon!Buf!Events[i + d]
  BY <1>2, EventsMove DEF LinesInv
<1> HIDE DEF d
<1>7. PICK next : next = [i \in 1..count' |->
                            IF i = count' THEN Len(sent) + 1 ELSE src[i + d]]
  OBVIOUS
<1>8. /\ count' \in 1..Capacity /\ next[count'] = Len(sent) + 1
      /\ \A i \in 1..(count' - 1) : next[i] = src[i + d] /\ i + d \in 1..count
  BY <1>2, <1>3, <1>7
<1>9. /\ count' \in Nat \ {0}
      /\ \A i \in 1..count' : i = count' \/ i \in 1..(count' - 1)
  <2>1. count' \in Nat \ {0}
    BY <1>2, <1>3
  <2> QED
    BY <2>1, LastOrBefore
<1>10. next \in [1..count' -> 1..Len(sent')]
  <2>1. ASSUME NEW i \in 1..count' PROVE next[i] \in 1..Len(sent')
    <3>1. CASE i = count'
      BY <1>4, <1>8, <3>1
    <3>2. CASE i \in 1..(count' - 1)
      <4>1. src[i + d] \in 1..Len(sent) /\ next[i] = src[i + d]
        BY <1>5, <1>8, <3>2
      <4> QED
        BY <1>4, <4>1
    <3> QED
      BY <1>9, <3>1, <3>2
  <2> QED
    BY <1>7, <2>1
<1>11. ASSUME NEW i \in 1..count', NEW j \in 1..count', i < j
       PROVE  next[i] < next[j]
  <2>1. i \in 1..(count' - 1)
    BY <1>9, <1>11, LastOrBefore
  <2>2. CASE j = count'
    <3>1. /\ src[i + d] \in 1..Len(sent) /\ next[i] = src[i + d]
          /\ next[j] = Len(sent) + 1
      BY <1>5, <1>8, <2>1, <2>2
    <3> QED
      BY <1>4, <3>1
  <2>3. CASE j \in 1..(count' - 1)
    <3>1. i + d < j + d
      BY <1>3, <1>11, <2>1, <2>3
    <3> QED
      BY <1>5, <1>8, <2>1, <2>3, <3>1
  <2> QED
    BY <1>9, <2>2, <2>3
<1>12. ASSUME NEW i \in 1..count'
       PROVE  next[i] + (count' - i) <= Len(sent')
  <2>1. CASE i = count'
    BY <1>4, <1>8, <2>1
  <2>2. CASE i \in 1..(count' - 1)
    <3>1. /\ src[i + d] \in 1..Len(sent)
          /\ src[i + d] + (count - (i + d)) <= Len(sent)
      BY <1>5, <1>8, <2>2
    <3> QED
      BY <1>2, <1>3, <1>4, <1>8, <2>2, <3>1
  <2> QED
    BY <1>9, <2>1, <2>2
<1>13. ASSUME NEW i \in 1..count'
       PROVE  Mon!Buf!Events'[i] = EventOf(sent'[next[i]])
  <2>1. CASE i = count'
    BY <1>4, <1>6, <1>8, <2>1
  <2>2. CASE i \in 1..(count' - 1)
    <3>1. i + d \in 1..count /\ next[i] = src[i + d]
      BY <1>8, <2>2
    <3>2. sent'[next[i]] = sent[src[i + d]]
      BY <1>4, <1>5, <3>1
    <3>3. Mon!Buf!Events[i + d] = EventOf(sent[src[i + d]])
      BY <1>1, <3>1 DEF Sources
    <3> QED
      BY <1>6, <2>2, <3>2, <3>3
  <2> QED
    BY <1>9, <2>1, <2>2
<1>14. ASSUME NEW k \in 1..Len(sent'), ~sent'[k].torn
       PROVE  (\E i \in 1..count' : next[i] = k) \/ (count' = Capacity /\ k < next[1])
  <2> DEFINE overwritten == count' = Capacity /\ k < next[1]
  <2>1. CASE k = Len(sent) + 1
    BY <1>8, <2>1
  <2>2. CASE k \in 1..Len(sent)
    <3>1. ~sent[k].torn
      BY <1>4, <1>14, <2>2
    (* What was the oldest line is older than what is the oldest.           *)
    <3>2. ASSUME count = Capacity, k <= src[1] PROVE overwritten
      <4>1. d = 1 /\ count' = Capacity /\ 1 \in 1..count
        BY <1>2, <1>3, <3>2
      <4>2. CASE count' = 1
        BY <1>8, <2>2, <4>1, <4>2
      <4>3. CASE count' # 1
        <5>1. 1 \in 1..(count' - 1) /\ next[1] = src[2] /\ 2 \in 1..count
          BY <1>2, <1>8, <4>1, <4>3
        <5>2. src[1] < src[2] /\ src[1] \in Nat /\ src[2] \in Nat
          BY <1>5, <4>1, <5>1
        <5> QED
          BY <2>2, <3>2, <4>1, <5>1, <5>2
      <4> QED
        BY <4>2, <4>3
    <3>3. ASSUME NEW i \in 1..count, src[i] = k, ~overwritten
          PROVE  \E j \in 1..count' : next[j] = k
      <4>1. i - d \in 1..(count' - 1)
        <5>1. d = 1 => i # 1
          <6>1. k <= k
            BY <2>2
          <6> QED
            BY <1>3, <3>2, <3>3, <6>1
        <5> QED
          BY <1>2, <1>3, <5>1
      <4>2. (i - d) + d = i /\ i - d \in 1..count'
        BY <1>3, <1>8, <4>1
      <4>3. next[i - d] = k
        BY <1>8, <3>3, <4>1, <4>2
      <4> QED
        BY <4>2, <4>3
    <3>4. (\E i \in 1..count : src[i] = k) \/ (count = Capacity /\ k < src[1])
      BY <1>1, <2>2, <3>1 DEF Sources
    <3>5. count = Capacity /\ k < src[1] => overwritten
      <4>1. count = Capacity => 1 \in 1..count
        BY <1>2
      <4> QED
        BY <1>5, <2>2, <3>2, <4>1
    <3> QED
      BY <3>3, <3>4, <3>5
  <2> QED
    BY <1>4, <2>1, <2>2
<1>15. \A i \in 1..count' : EventOf(sent[next[i]])' = EventOf(sent'[next[i]])
  BY DEF EventOf, Mon!ParseLine, Mon!Ancient
<1>16. Sources(next)'
  BY <1>10, <1>11, <1>12, <1>13, <1>14, <1>15 DEF Sources
<1> QED
  BY <1>16

(* A set whose elements can be told apart by elements of T.                 *)
LEMMA Matched ==
  ASSUME NEW S, NEW T, IsFiniteSet(T), NEW m,
         \A x \in S : m[x] \in T, \A x, y \in S : m[x] = m[y] => x = y
  PROVE  IsFiniteSet(S) /\ Cardinality(S) <= Cardinality(T)
<1> DEFINE f == [x \in S |-> m[x]]
<1>1. f \in [S -> T] /\ \A x, y \in S : f[x] = f[y] => x = y
  OBVIOUS
<1> HIDE DEF f
<1>2. f \in Injection(S, T)
  BY <1>1 DEF Injection, IsInjective
<1> QED
  BY <1>2, FS_Injection

(* One that does not, and so is whole no line, or the same lines.           *)
LEMMA SourcesStay ==
  ASSUME LinesInv, UNCHANGED <<events, head, count, skew>>,
         sent' = sent \/ \E r \in SentLine : r.torn /\ sent' = Append(sent, r)
  PROVE  (\E src : Sources(src))'
<1>1. PICK src : Sources(src)
  BY DEF LinesInv
<1>2. Mon!Buf!Events' = Mon!Buf!Events
  BY DEF Mon!Buf!Events, Mon!Buf!Slot
<1>3. /\ Len(sent) \in Nat /\ Len(sent') \in {Len(sent), Len(sent) + 1}
      /\ \A k \in 1..Len(sent) : sent'[k] = sent[k]
      /\ \A k \in 1..Len(sent') : k \in 1..Len(sent) \/ sent'[k].torn
  BY DEF LinesInv
<1>4. /\ \A i \in 1..count : src[i] \in 1..Len(sent)
      /\ count \in Nat
  BY <1>1, BufferAssumption DEF Sources, LinesInv, RingInv
<1>5. src \in [1..count -> 1..Len(sent')]
  <2>1. 1..Len(sent) \subseteq 1..Len(sent')
    BY <1>3
  <2> QED
    BY <1>1, <2>1 DEF Sources
<1>6. \A i \in 1..count : src[i] + (count - i) <= Len(sent')
  BY <1>1, <1>3, <1>4 DEF Sources
<1>7. \A i \in 1..count : Mon!Buf!Events[i] = EventOf(sent'[src[i]])
  BY <1>1, <1>3, <1>4 DEF Sources
<1>8. \A i \in 1..count : EventOf(sent[src[i]])' = EventOf(sent'[src[i]])
  BY DEF EventOf, Mon!ParseLine, Mon!Ancient
<1>9. \A k \in 1..Len(sent') : ~sent'[k].torn =>
            (\E i \in 1..count : src[i] = k) \/ (count = Capacity /\ k < src[1])
  BY <1>1, <1>3 DEF Sources
<1>10. Sources(src)'
  BY <1>1, <1>2, <1>5, <1>6, <1>7, <1>8, <1>9 DEF Sources
<1> QED
  BY <1>10

LEMMA LinesInit == Init => LinesInv
<1> SUFFICES ASSUME Init PROVE LinesInv
  OBVIOUS
<1>1. sent = <<>> /\ Mon!Buf!Init
  BY DEF Init, Mon!Init
<1>2. Sources([i \in 1..0 |-> 1])
  BY <1>1 DEF Mon!Buf!Init, Sources
<1>3. sent \in Seq(SentLine)
  BY <1>1
<1> QED
  BY <1>1, <1>2, <1>3, ClocksInit, RingInit DEF LinesInv

LEMMA LinesStep ==
  ASSUME Event = Mon!MonitorEvent, LinesInv, [Next]_vars
  PROVE  LinesInv'
<1>1. Clocks' /\ RingInv'
  BY ClocksStep, RingStays DEF LinesInv
<1>2. ASSUME NEW c \in Mon!Command, Mon!Line(c) \/ Mon!TornLine(c)
      PROVE  sent' \in Seq(SentLine) /\ (\E src : Sources(src))'
  <2> DEFINE whole == [at |-> now, cmd |-> c.cmd, v6 |-> c.v6, torn |-> FALSE]
             torn == [at |-> now, cmd |-> c.cmd, v6 |-> c.v6, torn |-> TRUE]
  <2>1. whole \in SentLine /\ torn \in SentLine /\ torn.torn
    <3>1. now \in Int /\ c.cmd \in {"get", "set"} /\ c.v6 \in BOOLEAN
      <4>1. now \in Int
        BY DEF LinesInv, Clocks
      <4>2. c.cmd \in {"get", "set"}
        BY DEF Mon!Command
      <4>3. c.v6 = TRUE \/ c.v6 = FALSE
        BY DEF Mon!Command
      <4> QED
        BY <4>1, <4>2, <4>3
    <3>2. whole \in SentLine
      BY <3>1 DEF SentLine
    <3>3. torn \in SentLine
      BY <3>1 DEF SentLine
    <3> QED
      BY <3>2, <3>3
  <2>2. /\ EventOf(whole) = Mon!ParseLine(c, now + skew)
        /\ EventOf(torn) = Mon!ParseLine(c, Mon!Ancient)
    BY DEF EventOf, Mon!ParseLine
  <2>3. EventOf(whole) \in Event /\ EventOf(torn) \in Event
    BY <2>2, Parsed DEF LinesInv
  <2>4. CASE Mon!Line(c)
    <3>1. sent' = Append(sent, whole) /\ skew' = skew
      BY <2>4 DEF Mon!Line, Mon!Sent
    <3>2. Mon!Buf!Add(EventOf(whole))
      BY <2>2, <2>4 DEF Mon!Line
    <3> HIDE DEF whole
    <3>3. sent' \in Seq(SentLine)
      BY <2>1, <3>1, AppendProperties DEF LinesInv
    <3> QED
      BY <2>1, <2>3, <3>1, <3>2, <3>3, LineSources
  <2>5. CASE Mon!TornLine(c)
    <3>1. sent' = Append(sent, torn) /\ skew' = skew
      BY <2>5 DEF Mon!TornLine, Mon!Sent
    <3>2. UNCHANGED <<events, head, count>> \/ Mon!Buf!Add(EventOf(torn))
      BY <2>2, <2>5 DEF Mon!TornLine, Mon!ringVars
    <3> HIDE DEF torn
    <3>3. sent' \in Seq(SentLine)
      BY <2>1, <3>1, AppendProperties DEF LinesInv
    <3>4. CASE UNCHANGED <<events, head, count>>
      BY <2>1, <3>1, <3>3, <3>4, SourcesStay
    <3>5. CASE Mon!Buf!Add(EventOf(torn))
      BY <2>1, <2>3, <3>1, <3>3, <3>5, LineSources
    <3> QED
      BY <3>2, <3>4, <3>5
  <2> QED
    BY <1>2, <2>4, <2>5
<1>3. ASSUME Mon!Tick \/ UNCHANGED monVars
      PROVE  sent' \in Seq(SentLine) /\ (\E src : Sources(src))'
  <2>1. UNCHANGED <<events, head, count, skew, sent>>
    BY <1>3 DEF Mon!Tick, Mon!ringVars, monVars
  <2> QED
    BY <2>1, SourcesStay DEF LinesInv
<1>4. sent' \in Seq(SentLine) /\ (\E src : Sources(src))'
  BY <1>2, <1>3, OnePart DEF Mon!Next
<1> QED
  BY <1>1, <1>4 DEF LinesInv

LEMMA CountsOfMonitor == \A T : Mon!Cardinality(T) = Cardinality(T)
BY DEF Mon!Cardinality, Cardinality

(* The window is one of whole lines.                                        *)
LEMMA InWindowIs ==
  ASSUME LinesInv, NEW src, Sources(src), NEW i \in 1..count
  PROVE  /\ Mon!InWindow(Mon!Buf!Events[i]) <=>
                ~sent[src[i]].torn /\ Mon!Recent(src[i])
         /\ Mon!Buf!Events[i].cmd =
                IF sent[src[i]].v6 THEN "" ELSE sent[src[i]].cmd
<1> DEFINE c == sent[src[i]]
<1>1. c \in SentLine /\ Mon!Buf!Events[i] = EventOf(c)
  <2>1. src[i] \in 1..Len(sent) /\ Mon!Buf!Events[i] = EventOf(c)
    BY DEF Sources
  <2> QED
    BY <2>1 DEF LinesInv
<1>2. Mon!Recent(src[i]) <=> now - c.at <= Window + skew
  BY DEF Mon!Recent
<1> HIDE DEF c
<1>3. /\ now \in Nat /\ skew \in Int /\ c.at \in Int /\ c.torn \in BOOLEAN
      /\ Window \in Nat /\ MaxSkew \in Nat
  BY <1>1, PanelsAssumption DEF LinesInv, Clocks, SentLine
<1>4. /\ Mon!Buf!Events[i].at = IF c.torn THEN Mon!Ancient ELSE c.at + skew
      /\ Mon!Buf!Events[i].cmd = IF c.v6 THEN "" ELSE c.cmd
  <2> DEFINE read == IF c.torn THEN Mon!Ancient ELSE c.at + skew
             cmd == IF c.v6 THEN "" ELSE c.cmd
  <2>1. EventOf(c) = [at |-> read, cmd |-> cmd]
    BY DEF EventOf, Mon!ParseLine
  <2> HIDE DEF read, cmd
  <2>2. EventOf(c).at = read /\ EventOf(c).cmd = cmd
    BY <2>1
  <2> QED
    BY <1>1, <2>2 DEF read, cmd
<1>5. CASE c.torn
  <2>1. Mon!Buf!Events[i].at = -1 - Window - MaxSkew
    BY <1>4, <1>5 DEF Mon!Ancient
  <2>2. ~(now - Mon!Buf!Events[i].at <= Window)
    BY <1>3, <2>1
  <2> QED
    BY <1>4, <1>5, <2>2 DEF Mon!InWindow, c
<1>6. CASE ~c.torn
  <2>1. Mon!Buf!Events[i].at = c.at + skew
    BY <1>4, <1>6
  <2>2. now - Mon!Buf!Events[i].at <= Window <=> now - c.at <= Window + skew
    BY <1>3, <2>1
  <2> QED
    BY <1>2, <1>4, <1>6, <2>2 DEF Mon!InWindow, c
<1> QED
  BY <1>5, <1>6

(* Every event of the window is a read or a write.                          *)
LEMMA ReadsAndWrites ==
  ASSUME LinesInv
  PROVE  /\ IsFiniteSet(Mon!EventsInWindow)
         /\ Mon!EventsInWindow \subseteq 1..count
         /\ Mon!Reads + Mon!Writes = Cardinality(Mon!EventsInWindow)
         /\ Mon!Reads \in Nat
<1> DEFINE W == Mon!EventsInWindow
           R == {i \in W : Mon!Buf!Events[i].cmd = "get"}
           S == {i \in W : Mon!Buf!Events[i].cmd # "get"}
<1>1. W \subseteq 1..count
  BY DEF Mon!EventsInWindow, Mon!Buf!Events
<1>2. count \in Nat
  BY BufferAssumption DEF LinesInv, RingInv
<1>3. Mon!Reads = Cardinality(R) /\ Mon!Writes = Cardinality(S)
  BY CountsOfMonitor DEF Mon!Reads, Mon!Writes
<1> HIDE DEF W
<1>4. R \cup S = W /\ R \cap S = {} /\ R \subseteq W /\ S \subseteq W
  OBVIOUS
<1> HIDE DEF R, S
<1>5. IsFiniteSet(1..count)
  BY <1>2, FS_Interval
<1>6. IsFiniteSet(W) /\ IsFiniteSet(R) /\ IsFiniteSet(S)
  BY <1>1, <1>4, <1>5, FS_Subset
<1>7. Cardinality(R) \in Nat /\ Cardinality(S) \in Nat
  BY <1>6, FS_CardinalityType
<1>8. Cardinality(W) = Cardinality(R) + Cardinality(S) - Cardinality({})
  BY <1>4, <1>6, FS_Union
<1>9. Cardinality(W) = Cardinality(R) + Cardinality(S)
  BY <1>7, <1>8, FS_EmptySet
<1> QED
  BY <1>1, <1>3, <1>6, <1>7, <1>9 DEF W

LEMMA CountsFit == ASSUME LinesInv PROVE CountsAreRecent
<1>1. PICK src : Sources(src)
  BY DEF LinesInv
<1> DEFINE W == Mon!EventsInWindow
           R == {i \in W : Mon!Buf!Events[i].cmd = "get"}
<1>2. /\ W \subseteq 1..count /\ IsFiniteSet(W) /\ IsFiniteSet(R)
      /\ Mon!Reads + Mon!Writes = Cardinality(W) /\ Mon!Reads = Cardinality(R)
  <2>1. IsFiniteSet(W) /\ R \subseteq W
    BY ReadsAndWrites
  <2>2. IsFiniteSet(R)
    BY <2>1, FS_Subset
  <2> QED
    BY <2>1, <2>2, ReadsAndWrites, CountsOfMonitor DEF Mon!Reads
<1>3. /\ Len(sent) \in Nat /\ DOMAIN sent = 1..Len(sent) /\ IsFiniteSet(DOMAIN sent)
      /\ \A k \in DOMAIN sent : sent[k] \in SentLine
  <2>1. Len(sent) \in Nat /\ DOMAIN sent = 1..Len(sent)
    BY DEF LinesInv
  <2>2. IsFiniteSet(1..Len(sent))
    BY <2>1, FS_Interval
  <2> QED
    BY <2>1, <2>2 DEF LinesInv
<1>4. \A i \in 1..count :
        /\ i \in W <=> ~sent[src[i]].torn /\ Mon!Recent(src[i])
        /\ Mon!Buf!Events[i].cmd = IF sent[src[i]].v6 THEN "" ELSE sent[src[i]].cmd
        /\ src[i] \in DOMAIN sent
  <2>1. DOMAIN Mon!Buf!Events = 1..count
    BY DEF Mon!Buf!Events
  <2> QED
    BY <1>1, <1>3, <2>1, InWindowIs DEF Mon!EventsInWindow, Sources
<1>5. \A i, j \in 1..count : src[i] = src[j] => i = j
  <2>1. /\ \A i, j \in 1..count : i < j => src[i] < src[j]
        /\ \A i \in 1..count : src[i] \in Nat
    BY <1>1, <1>3 DEF Sources
  <2>2. \A i, j \in 1..count : i < j \/ j < i \/ i = j
    OBVIOUS
  <2> QED
    BY <2>1, <2>2
<1> HIDE DEF W
<1>6. Mon!NothingFromOutside
  <2> DEFINE within == {i \in DOMAIN sent : Mon!Recent(i) /\ ~sent[i].torn}
             reads == {i \in within : sent[i].cmd = "get"}
  <2>1. IsFiniteSet(within) /\ IsFiniteSet(reads)
    BY <1>3, FS_Subset
  <2>2. \A i \in W : src[i] \in within
    BY <1>2, <1>4
  <2>3. \A i \in R : src[i] \in reads
    BY <1>2, <1>4
  <2>4. R \subseteq 1..count
    BY <1>2
  <2> HIDE DEF within, reads, R
  <2>5. Cardinality(W) <= Cardinality(within)
    BY <1>2, <1>5, <2>1, <2>2, Matched
  <2>6. Cardinality(R) <= Cardinality(reads)
    BY <1>5, <2>1, <2>3, <2>4, Matched
  <2> QED
    BY <1>2, <2>5, <2>6, CountsOfMonitor DEF Mon!NothingFromOutside, within, reads
<1>7. Mon!NothingLeftOut
  <2> DEFINE newest == {i \in DOMAIN sent : i > Len(sent) - Capacity}
             within == {i \in newest : Mon!Recent(i) /\ ~sent[i].torn}
             reads == {i \in within : sent[i].cmd = "get" /\ ~sent[i].v6}
             m == [k \in within |-> CHOOSE i \in 1..count : src[i] = k]
  <2>1. ASSUME NEW k \in within
        PROVE  m[k] \in 1..count /\ src[m[k]] = k
    <3>1. ~(count = Capacity /\ k < src[1])
      <4>1. SUFFICES ASSUME count = Capacity, k < src[1] PROVE FALSE
        OBVIOUS
      <4>2. Capacity \in Nat \ {0} /\ k \in Nat /\ k > Len(sent) - Capacity
        BY <1>3, BufferAssumption
      <4>3. src[1] \in Nat /\ src[1] + (count - 1) <= Len(sent)
        BY <1>1, <1>3, <4>1, <4>2 DEF Sources
      <4> QED
        BY <1>3, <4>1, <4>2, <4>3
    <3>2. \E i \in 1..count : src[i] = k
      BY <1>1, <1>3, <3>1 DEF Sources
    <3> QED
      BY <3>2
  <2>2. ASSUME NEW k \in within PROVE m[k] \in W
    <3>1. Mon!Recent(k) /\ ~sent[k].torn
      OBVIOUS
    <3> HIDE DEF m, within
    <3> QED
      BY <1>4, <2>1, <3>1
  <2>3. ASSUME NEW k \in reads PROVE m[k] \in R
    <3>1. k \in within /\ sent[k].cmd = "get" /\ ~sent[k].v6
      OBVIOUS
    <3> HIDE DEF m, within
    <3> QED
      BY <1>4, <2>1, <2>2, <3>1
  <2>4. \A k, l \in within : m[k] = m[l] => k = l
    BY <2>1
  <2>5. reads \subseteq within
    OBVIOUS
  <2> HIDE DEF m, within, reads, R
  <2>6. Cardinality(within) <= Cardinality(W)
    BY <1>2, <2>2, <2>4, Matched
  <2>7. Cardinality(reads) <= Cardinality(R)
    BY <1>2, <2>3, <2>4, <2>5, Matched
  <2>8. /\ Cardinality(within) \in Nat /\ Cardinality(W) \in Nat
        /\ Cardinality(reads) \in Nat /\ Cardinality(R) \in Nat
    <3>1. IsFiniteSet(within) /\ IsFiniteSet(reads)
      BY <1>3, FS_Subset DEF within, reads
    <3> QED
      BY <1>2, <3>1, FS_CardinalityType
  <2> QED
    BY <1>2, <2>6, <2>7, <2>8, CountsOfMonitor
       DEF Mon!NothingLeftOut, within, reads
<1> QED
  BY <1>6, <1>7 DEF CountsAreRecent

(* For every capacity, window, clock skew and sequence of lines, whole or   *)
(* torn, the counts are those of the window on the server's clock, less     *)
(* what was torn or overwritten (buffer.go:64-102, parser.go:20-30,         *)
(* stream.go:113-126).                                                      *)
THEOREM CountsAreOfWindow ==
  ASSUME Event = Mon!MonitorEvent
  PROVE  Spec => []CountsAreRecent
<1>1. LinesInv /\ [Next]_vars => LinesInv'
  BY LinesStep
<1>2. LinesInv => CountsAreRecent
  BY CountsFit
<1> QED
  BY <1>1, <1>2, LinesInit, PTL DEF Spec

-----------------------------------------------------------------------------
(* The types of the panels.                                                 *)

LEMMA SlowlogTyped == ASSUME Slow!TypeOK, [Next]_vars PROVE Slow!TypeOK'
<1> USE DEF Slow!TypeOK
<1>1. MaxBoots \in Nat /\ MaxIds \in Nat /\ boot \in Nat /\ nextId \in Nat
  BY PanelsAssumption
<1>2. CASE Slow!SlowCommand
  <2>1. [boot |-> boot, id |-> nextId] \in Slow!Entries
    BY <1>1, <1>2 DEF Slow!SlowCommand, Slow!Entries
  <2> QED
    BY <1>1, <1>2, <2>1 DEF Slow!SlowCommand, Slow!resultVars
<1>3. CASE Slow!ResetLog \/ Slow!ToggleSlowlogMode \/ Slow!Begin \/ Slow!FetchErr
           \/ UNCHANGED slowVars
  BY <1>3 DEF Slow!ResetLog, Slow!ToggleSlowlogMode, Slow!Begin, Slow!FetchErr,
     Slow!serverVars, Slow!resultVars, slowVars, Slow!Modes
<1>4. CASE Slow!Restart
  BY <1>1, <1>4 DEF Slow!Restart, Slow!resultVars
<1>5. CASE Slow!Poll
  <2> DEFINE items == Slow!Newest(log)
             rows == IF request = "new" THEN {e \in items : e.id \notin seen}
                     ELSE items
  <2>1. items \subseteq Slow!Entries /\ rows \subseteq Slow!Entries
    BY DEF Slow!Newest
  <2>2. Slow!Ids(items) \subseteq 0..MaxIds - 1
    BY <2>1 DEF Slow!Ids, Slow!Entries
  <2>3. /\ UNCHANGED <<boot, nextId, log, mode>>
        /\ request # "none" /\ request' = "none"
        /\ seen' = Slow!Ids(items)
        /\ slowlog' = [mode |-> request, rows |-> rows]
        /\ shown' = shown \cup rows
        /\ repeated' \subseteq repeated \cup rows
        /\ hidden' \subseteq hidden \cup items
    BY <1>5 DEF Slow!Poll, Slow!Remember, Slow!serverVars
  <2> HIDE DEF items, rows
  <2>4. slowlog' \in [mode : Slow!Modes \cup {"none"}, rows : SUBSET Slow!Entries]
    BY <2>1, <2>3
  <2>5. (shown \cup repeated \cup hidden)' \subseteq Slow!Entries
    BY <2>1, <2>3
  <2> QED
    BY <2>2, <2>3, <2>4, <2>5
<1> QED
  BY <1>2, <1>3, <1>4, <1>5, OnePart DEF Slow!Next

(* The request is built up setting by setting.                              *)
RequestInv ==
    /\ Cli!TypeOK
    /\ options \in Snapshots
    /\ step = "filter" => options.sort \in Sorts

LEMMA ClientsTyped == ASSUME RequestInv, [Next]_vars PROVE RequestInv'
<1> USE DEF RequestInv, Cli!TypeOK
<1>1. CASE Cli!SetClientSort \/ Cli!SetClientFilter
  <2>1. edits' = edits + 1 /\ edits < MaxEdits
    BY <1>1 DEF Cli!SetClientSort, Cli!SetClientFilter, Cli!Edited
  <2>2. edits' \in 0..MaxEdits
    BY <2>1, PanelsAssumption
  <2>3. /\ sort' \in Sorts /\ filter' \in Filters
        /\ {clean, settled, steady, current}' = {FALSE}
        /\ UNCHANGED <<connected, clients, age, step, options>>
    BY <1>1 DEF Cli!SetClientSort, Cli!SetClientFilter, Cli!Edited, Cli!storeVars,
       Cli!passVars
  <2> QED
    BY <2>2, <2>3
<1>2. CASE Cli!SaveDashboard \/ Cli!Tick \/ UNCHANGED cliVars
  BY <1>2 DEF Cli!SaveDashboard, Cli!Tick, cliVars, Cli!settingVars, Cli!passVars,
     Cli!historyVars, Cli!MaxAge
<1>3. CASE Cli!Begin \/ Cli!Throttle \/ Cli!CompareSort \/ Cli!CompareFilter
  BY <1>3 DEF Cli!Begin, Cli!Throttle, Cli!CompareSort, Cli!CompareFilter,
     Cli!Quiet, Cli!settingVars, Cli!storeVars, Cli!historyVars
<1>4. CASE Cli!ReadSort
  <2>1. options' \in Snapshots /\ options'.sort \in Sorts
    BY <1>4 DEF Cli!ReadSort, Snapshots
  <2> QED
    BY <1>4, <2>1 DEF Cli!ReadSort, Cli!settingVars, Cli!storeVars, Cli!historyVars
<1>5. CASE Cli!ReadFilter
  <2>1. options' \in Snapshots /\ options' \in Cli!Settings
    BY <1>5 DEF Cli!ReadFilter, Snapshots, Cli!Settings
  <2> QED
    BY <1>5, <2>1 DEF Cli!ReadFilter, Cli!settingVars, Cli!storeVars,
       Cli!historyVars
<1>6. CASE Cli!SaveClients \/ Cli!FetchErr
  <2>1. Cli!NoSnapshot \in Snapshots
    BY DEF Cli!NoSnapshot, Snapshots
  <2> QED
    BY <1>6, <2>1 DEF Cli!SaveClients, Cli!FetchErr, Cli!settingVars,
       Cli!storeVars, Cli!historyVars, Cli!MaxAge
<1> QED
  BY <1>1, <1>2, <1>3, <1>4, <1>5, <1>6, OnePart DEF Cli!Next

(* The bounds of the calls, which the rates do not depend on.               *)
CallsInv ==
    /\ calls \in [Cmds -> 0..MaxCalls] /\ made \in [Cmds -> 0..MaxCalls]
    /\ resets \in 0..MaxResets /\ sampled \in 0..MaxPause
    /\ \A c \in Cmds : calls[c] <= made[c]

LEMMA CommandsTyped ==
  ASSUME CallsInv, [Next]_vars
  PROVE  CallsInv'
<1>1. {MaxCalls, MaxResets, MaxPause} \subseteq Nat
  BY PanelsAssumption
<1>2. CASE \E c \in Cmds : Com!Call(c)
  <2>1. PICK c \in Cmds : Com!Call(c)
    BY <1>2
  <2>2. /\ made[c] < MaxCalls
        /\ calls' = [calls EXCEPT ![c] = calls[c] + 1]
        /\ made' = [made EXCEPT ![c] = made[c] + 1]
        /\ UNCHANGED <<resets, sampled>>
    BY <2>1 DEF Com!Call
  <2>3. /\ calls[c] + 1 \in 0..MaxCalls /\ made[c] + 1 \in 0..MaxCalls
        /\ calls[c] + 1 <= made[c] + 1
    BY <1>1, <2>2 DEF CallsInv
  <2> QED
    BY <2>2, <2>3 DEF CallsInv
<1>3. CASE Com!ResetStat
  BY <1>1, <1>3 DEF Com!ResetStat, Com!Zero, CallsInv
<1>4. CASE Com!Tick \/ Com!Answer \/ Com!FetchErr \/ Com!Fold \/ UNCHANGED comVars
  <2>1. UNCHANGED <<calls, made, resets>>
    BY <1>4 DEF Com!Tick, Com!Answer, Com!FetchErr, Com!Fold, Com!serverVars, comVars
  <2>2. sampled' \in 0..MaxPause
    BY <1>1, <1>4 DEF CallsInv, Com!Tick, Com!Answer, Com!FetchErr, Com!Fold,
       Com!SampleNow, comVars
  <2> QED
    BY <2>1, <2>2 DEF CallsInv
<1> QED
  BY <1>2, <1>3, <1>4, OnePart DEF Com!Next

LEMMA AnswersTyped == ASSUME CallsInv, RatesInv PROVE Com!TypeOK
<1>1. Timeout \in Nat /\ sampled \in Nat
  BY PanelsAssumption DEF CallsInv
<1>2. reply.age \in -1..Timeout
  BY <1>1 DEF RatesInv, AnswerAges, Com!NoAnswer
<1>3. baseline = Com!NoAnswer \/ baseline.age \in sampled..sampled + Timeout
  <2>1. baseline.age \in Int
    BY DEF RatesInv, AnswerTypes, AnswerType
  <2> QED
    BY <1>1, <2>1 DEF RatesInv, AnswerAges
<1> QED
  BY <1>2, <1>3 DEF CallsInv, Com!TypeOK

FlagsInv == flags \in [Conf!Flags -> Conf!Values] /\ given \in 0..MaxFlags

LEMMA SettingsTyped == ASSUME FlagsInv, [Next]_vars PROVE FlagsInv'
<1>1. MaxFlags \in Nat
  BY PanelsAssumption
<1>2. CASE Conf!Next
  BY <1>1, <1>2 DEF Conf!Next, Conf!Parse, Conf!Start, Conf!Restart, Conf!NoFlags,
     Conf!Values, FlagsInv
<1>3. CASE UNCHANGED confVars
  BY <1>3 DEF confVars, FlagsInv
<1> QED
  BY <1>2, <1>3, OnePart

(* The bound of the lines a run of the model sends.                         *)
SentInv == Len(sent) <= MaxLines

LEMMA SentTyped == ASSUME SentInv, LinesInv, [Next]_vars PROVE SentInv'
<1>1. MaxLines \in Nat /\ Len(sent) \in Nat
  BY PanelsAssumption DEF LinesInv
<1>2. ASSUME NEW c \in Mon!Command, NEW torn, Mon!Sent(c, torn) PROVE SentInv'
  <2>1. Len(sent) < MaxLines /\ Len(sent') = Len(sent) + 1
    BY <1>2, AppendProperties DEF Mon!Sent, LinesInv
  <2> QED
    BY <1>1, <2>1 DEF SentInv
<1>3. CASE Mon!Tick \/ UNCHANGED monVars
  BY <1>3 DEF Mon!Tick, monVars, SentInv
<1> QED
  BY <1>2, <1>3, OnePart DEF Mon!Next, Mon!Line, Mon!TornLine

TypeInv ==
    /\ Slow!TypeOK /\ RequestInv
    /\ KeysInv
    /\ CallsInv /\ RatesInv
    /\ ListingInv
    /\ SentInv /\ LinesInv
    /\ TopologyInv
    /\ FlagsInv /\ SettingsInv

LEMMA TypeInit == Init => TypeInv
<1> SUFFICES ASSUME Init PROVE TypeInv
  OBVIOUS
<1>1. /\ {MaxCalls, MaxResets, MaxPause, MaxLines, MaxFlags, MaxEdits} \subseteq Nat
      /\ MaxBoots \in Nat \ {0} /\ MaxIds \in Nat
  BY PanelsAssumption
<1>2. Slow!TypeOK
  BY <1>1 DEF Init, Slow!Init, Slow!TypeOK, Slow!Modes
<1>3. RequestInv
  <2>1. Cli!Init
    BY DEF Init
  <2>2. Cli!NoSnapshot \in Snapshots
    BY DEF Cli!NoSnapshot, Snapshots
  <2>3. age \in 0..Cli!MaxAge /\ edits \in 0..MaxEdits
    BY <1>1, <2>1 DEF Cli!Init, Cli!MaxAge
  <2> QED
    BY <2>1, <2>2, <2>3 DEF Cli!Init, Cli!TypeOK, RequestInv
<1>4. CallsInv
  BY <1>1 DEF Init, Com!Init, Com!Zero, CallsInv
<1>5. SentInv
  BY <1>1 DEF Init, Mon!Init, SentInv
<1>6. FlagsInv
  BY <1>1 DEF Init, Conf!Init, Conf!NoFlags, Conf!Values, FlagsInv
<1>7. RatesInv
  BY RatesInit DEF Init
<1>8. SettingsInv
  BY FreshSettings DEF Init, Conf!Init, Fresh
<1> QED
  BY <1>2, <1>3, <1>4, <1>5, <1>6, <1>7, <1>8, KeysInit, ListingInit, LinesInit,
     TopologyInit DEF TypeInv

(* Each variable of each panel keeps its type and its bound, for every      *)
(* value of the constants.  The hypothesis is what MONITOR puts into its    *)
(* ring (parser.go:13-47); the run checks it with TypeOK.                   *)
THEOREM PanelsTyped ==
  ASSUME Event = Mon!MonitorEvent
  PROVE  Spec => []TypeOK
<1>1. TypeInv /\ [Next]_vars => TypeInv'
  <2> SUFFICES ASSUME TypeInv, [Next]_vars PROVE TypeInv'
    OBVIOUS
  <2>1. RatesInv'
    BY AnswerTypesStep, AnswerOrderStep, AnswerAgesStep, ShownRates, ElapsedStep
       DEF RatesInv, TypeInv
  <2>2. Slow!TypeOK' /\ RequestInv' /\ CallsInv' /\ FlagsInv'
    BY SlowlogTyped, ClientsTyped, CommandsTyped, SettingsTyped DEF TypeInv
  <2>3. KeysInv' /\ ListingInv' /\ TopologyInv' /\ SettingsInv'
    BY KeysStep, ListingStep, TopologyStep, SettingsStep DEF TypeInv
  <2>4. SentInv' /\ LinesInv'
    BY SentTyped, LinesStep DEF TypeInv
  <2> QED
    BY <2>1, <2>2, <2>3, <2>4 DEF TypeInv
<1>2. TypeInv => TypeOK
  <2> SUFFICES ASSUME TypeInv PROVE TypeOK
    OBVIOUS
  <2>1. Cli!TypeOK /\ Big!TypeOK /\ Com!TypeOK /\ Topo!TypeOK
    BY KeysTyped, AnswersTyped, TopologyTyped DEF TypeInv, RequestInv
  <2>2. List!TypeOK
    BY DEF TypeInv, ListingInv, List!TypeOK
  <2>3. Mon!TypeOK
    BY DEF TypeInv, SentInv, LinesInv, Clocks, Mon!TypeOK
  <2>4. Conf!TypeOK
    BY DEF TypeInv, FlagsInv, SettingsInv, Conf!TypeOK
  <2> QED
    BY <2>1, <2>2, <2>3, <2>4 DEF TypeInv, TypeOK
<1> QED
  BY <1>1, <1>2, TypeInit, PTL DEF Spec

=============================================================================
