------------------------- MODULE ClusterSourceProofs -------------------------
(***************************************************************************)
(* What the two mutexes of the source protect, for any cluster, panels and *)
(* number of changes and switches: the table of clients is the pools that  *)
(* are open, a client stays while it is in use, and a baseline of a node   *)
(* without a client was overtaken.                                         *)
(***************************************************************************)
EXTENDS ClusterSource, TLAPS

PassType == [Panels -> [step : Steps, view : Views, node : NodeIds]]

DiscoverySteps == {"idle", "nodeMu", "mu", "ask", "table", "publish"}

DiscoveryType == [Discoverers -> [step : DiscoverySteps, found : Views]]

Holders == Panels \cup {"ui", Nobody}

(* The types the argument needs, and who holds which mutex.                 *)
Locks ==
    /\ members \in Views /\ nodes \in Views /\ clients \in Views
    /\ changes \in Nat
    /\ pass \in PassType
    /\ discovery \in DiscoveryType
    /\ nodeMu \in Holders /\ mu \in Folders \cup {Nobody}
    /\ \A p \in Panels : nodeMu = p <=> pass[p].step = "call"
    /\ nodeMu = "ui" <=> discovery["ui"].step = "mu"
    /\ \A p \in Panels : mu = p <=> pass[p].step = "folding"
    /\ \A p \in Panels : pass[p].step \in {"fold", "folding"} => p \in Folders
    /\ discovery["refresher"].step \notin {"nodeMu", "mu"}

(* Pools are counted in naturals.                                           *)
Pools ==
    /\ open \in [NodeIds -> Nat] /\ dropped \in [NodeIds -> Nat]
    /\ OnePoolPerNode

(* A node in use has its client; one whose answer is on the way to the      *)
(* baseline has it, or was overtaken.                                       *)
Overtaken ==
    /\ \A p \in Panels : pass[p].step = "call" => clients[pass[p].node] # Gone
    /\ \A n \in NodeIds : OnTheWay(n) /\ clients[n] = Gone => n \in overtaken
    /\ BaselineIfOvertaken
    /\ baseline \subseteq NodeIds

(* While the membership has not changed, nothing that was ever discovered,  *)
(* copied or looked up lists more than the members.                         *)
Resting ==
    changes = 0 =>
        /\ \A n \in NodeIds : members[n] = Gone =>
                /\ clients[n] = Gone /\ nodes[n] = Gone
                /\ \A p \in Panels : pass[p].view[n] = Gone
        /\ \A d \in Discoverers :
                discovery[d].step \in {"table", "publish"} => discovery[d].found = members

IInv == Locks /\ Pools /\ Overtaken /\ Resting /\ CrashHasCause

USE ClusterSourceAssumption

-----------------------------------------------------------------------------
(* Lemmas about the operators.                                              *)

(* Views without nodes.                                                     *)
LEMMA NoNodesView == NoNodes \in Views
BY DEF NoNodes, Views

(* The mutexes after a step of a pass ...                                   *)
LEMMA PassKeepsLocks ==
  ASSUME Locks, NEW p \in Panels, NEW st \in Steps,
         pass' \in PassType, pass'[p].step = st, \A q \in Panels \ {p} : pass'[q] = pass[q],
         UNCHANGED <<members, changes, nodes, discovery>>, clients' \in Views,
         st \in {"fold", "folding"} => p \in Folders,
         nodeMu' = IF st = "call" THEN p ELSE IF nodeMu = p THEN Nobody ELSE nodeMu,
         mu' = IF st = "folding" THEN p ELSE IF mu = p THEN Nobody ELSE mu,
         st = "call" => nodeMu = Nobody,
         st = "folding" => mu = Nobody
  PROVE  Locks'
<1> USE DEF Locks, Holders
<1>1. \A q \in Panels : q # Nobody /\ q # "ui"
  OBVIOUS
<1>2. \A q \in Panels \ {p} : nodeMu' = q <=> nodeMu = q
  BY <1>1
<1>3. nodeMu' = p <=> st = "call"
  BY <1>1
<1>4. \A q \in Panels \ {p} : mu' = q <=> mu = q
  BY <1>1
<1>5. mu' = p <=> st = "folding"
  BY <1>1
<1>6. nodeMu' = "ui" <=> nodeMu = "ui"
  BY <1>1
<1>7. nodeMu' \in Holders /\ mu' \in Folders \cup {Nobody}
  OBVIOUS
<1>8. /\ \A q \in Panels : nodeMu' = q <=> pass'[q].step = "call"
      /\ \A q \in Panels : mu' = q <=> pass'[q].step = "folding"
      /\ \A q \in Panels : pass'[q].step \in {"fold", "folding"} => q \in Folders
  BY <1>2, <1>3, <1>4, <1>5
<1> QED
  BY <1>6, <1>7, <1>8

(* ... and of a discovery or a switch.                                      *)
LEMMA DiscoveryKeepsLocks ==
  ASSUME Locks, NEW d \in Discoverers, NEW st \in DiscoverySteps,
         discovery' \in DiscoveryType, discovery'[d].step = st,
         \A e \in Discoverers \ {d} : discovery'[e] = discovery[e],
         UNCHANGED <<members, changes, pass, mu>>, clients' \in Views, nodes' \in Views,
         st \in {"nodeMu", "mu"} => d = "ui",
         nodeMu' = IF st = "mu" THEN "ui"
                   ELSE IF discovery[d].step = "mu" THEN Nobody ELSE nodeMu,
         st = "mu" => nodeMu = Nobody
  PROVE  Locks'
<1> USE DEF Locks, Holders
<1>1. "ui" \in Discoverers /\ "refresher" \in Discoverers
  BY DEF Discoverers
<1>2. \A q \in Panels : q # Nobody /\ q # "ui"
  OBVIOUS
<1>3. discovery'["refresher"].step \notin {"nodeMu", "mu"}
  BY <1>1
<1>4. discovery[d].step = "mu" => d = "ui"
  BY DEF Discoverers
<1>5. nodeMu' = "ui" <=> discovery'["ui"].step = "mu"
  BY <1>1, <1>4
<1>6. \A q \in Panels : nodeMu' = q <=> nodeMu = q
  BY <1>1, <1>2, <1>4
<1>7. nodeMu' \in Holders
  OBVIOUS
<1> QED
  BY <1>3, <1>5, <1>6, <1>7

(* The table becomes another one and the pools follow.                      *)
LEMMA ReplacePools ==
  ASSUME Pools, clients \in Views, NEW table \in Views, Replace(table), dropped' = dropped
  PROVE  Pools'
<1>1. \A n \in NodeIds : open'[n] = One(table[n] # Gone) + dropped[n]
  <2> SUFFICES ASSUME NEW n \in NodeIds
               PROVE  open'[n] = One(table[n] # Gone) + dropped[n]
    OBVIOUS
  <2>1. open'[n] = open[n] - One(clients[n] \notin {table[n], Gone})
                           + One(table[n] \notin {clients[n], Gone})
    BY DEF Replace
  <2>2. open[n] = One(clients[n] # Gone) + dropped[n] /\ dropped[n] \in Nat
    BY DEF Pools, OnePoolPerNode
  <2> QED
    BY <2>1, <2>2 DEF One
<1>2. \A n \in NodeIds : open'[n] \in Nat
  BY <1>1 DEF Pools, One
<1>3. open' \in [NodeIds -> Nat]
  BY <1>2 DEF Replace
<1> QED
  BY <1>1, <1>3 DEF Pools, OnePoolPerNode, Replace

-----------------------------------------------------------------------------
(* The beginning: a client per member, nobody at work.                      *)

LEMMA InitIInv == Init => IInv
<1> SUFFICES ASSUME Init PROVE IInv
  OBVIOUS
<1>1. PICK n0 \in NodeIds : pass = [p \in Panels |->
                                    [step |-> "idle", view |-> NoNodes, node |-> n0]]
  <2>1. (CHOOSE n \in NodeIds : TRUE) \in NodeIds
    OBVIOUS
  <2> QED
    BY <2>1 DEF Init
<1>2. Locks
  <2>1. pass \in PassType
    BY <1>1, NoNodesView DEF Steps, PassType
  <2>2. discovery \in DiscoveryType
    BY NoNodesView DEF Init, DiscoveryType, DiscoverySteps
  <2> QED
    BY <1>1, <2>1, <2>2 DEF Init, Locks, Holders, Discoverers
<1>3. Pools
  <2>1. \A n \in NodeIds : open[n] = One(clients[n] # Gone) /\ dropped[n] = 0
    BY DEF Init, One
  <2>2. open \in [NodeIds -> Nat] /\ dropped \in [NodeIds -> Nat]
    BY DEF Init
  <2> QED
    BY <2>1, <2>2 DEF Pools, OnePoolPerNode, One
<1>4. Overtaken
  BY <1>1 DEF Init, Overtaken, BaselineIfOvertaken, OnTheWay
<1>5. Resting
  BY <1>1, NoNodesView DEF Init, Resting, NoNodes
<1> QED
  BY <1>2, <1>3, <1>4, <1>5 DEF IInv, CrashHasCause, Init

-----------------------------------------------------------------------------
(* The mutexes are taken and released as the steps say.                     *)

LEMMA LocksStep == ASSUME Locks, [Next]_vars PROVE Locks'
<1> USE DEF clusterVars, clientVars, lockVars, historyVars
<1>1. pass \in PassType /\ discovery \in DiscoveryType
  BY DEF Locks
<1>2. members \in Views /\ nodes \in Views /\ clients \in Views
  BY DEF Locks
<1>3. \A p \in Panels : p # Nobody /\ p # "ui"
  OBVIOUS
<1>4. \A p \in Panels : pass[p].node \in NodeIds /\ pass[p].view \in Views
  BY <1>1 DEF PassType
<1>5. \A d \in Discoverers : discovery[d].found \in Views
  BY <1>1 DEF DiscoveryType
<1>6. /\ \A p \in Panels : nodeMu = p <=> pass[p].step = "call"
      /\ \A p \in Panels : mu = p <=> pass[p].step = "folding"
      /\ \A p \in Panels : pass[p].step \in {"fold", "folding"} => p \in Folders
  BY DEF Locks
<1>10. ASSUME NEW n \in NodeIds, Change(n) PROVE Locks'
  <2>1. members' \in Views
    BY <1>2, <1>10 DEF Change, Views
  <2> QED
    BY <1>10, <2>1 DEF Change, Locks, Holders
<1>11. ASSUME NEW p \in Panels, BeginPass(p) \/ EndPass(p) PROVE Locks'
  <2>1. PICK st \in {"next", "idle"}, v \in Views :
           pass' = [pass EXCEPT ![p].step = st, ![p].view = v]
    BY <1>2, <1>11, NoNodesView DEF BeginPass, EndPass
  <2>2. /\ pass' \in PassType
        /\ pass'[p].step = st
        /\ \A q \in Panels \ {p} : pass'[q] = pass[q]
    BY <1>1, <2>1 DEF Steps, PassType
  <2>3. pass[p].step \in {"idle", "next"}
    BY <1>11 DEF BeginPass, EndPass
  <2>4. UNCHANGED <<members, changes, nodes, discovery, clients, nodeMu, mu>>
    BY <1>11 DEF BeginPass, EndPass
  <2> QED
    BY <1>2, <1>6, <2>2, <2>3, <2>4, PassKeepsLocks DEF Steps
<1>12. ASSUME NEW p \in Panels, NEW n \in NodeIds, Request(p, n) PROVE Locks'
  <2>1. pass' = [pass EXCEPT ![p].step = "call", ![p].node = n]
    BY <1>12 DEF Request
  <2>2. /\ pass' \in PassType
        /\ pass'[p].step = "call"
        /\ \A q \in Panels \ {p} : pass'[q] = pass[q]
    BY <1>1, <2>1 DEF Steps, PassType
  <2>3. pass[p].view[n] \in Addrs \cup {Gone}
    BY <1>4 DEF Views
  <2>4. clients' \in Views
    BY <1>2, <1>12, <2>3 DEF Request, Replace, Views
  <2>5. /\ pass[p].step = "next" /\ nodeMu = Nobody /\ nodeMu' = p
        /\ UNCHANGED <<members, changes, nodes, discovery, mu>>
    BY <1>12 DEF Request
  <2> QED
    BY <1>6, <2>2, <2>4, <2>5, PassKeepsLocks DEF Steps
<1>13. ASSUME NEW p \in Panels, Answer(p) PROVE Locks'
  <2>1. PICK st \in {"next", "fold"} :
           /\ \/ pass' = [pass EXCEPT ![p].step = st]
              \/ \E n \in NodeIds : pass' = [pass EXCEPT ![p].step = st, ![p].view[n] = Gone]
           /\ st = "fold" => p \in Folders
    BY <1>4, <1>13 DEF Answer
  <2>2. /\ pass' \in PassType
        /\ pass'[p].step = st
        /\ \A q \in Panels \ {p} : pass'[q] = pass[q]
    BY <1>1, <2>1 DEF Steps, PassType
  <2>3. /\ pass[p].step = "call" /\ nodeMu' = Nobody
        /\ UNCHANGED <<members, changes, nodes, discovery, clients, mu>>
    BY <1>13 DEF Answer
  <2> QED
    BY <1>2, <1>6, <2>1, <2>2, <2>3, PassKeepsLocks DEF Steps
<1>14. ASSUME NEW p \in Panels, Fold(p) PROVE Locks'
  <2>1. pass' = [pass EXCEPT ![p].step = "folding"]
    BY <1>14 DEF Fold, Goes
  <2>2. /\ pass' \in PassType
        /\ pass'[p].step = "folding"
        /\ \A q \in Panels \ {p} : pass'[q] = pass[q]
    BY <1>1, <2>1 DEF Steps, PassType
  <2>3. /\ pass[p].step = "fold" /\ mu = Nobody /\ mu' = p
        /\ UNCHANGED <<members, changes, nodes, discovery, clients, nodeMu>>
    BY <1>14 DEF Fold, Goes
  <2> QED
    BY <1>2, <1>6, <2>2, <2>3, PassKeepsLocks DEF Steps
<1>15. ASSUME NEW p \in Panels, Folded(p) PROVE Locks'
  <2>1. PICK n \in NodeIds : pass' = [pass EXCEPT ![p].step = "next", ![p].view[n] = Gone]
    BY <1>4, <1>15 DEF Folded
  <2>2. /\ pass' \in PassType
        /\ pass'[p].step = "next"
        /\ \A q \in Panels \ {p} : pass'[q] = pass[q]
    BY <1>1, <2>1 DEF Steps, PassType, Views
  <2>3. /\ pass[p].step = "folding" /\ mu' = Nobody
        /\ UNCHANGED <<members, changes, nodes, discovery, clients, nodeMu>>
    BY <1>15 DEF Folded
  <2> QED
    BY <1>2, <1>6, <2>2, <2>3, PassKeepsLocks DEF Steps
<1>16. ASSUME NEW d \in Discoverers, Discover(d) PROVE Locks'
  <2>1. discovery[d].step \in {"ask", "table", "publish"}
    BY <1>16 DEF Discover, Ask, AskFails, Update, Publish
  <2>2. PICK st \in {"table", "publish", "idle"} :
           \/ discovery' = [discovery EXCEPT ![d].step = st]
           \/ \E v \in Views : discovery' = [discovery EXCEPT ![d].step = st, ![d].found = v]
           \/ \E v \in Views : discovery' = [discovery EXCEPT ![d] = [step |-> st, found |-> v]]
    BY <1>2, <1>16, NoNodesView DEF Discover, Ask, AskFails, Update, Publish
  <2>3. /\ discovery' \in DiscoveryType /\ discovery'[d].step = st
        /\ \A e \in Discoverers \ {d} : discovery'[e] = discovery[e]
    BY <1>1, <2>2 DEF DiscoverySteps, DiscoveryType
  <2>4. UNCHANGED <<members, changes, pass, nodeMu, mu>>
    BY <1>16 DEF Discover, Ask, AskFails, Update, Publish
  <2>5. clients' \in Views /\ nodes' \in Views
    BY <1>2, <1>5, <1>16 DEF Discover, Ask, AskFails, Update, Publish, Replace
  <2> QED
    BY <2>1, <2>3, <2>4, <2>5, DiscoveryKeepsLocks DEF DiscoverySteps
<1>17. CASE Refresh \/ SetTarget \/ SwitchStep
  <2>1. PICK d \in Discoverers, st \in {"ask", "nodeMu", "mu"} :
           /\ discovery' = [discovery EXCEPT ![d].step = st]
           /\ st \in {"nodeMu", "mu"} => d = "ui"
           /\ nodeMu' = IF st = "mu" THEN "ui"
                        ELSE IF discovery[d].step = "mu" THEN Nobody ELSE nodeMu
           /\ st = "mu" => nodeMu = Nobody
    <3>1. "ui" \in Discoverers /\ "refresher" \in Discoverers
      BY DEF Discoverers
    <3>2. CASE Refresh
      BY <3>1, <3>2 DEF Refresh
    <3>3. CASE SetTarget
      BY <3>1, <3>3 DEF SetTarget
    <3>4. CASE SetTargetLocks
      BY <3>1, <3>4 DEF SetTargetLocks
    <3>5. CASE SetTargetDrops
      BY <3>1, <3>5 DEF SetTargetDrops
    <3> QED
      BY <1>17, <3>2, <3>3, <3>4, <3>5 DEF SwitchStep
  <2>2. /\ discovery' \in DiscoveryType /\ discovery'[d].step = st
        /\ \A e \in Discoverers \ {d} : discovery'[e] = discovery[e]
    BY <1>1, <2>1 DEF DiscoverySteps, DiscoveryType
  <2>3. UNCHANGED <<members, changes, pass, mu, nodes>> /\ clients' \in Views
    BY <1>2, <1>17, NoNodesView DEF Refresh, SetTarget, SwitchStep,
       SetTargetLocks, SetTargetDrops
  <2> QED
    BY <1>2, <2>1, <2>2, <2>3, DiscoveryKeepsLocks DEF DiscoverySteps
<1>18. CASE UNCHANGED vars
  BY <1>18 DEF vars, Locks
<1> QED
  BY <1>10, <1>11, <1>12, <1>13, <1>14, <1>15, <1>16, <1>17, <1>18 DEF Next, PassStep

-----------------------------------------------------------------------------
(* Only a lookup, a discovery and a switch touch the table.                 *)

LEMMA PoolsStep == ASSUME IInv, [Next]_vars PROVE Pools'
<1> USE DEF IInv, clusterVars, clientVars, lockVars, historyVars
<1>1. ASSUME UNCHANGED <<clients, open, dropped>> PROVE Pools'
  BY <1>1 DEF Pools, OnePoolPerNode
<1>2. ASSUME NEW p \in Panels, NEW n \in NodeIds, Request(p, n) PROVE Pools'
  <2>1. [clients EXCEPT ![n] = pass[p].view[n]] \in Views
    BY DEF Locks, Views, PassType
  <2> QED
    BY <1>2, <2>1, ReplacePools DEF Request, Locks
<1>3. ASSUME NEW d \in Discoverers, Update(d) PROVE Pools'
  <2>1. discovery[d].found \in Views
    BY DEF Locks, DiscoveryType
  <2> QED
    BY <1>3, <2>1, ReplacePools DEF Update, Locks
<1>4. CASE SetTargetDrops
  <2>1. \A n \in NodeIds : /\ open'[n] = One(clients[n] # Gone) + dropped[n]
                           /\ clients'[n] = Gone
                           /\ dropped'[n] = dropped[n] + One(clients[n] # Gone)
    BY <1>4 DEF SetTargetDrops, NoNodes, Pools, OnePoolPerNode
  <2>2. \A n \in NodeIds : dropped[n] \in Nat /\ open[n] \in Nat
    BY DEF Pools
  <2>3. dropped' \in [NodeIds -> Nat] /\ open' \in [NodeIds -> Nat]
    BY <1>4, <2>2 DEF SetTargetDrops, One, Pools
  <2> QED
    BY <2>1, <2>2, <2>3 DEF Pools, OnePoolPerNode, One
<1>5. ASSUME NEW n \in NodeIds, Change(n) PROVE Pools'
  BY <1>1, <1>5 DEF Change
<1>6. ASSUME NEW p \in Panels, PassStep(p), ~\E n \in NodeIds : Request(p, n)
      PROVE  Pools'
  BY <1>1, <1>6 DEF PassStep, BeginPass, EndPass, Answer, Fold, Folded
<1>7. ASSUME NEW d \in Discoverers, Ask(d) \/ AskFails(d) \/ Publish(d) PROVE Pools'
  BY <1>1, <1>7 DEF Ask, AskFails, Publish
<1>8. CASE Refresh \/ SetTarget \/ SetTargetLocks \/ UNCHANGED vars
  BY <1>1, <1>8 DEF Refresh, SetTarget, SetTargetLocks, vars
<1> QED
  BY <1>2, <1>3, <1>4, <1>5, <1>6, <1>7, <1>8 DEF Next, Discover, SwitchStep, PassStep

-----------------------------------------------------------------------------
(* The table changes only while no request is under way.                    *)

LEMMA TableRests ==
  ASSUME Locks, [Next]_vars
  PROVE  clients' = clients \/ \A p \in Panels : pass[p].step # "call"
<1> USE DEF clusterVars, clientVars, lockVars, historyVars
<1>1. \A p \in Panels : p # Nobody /\ p # "ui"
  OBVIOUS
<1>2. nodeMu \in {Nobody, "ui"} => \A p \in Panels : pass[p].step # "call"
  BY <1>1 DEF Locks
<1>3. ASSUME NEW p \in Panels, PassStep(p) PROVE clients' = clients \/ nodeMu = Nobody
  BY <1>3 DEF PassStep, BeginPass, EndPass, Request, Answer, Fold, Folded
<1>4. ASSUME NEW d \in Discoverers, Discover(d)
      PROVE  clients' = clients \/ nodeMu = Nobody
  BY <1>4 DEF Discover, Ask, AskFails, Update, Publish
<1>5. CASE Refresh \/ SetTarget \/ SetTargetLocks
  BY <1>5 DEF Refresh, SetTarget, SetTargetLocks
<1>6. CASE SetTargetDrops
  <2>1. nodeMu = "ui"
    BY <1>6 DEF SetTargetDrops, Locks
  <2> QED
    BY <1>2, <2>1
<1>7. ASSUME NEW n \in NodeIds, Change(n) PROVE clients' = clients
  BY <1>7 DEF Change
<1>8. CASE UNCHANGED vars
  BY <1>8 DEF vars
<1> QED
  BY <1>2, <1>3, <1>4, <1>5, <1>6, <1>7, <1>8 DEF Next, SwitchStep

-----------------------------------------------------------------------------
(* Baselines are made of answers, and answers of nodes with a client.       *)

(* Steps that make neither and touch no client.                             *)
LEMMA OvertakenRests ==
  ASSUME Overtaken, UNCHANGED <<clients, baseline, overtaken>>,
         \A p \in Panels : pass'[p].step = "call" =>
             pass[p].step = "call" /\ pass'[p].node = pass[p].node,
         \A p \in Panels : pass'[p].step \in {"fold", "folding"} =>
             pass[p].step \in {"fold", "folding"} /\ pass'[p].node = pass[p].node
  PROVE  Overtaken'
<1>1. \A n \in NodeIds : OnTheWay(n)' => OnTheWay(n)
  BY DEF OnTheWay
<1> QED
  BY <1>1 DEF Overtaken, BaselineIfOvertaken

(* The clients of `removed` go, and take their baselines with them.         *)
LEMMA ForgetOvertaken ==
  ASSUME Overtaken, NEW removed \in SUBSET NodeIds, Forget(removed), pass' = pass,
         \A n \in removed : clients[n] # Gone \/ removed = NodeIds,
         \A n \in NodeIds \ removed : clients'[n] = Gone => clients[n] = Gone,
         \A p \in Panels : pass[p].step # "call"
  PROVE  Overtaken'
<1>1. \A n \in NodeIds : OnTheWay(n)' <=> OnTheWay(n)
  BY DEF OnTheWay
<1>2. \A n \in NodeIds : OnTheWay(n)' /\ clients'[n] = Gone => n \in overtaken'
  BY <1>1 DEF Overtaken, Forget
<1>3. BaselineIfOvertaken' /\ baseline' \subseteq NodeIds
  BY DEF Overtaken, BaselineIfOvertaken, Forget
<1> QED
  BY <1>2, <1>3 DEF Overtaken

LEMMA OvertakenStep == ASSUME Locks, Overtaken, [Next]_vars PROVE Overtaken'
<1> USE DEF clusterVars, clientVars, lockVars, historyVars
<1>1. pass \in PassType /\ clients \in Views
  BY DEF Locks
<1>2. \A p \in Panels : pass[p].node \in NodeIds
  BY <1>1 DEF PassType
<1>3. nodeMu \in {Nobody, "ui"} => \A p \in Panels : pass[p].step # "call"
  BY DEF Locks
<1>10. ASSUME NEW n \in NodeIds, Change(n) PROVE Overtaken'
  BY <1>10, OvertakenRests DEF Change
<1>11. ASSUME NEW p \in Panels, BeginPass(p) \/ EndPass(p) \/ Fold(p) PROVE Overtaken'
  <2>1. UNCHANGED <<clients, baseline, overtaken>>
    BY <1>11 DEF BeginPass, EndPass, Fold
  <2>2. \A q \in Panels : pass'[q].node = pass[q].node
    BY <1>1, <1>11 DEF BeginPass, EndPass, Fold, Goes, PassType
  <2>3. \A q \in Panels : pass'[q].step = "call" => pass[q].step = "call"
    BY <1>1, <1>11 DEF BeginPass, EndPass, Fold, Goes, PassType
  <2>4. \A q \in Panels : pass'[q].step \in {"fold", "folding"} =>
                              pass[q].step \in {"fold", "folding"}
    BY <1>1, <1>11 DEF BeginPass, EndPass, Fold, Goes, PassType
  <2> QED
    BY <2>1, <2>2, <2>3, <2>4, OvertakenRests
<1>12. ASSUME NEW p \in Panels, NEW n \in NodeIds, Request(p, n) PROVE Overtaken'
  <2>1. /\ clients'[n] # Gone /\ \A m \in NodeIds \ {n} : clients'[m] = clients[m]
        /\ nodeMu = Nobody /\ UNCHANGED <<baseline, overtaken>>
    BY <1>1, <1>12 DEF Request, Replace, Views
  <2>2. pass' = [pass EXCEPT ![p].step = "call", ![p].node = n]
    BY <1>12 DEF Request
  <2>3. pass'[p].step = "call" /\ pass'[p].node = n /\ \A q \in Panels \ {p} : pass'[q] = pass[q]
    BY <1>1, <2>2 DEF PassType
  <2>4. \A m \in NodeIds : OnTheWay(m)' => OnTheWay(m)
    BY <2>3 DEF OnTheWay
  <2>5. \A q \in Panels : pass'[q].step = "call" => q = p
    BY <1>3, <2>1, <2>3
  <2> QED
    BY <2>1, <2>3, <2>4, <2>5 DEF Overtaken, BaselineIfOvertaken
<1>13. ASSUME NEW p \in Panels, Answer(p) PROVE Overtaken'
  <2>1. /\ pass[p].step = "call" /\ UNCHANGED <<clients, baseline, overtaken>>
    BY <1>13 DEF Answer
  <2>2. PICK st \in {"next", "fold"} :
           \/ pass' = [pass EXCEPT ![p].step = st]
           \/ \E n \in NodeIds : pass' = [pass EXCEPT ![p].step = st, ![p].view[n] = Gone]
    BY <1>2, <1>13 DEF Answer
  <2>3. /\ pass'[p].step = st /\ pass'[p].node = pass[p].node
        /\ \A q \in Panels \ {p} : pass'[q] = pass[q]
    BY <1>1, <2>2 DEF PassType
  <2>4. \A m \in NodeIds : OnTheWay(m)' => OnTheWay(m) \/ m = pass[p].node
    BY <2>3 DEF OnTheWay
  <2>5. clients[pass[p].node] # Gone
    BY <2>1 DEF Overtaken
  <2>6. \A q \in Panels : pass'[q].step = "call" => pass'[q] = pass[q]
    BY <2>3
  <2> QED
    BY <2>1, <2>4, <2>5, <2>6 DEF Overtaken, BaselineIfOvertaken
<1>14. ASSUME NEW p \in Panels, Folded(p) PROVE Overtaken'
  <2>1. /\ pass[p].step = "folding" /\ UNCHANGED <<clients, overtaken>>
        /\ baseline' = baseline \cup {pass[p].node}
    BY <1>14 DEF Folded
  <2>2. OnTheWay(pass[p].node)
    BY <2>1 DEF OnTheWay, Locks
  <2>3. PICK n \in NodeIds : pass' = [pass EXCEPT ![p].step = "next", ![p].view[n] = Gone]
    BY <1>2, <1>14 DEF Folded
  <2>4. pass'[p].step = "next" /\ \A q \in Panels \ {p} : pass'[q] = pass[q]
    BY <1>1, <2>3 DEF PassType
  <2>5. \A m \in NodeIds : OnTheWay(m)' => OnTheWay(m)
    BY <2>4 DEF OnTheWay
  <2>6. \A q \in Panels : pass'[q].step = "call" => pass'[q] = pass[q]
    BY <2>4
  <2> QED
    BY <1>2, <2>1, <2>2, <2>5, <2>6 DEF Overtaken, BaselineIfOvertaken
<1>15. ASSUME NEW d \in Discoverers, Update(d) PROVE Overtaken'
  <2>1. /\ Unlisted(d) \subseteq NodeIds /\ Forget(Unlisted(d)) /\ pass' = pass
        /\ clients' = discovery[d].found /\ nodeMu = Nobody
    BY <1>15 DEF Update, Replace, Unlisted, Listed
  <2>2. \A n \in Unlisted(d) : clients[n] # Gone
    BY DEF Unlisted, Listed
  <2>3. \A n \in NodeIds \ Unlisted(d) : clients'[n] = Gone => clients[n] = Gone
    BY <2>1 DEF Unlisted, Listed
  <2> QED
    BY <1>3, <2>1, <2>2, <2>3, ForgetOvertaken
<1>16. ASSUME NEW d \in Discoverers, Ask(d) \/ AskFails(d) \/ Publish(d)
       PROVE  Overtaken'
  BY <1>16, OvertakenRests DEF Ask, AskFails, Publish
<1>17. CASE Refresh \/ SetTarget \/ SetTargetLocks \/ UNCHANGED vars
  BY <1>17, OvertakenRests DEF Refresh, SetTarget, SetTargetLocks, vars
<1>18. CASE SetTargetDrops
  <2>1. /\ Forget(NodeIds) /\ pass' = pass /\ nodeMu = "ui"
    BY <1>18 DEF SetTargetDrops, Locks
  <2> QED
    BY <1>3, <2>1, ForgetOvertaken
<1> QED
  BY <1>10, <1>11, <1>12, <1>13, <1>14, <1>15, <1>16, <1>17, <1>18
  DEF Next, PassStep, Discover, SwitchStep

-----------------------------------------------------------------------------
(* Without a membership change nothing gets listed that is not a member,    *)
(* and so no discovery deletes a baseline.                                  *)

LEMMA RestingStep == ASSUME Locks, Resting, [Next]_vars PROVE Resting'
<1> USE DEF clusterVars, clientVars, lockVars, historyVars
<1>1. pass \in PassType /\ discovery \in DiscoveryType /\ clients \in Views
  BY DEF Locks
<1>2. \A p \in Panels : pass[p].view \in Views
  BY <1>1 DEF PassType
<1>10. ASSUME NEW n \in NodeIds, Change(n) PROVE Resting'
  BY <1>10 DEF Change, Resting, Locks
<1>11. ASSUME NEW p \in Panels, PassStep(p) PROVE Resting'
  <2>1. UNCHANGED <<members, changes, nodes, discovery>>
    BY <1>11 DEF PassStep, BeginPass, EndPass, Request, Answer, Fold, Folded
  <2>2. ASSUME changes = 0, NEW n \in NodeIds, members[n] = Gone
        PROVE  clients'[n] = Gone /\ \A q \in Panels : pass'[q].view[n] = Gone
    <3>1. clients[n] = Gone /\ nodes[n] = Gone /\ \A q \in Panels : pass[q].view[n] = Gone
      BY <2>2 DEF Resting
    <3>2. CASE BeginPass(p) \/ EndPass(p)
      BY <1>1, <3>1, <3>2 DEF BeginPass, EndPass, PassType, NoNodes
    <3>3. ASSUME NEW m \in NodeIds, Request(p, m)
          PROVE  clients'[n] = Gone /\ \A q \in Panels : pass'[q].view[n] = Gone
      <4>1. pass' = [pass EXCEPT ![p].step = "call", ![p].node = m]
        BY <3>3 DEF Request
      <4>2. m # n /\ clients' = [clients EXCEPT ![m] = pass[p].view[m]]
        BY <3>1, <3>3 DEF Request, Replace
      <4> QED
        BY <1>1, <3>1, <4>1, <4>2 DEF PassType, Views
    <3>4. CASE Answer(p) \/ Fold(p) \/ Folded(p)
      <4>1. \A q \in Panels : pass'[q].view \in {pass[q].view, [pass[q].view EXCEPT ![pass[q].node] = Gone]}
        BY <1>1, <3>4 DEF Answer, Fold, Folded, Goes, PassType
      <4>2. clients' = clients
        BY <3>4 DEF Answer, Fold, Folded
      <4> QED
        BY <1>2, <3>1, <4>1, <4>2 DEF Views
    <3> QED
      BY <1>11, <3>2, <3>3, <3>4 DEF PassStep
  <2> QED
    BY <2>1, <2>2 DEF Resting
<1>12. ASSUME NEW d \in Discoverers, Discover(d) PROVE Resting'
  <2>1. UNCHANGED <<members, changes, pass>>
    BY <1>12 DEF Discover, Ask, AskFails, Update, Publish
  <2>2. changes = 0 => clients' \in {clients, members} /\ nodes' \in {nodes, members}
    BY <1>12 DEF Discover, Ask, AskFails, Update, Publish, Replace, Resting
  <2>3. ASSUME changes = 0, NEW e \in Discoverers, discovery'[e].step \in {"table", "publish"}
        PROVE  discovery'[e].found = members
    <3>1. CASE e # d
      <4>1. discovery'[e] = discovery[e]
        BY <1>1, <1>12, <3>1 DEF Discover, Ask, AskFails, Update, Publish,
           DiscoveryType
      <4> QED
        BY <2>3, <4>1 DEF Resting
    <3>2. CASE e = d /\ Ask(d)
      BY <1>1, <3>2 DEF Ask, DiscoveryType
    <3>3. CASE e = d /\ Update(d)
      <4>1. discovery[d].step = "table" /\ discovery'[d].found = discovery[d].found
        BY <1>1, <3>3 DEF Update, DiscoveryType
      <4> QED
        BY <2>3, <3>3, <4>1 DEF Resting
    <3>4. CASE e = d /\ (AskFails(d) \/ Publish(d))
      BY <1>1, <2>3, <3>4 DEF AskFails, Publish, DiscoveryType
    <3> QED
      BY <1>12, <3>1, <3>2, <3>3, <3>4 DEF Discover
  <2> QED
    BY <2>1, <2>2, <2>3 DEF Resting
<1>13. CASE Refresh \/ SetTarget \/ SwitchStep
  <2>1. UNCHANGED <<members, changes, nodes, pass>> /\ clients' \in {clients, NoNodes}
    BY <1>13 DEF Refresh, SetTarget, SwitchStep, SetTargetLocks, SetTargetDrops
  <2>2. ASSUME NEW e \in Discoverers, discovery'[e].step \in {"table", "publish"}
        PROVE  discovery'[e] = discovery[e]
    <3>1. PICK d \in Discoverers, next \in {"ask", "nodeMu", "mu"} :
                  discovery' = [discovery EXCEPT ![d].step = next]
      BY <1>13 DEF Refresh, SetTarget, SwitchStep, SetTargetLocks, SetTargetDrops,
         Discoverers
    <3>2. CASE e = d
      BY <1>1, <2>2, <3>1, <3>2 DEF DiscoveryType
    <3>3. CASE e # d
      BY <1>1, <2>2, <3>1, <3>3 DEF DiscoveryType
    <3> QED
      BY <3>2, <3>3
  <2> QED
    BY <2>1, <2>2 DEF Resting, NoNodes
<1>14. CASE UNCHANGED vars
  BY <1>14 DEF vars, Resting
<1> QED
  BY <1>10, <1>11, <1>12, <1>13, <1>14 DEF Next

LEMMA CrashStep ==
  ASSUME Locks, Resting, CrashHasCause, [Next]_vars
  PROVE  CrashHasCause'
<1> USE DEF clusterVars, clientVars, lockVars, historyVars
<1>1. CASE UNCHANGED vars
  BY <1>1 DEF vars, CrashHasCause
<1>2. CASE Next /\ crashed' = crashed
  BY <1>2 DEF Next, CrashHasCause
<1>3. ASSUME NEW d \in Discoverers, Update(d) PROVE CrashHasCause'
  <2>1. changes = 0 => Unlisted(d) = {}
    BY <1>3 DEF Update, Unlisted, Listed, Resting
  <2>2. (crashed' => Unlisted(d) # {}) /\ changes' = changes /\ changes \in Nat
    BY <1>3 DEF Update, Locks
  <2> QED
    BY <2>1, <2>2 DEF CrashHasCause
<1>4. CASE SetTargetDrops
  <2>1. crashed' => switches = 1 /\ discovery["refresher"].step = "ask"
    BY <1>4 DEF SetTargetDrops
  <2>2. discovery' = [discovery EXCEPT !["ui"].step = "ask"] /\ switches' = switches
    BY <1>4 DEF SetTargetDrops
  <2>3. /\ discovery'["ui"].step = "ask"
        /\ discovery'["refresher"] = discovery["refresher"]
    BY <2>2 DEF Locks, DiscoveryType, Discoverers
  <2> QED
    BY <2>1, <2>2, <2>3 DEF CrashHasCause, Discoverers
<1>5. ASSUME NEW p \in Panels, PassStep(p) PROVE crashed' = crashed
  BY <1>5 DEF PassStep, BeginPass, EndPass, Request, Answer, Fold, Folded
<1>6. ASSUME NEW d \in Discoverers, Ask(d) \/ AskFails(d) \/ Publish(d)
      PROVE  crashed' = crashed
  BY <1>6 DEF Ask, AskFails, Publish
<1>7. ASSUME NEW n \in NodeIds, Change(n) PROVE crashed' = crashed
  BY <1>7 DEF Change
<1>8. ASSUME Refresh \/ SetTarget \/ SetTargetLocks PROVE crashed' = crashed
  BY <1>8 DEF Refresh, SetTarget, SetTargetLocks
<1> QED
  BY <1>1, <1>2, <1>3, <1>4, <1>5, <1>6, <1>7, <1>8 DEF Next, Discover, SwitchStep

-----------------------------------------------------------------------------

(* The parts of the invariant hold in every reachable state.                *)
THEOREM SourceInvariant == Safety => []IInv
<1>1. ASSUME IInv, [Next]_vars PROVE IInv'
  <2>1. Locks /\ Overtaken /\ Resting /\ CrashHasCause
    BY <1>1 DEF IInv
  <2>2. Locks' /\ Overtaken' /\ Resting' /\ CrashHasCause'
    BY <1>1, <2>1, LocksStep, OvertakenStep, RestingStep, CrashStep
  <2>3. Pools'
    BY <1>1, PoolsStep
  <2> QED
    BY <2>2, <2>3 DEF IInv
<1> QED
  BY InitIInv, <1>1, PTL DEF Safety

(* Connections do not pile up: a node has one pool in the table, and those  *)
(* SetTarget let go of (source.go:104, 137-150, 511-527).                   *)
THEOREM PoolsCounted == Safety => []OnePoolPerNode
<1>1. IInv => OnePoolPerNode
  BY DEF IInv, Pools
<1> QED
  BY SourceInvariant, <1>1, PTL

(* A baseline without a client was overtaken (source.go:141-151, 286-289,   *)
(* 445-462).                                                                *)
THEOREM BaselinesHaveClients == Safety => []BaselineIfOvertaken
<1>1. IInv => BaselineIfOvertaken
  BY DEF IInv, Overtaken
<1> QED
  BY SourceInvariant, <1>1, PTL

(* In a cluster at rest the deletes under the wrong mutex cannot end the    *)
(* program, and only the first SetTarget can (source.go:94, 142-150).       *)
THEOREM CrashesHaveCauses == Safety => []CrashHasCause
<1>1. IInv => CrashHasCause
  BY DEF IInv
<1> QED
  BY SourceInvariant, <1>1, PTL

(* What the other parts do not speak of.                                    *)
Counters ==
    /\ changes \in 0..MaxChanges /\ switches \in 0..MaxSwitches
    /\ overtaken \subseteq NodeIds /\ crashed \in BOOLEAN

LEMMA CountersStep == ASSUME Counters, [Next]_vars PROVE Counters'
<1> USE DEF Counters
<1>1. ASSUME NEW n \in NodeIds, Change(n) PROVE Counters'
  BY <1>1 DEF Change, historyVars
<1>2. ASSUME NEW p \in Panels, PassStep(p) PROVE Counters'
  BY <1>2 DEF PassStep, BeginPass, EndPass, Answer, Fold, Folded, Request,
     clusterVars, historyVars
<1>3. ASSUME NEW d \in Discoverers, Discover(d) PROVE Counters'
  <2>1. CASE Update(d)
    BY <2>1 DEF Update, Forget, Unlisted, Listed, clusterVars
  <2>2. CASE Ask(d) \/ AskFails(d) \/ Publish(d)
    BY <2>2 DEF Ask, AskFails, Publish, clusterVars, historyVars
  <2> QED
    BY <1>3, <2>1, <2>2 DEF Discover
<1>4. CASE Refresh \/ SetTarget \/ SetTargetLocks
  BY <1>4 DEF Refresh, SetTarget, SetTargetLocks, clusterVars, historyVars
<1>5. CASE SetTargetDrops
  BY <1>5 DEF SetTargetDrops, Forget, clusterVars
<1>6. CASE UNCHANGED vars
  BY <1>6 DEF vars, clusterVars, historyVars
<1> QED
  BY <1>1, <1>2, <1>3, <1>4, <1>5, <1>6 DEF Next, SwitchStep

(* Every variable has its type, and the mutexes are held exactly by those   *)
(* who are between taking and releasing them.                               *)
THEOREM SourceTypes == Safety => []TypeOK
<1>1. Init => Counters
  <2>1. Init => changes = 0 /\ switches = 0 /\ overtaken = {} /\ crashed = FALSE
    BY DEF Init
  <2>2. 0 \in 0..MaxChanges /\ 0 \in 0..MaxSwitches
    BY ClusterSourceAssumption
  <2> QED
    BY <2>1, <2>2 DEF Counters
<1>2. Counters /\ [Next]_vars => Counters'
  BY CountersStep
<1>3. IInv /\ Counters => TypeOK
  BY DEF IInv, Locks, Pools, Overtaken, Counters, TypeOK, PassType, DiscoveryType,
     DiscoverySteps, Holders
<1> QED
  BY SourceInvariant, <1>1, <1>2, <1>3, PTL DEF Safety

(* No client is closed or replaced under a request (source.go:511-536).     *)
THEOREM ClientsStay == Safety => ClientStaysDuringCall
<1>1. IInv /\ [Next]_vars =>
        [\A p \in Panels :
            pass[p].step = "call" /\ pass'[p].step = "call" =>
                clients'[pass[p].node] = clients[pass[p].node]]_vars
  BY TableRests DEF IInv
<1> QED
  BY SourceInvariant, <1>1, PTL DEF Safety, ClientStaysDuringCall

=============================================================================
