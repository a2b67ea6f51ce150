---------------------------- MODULE TargetProofs ----------------------------
(***************************************************************************)
(* What a switch of servers can disturb, for any servers, panels and       *)
(* number of switches: how many comparisons of two servers' answers there  *)
(* can be, and when the list SetTarget has published is not the target's.  *)
(***************************************************************************)
EXTENDS Target, TLAPS

One(b) == IF b THEN 1 ELSE 0

(* x is an answer, and not one of server y.                                 *)
Differ(x, y) == One(x \notin {NoAddr, y})

(* Mixed comparisons already on their way to a panel with a baseline: one   *)
(* if the baseline is another server's, one if the answer about to be       *)
(* folded is.                                                               *)
FoldsDue ==
    Differ(baseline, target)
        + (IF pass.step = "fold" THEN Differ(pass.snap.from, target) ELSE 0)

(* Those on their way to the replication panel: the stored snapshot, the    *)
(* one in the pass and the target are compared along this chain.            *)
ComparesDue ==
    CASE pass.step \in {"clear", "compare"} ->
            Differ(store.from, pass.snap.from) + Differ(pass.snap.from, target)
      [] pass.step = "save" -> Differ(pass.snap.from, target)
      [] OTHER -> Differ(store.from, target)

(* An answer the target has moved away from finds no baseline: the switch   *)
(* that overtook it dropped it, and only a fold makes a new one.            *)
OvertakenFindsNone ==
    pass.step = "fold" /\ pass.snap.from # target => baseline = NoAddr

StepsOfPanel ==
    IF panel = "replication" THEN pass.step # "fold" ELSE pass.step # "compare"

MixedBudget ==
    IF panel = "replication"
    THEN mixed + ComparesDue <= switches
    ELSE mixed + FoldsDue <= caught

(* What SetTarget is about to publish is the target's.                      *)
Published ==
    /\ ui = "publish" => uiAddr = target
    /\ ConnectedUnlessUndone

IInv ==
    /\ TypeOK
    /\ StepsOfPanel
    /\ OvertakenFindsNone
    /\ MixedBudget
    /\ Published

(* The beginning: nothing was compared, nothing published.                  *)
LEMMA InitIInv == Init => IInv
<1> SUFFICES ASSUME Init PROVE IInv
  OBVIOUS
<1>1. NoSnapshot \in Snapshots
  BY DEF NoSnapshot, Snapshots, Links
<1>2. /\ pass \in [step : {"idle", "fold", "clear", "compare", "save", "fail"},
                   snap : Snapshots]
      /\ pass.snap.from = NoAddr <=> pass.step \in {"idle", "fail"}
  BY <1>1 DEF Init, Idle, NoSnapshot
<1>3. TypeOK
  <2>1. store \in Snapshots
    BY <1>1 DEF Init
  <2>2. switches \in 0..MaxSwitches
    BY TargetAssumption DEF Init
  <2> QED
    BY <1>2, <2>1, <2>2 DEF Init, TypeOK
<1>4. StepsOfPanel /\ OvertakenFindsNone /\ Published
  BY DEF Init, StepsOfPanel, OvertakenFindsNone, Published, Idle,
     ConnectedUnlessUndone
<1>5. MixedBudget
  BY DEF Init, MixedBudget, ComparesDue, FoldsDue, Differ, One, Idle, NoSnapshot
<1> QED
  BY <1>3, <1>4, <1>5 DEF IInv

(* Types, and which steps a panel takes.                                    *)
LEMMA TypeStep == ASSUME IInv, [Next]_vars PROVE TypeOK' /\ StepsOfPanel'
<1> USE TargetAssumption DEF IInv, TypeOK, StepsOfPanel
<1> DEFINE Goal == TypeOK' /\ StepsOfPanel'
<1>1. ASSUME NEW link \in Links, FetchOK(link) PROVE Goal
  <2>1. pass' = [step |-> IF panel = "replication" THEN "clear" ELSE "fold",
                 snap |-> [from |-> target, link |-> link, reconnected |-> FALSE]]
    BY <1>1 DEF FetchOK, NoSnapshot
  <2>2. pass'.snap \in Snapshots /\ pass'.snap.from # NoAddr
    BY <2>1 DEF Snapshots
  <2>3. wasDown' \subseteq Addrs
    BY <1>1 DEF FetchOK
  <2> QED
    BY <1>1, <2>1, <2>2, <2>3 DEF FetchOK, sourceVars, storeVars, refreshVars, uiVars
<1>2. CASE FetchErr
  BY <1>2 DEF FetchErr, sourceVars, storeVars, refreshVars, uiVars, historyVars
<1>3. CASE Fold
  BY <1>3 DEF Fold, CountMixed, sourceVars, storeVars, refreshVars, uiVars, Snapshots
<1>4. CASE ClearError
  BY <1>4 DEF ClearError, sourceVars, storeVars, refreshVars, uiVars, historyVars
<1>5. CASE Compare
  <2>1. pass'.snap = [pass.snap EXCEPT !.reconnected =
                          store.link = "long" /\ pass.snap.link = "up"]
        /\ pass'.step = "save"
    BY <1>5 DEF Compare
  <2>2. pass' = [step |-> "save", snap |-> pass'.snap]
    BY <1>5 DEF Compare
  <2>3. pass'.snap \in Snapshots /\ pass'.snap.from = pass.snap.from
    BY <2>1 DEF Snapshots
  <2>4. mixed' \in Nat
    BY <1>5 DEF Compare, CountMixed
  <2> QED
    BY <1>5, <2>1, <2>2, <2>3, <2>4 DEF Compare, sourceVars, storeVars,
       refreshVars, uiVars
<1>6. CASE SaveSnapshot
  BY <1>6 DEF SaveSnapshot, Idle, NoSnapshot, Snapshots, Links, sourceVars,
     refreshVars, uiVars, historyVars
<1>7. CASE RecordError
  BY <1>7 DEF RecordError, Idle, NoSnapshot, Snapshots, Links, sourceVars,
     refreshVars, uiVars, historyVars
<1>8. CASE Refresh
  BY <1>8 DEF Refresh, RefreshDiscover, RefreshPublish, sourceVars, storeVars,
     uiVars, historyVars
<1>9. ASSUME NEW a \in Addrs, SwitchSource(a) PROVE Goal
  BY <1>9 DEF SwitchSource, CountCaught, storeVars, refreshVars
<1>10. CASE SetTarget
  BY <1>10 DEF SetTarget, SetTargetFails, SetTargetDiscover, SetTargetPublish,
     sourceVars, storeVars, refreshVars, historyVars
<1>11. CASE UNCHANGED vars
  BY <1>11 DEF vars, sourceVars, storeVars, refreshVars, uiVars, historyVars
<1> QED
  BY <1>1, <1>2, <1>3, <1>4, <1>5, <1>6, <1>7, <1>8, <1>9, <1>10, <1>11
  DEF Next, PassStep

(* A baseline is made by a fold, and every switch drops it.                 *)
LEMMA OvertakenStep == ASSUME IInv, [Next]_vars PROVE OvertakenFindsNone'
<1> USE DEF IInv, OvertakenFindsNone
<1>1. CASE PassStep
  <2>1. ASSUME NEW link \in Links, FetchOK(link) PROVE OvertakenFindsNone'
    <3>1. pass'.snap.from = target' /\ target' = target
      BY <2>1 DEF FetchOK, NoSnapshot, sourceVars
    <3> QED
      BY <3>1
  <2>2. CASE FetchErr \/ ClearError \/ Compare \/ Fold
    <3>1. pass'.step # "fold"
      BY <2>2 DEF FetchErr, ClearError, Compare, Fold, TypeOK
    <3> QED
      BY <3>1
  <2>3. CASE SaveSnapshot \/ RecordError
    BY <2>3 DEF SaveSnapshot, RecordError, Idle
  <2> QED
    BY <1>1, <2>1, <2>2, <2>3 DEF PassStep
<1>2. CASE Refresh \/ SetTarget
  BY <1>2 DEF Refresh, RefreshDiscover, RefreshPublish, SetTarget, SetTargetFails,
     SetTargetDiscover, SetTargetPublish, sourceVars
<1>3. ASSUME NEW a \in Addrs, SwitchSource(a) PROVE OvertakenFindsNone'
  BY <1>3 DEF SwitchSource
<1>4. CASE UNCHANGED vars
  BY <1>4 DEF vars, sourceVars
<1> QED
  BY <1>1, <1>2, <1>3, <1>4 DEF Next

(* Every comparison is paid for by a switch.                                *)
LEMMA BudgetStep == ASSUME IInv, [Next]_vars PROVE MixedBudget'
<1> USE TargetAssumption DEF IInv, MixedBudget, FoldsDue, ComparesDue, Differ, One
<1>1. ASSUME NEW link \in Links, FetchOK(link) PROVE MixedBudget'
  <2>1. pass'.step = (IF panel = "replication" THEN "clear" ELSE "fold")
        /\ pass'.snap.from = target
    BY <1>1 DEF FetchOK, NoSnapshot
  <2> QED
    BY <1>1, <2>1 DEF FetchOK, TypeOK, sourceVars, storeVars, uiVars
<1>2. CASE FetchErr
  <2>1. pass'.step = "fail" /\ pass'.snap = pass.snap
    BY <1>2 DEF FetchErr, TypeOK
  <2> QED
    BY <1>2, <2>1 DEF FetchErr, TypeOK, sourceVars, storeVars, uiVars, historyVars
<1>3. CASE Fold
  <2>1. pass'.step = "clear" /\ pass'.snap = pass.snap
    BY <1>3 DEF Fold, TypeOK
  <2> QED
    BY <1>3, <2>1 DEF Fold, CountMixed, TypeOK, StepsOfPanel, OvertakenFindsNone,
       storeVars, uiVars
<1>4. CASE ClearError
  <2>1. pass'.step = (IF panel = "replication" THEN "compare" ELSE "save")
        /\ pass'.snap = pass.snap
    BY <1>4 DEF ClearError, TypeOK
  <2> QED
    BY <1>4, <2>1 DEF ClearError, TypeOK, sourceVars, storeVars, uiVars, historyVars
<1>5. CASE Compare
  <2>1. pass'.step = "save" /\ pass'.snap.from = pass.snap.from
    BY <1>5 DEF Compare, TypeOK, Snapshots
  <2> QED
    BY <1>5, <2>1 DEF Compare, CountMixed, TypeOK, StepsOfPanel, sourceVars,
       storeVars, uiVars
<1>6. CASE SaveSnapshot
  <2>1. pass'.step = "idle" /\ store'.from = pass.snap.from
    BY <1>6 DEF SaveSnapshot, Idle
  <2> QED
    BY <1>6, <2>1 DEF SaveSnapshot, TypeOK, sourceVars, uiVars, historyVars
<1>7. CASE RecordError
  <2>1. pass'.step = "idle"
    BY <1>7 DEF RecordError, Idle
  <2> QED
    BY <1>7, <2>1 DEF RecordError, TypeOK, sourceVars, uiVars, historyVars
<1>8. CASE Refresh
  BY <1>8 DEF Refresh, RefreshDiscover, RefreshPublish, sourceVars, storeVars,
     uiVars, historyVars
<1>9. ASSUME NEW a \in Addrs, SwitchSource(a) PROVE MixedBudget'
  BY <1>9 DEF SwitchSource, CountCaught, TypeOK, Snapshots, storeVars, refreshVars
<1>10. CASE SetTarget
  BY <1>10 DEF SetTarget, SetTargetFails, SetTargetDiscover, SetTargetPublish,
     sourceVars, storeVars, refreshVars, historyVars
<1>11. CASE UNCHANGED vars
  BY <1>11 DEF vars, sourceVars, storeVars, uiVars, historyVars
<1> QED
  BY <1>1, <1>2, <1>3, <1>4, <1>5, <1>6, <1>7, <1>8, <1>9, <1>10, <1>11
  DEF Next, PassStep

(* The target rests while SetTarget discovers and publishes.                *)
LEMMA PublishedStep == ASSUME IInv, [Next]_vars PROVE Published'
<1> USE DEF IInv, Published, ConnectedUnlessUndone
<1>1. CASE PassStep
  BY <1>1 DEF PassStep, FetchOK, FetchErr, Fold, ClearError, Compare,
     SaveSnapshot, RecordError, sourceVars, uiVars, historyVars
<1>2. CASE Refresh
  BY <1>2 DEF Refresh, RefreshDiscover, RefreshPublish, sourceVars, uiVars,
     historyVars
<1>3. ASSUME NEW a \in Addrs, SwitchSource(a) PROVE Published'
  BY <1>3 DEF SwitchSource
<1>4. CASE SetTarget
  BY <1>4 DEF SetTarget, SetTargetFails, SetTargetDiscover, SetTargetPublish,
     sourceVars, historyVars
<1>5. CASE UNCHANGED vars
  BY <1>5 DEF vars, sourceVars, uiVars, historyVars
<1> QED
  BY <1>1, <1>2, <1>3, <1>4, <1>5 DEF Next

(* The parts of the invariant hold in every reachable state.                *)
THEOREM SwitchInvariant == Safety => []IInv
<1>1. IInv /\ [Next]_vars => IInv'
  BY TypeStep, OvertakenStep, BudgetStep, PublishedStep DEF IInv
<1> QED
  BY InitIInv, <1>1, PTL DEF Safety

(* Every variable has its type, for any addresses and bounds.               *)
THEOREM SwitchTypes == Safety => []TypeOK
<1>1. IInv => TypeOK
  BY DEF IInv
<1> QED
  BY SwitchInvariant, <1>1, PTL

(* Rates and "new" marks over two servers: at most one per answer that a    *)
(* switch overtook, and per switch in the replication panel                 *)
(* (source.go:79-104, 286-289, 445-462; engine.go:188-193).                 *)
THEOREM MixedIsPaidFor == Safety => []MixedOnlyIfCaught
<1>1. IInv => MixedOnlyIfCaught
  BY DEF IInv, TypeOK, MixedBudget, FoldsDue, ComparesDue, Differ, One,
     MixedOnlyIfCaught
<1> QED
  BY SwitchInvariant, <1>1, PTL

(* The list SetTarget published stays the target's but for a late refresh   *)
(* (engine.go:74-91, 129-154).                                              *)
THEOREM ListFollowsTarget == Safety => []ConnectedUnlessUndone
<1>1. IInv => ConnectedUnlessUndone
  BY DEF IInv, Published
<1> QED
  BY SwitchInvariant, <1>1, PTL

=============================================================================
