------------------------------ MODULE AppProofs ------------------------------
(***************************************************************************)
(* What holds of the terminal UI's goroutines however many keys are typed  *)
(* ahead of the event loop.                                                *)
(***************************************************************************)
EXTENDS App, TLAPS

-----------------------------------------------------------------------------
(* Types.  The poller adds one event to a queue the keys can no longer fill.*)

QueueInv == TypeOK /\ (screen # "gone" => Len(events) <= MaxEvents)

LEMMA AppendOne ==
  ASSUME NEW S, NEW s \in Seq(S), NEW x \in S
  PROVE  /\ Append(s, x) \in Seq(S) /\ Len(Append(s, x)) = Len(s) + 1
         /\ \A i \in 1..Len(s) : Append(s, x)[i] = s[i]
         /\ Append(s, x)[Len(s) + 1] = x
OBVIOUS

LEMMA DropFirst ==
  ASSUME NEW S, NEW s \in Seq(S), s # <<>>
  PROVE  /\ Tail(s) \in Seq(S) /\ Len(Tail(s)) = Len(s) - 1 /\ Len(s) \in Nat \ {0}
         /\ Head(s) = s[1] /\ \A i \in 1..Len(Tail(s)) : Tail(s)[i] = s[i + 1]
OBVIOUS

LEMMA TakeKeepsQueue ==
  ASSUME QueueInv, NEW k, NextEvent(k)
  PROVE  /\ events' \in Seq(Keys \cup {"nil"}) /\ Len(events') <= MaxEvents
         /\ UNCHANGED update
<1>1. events \in Seq(Keys \cup {"nil"}) /\ events # <<>> /\ events' = Tail(events)
  BY DEF QueueInv, TypeOK, NextEvent
<1>2. Len(events) <= MaxEvents + 1 /\ MaxEvents \in Nat
  BY MaxEventsAssumption DEF QueueInv, TypeOK
<1> QED
  BY <1>1, <1>2, DropFirst DEF NextEvent

LEMMA QueueStep == ASSUME QueueInv, [Next]_vars PROVE QueueInv'
<1> USE MaxEventsAssumption DEF QueueInv, TypeOK
<1>1. CASE \E k \in Keys : KeyTyped(k)
  <2>1. PICK k \in Keys : KeyTyped(k)
    BY <1>1
  <2>2. events' \in Seq(Keys \cup {"nil"}) /\ Len(events') = Len(events) + 1
    BY <2>1, AppendOne DEF KeyTyped
  <2> QED
    BY <2>1, <2>2 DEF KeyTyped
<1>2. CASE PollerEnds
  <2>1. events' \in Seq(Keys \cup {"nil"}) /\ Len(events') = Len(events) + 1
    BY <1>2, AppendOne DEF PollerEnds
  <2> QED
    BY <1>2, <2>1 DEF PollerEnds, appVars
<1>3. CASE LoopStarts \/ LoopFails
  BY <1>3 DEF LoopStarts, LoopFails, appVars
<1>4. CASE LoopEnds
  <2>1. events' \in Seq(Keys \cup {"nil"}) /\ Len(events') <= MaxEvents
        /\ UNCHANGED update
    BY <1>4, TakeKeepsQueue DEF LoopEnds
  <2> QED
    BY <1>4, <2>1 DEF LoopEnds, appVars
<1>5. CASE QuitKey
  <2>1. events' \in Seq(Keys \cup {"nil"}) /\ Len(events') <= MaxEvents
        /\ UNCHANGED update
    BY <1>5, TakeKeepsQueue DEF QuitKey
  <2>2. CASE done
    BY <1>5, <2>1, <2>2 DEF QuitKey
  <2>3. CASE ~done
    BY <1>5, <2>1, <2>3 DEF QuitKey
  <2> QED
    BY <2>2, <2>3
<1>6. CASE OtherKey
  <2>1. events' \in Seq(Keys \cup {"nil"}) /\ Len(events') <= MaxEvents
        /\ UNCHANGED update
    BY <1>6, TakeKeepsQueue DEF OtherKey
  <2> QED
    BY <1>6, <2>1 DEF OtherKey, RefreshRequest
<1>7. CASE Redraw
  BY <1>7 DEF Redraw
<1>8. CASE TuiReturned
  BY <1>8 DEF TuiReturned, tviewVars
<1>9. CASE Returned
  BY <1>9 DEF Returned, tviewVars
<1>10. CASE RedrawerEnds
  BY <1>10 DEF RedrawerEnds, tviewVars
<1>11. CASE TickerFires
  BY <1>11 DEF TickerFires, QueueUpdateDraw
<1>12. CASE TakeRefresh
  BY <1>12 DEF TakeRefresh, QueueUpdateDraw
<1>13. CASE UNCHANGED vars
  BY <1>13 DEF vars, tviewVars, appVars
<1> QED
  BY <1>1, <1>2, <1>3, <1>4, <1>5, <1>6, <1>7, <1>8, <1>9, <1>10, <1>11, <1>12,
     <1>13 DEF Next, LoopStep

LEMMA QueueInit == Init => QueueInv
<1> SUFFICES ASSUME Init PROVE QueueInv
  OBVIOUS
<1>1. events \in Seq(Keys \cup {"nil"}) /\ Len(events) = 0
  BY DEF Init
<1>2. Len(events) <= MaxEvents /\ Len(events) <= MaxEvents + 1
  BY <1>1, MaxEventsAssumption
<1>3. quits \in 0..2 /\ refreshCh \in 0..1
  BY DEF Init
<1>4. (update <=> redrawer = "queued") /\ {update, done, panicked, stale} \subseteq BOOLEAN
  BY DEF Init
<1> QED
  BY <1>1, <1>2, <1>3, <1>4 DEF Init, QueueInv, TypeOK

(* Every variable keeps its type; in particular a redraw is queued exactly  *)
(* while the redrawer waits for it, so there is never a second one          *)
(* (app.go:205-234).                                                        *)
THEOREM AppTypes == Spec => []TypeOK
<1>1. QueueInv /\ [Next]_vars => QueueInv'
  BY QueueStep
<1>2. QueueInv => TypeOK
  BY DEF QueueInv
<1> QED
  BY <1>1, <1>2, QueueInit, PTL DEF Spec, Safety

-----------------------------------------------------------------------------
(* Quitting.                                                                *)

(* The quit keys the loop has yet to see.                                   *)
QuitsAhead == {i \in DOMAIN events : events[i] \in Quit}

(* Until the loop has ended, done is closed by a quit key only, which is no *)
(* longer in the queue.                                                     *)
QuitInv ==
    /\ QueueInv
    /\ quits = 0 => QuitsAhead = {} /\ (done => loop = "exited")
    /\ quits = 1 =>
        /\ \A i, j \in QuitsAhead : i = j
        /\ done /\ loop # "exited" => QuitsAhead = {}
    /\ PanicNeedsTwoQuits

LEMMA TakeQuits ==
  ASSUME QueueInv, NEW k, NextEvent(k)
  PROVE  /\ \A i \in QuitsAhead' : i + 1 \in QuitsAhead /\ i \in Nat \ {0}
         /\ k \in Quit => 1 \in QuitsAhead
<1>1. events \in Seq(Keys \cup {"nil"}) /\ events # <<>> /\ events' = Tail(events)
      /\ Head(events) = k
  BY DEF QueueInv, TypeOK, NextEvent
<1> QED
  BY <1>1, DropFirst DEF QuitsAhead

LEMMA QuitStep == ASSUME QuitInv, [Next]_vars PROVE QuitInv'
<1>0. QueueInv /\ QueueInv'
  BY QueueStep DEF QuitInv
<1>1. ASSUME NEW k \in Keys, KeyTyped(k) PROVE QuitInv'
  <2>1. /\ \A i \in 1..Len(events) : events'[i] = events[i]
        /\ Len(events') = Len(events) + 1 /\ events'[Len(events) + 1] = k
        /\ DOMAIN events = 1..Len(events) /\ DOMAIN events' = 1..Len(events')
        /\ Len(events) \in Nat
    BY <1>0, <1>1, AppendOne DEF KeyTyped, QueueInv, TypeOK
  <2>2. CASE k \in Quit
    <3>1. \A i \in QuitsAhead' : i \in QuitsAhead \/ i = Len(events) + 1
      BY <2>1 DEF QuitsAhead
    <3>2. quits' # 0 /\ (quits' = 1 => quits = 0) /\ (quits = 2 => quits' = 2)
      BY <1>0, <1>1, <2>2 DEF KeyTyped, QueueInv, TypeOK
    <3> QED
      BY <1>0, <1>1, <3>1, <3>2 DEF KeyTyped, QuitInv, PanicNeedsTwoQuits
  <2>3. CASE k \notin Quit
    <3>1. QuitsAhead' \subseteq QuitsAhead
      BY <2>1, <2>3 DEF QuitsAhead
    <3> QED
      BY <1>0, <1>1, <2>3, <3>1 DEF KeyTyped, QuitInv, PanicNeedsTwoQuits
  <2> QED
    BY <2>2, <2>3
<1>2. CASE PollerEnds
  <2>1. QuitsAhead' \subseteq QuitsAhead
    <3>1. /\ \A i \in 1..Len(events) : events'[i] = events[i]
          /\ Len(events') = Len(events) + 1 /\ events'[Len(events) + 1] = "nil"
          /\ DOMAIN events = 1..Len(events) /\ DOMAIN events' = 1..Len(events')
          /\ Len(events) \in Nat
      BY <1>0, <1>2, AppendOne DEF PollerEnds, QueueInv, TypeOK
    <3> QED
      BY <3>1 DEF QuitsAhead, Quit
  <2> QED
    BY <1>0, <1>2, <2>1 DEF PollerEnds, appVars, QuitInv, PanicNeedsTwoQuits
<1>3. CASE LoopStarts \/ LoopFails
  BY <1>0, <1>3 DEF LoopStarts, LoopFails, appVars, QuitInv, PanicNeedsTwoQuits,
     QuitsAhead
<1>4. CASE LoopEnds
  BY <1>0, <1>4, TakeQuits DEF LoopEnds, appVars, QuitInv, PanicNeedsTwoQuits
<1>5. CASE QuitKey
  <2>1. PICK k \in Quit : NextEvent(k)
    BY <1>5 DEF QuitKey
  <2>2. /\ \A i \in QuitsAhead' : i + 1 \in QuitsAhead /\ i \in Nat \ {0}
        /\ 1 \in QuitsAhead /\ loop # "exited"
    BY <1>0, <2>1, TakeQuits DEF NextEvent
  <2>3. quits = 1 => QuitsAhead' = {}
    BY <2>2 DEF QuitInv
  <2>4. done => quits = 2
    BY <1>0, <2>2 DEF QuitInv, QueueInv, TypeOK
  <2> QED
    BY <1>0, <1>5, <2>2, <2>3, <2>4 DEF QuitKey, QuitInv, PanicNeedsTwoQuits
<1>6. CASE OtherKey
  BY <1>0, <1>6, TakeQuits
     DEF OtherKey, RefreshRequest, QuitInv, PanicNeedsTwoQuits
<1>7. CASE Redraw \/ TuiReturned \/ Returned
  BY <1>0, <1>7
     DEF Redraw, TuiReturned, Returned, tviewVars, QuitInv, PanicNeedsTwoQuits,
         QuitsAhead
<1>8. CASE RedrawerEnds \/ TickerFires \/ TakeRefresh
  BY <1>0, <1>8
     DEF RedrawerEnds, TickerFires, TakeRefresh, QueueUpdateDraw, tviewVars, QuitInv,
         PanicNeedsTwoQuits, QuitsAhead
<1>9. CASE UNCHANGED vars
  BY <1>0, <1>9 DEF vars, tviewVars, appVars, QuitInv, PanicNeedsTwoQuits, QuitsAhead
<1> QED
  BY <1>1, <1>2, <1>3, <1>4, <1>5, <1>6, <1>7, <1>8, <1>9 DEF Next, LoopStep

(* However many keys are typed ahead and however the loop, the redrawer and *)
(* App.Run interleave, closing a.done twice takes two quit keys: the three  *)
(* places that close it never meet on one (app.go:82-85, 194-198, 236-241). *)
THEOREM PanicTakesTwo == Spec => []PanicNeedsTwoQuits
<1>1. Init => QuitInv
  BY QueueInit DEF Init, QuitInv, QuitsAhead, PanicNeedsTwoQuits
<1>2. QuitInv /\ [Next]_vars => QuitInv'
  BY QuitStep
<1>3. QuitInv => PanicNeedsTwoQuits
  BY DEF QuitInv
<1> QED
  BY <1>1, <1>2, <1>3, PTL DEF Spec, Safety

=============================================================================
