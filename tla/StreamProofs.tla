---------------------------- MODULE StreamProofs ----------------------------
(***************************************************************************)
(* The safety of the monitor stream for any number of starts: the flag,    *)
(* the cancel function and the buffer are what the last stream left in     *)
(* them, but for what an abandoned stream's failure did.                   *)
(***************************************************************************)
EXTENDS Stream, TLAPS

(* The flag is up for a last stream that lives and was not cancelled, and   *)
(* down while the event loop is between Stop and cancel().                  *)
FlagTrue ==
    /\ running => started > 0 /\ Alive(started) /\ started \notin cancelled
    /\ ui \in {"cancel", "quit"} => ~running /\ uiCancel \in {0, started}

(* A flag that is down while s.cancel still has a living stream was lowered *)
(* by another stream.                                                       *)
FlagLowered ==
    cancel # 0 /\ ~running /\ Alive(cancel) => clobbered

(* A stream that has delivered its late event leaves at its next look at    *)
(* the context.                                                             *)
LateLeaves ==
    \A g \in Streams :
        \/ late[g] = 0
        \/ late[g] = 1 /\ g \in cancelled /\ pc[g] \in {"loop", "gone"}

IInv ==
    /\ TypeOK
    /\ FlagTrue
    /\ FlagLowered
    /\ NoOrphan
    /\ LateLeaves
    /\ StrangersAreLate

USE MaxStartsAssumption

(* Nothing was started yet.                                                 *)
LEMMA InitIInv == Init => IInv
<1> SUFFICES ASSUME Init PROVE IInv
  OBVIOUS
<1>1. pc \in [Streams -> {"none", "dial", "handshake", "loop", "read", "add",
                          "fail", "gone"}]
  BY DEF Init
<1>2. late \in [Streams -> 0..2]
  BY DEF Init
<1>3. \A g \in Streams : pc[g] = "none" <=> g > started
  BY DEF Init, Streams
<1>4. /\ err \in 0..started /\ uiCancel \in 0..started /\ started \in 0..MaxStarts
      /\ cancel \in {0, started} /\ shown \subseteq 1..started
      /\ cancelled \subseteq 1..started
  BY DEF Init
<1>5. TypeOK
  BY <1>1, <1>2, <1>3, <1>4 DEF Init, TypeOK
<1> QED
  BY <1>5 DEF Init, IInv, FlagTrue, FlagLowered, NoOrphan, LateLeaves,
     StrangersAreLate, Alive, Streams

(* What the event loop does to the goroutines: Start spawns one, nothing    *)
(* else moves any.                                                          *)
LEMMA StartFacts ==
  ASSUME IInv, Start
  PROVE  /\ started' = started + 1 /\ started' \in Streams
         /\ pc[started'] = "none" /\ pc'[started'] = "dial"
         /\ \A g \in Streams : g # started' => pc'[g] = pc[g]
         /\ started \in Nat /\ \A g \in cancelled' : g <= started
         /\ cancelled' \subseteq Streams
BY DEF IInv, TypeOK, Start, Streams

LEMMA StartIInv == ASSUME IInv, Start PROVE IInv'
<1> USE StartFacts
<1>1. TypeOK'
  BY DEF IInv, TypeOK, Start, Streams, historyVars
<1>2. /\ started' > 0 /\ pc'[started'] \notin {"none", "gone"}
      /\ \A g \in Streams : g # started' => (Alive(g)' <=> Alive(g))
  BY DEF Alive
<1>3. FlagTrue' /\ FlagLowered'
  <2>1. started' \notin cancelled'
    OBVIOUS
  <2> QED
    BY <1>2, <2>1 DEF FlagTrue, FlagLowered, Start, Alive
<1>4. NoOrphan'
  <2> SUFFICES ASSUME NEW g \in Streams, Alive(g)', g \notin cancelled', g # started'
               PROVE clobbered'
    BY DEF NoOrphan, Start
  <2>1. Alive(g) /\ g \notin cancelled
    BY <1>2 DEF Start
  <2>2. g = cancel \/ clobbered
    BY <2>1 DEF IInv, NoOrphan, Start
  <2>3. g = cancel => ~running /\ cancel # 0
    BY DEF Start, Streams
  <2> QED
    BY <2>1, <2>2, <2>3 DEF IInv, FlagLowered, Start, historyVars
<1>5. LateLeaves'
  BY DEF IInv, LateLeaves, Start, historyVars, TypeOK
<1>6. StrangersAreLate'
  BY DEF StrangersAreLate, Start
<1> QED
  BY <1>1, <1>3, <1>4, <1>5, <1>6 DEF IInv

(* Stop: the stream moves from s.cancel to the local variable.              *)
LEMMA StopIInv ==
  ASSUME IInv, NEW next \in {"cancel", "quit"}, ui \in {"idle", "stop"}, Stop(next)
  PROVE  IInv'
<1>1. TypeOK'
  <2>1. uiCancel' \in 0..started' /\ cancel' \in {0, started'}
    BY DEF IInv, TypeOK, Stop
  <2>2. UNCHANGED <<err, started, shown, cancelled, pc, late, clobbered>>
        /\ running' = FALSE /\ ui' = next
    BY DEF Stop, historyVars
  <2> QED
    BY <2>1, <2>2 DEF IInv, TypeOK
<1>2. \A g \in Streams : Alive(g)' <=> Alive(g)
  BY DEF Stop, Alive
<1>3. FlagTrue' /\ FlagLowered'
  BY DEF IInv, TypeOK, FlagTrue, FlagLowered, Stop
<1>4. NoOrphan'
  BY <1>2 DEF IInv, NoOrphan, Stop, historyVars
<1>5. LateLeaves' /\ StrangersAreLate'
  BY DEF IInv, LateLeaves, StrangersAreLate, Stop, historyVars
<1> QED
  BY <1>1, <1>3, <1>4, <1>5 DEF IInv

(* cancel() reaches the stream that was taken out of s.cancel.              *)
LEMMA CancelIInv == ASSUME IInv, Cancel PROVE IInv'
<1>1. TypeOK'
  BY DEF IInv, TypeOK, Cancel, Streams, streamVars, historyVars
<1>2. \A g \in Streams \cup {cancel, started} : Alive(g)' <=> Alive(g)
  BY DEF Cancel, Alive, streamVars
<1>3. FlagTrue' /\ FlagLowered'
  BY <1>2 DEF IInv, FlagTrue, FlagLowered, Cancel, streamVars, historyVars
<1>4. NoOrphan'
  BY <1>2 DEF IInv, NoOrphan, Cancel, Streams, streamVars, historyVars
<1>5. LateLeaves' /\ StrangersAreLate'
  BY DEF IInv, LateLeaves, StrangersAreLate, Cancel, streamVars, historyVars
<1> QED
  BY <1>1, <1>3, <1>4, <1>5 DEF IInv

(* A goroutine moves on, or leaves because it was cancelled.                *)
LEMMA QuietIInv ==
  ASSUME IInv, NEW g \in Streams,
         NEW from \in {"dial", "handshake", "loop", "read"},
         NEW to \in {"handshake", "loop", "read", "add", "fail", "gone"},
         Goes(g, from, to), Quiet,
         to = "gone" => g \in cancelled,
         g \in cancelled /\ from = "loop" => to = "gone"
  PROVE  IInv'
<1> USE DEF Quiet, streamVars, uiVars, historyVars
<1>1. TypeOK'
  BY DEF IInv, TypeOK, Goes, Streams
<1>2. \A h \in Streams : Alive(h)' => Alive(h)
  BY DEF IInv, TypeOK, Goes, Alive
<1>3. \A h \in Streams : Alive(h) /\ h \notin cancelled => Alive(h)'
  BY DEF IInv, TypeOK, Goes, Alive
<1>4. FlagTrue' /\ FlagLowered'
  <2>1. started > 0 => started \in Streams
    BY DEF IInv, TypeOK, Streams
  <2>2. cancel # 0 => cancel \in Streams
    BY DEF IInv, TypeOK, Streams
  <2> QED
    BY <1>2, <1>3, <2>1, <2>2 DEF IInv, FlagTrue, FlagLowered, Alive
<1>5. NoOrphan'
  BY <1>2 DEF IInv, NoOrphan
<1>6. LateLeaves' /\ StrangersAreLate'
  BY DEF IInv, TypeOK, LateLeaves, StrangersAreLate, Goes
<1> QED
  BY <1>1, <1>4, <1>5, <1>6 DEF IInv

(* An event reaches the buffer the panel shows.  If its stream is not the   *)
(* last one, it was cancelled or is an orphan.                              *)
LEMMA AddIInv == ASSUME IInv, NEW g \in Streams, Add(g) PROVE IInv'
<1>1. pc[g] = "add" /\ late[g] = 0 /\ Alive(g)
  BY DEF IInv, LateLeaves, Add, Goes, Alive
<1>2. /\ pc' = [pc EXCEPT ![g] = "loop"]
      /\ late' = [late EXCEPT ![g] = IF g \in cancelled THEN 1 ELSE 0]
      /\ shown' \subseteq shown \cup {g}
      /\ UNCHANGED <<running, err, cancel, started, cancelled, ui, uiCancel, clobbered>>
  BY <1>1 DEF IInv, TypeOK, Add, Goes, uiVars
<1>3. g <= started
  BY <1>1 DEF IInv, TypeOK, Streams
<1>4. TypeOK'
  BY <1>1, <1>2, <1>3 DEF IInv, TypeOK, Streams
<1>5. \A h \in Streams : Alive(h)' <=> Alive(h)
  BY <1>1, <1>2 DEF IInv, TypeOK, Alive
<1>6. FlagTrue' /\ FlagLowered'
  <2>1. started > 0 => started \in Streams
    BY DEF IInv, TypeOK, Streams
  <2>2. cancel # 0 => cancel \in Streams
    BY DEF IInv, TypeOK, Streams
  <2> QED
    BY <1>2, <1>5, <2>1, <2>2 DEF IInv, FlagTrue, FlagLowered
<1>7. NoOrphan'
  BY <1>2, <1>5 DEF IInv, NoOrphan
<1>8. LateLeaves'
  BY <1>2 DEF IInv, TypeOK, LateLeaves
<1>9. StrangersAreLate'
  <2>1. g = started \/ g \in cancelled \/ clobbered
    BY <1>1 DEF IInv, TypeOK, NoOrphan, FlagTrue, Streams
  <2>2. \A h \in shown : h \in Streams
    BY DEF IInv, TypeOK, Streams
  <2>3. g = started' \/ late'[g] = 1 \/ clobbered'
    BY <1>2, <2>1 DEF IInv, TypeOK
  <2>4. \A h \in shown \ {g} : late'[h] = late[h]
    BY <1>2, <2>2 DEF IInv, TypeOK
  <2> QED
    BY <1>2, <2>3, <2>4 DEF IInv, StrangersAreLate
<1> QED
  BY <1>4, <1>6, <1>7, <1>8, <1>9 DEF IInv

(* A failure lowers the flag of whoever has it.                             *)
LEMMA SetErrorIInv == ASSUME IInv, NEW g \in Streams, SetError(g) PROVE IInv'
<1>1. pc[g] = "fail" /\ late[g] = 0
  BY DEF IInv, LateLeaves, SetError, Goes
<1>2. g <= started
  BY <1>1 DEF IInv, TypeOK, Streams
<1>3. TypeOK'
  <2>1. /\ pc' = [pc EXCEPT ![g] = "gone"] /\ err' = g /\ running' = FALSE
        /\ clobbered' \in BOOLEAN
        /\ UNCHANGED <<cancel, started, shown, cancelled, ui, uiCancel, late>>
    BY DEF SetError, Goes, uiVars, IInv, TypeOK
  <2>2. err' \in 0..started'
    BY <1>2, <2>1 DEF IInv, TypeOK, Streams
  <2>3. \A h \in Streams : pc'[h] = "none" <=> h > started'
    BY <1>1, <1>2, <2>1 DEF IInv, TypeOK
  <2> QED
    BY <2>1, <2>2, <2>3 DEF IInv, TypeOK
<1>4. \A h \in Streams : Alive(h)' <=> Alive(h) /\ h # g
  BY <1>1 DEF IInv, TypeOK, Alive, SetError, Goes
<1>5. FlagTrue'
  BY DEF IInv, FlagTrue, SetError, uiVars
<1>6. FlagLowered'
  <2>1. cancel # 0 => cancel \in Streams /\ cancel = started
    BY DEF IInv, TypeOK, Streams
  <2> QED
    BY <1>4, <2>1 DEF FlagLowered, SetError
<1>7. NoOrphan'
  BY <1>4 DEF IInv, NoOrphan, SetError, uiVars
<1>8. LateLeaves' /\ StrangersAreLate'
  BY DEF IInv, TypeOK, LateLeaves, StrangersAreLate, SetError, Goes, uiVars
<1> QED
  BY <1>3, <1>5, <1>6, <1>7, <1>8 DEF IInv

(* Every step of the specification is one of these.                         *)
LEMMA NextIInv == ASSUME IInv, [Next]_vars PROVE IInv'
<1>1. CASE Toggle \/ NoNode \/ Over \/ UNCHANGED vars
  <2>1. /\ UNCHANGED <<streamVars, cancelled, pc, uiCancel, historyVars>>
        /\ \/ ui' = ui
           \/ ui \in {"idle", "start"} /\ ui' \in {"idle", "start", "stop"}
    <3>1. CASE Toggle
      BY <3>1 DEF Toggle
    <3>2. CASE NoNode
      BY <3>2 DEF NoNode
    <3>3. CASE Over \/ UNCHANGED vars
      BY <3>3 DEF Over, vars, uiVars
    <3> QED
      BY <1>1, <3>1, <3>2, <3>3
  <2>2. UNCHANGED <<running, err, cancel, started, shown, cancelled, pc, uiCancel,
                    clobbered, late>>
    BY <2>1 DEF streamVars, historyVars
  <2>3. TypeOK'
    BY <2>1, <2>2 DEF IInv, TypeOK
  <2>4. FlagTrue' /\ FlagLowered'
    BY <2>1, <2>2 DEF IInv, FlagTrue, FlagLowered, Alive
  <2>5. NoOrphan' /\ LateLeaves' /\ StrangersAreLate'
    BY <2>1, <2>2 DEF IInv, NoOrphan, LateLeaves, StrangersAreLate, Alive
  <2> QED
    BY <2>3, <2>4, <2>5 DEF IInv
<1>2. CASE Start
  BY <1>2, StartIInv
<1>3. CASE ToggleOff \/ Quit
  BY <1>3, StopIInv DEF ToggleOff, Quit
<1>4. CASE Cancel
  BY <1>4, CancelIInv
<1>5. ASSUME NEW g \in Streams, RunStep(g) PROVE IInv'
  <2>1. CASE Add(g)
    BY <2>1, AddIInv
  <2>2. CASE SetError(g)
    BY <2>2, SetErrorIInv
  <2>3. CASE Loop(g)
    <3>1. CASE g \in cancelled
      BY <2>3, <3>1, QuietIInv DEF Loop
    <3>2. CASE g \notin cancelled
      BY <2>3, <3>2, QuietIInv DEF Loop
    <3> QED
      BY <3>1, <3>2
  <2>4. CASE Dial(g) \/ DialFails(g) \/ Handshake(g) \/ HandshakeFails(g)
    BY <2>4, QuietIInv DEF Dial, DialFails, Handshake, HandshakeFails
  <2>5. CASE ReadEvent(g) \/ ReadNothing(g) \/ ReadFails(g)
    BY <2>5, QuietIInv DEF ReadEvent, ReadNothing, ReadFails
  <2> QED
    BY <1>5, <2>1, <2>2, <2>3, <2>4, <2>5 DEF RunStep, Progress
<1> QED
  BY <1>1, <1>2, <1>3, <1>4, <1>5 DEF Next, UIStep

(* The invariant holds in every reachable state.                            *)
THEOREM StreamInvariant == Safety => []IInv
BY InitIInv, NextIInv, PTL DEF Safety

(* running=true is never said of a dead stream (stream.go:37-64, 173-178).  *)
THEOREM FlagHasStream == Safety => []RunningIsAlive
<1>1. IInv => RunningIsAlive
  BY DEF IInv, FlagTrue, RunningIsAlive
<1> QED
  BY StreamInvariant, <1>1, PTL

(* Connections nobody can close come only from the failure of an abandoned  *)
(* stream (stream.go:37-64; app.go:780-788).                                *)
THEOREM OrphansAreClobbered == Safety => []NoOrphan
BY StreamInvariant, PTL DEF IInv

(* A cancelled stream delivers at most one event (stream.go:108-141).       *)
THEOREM AtMostOneLate == Safety => []OneLateEvent
<1>1. IInv => OneLateEvent
  BY DEF IInv, LateLeaves, OneLateEvent
<1> QED
  BY StreamInvariant, <1>1, PTL

(* The events of another stream in the buffer are late ones or an orphan's  *)
(* (stream.go:52-53, 140; app.go:736-748).                                  *)
THEOREM ShownIsLastOrLate == Safety => []StrangersAreLate
BY StreamInvariant, PTL DEF IInv

=============================================================================
