------------------------------- MODULE Stream -------------------------------
(***************************************************************************)
(* monitor.Stream (internal/monitor/stream.go) and the two callers the UI  *)
(* has for it: the `m` key on the monitor panel (App.toggleMonitor) and    *)
(* App.Run, which starts it when configured and stops it at the end.       *)
(*                                                                         *)
(* Every Start spawns a goroutine with a connection of its own.  Start and *)
(* Stop do not wait for the previous goroutine, so several may be alive;   *)
(* they share s.running, s.err and s.buf.  The g-th Start is stream g.     *)
(***************************************************************************)
EXTENDS Naturals, FiniteSets

CONSTANT MaxStarts          \* bound: calls of Start

ASSUME MaxStartsAssumption == MaxStarts \in Nat

Streams == 1..MaxStarts

VARIABLES
    running,                \* s.running
    err,                    \* s.err: the stream that failed, or 0
    cancel,                 \* s.cancel: the stream it cancels, or 0 for nil
    started,                \* calls of Start; s.node is what the last one set
    shown,                  \* streams that have events in s.buf
    cancelled,              \* streams whose context was cancelled
    pc,                     \* where each stream's goroutine is
    ui, uiCancel,           \* the event loop: where it is, its local `cancel`
    clobbered,              \* history: a stream that was not the last failed
    late                    \* history: events a stream delivered to a buffer
                            \* after it was cancelled, up to 2

streamVars == <<running, err, cancel, started, shown>>
uiVars == <<ui, uiCancel>>
historyVars == <<clobbered, late>>
vars == <<streamVars, cancelled, pc, uiVars, historyVars>>

Init ==
    /\ running = FALSE /\ err = 0 /\ cancel = 0 /\ started = 0 /\ shown = {}
    /\ cancelled = {}
    /\ pc = [g \in Streams |-> "none"]
    /\ ui \in {"idle", "start"}         \* cfg.Monitor.Enabled: start at once
    /\ uiCancel = 0
    /\ clobbered = FALSE
    /\ late = [g \in Streams |-> 0]

-----------------------------------------------------------------------------
(* The UI.                                                                  *)

(* toggleMonitor asks Running first, and acts on the answer later.          *)
Toggle ==
    /\ ui = "idle"
    /\ ui' = IF running THEN "stop" ELSE "start"
    /\ UNCHANGED <<streamVars, cancelled, pc, uiCancel, historyVars>>

(* startMonitor, when there is no online node to start on.                  *)
NoNode ==
    /\ ui = "start"
    /\ ui' = "idle"
    /\ UNCHANGED <<streamVars, cancelled, pc, uiCancel, historyVars>>

(* Start: a stream that s.running does not admit to is not cancelled.       *)
Start ==
    /\ ui = "start"
    /\ started < MaxStarts
    /\ cancelled' = IF running THEN cancelled \cup ({cancel} \ {0}) ELSE cancelled
    /\ started' = started + 1
    /\ running' = TRUE
    /\ err' = 0
    /\ cancel' = started'
    /\ shown' = {}
    /\ pc' = [pc EXCEPT ![started'] = "dial"]
    /\ ui' = "idle"
    /\ UNCHANGED <<uiCancel, historyVars>>

(* Mutant: the cancel function is cleared before it is copied.              *)
StopForgets(next) ==
    /\ uiCancel' = 0
    /\ cancel' = 0
    /\ running' = FALSE
    /\ ui' = next
    /\ UNCHANGED <<err, started, shown, cancelled, pc, historyVars>>

(* Stop, under s.mu ...                                                     *)
Stop(next) ==
    /\ uiCancel' = cancel
    /\ cancel' = 0
    /\ running' = FALSE
    /\ ui' = next
    /\ UNCHANGED <<err, started, shown, cancelled, pc, historyVars>>

ToggleOff == ui = "stop" /\ Stop("cancel")

(* App.Run's last call, the event loop having returned.                     *)
Quit == ui = "idle" /\ Stop("quit")

(* ... and cancel() after it.                                               *)
Cancel ==
    /\ ui \in {"cancel", "quit"}
    /\ cancelled' = cancelled \cup ({uiCancel} \ {0})
    /\ ui' = IF ui = "quit" THEN "over" ELSE "idle"
    /\ UNCHANGED <<streamVars, pc, uiCancel, historyVars>>

UIStep == Start \/ ToggleOff \/ Cancel

-----------------------------------------------------------------------------
(* The goroutine of stream g: run.                                          *)

Goes(g, from, to) ==
    /\ pc[g] = from
    /\ pc' = [pc EXCEPT ![g] = to]

Quiet == UNCHANGED <<streamVars, cancelled, uiVars, historyVars>>

(* A plain dial ends with an error when the context is cancelled, a TLS one *)
(* does not look at it: both outcomes are possible at any time.             *)
Dial(g) == Goes(g, "dial", "handshake") /\ Quiet

DialFails(g) == Goes(g, "dial", "fail") /\ Quiet

(* AUTH, MONITOR and the answers: no deadline, no context.                  *)
Handshake(g) == Goes(g, "handshake", "loop") /\ Quiet

HandshakeFails(g) == Goes(g, "handshake", "fail") /\ Quiet

(* Mutant: the loop does not look at its context.                           *)
LoopOn(g) == Goes(g, "loop", "read") /\ Quiet

(* select: a cancelled stream returns, silently, another one reads with a   *)
(* deadline of half a second.                                               *)
Loop(g) ==
    /\ Goes(g, "loop", IF g \in cancelled THEN "gone" ELSE "read")
    /\ Quiet

ReadEvent(g) == Goes(g, "read", "add") /\ Quiet

(* A timeout, or a line that does not parse: round again.                   *)
ReadNothing(g) == Goes(g, "read", "loop") /\ Quiet

ReadFails(g) == Goes(g, "read", "fail") /\ Quiet

(* s.buf.Add, on the buffer s.buf points to by now.  s.buf is read without  *)
(* s.mu: an older stream may also see the buffer of an earlier Start, which *)
(* nobody shows any more.                                                   *)
Add(g) ==
    /\ Goes(g, "add", "loop")
    /\ \/ shown' = shown \cup {g}
       \/ g # started /\ shown' = shown
    /\ late' = [late EXCEPT ![g] =
                    IF g \in cancelled /\ @ < 2 THEN @ + 1 ELSE @]
    /\ UNCHANGED <<running, err, cancel, started, cancelled, uiVars, clobbered>>

(* Mutant: the error is kept, the flag is not lowered.                      *)
FailRunning(g) ==
    /\ Goes(g, "fail", "gone")
    /\ err' = g
    /\ clobbered' = (clobbered \/ g # started)
    /\ UNCHANGED <<running, cancel, started, shown, cancelled, uiVars, late>>

(* setError, whichever stream s.running and s.err are about by now.         *)
SetError(g) ==
    /\ Goes(g, "fail", "gone")
    /\ err' = g
    /\ running' = FALSE
    /\ clobbered' = (clobbered \/ g # started)
    /\ UNCHANGED <<cancel, started, shown, cancelled, uiVars, late>>

(* The steps that a goroutine takes by itself or within a timeout.          *)
Progress(g) ==
    \/ Dial(g) \/ DialFails(g)
    \/ Loop(g) \/ ReadEvent(g) \/ ReadNothing(g) \/ ReadFails(g)
    \/ Add(g) \/ SetError(g)

RunStep(g) == Progress(g) \/ Handshake(g) \/ HandshakeFails(g)

Over == ui = "over" /\ UNCHANGED vars

Next ==
    \/ Toggle \/ NoNode \/ UIStep \/ Quit
    \/ \E g \in Streams : RunStep(g)
    \/ Over

Safety == Init /\ [][Next]_vars

(* Dials and reads have deadlines and the event loop comes round; nothing   *)
(* bounds the handshake.                                                    *)
Spec == Safety /\ WF_vars(UIStep) /\ \A g \in Streams : WF_vars(Progress(g))

-----------------------------------------------------------------------------

Alive(g) == pc[g] \notin {"none", "gone"}

(* Every variable has its type, and streams are started in order.           *)
TypeOK ==
    /\ running \in BOOLEAN /\ clobbered \in BOOLEAN
    /\ err \in 0..started /\ cancel \in {0, started}
    /\ started \in 0..MaxStarts
    /\ shown \subseteq 1..started /\ cancelled \subseteq 1..started
    /\ pc \in [Streams -> {"none", "dial", "handshake", "loop", "read", "add",
                           "fail", "gone"}]
    /\ \A g \in Streams : pc[g] = "none" <=> g > started
    /\ ui \in {"idle", "start", "stop", "cancel", "quit", "over"}
    /\ uiCancel \in 0..started
    /\ late \in [Streams -> 0..2]

(* The panel never says running=true of a stream that is dead: the last     *)
(* goroutine cannot end without the flag being lowered, by itself or by the *)
(* Stop that cancelled it (stream.go:37-64, 173-178).                       *)
RunningIsAlive == running => started > 0 /\ Alive(started)

(* A connection that nobody can close any more - alive, not cancelled and   *)
(* out of reach of s.cancel - exists only if an abandoned stream failed     *)
(* into the state of its successor; toggling alone never leaks one          *)
(* (stream.go:37-64; app.go:780-788).                                       *)
NoOrphan ==
    \A g \in Streams :
        Alive(g) /\ g \notin cancelled =>
            \/ g = cancel
            \/ g = uiCancel /\ ui \in {"cancel", "quit"}
            \/ clobbered

(* A cancelled stream gets at most one more event into a buffer, also when  *)
(* a line was on its way while the panel was switched off and on again      *)
(* (stream.go:108-141).                                                     *)
OneLateEvent == \A g \in Streams : late[g] <= 1

(* The panel shows events under the name of the last stream's node: one of  *)
(* another stream among them is the late event of a stream cancelled, or    *)
(* comes from an orphan (stream.go:52-53, 140; app.go:736-748).             *)
StrangersAreLate ==
    \A g \in shown : g = started \/ late[g] = 1 \/ clobbered

(* A cancelled stream that is past its handshake ends: its connection is    *)
(* closed within a read timeout, even if the server keeps talking           *)
(* (stream.go:108-122).                                                     *)
CancelledEnds ==
    \A g \in Streams :
        g \in cancelled /\ pc[g] \in {"loop", "read", "add"} ~> pc[g] = "gone"

=============================================================================
