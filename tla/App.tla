--------------------------------- MODULE App ---------------------------------
(***************************************************************************)
(* The terminal UI's goroutines (internal/ui/app.go): tview's event loop,  *)
(* which executes key handlers and queued updates, the goroutine of        *)
(* App.Run that asks it to redraw, and App.Run itself, which waits for     *)
(* both when the user quits.                                               *)
(*                                                                         *)
(* tview is external, modelled as the program uses it: QueueUpdateDraw     *)
(* puts a function on a buffered channel and waits until the event loop    *)
(* has executed it; Stop closes the screen, whose poller then posts a nil  *)
(* event; the loop ends at that event and not before.                      *)
(***************************************************************************)
EXTENDS Naturals, Sequences

CONSTANT MaxEvents          \* bound: keys typed ahead of the event loop

ASSUME MaxEventsAssumption == MaxEvents \in Nat \ {0}

VARIABLES
    events,                 \* tview's event queue
    screen,                 \* "open", "closed" by Stop, "gone": nil was posted
    loop,                   \* the event loop: "init", "select", "exited"
    update,                 \* a redraw is queued for the loop
    redrawer,               \* the goroutine of App.Run
    refreshCh,              \* messages in a.refreshCh, of capacity 1
    done,                   \* a.done is closed
    run,                    \* App.Run: in tui.Run, in wg.Wait, returned
    panicked,               \* a.done was closed twice
    quits,                  \* history: quit keys typed, 2 for more
    stale                   \* history: the screen is older than the last refresh()

tviewVars == <<events, screen, loop, update>>
appVars == <<redrawer, refreshCh, done, run, panicked, quits, stale>>
vars == <<tviewVars, appVars>>

(* q, Q and Ctrl-C quit; `other` is any key whose handler ends in refresh().*)
Quit == {"q", "ctrlC"}

Keys == Quit \cup {"other"}

Init ==
    /\ events = <<>> /\ screen = "open" /\ loop = "init" /\ update = FALSE
    /\ redrawer = "select" /\ refreshCh = 0 /\ done = FALSE
    /\ run = "tui" /\ panicked = FALSE /\ quits = 0 /\ stale = FALSE

-----------------------------------------------------------------------------
(* tview (external).                                                        *)

LoopStarts ==
    /\ loop = "init"
    /\ loop' = "select"
    /\ UNCHANGED <<events, screen, update, appVars>>

(* No terminal: tui.Run returns an error at once.                           *)
LoopFails ==
    /\ loop = "init"
    /\ loop' = "exited"
    /\ UNCHANGED <<events, screen, update, appVars>>

KeyTyped(k) ==
    /\ screen = "open"
    /\ loop # "init"
    /\ Len(events) < MaxEvents
    /\ events' = Append(events, k)
    /\ quits' = IF k \in Quit /\ quits < 2 THEN quits + 1 ELSE quits
    /\ UNCHANGED <<screen, loop, update, redrawer, refreshCh, done, run, panicked,
                   stale>>

PollerEnds ==
    /\ screen = "closed"
    /\ screen' = "gone"
    /\ events' = Append(events, "nil")
    /\ UNCHANGED <<loop, update, appVars>>

(* The next event, whose handler h runs on the loop.                        *)
NextEvent(k) ==
    /\ loop = "select"
    /\ ~panicked
    /\ events # <<>>
    /\ Head(events) = k
    /\ events' = Tail(events)
    /\ UNCHANGED update

LoopEnds ==
    /\ NextEvent("nil")
    /\ loop' = "exited"
    /\ UNCHANGED <<screen, appVars>>

(* The loop executes a queued redraw and lets the one who queued it go on.  *)
Redraw ==
    /\ loop = "select"
    /\ ~panicked
    /\ update
    /\ update' = FALSE
    /\ redrawer' = "select"
    /\ stale' = FALSE
    /\ UNCHANGED <<events, screen, loop, refreshCh, done, run, panicked, quits>>

-----------------------------------------------------------------------------
(* The key handlers of SetInputCapture.                                     *)

(* close(a.done) and tui.Stop(): a second close panics, a second Stop finds *)
(* no screen.                                                               *)
QuitKey ==
    /\ \E k \in Quit : NextEvent(k)
    /\ IF done
       THEN panicked' = TRUE /\ UNCHANGED <<screen, done>>
       ELSE screen' = "closed" /\ done' = TRUE /\ UNCHANGED panicked
    /\ UNCHANGED <<loop, redrawer, refreshCh, run, quits, stale>>

(* refresh(): never blocks; a full channel already has a redraw to come.    *)
RefreshRequest ==
    /\ stale' = TRUE
    /\ refreshCh' = 1

(* Mutant: the handler asks for the redraw itself, and waits for the loop   *)
(* it runs on.                                                              *)
OtherKeyDraws ==
    /\ NextEvent("other")
    /\ stale' = TRUE
    /\ loop' = "blocked"
    /\ UNCHANGED <<screen, redrawer, refreshCh, done, run, panicked, quits>>

OtherKey ==
    /\ NextEvent("other")
    /\ RefreshRequest
    /\ UNCHANGED <<screen, loop, redrawer, done, run, panicked, quits>>

-----------------------------------------------------------------------------
(* The redrawer: select on done, the ticker and refreshCh.                  *)

RedrawerEnds ==
    /\ redrawer = "select"
    /\ done
    /\ redrawer' = "gone"
    /\ UNCHANGED <<tviewVars, refreshCh, done, run, panicked, quits, stale>>

(* Mutant: the redrawer does not wait for its update.                       *)
QueueAsync ==
    /\ redrawer = "select"
    /\ update' = TRUE
    /\ UNCHANGED <<events, screen, loop, redrawer, done, run, panicked, quits, stale>>

(* QueueUpdateDraw: the redrawer waits for the loop, whether there still is *)
(* one or not.                                                              *)
QueueUpdateDraw ==
    /\ redrawer = "select"
    /\ redrawer' = "queued"
    /\ update' = TRUE
    /\ UNCHANGED <<events, screen, loop, done, run, panicked, quits, stale>>

TickerFires == QueueUpdateDraw /\ UNCHANGED refreshCh

TakeRefresh ==
    /\ refreshCh = 1
    /\ QueueUpdateDraw
    /\ refreshCh' = 0

-----------------------------------------------------------------------------
(* App.Run after tui.Run.                                                   *)

(* Mutant: done is closed whether it is closed or not.                      *)
TuiReturnedCloses ==
    /\ run = "tui"
    /\ loop = "exited"
    /\ panicked' = done /\ done' = TRUE
    /\ run' = "wait"
    /\ UNCHANGED <<tviewVars, redrawer, refreshCh, quits, stale>>

TuiReturned ==
    /\ run = "tui"
    /\ loop = "exited"
    /\ done' = TRUE
    /\ run' = "wait"
    /\ UNCHANGED <<tviewVars, redrawer, refreshCh, panicked, quits, stale>>

(* wg.Wait, monitor.Stop, return: main cancels the engine after it.         *)
Returned ==
    /\ run = "wait"
    /\ redrawer = "gone"
    /\ run' = "returned"
    /\ UNCHANGED <<tviewVars, redrawer, refreshCh, done, panicked, quits, stale>>

-----------------------------------------------------------------------------

LoopStep == LoopStarts \/ LoopFails \/ LoopEnds \/ QuitKey \/ OtherKey

Next ==
    \/ \E k \in Keys : KeyTyped(k)
    \/ PollerEnds \/ LoopStep \/ Redraw
    \/ RedrawerEnds \/ TickerFires \/ TakeRefresh
    \/ TuiReturned \/ Returned

Safety == Init /\ [][Next]_vars

(* Every goroutine that can move does.  select chooses at random among the  *)
(* ready cases: no case is preferred for ever, but none is forced, and the  *)
(* ticker is not relied upon.                                               *)
Spec ==
    /\ Safety
    /\ WF_vars(PollerEnds) /\ WF_vars(LoopStep) /\ WF_vars(Redraw)
    /\ WF_vars(RedrawerEnds \/ TakeRefresh)
    /\ WF_vars(TuiReturned \/ Returned)

-----------------------------------------------------------------------------

(* Every variable has its type; a queued redraw has its redrawer waiting.   *)
TypeOK ==
    /\ events \in Seq(Keys \cup {"nil"}) /\ Len(events) <= MaxEvents + 1
    /\ screen \in {"open", "closed", "gone"}
    /\ loop \in {"init", "select", "exited"}
    /\ update \in BOOLEAN /\ done \in BOOLEAN /\ panicked \in BOOLEAN
    /\ quits \in 0..2 /\ stale \in BOOLEAN
    /\ redrawer \in {"select", "queued", "gone"}
    /\ update <=> redrawer = "queued"
    /\ refreshCh \in 0..1
    /\ run \in {"tui", "wait", "returned"}

(* What a key changed gets onto the screen, without the help of the ticker, *)
(* until the user quits: the one-place channel loses no request although    *)
(* the handler drops it when the place is taken, and the handler never      *)
(* blocks on the goroutine that waits for the loop it runs on               *)
(* (app.go:216-234, 247-252).                                               *)
RefreshShown == stale ~> ~stale \/ done

(* Three places close a.done.  The program panics at it only when two quit  *)
(* keys were typed before the first one closed the screen: never on one key *)
(* and the way out of App.Run (app.go:82-85, 194-198, 236-241).             *)
PanicNeedsTwoQuits == panicked => quits = 2

(* README.md:391, "q: quit the program": after the key App.Run returns.     *)
QuitEnds == done ~> run = "returned" \/ panicked

=============================================================================
