------------------------------ MODULE Coalescer ------------------------------
(***************************************************************************)
(* What poll.Scheduler promises the collectors, without goroutines or      *)
(* locks: the passes of one job never overlap, a pass runs only because    *)
(* somebody asked for one, a burst of requests is merged into at most two  *)
(* outstanding passes, and no request is lost: a pass begins after it.     *)
(***************************************************************************)
EXTENDS Naturals

CONSTANT Names              \* the job names: one per panel

VARIABLES
    owed,                   \* owed[n]: passes of n that must still begin
    busy                    \* busy[n]: a pass of n is executing

vars == <<owed, busy>>

Init ==
    /\ owed = [n \in Names |-> 0]
    /\ busy = [n \in Names |-> FALSE]

(* A request leaves at least one pass to begin, and merges into the ones    *)
(* already owed rather than let them grow.                                  *)
Request(n) ==
    /\ \E k \in {owed[n], owed[n] + 1} \cap 1..2 : owed' = [owed EXCEPT ![n] = k]
    /\ UNCHANGED busy

Begin(n) ==
    /\ owed[n] > 0
    /\ ~busy[n]
    /\ owed' = [owed EXCEPT ![n] = @ - 1]
    /\ busy' = [busy EXCEPT ![n] = TRUE]

Finish(n) ==
    /\ busy[n]
    /\ busy' = [busy EXCEPT ![n] = FALSE]
    /\ UNCHANGED owed

Next == \E n \in Names : Request(n) \/ Begin(n) \/ Finish(n)

Safety == Init /\ [][Next]_vars

Spec == Safety /\ \A n \in Names : WF_vars(Begin(n)) /\ WF_vars(Finish(n))

=============================================================================
