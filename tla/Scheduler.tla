------------------------------ MODULE Scheduler ------------------------------
(***************************************************************************)
(* poll.Scheduler (internal/poll/scheduler.go): a keyed job runner.  Run   *)
(* starts a goroutine for a name that has none and otherwise leaves a      *)
(* pending mark, which the goroutine turns into one more pass.             *)
(*                                                                         *)
(* Each action is one critical section of s.mu, or one call of fn outside  *)
(* of it.  A goroutine is a member of Runners: idle when it does not       *)
(* exist, and between `ready` (about to call fn) and `exit` (out of the    *)
(* loop, its deferred wg.Done still to come) it is counted by s.wg.        *)
(***************************************************************************)
EXTENDS Naturals

CONSTANTS
    Names,                  \* job names (the panels)
    Runners                 \* goroutine identities Run can take a free one of

ASSUME RunnersAssumption == Runners # {}

VARIABLES
    state,                  \* s.state; an absent key reads as the zero jobState
    pc,                     \* where each runner goroutine is
    job                     \* the name each runner goroutine works for

vars == <<state, pc, job>>

NoJob == [running |-> FALSE, pending |-> FALSE]

Init ==
    /\ state = [n \in Names |-> NoJob]
    /\ pc = [r \in Runners |-> "idle"]
    /\ job \in [Runners -> Names]

(* The goroutines s.wg counts: Add(1) in Run, Done when they return.        *)
Counted == {r \in Runners : pc[r] # "idle"}

(* A goroutine of n that is still in the for loop of Run.                   *)
Looping(r, n) == pc[r] \in {"ready", "fn", "check"} /\ job[r] = n

-----------------------------------------------------------------------------

(* Run of a name whose goroutine is in its loop: only the mark is set, and  *)
(* the fn of this call is dropped in favour of the running one.             *)
RunCoalesced(n) ==
    /\ state[n].running
    /\ state' = [state EXCEPT ![n].pending = TRUE]
    /\ UNCHANGED <<pc, job>>

(* Mutant: the running test is gone, every call spawns.                     *)
SpawnUnguarded(n, r) ==
    /\ pc[r] = "idle"
    /\ state' = [state EXCEPT ![n] = [running |-> TRUE, pending |-> FALSE]]
    /\ pc' = [pc EXCEPT ![r] = "ready"]
    /\ job' = [job EXCEPT ![r] = n]

(* Run of a name without a goroutine: r is spawned.                         *)
RunSpawn(n, r) ==
    /\ ~state[n].running
    /\ pc[r] = "idle"
    /\ state' = [state EXCEPT ![n] = [running |-> TRUE, pending |-> FALSE]]
    /\ pc' = [pc EXCEPT ![r] = "ready"]
    /\ job' = [job EXCEPT ![r] = n]

Run(n) == RunCoalesced(n) \/ \E r \in Runners : RunSpawn(n, r)

(* The runner calls fn(ctx) ...                                             *)
BeginPass(r) ==
    /\ pc[r] = "ready"
    /\ pc' = [pc EXCEPT ![r] = "fn"]
    /\ UNCHANGED <<state, job>>

(* ... which returns, without the lock.                                     *)
EndPass(r) ==
    /\ pc[r] = "fn"
    /\ pc' = [pc EXCEPT ![r] = "check"]
    /\ UNCHANGED <<state, job>>

(* Mutants: the mark is not looked at, and the goroutine leaves ...          *)
RecheckBlind(r) ==
    /\ pc[r] = "check"
    /\ state' = [state EXCEPT ![job[r]] = NoJob]
    /\ pc' = [pc EXCEPT ![r] = "exit"]
    /\ UNCHANGED job

(* ... or it clears its running field instead of deleting the key ...       *)
RecheckKeepsMark(r) ==
    /\ pc[r] = "check"
    /\ state' = [state EXCEPT ![job[r]].running = FALSE]
    /\ pc' = [pc EXCEPT ![r] = "exit"]
    /\ UNCHANGED job

(* ... or the key is deleted also when the loop continues.                  *)
RecheckDeletes(r) ==
    /\ pc[r] = "check"
    /\ state' = [state EXCEPT ![job[r]] = NoJob]
    /\ pc' = [pc EXCEPT ![r] = IF state[job[r]].pending THEN "ready" ELSE "exit"]
    /\ UNCHANGED job

(* Under the lock again: a pending mark is consumed and the loop continues, *)
(* otherwise the key is deleted and the goroutine leaves.                   *)
Recheck(r) ==
    /\ pc[r] = "check"
    /\ \/ /\ state[job[r]].pending
          /\ state' = [state EXCEPT ![job[r]].pending = FALSE]
          /\ pc' = [pc EXCEPT ![r] = "ready"]
       \/ /\ ~state[job[r]].pending
          /\ state' = [state EXCEPT ![job[r]] = NoJob]
          /\ pc' = [pc EXCEPT ![r] = "exit"]
    /\ UNCHANGED job

(* The deferred s.wg.Done().                                                *)
Done(r) ==
    /\ pc[r] = "exit"
    /\ pc' = [pc EXCEPT ![r] = "idle"]
    /\ UNCHANGED <<state, job>>

RunnerStep(r) == BeginPass(r) \/ EndPass(r) \/ Recheck(r) \/ Done(r)

Next == (\E n \in Names : Run(n)) \/ (\E r \in Runners : RunnerStep(r))

(* A goroutine that can move does so: the Go scheduler is fair, s.mu is     *)
(* never held across a call of fn, and fn returns because every request a   *)
(* collector makes has a timeout.                                           *)
Fairness == \A r \in Runners : WF_vars(RunnerStep(r))

Safety == Init /\ [][Next]_vars

Spec == Safety /\ Fairness

-----------------------------------------------------------------------------

(* Every variable has its type, and s.state never holds a pending mark      *)
(* without the running one.                                                 *)
TypeOK ==
    /\ state \in [Names -> [running : BOOLEAN, pending : BOOLEAN]]
    /\ \A n \in Names : state[n].pending => state[n].running
    /\ pc \in [Runners -> {"idle", "ready", "fn", "check", "exit"}]
    /\ job \in [Runners -> Names]

(* Two passes of one job never overlap: the collectors fold their replies   *)
(* into per-node baselines in the order they fetched them only because of   *)
(* this (scheduler.go:28-33, 38-54).                                        *)
NoOverlap ==
    \A r1, r2 \in Runners :
        pc[r1] = "fn" /\ pc[r2] = "fn" /\ job[r1] = job[r2] => r1 = r2

(* s.state says running exactly while a goroutine of the name is in its     *)
(* loop, and that goroutine is the only one: a mark set by Run has somebody *)
(* who will see it, whatever the order of Run, the re-check and the exit    *)
(* (scheduler.go:28-33, 43-53).                                             *)
RunningIffLooping ==
    \A n \in Names : state[n].running <=> \E r \in Runners : Looping(r, n)

OneLoop ==
    \A n \in Names : \A r1, r2 \in Runners :
        Looping(r1, n) /\ Looping(r2, n) => r1 = r2

MarkHasRunner == RunningIffLooping /\ OneLoop

IInv == TypeOK /\ MarkHasRunner

(* The scheduler implements the coalescing job queue: the marks and the     *)
(* goroutines about to call fn are the passes owed.                         *)
Ready(n) == \E r \in Runners : pc[r] = "ready" /\ job[r] = n

InPass(n) == \E r \in Runners : pc[r] = "fn" /\ job[r] = n

Owed(n) == (IF Ready(n) THEN 1 ELSE 0) + (IF state[n].pending THEN 1 ELSE 0)

Abstract == INSTANCE Coalescer WITH
    owed <- [n \in Names |-> Owed(n)],
    busy <- [n \in Names |-> InPass(n)]

(* Every burst of Run calls is answered by a pass that begins after it, no  *)
(* pass overlaps another of its name, and at most two are outstanding       *)
(* (scheduler.go:25-58; scheduler_test.go:24-26).                           *)
ImplementsCoalescer == Abstract!Spec

=============================================================================
