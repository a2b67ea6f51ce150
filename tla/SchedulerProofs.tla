--------------------------- MODULE SchedulerProofs ---------------------------
(***************************************************************************)
(* The scheduler's safety, for any set of names and any supply of          *)
(* goroutines: s.state and the goroutines agree (IInv), so the passes of   *)
(* one job never overlap, and every step of the scheduler is a step of the *)
(* coalescing job queue or leaves it alone.                                *)
(***************************************************************************)
EXTENDS Scheduler, TLAPS

(* A fresh scheduler has no record and no goroutine.                        *)
LEMMA InitIInv == Init => IInv
BY DEF Init, IInv, TypeOK, MarkHasRunner, RunningIffLooping, OneLoop, NoJob, Looping

(* A mark is set: nobody enters or leaves a loop.                           *)
LEMMA RunCoalescedIInv ==
  ASSUME IInv, NEW n \in Names, RunCoalesced(n) PROVE IInv'
<1>1. TypeOK'
  BY DEF IInv, TypeOK, RunCoalesced
<1>2. \A m \in Names : state'[m].running = state[m].running
  BY DEF IInv, TypeOK, RunCoalesced
<1>3. \A m \in Names, r \in Runners : Looping(r, m)' <=> Looping(r, m)
  BY DEF RunCoalesced, Looping
<1>4. RunningIffLooping'
  BY <1>2, <1>3 DEF IInv, MarkHasRunner, RunningIffLooping
<1>5. OneLoop'
  BY <1>3 DEF IInv, MarkHasRunner, OneLoop
<1> QED
  BY <1>1, <1>4, <1>5 DEF IInv, MarkHasRunner

(* A goroutine is spawned for a name that had none.                         *)
LEMMA RunSpawnIInv ==
  ASSUME IInv, NEW n \in Names, NEW r \in Runners, RunSpawn(n, r) PROVE IInv'
<1>1. TypeOK'
  BY DEF IInv, TypeOK, RunSpawn
<1>2. \A s \in Runners : ~Looping(s, n)
  BY DEF IInv, MarkHasRunner, RunningIffLooping, RunSpawn
<1>3. \A m \in Names, s \in Runners :
         Looping(s, m)' <=> IF s = r THEN m = n ELSE Looping(s, m)
  BY DEF IInv, TypeOK, RunSpawn, Looping
<1>4. ~Looping(r, n) /\ \A m \in Names : ~Looping(r, m)
  BY <1>2 DEF RunSpawn, Looping
<1>5. state'[n].running /\ \A m \in Names \ {n} : state'[m] = state[m]
  BY DEF IInv, TypeOK, RunSpawn
<1>6. RunningIffLooping'
  BY <1>3, <1>4, <1>5 DEF IInv, MarkHasRunner, RunningIffLooping
<1>7. OneLoop'
  BY <1>2, <1>3 DEF IInv, MarkHasRunner, OneLoop
<1> QED
  BY <1>1, <1>6, <1>7 DEF IInv, MarkHasRunner

(* Calling fn, returning from it and leaving change no record, and move no  *)
(* goroutine into or out of its loop.                                       *)
LEMMA PassIInv ==
  ASSUME IInv, NEW r \in Runners, BeginPass(r) \/ EndPass(r) \/ Done(r) PROVE IInv'
<1>1. TypeOK'
  BY DEF IInv, TypeOK, BeginPass, EndPass, Done
<1>2. \A m \in Names, s \in Runners : Looping(s, m)' <=> Looping(s, m)
  BY DEF IInv, TypeOK, BeginPass, EndPass, Done, Looping
<1>3. state' = state
  BY DEF BeginPass, EndPass, Done
<1> QED
  BY <1>1, <1>2, <1>3 DEF IInv, MarkHasRunner, RunningIffLooping, OneLoop

(* The re-check either keeps the record and the goroutine or drops both.    *)
LEMMA RecheckIInv ==
  ASSUME IInv, NEW r \in Runners, Recheck(r) PROVE IInv'
<1>2. Looping(r, job[r]) /\ job[r] \in Names
  BY DEF IInv, TypeOK, Recheck, Looping
<1>3. \A m \in Names \ {job[r]} : state'[m] = state[m]
  BY DEF IInv, TypeOK, Recheck
<1>4. CASE state[job[r]].pending
  <2>1. \A m \in Names, s \in Runners : Looping(s, m)' <=> Looping(s, m)
    BY <1>4 DEF IInv, TypeOK, Recheck, Looping
  <2>2. state'[job[r]].running = state[job[r]].running
    BY <1>2, <1>4 DEF IInv, TypeOK, Recheck
  <2>3. /\ state' = [state EXCEPT ![job[r]].pending = FALSE]
        /\ pc' = [pc EXCEPT ![r] = "ready"]
        /\ job' = job
    BY <1>4 DEF Recheck
  <2>4. TypeOK'
    BY <1>2, <2>3 DEF IInv, TypeOK
  <2> QED
    BY <1>3, <2>1, <2>2, <2>4 DEF IInv, MarkHasRunner, RunningIffLooping, OneLoop
<1>5. CASE ~state[job[r]].pending
  <2>1. \A m \in Names, s \in Runners : Looping(s, m)' <=> (s # r /\ Looping(s, m))
    BY <1>5 DEF IInv, TypeOK, Recheck, Looping
  <2>2. ~state'[job[r]].running
    BY <1>2, <1>5 DEF IInv, TypeOK, Recheck, NoJob
  <2>3. \A s \in Runners : Looping(s, job[r]) => s = r
    BY <1>2 DEF IInv, MarkHasRunner, OneLoop
  <2>4. \A m \in Names \ {job[r]} : ~Looping(r, m)
    BY DEF Looping
  <2>5. RunningIffLooping'
    BY <1>3, <2>1, <2>2, <2>3, <2>4 DEF IInv, MarkHasRunner, RunningIffLooping
  <2>6. OneLoop'
    BY <2>1 DEF IInv, MarkHasRunner, OneLoop
  <2>7. /\ state' = [state EXCEPT ![job[r]] = [running |-> FALSE, pending |-> FALSE]]
        /\ pc' = [pc EXCEPT ![r] = "exit"]
        /\ job' = job
    BY <1>5 DEF Recheck, NoJob
  <2>8. TypeOK'
    BY <1>2, <2>7 DEF IInv, TypeOK
  <2> QED
    BY <2>5, <2>6, <2>8 DEF IInv, MarkHasRunner
<1> QED
  BY <1>4, <1>5

(* No critical section and no call of fn breaks the agreement.              *)
LEMMA StepIInv == IInv /\ [Next]_vars => IInv'
<1>1. CASE UNCHANGED vars
  BY <1>1 DEF vars, IInv, TypeOK, MarkHasRunner, RunningIffLooping, OneLoop, Looping
<1>2. ASSUME IInv, Next PROVE IInv'
  BY <1>2, RunCoalescedIInv, RunSpawnIInv, PassIInv, RecheckIInv DEF Next, Run, RunnerStep
<1> QED
  BY <1>1, <1>2

(* s.state and the goroutines agree in every reachable state.               *)
THEOREM Agreement == Safety => []IInv
BY InitIInv, StepIInv, PTL DEF Safety

(* A pending mark never lacks the goroutine that will turn it into a pass:  *)
(* no request made through Run is forgotten.                                *)
THEOREM MarksHaveRunners == Safety => []MarkHasRunner
<1>1. IInv => MarkHasRunner
  BY DEF IInv
<1>2. QED
  BY <1>1, Agreement, PTL

(* No job has two passes at once, for any number of panels and goroutines   *)
(* (scheduler.go:28-33, 38-54).                                             *)
THEOREM PassesNeverOverlap == Safety => []NoOverlap
<1>1. IInv => NoOverlap
  BY DEF IInv, TypeOK, MarkHasRunner, OneLoop, NoOverlap, Looping
<1> QED
  BY <1>1, Agreement, PTL

-----------------------------------------------------------------------------

(* What a step changes that the abstract queue can see.                     *)
AbsSame(n) ==
    /\ Owed(n)' = Owed(n)
    /\ InPass(n)' = InPass(n)

(* A request that only sets the mark.                                       *)
LEMMA CoalescedIsRequest ==
  ASSUME IInv, NEW n \in Names, RunCoalesced(n) PROVE Abstract!Request(n)
<1>1. \A m \in Names : (Ready(m)' <=> Ready(m)) /\ (InPass(m)' = InPass(m))
  BY DEF RunCoalesced, Ready, InPass
<1>2. state'[n].pending /\ \A m \in Names \ {n} : state'[m] = state[m]
  BY DEF IInv, TypeOK, RunCoalesced
<1>3. \A m \in Names \ {n} : Owed(m)' = Owed(m)
  BY <1>1, <1>2 DEF Owed
<1>4. Owed(n)' = IF Ready(n) THEN 2 ELSE 1
  BY <1>1, <1>2 DEF Owed
<1>5. Owed(n)' \in {Owed(n), Owed(n) + 1}
  BY <1>4 DEF Owed
<1>6. Owed(n)' \in 1..2
  BY <1>4
<1> QED
  BY <1>1, <1>3, <1>5, <1>6 DEF Abstract!Request

(* A request that spawns the goroutine.                                     *)
LEMMA SpawnIsRequest ==
  ASSUME IInv, NEW n \in Names, NEW r \in Runners, RunSpawn(n, r)
  PROVE  Abstract!Request(n)
<1>1. \A s \in Runners : ~Looping(s, n)
  BY DEF IInv, MarkHasRunner, RunningIffLooping, RunSpawn
<1>2. pc'[r] = "ready" /\ job'[r] = n /\ pc[r] = "idle"
  BY DEF IInv, TypeOK, RunSpawn
<1>3. \A s \in Runners \ {r} : pc'[s] = pc[s] /\ job'[s] = job[s]
  BY DEF IInv, TypeOK, RunSpawn
<1>4. \A m \in Names : InPass(m)' = InPass(m)
  BY <1>2, <1>3 DEF InPass
<1>5. \A m \in Names \ {n} : Ready(m)' <=> Ready(m)
  BY <1>2, <1>3 DEF Ready
<1>6. Ready(n)' /\ ~Ready(n)
  BY <1>1, <1>2 DEF Ready, Looping
<1>7. ~state[n].pending /\ ~state'[n].pending
  BY DEF IInv, TypeOK, RunSpawn
<1>8. \A m \in Names \ {n} : state'[m] = state[m]
  BY DEF IInv, TypeOK, RunSpawn
<1>9. Owed(n) = 0 /\ Owed(n)' = 1
  BY <1>6, <1>7 DEF Owed
<1>10. \A m \in Names \ {n} : Owed(m)' = Owed(m)
  BY <1>5, <1>8 DEF Owed
<1>11. 1 \in {Owed(n), Owed(n) + 1} \cap 1..2
  BY <1>9
<1> QED
  BY <1>4, <1>9, <1>10, <1>11 DEF Abstract!Request

(* fn is called: one pass less is owed, and none was executing.             *)
LEMMA BeginIsBegin ==
  ASSUME IInv, NEW r \in Runners, BeginPass(r)
  PROVE  job[r] \in Names /\ Abstract!Begin(job[r])
<1>1. job[r] \in Names /\ pc[r] = "ready" /\ pc'[r] = "fn" /\ job' = job /\ state' = state
  BY DEF IInv, TypeOK, BeginPass
<1>2. \A s \in Runners \ {r} : pc'[s] = pc[s]
  BY DEF IInv, TypeOK, BeginPass
<1>3. \A s \in Runners : Looping(s, job[r]) => s = r
  BY <1>1 DEF IInv, MarkHasRunner, OneLoop, Looping
<1>4. Ready(job[r]) /\ ~Ready(job[r])' /\ InPass(job[r]) = FALSE /\ InPass(job[r])' = TRUE
  BY <1>1, <1>2, <1>3 DEF Ready, InPass, Looping
<1>5. \A m \in Names \ {job[r]} : (Ready(m)' <=> Ready(m)) /\ (InPass(m)' = InPass(m))
  BY <1>1, <1>2 DEF Ready, InPass
<1>6. Owed(job[r]) > 0 /\ Owed(job[r])' = Owed(job[r]) - 1
  BY <1>1, <1>4 DEF Owed
<1>7. \A m \in Names \ {job[r]} : Owed(m)' = Owed(m)
  BY <1>1, <1>5 DEF Owed
<1> QED
  BY <1>1, <1>4, <1>5, <1>6, <1>7 DEF Abstract!Begin

(* fn returns.                                                              *)
LEMMA EndIsFinish ==
  ASSUME IInv, NEW r \in Runners, EndPass(r)
  PROVE  job[r] \in Names /\ Abstract!Finish(job[r])
<1>1. job[r] \in Names /\ pc[r] = "fn" /\ pc'[r] = "check" /\ job' = job /\ state' = state
  BY DEF IInv, TypeOK, EndPass
<1>2. \A s \in Runners \ {r} : pc'[s] = pc[s]
  BY DEF IInv, TypeOK, EndPass
<1>3. \A s \in Runners : Looping(s, job[r]) => s = r
  BY <1>1 DEF IInv, MarkHasRunner, OneLoop, Looping
<1>4. InPass(job[r]) /\ InPass(job[r])' = FALSE
  BY <1>1, <1>2, <1>3 DEF InPass, Looping
<1>5. \A m \in Names \ {job[r]} : InPass(m)' = InPass(m)
  BY <1>1, <1>2 DEF InPass
<1>6. \A m \in Names : Owed(m)' = Owed(m)
  BY <1>1, <1>2 DEF Ready, Owed
<1> QED
  BY <1>1, <1>4, <1>5, <1>6 DEF Abstract!Finish

(* The re-check turns the mark into a pass about to begin, or finds none;   *)
(* either way nothing that is owed changes.                                 *)
LEMMA RecheckIsStutter ==
  ASSUME IInv, NEW r \in Runners, Recheck(r) PROVE \A n \in Names : AbsSame(n)
<1>1. job[r] \in Names /\ pc[r] = "check" /\ job' = job
  BY DEF IInv, TypeOK, Recheck
<1>2. \A s \in Runners \ {r} : pc'[s] = pc[s]
  BY DEF IInv, TypeOK, Recheck
<1>3. \A s \in Runners : Looping(s, job[r]) => s = r
  BY <1>1 DEF IInv, MarkHasRunner, OneLoop, Looping
<1>4. ~Ready(job[r]) /\ pc'[r] \in {"ready", "exit"}
  BY <1>1, <1>3 DEF IInv, TypeOK, Ready, Looping, Recheck
<1>5. \A m \in Names : InPass(m)' = InPass(m)
  BY <1>1, <1>2, <1>4 DEF InPass
<1>6. \A m \in Names \ {job[r]} : (Ready(m)' <=> Ready(m)) /\ state'[m] = state[m]
  BY <1>1, <1>2 DEF IInv, TypeOK, Recheck, Ready
<1>7. CASE state[job[r]].pending
  <2>1. pc'[r] = "ready" /\ ~state'[job[r]].pending
    BY <1>1, <1>7 DEF IInv, TypeOK, Recheck
  <2>2. Ready(job[r])'
    BY <1>1, <2>1 DEF Ready
  <2> QED
    BY <1>1, <1>4, <1>5, <1>6, <1>7, <2>1, <2>2 DEF AbsSame, Owed
<1>8. CASE ~state[job[r]].pending
  <2>1. pc'[r] = "exit" /\ ~state'[job[r]].pending
    BY <1>1, <1>8 DEF IInv, TypeOK, Recheck, NoJob
  <2>2. ~Ready(job[r])'
    BY <1>1, <1>2, <1>4, <2>1 DEF Ready
  <2> QED
    BY <1>1, <1>4, <1>5, <1>6, <1>8, <2>1, <2>2 DEF AbsSame, Owed
<1> QED
  BY <1>7, <1>8

(* A goroutine that is gone owed nothing.                                   *)
LEMMA DoneIsStutter ==
  ASSUME IInv, NEW r \in Runners, Done(r) PROVE \A n \in Names : AbsSame(n)
<1>1. pc[r] = "exit" /\ pc'[r] = "idle" /\ job' = job /\ state' = state
  BY DEF IInv, TypeOK, Done
<1>2. \A s \in Runners \ {r} : pc'[s] = pc[s]
  BY DEF IInv, TypeOK, Done
<1>3. \A m \in Names : (Ready(m)' <=> Ready(m)) /\ (InPass(m)' = InPass(m))
  BY <1>1, <1>2 DEF Ready, InPass
<1> QED
  BY <1>1, <1>3 DEF AbsSame, Owed

(* The scheduler's safety implies the coalescing queue's: passes do not     *)
(* overlap, each one was asked for, at most two are outstanding, and every  *)
(* request leaves one to begin after it (scheduler.go:25-58).               *)
THEOREM Refinement == Safety => Abstract!Safety
<1>1. Init => Abstract!Init
  BY DEF Init, NoJob, Abstract!Init, Owed, Ready, InPass
<1>2. (\A n \in Names : AbsSame(n)) => UNCHANGED Abstract!vars
  BY DEF AbsSame, Abstract!vars
<1>3. UNCHANGED vars => \A n \in Names : AbsSame(n)
  BY DEF vars, AbsSame, Owed, Ready, InPass
<1>4. ASSUME IInv, Next PROVE Abstract!Next \/ \A n \in Names : AbsSame(n)
  BY <1>4, CoalescedIsRequest, SpawnIsRequest, BeginIsBegin, EndIsFinish,
     RecheckIsStutter, DoneIsStutter DEF Next, Run, RunnerStep, Abstract!Next
<1>5. IInv /\ [Next]_vars => [Abstract!Next]_(Abstract!vars)
  BY <1>2, <1>3, <1>4
<1> QED
  BY <1>1, <1>5, Agreement, PTL DEF Safety, Abstract!Safety

=============================================================================
