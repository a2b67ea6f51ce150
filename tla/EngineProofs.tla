---------------------------- MODULE EngineProofs ----------------------------
(***************************************************************************)
(* The engine's safety, for any panels, nodes and number of goroutines and *)
(* membership changes: it drives the scheduler by its own operations only, *)
(* so that the scheduler's theorems hold in it; the shutdown waits for     *)
(* everybody; a panel error is the newest outcome; and once the panels     *)
(* have settled on the cluster's nodes they stay so until it changes.      *)
(***************************************************************************)
EXTENDS Engine, TLAPS

SP == INSTANCE SchedulerProofs WITH Names <- Panels

(* A step of the engine is one of the scheduler, or leaves it alone.        *)
LEMMA SchedulerStep == ASSUME [Next]_vars PROVE Sched!Next \/ UNCHANGED schedVars
<1>1. ASSUME NEW p \in Panels, SpawnTicker(p) \/ Tick(p) \/ TickerExit(p)
      PROVE  Sched!Next \/ UNCHANGED schedVars
  BY <1>1 DEF SpawnTicker, Tick, TickerExit, Sched!Next
<1>2. ASSUME NEW r \in Runners, RunnerStep(r) PROVE Sched!Next \/ UNCHANGED schedVars
  <2>1. CASE BeginPass(r) \/ EndPass(r) \/ Reschedule(r)
    BY <2>1 DEF BeginPass, EndPass, Reschedule, Sched!Next, Sched!RunnerStep
  <2>2. ASSUME NEW n \in NodeIds, FetchOK(r, n) \/ FetchErr(r, n) \/ Throttle(r, n)
        PROVE  UNCHANGED schedVars
    BY <2>2 DEF FetchOK, FetchErr, Answer, Throttle
  <2>3. CASE ClearError(r) \/ SaveSnapshot(r) \/ RecordError(r)
    BY <2>3 DEF ClearError, SaveSnapshot, RecordError
  <2> QED
    BY <1>2, <2>1, <2>2, <2>3 DEF RunnerStep
<1>3. CASE Refresh \/ SetTarget
  BY <1>3 DEF Refresh, RefreshFails, RefreshDiscover, RefreshPrune, RefreshPublish,
     RefreshExit, SetTarget, SetTargetDiscover, SetTargetPrune, SetTargetPublish
<1>4. CASE Boot \/ BootFails \/ Quit \/ Wait \/ Close \/ Terminated \/ UNCHANGED vars
  BY <1>4 DEF Boot, BootFails, Quit, Wait, Close, MainMoves, Terminated, vars
<1>5. ASSUME NEW n \in NodeIds, NEW s \in Status, Change(n, s)
      PROVE  UNCHANGED schedVars
  BY <1>5 DEF Change
<1> QED
  BY <1>1, <1>2, <1>3, <1>4, <1>5 DEF Next

(* The engine implements the scheduler's specification: nothing it does to  *)
(* s.state or to the goroutines is not an operation of the scheduler, so    *)
(* passes of a panel do not overlap (engine.go:156-172).                    *)
THEOREM EngineDrivesScheduler == Safety => Sched!Safety
<1>1. Init => Sched!Init
  BY DEF Init
<1>2. [Next]_vars => [Sched!Next]_(Sched!vars)
  BY SchedulerStep DEF schedVars, Sched!vars
<1> QED
  BY <1>1, <1>2, PTL DEF Safety, Sched!Safety

(* So the scheduler's invariant holds in the engine.                        *)
LEMMA SchedulerInit == Init => SP!IInv
<1>1. Init => SP!Init
  BY DEF Init, Sched!Init, Sched!NoJob, SP!Init, SP!NoJob
<1> QED
  BY <1>1, EngineAssumption, SP!InitIInv DEF SP!RunnersAssumption

LEMMA SchedulerInvariant == ASSUME SP!IInv, [Next]_vars PROVE SP!IInv'
<1>1. [SP!Next]_(SP!vars)
  <2>1. CASE Sched!Next
    BY <2>1 DEF Sched!Next, Sched!Run, Sched!RunCoalesced, Sched!RunSpawn,
       Sched!RunnerStep,
       Sched!BeginPass, Sched!EndPass, Sched!Recheck, Sched!Done, Sched!NoJob,
       SP!Next, SP!Run, SP!RunCoalesced, SP!RunSpawn, SP!RunnerStep,
       SP!BeginPass, SP!EndPass, SP!Recheck, SP!Done, SP!NoJob
  <2>2. CASE UNCHANGED schedVars
    BY <2>2 DEF schedVars, SP!vars
  <2> QED
    BY <2>1, <2>2, SchedulerStep
<1> QED
  BY <1>1, EngineAssumption, SP!StepIInv DEF SP!RunnersAssumption

-----------------------------------------------------------------------------
(* What the scheduler's steps do to the goroutines.                         *)

Agrees == Sched!TypeOK /\ Sched!NoOverlap

LEMMA SchedulerAgrees == SP!IInv => Agrees
BY DEF SP!IInv, SP!TypeOK, SP!MarkHasRunner, SP!OneLoop, SP!Looping,
   Agrees, Sched!TypeOK, Sched!NoOverlap

(* Run starts goroutines that did not exist and touches no other.           *)
LEMMA RunFacts ==
  ASSUME Agrees, NEW p \in Panels, Sched!Run(p)
  PROVE  \A r \in Runners : \/ pc'[r] = pc[r] /\ job'[r] = job[r]
                            \/ pc[r] = "idle" /\ pc'[r] = "ready"
BY DEF Agrees, Sched!TypeOK, Sched!Run, Sched!RunCoalesced, Sched!RunSpawn

(* The steps of a goroutine are its own.                                    *)
LEMMA OwnStep ==
  ASSUME Agrees, NEW r \in Runners, BeginPass(r) \/ EndPass(r) \/ Reschedule(r)
  PROVE  /\ job' = job /\ pc[r] # "idle"
         /\ \A s \in Runners \ {r} : pc'[s] = pc[s]
         /\ BeginPass(r) <=> pc'[r] = "fn"
         /\ pc[r] = "fn" => EndPass(r)
BY DEF Agrees, Sched!TypeOK, BeginPass, EndPass, Reschedule, Sched!BeginPass,
   Sched!EndPass, Sched!Recheck, Sched!Done

-----------------------------------------------------------------------------
(* The shutdown.  Behind the wait for the tickers nobody can call Run;      *)
(* behind the wait for the passes no goroutine is left.                     *)

ShutdownInv ==
    /\ main \in {"waitPasses", "close", "closed"} => EngineGone
    /\ main \in {"close", "closed"} => Passes = {}
    /\ ui = "idle" \/ main = "ui"
    /\ ticker \in [Panels -> {"none", "select", "gone"}]

(* The goroutines the scheduler counts grow only by Run.                    *)
LEMMA PassesShrink ==
  ASSUME Agrees, [Next]_vars, \A p \in Panels : ~SpawnTicker(p) /\ ~Tick(p)
  PROVE  Passes' \subseteq Passes
<1> USE DEF Passes, Sched!Counted
<1>1. ASSUME NEW r \in Runners, RunnerStep(r) PROVE Passes' \subseteq Passes
  <2>1. CASE BeginPass(r) \/ EndPass(r) \/ Reschedule(r)
    BY <2>1, OwnStep
  <2>2. ASSUME NEW n \in NodeIds, FetchOK(r, n) \/ FetchErr(r, n) \/ Throttle(r, n)
        PROVE  UNCHANGED schedVars
    BY <2>2 DEF FetchOK, FetchErr, Answer, Throttle
  <2>3. CASE ClearError(r) \/ SaveSnapshot(r) \/ RecordError(r)
    BY <2>3 DEF ClearError, SaveSnapshot, RecordError, schedVars
  <2> QED
    BY <1>1, <2>1, <2>2, <2>3 DEF RunnerStep, schedVars
<1>2. CASE UNCHANGED schedVars
  BY <1>2 DEF schedVars
<1>3. ASSUME NEW p \in Panels, TickerExit(p) PROVE UNCHANGED schedVars
  BY <1>3 DEF TickerExit
<1>4. CASE Refresh \/ SetTarget
  BY <1>2, <1>4 DEF Refresh, RefreshFails, RefreshDiscover, RefreshPrune,
     RefreshPublish,
     RefreshExit, SetTarget, SetTargetDiscover, SetTargetPrune, SetTargetPublish
<1>5. CASE Boot \/ BootFails \/ Quit \/ Wait \/ Close \/ Terminated \/ UNCHANGED vars
  BY <1>2, <1>5 DEF Boot, BootFails, Quit, Wait, Close, MainMoves, Terminated, vars
<1>6. ASSUME NEW n \in NodeIds, NEW s \in Status, Change(n, s)
      PROVE  UNCHANGED schedVars
  BY <1>6 DEF Change
<1> QED
  BY <1>1, <1>2, <1>3, <1>4, <1>5, <1>6 DEF Next

LEMMA NoRunBehindTickers ==
  ASSUME ShutdownInv, main \in {"waitPasses", "close", "closed"}, NEW p \in Panels
  PROVE  ~SpawnTicker(p) /\ ~Tick(p)
BY DEF ShutdownInv, EngineGone, SpawnTicker, Tick

LEMMA ShutdownStep == ASSUME Agrees, ShutdownInv, [Next]_vars PROVE ShutdownInv'
<1> USE DEF actorVars, refreshVars, uiVars, mainVars
<1>1. main \in {"close", "closed"} /\ main' = main => Passes' = {}
  BY PassesShrink, NoRunBehindTickers DEF ShutdownInv
<1>2. CASE UNCHANGED <<ticker, main, ui, refresher>>
  BY <1>1, <1>2 DEF ShutdownInv, EngineGone
<1>3. ASSUME NEW p \in Panels, SpawnTicker(p) PROVE ShutdownInv'
  BY <1>3 DEF SpawnTicker, ShutdownInv
<1>4. ASSUME NEW p \in Panels, TickerExit(p) PROVE ShutdownInv'
  BY <1>1, <1>4 DEF TickerExit, ShutdownInv, EngineGone
<1>5. ASSUME NEW p \in Panels, Tick(p) PROVE UNCHANGED <<ticker, main, ui, refresher>>
  BY <1>5 DEF Tick
<1>6. ASSUME NEW r \in Runners, RunnerStep(r)
      PROVE  UNCHANGED <<ticker, main, ui, refresher>>
  BY <1>6 DEF RunnerStep, BeginPass, FetchOK, FetchErr, Answer, Throttle, ClearError,
     SaveSnapshot, RecordError, EndPass, Reschedule
<1>7. CASE Refresh
  <2>1. UNCHANGED <<ticker, main, ui>> /\ (refresher = "gone" => refresher' = "gone")
    BY <1>7 DEF Refresh, RefreshFails, RefreshDiscover, RefreshPrune,
       RefreshPublish, RefreshExit
  <2> QED
    BY <1>1, <2>1 DEF ShutdownInv, EngineGone
<1>8. CASE SetTarget
  <2>1. UNCHANGED <<ticker, main, refresher>> /\ (ui' = "idle" \/ main = "ui")
    BY <1>8 DEF SetTarget, SetTargetDiscover, SetTargetPrune, SetTargetPublish,
       ShutdownInv
  <2> QED
    BY <1>1, <2>1 DEF ShutdownInv, EngineGone
<1>9. CASE Boot \/ BootFails \/ Quit
  BY <1>9 DEF Boot, BootFails, Quit, ShutdownInv
<1>10. CASE Wait
  <2>1. CASE EngineGone /\ MainMoves("waitTickers", "waitPasses")
    BY <2>1 DEF MainMoves, ShutdownInv, EngineGone
  <2>2. CASE Passes = {} /\ MainMoves("waitPasses", "close")
    <3>1. Passes' = {}
      BY <2>2 DEF MainMoves, Passes, Sched!Counted, schedVars
    <3> QED
      BY <2>2, <3>1 DEF MainMoves, ShutdownInv, EngineGone
  <2> QED
    BY <1>10, <2>1, <2>2 DEF Wait
<1>11. CASE Close
  <2>1. Passes' = Passes
    BY <1>11 DEF Close, MainMoves, Passes, Sched!Counted, schedVars
  <2> QED
    BY <1>11, <2>1 DEF Close, MainMoves, ShutdownInv, EngineGone
<1>12. ASSUME NEW n \in NodeIds, NEW s \in Status, Change(n, s)
       PROVE  UNCHANGED <<ticker, main, ui, refresher>>
  BY <1>12 DEF Change
<1>13. CASE Terminated \/ UNCHANGED vars
  BY <1>2, <1>13 DEF Terminated, vars
<1> QED
  BY <1>2, <1>3, <1>4, <1>5, <1>6, <1>7, <1>8, <1>9, <1>10, <1>11, <1>12,
     <1>13 DEF Next

LEMMA ShutdownInit == Init => ShutdownInv
BY DEF Init, ShutdownInv

(* main closes the source when nobody can be using it any more              *)
(* (main.go:48-52, engine.go:107-113, 160-163).                             *)
THEOREM ClosesLast == Safety => []NoUseAfterClose
<1>1. Init => SP!IInv /\ ShutdownInv
  BY SchedulerInit, ShutdownInit
<1>2. SP!IInv /\ ShutdownInv /\ [Next]_vars => (SP!IInv /\ ShutdownInv)'
  BY SchedulerInvariant, ShutdownStep, SchedulerAgrees
<1>3. ShutdownInv => NoUseAfterClose
  BY DEF ShutdownInv, NoUseAfterClose
<1> QED
  BY <1>1, <1>2, <1>3, PTL DEF Safety

(* The scheduler's WaitGroup is not incremented while main waits for it     *)
(* (scheduler.go:34-36, 68-70; engine.go:107-113).                          *)
THEOREM NobodySpawnsBehindWait == Safety => NoSpawnWhileWaiting
<1>1. Init => SP!IInv /\ ShutdownInv
  BY SchedulerInit, ShutdownInit
<1>2. SP!IInv /\ ShutdownInv /\ [Next]_vars => (SP!IInv /\ ShutdownInv)'
  BY SchedulerInvariant, ShutdownStep, SchedulerAgrees
<1>3. SP!IInv /\ ShutdownInv /\ [Next]_vars =>
        [(main \in {"waitPasses", "close", "closed"}) => Passes' \subseteq Passes]_vars
  BY PassesShrink, NoRunBehindTickers, SchedulerAgrees
<1> QED
  BY <1>1, <1>2, <1>3, PTL DEF Safety, NoSpawnWhileWaiting

-----------------------------------------------------------------------------
(* The panel errors.  A failure on its way into e.errors is the newest      *)
(* outcome of its node: no other pass of the panel can fetch meanwhile.     *)

PassType ==
    /\ pass \in [Runners -> [todo : SUBSET NodeIds, at : SUBSET NodeIds,
                             step : {"loop", "clear", "save", "fail"}]]
    /\ \A r \in Runners :
        /\ pass[r].step = "loop" <=> pass[r].at = {}
        /\ pc[r] # "fn" => pass[r] = Idle

ErrorType == errors \in [Panels -> SUBSET NodeIds]

LastType == last \in [Panels -> [NodeIds -> {"none", "ok", "err"}]]

FailureIsNewest ==
    \A r \in Runners : InPass(r, "fail") => \A n \in At(r) : last[job[r]][n] = "err"

NewsInv == PassType /\ ErrorType /\ LastType /\ FailureIsNewest /\ ErrorsAreNews

LEMMA NewsInit == Init => NewsInv
<1> SUFFICES ASSUME Init PROVE NewsInv
  OBVIOUS
<1> USE DEF Init
<1>1. PassType
  BY DEF PassType, Idle
<1>2. ErrorType /\ LastType
  BY DEF ErrorType, LastType
<1>3. FailureIsNewest
  BY DEF FailureIsNewest, InPass, Idle
<1>4. ErrorsAreNews
  BY DEF ErrorsAreNews
<1> QED
  BY <1>1, <1>2, <1>3, <1>4 DEF NewsInv

(* Dropping errors, and nothing else that matters here.                     *)
LEMMA QuietStep ==
  ASSUME NewsInv, UNCHANGED <<pc, job, pass, last>>, ErrorType',
         \A p \in Panels : errors'[p] \subseteq errors[p]
  PROVE  NewsInv'
<1>1. PassType' /\ LastType' /\ FailureIsNewest'
  BY DEF NewsInv, PassType, LastType, FailureIsNewest, InPass, At
<1>2. ErrorsAreNews'
  BY DEF NewsInv, ErrorsAreNews, InPass, At
<1> QED
  BY <1>1, <1>2 DEF NewsInv

(* A call of Run.                                                           *)
LEMMA RunStep ==
  ASSUME Agrees, NewsInv, UNCHANGED <<errors, pass, last>>, NEW p \in Panels, Sched!Run(p)
  PROVE  NewsInv'
<1>1. \A r \in Runners : \/ pc'[r] = pc[r] /\ job'[r] = job[r]
                         \/ pc[r] = "idle" /\ pc'[r] = "ready"
  BY RunFacts
<1>2. PassType'
  BY <1>1 DEF NewsInv, PassType
<1>3. FailureIsNewest'
  BY <1>1 DEF NewsInv, FailureIsNewest, InPass, At
<1>4. ErrorsAreNews'
  <2> SUFFICES ASSUME NEW q \in Panels, NEW n \in errors[q], last[q][n] # "err"
               PROVE  \E r \in Runners :
                        job'[r] = q /\ At(r)' = {n} /\ InPass(r, "clear")'
    BY DEF ErrorsAreNews
  <2>1. PICK r \in Runners : job[r] = q /\ At(r) = {n} /\ InPass(r, "clear")
    BY DEF NewsInv, ErrorsAreNews
  <2>2. pc'[r] = pc[r] /\ job'[r] = job[r]
    BY <1>1, <2>1 DEF InPass
  <2> QED
    BY <2>1, <2>2 DEF InPass, At
<1> QED
  BY <1>2, <1>3, <1>4 DEF NewsInv, ErrorType, LastType

(* A goroutine begins, ends or reschedules a pass.                          *)
LEMMA PassStep ==
  ASSUME Agrees, NewsInv, NEW r \in Runners, BeginPass(r) \/ EndPass(r) \/ Reschedule(r)
  PROVE  NewsInv'
<1>1. UNCHANGED <<errors, last>>
  BY DEF BeginPass, EndPass, Reschedule, viewVars, passVars
<1>2. /\ job' = job
      /\ \A s \in Runners \ {r} : pc'[s] = pc[s]
      /\ BeginPass(r) <=> pc'[r] = "fn"
      /\ pc[r] = "fn" => EndPass(r)
  BY OwnStep
<1>3. pass[r] = Idle
  <2>1. CASE pc[r] # "fn"
    BY <2>1 DEF NewsInv, PassType
  <2>2. CASE EndPass(r)
    BY <2>2 DEF NewsInv, PassType, EndPass, InPass, Idle
  <2> QED
    BY <1>2, <2>1, <2>2
<1>4. \/ BeginPass(r) /\ pass' = [pass EXCEPT ![r].todo = Online(nodes)]
      \/ pc'[r] # "fn" /\ pass' = pass
  BY <1>2 DEF BeginPass, EndPass, Reschedule, passVars
<1>5. /\ \A s \in Runners : s # r => pass'[s] = pass[s]
      /\ pass'[r].step = "loop" /\ pass'[r].at = {}
      /\ pc'[r] # "fn" => pass'[r] = Idle
      /\ pass' \in [Runners -> [todo : SUBSET NodeIds, at : SUBSET NodeIds,
                                step : {"loop", "clear", "save", "fail"}]]
  <2>1. CASE BeginPass(r) /\ pass' = [pass EXCEPT ![r].todo = Online(nodes)]
    <3>1. Online(nodes) \subseteq NodeIds
      BY DEF Online
    <3> QED
      BY <1>2, <1>3, <2>1, <3>1 DEF NewsInv, PassType, Idle
  <2>2. CASE pc'[r] # "fn" /\ pass' = pass
    BY <1>3, <2>2 DEF NewsInv, PassType, Idle
  <2> QED
    BY <1>4, <2>1, <2>2
<1>6. PassType'
  BY <1>2, <1>5 DEF NewsInv, PassType, Idle
<1>7. FailureIsNewest'
  BY <1>1, <1>2, <1>5 DEF NewsInv, FailureIsNewest, InPass, At
<1>8. ErrorsAreNews'
  <2> SUFFICES ASSUME NEW q \in Panels, NEW n \in errors[q], last[q][n] # "err"
               PROVE  \E s \in Runners :
                        job'[s] = q /\ At(s)' = {n} /\ InPass(s, "clear")'
    BY <1>1 DEF ErrorsAreNews
  <2>1. PICK s \in Runners : job[s] = q /\ At(s) = {n} /\ InPass(s, "clear")
    BY DEF NewsInv, ErrorsAreNews
  <2>2. s # r
    BY <1>3, <2>1 DEF InPass, Idle
  <2> QED
    BY <1>2, <1>5, <2>1, <2>2 DEF InPass, At
<1> QED
  BY <1>1, <1>6, <1>7, <1>8 DEF NewsInv, ErrorType, LastType

(* A redis server has answered the fetch of node n.                         *)
LEMMA AnswerStep ==
  ASSUME Agrees, NewsInv, NEW r \in Runners, NEW n \in NodeIds,
         FetchOK(r, n) \/ FetchErr(r, n)
  PROVE  NewsInv'
<1> DEFINE p == job[r]
           ok == FetchOK(r, n)
<1>1. UNCHANGED <<pc, job, errors>> /\ InPass(r, "loop")
  BY DEF FetchOK, FetchErr, Answer, schedVars, viewVars
<1>2. p \in Panels /\ \A s \in Runners : InPass(s, "fail") /\ job[s] = p => s = r
  BY <1>1 DEF Agrees, Sched!TypeOK, Sched!NoOverlap, InPass
<1>3. PICK step \in {"clear", "fail"}, result \in {"ok", "err"} :
        /\ pass' = [pass EXCEPT ![r] = [todo |-> @.todo \ {n}, at |-> {n}, step |-> step]]
        /\ last' = [last EXCEPT ![p][n] = result]
        /\ (step = "clear" /\ result = "ok") \/ (step = "fail" /\ result = "err")
  BY DEF FetchOK, FetchErr, Answer
<1>4. /\ pass'[r].step = step /\ pass'[r].at = {n}
      /\ \A s \in Runners : s # r => pass'[s] = pass[s]
      /\ pass' \in [Runners -> [todo : SUBSET NodeIds, at : SUBSET NodeIds,
                                step : {"loop", "clear", "save", "fail"}]]
  BY <1>3 DEF NewsInv, PassType
<1>5. /\ last'[p][n] = result
      /\ \A q \in Panels, m \in NodeIds : <<q, m>> # <<p, n>> => last'[q][m] = last[q][m]
      /\ LastType'
  BY <1>2, <1>3 DEF NewsInv, LastType
<1>6. PassType'
  BY <1>1, <1>4 DEF NewsInv, PassType, InPass
<1>7. FailureIsNewest'
  <2> SUFFICES ASSUME NEW s \in Runners, InPass(s, "fail")', NEW m \in At(s)'
               PROVE  last'[job'[s]][m] = "err"
    BY DEF FailureIsNewest
  <2>1. CASE s = r
    BY <1>1, <1>3, <1>4, <1>5, <2>1 DEF InPass, At
  <2>2. CASE s # r
    <3>1. InPass(s, "fail") /\ m \in At(s)
      BY <1>1, <1>4, <2>2 DEF InPass, At
    <3>2. m \in NodeIds /\ job[s] \in Panels /\ last[job[s]][m] = "err"
      BY <3>1 DEF NewsInv, FailureIsNewest, PassType, At, Agrees, Sched!TypeOK, InPass
    <3>3. job[s] # p
      BY <1>2, <2>2, <3>1
    <3> QED
      BY <1>1, <1>5, <3>2, <3>3
  <2> QED
    BY <2>1, <2>2
<1>8. ErrorsAreNews'
  <2> SUFFICES ASSUME NEW q \in Panels, NEW m \in errors[q], last'[q][m] # "err"
               PROVE  \E s \in Runners :
                        job'[s] = q /\ At(s)' = {m} /\ InPass(s, "clear")'
    BY <1>1 DEF ErrorsAreNews
  <2>1. m \in NodeIds
    BY DEF NewsInv, ErrorType
  <2>2. CASE q = p /\ m = n
    BY <1>1, <1>3, <1>4, <1>5, <2>2 DEF InPass, At
  <2>3. CASE <<q, m>> # <<p, n>>
    <3>1. PICK s \in Runners : job[s] = q /\ At(s) = {m} /\ InPass(s, "clear")
      BY <1>5, <2>1, <2>3 DEF NewsInv, ErrorsAreNews
    <3>2. s # r
      BY <1>1, <3>1 DEF InPass
    <3> QED
      BY <1>1, <1>4, <3>1, <3>2 DEF InPass, At
  <2> QED
    BY <2>2, <2>3
<1> QED
  BY <1>1, <1>5, <1>6, <1>7, <1>8 DEF NewsInv, ErrorType

(* The pass does something about one node: skips it, clears its error,      *)
(* saves its snapshot or records its failure.                               *)
LEMMA NodeStep ==
  ASSUME Agrees, NewsInv, NEW r \in Runners,
         (\E n \in NodeIds : Throttle(r, n)) \/ ClearError(r) \/ SaveSnapshot(r) \/ RecordError(r)
  PROVE  NewsInv'
<1>1. UNCHANGED <<pc, job, last>> /\ pc[r] = "fn"
  BY DEF Throttle, ClearError, SaveSnapshot, RecordError, InPass, schedVars
<1>2. job[r] \in Panels
  BY <1>1 DEF Agrees, Sched!TypeOK
<1>3. /\ \A s \in Runners : s # r => pass'[s] = pass[s]
      /\ pass'[r].step \in {"loop", "save"}
      /\ pass'[r].step = "loop" <=> pass'[r].at = {}
      /\ pass' \in [Runners -> [todo : SUBSET NodeIds, at : SUBSET NodeIds,
                                step : {"loop", "clear", "save", "fail"}]]
  <2>1. ASSUME NEW n \in NodeIds, Throttle(r, n)
        PROVE  pass' = [pass EXCEPT ![r].todo = @ \ {n}] /\ pass[r].step = "loop"
    BY <2>1 DEF Throttle, InPass
  <2>2. CASE \E n \in NodeIds : Throttle(r, n)
    BY <2>1, <2>2 DEF NewsInv, PassType
  <2>3. CASE ClearError(r)
    <3>1. pass' = [pass EXCEPT ![r].step = "save"] /\ pass[r].step = "clear"
      BY <2>3 DEF ClearError, InPass
    <3> QED
      BY <3>1 DEF NewsInv, PassType
  <2>4. CASE SaveSnapshot(r) \/ RecordError(r)
    <3>1. pass' = [pass EXCEPT ![r].at = {}, ![r].step = "loop"]
      BY <2>4 DEF SaveSnapshot, RecordError, Ended
    <3> QED
      BY <3>1 DEF NewsInv, PassType
  <2> QED
    BY <2>2, <2>3, <2>4
<1>4. PassType'
  BY <1>1, <1>3 DEF NewsInv, PassType
<1>5. FailureIsNewest'
  BY <1>1, <1>3 DEF NewsInv, FailureIsNewest, InPass, At
<1>6. /\ ErrorType'
      /\ \A q \in Panels, m \in NodeIds : m \in errors'[q] =>
           \/ last[q][m] = "err"
           \/ m \in errors[q] /\ \A s \in Runners :
                job[s] = q /\ At(s) = {m} /\ InPass(s, "clear") => s # r
  <2>1. CASE \E n \in NodeIds : Throttle(r, n)
    <3>1. UNCHANGED errors /\ pass[r].step = "loop"
      BY <2>1 DEF Throttle, InPass, viewVars
    <3> QED
      BY <3>1 DEF NewsInv, ErrorType, InPass
  <2>2. CASE ClearError(r)
    <3>1. errors' = [errors EXCEPT ![job[r]] = @ \ At(r)]
      BY <2>2 DEF ClearError
    <3> QED
      BY <1>2, <3>1 DEF NewsInv, ErrorType
  <2>3. CASE SaveSnapshot(r)
    <3>1. UNCHANGED errors /\ pass[r].step = "save"
      BY <2>3 DEF SaveSnapshot, InPass
    <3> QED
      BY <3>1 DEF NewsInv, ErrorType, InPass
  <2>4. CASE RecordError(r)
    <3>1. errors' = [errors EXCEPT ![job[r]] = @ \cup At(r)] /\ InPass(r, "fail")
      BY <2>4 DEF RecordError
    <3>2. At(r) \subseteq NodeIds /\ \A n \in At(r) : last[job[r]][n] = "err"
      BY <3>1 DEF NewsInv, FailureIsNewest, PassType, At
    <3> QED
      BY <1>2, <3>1, <3>2 DEF NewsInv, ErrorType, InPass
  <2> QED
    BY <2>1, <2>2, <2>3, <2>4
<1>7. ErrorsAreNews'
  <2> SUFFICES ASSUME NEW q \in Panels, NEW m \in errors'[q], last[q][m] # "err"
               PROVE  \E s \in Runners :
                        job'[s] = q /\ At(s)' = {m} /\ InPass(s, "clear")'
    BY <1>1 DEF ErrorsAreNews
  <2>1. m \in NodeIds
    BY <1>6 DEF ErrorType
  <2>2. m \in errors[q] /\ \A s \in Runners :
          job[s] = q /\ At(s) = {m} /\ InPass(s, "clear") => s # r
    BY <1>6, <2>1
  <2>3. PICK s \in Runners : job[s] = q /\ At(s) = {m} /\ InPass(s, "clear")
    BY <2>2 DEF NewsInv, ErrorsAreNews
  <2> QED
    BY <1>1, <1>3, <2>2, <2>3 DEF InPass, At
<1> QED
  BY <1>1, <1>4, <1>5, <1>6, <1>7 DEF NewsInv, LastType

LEMMA NewsStep == ASSUME Agrees, NewsInv, [Next]_vars PROVE NewsInv'
<1>1. CASE UNCHANGED <<pc, job, pass, last, errors>>
  <2>1. ErrorType' /\ \A p \in Panels : errors'[p] \subseteq errors[p]
    BY <1>1 DEF NewsInv, ErrorType
  <2> QED
    BY <1>1, <2>1, QuietStep
<1>2. CASE RefreshPublish
  <2>1. errors' = [p \in Panels |-> errors[p] \cap Members(refreshView)]
    BY <1>2 DEF RefreshPublish, PublishAndPrune
  <2>2. ErrorType' /\ \A p \in Panels : errors'[p] \subseteq errors[p]
    BY <2>1 DEF NewsInv, ErrorType
  <2>3. UNCHANGED <<pc, job, pass, last>>
    BY <1>2 DEF RefreshPublish, schedVars, passVars
  <2> QED
    BY <2>2, <2>3, QuietStep
<1>3. ASSUME NEW p \in Panels, SpawnTicker(p) \/ Tick(p) PROVE NewsInv'
  <2>1. Sched!Run(p) /\ UNCHANGED <<errors, pass, last>>
    BY <1>3 DEF SpawnTicker, Tick, viewVars, passVars
  <2> QED
    BY <2>1, RunStep
<1>4. ASSUME NEW r \in Runners, RunnerStep(r) PROVE NewsInv'
  <2>1. CASE BeginPass(r) \/ EndPass(r) \/ Reschedule(r)
    BY <2>1, PassStep
  <2>2. ASSUME NEW n \in NodeIds, FetchOK(r, n) \/ FetchErr(r, n) PROVE NewsInv'
    BY <2>2, AnswerStep
  <2>3. CASE (\E n \in NodeIds : Throttle(r, n)) \/ ClearError(r) \/ SaveSnapshot(r)
             \/ RecordError(r)
    BY <2>3, NodeStep
  <2> QED
    BY <1>4, <2>1, <2>2, <2>3 DEF RunnerStep
<1>5. ASSUME NEW p \in Panels, TickerExit(p)
      PROVE  UNCHANGED <<pc, job, pass, last, errors>>
  BY <1>5 DEF TickerExit, schedVars, viewVars, passVars
<1>6. CASE RefreshFails \/ RefreshDiscover \/ RefreshPrune \/ RefreshExit \/ SetTarget
  BY <1>1, <1>6 DEF RefreshFails, RefreshDiscover, RefreshPrune, RefreshExit,
     SetTarget,
     SetTargetDiscover, SetTargetPrune, SetTargetPublish, Publish, schedVars, viewVars, passVars
<1>7. CASE Boot \/ BootFails \/ Quit \/ Wait \/ Close \/ Terminated \/ UNCHANGED vars
  BY <1>1, <1>7 DEF Boot, BootFails, Quit, Wait, Close, MainMoves, Terminated,
     Publish,
     schedVars, viewVars, passVars, vars
<1>8. ASSUME NEW n \in NodeIds, NEW s \in Status, Change(n, s)
      PROVE  UNCHANGED <<pc, job, pass, last, errors>>
  BY <1>8 DEF Change, schedVars, viewVars, passVars
<1> QED
  BY <1>1, <1>2, <1>3, <1>4, <1>5, <1>6, <1>7, <1>8 DEF Next, Refresh

(* A panel error is the outcome of the newest fetch of its node, or is      *)
(* about to be cleared by the pass that fetched it (engine.go:174-231).     *)
THEOREM ErrorsAreNewest == Safety => []ErrorsAreNews
<1>1. Init => SP!IInv /\ NewsInv
  BY SchedulerInit, NewsInit
<1>2. SP!IInv /\ NewsInv /\ [Next]_vars => (SP!IInv /\ NewsInv)'
  BY SchedulerInvariant, NewsStep, SchedulerAgrees
<1>3. NewsInv => ErrorsAreNews
  BY DEF NewsInv
<1> QED
  BY <1>1, <1>2, <1>3, PTL DEF Safety

-----------------------------------------------------------------------------
(* Type correctness: what the invariants above do not say of the types.     *)

RestType ==
    /\ truth \in Views /\ nodes \in Views /\ refreshView \in Views /\ uiView \in Views
    /\ changes \in 0..MaxChanges
    /\ nodesError \in BOOLEAN
    /\ store \in [Panels -> SUBSET NodeIds]
    /\ refresher \in {"none", "wait", "prune", "publish", "gone"}
    /\ ui \in {"idle", "prune", "publish"}
    /\ main \in {"boot", "spawn", "ui", "waitTickers", "waitPasses", "close",
                 "closed", "failed"}

LEMMA RestInit == Init => RestType
<1> SUFFICES ASSUME Init PROVE RestType
  OBVIOUS
<1>1. truth \in Views /\ nodes \in Views
  BY DEF Init, Views, Status
<1>2. refreshView \in Views /\ uiView \in Views
  BY <1>1 DEF Init
<1>3. changes = 0 /\ 0 \in 0..MaxChanges /\ nodesError = FALSE
  BY EngineAssumption DEF Init
<1>4. store \in [Panels -> SUBSET NodeIds]
  BY DEF Init
<1>5. refresher = "none" /\ ui = "idle" /\ main = "boot"
  BY DEF Init
<1> QED
  BY <1>1, <1>2, <1>3, <1>4, <1>5 DEF RestType

(* Pruning keeps the store a set of nodes for each panel.                   *)
LEMMA PruneType ==
  ASSUME RestType, NEW view, PruneNodes(view) PROVE store' \in [Panels -> SUBSET NodeIds]
BY DEF RestType, PruneNodes

LEMMA RestStep == ASSUME Agrees, PassType, RestType, [Next]_vars PROVE RestType'
<1>1. ASSUME NEW n \in NodeIds, NEW s \in Status, Change(n, s) PROVE RestType'
  <2>1. truth' \in Views
    <3>1. truth' = [truth EXCEPT ![n] = s]
      BY <1>1 DEF Change
    <3> QED
      BY <3>1 DEF RestType, Views
  <2>2. changes' \in 0..MaxChanges
    BY <1>1, EngineAssumption DEF Change, RestType
  <2> QED
    BY <1>1, <2>1, <2>2 DEF Change, RestType, viewVars, actorVars, refreshVars,
       uiVars, mainVars
<1>2. CASE UNCHANGED <<envVars, nodes, nodesError, store, refreshVars, uiVars, main>>
  BY <1>2 DEF RestType, envVars, refreshVars, uiVars
<1>3. CASE Boot
  BY <1>3, PruneType DEF Boot, RestType, Publish, envVars, uiVars
<1>4. CASE BootFails \/ Quit \/ Wait \/ Close
  BY <1>4 DEF BootFails, Quit, Wait, Close, MainMoves, RestType, envVars, viewVars,
     refreshVars, uiVars
<1>5. ASSUME NEW p \in Panels, SpawnTicker(p) \/ Tick(p) \/ TickerExit(p)
      PROVE  RestType'
  BY <1>5 DEF SpawnTicker, Tick, TickerExit, RestType, envVars, viewVars, actorVars,
     refreshVars, uiVars, mainVars
<1>6. CASE RefreshFails \/ RefreshDiscover \/ RefreshExit
  BY <1>6 DEF RefreshFails, RefreshDiscover, RefreshExit, RestType, envVars, viewVars,
     actorVars, refreshVars, uiVars, mainVars
<1>7. CASE RefreshPrune
  BY <1>7, PruneType DEF RefreshPrune, RestType, envVars, uiVars, mainVars
<1>8. CASE RefreshPublish
  BY <1>8 DEF RefreshPublish, PublishAndPrune, RestType, envVars, uiVars, mainVars
<1>9. CASE SetTargetDiscover \/ SetTargetPublish
  BY <1>9 DEF SetTargetDiscover, SetTargetPublish, Publish, RestType, envVars,
     viewVars,
     refreshVars, mainVars
<1>10. CASE SetTargetPrune
  BY <1>10, PruneType DEF SetTargetPrune, RestType, envVars, refreshVars, mainVars
<1>11. ASSUME NEW r \in Runners, SaveSnapshot(r) PROVE RestType'
  <2>1. store' = [store EXCEPT ![job[r]] = @ \cup At(r)] /\ pc[r] = "fn"
    BY <1>11 DEF SaveSnapshot, InPass
  <2>2. job[r] \in Panels /\ At(r) \subseteq NodeIds
    BY <2>1 DEF Agrees, Sched!TypeOK, PassType, At
  <2>3. store' \in [Panels -> SUBSET NodeIds]
    BY <2>1, <2>2 DEF RestType
  <2> QED
    BY <1>11, <2>3 DEF SaveSnapshot, RestType, envVars, actorVars, refreshVars,
       uiVars, mainVars
<1>12. ASSUME NEW r \in Runners, RunnerStep(r), ~SaveSnapshot(r)
       PROVE  UNCHANGED <<envVars, nodes, nodesError, store, refreshVars, uiVars, main>>
  BY <1>12 DEF RunnerStep, BeginPass, FetchOK, FetchErr, Answer, Throttle, ClearError,
     RecordError, EndPass, Reschedule, viewVars, actorVars, mainVars
<1>13. CASE Terminated \/ UNCHANGED vars
  BY <1>2, <1>13 DEF Terminated, vars, viewVars, actorVars, mainVars
<1> QED
  BY <1>1, <1>2, <1>3, <1>4, <1>5, <1>6, <1>7, <1>8, <1>9, <1>10, <1>11, <1>12, <1>13
     DEF Next, Refresh, SetTarget

(* Every variable keeps its type, and no pass is left behind outside of fn. *)
THEOREM EngineTypes == Safety => []TypeOK
<1> DEFINE Inv == SP!IInv /\ ShutdownInv /\ NewsInv /\ RestType
<1>1. Init => Inv
  BY SchedulerInit, ShutdownInit, NewsInit, RestInit
<1>2. Inv /\ [Next]_vars => Inv'
  <2> SUFFICES ASSUME Inv, [Next]_vars PROVE Inv'
    OBVIOUS
  <2>1. Agrees /\ PassType
    BY SchedulerAgrees DEF NewsInv
  <2> QED
    BY <2>1, SchedulerInvariant, ShutdownStep, NewsStep, RestStep
<1>3. Inv => TypeOK
  <2> SUFFICES ASSUME Inv PROVE TypeOK
    OBVIOUS
  <2>1. Agrees
    BY SchedulerAgrees
  <2> QED
    BY <2>1 DEF Agrees, ShutdownInv, NewsInv, PassType, ErrorType, LastType,
       RestType, TypeOK
<1> QED
  BY <1>1, <1>2, <1>3, PTL DEF Safety

-----------------------------------------------------------------------------
(* Settled for good.                                                        *)

(* Nothing listed, stored or on its way is of an older membership.          *)
NothingStale ==
    /\ nodes = truth
    /\ refresher \in {"prune", "publish"} => refreshView = truth
    /\ ui # "idle" => uiView = truth
    /\ \A r \in Runners : pass[r].todo \cup At(r) \subseteq Members(truth)
    /\ \A p \in Panels : store[p] \cup errors[p] \subseteq Members(truth)

(* Every online node has a snapshot or an error in every panel, or its      *)
(* first snapshot follows the error that was cleared for it.                *)
Covered ==
    \A p \in Panels : \A n \in Online(truth) :
        \/ n \in store[p] \cup errors[p]
        \/ \E r \in Runners : job[r] = p /\ InPass(r, "save") /\ n \in At(r)

Types == Agrees /\ PassType /\ ErrorType /\ RestType

SettledNow == NothingStale /\ Covered

LEMMA OnlineAreMembers == ASSUME NEW view PROVE Online(view) \subseteq Members(view)
BY DEF Online, Members

(* A step that leaves passes, store and errors alone and publishes, if      *)
(* anything, the cluster as it is.                                          *)
LEMMA ViewsMove ==
  ASSUME SettledNow, UNCHANGED <<truth, pc, job, pass, store, errors>>,
         nodes' \in {nodes, truth},
         refresher' \in {"prune", "publish"} => refreshView' = truth,
         ui' # "idle" => uiView' = truth
  PROVE  SettledNow'
BY DEF SettledNow, NothingStale, Covered, InPass, At, Members, Online

(* Pruning to the members takes nothing away.                               *)
LEMMA PruneNothing ==
  ASSUME Types, NothingStale, PruneNodes(truth)
  PROVE  store' = store
<1>1. store \in [Panels -> SUBSET NodeIds]
  BY DEF Types, RestType
<1>2. \A p \in Panels : store[p] \cap Members(truth) = store[p]
  BY DEF NothingStale
<1> QED
  BY <1>1, <1>2 DEF PruneNodes

LEMMA PruneErrorsNothing ==
  ASSUME Types, NothingStale, PublishAndPrune(truth)
  PROVE  errors' = errors
<1>1. errors \in [Panels -> SUBSET NodeIds]
  BY DEF Types, ErrorType
<1>2. \A p \in Panels : errors[p] \cap Members(truth) = errors[p]
  BY DEF NothingStale
<1> QED
  BY <1>1, <1>2 DEF PublishAndPrune

(* A call of Run, a goroutine that begins, ends or reschedules a pass.      *)
LEMMA GoroutinesMove ==
  ASSUME Types, SettledNow, UNCHANGED <<truth, viewVars, refreshVars, uiVars>>,
         \A r \in Runners :
            /\ pass'[r].at = pass[r].at /\ pass'[r].step = pass[r].step
            /\ pass'[r].todo \subseteq pass[r].todo \cup Members(truth)
            /\ pc[r] = "fn" /\ pass[r].step = "save" =>
                    pc'[r] = "fn" /\ job'[r] = job[r]
  PROVE  SettledNow'
<1>1. NothingStale'
  BY DEF SettledNow, NothingStale, viewVars, refreshVars, uiVars, At, Members
<1>2. Covered'
  BY DEF SettledNow, Covered, viewVars, InPass, At, Online
<1> QED
  BY <1>1, <1>2 DEF SettledNow

LEMMA RunSettled ==
  ASSUME Types, SettledNow, NEW p \in Panels, Sched!Run(p),
         UNCHANGED <<truth, viewVars, refreshVars, uiVars, pass>>
  PROVE  SettledNow'
<1>1. \A r \in Runners : \/ pc'[r] = pc[r] /\ job'[r] = job[r]
                         \/ pc[r] = "idle" /\ pc'[r] = "ready"
  BY RunFacts DEF Types
<1> QED
  BY <1>1, GoroutinesMove

LEMMA PassSettled ==
  ASSUME Types, SettledNow, NEW r \in Runners,
         BeginPass(r) \/ EndPass(r) \/ Reschedule(r)
  PROVE  SettledNow'
<1>1. UNCHANGED <<truth, viewVars, refreshVars, uiVars>>
  BY DEF BeginPass, EndPass, Reschedule, envVars, actorVars
<1>2. /\ job' = job /\ \A s \in Runners \ {r} : pc'[s] = pc[s]
      /\ BeginPass(r) <=> pc'[r] = "fn"
      /\ pc[r] = "fn" => EndPass(r)
  BY OwnStep DEF Types
<1>3. CASE BeginPass(r)
  <2>1. pass' = [pass EXCEPT ![r].todo = Online(nodes)]
    BY <1>3 DEF BeginPass
  <2>2. Online(nodes) \subseteq Members(truth)
    BY OnlineAreMembers DEF SettledNow, NothingStale
  <2>3. \A s \in Runners :
            /\ pass'[s].at = pass[s].at /\ pass'[s].step = pass[s].step
            /\ pass'[s].todo \subseteq pass[s].todo \cup Members(truth)
    BY <2>1, <2>2 DEF Types, PassType
  <2>4. \A s \in Runners : pc[s] = "fn" => pc'[s] = "fn" /\ job'[s] = job[s]
    BY <1>2, <1>3
  <2> QED
    BY <1>1, <2>3, <2>4, GoroutinesMove
<1>4. CASE EndPass(r) \/ Reschedule(r)
  <2>1. pass' = pass
    BY <1>4 DEF EndPass, Reschedule, passVars
  <2>2. pc[r] = "fn" => pass[r].step = "loop"
    BY <1>2 DEF EndPass, InPass
  <2>3. \A s \in Runners : pc[s] = "fn" /\ pass[s].step = "save" =>
            pc'[s] = "fn" /\ job'[s] = job[s]
    BY <1>2, <2>2
  <2> QED
    BY <1>1, <2>1, <2>3, GoroutinesMove
<1> QED
  BY <1>3, <1>4

(* A step of a pass about a node.                                           *)
LEMMA NodeSettled ==
  ASSUME Types, SettledNow, NEW r \in Runners,
         \/ \E n \in NodeIds : FetchOK(r, n) \/ FetchErr(r, n) \/ Throttle(r, n)
         \/ ClearError(r) \/ SaveSnapshot(r) \/ RecordError(r)
  PROVE  SettledNow'
<1>1. UNCHANGED <<truth, pc, job, nodes, refreshVars, uiVars>>
  BY DEF FetchOK, FetchErr, Answer, Throttle, ClearError, SaveSnapshot, RecordError,
     envVars, schedVars, viewVars, actorVars
<1>2. /\ pc[r] = "fn" /\ job[r] \in Panels
      /\ pass \in [Runners -> [todo : SUBSET NodeIds, at : SUBSET NodeIds,
                               step : {"loop", "clear", "save", "fail"}]]
      /\ errors \in [Panels -> SUBSET NodeIds] /\ store \in [Panels -> SUBSET NodeIds]
  <2>1. pc[r] = "fn"
    BY DEF FetchOK, FetchErr, Answer, Throttle, ClearError, SaveSnapshot,
       RecordError, InPass
  <2> QED
    BY <2>1 DEF Types, Agrees, Sched!TypeOK, PassType, ErrorType, RestType
<1>3. pass[r].todo \cup pass[r].at \subseteq Members(truth)
  BY DEF SettledNow, NothingStale, At
<1>4. CASE \E n \in NodeIds : FetchOK(r, n) \/ FetchErr(r, n)
  <2>1. PICK n \in NodeIds, step \in {"clear", "fail"} :
            /\ n \in pass[r].todo /\ pass[r].step = "loop"
            /\ pass' = [pass EXCEPT ![r] =
                    [todo |-> pass[r].todo \ {n}, at |-> {n}, step |-> step]]
            /\ UNCHANGED <<errors, store>>
    BY <1>4 DEF FetchOK, FetchErr, Answer, InPass, viewVars
  <2>2. /\ \A s \in Runners \ {r} : pass'[s] = pass[s]
        /\ pass'[r].todo \subseteq pass[r].todo /\ pass'[r].at = {n}
    BY <1>2, <2>1
  <2>3. NothingStale'
    BY <1>1, <1>3, <2>1, <2>2
       DEF SettledNow, NothingStale, At, Members, refreshVars, uiVars
  <2>4. Covered'
    BY <1>1, <2>1, <2>2 DEF SettledNow, Covered, InPass, At, Online
  <2> QED
    BY <2>3, <2>4 DEF SettledNow
<1>5. CASE \E n \in NodeIds : Throttle(r, n)
  <2>1. PICK n \in NodeIds : /\ pass' = [pass EXCEPT ![r].todo = pass[r].todo \ {n}]
                             /\ UNCHANGED viewVars
    BY <1>5 DEF Throttle
  <2>2. \A s \in Runners :
            /\ pass'[s].at = pass[s].at /\ pass'[s].step = pass[s].step
            /\ pass'[s].todo \subseteq pass[s].todo \cup Members(truth)
    BY <1>2, <2>1
  <2> QED
    BY <1>1, <2>1, <2>2, GoroutinesMove
<1>6. CASE ClearError(r)
  <2>1. /\ errors' = [errors EXCEPT ![job[r]] = errors[job[r]] \ pass[r].at]
        /\ pass' = [pass EXCEPT ![r].step = "save"] /\ UNCHANGED store
    BY <1>6 DEF ClearError, At
  <2>2. /\ \A s \in Runners : pass'[s].at = pass[s].at /\ pass'[s].todo = pass[s].todo
        /\ \A s \in Runners \ {r} : pass'[s].step = pass[s].step
        /\ pass'[r].step = "save"
        /\ \A p \in Panels : /\ errors'[p] \subseteq errors[p]
                             /\ errors[p] \subseteq errors'[p] \cup pass[r].at
                             /\ p # job[r] => errors'[p] = errors[p]
    BY <1>2, <2>1
  <2>3. NothingStale'
    BY <1>1, <2>1, <2>2
       DEF SettledNow, NothingStale, At, Members, refreshVars, uiVars
  <2>4. ASSUME NEW p \in Panels, NEW n \in Online(truth)
        PROVE  \/ n \in store'[p] \cup errors'[p]
               \/ \E s \in Runners : job'[s] = p /\ InPass(s, "save")' /\ n \in At(s)'
    <3>1. CASE n \in store[p] \cup errors[p]
      BY <1>1, <1>2, <2>1, <2>2, <3>1 DEF InPass, At
    <3>2. CASE \E s \in Runners : job[s] = p /\ InPass(s, "save") /\ n \in At(s)
      BY <1>1, <2>2, <3>2 DEF InPass, At
    <3> QED
      BY <3>1, <3>2 DEF SettledNow, Covered
  <2>5. Covered'
    BY <1>1, <2>4 DEF Covered, Online
  <2> QED
    BY <2>3, <2>5 DEF SettledNow
<1>7. CASE SaveSnapshot(r) \/ RecordError(r)
  <2>1. /\ pass' = [pass EXCEPT ![r].at = {}, ![r].step = "loop"]
        /\ \/ /\ store' = [store EXCEPT ![job[r]] = store[job[r]] \cup pass[r].at]
              /\ errors' = errors
           \/ /\ errors' = [errors EXCEPT ![job[r]] = errors[job[r]] \cup pass[r].at]
              /\ store' = store /\ pass[r].step = "fail"
    BY <1>7 DEF SaveSnapshot, RecordError, Ended, At, InPass
  <2>2. /\ \A s \in Runners \ {r} : pass'[s] = pass[s]
        /\ pass'[r].at = {} /\ pass'[r].todo = pass[r].todo /\ pass'[r].step = "loop"
        /\ \A p \in Panels :
            /\ store[p] \cup errors[p] \subseteq store'[p] \cup errors'[p]
            /\ store'[p] \cup errors'[p] \subseteq store[p] \cup errors[p] \cup pass[r].at
        /\ pass[r].step = "save" => pass[r].at \subseteq store'[job[r]]
    BY <1>2, <2>1
  <2>3. NothingStale'
    BY <1>1, <1>3, <2>2
       DEF SettledNow, NothingStale, At, Members, refreshVars, uiVars
  <2>4. ASSUME NEW p \in Panels, NEW n \in Online(truth)
        PROVE  \/ n \in store'[p] \cup errors'[p]
               \/ \E s \in Runners : job'[s] = p /\ InPass(s, "save")' /\ n \in At(s)'
    <3>1. CASE n \in store[p] \cup errors[p]
      BY <2>2, <3>1
    <3>2. ASSUME NEW s \in Runners, job[s] = p, InPass(s, "save"), n \in At(s)
          PROVE  \/ n \in store'[p] \cup errors'[p]
                 \/ job'[s] = p /\ InPass(s, "save")' /\ n \in At(s)'
      BY <1>1, <2>2, <3>2 DEF InPass, At
    <3> QED
      BY <3>1, <3>2 DEF SettledNow, Covered
  <2>5. Covered'
    BY <1>1, <2>4 DEF Covered, Online
  <2> QED
    BY <2>3, <2>5 DEF SettledNow
<1> QED
  BY <1>4, <1>5, <1>6, <1>7

(* The second half of Heals, which is a statement about the end of the      *)
(* changes: once the list is the cluster's, nothing on its way is older,    *)
(* and every online node is covered, it stays like that until the           *)
(* membership changes again, whatever is polled, refreshed, switched and    *)
(* shut down (engine.go:119-158, 165-172; store.go:127-160).                *)
THEOREM SettledStays ==
  Safety => [][SettledNow /\ UNCHANGED truth => SettledNow']_vars
<1> DEFINE Inv == SP!IInv /\ ShutdownInv /\ NewsInv /\ RestType
<1>1. Init => Inv
  BY SchedulerInit, ShutdownInit, NewsInit, RestInit
<1>2. Inv /\ [Next]_vars => Inv'
  <2> SUFFICES ASSUME Inv, [Next]_vars PROVE Inv'
    OBVIOUS
  <2>1. Agrees /\ PassType
    BY SchedulerAgrees DEF NewsInv
  <2> QED
    BY <2>1, SchedulerInvariant, ShutdownStep, NewsStep, RestStep
<1>3. Inv => Types
  BY SchedulerAgrees DEF NewsInv, Types
<1>4. ASSUME Types, [Next]_vars, SettledNow, UNCHANGED truth PROVE SettledNow'
  <2>1. CASE \E n \in NodeIds, s \in Status : Change(n, s)
    BY <1>4, <2>1, GoroutinesMove DEF Change, actorVars, passVars, schedVars
  <2>2. CASE Boot
    <3>1. PruneNodes(truth) /\ Publish(truth) /\ UNCHANGED <<schedVars, uiVars, passVars>>
          /\ refresher' = "wait"
      BY <2>2 DEF Boot
    <3>2. store' = store
      BY <1>4, <3>1, PruneNothing DEF SettledNow
    <3> QED
      BY <1>4, <3>1, <3>2, ViewsMove
         DEF Publish, schedVars, uiVars, passVars, SettledNow, NothingStale
  <2>3. CASE BootFails \/ Quit \/ Wait \/ Close \/ Terminated \/ UNCHANGED vars
    BY <1>4, <2>3, GoroutinesMove DEF BootFails, Quit, Wait, Close, MainMoves,
       Terminated, vars, schedVars, passVars, actorVars
  <2>4. CASE \E p \in Panels : SpawnTicker(p) \/ Tick(p) \/ TickerExit(p)
    <3>1. PICK p \in Panels : SpawnTicker(p) \/ Tick(p) \/ TickerExit(p)
      BY <2>4
    <3>2. UNCHANGED <<viewVars, refreshVars, uiVars, pass>>
      BY <3>1 DEF SpawnTicker, Tick, TickerExit, actorVars, passVars
    <3>3. CASE TickerExit(p)
      BY <1>4, <3>2, <3>3, GoroutinesMove DEF TickerExit, schedVars
    <3> QED
      BY <1>4, <3>1, <3>2, <3>3, RunSettled DEF SpawnTicker, Tick
  <2>5. CASE \E r \in Runners : RunnerStep(r)
    BY <1>4, <2>5, PassSettled, NodeSettled DEF RunnerStep
  <2>6. CASE RefreshFails \/ RefreshDiscover \/ RefreshExit
    BY <1>4, <2>6, ViewsMove DEF RefreshFails, RefreshDiscover, RefreshExit,
       schedVars, viewVars, actorVars, refreshVars, uiVars, passVars, SettledNow,
       NothingStale
  <2>7. CASE RefreshPrune
    <3>1. /\ PruneNodes(refreshView) /\ refresher = "prune" /\ refreshView' = refreshView
          /\ UNCHANGED <<schedVars, nodes, errors, uiVars, passVars>>
      BY <2>7 DEF RefreshPrune
    <3>2. refreshView = truth
      BY <1>4, <3>1 DEF SettledNow, NothingStale
    <3>3. store' = store
      BY <1>4, <3>1, <3>2, PruneNothing DEF SettledNow
    <3> QED
      BY <1>4, <3>1, <3>2, <3>3, ViewsMove
         DEF schedVars, uiVars, passVars, SettledNow, NothingStale
  <2>8. CASE RefreshPublish
    <3>1. /\ PublishAndPrune(refreshView) /\ refresher = "publish" /\ refresher' = "wait"
          /\ UNCHANGED <<schedVars, store, uiVars, passVars>>
      BY <2>8 DEF RefreshPublish
    <3>2. refreshView = truth
      BY <1>4, <3>1 DEF SettledNow, NothingStale
    <3>3. errors' = errors /\ nodes' = truth
      BY <1>4, <3>1, <3>2, PruneErrorsNothing DEF SettledNow, PublishAndPrune
    <3> QED
      BY <1>4, <3>1, <3>3, ViewsMove
         DEF schedVars, uiVars, passVars, SettledNow, NothingStale
  <2>9. CASE SetTargetDiscover
    BY <1>4, <2>9, ViewsMove DEF SetTargetDiscover,
       schedVars, viewVars, refreshVars, passVars, SettledNow, NothingStale
  <2>10. CASE SetTargetPrune
    <3>1. /\ PruneNodes(uiView) /\ ui = "prune" /\ uiView' = uiView
          /\ UNCHANGED <<schedVars, nodes, errors, refreshVars, passVars>>
      BY <2>10 DEF SetTargetPrune
    <3>2. uiView = truth
      BY <1>4, <3>1 DEF SettledNow, NothingStale
    <3>3. store' = store
      BY <1>4, <3>1, <3>2, PruneNothing DEF SettledNow
    <3> QED
      BY <1>4, <3>1, <3>2, <3>3, ViewsMove
         DEF schedVars, refreshVars, passVars, SettledNow, NothingStale
  <2>11. CASE SetTargetPublish
    <3>1. /\ Publish(uiView) /\ ui = "publish" /\ ui' = "idle"
          /\ UNCHANGED <<schedVars, store, refreshVars, passVars>>
      BY <2>11 DEF SetTargetPublish
    <3>2. uiView = truth
      BY <1>4, <3>1 DEF SettledNow, NothingStale
    <3> QED
      BY <1>4, <3>1, <3>2, ViewsMove
         DEF Publish, schedVars, refreshVars, passVars, SettledNow, NothingStale
  <2> QED
    BY <1>4, <2>1, <2>2, <2>3, <2>4, <2>5, <2>6, <2>7, <2>8, <2>9, <2>10, <2>11
       DEF Next, Refresh, SetTarget
<1>5. Inv /\ [Next]_vars => [SettledNow /\ UNCHANGED truth => SettledNow']_vars
  BY <1>3, <1>4
<1> QED
  BY <1>1, <1>2, <1>5, PTL DEF Safety

=============================================================================
