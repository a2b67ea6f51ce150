------------------------------ MODULE Commands ------------------------------
(***************************************************************************)
(* The commands panel of one node: Source.FetchCommandStats asks for INFO  *)
(* commandstats, folds the answer into the baseline of the node under      *)
(* s.mu, and shows for each command the calls since the baseline over the  *)
(* time since it was taken.  CONFIG RESETSTAT or a restart of the server   *)
(* sets the counters to zero.  What a switch to another server does is in  *)
(* module Target.                                                          *)
(***************************************************************************)
EXTENDS Integers

CONSTANTS
    Cmds,
    MaxCalls,               \* bound: calls of each command
    MaxResets,              \* bound: resets of the counters
    MaxPause,               \* bound: ticks between two folds
    Timeout                 \* Panels.Commands.Timeout, in ticks

VARIABLES
    calls,                  \* the server's counters; 0: not in the reply
    made, resets,           \* history: calls so far, resets so far
    reply,                  \* the answer on its way to the baseline, with the
                            \* history it was given at, the commands it lists
                            \* and its age in ticks
    baseline,               \* lastCommandCalls, and the same of its answer
    sampled,                \* age of lastCommandSample; 0 also without one
    commands                \* the stored snapshot: command -> delta, the
                            \* elapsed time, and what lies behind them

serverVars == <<calls, made, resets>>
vars == <<serverVars, reply, baseline, sampled, commands>>

Zero == [c \in Cmds |-> 0]

NoAnswer ==
    [calls |-> Zero, listed |-> {}, made |-> Zero, resets |-> 0, age |-> -1]

Init ==
    /\ calls = Zero /\ made = Zero /\ resets = 0
    /\ reply = NoAnswer /\ baseline = NoAnswer
    /\ sampled = 0
    /\ commands = [delta |-> Zero, elapsed |-> 0, old |-> NoAnswer, new |-> NoAnswer]

-----------------------------------------------------------------------------

Call(c) ==
    /\ made[c] < MaxCalls
    /\ calls' = [calls EXCEPT ![c] = @ + 1]
    /\ made' = [made EXCEPT ![c] = @ + 1]
    /\ UNCHANGED <<resets, reply, baseline, sampled, commands>>

ResetStat ==
    /\ resets < MaxResets
    /\ resets' = resets + 1
    /\ calls' = Zero
    /\ UNCHANGED <<made, reply, baseline, sampled, commands>>

Older(answer) ==
    IF answer = NoAnswer THEN answer ELSE [answer EXCEPT !.age = @ + 1]

(* An answer is not on its way for longer than the timeout of the request.  *)
Tick ==
    /\ sampled < MaxPause
    /\ reply.age < Timeout
    /\ sampled' = IF baseline = NoAnswer THEN 0 ELSE sampled + 1
    /\ reply' = Older(reply) /\ baseline' = Older(baseline)
    /\ UNCHANGED <<serverVars, commands>>

(* The server answers.  Time has passed since the last fold.                *)
Answer ==
    /\ reply = NoAnswer
    /\ baseline # NoAnswer => sampled > 0
    /\ reply' = [calls |-> calls, listed |-> {c \in Cmds : calls[c] > 0},
                 made |-> made, resets |-> resets, age |-> 0]
    /\ UNCHANGED <<serverVars, baseline, sampled, commands>>

(* The request fails or times out: no fold.                                 *)
FetchErr ==
    /\ reply # NoAnswer
    /\ reply' = NoAnswer
    /\ UNCHANGED <<serverVars, baseline, sampled, commands>>

(* Mutant: a counter below its baseline is not looked for.                  *)
DeltaOf(c) ==
    IF sampled > 0 /\ reply.calls[c] > 0 /\ baseline.calls[c] > 0
        THEN reply.calls[c] - baseline.calls[c] ELSE 0

(* parseCommandStats: a command that is not in the baseline, or whose       *)
(* counter is below it, has no rate.                                        *)
Delta(c) ==
    IF /\ sampled > 0
       /\ reply.calls[c] > 0 /\ baseline.calls[c] > 0
       /\ reply.calls[c] >= baseline.calls[c]
        THEN reply.calls[c] - baseline.calls[c] ELSE 0

(* Mutant: commands without a new call stay out of the new baseline.        *)
BaselineOfCalled ==
    [reply EXCEPT !.calls = [c \in Cmds |->
        IF reply.calls[c] = baseline.calls[c] THEN 0 ELSE reply.calls[c]]]

(* next: exactly the commands of the answer.                                *)
NextBaseline == reply

(* Mutant: the time of the first sample is kept.                            *)
SampleOnce == sampled

(* lastCommandSample = time.Now()                                           *)
SampleNow == 0

Fold ==
    /\ reply # NoAnswer
    /\ commands' = [delta |-> [c \in Cmds |-> Delta(c)], elapsed |-> sampled,
                    old |-> baseline, new |-> reply]
    /\ baseline' = NextBaseline
    /\ sampled' = SampleNow
    /\ reply' = NoAnswer
    /\ UNCHANGED serverVars

Next ==
    \/ \E c \in Cmds : Call(c)
    \/ ResetStat \/ Tick
    \/ Answer \/ FetchErr \/ Fold

Spec == Init /\ [][Next]_vars

-----------------------------------------------------------------------------

(* Every variable has its type, and the baseline is older than its sample   *)
(* time by the time its answer took, at most the timeout.                   *)
TypeOK ==
    /\ {calls, made} \subseteq [Cmds -> 0..MaxCalls]
    /\ resets \in 0..MaxResets /\ sampled \in 0..MaxPause
    /\ reply.age \in -1..Timeout
    /\ baseline = NoAnswer \/ baseline.age \in sampled..sampled + Timeout
    /\ \A c \in Cmds : calls[c] <= made[c]

Real(c) == commands.new.made[c] - commands.old.made[c]

(* The panel never shows calls nobody made, nor less than none, whatever    *)
(* resets and failed polls lie between two answers                          *)
(* (parse.go:54-58, source.go:444-464).                                     *)
NothingInvented == \A c \in Cmds : commands.delta[c] \in 0..Real(c)

(* It shows fewer than were made only after a reset between the two answers *)
(* or, once, for a command that was not in the earlier one: its first calls *)
(* never appear in a rate (parse.go:55, source.go:455-462).                 *)
FewerOnlyIfNewOrReset ==
    commands.elapsed > 0 =>
        \A c \in Cmds :
            \/ commands.delta[c] = Real(c)
            \/ commands.new.resets > commands.old.resets
            \/ c \notin commands.old.listed

(* The calls are those between two answers of the server, the time is that  *)
(* between two folds: the two differ by less than the timeout of a request, *)
(* so a slow answer before a fast one gives rates that are too high         *)
(* (source.go:449-463).                                                     *)
ElapsedWithinTimeout ==
    commands.elapsed > 0 =>
        LET gap == commands.old.age - commands.new.age
        IN  commands.elapsed - gap \in -Timeout..Timeout

=============================================================================
