------------------------------- MODULE Monitor -------------------------------
(***************************************************************************)
(* From the lines a server sends after MONITOR to the counts on panel 7:   *)
(* the read loop of Stream.run, ParseLine, Buffer.Add, and the readers     *)
(* EventsInWindow and Aggregate (internal/monitor).  Starting and stopping *)
(* are in module Stream, the ring in module Buffer.                        *)
(*                                                                         *)
(* A line carries the time of the server, the window is measured with the  *)
(* clock of the program.  ReadString gives up after 500 ms, and what it    *)
(* had read of a line by then is dropped.                                  *)
(***************************************************************************)
EXTENDS BufferConstants, Integers, Sequences, FiniteSets

CONSTANTS
    Window,                 \* b.window, in ticks
    MaxSkew,                \* bound: between the two clocks
    MaxNow, MaxLines        \* bounds: the clock, lines sent

VARIABLES
    events, head, count,    \* the ring
    now,                    \* the program's clock
    skew,                   \* how far the server's is ahead
    sent                    \* history: the commands the server executed

ringVars == <<events, head, count>>
vars == <<ringVars, now, skew, sent>>

Buf == INSTANCE Buffer

(* Some time before any window.                                             *)
Ancient == -1 - Window - MaxSkew

(* One command of Aggregate's list of reads, one that is not, and one of    *)
(* the list by a client with an IPv6 address.                               *)
Command ==
    [cmd : {"get", "set"}, v6 : {FALSE}] \cup [cmd : {"get"}, v6 : {TRUE}]

(* An event's At and Command; "" when ParseLine finds none.                 *)
MonitorEvent ==
    [at : {Ancient} \cup -MaxSkew..MaxNow + MaxSkew, cmd : {"get", "set", ""}]

Init ==
    /\ Buf!Init
    /\ now = 0
    /\ skew \in -MaxSkew..MaxSkew
    /\ sent = <<>>

-----------------------------------------------------------------------------

(* The clock stops at its bound.                                            *)
Tick ==
    /\ now' = IF now < MaxNow THEN now + 1 ELSE now
    /\ UNCHANGED <<ringVars, skew, sent>>

(* ParseLine: the first "]" ends the metadata.  That of an IPv6 address is  *)
(* inside it, so what follows does not begin with a quote: no command.      *)
ParseLine(c, time) == [at |-> time, cmd |-> IF c.v6 THEN "" ELSE c.cmd]

Sent(c, torn) ==
    /\ Len(sent) < MaxLines
    /\ sent' = Append(sent, [at |-> now, cmd |-> c.cmd, v6 |-> c.v6, torn |-> torn])

(* A line that is read in one go, or lost no more than its "+".             *)
Line(c) ==
    /\ Sent(c, FALSE)
    /\ Buf!Add(ParseLine(c, now + skew))
    /\ UNCHANGED <<now, skew>>

(* A line whose beginning was dropped at the read deadline: ParseLine finds *)
(* no metadata, or takes the rest of the time for the time.  Left out: the  *)
(* rest that reads like a line of its own, because an argument has a recent *)
(* time and "[a b]" behind it.  It would be counted, under any command.     *)
TornLine(c) ==
    /\ Sent(c, TRUE)
    /\ UNCHANGED ringVars \/ Buf!Add(ParseLine(c, Ancient))
    /\ UNCHANGED <<now, skew>>

Next == Tick \/ \E c \in Command : Line(c) \/ TornLine(c)

Spec == Init /\ [][Next]_vars

-----------------------------------------------------------------------------
(* The readers: both walk the ring from its oldest slot.                    *)

(* Mutant: the age must be below the window.                                *)
InWindowStrict(e) == now - e.at < Window

(* Mutant: the events of the ring whatever their age.                       *)
InRing(e) == TRUE

InWindow(e) == now - e.at <= Window

(* Positions in the ring, oldest first.                                     *)
EventsInWindow == {i \in DOMAIN Buf!Events : InWindow(Buf!Events[i])}

Reads == Cardinality({i \in EventsInWindow : Buf!Events[i].cmd = "get"})

Writes == Cardinality({i \in EventsInWindow : Buf!Events[i].cmd # "get"})

-----------------------------------------------------------------------------

(* Every variable has its type.                                             *)
TypeOK ==
    /\ Event = MonitorEvent
    /\ now \in 0..MaxNow /\ skew \in -MaxSkew..MaxSkew
    /\ Len(sent) <= MaxLines

(* The commands of the last Window ticks, on the server's clock.            *)
Recent(i) == now - sent[i].at <= Window + skew

(* The counts contain nothing that was not executed within the window, and  *)
(* no write is counted as a read; what is left of a torn line does not get  *)
(* into them, be it dropped or taken for an old event, unless it is one of  *)
(* the rests that TornLine leaves out (buffer.go:78-102, stream.go:113-126, *)
(* parser.go:18-37).                                                        *)
NothingFromOutside ==
    LET within == {i \in DOMAIN sent : Recent(i) /\ ~sent[i].torn}
    IN  /\ Reads + Writes <= Cardinality(within)
        /\ Reads <= Cardinality({i \in within : sent[i].cmd = "get"})

(* They miss a command of the window only if its own line was torn or       *)
(* Capacity lines have come since, and a read is counted as a write only    *)
(* for a client with an IPv6 address: a torn line costs no other one.  The  *)
(* window is as much longer or shorter as the server's clock is ahead or    *)
(* behind (buffer.go:71, 89; parser.go:20-30).                              *)
NothingLeftOut ==
    LET newest == {i \in DOMAIN sent : i > Len(sent) - Capacity}
        within == {i \in newest : Recent(i) /\ ~sent[i].torn}
    IN  /\ Reads + Writes >= Cardinality(within)
        /\ Reads >= Cardinality({i \in within : sent[i].cmd = "get" /\ ~sent[i].v6})

=============================================================================
