-------------------------------- MODULE Buffer -------------------------------
(***************************************************************************)
(* monitor.Buffer (internal/monitor/buffer.go): a ring of the newest       *)
(* MONITOR events.  b.mu makes each method one step.                       *)
(***************************************************************************)
EXTENDS BufferConstants, Integers, Sequences, FiniteSets

VARIABLES
    events,                 \* b.events
    head,                   \* b.head: the slot the next event goes to
    count                   \* b.count: the slots in use

vars == <<events, head, count>>

Slots == 0..(Capacity - 1)

(* NewBuffer                                                                *)
Init ==
    /\ events = [i \in Slots |-> NoEvent]
    /\ head = 0
    /\ count = 0

(* Mutant: the ring is full one event early.                                *)
AddShort(e) ==
    /\ events' = [events EXCEPT ![head] = e]
    /\ head' = (head + 1) % Capacity
    /\ count' = IF count < Capacity - 1 THEN count + 1 ELSE count

Add(e) ==
    /\ events' = [events EXCEPT ![head] = e]
    /\ head' = (head + 1) % Capacity
    /\ count' = IF count < Capacity THEN count + 1 ELSE count

Next == \E e \in Event : Add(e)

Spec == Init /\ [][Next]_vars

-----------------------------------------------------------------------------
(* The readers.                                                             *)

(* The slot of the i-th event, the oldest being 0.                          *)
Slot(i) == (head - count + i + Capacity) % Capacity

(* Events()                                                                 *)
Events == [i \in 1..count |-> events[Slot(i - 1)]]

-----------------------------------------------------------------------------

(* The ring holds its type, and the slots never written are exactly those   *)
(* from the head on while it has not wrapped.                               *)
TypeOK ==
    /\ events \in [Slots -> Event \cup {NoEvent}]
    /\ head \in Slots
    /\ count \in 0..Capacity

Filled ==
    /\ count < Capacity => head = count
    /\ \A i \in Slots : events[i] = NoEvent <=> i >= count

IInv == TypeOK /\ Filled

(* No reader ever sees an array slot that was not written: Events,          *)
(* EventsInWindow and Aggregate all walk the slots of Slot(0 .. count-1)    *)
(* (buffer.go:53-102).                                                      *)
NoHole == \A i \in 0..(count - 1) : events[Slot(i)] \in Event

(* Events() is the newest events in the order they were added, whatever     *)
(* position the ring is in (buffer.go:43-62).                               *)
Abstract == INSTANCE Recent WITH recent <- Events

ImplementsRecent == Abstract!Spec

=============================================================================
