-------------------------------- MODULE Recent -------------------------------
(***************************************************************************)
(* What monitor.Buffer promises its readers: the newest events, oldest     *)
(* first, at most Capacity of them.                                        *)
(***************************************************************************)
EXTENDS Naturals, Sequences

CONSTANTS
    Capacity,               \* how many events are kept
    Event                   \* what an event can be

VARIABLE recent             \* the events kept

(* The newest Capacity elements of s.                                       *)
Newest(s) == IF Len(s) <= Capacity THEN s ELSE Tail(s)

Init == recent = <<>>

Add(e) == recent' = Newest(Append(recent, e))

Next == \E e \in Event : Add(e)

Spec == Init /\ [][Next]_recent

=============================================================================
