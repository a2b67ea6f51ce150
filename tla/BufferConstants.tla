--------------------------- MODULE BufferConstants ---------------------------
(***************************************************************************)
(* The parameters of monitor.Buffer, for the ring itself and for the panel *)
(* that has one.                                                           *)
(***************************************************************************)
EXTENDS Naturals

CONSTANTS
    Capacity,               \* b.capacity: NewBuffer replaces 0 and less
    Event,                  \* what an event can be
    NoEvent                 \* the zero value the array starts with

ASSUME BufferAssumption ==
    /\ Capacity \in Nat \ {0}
    /\ NoEvent \notin Event

=============================================================================
