------------------------------- MODULE MCSeat -------------------------------
(***************************************************************************)
(* An instance of SeatSession: one booking from before its door window to  *)
(* its end and beyond; one with a fault still to come; and two that follow *)
(* each other, the first playing on to its end, or about to begin and be   *)
(* extended over the second.                                               *)
(***************************************************************************)
EXTENDS SeatSession

CONSTANTS b1, b2

Slot(from, to) == [startAt |-> from, endAt |-> to]
NoSlot == Slot(0, 0)

Plan(from, first, second, spent) ==
    [now |-> from, faults |-> spent,
     slots |-> [b \in Bookings |-> IF b = b1 THEN first ELSE second]]

MCPlans ==
    {Plan(0, Slot(1, 2), NoSlot, MaxFaults), Plan(4, Slot(5, 6), NoSlot, 0),
     Plan(6, Slot(5, 7), Slot(7, 8), MaxFaults), Plan(7, Slot(7, 8), Slot(8, 9), MaxFaults)}
=============================================================================
