----------------------------- MODULE MCBooking -----------------------------
(* Instances of Booking for TLC: one customer, one provider, and bookings  *)
(* that are all created in the run, or were all matched before.            *)
EXTENDS Booking, TLC

CONSTANTS c1, c2, c3, c4, b1, b2, customer, printer, p1, f1, f2

MCOwner == [b \in Bookings |-> customer]
MCAccount == [p \in Providers |-> printer]

NoneEarlier == <<>>
BothEarlier == [b \in {b1, b2} |-> p1]

Symmetry == Permutations(Calls) \cup Permutations(Files)
=============================================================================
