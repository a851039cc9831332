----------------------------- MODULE MCMatching -----------------------------
(* Instances of Matching for TLC: the second provider is the better one for *)
(* the first booking, and both match the others alike.                      *)
EXTENDS Matching, TLC

CONSTANTS m1, m2, m3, b1, b2, b3, p1, p2

MCAddressMatch ==
    [b \in Bookings |-> [p \in Providers |->
        CASE b = b1 /\ p = p1 -> {"country", "state"}
          [] b = b1 /\ p = p2 -> AddressParts \ {"city"}
          [] b = b2 /\ p = p1 -> AddressParts
          [] OTHER -> {"country"}]]

Symmetry == Permutations(Matches)
=============================================================================
