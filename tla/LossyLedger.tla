---------------------------- MODULE LossyLedger ----------------------------
(***************************************************************************)
(* What the wallets of the service really promise.                         *)
(*                                                                         *)
(* A wallet row is two balances, pending (paid for bookings not yet        *)
(* delivered) and funded (deposits).  A credit does not add to the balance *)
(* as it is now: it adds to the balance as it was in SOME committed        *)
(* version of the row, and leaves the other balance either as it is now    *)
(* or as it was in that version.  An update may therefore be lost, and the *)
(* balance may even fall, but it can never exceed what has been credited,  *)
(* and it always is a committed balance plus one credit.                   *)
(***************************************************************************)
EXTENDS Naturals

CONSTANTS
    Users,      \* the owners of wallets
    Columns,    \* the balances of a wallet
    Amounts     \* the amounts a transaction can carry

VARIABLES
    wallet,     \* wallet[u][k]: the committed balance
    credited,   \* credited[u][k]: the sum of all credits committed so far
    versions    \* versions[u]: every row that was ever committed

ledgerVars == <<wallet, credited, versions>>

Zero == [k \in Columns |-> 0]

Init == /\ wallet = [u \in Users |-> Zero]
        /\ credited = [u \in Users |-> Zero]
        /\ versions = [u \in Users |-> {Zero}]

Credit(u, k, amount) ==
    \E version \in versions[u] :
    \E stale \in SUBSET (Columns \ {k}) :
        /\ wallet' = [wallet EXCEPT ![u] =
                [j \in Columns |-> IF j = k THEN version[k] + amount
                                   ELSE IF j \in stale THEN version[j]
                                   ELSE wallet[u][j]]]
        /\ credited' = [credited EXCEPT ![u][k] = @ + amount]
        /\ versions' = [versions EXCEPT ![u] = @ \cup {wallet'[u]}]

Next == \E u \in Users, k \in Columns, amount \in Amounts : Credit(u, k, amount)

Spec == Init /\ [][Next]_ledgerVars
=============================================================================
