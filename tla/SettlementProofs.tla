-------------------------- MODULE SettlementProofs --------------------------
(***************************************************************************)
(* Proofs about Settlement, for any number of calls, transactions, users,  *)
(* providers, amounts and faults.                                          *)
(***************************************************************************)
EXTENDS Settlement, TLAPS

-----------------------------------------------------------------------------
(* What save does to a row, and what the helpers return.                   *)

\* An UPDATE never adds a column to a row and never takes one away.
LEMMA OverlayDomain ==
    ASSUME NEW row, NEW changes
    PROVE  DOMAIN Overlay(row, changes) = DOMAIN row
  BY DEF Overlay

\* save names only columns the object carries, and only with the object's values.
LEMMA ChangedDomain ==
    ASSUME NEW object, NEW row
    PROVE  /\ DOMAIN Changed(object, row) \subseteq DOMAIN object
           /\ \A k \in DOMAIN Changed(object, row) : Changed(object, row)[k] = object[k]
  BY DEF Changed

LEMMA NoChangeDomain == DOMAIN NoChange = {}
  BY DEF NoChange

LEMMA SettledDomain ==
    ASSUME NEW object, NEW s
    PROVE  DOMAIN Settled(object, s) = DOMAIN object
  BY DEF Settled

LEMMA CreditedColumnType ==
    ASSUME NEW t \in Transactions
    PROVE  CreditedColumn(t) \in Column
  BY DEF CreditedColumn, Column

\* The program points AfterFind leads to.
LEMMA AfterFindType ==
    ASSUME NEW t \in Transactions, NEW s
    PROVE  /\ AfterFind(t, s) \in {"findWallet", "reloadBooking", "reloadTrx"}
           /\ AfterFind(t, s) = "findWallet" <=> Settles(t, s)
  BY DEF AfterFind

-----------------------------------------------------------------------------
(* Type correctness.                                                       *)

LEMMA InitTyped == Init => TypeOK
  <1> SUFFICES ASSUME Init PROVE TypeOK
    OBVIOUS
  <1> USE SettlementAssumption DEF Init
  <1>1. RowsTyped
    BY DEF RowsTyped, PaymentStatuses, NewBooking, BookingColumns, EmptyWallet
  <1>2. NoRequest \in [trx : Transactions, paymentStatus : PaymentStatuses, awaited : BOOLEAN]
    BY DEF NoRequest, PaymentStatuses
  <1>3. CallsTyped
    BY <1>2 DEF CallsTyped
  <1>4. ObjectsTyped
    BY NoChangeDomain DEF ObjectsTyped, EmptyWallet
  <1>5. HistoryTyped
    BY DEF HistoryTyped, EmptyWallet
  <1> QED
    BY <1>1, <1>3, <1>4, <1>5 DEF TypeOK

\* The transaction and the user of a call.
LEMMA CallTypes ==
    ASSUME TypeOK, NEW c \in Calls
    PROVE  /\ TrxOf(c) \in Transactions
           /\ UserOf(c) \in Users
           /\ request[c].paymentStatus \in PaymentStatuses
           /\ AmountOf[TrxOf(c)] \in Nat
           /\ CreditedColumn(TrxOf(c)) \in Column
  BY SettlementAssumption, CreditedColumnType DEF TypeOK, CallsTyped, TrxOf, UserOf

LEMMA ArriveTyped ==
    ASSUME TypeOK,
           NEW c \in Calls, NEW t \in Transactions, NEW s \in Requests, NEW a \in Awaited,
           Arrive(c, t, s, a)
    PROVE  /\ RowsTyped'
           /\ HistoryTyped'
           /\ request' \in [Calls -> [trx : Transactions, paymentStatus : PaymentStatuses,
                                      awaited : BOOLEAN]]
  <1> USE DEF Arrive, TypeOK, rows
  <1>1. RowsTyped'
    BY DEF RowsTyped, PaymentStatuses
  <1>2. HistoryTyped'
    BY DEF HistoryTyped
  <1>3. [trx |-> t, paymentStatus |-> s, awaited |-> a]
            \in [trx : Transactions, paymentStatus : PaymentStatuses, awaited : BOOLEAN]
    BY SettlementAssumption DEF PaymentStatuses
  <1> QED
    BY <1>1, <1>2, <1>3 DEF CallsTyped

LEMMA ForgetTyped ==
    ASSUME TypeOK, NEW c \in Calls, Forget(c), UNCHANGED matchSet
    PROVE  ObjectsTyped' /\ held' \in [Calls -> SUBSET {"wallet", "booking", "trx"}]
  <1> USE DEF Forget, TypeOK
  <1>1. EmptyWallet \in [Column -> Nat]
    BY DEF EmptyWallet
  <1> QED
    BY <1>1, NoChangeDomain DEF ObjectsTyped, CallsTyped

LEMMA ForgetMatchTyped ==
    ASSUME TypeOK, NEW c \in Calls, ForgetMatch(c),
           UNCHANGED <<userWallet, walletSet, bookingSet>>
    PROVE  ObjectsTyped'
  BY NoChangeDomain DEF ForgetMatch, TypeOK, ObjectsTyped

\* The program points of a call and of a match, named for the proofs.
CallPoints == InTransaction \cup {"idle", "failed", "done", "lost"}

LEMMA StepTyped ==
    ASSUME NEW c \in Calls, NEW from, NEW to \in CallPoints,
           pc \in [Calls -> CallPoints], Step(c, from, to)
    PROVE  pc' \in [Calls -> CallPoints] /\ pc'[c] = to
  BY DEF Step

LEMMA MatchStepTyped ==
    ASSUME NEW c \in Calls, NEW from,
           NEW to \in MatchInTransaction \cup {"none", "failed", "done", "lost"},
           match \in [Calls -> MatchInTransaction \cup {"none", "failed", "done", "lost"}],
           MatchStep(c, from, to)
    PROVE  match' \in [Calls -> MatchInTransaction \cup {"none", "failed", "done", "lost"}]
  BY DEF MatchStep

\* Every step keeps the types: one step of the proof per action.
LEMMA NextTyped == TypeOK /\ [Next]_vars => TypeOK'
  <1> SUFFICES ASSUME TypeOK, [Next]_vars PROVE TypeOK'
    OBVIOUS
  <1> USE SettlementAssumption DEF TypeOK
  <1>0. pc \in [Calls -> CallPoints]
    BY DEF CallsTyped, CallPoints
  <1>1. ASSUME NEW c \in Calls, NEW t \in Transactions, NEW s \in Requests, NEW a \in Awaited,
               Refuse(c, t, s, a)
        PROVE  TypeOK'
    <2>1. Arrive(c, t, s, a)
      BY <1>1 DEF Refuse
    <2>2. CallsTyped'
      BY <1>1, <2>1, ArriveTyped DEF Refuse, Arrive, CallsTyped
    <2>3. ObjectsTyped'
      BY <1>1, <2>1 DEF Refuse, Arrive, ObjectsTyped
    <2> QED
      BY <2>1, <2>2, <2>3, ArriveTyped
  <1>2. ASSUME NEW c \in Calls, NEW t \in Transactions, NEW s \in Requests, NEW a \in Awaited,
               Begin(c, t, s, a)
        PROVE  TypeOK'
    <2>1. Arrive(c, t, s, a) /\ Enter(c, t, s)
      BY <1>2 DEF Begin
    <2>2. pc' = [pc EXCEPT ![c] = AfterFind(t, s)]
      BY <2>1 DEF Enter
    <2>3. AfterFind(t, s) \in CallPoints
      BY AfterFindType DEF CallPoints, InTransaction
    <2>4. CallsTyped'
      BY <2>1, <2>2, <2>3, ArriveTyped DEF Arrive, CallsTyped, CallPoints
    <2>5. DOMAIN Loaded(t) \subseteq BookingColumns
      BY DEF Loaded, BookingColumns
    <2>6. DOMAIN Settled(Loaded(t), s) \subseteq BookingColumns
      BY <2>5, SettledDomain
    <2>7. ObjectsTyped'
      BY <2>1, <2>5, <2>6, NoChangeDomain DEF Enter, Arrive, ObjectsTyped
    <2> QED
      BY <2>1, <2>4, <2>7, ArriveTyped
  <1>3. ASSUME NEW c \in Calls, FindWallet(c) PROVE TypeOK'
    <2>1. pc' \in [Calls -> CallPoints]
      BY <1>0, <1>3, StepTyped DEF FindWallet, CallPoints, InTransaction
    <2>2. CallsTyped'
      BY <1>3, <2>1 DEF FindWallet, CallsTyped, CallPoints
    <2>3. wallet[UserOf(c)] \in [Column -> Nat]
      BY CallTypes DEF RowsTyped
    <2>4. userWallet' \in [Calls -> [Column -> Nat]]
      <3>1. Raised(wallet[UserOf(c)], TrxOf(c)) \in [Column -> Nat]
        BY <2>3, CallTypes DEF Raised
      <3> QED
        BY <1>3, <3>1 DEF FindWallet, ObjectsTyped
    <2>5. ObjectsTyped'
      BY <1>3, <2>4 DEF FindWallet, ObjectsTyped
    <2>6. RowsTyped'
      BY <1>3 DEF FindWallet, RowsTyped, rows, PaymentStatuses
    <2>7. HistoryTyped'
      BY <1>3, CallTypes DEF FindWallet, HistoryTyped
    <2> QED
      BY <2>2, <2>5, <2>6, <2>7
  <1>4. ASSUME NEW c \in Calls, ReloadWallet(c) PROVE TypeOK'
    <2> DEFINE own == CreditedColumn(TrxOf(c))
               changed == DOMAIN Changed(userWallet[c], wallet[UserOf(c)]) \cup {own}
    <2>1. /\ Step(c, "reloadWallet", "updateWallet")
          /\ walletSet' = [walletSet EXCEPT ![c] = [k \in changed |-> userWallet[c][k]]]
          /\ UNCHANGED <<rows, request, userWallet, entity, bookingSet, held, match, matchSet,
                         faults, history>>
      BY <1>4 DEF ReloadWallet
    <2>2. pc' \in [Calls -> CallPoints]
      BY <1>0, <2>1, StepTyped DEF CallPoints, InTransaction
    <2>3. CallsTyped'
      BY <2>1, <2>2 DEF CallsTyped, CallPoints
    <2>4. userWallet[c] \in [Column -> Nat]
      BY DEF ObjectsTyped
    <2>5. changed \subseteq Column
      BY <2>4, ChangedDomain, CallTypes
    <2> HIDE DEF changed
    <2>6. ObjectsTyped'
      BY <2>1, <2>4, <2>5 DEF ObjectsTyped
    <2>7. RowsTyped' /\ HistoryTyped'
      BY <2>1 DEF RowsTyped, rows, HistoryTyped, history, PaymentStatuses
    <2> QED
      BY <2>3, <2>6, <2>7
  <1>5. ASSUME NEW c \in Calls, UpdateWallet(c) PROVE TypeOK'
    <2>1. pc' \in [Calls -> CallPoints]
      BY <1>0, <1>5, StepTyped DEF UpdateWallet, CallPoints, InTransaction
    <2>2. CallsTyped'
      BY <1>5, <2>1 DEF UpdateWallet, Lock, CallsTyped, CallPoints, MatchInTransaction
    <2>3. ObjectsTyped'
      BY <1>5, SettledDomain DEF UpdateWallet, ObjectsTyped
    <2>4. RowsTyped' /\ HistoryTyped'
      BY <1>5 DEF UpdateWallet, RowsTyped, rows, HistoryTyped, history, PaymentStatuses
    <2> QED
      BY <2>2, <2>3, <2>4
  <1>6. ASSUME NEW c \in Calls, ReloadBooking(c) PROVE TypeOK'
    <2> DEFINE changes == Changed(entity[c], booking[TrxOf(c)])
    <2>1. /\ Step(c, "reloadBooking",
                  IF changes = NoChange THEN "reloadTrx" ELSE "updateBooking")
          /\ bookingSet' = [bookingSet EXCEPT ![c] = changes]
          /\ UNCHANGED <<rows, request, userWallet, entity, walletSet, held, match, matchSet,
                         faults, history>>
      BY <1>6 DEF ReloadBooking
    <2>2. DOMAIN changes \subseteq BookingColumns
      BY ChangedDomain DEF ObjectsTyped
    <2> HIDE DEF changes
    <2>3. pc' \in [Calls -> CallPoints]
      BY <1>0, <2>1, StepTyped DEF CallPoints, InTransaction
    <2>4. CallsTyped'
      BY <2>1, <2>3 DEF CallsTyped, CallPoints
    <2>5. ObjectsTyped'
      BY <2>1, <2>2 DEF ObjectsTyped
    <2>6. RowsTyped' /\ HistoryTyped'
      BY <2>1 DEF RowsTyped, rows, HistoryTyped, history, PaymentStatuses
    <2> QED
      BY <2>4, <2>5, <2>6
  <1>7. ASSUME NEW c \in Calls, UpdateBooking(c) PROVE TypeOK'
    <2>1. pc' \in [Calls -> CallPoints]
      BY <1>0, <1>7, StepTyped DEF UpdateBooking, CallPoints, InTransaction
    <2>2. CallsTyped'
      BY <1>7, <2>1 DEF UpdateBooking, Lock, CallsTyped, CallPoints
    <2>3. ObjectsTyped' /\ RowsTyped' /\ HistoryTyped'
      BY <1>7 DEF UpdateBooking, ObjectsTyped, RowsTyped, rows, HistoryTyped, history,
                  PaymentStatuses
    <2> QED
      BY <2>2, <2>3
  <1>8. ASSUME NEW c \in Calls, ReloadTrx(c) PROVE TypeOK'
    <2>1. pc' \in [Calls -> CallPoints]
      BY <1>0, <1>8, StepTyped DEF ReloadTrx, CallPoints, InTransaction
    <2>2. CallsTyped'
      BY <1>8, <2>1 DEF ReloadTrx, CallsTyped, CallPoints
    <2>3. ObjectsTyped' /\ RowsTyped' /\ HistoryTyped'
      BY <1>8 DEF ReloadTrx, ObjectsTyped, RowsTyped, rows, HistoryTyped, history,
                  PaymentStatuses
    <2> QED
      BY <2>2, <2>3
  <1>9. ASSUME NEW c \in Calls, UpdateTrx(c) PROVE TypeOK'
    <2>1. pc' \in [Calls -> CallPoints]
      BY <1>0, <1>9, StepTyped DEF UpdateTrx, CallPoints, InTransaction
    <2>2. CallsTyped'
      BY <1>9, <2>1 DEF UpdateTrx, Lock, CallsTyped, CallPoints
    <2>3. ObjectsTyped' /\ RowsTyped' /\ HistoryTyped'
      BY <1>9 DEF UpdateTrx, ObjectsTyped, RowsTyped, rows, HistoryTyped, history,
                  PaymentStatuses
    <2> QED
      BY <2>2, <2>3
  <1>10. ASSUME NEW c \in Calls, Commit(c) PROVE TypeOK'
    <2> USE CallTypes
    <2>1. Step(c, "commit", "done") /\ CommitRows(c) /\ RecordCommit(c) /\ Forget(c)
      BY <1>10 DEF Commit
    <2>2. ObjectsTyped' /\ held' \in [Calls -> SUBSET {"wallet", "booking", "trx"}]
      BY <1>10, <2>1, ForgetTyped DEF Commit
    <2>3. pc' \in [Calls -> CallPoints]
      BY <1>0, <2>1, StepTyped DEF CallPoints
    <2>4. CallsTyped'
      BY <1>10, <2>2, <2>3 DEF Commit, CallsTyped, CallPoints
    <2>5. Overlay(wallet[UserOf(c)], walletSet[c]) \in [Column -> Nat]
      BY DEF Overlay, RowsTyped, ObjectsTyped
    <2>6. wallet' \in [Users -> [Column -> Nat]]
      BY <2>1, <2>5 DEF CommitRows, RowsTyped
    <2>7. status' \in [Transactions -> PaymentStatuses]
      BY <2>1 DEF CommitRows, RowsTyped
    <2>8. /\ DOMAIN booking' = Transactions
          /\ \A t \in Transactions : DOMAIN booking'[t] = BookingColumns
      BY <2>1, OverlayDomain DEF CommitRows, RowsTyped
    <2>9. RowsTyped'
      BY <2>6, <2>7, <2>8 DEF RowsTyped, PaymentStatuses
    <2>10. credits' \in [Transactions -> Nat] /\ credited' \in [Users -> [Column -> Nat]]
      BY <2>1 DEF RecordCommit, HistoryTyped
    <2>11. versions' \in [Users -> SUBSET [Column -> Nat]]
      BY <2>1, <2>6 DEF RecordCommit, HistoryTyped
    <2>12. HistoryTyped'
      BY <1>10, <2>1, <2>10, <2>11 DEF Commit, RecordCommit, HistoryTyped
    <2> QED
      BY <2>4, <2>2, <2>9, <2>12
  <1>11. ASSUME NEW c \in Calls, AnswerError(c) PROVE TypeOK'
    <2>1. pc' \in [Calls -> CallPoints]
      BY <1>0, <1>11, StepTyped DEF AnswerError, CallPoints
    <2>2. CallsTyped'
      BY <1>11, <2>1 DEF AnswerError, CallsTyped, CallPoints
    <2>3. ObjectsTyped' /\ RowsTyped' /\ HistoryTyped'
      BY <1>11 DEF AnswerError, ObjectsTyped, RowsTyped, rows, HistoryTyped, history,
                   PaymentStatuses
    <2> QED
      BY <2>2, <2>3
  <1>12. ASSUME NEW c \in Calls, Pick(c) PROVE TypeOK'
    <2>1. CallsTyped'
      BY <1>12, MatchStepTyped DEF Pick, CallsTyped, MatchInTransaction
    <2>2. ObjectsTyped'
      BY <1>12 DEF Pick, ObjectsTyped, BookingColumns
    <2>3. RowsTyped' /\ HistoryTyped'
      BY <1>12 DEF Pick, RowsTyped, rows, HistoryTyped, history, PaymentStatuses
    <2> QED
      BY <2>1, <2>2, <2>3
  <1>13. ASSUME NEW c \in Calls, MatchReload(c) PROVE TypeOK'
    <2>1. CallsTyped'
      BY <1>13, MatchStepTyped DEF MatchReload, CallsTyped, MatchInTransaction
    <2>2. DOMAIN Changed(entity[c], booking[TrxOf(c)]) \subseteq BookingColumns
      BY ChangedDomain DEF ObjectsTyped
    <2>3. ObjectsTyped'
      BY <1>13, <2>2 DEF MatchReload, ObjectsTyped
    <2>4. RowsTyped' /\ HistoryTyped'
      BY <1>13 DEF MatchReload, RowsTyped, rows, HistoryTyped, history, PaymentStatuses
    <2> QED
      BY <2>1, <2>3, <2>4
  <1>14. ASSUME NEW c \in Calls, MatchUpdate(c) PROVE TypeOK'
    <2>1. CallsTyped'
      BY <1>14, MatchStepTyped DEF MatchUpdate, CallsTyped, MatchInTransaction
    <2>2. ObjectsTyped' /\ RowsTyped' /\ HistoryTyped'
      BY <1>14 DEF MatchUpdate, ObjectsTyped, RowsTyped, rows, HistoryTyped, history,
                   PaymentStatuses
    <2> QED
      BY <2>1, <2>2
  <1>15. ASSUME NEW c \in Calls, MatchCommit(c) PROVE TypeOK'
    <2>1. CallsTyped'
      BY <1>15, MatchStepTyped DEF MatchCommit, CallsTyped
    <2>2. ObjectsTyped'
      BY <1>15, ForgetMatchTyped DEF MatchCommit
    <2>3. RowsTyped'
      <3>1. booking' = [booking EXCEPT ![TrxOf(c)] = Overlay(booking[TrxOf(c)], matchSet[c])]
        BY <1>15 DEF MatchCommit
      <3>2. \A t \in Transactions : DOMAIN booking'[t] = DOMAIN booking[t]
        BY <3>1, OverlayDomain DEF RowsTyped
      <3> QED
        BY <1>15, <3>1, <3>2 DEF MatchCommit, RowsTyped, PaymentStatuses
    <2>4. HistoryTyped'
      BY <1>15 DEF MatchCommit, HistoryTyped, history
    <2> QED
      BY <2>1, <2>2, <2>3, <2>4
  <1>16. ASSUME NEW c \in Calls, DatabaseError(c) PROVE TypeOK'
    <2>1. Forget(c) /\ UNCHANGED matchSet
      BY <1>16 DEF DatabaseError
    <2>2. CallsTyped'
      BY <1>16, <2>1, ForgetTyped DEF DatabaseError, CallsTyped
    <2>3. RowsTyped'
      BY <1>16 DEF DatabaseError, RowsTyped, rows, PaymentStatuses
    <2>4. HistoryTyped'
      BY <1>16, CallTypes DEF DatabaseError, HistoryTyped
    <2> QED
      BY <2>1, <2>2, <2>3, <2>4, ForgetTyped
  <1>17. ASSUME NEW c \in Calls, MatchError(c) PROVE TypeOK'
    <2>1. CallsTyped'
      BY <1>17 DEF MatchError, CallsTyped
    <2>2. ObjectsTyped'
      BY <1>17, ForgetMatchTyped DEF MatchError
    <2>3. RowsTyped'
      BY <1>17 DEF MatchError, RowsTyped, rows, PaymentStatuses
    <2>4. HistoryTyped'
      BY <1>17, CallTypes DEF MatchError, HistoryTyped
    <2> QED
      BY <2>1, <2>2, <2>3, <2>4
  <1>18. ASSUME Crash PROVE TypeOK'
    <2>1. CallsTyped'
      BY <1>18 DEF Crash, CallsTyped
    <2>2. EmptyWallet \in [Column -> Nat]
      BY DEF EmptyWallet
    <2>3. ObjectsTyped'
      BY <1>18, <2>2, NoChangeDomain DEF Crash, ObjectsTyped
    <2>4. RowsTyped'
      BY <1>18 DEF Crash, RowsTyped, rows, PaymentStatuses
    <2>5. \A c \in Calls : TrxOf(c) \in Transactions
      BY CallTypes
    <2>6. HistoryTyped'
      BY <1>18, <2>5 DEF Crash, HistoryTyped
    <2> QED
      BY <2>1, <2>3, <2>4, <2>6
  <1>19. CASE UNCHANGED vars
    BY <1>19 DEF vars, rows, memory, history, RowsTyped, CallsTyped, ObjectsTyped, HistoryTyped,
                 PaymentStatuses
  <1> QED
    BY <1>1, <1>2, <1>3, <1>4, <1>5, <1>6, <1>7, <1>8, <1>9, <1>10, <1>11, <1>12, <1>13, <1>14,
       <1>15, <1>16, <1>17, <1>18, <1>19 DEF Next, CallStep, MatchTask

\* TypeOK holds in every reachable state.
THEOREM TypeCorrect == Spec => []TypeOK
  BY InitTyped, NextTyped, PTL DEF Spec

-----------------------------------------------------------------------------
(* Only a call that settles a payment looks at a wallet.                   *)

WalletCallsSettle ==
    \A c \in Calls : pc[c] \in {"findWallet", "reloadWallet", "updateWallet"} =>
        Settles(TrxOf(c), request[c].paymentStatus)

\* The branch a call takes is decided once, when it begins.
LEMMA WalletCallsSettleInductive ==
    /\ Init => WalletCallsSettle
    /\ TypeOK /\ WalletCallsSettle /\ [Next]_vars => WalletCallsSettle'
  <1>1. Init => WalletCallsSettle
    BY DEF Init, WalletCallsSettle
  <1>2. ASSUME TypeOK, WalletCallsSettle, [Next]_vars
        PROVE  WalletCallsSettle'
    <2>a. DOMAIN pc = Calls /\ DOMAIN request = Calls
      BY <1>2 DEF TypeOK, CallsTyped
    <2> USE <1>2 DEF WalletCallsSettle, TrxOf
    <2>1. ASSUME NEW c \in Calls, NEW t \in Transactions, NEW s \in Requests, NEW a \in Awaited,
                 Refuse(c, t, s, a)
          PROVE  WalletCallsSettle'
      BY <2>1, <2>a DEF Refuse, Arrive
    <2>2. ASSUME NEW c \in Calls, NEW t \in Transactions, NEW s \in Requests, NEW a \in Awaited,
                 Begin(c, t, s, a)
          PROVE  WalletCallsSettle'
      <3>1. /\ pc' = [pc EXCEPT ![c] = AfterFind(t, s)]
            /\ request' = [request EXCEPT ![c] =
                    [trx |-> t, paymentStatus |-> s, awaited |-> a]]
        BY <2>2 DEF Begin, Enter, Arrive
      <3> QED
        BY <2>a, <3>1, AfterFindType
    <2>3. ASSUME NEW c \in Calls, CallStep(c) PROVE WalletCallsSettle'
      BY <2>3, <2>a DEF CallStep, FindWallet, ReloadWallet, UpdateWallet, ReloadBooking,
                        UpdateBooking, ReloadTrx, UpdateTrx, Commit, AnswerError, Step
    <2>4. ASSUME NEW c \in Calls, MatchTask(c) \/ DatabaseError(c) \/ MatchError(c)
          PROVE  WalletCallsSettle'
      BY <2>4, <2>a DEF MatchTask, Pick, MatchReload, MatchUpdate, MatchCommit,
                        DatabaseError, MatchError
    <2>5. CASE Crash
      BY <2>5, <2>a DEF Crash
    <2>6. CASE UNCHANGED vars
      BY <2>6 DEF vars, memory
    <2> QED
      BY <1>2, <2>1, <2>2, <2>3, <2>4, <2>5, <2>6 DEF Next
  <1> QED
    BY <1>1, <1>2

-----------------------------------------------------------------------------
(* Balances are backed by credits, and exact for users never contended.    *)

Money == BalanceBacked /\ CopiesBacked /\ ExactWhenIsolated /\ CopiesExact

\* What most steps leave alone, as seen from call d.
Framed(d) ==
    /\ HoldsWalletCopy(d)' =>
        /\ HoldsWalletCopy(d)
        /\ request'[d] = request[d]
        /\ userWallet'[d] = userWallet[d]
        /\ walletSet'[d] = walletSet[d]
        /\ pc'[d] = "reloadWallet" <=> pc[d] = "reloadWallet"
        /\ pc'[d] = "updateWallet" <=> pc[d] = "updateWallet"
        /\ "wallet" \in held[d] => "wallet" \in held'[d]
    /\ "wallet" \in held'[d] => "wallet" \in held[d] /\ HoldsWalletCopy(d)'

\* A step that frames every call keeps all four invariants.
LEMMA FrameMoney ==
    ASSUME Money, \A d \in Calls : Framed(d),
           wallet' = wallet, credited' = credited, contended' = contended
    PROVE  Money'
  <1>1. BalanceBacked' /\ ExactWhenIsolated'
    BY DEF Money, BalanceBacked, ExactWhenIsolated
  <1>2. ASSUME NEW d \in Calls, HoldsWalletCopy(d)'
        PROVE  /\ HoldsWalletCopy(d)
               /\ TrxOf(d)' = TrxOf(d)
               /\ UserOf(d)' = UserOf(d)
               /\ \A k \in Column : CopyBound(d, k)' = CopyBound(d, k)
    BY <1>2 DEF Framed, TrxOf, UserOf, CopyBound, CreditedColumn
  <1>3. CopiesBacked'
    <2> SUFFICES ASSUME NEW d \in Calls
                 PROVE  /\ HoldsWalletCopy(d)' =>
                            \A k \in Column : userWallet'[d][k] <= CopyBound(d, k)'
                        /\ HoldsWalletCopy(d)' /\ pc'[d] # "reloadWallet" =>
                            \A k \in DOMAIN walletSet'[d] : walletSet'[d][k] <= CopyBound(d, k)'
                        /\ "wallet" \in held'[d] =>
                            HoldsWalletCopy(d)' /\ pc'[d] # "reloadWallet"
      BY DEF CopiesBacked
    <2>1. Framed(d)
      OBVIOUS
    <2>2. CASE ~HoldsWalletCopy(d)'
      BY <2>1, <2>2 DEF Framed
    <2>3. CASE HoldsWalletCopy(d)'
      <3>1. /\ HoldsWalletCopy(d)
            /\ \A k \in Column : userWallet[d][k] <= CopyBound(d, k)
            /\ pc[d] # "reloadWallet" =>
                \A k \in DOMAIN walletSet[d] : walletSet[d][k] <= CopyBound(d, k)
            /\ "wallet" \in held[d] => pc[d] # "reloadWallet"
        BY <1>2, <2>3 DEF Money, CopiesBacked
      <3>2. \A k : CopyBound(d, k)' = CopyBound(d, k)
        BY <2>1, <2>3 DEF Framed, TrxOf, UserOf, CopyBound, CreditedColumn
      <3> QED
        BY <2>1, <2>3, <3>1, <3>2 DEF Framed
    <2> QED
      BY <2>2, <2>3
  <1>4. CopiesExact'
    <2>1. ASSUME NEW d \in Calls, HoldsWalletCopy(d)'
          PROVE  /\ pc'[d] \notin {"reloadWallet", "updateWallet"} => "wallet" \in held'[d]
                 /\ pc'[d] # "reloadWallet" =>
                    /\ CreditedColumn(TrxOf(d))' \in DOMAIN walletSet'[d]
                    /\ \A k \in DOMAIN walletSet'[d] : walletSet'[d][k] = userWallet'[d][k]
                 /\ UserOf(d)' \notin contended' =>
                    \A k \in Column : userWallet'[d][k] = wallet'[UserOf(d)'][k] +
                        (IF k = CreditedColumn(TrxOf(d))' THEN AmountOf[TrxOf(d)'] ELSE 0)
      <3>1. Framed(d) /\ HoldsWalletCopy(d)
        BY <1>2, <2>1
      <3>2. CreditedColumn(TrxOf(d))' = CreditedColumn(TrxOf(d))
        BY <1>2, <2>1 DEF CreditedColumn
      <3>3. /\ pc[d] \notin {"reloadWallet", "updateWallet"} => "wallet" \in held[d]
            /\ pc[d] # "reloadWallet" =>
                /\ CreditedColumn(TrxOf(d)) \in DOMAIN walletSet[d]
                /\ \A k \in DOMAIN walletSet[d] : walletSet[d][k] = userWallet[d][k]
            /\ UserOf(d) \notin contended =>
                \A k \in Column : userWallet[d][k] = wallet[UserOf(d)][k] +
                    (IF k = CreditedColumn(TrxOf(d)) THEN AmountOf[TrxOf(d)] ELSE 0)
        BY <3>1 DEF Money, CopiesExact
      <3> QED
        BY <1>2, <2>1, <3>1, <3>2, <3>3 DEF Framed
    <2>2. ASSUME NEW d \in Calls, NEW e \in Calls,
                 HoldsWalletCopy(d)', HoldsWalletCopy(e)', UserOf(d)' = UserOf(e)',
                 UserOf(d)' \notin contended'
          PROVE  d = e
      BY <1>2, <2>2 DEF Money, CopiesExact
    <2> QED
      BY <2>1, <2>2 DEF CopiesExact
  <1> QED
    BY <1>1, <1>3, <1>4 DEF Money

LEMMA InitMoney == Init => Money
  <1> SUFFICES ASSUME Init PROVE Money
    OBVIOUS
  <1>1. BalanceBacked /\ ExactWhenIsolated
    BY DEF Init, BalanceBacked, ExactWhenIsolated, EmptyWallet
  <1>2. \A c \in Calls : ~HoldsWalletCopy(c) /\ "wallet" \notin held[c]
    BY DEF Init, HoldsWalletCopy, HasWallet
  <1> QED
    BY <1>1, <1>2 DEF Money, CopiesBacked, CopiesExact

\* A call that has just read the wallet carries it raised by its own amount, and is
\* alone with it unless the user is contended.
LEMMA FindWalletMoney ==
    ASSUME TypeOK, Money, NEW c \in Calls, FindWallet(c)
    PROVE  Money'
  <1> DEFINE u == UserOf(c)
             t == TrxOf(c)
  <1>1. /\ pc[c] = "findWallet"
        /\ pc' = [pc EXCEPT ![c] = "reloadWallet"]
        /\ userWallet' = [userWallet EXCEPT ![c] = Raised(wallet[u], t)]
        /\ wallet' = wallet /\ credited' = credited /\ request' = request
        /\ walletSet' = walletSet /\ held' = held
    BY DEF FindWallet, Step, rows
  <1>2. /\ pc'[c] = "reloadWallet" /\ userWallet'[c] = Raised(wallet[u], t)
        /\ \A d \in Calls \ {c} : pc'[d] = pc[d] /\ userWallet'[d] = userWallet[d]
    BY <1>1 DEF TypeOK, CallsTyped, ObjectsTyped
  <1>3. \A d \in Calls : TrxOf(d)' = TrxOf(d) /\ UserOf(d)' = UserOf(d)
    BY <1>1 DEF TrxOf, UserOf
  <1>4. \A d \in Calls : \A k \in Column : CopyBound(d, k)' = CopyBound(d, k)
    BY <1>1 DEF CopyBound, TrxOf, UserOf, CreditedColumn
  <1>5. /\ contended \subseteq contended'
        /\ \A d \in Calls \ {c} : HoldsWalletCopy(d) /\ UserOf(d) = u => u \in contended'
    BY DEF FindWallet
  <1>6. \A d \in Calls \ {c} : HoldsWalletCopy(d)' <=> HoldsWalletCopy(d)
    BY <1>1, <1>2 DEF HoldsWalletCopy, TrxOf
  <1>7. "wallet" \notin held[c]
    BY <1>1 DEF Money, CopiesBacked, HoldsWalletCopy, HasWallet
  <1>8. \A k \in Column : userWallet'[c][k] =
            wallet[u][k] + (IF k = CreditedColumn(t) THEN AmountOf[t] ELSE 0)
    BY <1>2, CallTypes DEF Raised, TypeOK, RowsTyped
  <1>9. BalanceBacked' /\ ExactWhenIsolated'
    BY <1>1, <1>5 DEF Money, BalanceBacked, ExactWhenIsolated
  <1>10. CopiesBacked'
    <2>1. \A k \in Column : userWallet'[c][k] <= CopyBound(c, k)
      <3> SUFFICES ASSUME NEW k \in Column PROVE userWallet'[c][k] <= CopyBound(c, k)
        OBVIOUS
      <3>1. wallet[u][k] \in Nat /\ credited[u][k] \in Nat /\ wallet[u][k] <= credited[u][k]
        BY CallTypes DEF TypeOK, RowsTyped, HistoryTyped, Money, BalanceBacked
      <3>2. (IF k = CreditedColumn(t) THEN AmountOf[t] ELSE 0) \in Nat
        BY CallTypes
      <3> QED
        BY <1>8, <3>1, <3>2 DEF CopyBound
    <2>2. \A d \in Calls : DOMAIN walletSet[d] \subseteq Column
      BY DEF TypeOK, ObjectsTyped
    <2> QED
      BY <1>1, <1>2, <1>4, <1>6, <1>7, <2>1, <2>2 DEF CopiesBacked, Money
  <1>11. CopiesExact'
    <2>1. \A d \in Calls : CreditedColumn(TrxOf(d))' = CreditedColumn(TrxOf(d))
      BY <1>3 DEF CreditedColumn
    <2>2. ASSUME NEW d \in Calls, HoldsWalletCopy(d)', d # c
          PROVE  /\ HoldsWalletCopy(d)
                 /\ pc'[d] = pc[d] /\ userWallet'[d] = userWallet[d]
                 /\ UserOf(d)' \notin contended' => UserOf(d) \notin contended
      BY <1>2, <1>3, <1>5, <1>6, <2>2
    <2>3. ASSUME NEW d \in Calls, HoldsWalletCopy(d)'
          PROVE  /\ pc'[d] \notin {"reloadWallet", "updateWallet"} => "wallet" \in held'[d]
                 /\ pc'[d] # "reloadWallet" =>
                    /\ CreditedColumn(TrxOf(d))' \in DOMAIN walletSet'[d]
                    /\ \A k \in DOMAIN walletSet'[d] : walletSet'[d][k] = userWallet'[d][k]
                 /\ UserOf(d)' \notin contended' =>
                    \A k \in Column : userWallet'[d][k] = wallet'[UserOf(d)'][k] +
                        (IF k = CreditedColumn(TrxOf(d))' THEN AmountOf[TrxOf(d)'] ELSE 0)
      <3>1. CASE d = c
        BY <1>1, <1>2, <1>3, <1>8, <2>1, <3>1
      <3>2. CASE d # c
        BY <1>1, <1>3, <2>1, <2>2, <2>3, <3>2 DEF Money, CopiesExact
      <3> QED
        BY <3>1, <3>2
    <2>4. ASSUME NEW d \in Calls, NEW e \in Calls,
                 HoldsWalletCopy(d)', HoldsWalletCopy(e)', UserOf(d)' = UserOf(e)',
                 UserOf(d)' \notin contended'
          PROVE  d = e
      <3>1. CASE d # c /\ e # c
        BY <1>3, <1>5, <1>6, <2>4, <3>1 DEF Money, CopiesExact
      <3>2. CASE d = c \/ e = c
        BY <1>3, <1>5, <1>6, <2>4, <3>2
      <3> QED
        BY <3>1, <3>2
    <2> QED
      BY <2>3, <2>4 DEF CopiesExact
  <1> QED
    BY <1>9, <1>10, <1>11 DEF Money

\* The SET clause takes its values from the copy, the raised balance among them.
LEMMA ReloadWalletMoney ==
    ASSUME TypeOK, Money, NEW c \in Calls, ReloadWallet(c)
    PROVE  Money'
  <1> DEFINE own == CreditedColumn(TrxOf(c))
             changed == DOMAIN Changed(userWallet[c], wallet[UserOf(c)]) \cup {own}
  <1>1. /\ Step(c, "reloadWallet", "updateWallet")
        /\ walletSet' = [walletSet EXCEPT ![c] = [k \in changed |-> userWallet[c][k]]]
        /\ UNCHANGED <<rows, request, userWallet, entity, bookingSet, held, match, matchSet,
                       faults, history>>
    BY DEF ReloadWallet
  <1>2. changed \subseteq Column
    BY ChangedDomain, CallTypes DEF TypeOK, ObjectsTyped
  <1>3. own \in changed
    OBVIOUS
  <1> HIDE DEF changed
  <1>4. /\ pc[c] = "reloadWallet" /\ pc'[c] = "updateWallet"
        /\ walletSet'[c] = [k \in changed |-> userWallet[c][k]]
        /\ \A d \in Calls \ {c} : pc'[d] = pc[d] /\ walletSet'[d] = walletSet[d]
    BY <1>1 DEF Step, TypeOK, CallsTyped, ObjectsTyped
  <1>5. /\ wallet' = wallet /\ credited' = credited /\ contended' = contended
        /\ request' = request /\ userWallet' = userWallet /\ held' = held
    BY <1>1 DEF rows, history
  <1>6. \A d \in Calls : /\ TrxOf(d)' = TrxOf(d) /\ UserOf(d)' = UserOf(d)
                         /\ CreditedColumn(TrxOf(d))' = CreditedColumn(TrxOf(d))
                         /\ \A k \in Column : CopyBound(d, k)' = CopyBound(d, k)
    BY <1>5 DEF TrxOf, UserOf, CopyBound, CreditedColumn
  <1>7. \A d \in Calls : HoldsWalletCopy(d)' <=> HoldsWalletCopy(d)
    BY <1>4, <1>5 DEF HoldsWalletCopy, HasWallet, TrxOf
  <1>8. \A d \in Calls : DOMAIN walletSet'[d] \subseteq Column
    BY <1>2, <1>4 DEF TypeOK, ObjectsTyped
  <1>9. BalanceBacked' /\ ExactWhenIsolated'
    BY <1>5 DEF Money, BalanceBacked, ExactWhenIsolated
  <1>10. CopiesBacked'
    <2> SUFFICES ASSUME NEW d \in Calls
                 PROVE  /\ HoldsWalletCopy(d)' =>
                            \A k \in Column : userWallet'[d][k] <= CopyBound(d, k)'
                        /\ HoldsWalletCopy(d)' /\ pc'[d] # "reloadWallet" =>
                            \A k \in DOMAIN walletSet'[d] : walletSet'[d][k] <= CopyBound(d, k)'
                        /\ "wallet" \in held'[d] =>
                            HoldsWalletCopy(d)' /\ pc'[d] # "reloadWallet"
      BY DEF CopiesBacked
    <2>1. CASE d = c
      BY <1>2, <1>4, <1>5, <1>6, <1>7, <2>1 DEF Money, CopiesBacked
    <2>2. CASE d # c
      BY <1>4, <1>5, <1>6, <1>7, <1>8, <2>2 DEF Money, CopiesBacked
    <2> QED
      BY <2>1, <2>2
  <1>11. CopiesExact'
    <2>1. ASSUME NEW d \in Calls, HoldsWalletCopy(d)'
          PROVE  /\ pc'[d] \notin {"reloadWallet", "updateWallet"} => "wallet" \in held'[d]
                 /\ pc'[d] # "reloadWallet" =>
                    /\ CreditedColumn(TrxOf(d))' \in DOMAIN walletSet'[d]
                    /\ \A k \in DOMAIN walletSet'[d] : walletSet'[d][k] = userWallet'[d][k]
                 /\ UserOf(d)' \notin contended' =>
                    \A k \in Column : userWallet'[d][k] = wallet'[UserOf(d)'][k] +
                        (IF k = CreditedColumn(TrxOf(d))' THEN AmountOf[TrxOf(d)'] ELSE 0)
      <3>1. CASE d = c
        BY <1>3, <1>4, <1>5, <1>6, <1>7, <2>1, <3>1 DEF Money, CopiesExact
      <3>2. CASE d # c
        BY <1>4, <1>5, <1>6, <1>7, <2>1, <3>2 DEF Money, CopiesExact
      <3> QED
        BY <3>1, <3>2
    <2>2. ASSUME NEW d \in Calls, NEW e \in Calls,
                 HoldsWalletCopy(d)', HoldsWalletCopy(e)', UserOf(d)' = UserOf(e)',
                 UserOf(d)' \notin contended'
          PROVE  d = e
      BY <1>5, <1>6, <1>7, <2>2 DEF Money, CopiesExact
    <2> QED
      BY <2>1, <2>2 DEF CopiesExact
  <1> QED
    BY <1>9, <1>10, <1>11 DEF Money

\* From here on the call holds the row.
LEMMA UpdateWalletMoney ==
    ASSUME TypeOK, Money, WalletCallsSettle, NEW c \in Calls, UpdateWallet(c)
    PROVE  Money'
  <1>1. /\ pc[c] = "updateWallet" /\ pc'[c] \in {"reloadBooking", "reloadTrx"}
        /\ held' = [held EXCEPT ![c] = @ \cup {"wallet"}]
        /\ \A d \in Calls \ {c} : pc'[d] = pc[d]
    BY DEF UpdateWallet, Step, Lock, TypeOK, CallsTyped
  <1>2. /\ wallet' = wallet /\ credited' = credited /\ contended' = contended
        /\ request' = request /\ userWallet' = userWallet /\ walletSet' = walletSet
    BY DEF UpdateWallet, rows, history
  <1>3. /\ "wallet" \in held'[c]
        /\ \A d \in Calls \ {c} : held'[d] = held[d]
    BY <1>1 DEF TypeOK, CallsTyped
  <1>4. \A d \in Calls : /\ TrxOf(d)' = TrxOf(d) /\ UserOf(d)' = UserOf(d)
                         /\ CreditedColumn(TrxOf(d))' = CreditedColumn(TrxOf(d))
                         /\ \A k : CopyBound(d, k)' = CopyBound(d, k)
    BY <1>2 DEF TrxOf, UserOf, CopyBound, CreditedColumn
  <1>5. \A d \in Calls : HoldsWalletCopy(d)' <=> HoldsWalletCopy(d)
    BY <1>1, <1>2 DEF HoldsWalletCopy, HasWallet, TrxOf
  <1>6. HoldsWalletCopy(c)
    BY <1>1 DEF WalletCallsSettle, HoldsWalletCopy, HasWallet
  <1>7. BalanceBacked' /\ ExactWhenIsolated'
    BY <1>2 DEF Money, BalanceBacked, ExactWhenIsolated
  <1>8. CopiesBacked'
    BY <1>1, <1>2, <1>3, <1>4, <1>5, <1>6 DEF Money, CopiesBacked
  <1>9. CopiesExact'
    BY <1>1, <1>2, <1>3, <1>4, <1>5 DEF Money, CopiesExact
  <1> QED
    BY <1>7, <1>8, <1>9 DEF Money

\* A commit that writes the wallet credits as much as it raises the balance, and for
\* a user never contended it is the only call with a copy of that wallet.
LEMMA CommitMoney ==
    ASSUME TypeOK, Money, NEW c \in Calls, Commit(c)
    PROVE  Money'
  <1> DEFINE u == UserOf(c)
             t == TrxOf(c)
             own == CreditedColumn(t)
  <1>1. Step(c, "commit", "done") /\ CommitRows(c) /\ RecordCommit(c) /\ Forget(c)
    BY DEF Commit
  <1>2. request' = request /\ contended' = contended
    BY DEF Commit
  <1>3. /\ pc[c] = "commit" /\ pc'[c] = "done" /\ held'[c] = {}
        /\ \A d \in Calls \ {c} : /\ pc'[d] = pc[d] /\ held'[d] = held[d]
                                  /\ userWallet'[d] = userWallet[d]
                                  /\ walletSet'[d] = walletSet[d]
    BY <1>1 DEF Step, Forget, TypeOK, CallsTyped, ObjectsTyped
  <1>4. \A d \in Calls : /\ TrxOf(d)' = TrxOf(d) /\ UserOf(d)' = UserOf(d)
                         /\ CreditedColumn(TrxOf(d))' = CreditedColumn(TrxOf(d))
    BY <1>2 DEF TrxOf, UserOf, CreditedColumn
  <1>5. ~HoldsWalletCopy(c)'
    BY <1>3 DEF HoldsWalletCopy, HasWallet
  <1>6. \A d \in Calls \ {c} : HoldsWalletCopy(d)' <=> HoldsWalletCopy(d)
    BY <1>2, <1>3 DEF HoldsWalletCopy, TrxOf
  <1>7. CASE "wallet" \notin held[c]
    <2>1. wallet' = wallet /\ credited' = credited
      BY <1>1, <1>7 DEF CommitRows, RecordCommit
    <2>2. \A d \in Calls : Framed(d)
      BY <1>2, <1>3, <1>5, <1>6 DEF Framed, Money, CopiesBacked
    <2> QED
      BY <1>2, <2>1, <2>2, FrameMoney
  <1>8. CASE "wallet" \in held[c]
    <2>1. /\ wallet' = [wallet EXCEPT ![u] = Overlay(wallet[u], walletSet[c])]
          /\ credited' = [credited EXCEPT ![u][own] = @ + AmountOf[t]]
      BY <1>1, <1>8 DEF CommitRows, RecordCommit
    <2>2. \A v \in Users, k \in Column :
            credited'[v][k] = credited[v][k] + (IF v = u /\ k = own THEN AmountOf[t] ELSE 0)
      BY <2>1, CallTypes DEF TypeOK, HistoryTyped
    <2>3. /\ wallet'[u] = Overlay(wallet[u], walletSet[c])
          /\ \A v \in Users \ {u} : wallet'[v] = wallet[v]
      BY <2>1, CallTypes DEF TypeOK, RowsTyped
    <2>4. \A k \in Column : wallet'[u][k] =
            IF k \in DOMAIN walletSet[c] THEN walletSet[c][k] ELSE wallet[u][k]
      BY <2>3, CallTypes DEF Overlay, TypeOK, RowsTyped
    <2>5. HoldsWalletCopy(c) /\ pc[c] # "reloadWallet"
      BY <1>8 DEF Money, CopiesBacked
    <2>6. \A v \in Users, k \in Column : /\ credited[v][k] \in Nat /\ wallet[v][k] \in Nat
                                         /\ credited'[v][k] \in Nat
                                         /\ credited[v][k] <= credited'[v][k]
      BY <2>2, CallTypes DEF TypeOK, HistoryTyped, RowsTyped
    <2>7. BalanceBacked'
      <3> SUFFICES ASSUME NEW v \in Users, NEW k \in Column
                   PROVE  wallet'[v][k] <= credited'[v][k]
        BY DEF BalanceBacked
      <3>1. wallet[v][k] <= credited[v][k]
        BY DEF Money, BalanceBacked
      <3>2. CASE v # u
        BY <2>2, <2>3, <3>1, <3>2, <2>6
      <3>3. CASE v = u /\ k \notin DOMAIN walletSet[c]
        BY <2>4, <2>6, <3>1, <3>3
      <3>4. CASE v = u /\ k \in DOMAIN walletSet[c]
        <4>1. walletSet[c][k] <= CopyBound(c, k)
          BY <2>5, <3>4 DEF Money, CopiesBacked
        <4>2. CopyBound(c, k) = credited'[u][k]
          BY <2>2, CallTypes DEF CopyBound
        <4> QED
          BY <2>4, <3>4, <4>1, <4>2
      <3> QED
        BY <3>2, <3>3, <3>4
    <2>8. \A d \in Calls : DOMAIN walletSet[d] \subseteq Column
      BY DEF TypeOK, ObjectsTyped
    <2>9. ASSUME NEW d \in Calls, NEW k \in Column, NEW n \in Nat, n <= CopyBound(d, k)
          PROVE  n <= CopyBound(d, k)'
      <3> DEFINE extra == IF k = CreditedColumn(TrxOf(d)) THEN AmountOf[TrxOf(d)] ELSE 0
      <3>1. UserOf(d) \in Users /\ extra \in Nat
        BY CallTypes
      <3>2. CopyBound(d, k) = credited[UserOf(d)][k] + extra
        BY DEF CopyBound
      <3>3. CopyBound(d, k)' = credited'[UserOf(d)][k] + extra
        BY <1>4 DEF CopyBound
      <3>4. /\ credited[UserOf(d)][k] \in Nat /\ credited'[UserOf(d)][k] \in Nat
            /\ credited[UserOf(d)][k] <= credited'[UserOf(d)][k]
        BY <2>2, <2>6, <3>1, CallTypes
      <3> HIDE DEF extra
      <3> QED
        BY <2>9, <3>1, <3>2, <3>3, <3>4
    <2>10. CopiesBacked'
      <3> SUFFICES ASSUME NEW d \in Calls
                   PROVE  /\ HoldsWalletCopy(d)' =>
                            \A k \in Column : userWallet'[d][k] <= CopyBound(d, k)'
                          /\ HoldsWalletCopy(d)' /\ pc'[d] # "reloadWallet" =>
                            \A k \in DOMAIN walletSet'[d] : walletSet'[d][k] <= CopyBound(d, k)'
                          /\ "wallet" \in held'[d] =>
                            HoldsWalletCopy(d)' /\ pc'[d] # "reloadWallet"
        BY DEF CopiesBacked
      <3>1. CASE d = c
        BY <1>3, <1>5, <3>1
      <3>2. CASE d # c
        <4>1. /\ \A k \in Column : userWallet[d][k] \in Nat
              /\ \A k \in DOMAIN walletSet[d] : k \in Column /\ walletSet[d][k] \in Nat
          BY <2>8 DEF TypeOK, ObjectsTyped
        <4>2. /\ HoldsWalletCopy(d) => \A k \in Column : userWallet[d][k] <= CopyBound(d, k)
              /\ HoldsWalletCopy(d) /\ pc[d] # "reloadWallet" =>
                    \A k \in DOMAIN walletSet[d] : walletSet[d][k] <= CopyBound(d, k)
              /\ "wallet" \in held[d] => HoldsWalletCopy(d) /\ pc[d] # "reloadWallet"
          BY DEF Money, CopiesBacked
        <4>3. HoldsWalletCopy(d) => \A k \in Column : userWallet[d][k] <= CopyBound(d, k)'
          BY <2>9, <4>1, <4>2
        <4>4. HoldsWalletCopy(d) /\ pc[d] # "reloadWallet" =>
                    \A k \in DOMAIN walletSet[d] : walletSet[d][k] <= CopyBound(d, k)'
          BY <2>9, <4>1, <4>2
        <4>5. /\ pc'[d] = pc[d] /\ held'[d] = held[d] /\ userWallet'[d] = userWallet[d]
              /\ walletSet'[d] = walletSet[d]
              /\ HoldsWalletCopy(d)' <=> HoldsWalletCopy(d)
          BY <1>3, <1>6, <3>2
        <4> QED
          BY <4>2, <4>3, <4>4, <4>5
      <3> QED
        BY <3>1, <3>2
    <2>11. ASSUME u \notin contended
           PROVE  \A k \in Column : wallet'[u][k] = credited'[u][k]
      <3> SUFFICES ASSUME NEW k \in Column PROVE wallet'[u][k] = credited'[u][k]
        OBVIOUS
      <3>1. wallet[u] = credited[u]
        BY <2>11, CallTypes DEF Money, ExactWhenIsolated
      <3>2. /\ own \in DOMAIN walletSet[c]
            /\ \A j \in DOMAIN walletSet[c] : walletSet[c][j] = userWallet[c][j]
            /\ userWallet[c][k] = wallet[u][k] + (IF k = own THEN AmountOf[t] ELSE 0)
        BY <2>5, <2>11 DEF Money, CopiesExact
      <3>3. wallet[u][k] \in Nat
        BY <2>6, CallTypes
      <3>4. CASE k = own
        BY <2>2, <2>4, <3>1, <3>2, <3>4, CallTypes
      <3>5. CASE k # own
        <4>1. credited'[u][k] = wallet[u][k] + 0
          BY <2>2, <3>1, <3>5, CallTypes
        <4>2. userWallet[c][k] = wallet[u][k] + 0
          BY <3>2, <3>5
        <4>3. wallet'[u][k] = wallet[u][k] \/ wallet'[u][k] = userWallet[c][k]
          BY <2>4, <3>2
        <4> QED
          BY <3>3, <4>1, <4>2, <4>3
      <3> QED
        BY <3>4, <3>5
    <2>12. ExactWhenIsolated'
      <3> SUFFICES ASSUME NEW v \in Users \ contended PROVE wallet'[v] = credited'[v]
        BY <1>2 DEF ExactWhenIsolated
      <3>1. wallet'[v] \in [Column -> Nat] /\ credited'[v] \in [Column -> Nat]
        <4>1. TypeOK'
          BY NextTyped DEF Next, CallStep
        <4> QED
          BY <4>1 DEF TypeOK, RowsTyped, HistoryTyped
      <3>2. CASE v = u
        BY <2>11, <3>1, <3>2
      <3>3. CASE v # u
        <4>1. wallet[v] = credited[v]
          BY DEF Money, ExactWhenIsolated
        <4>2. credited'[v] = credited[v]
          BY <2>1, <3>3, CallTypes DEF TypeOK, HistoryTyped
        <4> QED
          BY <2>3, <3>3, <4>1, <4>2
      <3> QED
        BY <3>2, <3>3
    <2>13. CopiesExact'
      <3>1. ASSUME NEW d \in Calls, HoldsWalletCopy(d)'
            PROVE  /\ pc'[d] \notin {"reloadWallet", "updateWallet"} => "wallet" \in held'[d]
                   /\ pc'[d] # "reloadWallet" =>
                      /\ CreditedColumn(TrxOf(d))' \in DOMAIN walletSet'[d]
                      /\ \A k \in DOMAIN walletSet'[d] : walletSet'[d][k] = userWallet'[d][k]
                   /\ UserOf(d)' \notin contended' =>
                      \A k \in Column : userWallet'[d][k] = wallet'[UserOf(d)'][k] +
                        (IF k = CreditedColumn(TrxOf(d))' THEN AmountOf[TrxOf(d)'] ELSE 0)
        <4>1. d # c /\ HoldsWalletCopy(d)
          BY <1>5, <1>6, <3>1
        <4>2. UserOf(d) \notin contended => UserOf(d) # u
          BY <2>5, <4>1 DEF Money, CopiesExact
        <4>3. UserOf(d) \notin contended => wallet'[UserOf(d)] = wallet[UserOf(d)]
          BY <2>3, <4>2, CallTypes
        <4> QED
          BY <1>2, <1>3, <1>4, <4>1, <4>3 DEF Money, CopiesExact
      <3>2. ASSUME NEW d \in Calls, NEW e \in Calls,
                   HoldsWalletCopy(d)', HoldsWalletCopy(e)', UserOf(d)' = UserOf(e)',
                   UserOf(d)' \notin contended'
            PROVE  d = e
        BY <1>2, <1>4, <1>5, <1>6, <3>2 DEF Money, CopiesExact
      <3> QED
        BY <3>1, <3>2 DEF CopiesExact
    <2> QED
      BY <2>7, <2>10, <2>12, <2>13 DEF Money
  <1> QED
    BY <1>7, <1>8

\* The steps that read or write a wallet for their call.
WalletStep(c) == FindWallet(c) \/ ReloadWallet(c) \/ UpdateWallet(c) \/ Commit(c)

Untouched ==
    /\ \A d \in Calls : Framed(d)
    /\ UNCHANGED <<wallet, credited, contended, versions>>

\* Every other step frames every call: one step of the proof per action.
LEMMA OtherStepsFrame ==
    ASSUME TypeOK, Money, [Next]_vars, \A c \in Calls : ~WalletStep(c)
    PROVE  Untouched
  <1>a. /\ DOMAIN pc = Calls /\ DOMAIN request = Calls /\ DOMAIN held = Calls
        /\ DOMAIN userWallet = Calls /\ DOMAIN walletSet = Calls
    BY DEF TypeOK, CallsTyped, ObjectsTyped
  <1>b. \A d \in Calls : "wallet" \in held[d] => HoldsWalletCopy(d)
    BY DEF Money, CopiesBacked
  <1>1. ASSUME NEW c \in Calls, NEW t \in Transactions, NEW s \in Requests, NEW a \in Awaited,
               Refuse(c, t, s, a)
        PROVE  Untouched
    <2>1. \A d \in Calls : Framed(d)
      BY <1>1, <1>a, <1>b DEF Refuse, Arrive, Framed, HoldsWalletCopy, HasWallet, TrxOf
    <2> QED
      BY <1>1, <2>1 DEF Refuse, Arrive, rows, Untouched
  <1>2. ASSUME NEW c \in Calls, NEW t \in Transactions, NEW s \in Requests, NEW a \in Awaited,
               Begin(c, t, s, a)
        PROVE  Untouched
    <2>1. /\ pc[c] = "idle" /\ pc' = [pc EXCEPT ![c] = AfterFind(t, s)]
          /\ request' = [request EXCEPT ![c] = [trx |-> t, paymentStatus |-> s, awaited |-> a]]
          /\ UNCHANGED <<wallet, credited, contended, versions>>
          /\ userWallet' = userWallet /\ walletSet' = walletSet /\ held' = held
      BY <1>2 DEF Begin, Arrive, Enter, rows
    <2>2. Framed(c)
      <3>1. "wallet" \notin held[c]
        BY <1>b, <2>1 DEF HoldsWalletCopy, HasWallet
      <3>2. pc'[c] = AfterFind(t, s) /\ TrxOf(c)' = t /\ request'[c].paymentStatus = s
        BY <1>a, <2>1 DEF TrxOf
      <3>3. ~HoldsWalletCopy(c)'
        BY <3>2, AfterFindType DEF HoldsWalletCopy, HasWallet, Settles
      <3> QED
        BY <2>1, <3>1, <3>3 DEF Framed
    <2>3. \A d \in Calls \ {c} : Framed(d)
      BY <1>a, <1>b, <2>1 DEF Framed, HoldsWalletCopy, TrxOf
    <2> QED
      BY <2>1, <2>2, <2>3 DEF Untouched
  <1>3. ASSUME NEW c \in Calls, ReloadBooking(c) PROVE Untouched
    <2>1. \A d \in Calls : Framed(d)
      BY <1>3, <1>a, <1>b DEF ReloadBooking, Framed, HoldsWalletCopy, HasWallet, TrxOf, Step
    <2> QED
      BY <1>3, <2>1 DEF ReloadBooking, rows, history, Untouched
  <1>4. ASSUME NEW c \in Calls, UpdateBooking(c) PROVE Untouched
    <2>1. \A d \in Calls : Framed(d)
      BY <1>4, <1>a, <1>b DEF UpdateBooking, Framed, HoldsWalletCopy, HasWallet, TrxOf, Step, Lock
    <2> QED
      BY <1>4, <2>1 DEF UpdateBooking, rows, history, Untouched
  <1>5. ASSUME NEW c \in Calls, ReloadTrx(c) PROVE Untouched
    <2>1. \A d \in Calls : Framed(d)
      BY <1>5, <1>a, <1>b DEF ReloadTrx, Framed, HoldsWalletCopy, HasWallet, TrxOf, Step
    <2> QED
      BY <1>5, <2>1 DEF ReloadTrx, rows, history, Untouched
  <1>6. ASSUME NEW c \in Calls, UpdateTrx(c) PROVE Untouched
    <2>1. \A d \in Calls : Framed(d)
      BY <1>6, <1>a, <1>b DEF UpdateTrx, Framed, HoldsWalletCopy, HasWallet, TrxOf, Step, Lock
    <2> QED
      BY <1>6, <2>1 DEF UpdateTrx, rows, history, Untouched
  <1>7. ASSUME NEW c \in Calls, AnswerError(c) PROVE Untouched
    <2>1. \A d \in Calls : Framed(d)
      BY <1>7, <1>a, <1>b DEF AnswerError, Framed, HoldsWalletCopy, HasWallet, TrxOf, Step
    <2> QED
      BY <1>7, <2>1 DEF AnswerError, rows, history, Untouched
  <1>8. ASSUME NEW c \in Calls, Pick(c) PROVE Untouched
    <2>1. \A d \in Calls : Framed(d)
      BY <1>8, <1>b DEF Pick, Framed, HoldsWalletCopy, TrxOf
    <2> QED
      BY <1>8, <2>1 DEF Pick, rows, history, Untouched
  <1>9. ASSUME NEW c \in Calls, MatchReload(c) PROVE Untouched
    <2>1. \A d \in Calls : Framed(d)
      BY <1>9, <1>b DEF MatchReload, Framed, HoldsWalletCopy, TrxOf
    <2> QED
      BY <1>9, <2>1 DEF MatchReload, rows, history, Untouched
  <1>10. ASSUME NEW c \in Calls, MatchUpdate(c) PROVE Untouched
    <2>1. \A d \in Calls : Framed(d)
      BY <1>10, <1>b DEF MatchUpdate, Framed, HoldsWalletCopy, TrxOf
    <2> QED
      BY <1>10, <2>1 DEF MatchUpdate, rows, history, Untouched
  <1>11. ASSUME NEW c \in Calls, MatchCommit(c) PROVE Untouched
    <2>1. \A d \in Calls : Framed(d)
      BY <1>11, <1>b DEF MatchCommit, Framed, HoldsWalletCopy, TrxOf
    <2> QED
      BY <1>11, <2>1 DEF MatchCommit, rows, history, Untouched
  <1>12. ASSUME NEW c \in Calls, MatchError(c) PROVE Untouched
    <2>1. \A d \in Calls : Framed(d)
      BY <1>12, <1>b DEF MatchError, Framed, HoldsWalletCopy, TrxOf
    <2> QED
      BY <1>12, <2>1 DEF MatchError, rows, history, Untouched
  <1>13. ASSUME NEW c \in Calls, DatabaseError(c) PROVE Untouched
    <2>1. \A d \in Calls : Framed(d)
      BY <1>13, <1>a, <1>b DEF DatabaseError, Forget, Framed, HoldsWalletCopy, HasWallet, TrxOf
    <2> QED
      BY <1>13, <2>1 DEF DatabaseError, rows, Untouched
  <1>14. CASE Crash
    <2>1. \A d \in Calls : Framed(d)
      BY <1>14, <1>a DEF Crash, Framed, HoldsWalletCopy, HasWallet, InFlight, InTransaction
    <2> QED
      BY <1>14, <2>1 DEF Crash, rows, Untouched
  <1>15. CASE UNCHANGED vars
    <2>1. \A d \in Calls : Framed(d)
      BY <1>15, <1>b DEF vars, memory, Framed, HoldsWalletCopy, TrxOf
    <2> QED
      BY <1>15, <2>1 DEF vars, rows, history, Untouched
  <1> QED
    BY <1>1, <1>2, <1>3, <1>4, <1>5, <1>6, <1>7, <1>8, <1>9, <1>10, <1>11, <1>12, <1>13, <1>14,
       <1>15 DEF Next, CallStep, MatchTask, WalletStep

LEMMA NextMoney == TypeOK /\ WalletCallsSettle /\ Money /\ [Next]_vars => Money'
  <1> SUFFICES ASSUME TypeOK, WalletCallsSettle, Money, [Next]_vars PROVE Money'
    OBVIOUS
  <1>1. CASE \A c \in Calls : ~WalletStep(c)
    BY <1>1, OtherStepsFrame, FrameMoney DEF Untouched
  <1>2. ASSUME NEW c \in Calls, WalletStep(c) PROVE Money'
    BY <1>2, FindWalletMoney, ReloadWalletMoney, UpdateWalletMoney, CommitMoney DEF WalletStep
  <1> QED
    BY <1>1, <1>2

\* The strengthened invariant holds in every reachable state.
THEOREM MoneyInvariant == Spec => [](TypeOK /\ WalletCallsSettle /\ Money)
  <1>1. Init => TypeOK /\ WalletCallsSettle /\ Money
    BY InitTyped, WalletCallsSettleInductive, InitMoney
  <1>2. TypeOK /\ WalletCallsSettle /\ Money /\ [Next]_vars
            => (TypeOK /\ WalletCallsSettle /\ Money)'
    BY NextTyped, WalletCallsSettleInductive, NextMoney
  <1> QED
    BY <1>1, <1>2, PTL DEF Spec

\* No wallet ever holds more than committed transactions credited to it.
THEOREM BalanceIsBacked == Spec => []BalanceBacked
  BY MoneyInvariant, PTL DEF Money

\* A wallet no two calls held a copy of at once is exact.
THEOREM IsolatedWalletIsExact == Spec => []ExactWhenIsolated
  BY MoneyInvariant, PTL DEF Money

\* Credits in flight never exceed what their commit will account for.
THEOREM CopiesAreBacked == Spec => []CopiesBacked
  BY MoneyInvariant, PTL DEF Money

-----------------------------------------------------------------------------
(* A status only becomes Paid together with its credit.                    *)

\* Only a commit writes payment_transaction, and one that settles holds the wallet.
LEMMA PaidStep ==
    ASSUME TypeOK, Money, [Next]_vars,
           NEW t \in Transactions, Settles(t, status'[t]), status[t] # "Paid"
    PROVE  credits'[t] = credits[t] + 1
  <1>1. status'[t] # status[t]
    BY DEF Settles
  <1>2. PICK c \in Calls : Commit(c)
    <2>1. ASSUME NEW c \in Calls, NEW x \in Transactions, NEW s \in Requests, NEW a \in Awaited,
                 Refuse(c, x, s, a) \/ Begin(c, x, s, a)
          PROVE  status' = status
      BY <2>1 DEF Refuse, Begin, Arrive, rows
    <2>2. ASSUME NEW c \in Calls, CallStep(c), ~Commit(c)
          PROVE  status' = status
      BY <2>2 DEF CallStep, FindWallet, ReloadWallet, UpdateWallet, ReloadBooking,
                  UpdateBooking, ReloadTrx, UpdateTrx, AnswerError, rows
    <2>3. ASSUME NEW c \in Calls, MatchTask(c) \/ DatabaseError(c) \/ MatchError(c)
          PROVE  status' = status
      BY <2>3 DEF MatchTask, Pick, MatchReload, MatchUpdate, MatchCommit, DatabaseError,
                  MatchError, rows
    <2>4. CASE Crash \/ UNCHANGED vars
      BY <1>1, <2>4 DEF Crash, vars, rows
    <2> QED
      BY <1>1, <2>1, <2>2, <2>3, <2>4 DEF Next
  <1>3. TrxOf(c) = t /\ status'[t] = request[c].paymentStatus
    BY <1>1, <1>2, CallTypes DEF Commit, CommitRows, TypeOK, RowsTyped
  <1>4. HoldsWalletCopy(c) /\ pc[c] = "commit"
    BY <1>2, <1>3 DEF Commit, Step, HoldsWalletCopy, HasWallet
  <1>5. "wallet" \in held[c]
    BY <1>4 DEF Money, CopiesExact
  <1> QED
    BY <1>2, <1>3, <1>5 DEF Commit, RecordCommit, TypeOK, HistoryTyped

\* In every behaviour, a transaction becomes Paid only in a commit that credits it.
THEOREM PaidNeedsCredit == Spec => PaidOnlyWithCredit
  <1>1. TypeOK /\ WalletCallsSettle /\ Money /\ [Next]_vars =>
            [\A t \in Transactions :
                Settles(t, status'[t]) /\ status[t] # "Paid"
                    => credits'[t] = credits[t] + 1]_vars
    BY PaidStep
  <1> QED
    BY <1>1, MoneyInvariant, PTL DEF Spec, PaidOnlyWithCredit

-----------------------------------------------------------------------------
(* One call at a time credits a transaction exactly when it becomes Paid.   *)

\* Two calls at work on one transaction have put it into overlap.
Apart ==
    \A c, d \in Calls :
        c # d /\ Busy(c) /\ Busy(d) /\ TrxOf(c) = TrxOf(d) => TrxOf(c) \in overlap

\* A call that works alone still finds the transaction without the status it was asked
\* to set, and so it carries the UPDATE of that status when it commits.
Fresh ==
    \A c \in Calls : pc[c] \in InTransaction /\ TrxOf(c) \notin overlap =>
        /\ status[TrxOf(c)] # request[c].paymentStatus
        /\ pc[c] = "commit" => "trx" \in held[c]

\* Transactions that raise a balance once they are paid.
Creditable(t) == PurposeOf[t] # "Fund Withdrawal"

LEMMA CreditableSettles ==
    ASSUME NEW t, NEW s
    PROVE  Settles(t, s) <=> Creditable(t) /\ s = "Paid"
  BY ZenonT(30) DEF Settles, Creditable

LEMMA CreditMatchesCreditable ==
    CreditMatchesStatus <=>
        \A t \in Transactions \ (overlap \cup reopened) :
            Creditable(t) => credits[t] = IF status[t] = "Paid" THEN 1 ELSE 0
  BY ZenonT(30) DEF CreditMatchesStatus, Creditable

LEMMA CreditMatchesNext ==
    ASSUME \A t \in Transactions \ (overlap' \cup reopened') :
                Creditable(t) => credits'[t] = IF status'[t] = "Paid" THEN 1 ELSE 0
    PROVE  CreditMatchesStatus'
  BY ZenonT(30) DEF CreditMatchesStatus, Creditable

Single == Apart /\ Fresh /\ CreditMatchesStatus

\* What every step but an arrival and a commit leaves alone, as seen from call d.
Going(d) ==
    /\ Busy(d)' => Busy(d) /\ request'[d] = request[d]
    /\ pc'[d] \in InTransaction => pc[d] \in InTransaction
    /\ pc'[d] = "commit" =>
        \/ "trx" \in held'[d]
        \/ pc[d] = "commit" /\ held'[d] = held[d]
        \/ status[TrxOf(d)] = request[d].paymentStatus

Unsettled ==
    /\ \A d \in Calls : Going(d)
    /\ UNCHANGED <<status, credits, overlap, reopened>>

LEMMA InitSingle == Init => Single
  <1> SUFFICES ASSUME Init PROVE Single
    OBVIOUS
  <1>1. \A c \in Calls : pc[c] = "idle" /\ match[c] = "none"
    BY DEF Init
  <1>2. Apart /\ Fresh
    BY <1>1 DEF Apart, Fresh, Busy, InFlight, Matching, InTransaction, MatchInTransaction
  <1>3. \A t \in Transactions : credits[t] = 0 /\ status[t] = "Pending"
    BY DEF Init
  <1>4. CreditMatchesStatus
    BY <1>3, CreditMatchesCreditable
  <1> QED
    BY <1>2, <1>4 DEF Single

LEMMA UnsettledSingle ==
    ASSUME Single, Unsettled
    PROVE  Single'
  <1>a. status' = status /\ credits' = credits /\ overlap' = overlap /\ reopened' = reopened
    BY DEF Unsettled
  <1>b. ASSUME NEW d \in Calls, Busy(d)'
        PROVE  Busy(d) /\ TrxOf(d)' = TrxOf(d) /\ request'[d] = request[d]
    BY <1>b DEF Unsettled, Going, TrxOf
  <1>1. Apart'
    <2> SUFFICES ASSUME NEW c \in Calls, NEW d \in Calls, c # d, Busy(c)', Busy(d)',
                        TrxOf(c)' = TrxOf(d)'
                 PROVE  TrxOf(c)' \in overlap'
      BY DEF Apart
    <2>1. Busy(c) /\ Busy(d) /\ TrxOf(c)' = TrxOf(c) /\ TrxOf(d)' = TrxOf(d)
      BY <1>b
    <2> QED
      BY <1>a, <2>1 DEF Single, Apart
  <1>2. Fresh'
    <2> SUFFICES ASSUME NEW c \in Calls, pc'[c] \in InTransaction, TrxOf(c)' \notin overlap'
                 PROVE  /\ status'[TrxOf(c)'] # request'[c].paymentStatus
                        /\ pc'[c] = "commit" => "trx" \in held'[c]
      BY DEF Fresh
    <2>1. Busy(c)'
      BY DEF Busy, InFlight
    <2>2. TrxOf(c)' = TrxOf(c) /\ request'[c] = request[c]
      BY <1>b, <2>1
    <2>3. pc[c] \in InTransaction
      BY DEF Unsettled, Going
    <2>4. /\ status[TrxOf(c)] # request[c].paymentStatus
          /\ pc[c] = "commit" => "trx" \in held[c]
      BY <1>a, <2>2, <2>3 DEF Single, Fresh
    <2> QED
      BY <1>a, <2>2, <2>4 DEF Unsettled, Going
  <1>3. CreditMatchesStatus'
    BY <1>a DEF Single, CreditMatchesStatus
  <1> QED
    BY <1>1, <1>2, <1>3 DEF Single

\* An arrival makes one more call busy, and marks the transaction when another is.
LEMMA ArriveSingle ==
    ASSUME TypeOK, Single,
           NEW c \in Calls, NEW t \in Transactions, NEW s \in Requests, NEW a \in Awaited,
           Refuse(c, t, s, a) \/ Begin(c, t, s, a)
    PROVE  Single'
  <1>a. /\ Arrive(c, t, s, a)
        /\ status' = status /\ credits' = credits /\ reopened' = reopened
        /\ match' = match /\ held' = held
        /\ request' = [request EXCEPT ![c] =
                [trx |-> t, paymentStatus |-> s, awaited |-> a]]
    BY DEF Refuse, Begin, Arrive, rows
  <1>b. DOMAIN request = Calls /\ DOMAIN pc = Calls
    BY DEF TypeOK, CallsTyped
  <1>1. /\ TrxOf(c)' = t /\ request'[c].paymentStatus = s
        /\ \A d \in Calls \ {c} : request'[d] = request[d] /\ TrxOf(d)' = TrxOf(d)
    BY <1>a, <1>b DEF TrxOf
  <1>2. \A d \in Calls \ {c} : pc'[d] = pc[d]
    BY <1>b DEF Refuse, Begin, Enter
  <1>3. \A d \in Calls \ {c} : Busy(d)' <=> Busy(d)
    BY <1>2, <1>a DEF Busy, InFlight, Matching
  <1>4. overlap' = IF \E d \in Calls \ {c} : Busy(d) /\ TrxOf(d) = t
                   THEN overlap \cup {t} ELSE overlap
    BY <1>a DEF Arrive
  <1>5. overlap \subseteq overlap'
    BY <1>4
  <1>6. \A d \in Calls \ {c} : Busy(d) /\ TrxOf(d) = t => t \in overlap'
    BY <1>4
  <1>7. Apart'
    <2> SUFFICES ASSUME NEW d \in Calls, NEW e \in Calls, d # e, Busy(d)', Busy(e)',
                        TrxOf(d)' = TrxOf(e)'
                 PROVE  TrxOf(d)' \in overlap'
      BY DEF Apart
    <2>1. CASE d = c
      BY <1>1, <1>3, <1>6, <2>1
    <2>2. CASE e = c
      BY <1>1, <1>3, <1>6, <2>2
    <2>3. CASE d # c /\ e # c
      BY <1>1, <1>3, <1>5, <2>3 DEF Single, Apart
    <2> QED
      BY <2>1, <2>2, <2>3
  <1>8. Fresh'
    <2> SUFFICES ASSUME NEW d \in Calls, pc'[d] \in InTransaction, TrxOf(d)' \notin overlap'
                 PROVE  /\ status'[TrxOf(d)'] # request'[d].paymentStatus
                        /\ pc'[d] = "commit" => "trx" \in held'[d]
      BY DEF Fresh
    <2>1. CASE d # c
      BY <1>a, <1>1, <1>2, <1>5, <2>1 DEF Single, Fresh
    <2>2. CASE d = c
      <3>1. pc'[c] # "failed"
        BY <2>2 DEF InTransaction
      <3>2. ~Refuse(c, t, s, a)
        BY <1>b, <3>1 DEF Refuse
      <3>3. status[t] # s /\ pc'[c] = AfterFind(t, s)
        BY <1>b, <3>2 DEF Begin, Enter
      <3>4. pc'[c] # "commit"
        BY <3>3, AfterFindType
      <3> QED
        BY <1>a, <1>1, <2>2, <3>3, <3>4
    <2> QED
      BY <2>1, <2>2
  <1>9. CreditMatchesStatus'
    <2>1. ASSUME NEW x \in Transactions \ (overlap' \cup reopened'), Creditable(x)
          PROVE  credits'[x] = IF status'[x] = "Paid" THEN 1 ELSE 0
      BY <1>a, <1>5, <2>1, CreditMatchesCreditable DEF Single
    <2> QED
      BY <2>1, CreditMatchesNext
  <1> QED
    BY <1>7, <1>8, <1>9 DEF Single

\* A commit: the status it writes and the credit it records belong to each other.
LEMMA CommitSingle ==
    ASSUME TypeOK, Money, Single, NEW c \in Calls, Commit(c)
    PROVE  Single'
  <1> DEFINE t == TrxOf(c)
             p == request[c].paymentStatus
  <1>a. /\ Step(c, "commit", "done") /\ CommitRows(c) /\ RecordCommit(c) /\ Forget(c)
        /\ request' = request /\ match' = match /\ overlap' = overlap
    BY DEF Commit
  <1>b. DOMAIN pc = Calls /\ DOMAIN held = Calls /\ t \in Transactions
    BY CallTypes DEF TypeOK, CallsTyped
  <1>1. pc[c] = "commit" /\ pc'[c] = "done" /\ Busy(c)
    BY <1>a, <1>b DEF Step, Busy, InFlight, InTransaction
  <1>2. \A d \in Calls \ {c} : pc'[d] = pc[d] /\ held'[d] = held[d]
    BY <1>a, <1>b DEF Step, Forget
  <1>3. \A d \in Calls : request'[d] = request[d] /\ TrxOf(d)' = TrxOf(d)
    BY <1>a DEF TrxOf
  <1>4. \A d \in Calls : Busy(d)' => Busy(d)
    BY <1>a, <1>1, <1>2 DEF Busy, InFlight, Matching
  <1>5. Apart'
    <2> SUFFICES ASSUME NEW d \in Calls, NEW e \in Calls, d # e, Busy(d)', Busy(e)',
                        TrxOf(d)' = TrxOf(e)'
                 PROVE  TrxOf(d)' \in overlap'
      BY DEF Apart
    <2> QED
      BY <1>a, <1>3, <1>4 DEF Single, Apart
  <1>6. ASSUME NEW x \in Transactions, x # t
        PROVE  status'[x] = status[x] /\ credits'[x] = credits[x]
    BY <1>a, <1>6 DEF CommitRows, RecordCommit, TypeOK, RowsTyped, HistoryTyped
  <1>7. Fresh'
    <2> SUFFICES ASSUME NEW d \in Calls, pc'[d] \in InTransaction, TrxOf(d)' \notin overlap'
                 PROVE  /\ status'[TrxOf(d)'] # request'[d].paymentStatus
                        /\ pc'[d] = "commit" => "trx" \in held'[d]
      BY DEF Fresh
    <2>1. d # c
      BY <1>1 DEF InTransaction
    <2>2. pc[d] \in InTransaction /\ TrxOf(d) \notin overlap /\ Busy(d)
      BY <1>a, <1>2, <1>3, <2>1 DEF Busy, InFlight
    <2>3. TrxOf(d) # t
      BY <1>1, <2>1, <2>2 DEF Single, Apart
    <2>4. TrxOf(d) \in Transactions
      BY CallTypes
    <2> QED
      BY <1>2, <1>3, <1>6, <2>1, <2>2, <2>3, <2>4 DEF Single, Fresh
  <1>8. reopened \subseteq reopened'
    BY <1>a DEF RecordCommit
  <1>9. ASSUME t \notin overlap \cup reopened', Creditable(t)
        PROVE  credits'[t] = IF status'[t] = "Paid" THEN 1 ELSE 0
    <2>1. status[t] # p /\ "trx" \in held[c]
      BY <1>1, <1>9 DEF Single, Fresh, InTransaction
    <2>2. status'[t] = p
      BY <1>a, <1>b, <2>1 DEF CommitRows, TypeOK, RowsTyped
    <2>3. credits[t] = IF status[t] = "Paid" THEN 1 ELSE 0
      BY <1>8, <1>9, <1>b, CreditMatchesCreditable DEF Single
    <2>4. status[t] # "Paid" \/ p = "Paid"
      BY <1>a, <1>9, <2>2 DEF RecordCommit
    <2>5. status[t] # "Paid" /\ credits[t] = 0
      BY <2>1, <2>3, <2>4
    <2>6. "wallet" \in held[c] <=> p = "Paid"
      <3>1. HoldsWalletCopy(c) <=> p = "Paid"
        BY <1>1, <1>9, CreditableSettles DEF HoldsWalletCopy, HasWallet
      <3> QED
        BY <1>1, <3>1 DEF Money, CopiesExact, CopiesBacked
    <2>7. credits'[t] = IF "wallet" \in held[c] THEN 1 ELSE 0
      BY <1>a, <1>b, <2>5 DEF RecordCommit, TypeOK, HistoryTyped
    <2> QED
      BY <2>2, <2>6, <2>7
  <1>10. CreditMatchesStatus'
    <2>1. ASSUME NEW x \in Transactions \ (overlap' \cup reopened'), Creditable(x)
          PROVE  credits'[x] = IF status'[x] = "Paid" THEN 1 ELSE 0
      <3>1. x \notin overlap \cup reopened
        BY <1>a, <1>8
      <3>2. CASE x = t
        BY <1>9, <1>a, <2>1, <3>2
      <3>3. CASE x # t
        BY <1>6, <2>1, <3>1, <3>3, CreditMatchesCreditable DEF Single
      <3> QED
        BY <3>2, <3>3
    <2> QED
      BY <2>1, CreditMatchesNext
  <1> QED
    BY <1>5, <1>7, <1>10 DEF Single

\* Every other step leaves what Single speaks of alone: one step of the proof per action.
LEMMA OtherStepsUnsettled ==
    ASSUME TypeOK, [Next]_vars,
           \A c \in Calls : ~Commit(c),
           \A c \in Calls, t \in Transactions, s \in Requests, a \in Awaited :
                ~Refuse(c, t, s, a) /\ ~Begin(c, t, s, a)
    PROVE  Unsettled
  <1>a. /\ DOMAIN pc = Calls /\ DOMAIN request = Calls /\ DOMAIN held = Calls
        /\ DOMAIN match = Calls
    BY DEF TypeOK, CallsTyped
  <1>1. ASSUME NEW c \in Calls, NEW from \in InTransaction, NEW to, Step(c, from, to),
               request' = request, held' = held \/ Lock(c, "wallet") \/ Lock(c, "booking"),
               to # "commit", match' = match \/ match' = [match EXCEPT ![c] = "pick"],
               UNCHANGED <<status, credits, overlap, reopened>>
        PROVE  Unsettled
    <2> SUFFICES ASSUME NEW d \in Calls PROVE Going(d)
      BY <1>1 DEF Unsettled
    <2>1. CASE d = c
      BY <1>a, <1>1, <2>1 DEF Going, Step, Busy, InFlight
    <2>2. CASE d # c
      <3>1. pc'[d] = pc[d] /\ match'[d] = match[d] /\ held'[d] = held[d]
        BY <1>a, <1>1, <2>2 DEF Step, Lock
      <3> QED
        BY <1>1, <3>1 DEF Going, Busy, InFlight, Matching
    <2> QED
      BY <2>1, <2>2
  <1>2. ASSUME NEW c \in Calls, FindWallet(c) PROVE Unsettled
    BY <1>1, <1>2 DEF FindWallet, rows, InTransaction
  <1>3. ASSUME NEW c \in Calls, ReloadWallet(c) PROVE Unsettled
    BY <1>1, <1>3 DEF ReloadWallet, rows, history, InTransaction
  <1>4. ASSUME NEW c \in Calls, UpdateWallet(c) PROVE Unsettled
    <2> DEFINE to == IF PurposeOf[TrxOf(c)] = "Service Payment"
                     THEN "reloadBooking" ELSE "reloadTrx"
    <2>1. /\ Step(c, "updateWallet", to) /\ Lock(c, "wallet") /\ request' = request
          /\ match' = match \/ match' = [match EXCEPT ![c] = "pick"]
          /\ UNCHANGED <<status, credits, overlap, reopened>>
      BY <1>4, ZenonT(30) DEF UpdateWallet, rows, history
    <2>2. to # "commit"
      BY ZenonT(30)
    <2> HIDE DEF to
    <2> QED
      BY <1>1, <2>1, <2>2 DEF InTransaction
  <1>5. ASSUME NEW c \in Calls, ReloadBooking(c) PROVE Unsettled
    <2> DEFINE to == IF Changed(entity[c], booking[TrxOf(c)]) = NoChange
                     THEN "reloadTrx" ELSE "updateBooking"
    <2>1. /\ Step(c, "reloadBooking", to) /\ held' = held /\ request' = request
          /\ match' = match /\ UNCHANGED <<status, credits, overlap, reopened>>
      BY <1>5 DEF ReloadBooking, rows, history
    <2>2. to # "commit"
      OBVIOUS
    <2> HIDE DEF to
    <2> QED
      BY <1>1, <2>1, <2>2 DEF InTransaction
  <1>6. ASSUME NEW c \in Calls, UpdateBooking(c) PROVE Unsettled
    BY <1>1, <1>6 DEF UpdateBooking, rows, history, InTransaction
  <1>7. ASSUME NEW c \in Calls, ReloadTrx(c) PROVE Unsettled
    <2> SUFFICES ASSUME NEW d \in Calls PROVE Going(d)
      BY <1>7 DEF ReloadTrx, rows, history, Unsettled
    <2>1. /\ pc[c] = "reloadTrx" /\ request' = request /\ held' = held /\ match' = match
          /\ \A e \in Calls \ {c} : pc'[e] = pc[e]
          /\ pc'[c] = "commit" => status[TrxOf(c)] = request[c].paymentStatus
      BY <1>a, <1>7 DEF ReloadTrx, Step
    <2> QED
      BY <2>1 DEF Going, Busy, InFlight, Matching, InTransaction
  <1>8. ASSUME NEW c \in Calls, UpdateTrx(c) PROVE Unsettled
    <2> SUFFICES ASSUME NEW d \in Calls PROVE Going(d)
      BY <1>8 DEF UpdateTrx, rows, history, Unsettled
    <2>1. /\ pc[c] = "updateTrx" /\ request' = request /\ match' = match
          /\ \A e \in Calls \ {c} : pc'[e] = pc[e] /\ held'[e] = held[e]
          /\ "trx" \in held'[c]
      BY <1>a, <1>8 DEF UpdateTrx, Step, Lock
    <2> QED
      BY <2>1 DEF Going, Busy, InFlight, Matching, InTransaction
  <1>9. ASSUME NEW c \in Calls, AnswerError(c) PROVE Unsettled
    BY <1>a, <1>9 DEF AnswerError, Step, rows, history, Unsettled, Going, Busy, InFlight,
                      Matching, InTransaction
  <1>10. ASSUME NEW c \in Calls, NEW from \in MatchInTransaction, NEW to,
                match[c] = from, match' = [match EXCEPT ![c] = to],
                pc' = pc, request' = request, held' = held,
                UNCHANGED <<status, credits, overlap, reopened>>
         PROVE  Unsettled
    BY <1>a, <1>10 DEF MatchStep, Unsettled, Going, Busy, InFlight, Matching
  <1>11. ASSUME NEW c \in Calls, MatchTask(c) \/ MatchError(c) PROVE Unsettled
    BY <1>10, <1>11 DEF MatchTask, Pick, MatchReload, MatchUpdate, MatchCommit, MatchError,
                        rows, history, MatchInTransaction, MatchStep
  <1>12. ASSUME NEW c \in Calls, DatabaseError(c) PROVE Unsettled
    <2> SUFFICES ASSUME NEW d \in Calls PROVE Going(d)
      BY <1>12 DEF DatabaseError, rows, Unsettled
    <2>1. /\ pc[c] \in InTransaction /\ request' = request /\ match' = match
          /\ \A e \in Calls \ {c} : pc'[e] = pc[e] /\ held'[e] = held[e]
          /\ pc'[c] = "failed"
      BY <1>a, <1>12 DEF DatabaseError, Forget
    <2> QED
      BY <2>1 DEF Going, Busy, InFlight, Matching, InTransaction
  <1>13. CASE Crash
    <2> SUFFICES ASSUME NEW d \in Calls PROVE Going(d)
      BY <1>13 DEF Crash, rows, Unsettled
    <2>1. /\ pc'[d] = IF InFlight(d) THEN "lost" ELSE pc[d]
          /\ match'[d] = IF Matching(d) THEN "lost" ELSE match[d]
          /\ request' = request
      BY <1>13 DEF Crash
    <2>2. ~Busy(d)'
      BY <2>1 DEF Busy, InFlight, Matching, InTransaction, MatchInTransaction
    <2>3. pc'[d] \notin InTransaction
      BY <2>2 DEF Busy, InFlight
    <2> QED
      BY <2>2, <2>3 DEF Going, InTransaction
  <1>14. CASE UNCHANGED vars
    BY <1>14 DEF vars, rows, memory, history, Unsettled, Going, Busy, InFlight, Matching, TrxOf
  <1> QED
    BY <1>2, <1>3, <1>4, <1>5, <1>6, <1>7, <1>8, <1>9, <1>11, <1>12, <1>13, <1>14
       DEF Next, CallStep

\* Single holds in every reachable state, on top of the invariant of the money.
THEOREM SingleInvariant == Spec => []Single
  <1>1. Init => Single
    BY InitSingle
  <1>2. TypeOK /\ WalletCallsSettle /\ Money /\ Single /\ [Next]_vars => Single'
    <2> SUFFICES ASSUME TypeOK, Money, Single, [Next]_vars PROVE Single'
      OBVIOUS
    <2>1. ASSUME NEW c \in Calls, NEW t \in Transactions, NEW s \in Requests,
                 NEW a \in Awaited, Refuse(c, t, s, a) \/ Begin(c, t, s, a)
          PROVE  Single'
      BY <2>1, ArriveSingle
    <2>2. ASSUME NEW c \in Calls, Commit(c) PROVE Single'
      BY <2>2, CommitSingle
    <2> QED
      BY <2>1, <2>2, OtherStepsUnsettled, UnsettledSingle
  <1> QED
    BY <1>1, <1>2, MoneyInvariant, PTL DEF Spec

\* A transaction that calls worked on one at a time, and that was never moved back from
\* Paid, was credited once if it is Paid and not at all otherwise.
THEOREM CreditsMatchStatuses == Spec => []CreditMatchesStatus
  BY SingleInvariant, PTL DEF Single

-----------------------------------------------------------------------------
(* A booking tells the status of its payment once nothing works on it.     *)

\* Transactions that pay for a booking, and what a booking tells of its payment.
Service(t) == PurposeOf[t] = "Service Payment"
StateFor(s) == IF s = "Paid" THEN "In Progress" ELSE "Cancelled"
Tells(object, s) == object.paymentStatus = s /\ object.bookingStatus = StateFor(s)
IsNew(row) == row = NewBooking
Copied == {"bookingStatus", "paymentStatus", "isMatched"}

Clean(t) == Service(t) /\ t \notin overlap \cup spoiled
Working(c) == pc[c] \in InTransaction \/ match[c] \in MatchInTransaction
RowOf(c) == booking[TrxOf(c)]

BeforeMatch == {"findWallet", "reloadWallet", "updateWallet"}
BeforeReload == BeforeMatch \cup {"reloadBooking"}
AfterReload == {"updateBooking", "reloadTrx", "updateTrx", "commit"}

\* A match is started by a call that settles a booking, behind its wallet UPDATE, and one
\* that was cut off, or whose call was, has spoiled the transaction.
Started(c) ==
    /\ match[c] # "none" =>
        /\ Settles(TrxOf(c), request[c].paymentStatus)
        /\ pc[c] \notin BeforeMatch \cup {"idle"}
        /\ pc[c] \in {"failed", "lost"} => TrxOf(c) \in spoiled
    /\ match[c] \in {"failed", "lost"} => TrxOf(c) \in spoiled
    /\ pc[c] \in InTransaction \ BeforeMatch /\ Service(TrxOf(c))
            /\ Settles(TrxOf(c), request[c].paymentStatus)
        => match[c] # "none"

MatchesStarted == \A c \in Calls : Started(c)

\* The shared object: a copy of the row at first, then one that tells the new status, and
\* a matched one as soon as the match has chosen.
ObjectSound(c) ==
    /\ pc[c] \in BeforeReload \/ match[c] \in MatchInTransaction =>
        Copied \subseteq DOMAIN entity[c]
    /\ pc[c] = "reloadBooking" \/ match[c] \in MatchInTransaction =>
        Tells(entity[c], request[c].paymentStatus)
    /\ pc[c] \in BeforeReload => entity[c].isMatched \in {TRUE, RowOf(c).isMatched}
    /\ match[c] \in MatchInTransaction \ {"pick"} => entity[c].isMatched = TRUE

\* The UPDATE of the call makes the row tell the new status, and never unmatches it.
UpdateSound(c) ==
    /\ pc[c] \in AfterReload =>
        /\ Tells(Overlay(RowOf(c), bookingSet[c]), request[c].paymentStatus)
        /\ "isMatched" \in DOMAIN bookingSet[c] => bookingSet[c]["isMatched"] = TRUE
    /\ pc[c] \in AfterReload \ {"updateBooking"} =>
        "booking" \in held[c] \/ bookingSet[c] = NoChange

\* So does the UPDATE of the match, which leaves a matched row behind.
MatchUpdateSound(c) ==
    match[c] \in {"update", "commit"} =>
        /\ Tells(Overlay(RowOf(c), matchSet[c]), request[c].paymentStatus)
        /\ Overlay(RowOf(c), matchSet[c]).isMatched = TRUE

\* What the committed rows are while the call, or the match it left behind, works.
RowSound(c) ==
    /\ pc[c] \in InTransaction =>
        /\ credits[TrxOf(c)] > 0 => RowOf(c).isMatched = TRUE
        /\ match[c] = "done" => RowOf(c).isMatched = TRUE
    /\ pc[c] = "done" =>
        /\ status[TrxOf(c)] = request[c].paymentStatus
        /\ Tells(RowOf(c), request[c].paymentStatus)

Sound(c) == ObjectSound(c) /\ UpdateSound(c) /\ MatchUpdateSound(c) /\ RowSound(c)

Settling == \A c \in Calls : Working(c) /\ Clean(TrxOf(c)) => Sound(c)

\* What BookingAgrees says, and that nothing was credited for a new booking.
Agreed(t) ==
    \/ status[t] = "Pending" /\ IsNew(booking[t]) /\ credits[t] = 0
    \/ Tells(booking[t], status[t]) /\ (credits[t] > 0 => booking[t].isMatched = TRUE)

Quiet ==
    \A t \in Transactions :
        Clean(t) /\ (\A c \in Calls : TrxOf(c) = t => ~Working(c)) => Agreed(t)

\* A payment for a booking is one that raises a balance.
LEMMA ServiceCredits ==
    ASSUME NEW t, Service(t)
    PROVE  Creditable(t)
  BY ZenonT(30) DEF Service, Creditable

LEMMA ServiceBranch ==
    ASSUME NEW t, NEW s, Service(t)
    PROVE  AfterFind(t, s) = IF s = "Paid" THEN "findWallet" ELSE "reloadBooking"
  <1>1. Settles(t, s) <=> s = "Paid"
    BY ServiceCredits, CreditableSettles
  <1> QED
    BY <1>1, ZenonT(30) DEF AfterFind, Service

LEMMA NewIsNew == IsNew(NewBooking)
  BY DEF IsNew

\* Quiet is what BookingAgrees says, and a little more.
LEMMA QuietAgrees == Quiet => BookingAgrees
  <1> SUFFICES ASSUME Quiet PROVE BookingAgrees
    OBVIOUS
  <1>1. ASSUME NEW t \in Transactions \ (overlap \cup spoiled), Service(t),
               \A c \in Calls : TrxOf(c) = t => ~Busy(c)
        PROVE  Agreed(t)
    BY <1>1 DEF Quiet, Clean, Busy, InFlight, Matching, Working
  <1>2. ASSUME NEW t \in Transactions, Agreed(t)
        PROVE  \/ status[t] = "Pending" /\ booking[t] = NewBooking
               \/ /\ booking[t].paymentStatus = status[t]
                  /\ booking[t].bookingStatus =
                        IF status[t] = "Paid" THEN "In Progress" ELSE "Cancelled"
                  /\ credits[t] > 0 => booking[t].isMatched
    BY <1>2, ZenonT(30) DEF Agreed, Tells, StateFor, IsNew
  <1> QED
    BY <1>1, <1>2, ZenonT(30) DEF BookingAgrees, Service

\* Two UPDATEs that each make a row tell a status, one after the other.
LEMMA OverlayTells ==
    ASSUME NEW row, NEW first, NEW second, NEW s, Copied \subseteq DOMAIN row,
           Tells(Overlay(row, first), s), Tells(Overlay(row, second), s)
    PROVE  Tells(Overlay(Overlay(row, first), second), s)
  BY DEF Tells, Overlay, Copied

\* The UPDATE that save computes from an object makes the row tell what the object tells.
LEMMA ChangedTells ==
    ASSUME NEW object, NEW row, NEW s, Copied \subseteq DOMAIN row, Copied \subseteq DOMAIN object,
           Tells(object, s)
    PROVE  Tells(Overlay(row, Changed(object, row)), s)
  BY DEF Tells, Overlay, Changed, Copied

LEMMA ChangedMatched ==
    ASSUME NEW object, NEW row, Copied \subseteq DOMAIN row, Copied \subseteq DOMAIN object
    PROVE  /\ Overlay(row, Changed(object, row)).isMatched = object.isMatched
           /\ "isMatched" \in DOMAIN Changed(object, row) =>
                object.isMatched # row.isMatched
                    /\ Changed(object, row)["isMatched"] = object.isMatched
  BY DEF Overlay, Changed, Copied

LEMMA NoChangeTells ==
    ASSUME NEW row, NEW s, Copied \subseteq DOMAIN row, Tells(Overlay(row, NoChange), s)
    PROVE  Tells(row, s)
  BY NoChangeDomain DEF Tells, Overlay, Copied

\* An UPDATE that sets isMatched, if at all, keeps a matched row matched.
LEMMA OverlayMatched ==
    ASSUME NEW row, NEW changes, NEW yes, Copied \subseteq DOMAIN row,
           "isMatched" \in DOMAIN changes => changes["isMatched"] = yes,
           row.isMatched = yes
    PROVE  Overlay(row, changes).isMatched = yes
  BY DEF Overlay, Copied

\* Both UPDATEs, when either matches the row and the other does not unmatch it.
LEMMA OverlayTwiceMatched ==
    ASSUME NEW row, NEW first, NEW second, NEW yes, Copied \subseteq DOMAIN row,
           "isMatched" \in DOMAIN first => first["isMatched"] = yes,
           Overlay(row, second).isMatched = yes
    PROVE  Overlay(Overlay(row, first), second).isMatched = yes
  BY DEF Overlay, Copied

LEMMA SettledTells ==
    ASSUME NEW object, NEW s, Copied \subseteq DOMAIN object
    PROVE  /\ Copied \subseteq DOMAIN Settled(object, s)
           /\ Tells(Settled(object, s), s)
           /\ Settled(object, s).isMatched = object.isMatched
  <1>1. ASSUME NEW state
        PROVE  LET new == [object EXCEPT !.bookingStatus = state, !.paymentStatus = s]
               IN  /\ DOMAIN new = DOMAIN object
                   /\ new.paymentStatus = s /\ new.bookingStatus = state
                   /\ new.isMatched = object.isMatched
    BY DEF Copied
  <1>2. Settled(object, s) =
            [object EXCEPT !.bookingStatus = StateFor(s), !.paymentStatus = s]
    BY ZenonT(30) DEF Settled, StateFor
  <1> QED
    BY <1>1, <1>2 DEF Tells

LEMMA LoadedFacts ==
    ASSUME NEW t
    PROVE  /\ DOMAIN Loaded(t) = Copied
           /\ Loaded(t).isMatched = booking[t].isMatched
  BY DEF Loaded, Copied

\* The object once the match has chosen a provider (lines 385 and 390).
Picked(object, provider) ==
    [k \in DOMAIN object \cup {"aidServiceProfile"} |->
        CASE k = "aidServiceProfile" -> provider
          [] k = "isMatched" -> TRUE
          [] OTHER -> object[k]]

LEMMA PickedTells ==
    ASSUME NEW object, NEW provider, NEW s, Copied \subseteq DOMAIN object, Tells(object, s)
    PROVE  /\ Copied \subseteq DOMAIN Picked(object, provider)
           /\ Tells(Picked(object, provider), s)
           /\ Picked(object, provider).isMatched = TRUE
  <1>1. DOMAIN Picked(object, provider) = DOMAIN object \cup {"aidServiceProfile"}
    BY DEF Picked
  <1>2. ASSUME NEW k \in DOMAIN object \cup {"aidServiceProfile"}
        PROVE  Picked(object, provider)[k] =
                    CASE k = "aidServiceProfile" -> provider
                      [] k = "isMatched" -> TRUE
                      [] OTHER -> object[k]
    BY DEF Picked
  <1>3. Picked(object, provider)["isMatched"] = TRUE
    BY <1>2, Zenon DEF Copied
  <1>4. Picked(object, provider)["paymentStatus"] = object["paymentStatus"]
    BY <1>2, Zenon DEF Copied
  <1>5. Picked(object, provider)["bookingStatus"] = object["bookingStatus"]
    BY <1>2, Zenon DEF Copied
  <1> QED
    BY <1>1, <1>3, <1>4, <1>5 DEF Tells

\* A step as the other calls see it, and the transactions of the other calls.
Alongside(c) ==
    /\ \A d \in Calls \ {c} :
        /\ pc'[d] = pc[d] /\ match'[d] = match[d] /\ held'[d] = held[d]
        /\ entity'[d] = entity[d] /\ bookingSet'[d] = bookingSet[d]
        /\ matchSet'[d] = matchSet[d]
    /\ request' = request
    /\ overlap' = overlap
    /\ spoiled \subseteq spoiled'
    /\ \A t \in Transactions \ {TrxOf(c)} :
        booking'[t] = booking[t] /\ status'[t] = status[t] /\ credits'[t] = credits[t]

\* A call whose objects and rows a step leaves alone stays sound.
LEMMA SameSound ==
    ASSUME NEW d \in Calls, Sound(d),
           pc'[d] = pc[d], match'[d] = match[d], held'[d] = held[d], entity'[d] = entity[d],
           bookingSet'[d] = bookingSet[d], matchSet'[d] = matchSet[d],
           request'[d] = request[d], booking'[TrxOf(d)] = booking[TrxOf(d)],
           status'[TrxOf(d)] = status[TrxOf(d)], credits'[TrxOf(d)] = credits[TrxOf(d)]
    PROVE  Sound(d)'
  <1>1. TrxOf(d)' = TrxOf(d)
    BY DEF TrxOf
  <1>2. RowOf(d)' = RowOf(d)
    BY <1>1 DEF RowOf
  <1>3. ObjectSound(d)'
    BY <1>2 DEF Sound, ObjectSound, Tells
  <1>4. UpdateSound(d)'
    BY <1>2 DEF Sound, UpdateSound, Tells, Overlay
  <1>5. MatchUpdateSound(d)'
    BY <1>2 DEF Sound, MatchUpdateSound, Tells, Overlay
  <1>6. RowSound(d)'
    BY <1>1, <1>2 DEF Sound, RowSound, Tells
  <1> QED
    BY <1>3, <1>4, <1>5, <1>6 DEF Sound

\* A step of one busy call concerns that call and its transaction only.
LEMMA OwnStep ==
    ASSUME TypeOK, Apart, Settling, Quiet, NEW c \in Calls, Busy(c), Alongside(c),
           Service(TrxOf(c)) /\ TrxOf(c) \notin overlap \cup spoiled' /\ Working(c)'
                => Sound(c)',
           Service(TrxOf(c)) /\ TrxOf(c) \notin overlap \cup spoiled' /\ ~Working(c)'
                => Agreed(TrxOf(c))'
    PROVE  Settling' /\ Quiet'
  <1>a. \A d \in Calls : TrxOf(d)' = TrxOf(d) /\ TrxOf(d) \in Transactions
    BY CallTypes DEF Alongside, TrxOf
  <1>b. ASSUME NEW t \in Transactions, Clean(t)'
        PROVE  Clean(t) /\ Service(t) /\ t \notin overlap \cup spoiled'
    BY <1>b DEF Clean, Alongside, Service
  <1>c. ASSUME NEW d \in Calls \ {c}
        PROVE  Working(d)' <=> Working(d)
    BY DEF Working, Alongside
  <1>d. ASSUME NEW d \in Calls, Working(d)
        PROVE  Busy(d)
    BY <1>d DEF Working, Busy, InFlight, Matching
  <1>1. ASSUME NEW d \in Calls, Working(d)', Clean(TrxOf(d))' PROVE Sound(d)'
    <2>1. Clean(TrxOf(d)) /\ Service(TrxOf(d)) /\ TrxOf(d) \notin overlap \cup spoiled'
      BY <1>a, <1>1 DEF Clean, Alongside, Service
    <2>2. CASE d = c
      BY <1>1, <2>1, <2>2
    <2>3. CASE d # c
      <3>1. Working(d) /\ Busy(d)
        BY <1>c, <1>d, <1>1, <2>3
      <3>2. TrxOf(d) # TrxOf(c)
        BY <2>1, <2>3, <3>1 DEF Apart
      <3>3. Sound(d)
        BY <2>1, <3>1 DEF Settling
      <3>4. /\ pc'[d] = pc[d] /\ match'[d] = match[d] /\ held'[d] = held[d]
            /\ entity'[d] = entity[d] /\ bookingSet'[d] = bookingSet[d]
            /\ matchSet'[d] = matchSet[d] /\ request'[d] = request[d]
        BY <2>3 DEF Alongside
      <3>5. /\ booking'[TrxOf(d)] = booking[TrxOf(d)] /\ status'[TrxOf(d)] = status[TrxOf(d)]
            /\ credits'[TrxOf(d)] = credits[TrxOf(d)]
        BY <1>a, <3>2 DEF Alongside
      <3> QED
        BY <3>3, <3>4, <3>5, SameSound
    <2> QED
      BY <2>2, <2>3
  <1>2. ASSUME NEW t \in Transactions, Clean(t)',
               \A d \in Calls : TrxOf(d)' = t => ~Working(d)'
        PROVE  Agreed(t)'
    <2>1. Clean(t) /\ Service(t) /\ t \notin overlap \cup spoiled'
      BY <1>b, <1>2
    <2>2. CASE t = TrxOf(c)
      <3>1. ~Working(c)'
        BY <1>a, <1>2, <2>2
      <3>2. Agreed(TrxOf(c))'
        BY <2>1, <2>2, <3>1
      <3>3. TrxOf(c)' = t
        BY <1>a, <2>2
      <3> QED
        BY <3>2, <3>3 DEF Agreed
    <2>3. CASE t # TrxOf(c)
      <3>1. \A d \in Calls : TrxOf(d) = t => ~Working(d)
        BY <1>a, <1>c, <1>2, <2>3
      <3>2. Agreed(t)
        BY <2>1, <3>1 DEF Quiet
      <3>3. booking'[t] = booking[t] /\ status'[t] = status[t] /\ credits'[t] = credits[t]
        BY <2>3 DEF Alongside
      <3> QED
        BY <3>2, <3>3 DEF Agreed, Tells, IsNew
    <2> QED
      BY <2>2, <2>3
  <1>3. Settling'
    BY <1>1 DEF Settling
  <1>4. Quiet'
    BY <1>2 DEF Quiet
  <1> QED
    BY <1>3, <1>4

\* What is known of a call that works on a clean transaction.
Known(c) ==
    /\ TypeOK /\ Money /\ Single /\ MatchesStarted /\ Settling /\ Quiet
    /\ c \in Calls

LEMMA KnownFacts ==
    ASSUME NEW c, Known(c)
    PROVE  /\ TrxOf(c) \in Transactions
           /\ DOMAIN RowOf(c) = BookingColumns /\ Copied \subseteq DOMAIN RowOf(c)
           /\ DOMAIN pc = Calls /\ DOMAIN match = Calls /\ DOMAIN held = Calls
           /\ DOMAIN entity = Calls /\ DOMAIN bookingSet = Calls /\ DOMAIN matchSet = Calls
           /\ DOMAIN booking = Transactions /\ DOMAIN status = Transactions
           /\ DOMAIN credits = Transactions
  <1>1. TrxOf(c) \in Transactions
    BY CallTypes DEF Known
  <1>2. DOMAIN RowOf(c) = BookingColumns
    BY <1>1 DEF Known, TypeOK, RowsTyped, RowOf
  <1>3. Copied \subseteq BookingColumns
    BY DEF Copied, BookingColumns
  <1> QED
    BY <1>1, <1>2, <1>3 DEF Known, TypeOK, RowsTyped, CallsTyped, ObjectsTyped, HistoryTyped

\* The call is sound while it works, and nothing is left of it once it does not.
Ends(c) ==
    Service(TrxOf(c)) /\ TrxOf(c) \notin overlap \cup spoiled' =>
        /\ Working(c)' => Sound(c)'
        /\ ~Working(c)' => Agreed(TrxOf(c))'

LEMMA EndsSettle ==
    ASSUME NEW c, Known(c), Busy(c), Alongside(c), Ends(c)
    PROVE  Settling' /\ Quiet'
  BY OwnStep DEF Known, Single, Ends

\* A step that moves the call without touching a booking.
LEMMA PassingSound ==
    ASSUME NEW c, Known(c), NEW from \in InTransaction, NEW to \in InTransaction,
           Step(c, from, to),
           from \in BeforeMatch => to \in BeforeMatch,
           from \notin BeforeMatch =>
                from \in AfterReload /\ to \in AfterReload \ {"updateBooking"},
           from = "updateBooking" => "booking" \in held'[c],
           held[c] \subseteq held'[c],
           \A d \in Calls \ {c} : held'[d] = held[d],
           UNCHANGED <<booking, status, credits, request, entity, bookingSet, match, matchSet,
                       overlap, spoiled>>
    PROVE  Settling' /\ Quiet'
  <1>a. pc[c] = from /\ pc'[c] = to /\ \A d \in Calls \ {c} : pc'[d] = pc[d]
    BY KnownFacts DEF Step, Known
  <1>b. c \in Calls /\ Busy(c) /\ Working(c) /\ Working(c)'
    BY <1>a DEF Known, Busy, InFlight, Working
  <1>c. Alongside(c)
    BY <1>a DEF Alongside
  <1>d. TrxOf(c)' = TrxOf(c) /\ RowOf(c)' = RowOf(c)
    BY DEF TrxOf, RowOf
  <1>1. Ends(c)
    <2> SUFFICES ASSUME Service(TrxOf(c)), TrxOf(c) \notin overlap \cup spoiled'
                 PROVE  Sound(c)'
      BY <1>b DEF Ends
    <2>1. Sound(c)
      BY <1>b DEF Known, Settling, Clean
    <2>2. ObjectSound(c)'
      BY <1>a, <1>d, <2>1
         DEF Sound, ObjectSound, Tells, BeforeReload, BeforeMatch, AfterReload, InTransaction
    <2>3. UpdateSound(c)'
      BY <1>a, <1>d, <2>1
         DEF Sound, UpdateSound, Tells, Overlay, AfterReload, BeforeMatch, InTransaction
    <2>4. MatchUpdateSound(c)'
      BY <1>d, <2>1 DEF Sound, MatchUpdateSound, Tells, Overlay
    <2>5. RowSound(c)'
      BY <1>a, <1>d, <2>1 DEF Sound, RowSound, Tells, InTransaction
    <2> QED
      BY <2>2, <2>3, <2>4, <2>5 DEF Sound
  <1> QED
    BY <1>b, <1>c, <1>1, EndsSettle

LEMMA PassingStepsSettle ==
    ASSUME NEW c, Known(c),
           FindWallet(c) \/ ReloadWallet(c) \/ UpdateBooking(c) \/ ReloadTrx(c) \/ UpdateTrx(c)
    PROVE  Settling' /\ Quiet'
  <1>a. c \in Calls /\ DOMAIN held = Calls
    BY KnownFacts DEF Known
  <1> USE DEF InTransaction, BeforeMatch, AfterReload, rows, history
  <1>1. CASE FindWallet(c)
    <2>1. /\ Step(c, "findWallet", "reloadWallet") /\ held' = held
          /\ UNCHANGED <<booking, status, credits, request, entity, bookingSet, match, matchSet,
                         overlap, spoiled>>
      BY <1>1 DEF FindWallet
    <2> QED
      BY <2>1, PassingSound
  <1>2. CASE ReloadWallet(c)
    <2>1. /\ Step(c, "reloadWallet", "updateWallet") /\ held' = held
          /\ UNCHANGED <<booking, status, credits, request, entity, bookingSet, match, matchSet,
                         overlap, spoiled>>
      BY <1>2 DEF ReloadWallet
    <2> QED
      BY <2>1, PassingSound
  <1>3. CASE UpdateBooking(c)
    <2>1. /\ Step(c, "updateBooking", "reloadTrx") /\ Lock(c, "booking")
          /\ UNCHANGED <<booking, status, credits, request, entity, bookingSet, match, matchSet,
                         overlap, spoiled>>
      BY <1>3 DEF UpdateBooking
    <2>2. /\ held[c] \subseteq held'[c] /\ "booking" \in held'[c]
          /\ \A d \in Calls \ {c} : held'[d] = held[d]
      BY <1>a, <2>1 DEF Lock
    <2> QED
      BY <2>1, <2>2, PassingSound
  <1>4. CASE ReloadTrx(c)
    <2> DEFINE to == IF status[TrxOf(c)] = request[c].paymentStatus THEN "commit" ELSE "updateTrx"
    <2>1. /\ Step(c, "reloadTrx", to) /\ held' = held
          /\ UNCHANGED <<booking, status, credits, request, entity, bookingSet, match, matchSet,
                         overlap, spoiled>>
      BY <1>4 DEF ReloadTrx
    <2>2. to \in {"commit", "updateTrx"}
      OBVIOUS
    <2> HIDE DEF to
    <2> QED
      BY <2>1, <2>2, PassingSound
  <1>5. CASE UpdateTrx(c)
    <2>1. /\ Step(c, "updateTrx", "commit") /\ Lock(c, "trx")
          /\ UNCHANGED <<booking, status, credits, request, entity, bookingSet, match, matchSet,
                         overlap, spoiled>>
      BY <1>5 DEF UpdateTrx
    <2>2. /\ held[c] \subseteq held'[c]
          /\ \A d \in Calls \ {c} : held'[d] = held[d]
      BY <1>a, <2>1 DEF Lock
    <2> QED
      BY <2>1, <2>2, PassingSound
  <1> QED
    BY <1>1, <1>2, <1>3, <1>4, <1>5

\* The match starts on the object the call has just settled.
LEMMA UpdateWalletSettles ==
    ASSUME NEW c, Known(c), UpdateWallet(c)
    PROVE  Settling' /\ Quiet'
  <1> DEFINE t == TrxOf(c)
             p == request[c].paymentStatus
             to == IF PurposeOf[t] = "Service Payment" THEN "reloadBooking" ELSE "reloadTrx"
  <1>a. /\ Step(c, "updateWallet", to) /\ Lock(c, "wallet")
        /\ UNCHANGED <<booking, status, credits, request, bookingSet, matchSet, overlap, spoiled>>
        /\ match' = match \/ match' = [match EXCEPT ![c] = "pick"]
        /\ entity' = entity \/ entity' = [entity EXCEPT ![c] = Settled(entity[c], p)]
    BY ZenonT(30) DEF UpdateWallet, rows, history
  <1>b. Service(t) => /\ to = "reloadBooking"
                      /\ match' = [match EXCEPT ![c] = "pick"]
                      /\ entity' = [entity EXCEPT ![c] = Settled(entity[c], p)]
    BY ZenonT(30) DEF UpdateWallet, Service
  <1>c. to \in {"reloadBooking", "reloadTrx"}
    BY ZenonT(30)
  <1> HIDE DEF to
  <1>d. pc[c] = "updateWallet" /\ pc'[c] = to /\ \A d \in Calls \ {c} : pc'[d] = pc[d]
    BY <1>a, KnownFacts DEF Step, Known
  <1>e. c \in Calls /\ Busy(c) /\ Working(c) /\ Working(c)'
    BY <1>c, <1>d DEF Known, Busy, InFlight, Working, InTransaction
  <1>f. Alongside(c)
    BY <1>a, <1>d, KnownFacts DEF Alongside, Lock
  <1>g. TrxOf(c)' = t /\ RowOf(c)' = RowOf(c) /\ request'[c] = request[c]
    BY <1>a DEF TrxOf, RowOf
  <1>1. Ends(c)
    <2> SUFFICES ASSUME Service(t), t \notin overlap \cup spoiled'
                 PROVE  Sound(c)'
      BY <1>e DEF Ends
    <2>1. Sound(c)
      BY <1>a, <1>e DEF Known, Settling, Clean
    <2>2. /\ pc'[c] = "reloadBooking" /\ match'[c] = "pick"
          /\ entity'[c] = Settled(entity[c], p)
      BY <1>b, <1>d, <1>e, KnownFacts
    <2>3. /\ Copied \subseteq DOMAIN entity[c]
          /\ entity[c].isMatched \in {TRUE, RowOf(c).isMatched}
      BY <1>d, <2>1 DEF Sound, ObjectSound, BeforeReload, BeforeMatch
    <2>4. ObjectSound(c)'
      <3>1. /\ Copied \subseteq DOMAIN entity'[c] /\ Tells(entity'[c], p)
            /\ entity'[c].isMatched \in {TRUE, RowOf(c).isMatched}
        BY <2>2, <2>3, SettledTells
      <3> QED
        BY <1>g, <2>2, <3>1 DEF ObjectSound, Tells
    <2>5. UpdateSound(c)' /\ MatchUpdateSound(c)'
      BY <2>2 DEF UpdateSound, MatchUpdateSound, AfterReload
    <2>6. RowSound(c)'
      BY <1>a, <1>d, <1>g, <2>1, <2>2 DEF Sound, RowSound, InTransaction
    <2> QED
      BY <2>4, <2>5, <2>6 DEF Sound
  <1> QED
    BY <1>e, <1>f, <1>1, EndsSettle

\* save compares the object with the row: with its UPDATE the row tells what the object does.
LEMMA ReloadBookingSettles ==
    ASSUME NEW c, Known(c), ReloadBooking(c)
    PROVE  Settling' /\ Quiet'
  <1> DEFINE t == TrxOf(c)
             p == request[c].paymentStatus
             changes == Changed(entity[c], RowOf(c))
             to == IF changes = NoChange THEN "reloadTrx" ELSE "updateBooking"
  <1>a. /\ Step(c, "reloadBooking", to)
        /\ bookingSet' = [bookingSet EXCEPT ![c] = changes]
        /\ UNCHANGED <<booking, status, credits, request, entity, held, match, matchSet, overlap,
                       spoiled>>
    BY DEF ReloadBooking, RowOf, rows, history
  <1>b. /\ to \in {"reloadTrx", "updateBooking"}
        /\ to = "reloadTrx" => changes = NoChange
    OBVIOUS
  <1> HIDE DEF to
  <1>d. pc[c] = "reloadBooking" /\ pc'[c] = to /\ \A d \in Calls \ {c} : pc'[d] = pc[d]
    BY <1>a, KnownFacts DEF Step, Known
  <1>e. c \in Calls /\ Busy(c) /\ Working(c) /\ Working(c)'
    BY <1>b, <1>d DEF Known, Busy, InFlight, Working, InTransaction
  <1>f. Alongside(c)
    <2>1. \A d \in Calls \ {c} : bookingSet'[d] = bookingSet[d]
      BY <1>a, KnownFacts
    <2> QED
      BY <1>a, <1>d, <2>1 DEF Alongside
  <1>g. TrxOf(c)' = t /\ RowOf(c)' = RowOf(c) /\ request'[c] = request[c] /\ entity'[c] = entity[c]
        /\ match'[c] = match[c] /\ matchSet'[c] = matchSet[c]
    BY <1>a DEF TrxOf, RowOf
  <1>h. bookingSet'[c] = changes
    BY <1>a, <1>e, KnownFacts
  <1>1. Ends(c)
    <2> SUFFICES ASSUME Service(t), t \notin overlap \cup spoiled'
                 PROVE  Sound(c)'
      BY <1>e DEF Ends
    <2>1. Sound(c)
      BY <1>a, <1>e DEF Known, Settling, Clean
    <2>2. /\ Copied \subseteq DOMAIN entity[c] /\ Tells(entity[c], p)
          /\ entity[c].isMatched \in {TRUE, RowOf(c).isMatched}
      BY <1>d, <2>1 DEF Sound, ObjectSound, BeforeReload
    <2>3. Tells(Overlay(RowOf(c), changes), p)
      BY <2>2, ChangedTells, KnownFacts
    <2>4. "isMatched" \in DOMAIN changes => changes["isMatched"] = TRUE
      <3> SUFFICES ASSUME "isMatched" \in DOMAIN changes PROVE changes["isMatched"] = TRUE
        OBVIOUS
      <3>1. entity[c].isMatched # RowOf(c).isMatched /\ changes["isMatched"] = entity[c].isMatched
        BY <2>2, ChangedMatched, KnownFacts
      <3> QED
        BY <2>2, <3>1
    <2> HIDE DEF changes
    <2>5. ObjectSound(c)'
      BY <1>b, <1>d, <1>g, <2>1
         DEF Sound, ObjectSound, Tells, BeforeReload, BeforeMatch
    <2>6. UpdateSound(c)'
      BY <1>b, <1>d, <1>g, <1>h, <2>3, <2>4 DEF UpdateSound, AfterReload, Tells, Overlay
    <2>7. MatchUpdateSound(c)'
      BY <1>g, <2>1 DEF Sound, MatchUpdateSound, Tells, Overlay
    <2>8. RowSound(c)'
      BY <1>a, <1>b, <1>d, <1>g, <2>1 DEF Sound, RowSound, InTransaction
    <2> QED
      BY <2>5, <2>6, <2>7, <2>8 DEF Sound
  <1> QED
    BY <1>e, <1>f, <1>1, EndsSettle

\* The commit of the call: the row and the transaction tell the same status from here on.
LEMMA CommitSettles ==
    ASSUME NEW c, Known(c), Commit(c)
    PROVE  Settling' /\ Quiet'
  <1> DEFINE t == TrxOf(c)
             p == request[c].paymentStatus
  <1>a. /\ Step(c, "commit", "done") /\ CommitRows(c) /\ RecordCommit(c) /\ Forget(c)
        /\ UNCHANGED <<request, match, matchSet, overlap, spoiled>>
    BY DEF Commit
  <1>d. pc[c] = "commit" /\ pc'[c] = "done" /\ \A d \in Calls \ {c} : pc'[d] = pc[d]
    BY <1>a, KnownFacts DEF Step, Known
  <1>e. c \in Calls /\ Busy(c) /\ Working(c)
    BY <1>d DEF Known, Busy, InFlight, Working, InTransaction
  <1>f. Alongside(c)
    <2>1. \A d \in Calls \ {c} : /\ held'[d] = held[d] /\ entity'[d] = entity[d]
                                 /\ bookingSet'[d] = bookingSet[d]
      BY <1>a, KnownFacts DEF Forget
    <2>2. \A x \in Transactions \ {t} :
            booking'[x] = booking[x] /\ status'[x] = status[x] /\ credits'[x] = credits[x]
      BY <1>a, KnownFacts DEF CommitRows, RecordCommit
    <2> QED
      BY <1>a, <1>d, <2>1, <2>2 DEF Alongside
  <1>g. TrxOf(c)' = t /\ RowOf(c)' = booking'[t] /\ request'[c] = request[c]
        /\ match'[c] = match[c] /\ matchSet'[c] = matchSet[c]
    BY <1>a DEF TrxOf, RowOf
  <1>1. Ends(c)
    <2> SUFFICES ASSUME Service(t), t \notin overlap \cup spoiled'
                 PROVE  /\ Working(c)' => Sound(c)'
                        /\ ~Working(c)' => Agreed(TrxOf(c))'
      BY DEF Ends
    <2>1. Sound(c)
      BY <1>a, <1>e DEF Known, Settling, Clean
    <2>2. status'[t] = p
      <3>1. "trx" \in held[c]
        BY <1>d, <1>e DEF Known, Single, Fresh, InTransaction
      <3> QED
        BY <1>a, <3>1, KnownFacts DEF CommitRows
    <2>3. \/ booking'[t] = Overlay(RowOf(c), bookingSet[c])
          \/ booking'[t] = RowOf(c) /\ bookingSet[c] = NoChange
      <3>1. "booking" \in held[c] \/ bookingSet[c] = NoChange
        BY <1>d, <2>1 DEF Sound, UpdateSound, AfterReload
      <3>2. booking' = IF "booking" \in held[c]
                       THEN [booking EXCEPT ![t] = Overlay(booking[t], bookingSet[c])] ELSE booking
        BY <1>a DEF CommitRows
      <3> QED
        BY <3>1, <3>2, KnownFacts DEF RowOf
    <2>4. /\ Tells(Overlay(RowOf(c), bookingSet[c]), p)
          /\ "isMatched" \in DOMAIN bookingSet[c] => bookingSet[c]["isMatched"] = TRUE
      BY <1>d, <2>1 DEF Sound, UpdateSound, AfterReload
    <2>5. Tells(booking'[t], p)
      BY <2>3, <2>4, NoChangeTells, KnownFacts
    <2>6. RowOf(c).isMatched = TRUE => booking'[t].isMatched = TRUE
      <3>1. RowOf(c).isMatched = TRUE => Overlay(RowOf(c), bookingSet[c]).isMatched = TRUE
        BY <2>4, OverlayMatched, KnownFacts
      <3> QED
        BY <2>3, <3>1
    <2>7. match[c] \in MatchInTransaction \cup {"none", "done"}
      <3>1. match[c] \notin {"failed", "lost"}
        BY <1>a, <1>e DEF Known, MatchesStarted, Started
      <3> QED
        BY <1>e, <3>1 DEF Known, TypeOK, CallsTyped
    <2>8. ASSUME Working(c)' PROVE Sound(c)'
      <3>1. match[c] \in MatchInTransaction
        BY <1>d, <1>g, <2>8 DEF Working, InTransaction
      <3>2. entity'[c] = entity[c]
        BY <1>a, <3>1 DEF Forget, Matching
      <3>3. ObjectSound(c)'
        BY <1>d, <1>g, <2>1, <3>2
           DEF Sound, ObjectSound, Tells, BeforeReload, BeforeMatch
      <3>4. UpdateSound(c)'
        BY <1>d DEF UpdateSound, AfterReload
      <3>5. MatchUpdateSound(c)'
        <4> SUFFICES ASSUME match[c] \in {"update", "commit"}
                     PROVE  /\ Tells(Overlay(booking'[t], matchSet[c]), p)
                            /\ Overlay(booking'[t], matchSet[c]).isMatched = TRUE
          BY <1>g DEF MatchUpdateSound, Tells, Overlay
        <4>1. /\ Tells(Overlay(RowOf(c), matchSet[c]), p)
              /\ Overlay(RowOf(c), matchSet[c]).isMatched = TRUE
          BY <2>1 DEF Sound, MatchUpdateSound
        <4>2. Copied \subseteq DOMAIN RowOf(c)
          BY KnownFacts
        <4>3. Tells(Overlay(Overlay(RowOf(c), bookingSet[c]), matchSet[c]), p)
          BY <2>4, <4>1, <4>2, OverlayTells
        <4>4. Overlay(Overlay(RowOf(c), bookingSet[c]), matchSet[c]).isMatched = TRUE
          BY <2>4, <4>1, <4>2, OverlayTwiceMatched
        <4> QED
          BY <2>3, <4>1, <4>3, <4>4
      <3>6. RowSound(c)'
        BY <1>d, <1>g, <2>2, <2>5 DEF RowSound, Tells, InTransaction
      <3> QED
        BY <3>3, <3>4, <3>5, <3>6 DEF Sound
    <2>9. ASSUME ~Working(c)' PROVE Agreed(TrxOf(c))'
      <3>1. match[c] \in {"none", "done"}
        BY <1>g, <2>7, <2>9 DEF Working
      <3>2. credits'[t] > 0 => booking'[t].isMatched = TRUE
        <4>1. CASE match[c] = "done"
          <5>1. RowOf(c).isMatched = TRUE
            BY <1>d, <2>1, <4>1 DEF Sound, RowSound, InTransaction
          <5> QED
            BY <2>6, <5>1
        <4>2. CASE match[c] = "none"
          <5>1. ~Settles(t, p)
            BY <1>d, <1>e, <4>2 DEF Known, MatchesStarted, Started, InTransaction, BeforeMatch
          <5>2. "wallet" \notin held[c]
            BY <1>e, <5>1 DEF Known, Money, CopiesBacked, HoldsWalletCopy
          <5>3. credits' = credits
            BY <1>a, <5>2 DEF RecordCommit
          <5>4. credits[t] > 0 => RowOf(c).isMatched = TRUE
            BY <1>d, <2>1 DEF Sound, RowSound, InTransaction
          <5> QED
            BY <2>6, <5>3, <5>4
        <4> QED
          BY <3>1, <4>1, <4>2
      <3> QED
        BY <1>g, <2>2, <2>5, <3>2 DEF Agreed, Tells
    <2> QED
      BY <2>8, <2>9
  <1> QED
    BY <1>e, <1>f, <1>1, EndsSettle

\* What a step of the match of call c leaves alone.
LEMMA MatchAlongside ==
    ASSUME NEW c, Known(c), match[c] \in MatchInTransaction, NEW to,
           match' = [match EXCEPT ![c] = to],
           \A d \in Calls \ {c} : entity'[d] = entity[d] /\ matchSet'[d] = matchSet[d],
           UNCHANGED <<pc, request, bookingSet, held, status, credits, overlap>>,
           spoiled \subseteq spoiled',
           \A t \in Transactions \ {TrxOf(c)} : booking'[t] = booking[t]
    PROVE  /\ c \in Calls /\ Busy(c) /\ Working(c) /\ Alongside(c)
           /\ match'[c] = to
           /\ TrxOf(c)' = TrxOf(c)
  <1>1. c \in Calls /\ Busy(c) /\ Working(c)
    BY DEF Known, Busy, Matching, Working
  <1>2. match'[c] = to /\ \A d \in Calls \ {c} : match'[d] = match[d]
    BY <1>1, KnownFacts
  <1>3. Alongside(c)
    BY <1>2 DEF Alongside
  <1> QED
    BY <1>1, <1>2, <1>3 DEF TrxOf

\* A match runs behind the wallet UPDATE of its call, or after the call is done.
LEMMA MatchPoints ==
    ASSUME NEW c, Known(c), match[c] \in MatchInTransaction, TrxOf(c) \notin spoiled
    PROVE  pc[c] \in (InTransaction \ BeforeMatch) \cup {"done"}
  <1>1. pc[c] \notin BeforeMatch \cup {"idle", "failed", "lost"}
    BY DEF Known, MatchesStarted, Started, MatchInTransaction
  <1> QED
    BY <1>1 DEF Known, TypeOK, CallsTyped

LEMMA PickSettles ==
    ASSUME NEW c, Known(c), Pick(c)
    PROVE  Settling' /\ Quiet'
  <1>1. PICK provider \in Providers \cup {AdminProfile} :
            entity' = [entity EXCEPT ![c] = Picked(entity[c], provider)]
    <2>1. \E provider \in Providers \cup {AdminProfile} :
            entity' = [entity EXCEPT ![c] =
                [k \in DOMAIN entity[c] \cup {"aidServiceProfile"} |->
                    CASE k = "aidServiceProfile" -> provider
                      [] k = "isMatched" -> TRUE
                      [] OTHER -> entity[c][k]]]
      BY Zenon DEF Pick
    <2> QED
      BY <2>1, Zenon DEF Picked
  <1>2. /\ match[c] = "pick" /\ match' = [match EXCEPT ![c] = "reload"]
        /\ UNCHANGED <<pc, request, bookingSet, held, status, credits, overlap, spoiled, booking,
                       matchSet>>
    BY DEF Pick, MatchStep, rows, history
  <1>3. entity'[c] = Picked(entity[c], provider) /\ \A d \in Calls \ {c} : entity'[d] = entity[d]
    BY <1>1, KnownFacts DEF Known
  <1>a. /\ c \in Calls /\ Busy(c) /\ Working(c) /\ Alongside(c)
        /\ match'[c] = "reload" /\ TrxOf(c)' = TrxOf(c)
    BY <1>2, <1>3, MatchAlongside DEF MatchInTransaction
  <1>b. RowOf(c)' = RowOf(c) /\ Working(c)'
    BY <1>a, <1>2 DEF RowOf, Working, MatchInTransaction
  <1>4. Ends(c)
    <2> SUFFICES ASSUME Service(TrxOf(c)), TrxOf(c) \notin overlap \cup spoiled'
                 PROVE  Sound(c)'
      BY <1>b DEF Ends
    <2>1. Sound(c)
      BY <1>a, <1>2 DEF Known, Settling, Clean
    <2>2. /\ Copied \subseteq DOMAIN entity'[c]
          /\ Tells(entity'[c], request[c].paymentStatus)
          /\ entity'[c].isMatched = TRUE
      <3>1. Copied \subseteq DOMAIN entity[c] /\ Tells(entity[c], request[c].paymentStatus)
        BY <1>2, <2>1 DEF Sound, ObjectSound, MatchInTransaction
      <3> QED
        BY <1>3, <3>1, PickedTells
    <2>3. ObjectSound(c)'
      BY <1>2, <2>2 DEF ObjectSound, Tells
    <2>4. UpdateSound(c)'
      BY <1>b, <1>2, <2>1 DEF Sound, UpdateSound, Tells, Overlay
    <2>5. MatchUpdateSound(c)'
      BY <1>a DEF MatchUpdateSound
    <2>6. RowSound(c)'
      BY <1>a, <1>b, <1>2, <2>1 DEF Sound, RowSound, Tells
    <2> QED
      BY <2>3, <2>4, <2>5, <2>6 DEF Sound
  <1> QED
    BY <1>a, <1>4, EndsSettle

LEMMA MatchReloadSettles ==
    ASSUME NEW c, Known(c), MatchReload(c)
    PROVE  Settling' /\ Quiet'
  <1> DEFINE changes == Changed(entity[c], RowOf(c))
             p == request[c].paymentStatus
  <1>1. /\ match[c] = "reload" /\ match' = [match EXCEPT ![c] = "update"]
        /\ matchSet' = [matchSet EXCEPT ![c] = changes]
        /\ UNCHANGED <<pc, request, bookingSet, held, status, credits, overlap, spoiled, booking,
                       entity>>
    BY DEF MatchReload, MatchStep, RowOf, rows, history
  <1>2. matchSet'[c] = changes /\ \A d \in Calls \ {c} : matchSet'[d] = matchSet[d]
    BY <1>1, KnownFacts DEF Known
  <1>a. /\ c \in Calls /\ Busy(c) /\ Working(c) /\ Alongside(c)
        /\ match'[c] = "update" /\ TrxOf(c)' = TrxOf(c)
    BY <1>1, <1>2, MatchAlongside DEF MatchInTransaction
  <1>b. RowOf(c)' = RowOf(c) /\ Working(c)'
    BY <1>a, <1>1 DEF RowOf, Working, MatchInTransaction
  <1>4. Ends(c)
    <2> SUFFICES ASSUME Service(TrxOf(c)), TrxOf(c) \notin overlap \cup spoiled'
                 PROVE  Sound(c)'
      BY <1>b DEF Ends
    <2>1. Sound(c)
      BY <1>a, <1>1 DEF Known, Settling, Clean
    <2>2. Copied \subseteq DOMAIN entity[c] /\ Tells(entity[c], p) /\ entity[c].isMatched = TRUE
      BY <1>1, <2>1 DEF Sound, ObjectSound, MatchInTransaction
    <2>3. Tells(Overlay(RowOf(c), changes), p) /\ Overlay(RowOf(c), changes).isMatched = TRUE
      <3>1. Copied \subseteq DOMAIN RowOf(c)
        BY KnownFacts
      <3>2. Tells(Overlay(RowOf(c), changes), p)
        BY <2>2, <3>1, ChangedTells
      <3>3. Overlay(RowOf(c), changes).isMatched = entity[c].isMatched
        BY <2>2, <3>1, ChangedMatched
      <3> QED
        BY <2>2, <3>2, <3>3
    <2> HIDE DEF changes
    <2>4. ObjectSound(c)'
      BY <1>b, <1>1, <2>1, <2>2 DEF Sound, ObjectSound, Tells
    <2>5. UpdateSound(c)'
      BY <1>b, <1>1, <2>1 DEF Sound, UpdateSound, Tells, Overlay
    <2>6. MatchUpdateSound(c)'
      BY <1>2, <1>b, <1>1, <2>3 DEF MatchUpdateSound, Tells, Overlay
    <2>7. RowSound(c)'
      BY <1>a, <1>b, <1>1, <2>1 DEF Sound, RowSound, Tells
    <2> QED
      BY <2>4, <2>5, <2>6, <2>7 DEF Sound
  <1> QED
    BY <1>a, <1>4, EndsSettle

LEMMA MatchUpdateSettles ==
    ASSUME NEW c, Known(c), MatchUpdate(c)
    PROVE  Settling' /\ Quiet'
  <1>1. /\ match[c] = "update" /\ match' = [match EXCEPT ![c] = "commit"]
        /\ UNCHANGED <<pc, request, bookingSet, held, status, credits, overlap, spoiled, booking,
                       entity, matchSet>>
    BY DEF MatchUpdate, MatchStep, rows, history
  <1>a. /\ c \in Calls /\ Busy(c) /\ Working(c) /\ Alongside(c)
        /\ match'[c] = "commit" /\ TrxOf(c)' = TrxOf(c)
    BY <1>1, MatchAlongside DEF MatchInTransaction
  <1>b. RowOf(c)' = RowOf(c) /\ Working(c)'
    BY <1>a, <1>1 DEF RowOf, Working, MatchInTransaction
  <1>4. Ends(c)
    <2> SUFFICES ASSUME Service(TrxOf(c)), TrxOf(c) \notin overlap \cup spoiled'
                 PROVE  Sound(c)'
      BY <1>b DEF Ends
    <2>1. Sound(c)
      BY <1>a, <1>1 DEF Known, Settling, Clean
    <2>2. match[c] \in MatchInTransaction \ {"pick"}
      BY <1>1 DEF MatchInTransaction
    <2>3. ObjectSound(c)'
      BY <1>b, <1>1, <2>1, <2>2 DEF Sound, ObjectSound, Tells
    <2>4. UpdateSound(c)'
      BY <1>b, <1>1, <2>1 DEF Sound, UpdateSound, Tells, Overlay
    <2>5. MatchUpdateSound(c)'
      BY <1>b, <1>1, <2>1 DEF Sound, MatchUpdateSound, Tells, Overlay
    <2>6. RowSound(c)'
      BY <1>a, <1>b, <1>1, <2>1 DEF Sound, RowSound, Tells
    <2> QED
      BY <2>3, <2>4, <2>5, <2>6 DEF Sound
  <1> QED
    BY <1>a, <1>4, EndsSettle

\* The match commits before or after its call does, whichever comes first.
LEMMA MatchCommitSettles ==
    ASSUME NEW c, Known(c), MatchCommit(c)
    PROVE  Settling' /\ Quiet'
  <1> DEFINE p == request[c].paymentStatus
  <1>1. /\ match[c] = "commit" /\ match' = [match EXCEPT ![c] = "done"]
        /\ booking' = [booking EXCEPT ![TrxOf(c)] = Overlay(RowOf(c), matchSet[c])]
        /\ UNCHANGED <<pc, request, bookingSet, held, status, credits, overlap, spoiled>>
        /\ ForgetMatch(c)
    BY DEF MatchCommit, MatchStep, RowOf, history
  <1>2. /\ InFlight(c) => entity' = entity
        /\ \A d \in Calls \ {c} : entity'[d] = entity[d] /\ matchSet'[d] = matchSet[d]
    BY <1>1, KnownFacts DEF ForgetMatch
  <1>3. /\ \A t \in Transactions \ {TrxOf(c)} : booking'[t] = booking[t]
        /\ booking'[TrxOf(c)] = Overlay(RowOf(c), matchSet[c])
    BY <1>1, KnownFacts
  <1>a. /\ c \in Calls /\ Busy(c) /\ Working(c) /\ Alongside(c)
        /\ match'[c] = "done" /\ TrxOf(c)' = TrxOf(c)
    BY <1>1, <1>2, <1>3, MatchAlongside DEF MatchInTransaction
  <1>b. RowOf(c)' = Overlay(RowOf(c), matchSet[c])
    BY <1>a, <1>3 DEF RowOf
  <1>c. Working(c)' <=> pc[c] \in InTransaction
    BY <1>a, <1>1 DEF Working, MatchInTransaction
  <1>4. Ends(c)
    <2> SUFFICES ASSUME Service(TrxOf(c)), TrxOf(c) \notin overlap \cup spoiled'
                 PROVE  /\ Working(c)' => Sound(c)'
                        /\ ~Working(c)' => Agreed(TrxOf(c))'
      BY DEF Ends
    <2>1. Sound(c)
      BY <1>a, <1>1 DEF Known, Settling, Clean
    <2>2. Tells(RowOf(c)', p) /\ RowOf(c)'.isMatched = TRUE
      BY <1>b, <1>1, <2>1 DEF Sound, MatchUpdateSound
    <2>3. pc[c] \in (InTransaction \ BeforeMatch) \cup {"done"}
      BY <1>1, MatchPoints DEF MatchInTransaction
    <2>4. ASSUME pc[c] \in InTransaction PROVE Sound(c)'
      <3>1. entity'[c] = entity[c]
        BY <1>2, <2>4 DEF InFlight
      <3>2. pc[c] \in BeforeReload => pc[c] = "reloadBooking"
        BY <2>3 DEF BeforeReload, BeforeMatch
      <3>3. Copied \subseteq DOMAIN entity[c] /\ Tells(entity[c], p) /\ entity[c].isMatched = TRUE
        BY <1>1, <2>1 DEF Sound, ObjectSound, MatchInTransaction
      <3>4. ObjectSound(c)'
        BY <1>a, <1>1, <3>1, <3>3 DEF ObjectSound, Tells, MatchInTransaction
      <3>5. UpdateSound(c)'
        <4>1. ASSUME pc[c] \in AfterReload
              PROVE  Tells(Overlay(RowOf(c)', bookingSet[c]), p)
          <5>1. Tells(Overlay(RowOf(c), bookingSet[c]), p)
            BY <2>1, <4>1 DEF Sound, UpdateSound
          <5>2. Tells(Overlay(RowOf(c), matchSet[c]), p) /\ Copied \subseteq DOMAIN RowOf(c)
            BY <1>1, <2>1, KnownFacts DEF Sound, MatchUpdateSound
          <5> QED
            BY <1>b, <5>1, <5>2, OverlayTells
        <4> QED
          BY <1>1, <2>1, <4>1 DEF Sound, UpdateSound, Tells, Overlay
      <3>6. MatchUpdateSound(c)'
        BY <1>a DEF MatchUpdateSound
      <3>7. RowSound(c)'
        BY <1>1, <2>2, <2>4 DEF RowSound, InTransaction
      <3> QED
        BY <3>4, <3>5, <3>6, <3>7 DEF Sound
    <2>5. ASSUME pc[c] = "done" PROVE Agreed(TrxOf(c))'
      <3>1. status[TrxOf(c)] = p
        BY <2>1, <2>5 DEF Sound, RowSound
      <3>2. booking'[TrxOf(c)] = RowOf(c)'
        BY <1>a DEF RowOf
      <3> QED
        BY <1>a, <1>1, <2>2, <3>1, <3>2 DEF Agreed, Tells
    <2> QED
      BY <1>c, <2>3, <2>4, <2>5
  <1> QED
    BY <1>a, <1>4, EndsSettle

\* An error spoils the transaction, and nothing more is claimed of it.
LEMMA ErrorSettles ==
    ASSUME NEW c, Known(c), DatabaseError(c) \/ MatchError(c)
    PROVE  Settling' /\ Quiet'
  <1>1. /\ Busy(c)
        /\ \A d \in Calls \ {c} :
            /\ pc'[d] = pc[d] /\ match'[d] = match[d] /\ held'[d] = held[d]
            /\ entity'[d] = entity[d] /\ bookingSet'[d] = bookingSet[d]
            /\ matchSet'[d] = matchSet[d]
        /\ TrxOf(c) \in spoiled' /\ spoiled \subseteq spoiled'
        /\ UNCHANGED <<request, overlap, booking, status, credits>>
    <2>1. CASE DatabaseError(c)
      BY <2>1, KnownFacts DEF DatabaseError, Forget, Busy, InFlight, rows
    <2>2. CASE MatchError(c)
      BY <2>2, KnownFacts DEF MatchError, ForgetMatch, Busy, Matching, rows
    <2> QED
      BY <2>1, <2>2
  <1>2. Alongside(c) /\ Ends(c)
    BY <1>1 DEF Alongside, Ends
  <1> QED
    BY <1>1, <1>2, EndsSettle

\* A refused or failed call that is answered works on nothing any more.
LEMMA AnswerSettles ==
    ASSUME NEW c, Known(c), AnswerError(c)
    PROVE  Settling' /\ Quiet'
  <1>1. /\ pc[c] = "failed" /\ pc'[c] = "done" /\ \A d \in Calls \ {c} : pc'[d] = pc[d]
        /\ c \in Calls
        /\ UNCHANGED <<booking, status, credits, request, entity, bookingSet, held, match,
                       matchSet, overlap, spoiled>>
    BY KnownFacts DEF AnswerError, Step, rows, history, Known
  <1>2. Busy(c) /\ Alongside(c)
    BY <1>1 DEF Busy, InFlight, Alongside
  <1>3. Ends(c)
    <2> SUFFICES ASSUME Service(TrxOf(c)), TrxOf(c) \notin overlap \cup spoiled
                 PROVE  ~Working(c)' /\ Agreed(TrxOf(c))'
      BY <1>1 DEF Ends
    <2>1. match[c] = "none"
      BY <1>1 DEF Known, MatchesStarted, Started
    <2>2. ~Working(c) /\ ~Working(c)'
      BY <1>1, <2>1 DEF Working, InTransaction, MatchInTransaction
    <2>3. \A d \in Calls : TrxOf(d) = TrxOf(c) => ~Working(d)
      BY <1>2, <1>1, <2>2 DEF Known, Single, Apart, Working, Busy, InFlight, Matching
    <2>4. Agreed(TrxOf(c))
      BY <2>3, KnownFacts DEF Known, Quiet, Clean
    <2> QED
      BY <1>1, <2>2, <2>4 DEF Agreed, Tells, IsNew, TrxOf
  <1> QED
    BY <1>2, <1>3, EndsSettle

\* A call that arrives where nothing works finds a booking that agrees with its payment.
LEMMA ArriveSettles ==
    ASSUME NEW c, Known(c), NEW t \in Transactions, NEW s \in Requests, NEW a \in Awaited,
           Refuse(c, t, s, a) \/ Begin(c, t, s, a)
    PROVE  Settling' /\ Quiet'
  <1>a. /\ pc[c] = "idle"
        /\ request' = [request EXCEPT ![c] =
                [trx |-> t, paymentStatus |-> s, awaited |-> a]]
        /\ overlap' = IF \E d \in Calls \ {c} : Busy(d) /\ TrxOf(d) = t
                      THEN overlap \cup {t} ELSE overlap
        /\ UNCHANGED <<booking, status, credits, bookingSet, held, match, matchSet, spoiled>>
    BY DEF Refuse, Begin, Arrive, rows
  <1>b. c \in Calls /\ DOMAIN request = Calls
    BY DEF Known, TypeOK, CallsTyped
  <1>c. match[c] = "none"
    BY <1>a, <1>b DEF Known, MatchesStarted, Started
  <1>d. \A d \in Calls \ {c} : pc'[d] = pc[d] /\ entity'[d] = entity[d]
    BY KnownFacts DEF Refuse, Begin, Enter
  <1>e. /\ TrxOf(c)' = t /\ request'[c].paymentStatus = s
        /\ \A d \in Calls \ {c} : request'[d] = request[d] /\ TrxOf(d)' = TrxOf(d)
    BY <1>a, <1>b DEF TrxOf
  <1>f. \A d \in Calls \ {c} : Working(d)' <=> Working(d)
    BY <1>a, <1>d DEF Working
  <1>g. ~Working(c)
    BY <1>a, <1>c DEF Working, InTransaction, MatchInTransaction
  <1>h. \A x \in Transactions : Clean(x)' => Clean(x) /\ Service(x)
    BY <1>a DEF Clean, Service
  <1>i. Clean(t)' => \A d \in Calls : TrxOf(d) = t => ~Working(d)
    <2> SUFFICES ASSUME Clean(t)', NEW d \in Calls, TrxOf(d) = t, Working(d) PROVE FALSE
      OBVIOUS
    <2>1. d # c /\ Busy(d)
      BY <1>g DEF Working, Busy, InFlight, Matching
    <2> QED
      BY <1>a, <2>1 DEF Clean
  <1>j. Clean(t)' => Agreed(t)
    BY <1>h, <1>i DEF Known, Quiet
  <1>1. ASSUME Clean(t)', Working(c)' PROVE Sound(c)'
    <2>1. pc'[c] \in InTransaction
      BY <1>a, <1>1, <1>c DEF Working, MatchInTransaction
    <2>2. ~Refuse(c, t, s, a)
      BY <1>b, <2>1, KnownFacts DEF Refuse, InTransaction
    <2>3. Enter(c, t, s)
      BY <2>2 DEF Begin
    <2>4. Service(t)
      BY <1>1, <1>h
    <2>5. pc'[c] = IF s = "Paid" THEN "findWallet" ELSE "reloadBooking"
      <3>1. pc' = [pc EXCEPT ![c] = AfterFind(t, s)]
        BY <2>3 DEF Enter
      <3>2. pc'[c] = AfterFind(t, s)
        BY <1>b, <3>1, KnownFacts
      <3> QED
        BY <3>2, <2>4, ServiceBranch
    <2>6. entity'[c] = IF s = "Paid" THEN Loaded(t) ELSE Settled(Loaded(t), s)
      <3>1. entity' = [entity EXCEPT ![c] =
                IF s = "Paid" THEN Loaded(t) ELSE Settled(Loaded(t), s)]
        BY <2>3, <2>4, ZenonT(30) DEF Enter, Service
      <3> QED
        BY <1>b, <3>1, KnownFacts
    <2>7. RowOf(c)' = booking[t] /\ match'[c] = "none"
      BY <1>a, <1>c, <1>e DEF RowOf
    <2>8. /\ Copied \subseteq DOMAIN entity'[c]
          /\ entity'[c].isMatched = booking[t].isMatched
          /\ s # "Paid" => Tells(entity'[c], s)
      BY <2>6, LoadedFacts, SettledTells
    <2>9. ObjectSound(c)'
      BY <1>e, <2>5, <2>7, <2>8
         DEF ObjectSound, Tells, BeforeReload, BeforeMatch, MatchInTransaction
    <2>10. UpdateSound(c)' /\ MatchUpdateSound(c)'
      BY <2>5, <2>7 DEF UpdateSound, MatchUpdateSound, AfterReload
    <2>11. RowSound(c)'
      <3>1. credits[t] > 0 => booking[t].isMatched = TRUE
        <4>1. credits[t] = 0 => ~(credits[t] > 0)
          OBVIOUS
        <4> QED
          BY <1>1, <1>j, <4>1 DEF Agreed
      <3> QED
        BY <1>a, <1>e, <2>5, <2>7, <3>1 DEF RowSound
    <2> QED
      BY <2>9, <2>10, <2>11 DEF Sound
  <1>2. ASSUME NEW d \in Calls, Working(d)', Clean(TrxOf(d))' PROVE Sound(d)'
    <2>1. CASE d = c
      <3>1. Clean(t)'
        BY <1>2, <1>e, <2>1 DEF Clean, Service
      <3> QED
        BY <1>1, <1>2, <2>1, <3>1
    <2>2. CASE d # c
      <3>1. TrxOf(d) \in Transactions
        BY CallTypes DEF Known
      <3>2. Clean(TrxOf(d))
        BY <1>2, <1>a, <1>e, <2>2 DEF Clean, Service
      <3>3. Sound(d)
        BY <1>2, <1>f, <2>2, <3>2 DEF Known, Settling
      <3>4. /\ pc'[d] = pc[d] /\ match'[d] = match[d] /\ held'[d] = held[d]
            /\ entity'[d] = entity[d] /\ bookingSet'[d] = bookingSet[d]
            /\ matchSet'[d] = matchSet[d] /\ request'[d] = request[d]
            /\ booking' = booking /\ status' = status /\ credits' = credits
        BY <1>a, <1>d, <1>e, <2>2
      <3> QED
        BY <3>3, <3>4, SameSound
    <2> QED
      BY <2>1, <2>2
  <1>3. ASSUME NEW x \in Transactions, Clean(x)',
               \A d \in Calls : TrxOf(d)' = x => ~Working(d)'
        PROVE  Agreed(x)'
    <2>1. \A d \in Calls : TrxOf(d) = x => ~Working(d)
      BY <1>3, <1>e, <1>f, <1>g
    <2>2. Agreed(x)
      BY <1>3, <1>h, <2>1 DEF Known, Quiet
    <2> QED
      BY <1>a, <2>2 DEF Agreed, Tells, IsNew
  <1>4. Settling'
    BY <1>2 DEF Settling
  <1>5. Quiet'
    BY <1>3 DEF Quiet
  <1> QED
    BY <1>4, <1>5

\* A crash ends all work, and spoils every transaction on which any was left.
LEMMA CrashSettles ==
    ASSUME TypeOK, Quiet, Crash
    PROVE  Settling' /\ Quiet'
  <1>a. /\ pc' = [c \in Calls |-> IF InFlight(c) THEN "lost" ELSE pc[c]]
        /\ match' = [c \in Calls |-> IF Matching(c) THEN "lost" ELSE match[c]]
        /\ spoiled' = spoiled \cup {TrxOf(c) : c \in {d \in Calls :
                            pc[d] \in InTransaction \/ match[d] \in MatchInTransaction}}
        /\ UNCHANGED <<booking, status, credits, request, overlap>>
    BY DEF Crash, rows
  <1>1. \A c \in Calls : ~Working(c)'
    BY <1>a DEF Working, InFlight, Matching, InTransaction, MatchInTransaction
  <1>2. Settling'
    BY <1>1 DEF Settling
  <1>3. ASSUME NEW t \in Transactions, Clean(t)' PROVE Agreed(t)'
    <2>1. Clean(t) /\ t \notin spoiled'
      BY <1>3, <1>a DEF Clean, Service
    <2>2. \A c \in Calls : TrxOf(c) = t => ~Working(c)
      BY <1>a, <2>1 DEF Working
    <2>3. Agreed(t)
      BY <2>1, <2>2 DEF Quiet
    <2> QED
      BY <1>a, <2>3 DEF Agreed, Tells, IsNew
  <1>4. Quiet'
    BY <1>3 DEF Quiet
  <1> QED
    BY <1>2, <1>4

\* A step that leaves a call's program points alone.
LEMMA SameStarted ==
    ASSUME NEW d \in Calls, Started(d), pc'[d] = pc[d], match'[d] = match[d],
           request'[d] = request[d], spoiled \subseteq spoiled'
    PROVE  Started(d)'
  <1>1. TrxOf(d)' = TrxOf(d)
    BY DEF TrxOf
  <1> QED
    BY <1>1 DEF Started, Service, Settles

\* A step of a call, of which the rest see nothing.
LEMMA OneStarted ==
    ASSUME NEW c \in Calls, MatchesStarted, Started(c)', spoiled \subseteq spoiled',
           \A d \in Calls \ {c} :
                pc'[d] = pc[d] /\ match'[d] = match[d] /\ request'[d] = request[d]
    PROVE  MatchesStarted'
  <1>1. ASSUME NEW d \in Calls PROVE Started(d)'
    <2>1. CASE d = c
      BY <2>1
    <2>2. CASE d # c
      BY <2>2, SameStarted DEF MatchesStarted
    <2> QED
      BY <2>1, <2>2
  <1> QED
    BY <1>1 DEF MatchesStarted

\* A call that goes on without starting a match.
LEMMA StepStarted ==
    ASSUME TypeOK, MatchesStarted, NEW c \in Calls, NEW from, NEW to, Step(c, from, to),
           match' = match, request' = request, spoiled' = spoiled,
           to \notin {"idle", "lost"},
           to = "failed" => TrxOf(c) \in spoiled,
           from \notin BeforeMatch => to \notin BeforeMatch,
           to \in InTransaction \ BeforeMatch => from \in InTransaction \ BeforeMatch
    PROVE  MatchesStarted'
  <1>1. pc[c] = from /\ pc'[c] = to /\ \A d \in Calls \ {c} : pc'[d] = pc[d]
    BY DEF Step, TypeOK, CallsTyped
  <1>2. Started(c) /\ TrxOf(c)' = TrxOf(c)
    BY DEF MatchesStarted, TrxOf
  <1>3. Started(c)'
    <2>1. match[c] # "none" => from \notin BeforeMatch \cup {"idle"}
      BY <1>1, <1>2 DEF Started
    <2> QED
      BY <1>1, <1>2, <2>1 DEF Started, Settles, Service
  <1> QED
    BY <1>1, <1>3, OneStarted

LEMMA NextStarted ==
    ASSUME TypeOK, WalletCallsSettle, MatchesStarted, [Next]_vars
    PROVE  MatchesStarted'
  <1>a. DOMAIN pc = Calls /\ DOMAIN match = Calls /\ DOMAIN request = Calls
    BY DEF TypeOK, CallsTyped
  <1>b. \A c \in Calls : Started(c)
    BY DEF MatchesStarted
  <1>1. ASSUME NEW c \in Calls, NEW t \in Transactions, NEW s \in Requests, NEW a \in Awaited,
               Refuse(c, t, s, a) \/ Begin(c, t, s, a)
        PROVE  MatchesStarted'
    <2>1. /\ pc[c] = "idle" /\ match' = match /\ spoiled' = spoiled
          /\ request' = [request EXCEPT ![c] =
                [trx |-> t, paymentStatus |-> s, awaited |-> a]]
      BY <1>1 DEF Refuse, Begin, Arrive
    <2>2. \A d \in Calls \ {c} : pc'[d] = pc[d] /\ request'[d] = request[d]
      BY <1>1, <1>a, <2>1 DEF Refuse, Begin, Enter
    <2>3. match'[c] = "none"
      BY <1>b, <2>1 DEF Started
    <2>4. TrxOf(c)' = t /\ request'[c].paymentStatus = s
      BY <1>a, <2>1 DEF TrxOf
    <2>5. pc'[c] \in InTransaction \ BeforeMatch => ~(Service(t) /\ Settles(t, s))
      <3>1. pc'[c] \in {"failed", AfterFind(t, s)}
        BY <1>1, <1>a DEF Refuse, Begin, Enter
      <3> QED
        BY <3>1, AfterFindType DEF InTransaction, BeforeMatch
    <2>6. Started(c)'
      BY <2>3, <2>4, <2>5 DEF Started, Service, Settles
    <2> QED
      BY <2>1, <2>2, <2>6, OneStarted
  <1>2. ASSUME NEW c \in Calls, UpdateWallet(c) PROVE MatchesStarted'
    <2> DEFINE to == IF PurposeOf[TrxOf(c)] = "Service Payment"
                     THEN "reloadBooking" ELSE "reloadTrx"
    <2>1. /\ Step(c, "updateWallet", to) /\ request' = request /\ spoiled' = spoiled
          /\ match' = match \/ match' = [match EXCEPT ![c] = "pick"]
      BY <1>2, ZenonT(30) DEF UpdateWallet, history
    <2>2. Service(TrxOf(c)) => match' = [match EXCEPT ![c] = "pick"]
      BY <1>2, ZenonT(30) DEF UpdateWallet, Service
    <2>3. to \in {"reloadBooking", "reloadTrx"}
      BY ZenonT(30)
    <2> HIDE DEF to
    <2>4. /\ pc[c] = "updateWallet" /\ pc'[c] = to
          /\ \A d \in Calls \ {c} : pc'[d] = pc[d] /\ match'[d] = match[d]
      BY <1>a, <2>1 DEF Step
    <2>5. /\ match'[c] \in {"none", "pick"}
          /\ Service(TrxOf(c)) => match'[c] = "pick"
      <3>1. match[c] = "none"
        BY <1>b, <2>4 DEF Started, BeforeMatch
      <3> QED
        BY <1>a, <2>1, <2>2, <3>1
    <2>6. Settles(TrxOf(c), request[c].paymentStatus) /\ TrxOf(c)' = TrxOf(c)
      BY <2>1, <2>4 DEF WalletCallsSettle, TrxOf
    <2>7. Started(c)'
      BY <2>1, <2>3, <2>4, <2>5, <2>6 DEF Started, Service, Settles, BeforeMatch
    <2> QED
      BY <2>1, <2>4, <2>7, OneStarted
  <1>3. ASSUME NEW c \in Calls, CallStep(c), ~UpdateWallet(c) PROVE MatchesStarted'
    <2> USE DEF InTransaction, BeforeMatch, history
    <2>1. CASE FindWallet(c)
      BY <2>1, StepStarted DEF FindWallet
    <2>2. CASE ReloadWallet(c)
      BY <2>2, StepStarted DEF ReloadWallet
    <2>3. CASE ReloadBooking(c)
      <3> DEFINE to == IF Changed(entity[c], booking[TrxOf(c)]) = NoChange
                       THEN "reloadTrx" ELSE "updateBooking"
      <3>1. /\ Step(c, "reloadBooking", to) /\ match' = match /\ request' = request
            /\ spoiled' = spoiled
        BY <2>3 DEF ReloadBooking
      <3>2. to \in {"reloadTrx", "updateBooking"}
        OBVIOUS
      <3> HIDE DEF to
      <3> QED
        BY <3>1, <3>2, StepStarted
    <2>4. CASE UpdateBooking(c)
      BY <2>4, StepStarted DEF UpdateBooking
    <2>5. CASE ReloadTrx(c)
      <3> DEFINE to == IF status[TrxOf(c)] = request[c].paymentStatus
                       THEN "commit" ELSE "updateTrx"
      <3>1. /\ Step(c, "reloadTrx", to) /\ match' = match /\ request' = request
            /\ spoiled' = spoiled
        BY <2>5 DEF ReloadTrx
      <3>2. to \in {"commit", "updateTrx"}
        OBVIOUS
      <3> HIDE DEF to
      <3> QED
        BY <3>1, <3>2, StepStarted
    <2>6. CASE UpdateTrx(c)
      BY <2>6, StepStarted DEF UpdateTrx
    <2>7. CASE Commit(c)
      BY <2>7, StepStarted DEF Commit
    <2>8. CASE AnswerError(c)
      BY <2>8, StepStarted DEF AnswerError
    <2> QED
      BY <1>3, <2>1, <2>2, <2>3, <2>4, <2>5, <2>6, <2>7, <2>8 DEF CallStep
  <1>4. ASSUME NEW c \in Calls, MatchTask(c) PROVE MatchesStarted'
    <2>1. PICK to \in {"reload", "update", "commit", "done"} :
            match' = [match EXCEPT ![c] = to]
      BY <1>4 DEF MatchTask, Pick, MatchReload, MatchUpdate, MatchCommit, MatchStep
    <2>2. /\ match[c] \in MatchInTransaction
          /\ pc' = pc /\ request' = request /\ spoiled' = spoiled
      BY <1>4 DEF MatchTask, Pick, MatchReload, MatchUpdate, MatchCommit, MatchStep, history,
                  MatchInTransaction
    <2>3. match'[c] = to /\ \A d \in Calls \ {c} : match'[d] = match[d]
      BY <1>a, <2>1
    <2>4. Started(c) /\ match[c] # "none" /\ TrxOf(c)' = TrxOf(c)
      BY <1>b, <2>2 DEF MatchInTransaction, TrxOf
    <2>5. Started(c)'
      BY <2>2, <2>3, <2>4 DEF Started, Service, Settles
    <2> QED
      BY <2>2, <2>3, <2>5, OneStarted
  <1>5. ASSUME NEW c \in Calls, MatchError(c) PROVE MatchesStarted'
    <2>1. /\ match[c] \in MatchInTransaction /\ match'[c] = "failed"
          /\ \A d \in Calls \ {c} : match'[d] = match[d]
          /\ pc' = pc /\ request' = request /\ spoiled' = spoiled \cup {TrxOf(c)}
      BY <1>5, <1>a DEF MatchError
    <2>2. Started(c) /\ match[c] # "none" /\ TrxOf(c)' = TrxOf(c)
      BY <1>b, <2>1 DEF MatchInTransaction, TrxOf
    <2>3. Started(c)'
      BY <2>1, <2>2 DEF Started, Service, Settles
    <2> QED
      BY <2>1, <2>3, OneStarted
  <1>6. ASSUME NEW c \in Calls, DatabaseError(c) PROVE MatchesStarted'
    <2>1. /\ pc'[c] = "failed" /\ \A d \in Calls \ {c} : pc'[d] = pc[d]
          /\ match' = match /\ request' = request /\ spoiled' = spoiled \cup {TrxOf(c)}
      BY <1>6, <1>a DEF DatabaseError
    <2>2. Started(c) /\ TrxOf(c)' = TrxOf(c)
      BY <1>b, <2>1 DEF TrxOf
    <2>3. Started(c)'
      BY <2>1, <2>2 DEF Started, Service, Settles, BeforeMatch, InTransaction
    <2> QED
      BY <2>1, <2>3, OneStarted
  <1>7. CASE Crash
    <2> SUFFICES ASSUME NEW c \in Calls PROVE Started(c)'
      BY DEF MatchesStarted
    <2>1. /\ pc'[c] = IF InFlight(c) THEN "lost" ELSE pc[c]
          /\ match'[c] = IF Matching(c) THEN "lost" ELSE match[c]
          /\ request' = request /\ spoiled \subseteq spoiled'
          /\ pc[c] \in InTransaction \/ match[c] \in MatchInTransaction => TrxOf(c) \in spoiled'
      BY <1>7 DEF Crash
    <2>2. Started(c) /\ TrxOf(c)' = TrxOf(c)
      BY <1>b, <2>1 DEF TrxOf
    <2>3. match'[c] # "none" => match[c] # "none"
      BY <2>1 DEF Matching, MatchInTransaction
    <2>4. match'[c] = "lost" => TrxOf(c) \in spoiled'
      BY <2>1, <2>2 DEF Started, Matching
    <2>5. match'[c] = "failed" => match[c] = "failed"
      BY <2>1
    <2>6. pc'[c] = "lost" /\ match[c] # "none" => TrxOf(c) \in spoiled'
      BY <2>1, <2>2 DEF Started, InFlight
    <2>7. /\ pc'[c] \notin InTransaction
          /\ pc'[c] = "failed" => pc[c] = "failed"
          /\ pc'[c] = "idle" => pc[c] = "idle"
      BY <2>1 DEF InFlight, InTransaction
    <2>8. BeforeMatch \subseteq InTransaction
      BY DEF BeforeMatch, InTransaction
    <2> QED
      BY <2>1, <2>2, <2>3, <2>4, <2>5, <2>6, <2>7, <2>8 DEF Started, Service, Settles
  <1>8. CASE UNCHANGED vars
    <2>1. pc' = pc /\ match' = match /\ request' = request /\ spoiled' = spoiled
      BY <1>8 DEF vars, memory, history
    <2> QED
      BY <1>b, <2>1, SameStarted DEF MatchesStarted
  <1> QED
    BY <1>1, <1>2, <1>3, <1>4, <1>5, <1>6, <1>7, <1>8 DEF Next

LEMMA InitQuiet == Init => MatchesStarted /\ Settling /\ Quiet
  <1> SUFFICES ASSUME Init PROVE MatchesStarted /\ Settling /\ Quiet
    OBVIOUS
  <1>1. \A c \in Calls : pc[c] = "idle" /\ match[c] = "none"
    BY DEF Init
  <1>2. MatchesStarted /\ Settling
    BY <1>1 DEF MatchesStarted, Started, Settling, Working, InTransaction, MatchInTransaction
  <1>3. \A t \in Transactions :
            status[t] = "Pending" /\ booking[t] = NewBooking /\ credits[t] = 0
    BY DEF Init
  <1>4. Quiet
    BY <1>3, NewIsNew DEF Quiet, Agreed
  <1> QED
    BY <1>2, <1>4

\* Every step keeps the booking in agreement: one lemma per action.
LEMMA NextSettles ==
    ASSUME TypeOK, Money, Single, MatchesStarted, Settling, Quiet, [Next]_vars
    PROVE  Settling' /\ Quiet'
  <1>a. \A c \in Calls : Known(c)
    BY DEF Known
  <1>1. ASSUME NEW c \in Calls, NEW t \in Transactions, NEW s \in Requests, NEW a \in Awaited,
               Refuse(c, t, s, a) \/ Begin(c, t, s, a)
        PROVE  Settling' /\ Quiet'
    BY <1>1, <1>a, ArriveSettles
  <1>2. ASSUME NEW c \in Calls, CallStep(c) PROVE Settling' /\ Quiet'
    BY <1>2, <1>a, PassingStepsSettle, UpdateWalletSettles, ReloadBookingSettles, CommitSettles,
       AnswerSettles DEF CallStep
  <1>3. ASSUME NEW c \in Calls, MatchTask(c) PROVE Settling' /\ Quiet'
    BY <1>3, <1>a, PickSettles, MatchReloadSettles, MatchUpdateSettles, MatchCommitSettles
       DEF MatchTask
  <1>4. ASSUME NEW c \in Calls, DatabaseError(c) \/ MatchError(c) PROVE Settling' /\ Quiet'
    BY <1>4, <1>a, ErrorSettles
  <1>5. CASE Crash
    BY <1>5, CrashSettles
  <1>6. CASE UNCHANGED vars
    <2>1. UNCHANGED <<pc, match, held, entity, bookingSet, matchSet, request, booking, status,
                      credits, overlap, spoiled>>
      BY <1>6 DEF vars, rows, memory, history
    <2>2. \A t \in Transactions : (Clean(t)' <=> Clean(t)) /\ (Agreed(t) => Agreed(t)')
      BY <2>1 DEF Clean, Service, Agreed, Tells, IsNew
    <2>3. \A c \in Calls : /\ TrxOf(c)' = TrxOf(c) /\ TrxOf(c) \in Transactions
                           /\ Working(c)' <=> Working(c)
      BY <2>1, CallTypes DEF TrxOf, Working
    <2>4. \A c \in Calls : Clean(TrxOf(c))' => Clean(TrxOf(c))
      BY <2>1 DEF Clean, Service, TrxOf
    <2>5. \A c \in Calls : Sound(c) => Sound(c)'
      BY <2>1, SameSound
    <2>6. Settling'
      BY <2>3, <2>4, <2>5 DEF Settling
    <2>7. Quiet'
      BY <2>2, <2>3 DEF Quiet
    <2> QED
      BY <2>6, <2>7
  <1> QED
    BY <1>1, <1>2, <1>3, <1>4, <1>5, <1>6 DEF Next

\* The whole inductive invariant of a settlement.
THEOREM SettlingInvariant == Spec => [](MatchesStarted /\ Settling /\ Quiet)
  <1>1. Init => MatchesStarted /\ Settling /\ Quiet
    BY InitQuiet
  <1>2. /\ TypeOK /\ WalletCallsSettle /\ Money /\ Single
        /\ MatchesStarted /\ Settling /\ Quiet /\ [Next]_vars
        => MatchesStarted' /\ Settling' /\ Quiet'
    BY NextStarted, NextSettles
  <1> QED
    BY <1>1, <1>2, MoneyInvariant, SingleInvariant, PTL DEF Spec

\* A booking nothing works on any more tells the status of its payment, and is matched if
\* that was paid, unless calls overlapped or one did not commit.
THEOREM BookingsAgree == Spec => []BookingAgrees
  BY SettlingInvariant, QuietAgrees, PTL
=============================================================================
