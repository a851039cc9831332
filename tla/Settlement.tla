----------------------------- MODULE Settlement -----------------------------
(***************************************************************************)
(* TransactionService.updatePayment and the booking match it starts.       *)
(*                                                                         *)
(* A payment is settled by calls that can run at the same time: the        *)
(* Paystack webhook (which does not await updatePayment), the verify       *)
(* endpoint and the status endpoint (which do).  Each call runs inside one *)
(* PostgreSQL transaction at READ COMMITTED: reads take no lock and see    *)
(* the last committed row, an UPDATE holds the row until the transaction   *)
(* ends, and nothing a call wrote is seen by others before it commits.     *)
(* One action is one round trip to the database, together with the         *)
(* JavaScript that runs synchronously once it is answered.                 *)
(*                                                                         *)
(* A call that settles a booking also starts, without awaiting it,         *)
(* BookingService.matchBookingWithServiceProfile, which works in a         *)
(* database transaction of its own ON THE SAME JavaScript booking object.  *)
(***************************************************************************)
EXTENDS Naturals, FiniteSets, Persist

CONSTANTS
    Calls,          \* deliveries of updatePayment: each is made at most once
    Transactions,   \* payment_transaction rows
    Users,          \* owners of transactions and wallets
    OwnerOf,        \* OwnerOf[t]: transaction t's profile
    PurposeOf,      \* PurposeOf[t]: transaction t's paymentPurpose
    AmountOf,       \* AmountOf[t]: transaction t's amount
    Requests,       \* the values dto.paymentStatus is given
    Awaited,        \* TRUE: an endpoint that awaits the call, FALSE: the webhook
    Providers,      \* aid_service_profile rows that can be eligible
    AdminProfile,   \* the official provider, NoProvider when it was not seeded
    NoProvider,     \* aidServiceProfile IS NULL
    MaxFaults       \* bound on database errors

Purposes == {"Fund Deposit", "Fund Withdrawal", "Service Payment"}
Column == {"pending", "funded"}

ASSUME SettlementAssumption ==
    /\ Transactions # {}
    /\ OwnerOf \in [Transactions -> Users]
    /\ PurposeOf \in [Transactions -> Purposes]
    /\ AmountOf \in [Transactions -> Nat]
    /\ Requests \subseteq STRING
    /\ Awaited \subseteq BOOLEAN
    /\ AdminProfile \in Providers \cup {NoProvider}
    /\ NoProvider \notin Providers
    /\ MaxFaults \in Nat

VARIABLES
    \* The committed rows.
    status,         \* status[t]: payment_transaction.paymentStatus
    booking,        \* booking[t]: the columns of the booking t pays for
    wallet,         \* wallet[u]: the two balances of profile_wallet
    \* The calls and the matches they started, in the memory of the process.
    pc,             \* pc[c]: what call c does next
    request,        \* request[c]: the dto of call c and how it was made
    userWallet,     \* userWallet[c]: the wallet object, its balance already raised
    entity,         \* entity[c]: the booking object call c shares with its match
    walletSet,      \* walletSet[c]: SET clause of the wallet UPDATE
    bookingSet,     \* bookingSet[c]: SET clause of the booking UPDATE
    held,           \* held[c]: the rows locked by the transaction of call c
    match,          \* match[c]: what the match started by call c does next
    matchSet,       \* matchSet[c]: SET clause of the match's booking UPDATE
    faults,         \* database errors so far
    \* History, read by no action.
    credits,        \* credits[t]: commits that credited transaction t
    credited,       \* credited[u][k]: the sum of those credits
    versions,       \* versions[u]: every committed row of u's wallet
    contended,      \* users whose wallet two calls held a copy of at once
    overlap,        \* transactions two calls worked on at once
    reopened,       \* transactions whose status a commit moved away from Paid
    spoiled         \* transactions with a call or match that did not commit

rows == <<status, booking, wallet>>
memory == <<pc, request, userWallet, entity, walletSet, bookingSet, held, match, matchSet>>
history == <<credits, credited, versions, contended, overlap, reopened, spoiled>>
vars == <<rows, memory, faults, history>>

-----------------------------------------------------------------------------
(* The states of a call and of a match.                                    *)

InTransaction == {"findWallet", "reloadWallet", "updateWallet", "reloadBooking",
                  "updateBooking", "reloadTrx", "updateTrx", "commit"}
HasWallet == {"reloadWallet", "updateWallet", "reloadBooking", "updateBooking",
              "reloadTrx", "updateTrx", "commit"}
MatchInTransaction == {"pick", "reload", "update", "commit"}

InFlight(c) == pc[c] \in InTransaction \cup {"failed"}
Matching(c) == match[c] \in MatchInTransaction \cup {"failed"}
Busy(c) == InFlight(c) \/ Matching(c)

TrxOf(c) == request[c].trx
UserOf(c) == OwnerOf[TrxOf(c)]
Settles(t, s) == PurposeOf[t] # "Fund Withdrawal" /\ s = "Paid"
CreditedColumn(t) == IF PurposeOf[t] = "Service Payment" THEN "pending" ELSE "funded"

\* Call c holds a copy of its user's wallet that it will write back.
HoldsWalletCopy(c) ==
    pc[c] \in HasWallet /\ Settles(TrxOf(c), request[c].paymentStatus)

-----------------------------------------------------------------------------
NewBooking == [bookingStatus |-> "Pending", paymentStatus |-> "Not Paid",
               isMatched |-> FALSE, aidServiceProfile |-> NoProvider]

NoRequest == [trx |-> CHOOSE t \in Transactions : TRUE, paymentStatus |-> "", awaited |-> TRUE]
EmptyWallet == [k \in Column |-> 0]

\* Transactions are created Pending by createTransaction, wallets at zero by
\* createAccount.
Init ==
    /\ status = [t \in Transactions |-> "Pending"]
    /\ booking = [t \in Transactions |-> NewBooking]
    /\ wallet = [u \in Users |-> EmptyWallet]
    /\ pc = [c \in Calls |-> "idle"]
    /\ request = [c \in Calls |-> NoRequest]
    /\ userWallet = [c \in Calls |-> EmptyWallet]
    /\ entity = [c \in Calls |-> NoChange]
    /\ walletSet = [c \in Calls |-> NoChange]
    /\ bookingSet = [c \in Calls |-> NoChange]
    /\ held = [c \in Calls |-> {}]
    /\ match = [c \in Calls |-> "none"]
    /\ matchSet = [c \in Calls |-> NoChange]
    /\ faults = 0
    /\ credits = [t \in Transactions |-> 0]
    /\ credited = [u \in Users |-> EmptyWallet]
    /\ versions = [u \in Users |-> {EmptyWallet}]
    /\ contended = {}
    /\ overlap = {}
    /\ reopened = {}
    /\ spoiled = {}

-----------------------------------------------------------------------------
(* The handler.                                                            *)

\* Call c moves from one program point to another.
Step(c, from, to) == pc[c] = from /\ pc' = [pc EXCEPT ![c] = to]

\* The relations findOne loads are profile, booking and booking.aidService, so
\* the object has no aidServiceProfile column.
Loaded(t) == [k \in {"bookingStatus", "paymentStatus", "isMatched"} |-> booking[t][k]]

SettledStateOnly(object, s) ==          \* mutant: line 139 missing
    [object EXCEPT !.bookingStatus = IF s = "Paid" THEN "In Progress" ELSE "Cancelled"]

\* Lines 135-139: the booking object takes the status of the payment.
Settled(object, s) ==
    [object EXCEPT !.bookingStatus = IF s = "Paid" THEN "In Progress" ELSE "Cancelled",
                   !.paymentStatus = s]

AfterFindServiceOnly(t, s) ==           \* mutant: the deposit branch is missing
    IF PurposeOf[t] # "Service Payment" THEN "reloadTrx"
    ELSE IF s = "Paid" THEN "findWallet" ELSE "reloadBooking"

AfterFind(t, s) ==
    IF Settles(t, s) THEN "findWallet"
    ELSE IF PurposeOf[t] = "Service Payment" THEN "reloadBooking"
    ELSE "reloadTrx"

\* A call arrives and opens its transaction.
Arrive(c, t, s, awaited) ==
    /\ pc[c] = "idle"
    /\ request' = [request EXCEPT ![c] = [trx |-> t, paymentStatus |-> s, awaited |-> awaited]]
    /\ overlap' = IF \E d \in Calls \ {c} : Busy(d) /\ TrxOf(d) = t
                  THEN overlap \cup {t} ELSE overlap
    /\ UNCHANGED <<rows, userWallet, walletSet, bookingSet, held, match, matchSet, faults,
                   credits, credited, versions, contended, reopened, spoiled>>

\* Line 116: the payment it finds has the status asked for already.
Refuse(c, t, s, awaited) ==
    /\ Arrive(c, t, s, awaited)
    /\ status[t] = s
    /\ pc' = [pc EXCEPT ![c] = "failed"]
    /\ UNCHANGED entity

Enter(c, t, s) ==
    /\ pc' = [pc EXCEPT ![c] = AfterFind(t, s)]
    /\ entity' = [entity EXCEPT ![c] =
            IF PurposeOf[t] # "Service Payment" THEN NoChange
            ELSE IF s = "Paid" THEN Loaded(t)
            ELSE Settled(Loaded(t), s)]

BeginUnguarded(c, t, s, awaited) ==     \* mutant: line 116 dropped
    Arrive(c, t, s, awaited) /\ Enter(c, t, s)

\* Lines 111-120: the payment and its booking are read; purpose and status decide
\* which rows the call will write.
Begin(c, t, s, awaited) ==
    /\ Arrive(c, t, s, awaited)
    /\ status[t] # s
    /\ Enter(c, t, s)

\* A wallet whose balance is raised by the amount of transaction t.
Raised(row, t) == [row EXCEPT ![CreditedColumn(t)] = @ + AmountOf[t]]

FindWalletAssign(c) ==                  \* mutant: = amount instead of = balance + amount
    /\ Step(c, "findWallet", "reloadWallet")
    /\ userWallet' = [userWallet EXCEPT ![c] =
            [wallet[UserOf(c)] EXCEPT ![CreditedColumn(TrxOf(c))] = AmountOf[TrxOf(c)]]]
    /\ UNCHANGED <<rows, request, entity, walletSet, bookingSet, held, match, matchSet, faults,
                   history>>

\* Lines 122-130 and 145-153: read the wallet and raise the balance of the copy.
FindWallet(c) ==
    /\ Step(c, "findWallet", "reloadWallet")
    /\ userWallet' = [userWallet EXCEPT ![c] = Raised(wallet[UserOf(c)], TrxOf(c))]
    /\ contended' = IF \E d \in Calls \ {c} : HoldsWalletCopy(d) /\ UserOf(d) = UserOf(c)
                    THEN contended \cup {UserOf(c)} ELSE contended
    /\ UNCHANGED <<rows, request, entity, walletSet, bookingSet, held, match, matchSet, faults,
                   credits, credited, versions, overlap, reopened, spoiled>>

\* save(ProfileWallet, {...userWallet}) reads the row again.  The raised balance is
\* a number and the column comes back as a string, so it always counts as changed.
ReloadWallet(c) ==
    LET own == CreditedColumn(TrxOf(c))
        changed == DOMAIN Changed(userWallet[c], wallet[UserOf(c)]) \cup {own}
    IN  /\ Step(c, "reloadWallet", "updateWallet")
        /\ walletSet' = [walletSet EXCEPT ![c] = [k \in changed |-> userWallet[c][k]]]
        /\ UNCHANGED <<rows, request, userWallet, entity, bookingSet, held, match, matchSet,
                       faults, history>>

\* No other transaction holds the row that call c is about to update.
WalletFree(c) == \A d \in Calls \ {c} : UserOf(d) = UserOf(c) => "wallet" \notin held[d]
TrxFree(c) == \A d \in Calls \ {c} : TrxOf(d) = TrxOf(c) => "trx" \notin held[d]
BookingFree(c, isMatch) ==
    \A d \in Calls : TrxOf(d) = TrxOf(c) =>
        /\ d # c \/ isMatch => "booking" \notin held[d]
        /\ d # c \/ ~isMatch => match[d] # "commit" \/ matchSet[d] = NoChange

Lock(c, row) == held' = [held EXCEPT ![c] = @ \cup {row}]

UpdateWalletAutocommit(c) ==            \* mutant: saved outside the transaction
    /\ Step(c, "updateWallet", "reloadTrx")
    /\ wallet' = [wallet EXCEPT ![UserOf(c)] = Overlay(@, walletSet[c])]
    /\ UNCHANGED <<status, booking, request, userWallet, entity, walletSet, bookingSet, held,
                   match, matchSet, faults, history>>

\* The UPDATE of the wallet returns; for a booking the match is started (line 133)
\* and, before it can run any further, the booking object is settled.
UpdateWallet(c) ==
    LET service == PurposeOf[TrxOf(c)] = "Service Payment"
    IN  /\ WalletFree(c)
        /\ Step(c, "updateWallet", IF service THEN "reloadBooking" ELSE "reloadTrx")
        /\ Lock(c, "wallet")
        /\ match' = IF service THEN [match EXCEPT ![c] = "pick"] ELSE match
        /\ entity' = IF service
                     THEN [entity EXCEPT ![c] = Settled(@, request[c].paymentStatus)]
                     ELSE entity
        /\ UNCHANGED <<rows, request, userWallet, walletSet, bookingSet, matchSet, faults,
                       history>>

\* save(Booking, booking): the object is compared with the row when the row is
\* back, so what the match has put into it by then is written too (line 140).
ReloadBooking(c) ==
    LET changes == Changed(entity[c], booking[TrxOf(c)])
    IN  /\ Step(c, "reloadBooking",
                IF changes = NoChange THEN "reloadTrx" ELSE "updateBooking")
        /\ bookingSet' = [bookingSet EXCEPT ![c] = changes]
        /\ UNCHANGED <<rows, request, userWallet, entity, walletSet, held, match, matchSet,
                       faults, history>>

UpdateBooking(c) ==
    /\ BookingFree(c, FALSE)
    /\ Step(c, "updateBooking", "reloadTrx")
    /\ Lock(c, "booking")
    /\ UNCHANGED <<rows, request, userWallet, entity, walletSet, bookingSet, match, matchSet,
                   faults, history>>

\* save(PaymentTransaction, trx): no UPDATE when another call has set that status.
ReloadTrx(c) ==
    /\ Step(c, "reloadTrx",
            IF status[TrxOf(c)] = request[c].paymentStatus THEN "commit" ELSE "updateTrx")
    /\ UNCHANGED <<rows, request, userWallet, entity, walletSet, bookingSet, held, match,
                   matchSet, faults, history>>

UpdateTrx(c) ==
    /\ TrxFree(c)
    /\ Step(c, "updateTrx", "commit")
    /\ Lock(c, "trx")
    /\ UNCHANGED <<rows, request, userWallet, entity, walletSet, bookingSet, match, matchSet,
                   faults, history>>

CommitRowsReplacing(c) ==               \* mutant: the row is replaced, not updated
    /\ wallet' = IF "wallet" \in held[c]
                 THEN [wallet EXCEPT ![UserOf(c)] = walletSet[c]] ELSE wallet
    /\ UNCHANGED <<status, booking>>

\* What the transaction of call c wrote becomes the committed state.
CommitRows(c) ==
    /\ status' = IF "trx" \in held[c]
                 THEN [status EXCEPT ![TrxOf(c)] = request[c].paymentStatus] ELSE status
    /\ booking' = IF "booking" \in held[c]
                  THEN [booking EXCEPT ![TrxOf(c)] = Overlay(@, bookingSet[c])] ELSE booking
    /\ wallet' = IF "wallet" \in held[c]
                 THEN [wallet EXCEPT ![UserOf(c)] = Overlay(@, walletSet[c])] ELSE wallet

\* History of a commit: a commit that writes the wallet is a credit.
RecordCommit(c) ==
    LET t == TrxOf(c)
        u == UserOf(c)
        k == CreditedColumn(t)
    IN  /\ credits' = IF "wallet" \in held[c] THEN [credits EXCEPT ![t] = @ + 1] ELSE credits
        /\ credited' = IF "wallet" \in held[c]
                       THEN [credited EXCEPT ![u][k] = @ + AmountOf[t]]
                       ELSE credited
        /\ versions' = [versions EXCEPT ![u] = @ \cup {wallet'[u]}]
        /\ reopened' = IF status[t] = "Paid" /\ status'[t] # "Paid"
                       THEN reopened \cup {t} ELSE reopened

ForgetKeepingLocks(c) ==                \* mutant: released without commit or rollback
    /\ userWallet' = [userWallet EXCEPT ![c] = EmptyWallet]
    /\ walletSet' = [walletSet EXCEPT ![c] = NoChange]
    /\ bookingSet' = [bookingSet EXCEPT ![c] = NoChange]
    /\ UNCHANGED <<held, entity>>

\* The call is over: its objects are garbage, except the booking object while the
\* match still uses it.
Forget(c) ==
    /\ userWallet' = [userWallet EXCEPT ![c] = EmptyWallet]
    /\ walletSet' = [walletSet EXCEPT ![c] = NoChange]
    /\ bookingSet' = [bookingSet EXCEPT ![c] = NoChange]
    /\ held' = [held EXCEPT ![c] = {}]
    /\ entity' = IF Matching(c) THEN entity ELSE [entity EXCEPT ![c] = NoChange]

\* Line 160.
Commit(c) ==
    /\ Step(c, "commit", "done")
    /\ CommitRows(c)
    /\ RecordCommit(c)
    /\ Forget(c)
    /\ UNCHANGED <<request, match, matchSet, faults, contended, overlap, spoiled>>

\* A statement or the commit fails: the catch block rolls back (line 164).
DatabaseError(c) ==
    /\ pc[c] \in InTransaction
    /\ faults < MaxFaults
    /\ faults' = faults + 1
    /\ pc' = [pc EXCEPT ![c] = "failed"]
    /\ Forget(c)
    /\ spoiled' = spoiled \cup {TrxOf(c)}
    /\ UNCHANGED <<rows, request, match, matchSet, credits, credited, versions, contended,
                   overlap, reopened>>

\* The finally block throws the error to an endpoint that awaits it (line 167).
AnswerError(c) ==
    /\ request[c].awaited
    /\ Step(c, "failed", "done")
    /\ UNCHANGED <<rows, request, userWallet, entity, walletSet, bookingSet, held, match,
                   matchSet, faults, history>>
-----------------------------------------------------------------------------
(* The match, on the booking object of the call that started it.           *)

MatchStep(c, from, to) == match[c] = from /\ match' = [match EXCEPT ![c] = to]

PickUnmarked(c) ==                      \* mutant: lines 385 and 390 missing
    /\ MatchStep(c, "pick", "reload")
    /\ \E provider \in Providers \cup {AdminProfile} :
        entity' = [entity EXCEPT ![c] =
            [k \in DOMAIN @ \cup {"aidServiceProfile"} |->
                IF k = "aidServiceProfile" THEN provider ELSE @[k]]]
    /\ UNCHANGED <<rows, pc, request, userWallet, walletSet, bookingSet, held, matchSet,
                   faults, history>>

\* Lines 348-391: the guard on an earlier match reads a relation that was not
\* loaded; the best of the eligible profiles is taken, the official profile when
\* none is eligible, and the booking object is changed in place.
Pick(c) ==
    /\ "aidServiceProfile" \notin DOMAIN entity[c]
    /\ MatchStep(c, "pick", "reload")
    /\ \E provider \in Providers \cup {AdminProfile} :
        entity' = [entity EXCEPT ![c] =
            [k \in DOMAIN @ \cup {"aidServiceProfile"} |->
                CASE k = "aidServiceProfile" -> provider
                  [] k = "isMatched" -> TRUE
                  [] OTHER -> @[k]]]
    /\ UNCHANGED <<rows, pc, request, userWallet, walletSet, bookingSet, held, matchSet,
                   faults, history>>

\* save(Booking, {...booking}), lines 392-394: every column of the object.
MatchReload(c) ==
    /\ MatchStep(c, "reload", "update")
    /\ matchSet' = [matchSet EXCEPT ![c] = Changed(entity[c], booking[TrxOf(c)])]
    /\ UNCHANGED <<rows, pc, request, userWallet, entity, walletSet, bookingSet, held,
                   faults, history>>

MatchUpdate(c) ==
    /\ matchSet[c] = NoChange \/ BookingFree(c, TRUE)
    /\ MatchStep(c, "update", "commit")
    /\ UNCHANGED <<rows, pc, request, userWallet, entity, walletSet, bookingSet, held,
                   matchSet, faults, history>>

ForgetMatch(c) ==
    /\ matchSet' = [matchSet EXCEPT ![c] = NoChange]
    /\ entity' = IF InFlight(c) THEN entity ELSE [entity EXCEPT ![c] = NoChange]

MatchCommit(c) ==
    /\ MatchStep(c, "commit", "done")
    /\ booking' = [booking EXCEPT ![TrxOf(c)] = Overlay(@, matchSet[c])]
    /\ ForgetMatch(c)
    /\ UNCHANGED <<status, wallet, pc, request, userWallet, walletSet, bookingSet, held,
                   faults, history>>

\* A statement fails, or scoring two profiles meets a null locationAddress.
MatchError(c) ==
    /\ match[c] \in MatchInTransaction
    /\ faults < MaxFaults
    /\ faults' = faults + 1
    /\ match' = [match EXCEPT ![c] = "failed"]
    /\ ForgetMatch(c)
    /\ spoiled' = spoiled \cup {TrxOf(c)}
    /\ UNCHANGED <<rows, pc, request, userWallet, walletSet, bookingSet, held, credits,
                   credited, versions, contended, overlap, reopened>>
-----------------------------------------------------------------------------
(* The process.                                                            *)

\* A rejection nobody awaits ends the process: the webhook's call, or a match.
\* Every transaction still open is rolled back; the process is started again.
Crash ==
    /\ \E c \in Calls : \/ pc[c] = "failed" /\ ~request[c].awaited
                        \/ match[c] = "failed"
    /\ pc' = [c \in Calls |-> IF InFlight(c) THEN "lost" ELSE pc[c]]
    /\ match' = [c \in Calls |-> IF Matching(c) THEN "lost" ELSE match[c]]
    /\ userWallet' = [c \in Calls |-> EmptyWallet]
    /\ entity' = [c \in Calls |-> NoChange]
    /\ walletSet' = [c \in Calls |-> NoChange]
    /\ bookingSet' = [c \in Calls |-> NoChange]
    /\ held' = [c \in Calls |-> {}]
    /\ matchSet' = [c \in Calls |-> NoChange]
    /\ spoiled' = spoiled \cup {TrxOf(c) : c \in {d \in Calls :
                                    pc[d] \in InTransaction \/ match[d] \in MatchInTransaction}}
    /\ UNCHANGED <<rows, request, faults, credits, credited, versions, contended, overlap,
                   reopened>>

\* What call c and its match do once the call has arrived.
CallStep(c) == \/ FindWallet(c) \/ ReloadWallet(c) \/ UpdateWallet(c) \/ ReloadBooking(c)
               \/ UpdateBooking(c) \/ ReloadTrx(c) \/ UpdateTrx(c) \/ Commit(c)
               \/ AnswerError(c)
MatchTask(c) == Pick(c) \/ MatchReload(c) \/ MatchUpdate(c) \/ MatchCommit(c)

Next ==
    \/ \E c \in Calls :
        \/ \E t \in Transactions, s \in Requests, a \in Awaited :
                Refuse(c, t, s, a) \/ Begin(c, t, s, a)
        \/ CallStep(c) \/ MatchTask(c) \/ DatabaseError(c) \/ MatchError(c)
    \/ Crash

Spec == Init /\ [][Next]_vars

\* The event loop runs every continuation that is ready, and PostgreSQL grants a row
\* lock once it is free.  Nothing promises that a call arrives or that a fault occurs.
Fairness == /\ \A c \in Calls : WF_vars(CallStep(c)) /\ WF_vars(MatchTask(c))
            /\ WF_vars(Crash)

FairSpec == Spec /\ Fairness
-----------------------------------------------------------------------------
(* What is checked.                                                        *)

BookingColumns == {"bookingStatus", "paymentStatus", "isMatched", "aidServiceProfile"}
PaymentStatuses == {"Pending", ""} \cup Requests

RowsTyped ==
    /\ status \in [Transactions -> PaymentStatuses]
    /\ DOMAIN booking = Transactions
    /\ \A t \in Transactions : DOMAIN booking[t] = BookingColumns
    /\ wallet \in [Users -> [Column -> Nat]]

CallsTyped ==
    /\ pc \in [Calls -> InTransaction \cup {"idle", "failed", "done", "lost"}]
    /\ request \in [Calls -> [trx : Transactions, paymentStatus : PaymentStatuses,
                              awaited : BOOLEAN]]
    /\ match \in [Calls -> MatchInTransaction \cup {"none", "failed", "done", "lost"}]
    /\ held \in [Calls -> SUBSET {"wallet", "booking", "trx"}]
    /\ faults \in 0..MaxFaults

ObjectsTyped ==
    /\ userWallet \in [Calls -> [Column -> Nat]]
    /\ DOMAIN walletSet = Calls
    /\ \A c \in Calls : /\ DOMAIN walletSet[c] \subseteq Column
                        /\ \A k \in DOMAIN walletSet[c] : walletSet[c][k] \in Nat
    /\ DOMAIN entity = Calls /\ DOMAIN bookingSet = Calls /\ DOMAIN matchSet = Calls
    /\ \A c \in Calls : /\ DOMAIN entity[c] \subseteq BookingColumns
                        /\ DOMAIN bookingSet[c] \subseteq BookingColumns
                        /\ DOMAIN matchSet[c] \subseteq BookingColumns

HistoryTyped ==
    /\ credits \in [Transactions -> Nat]
    /\ credited \in [Users -> [Column -> Nat]]
    /\ versions \in [Users -> SUBSET [Column -> Nat]]
    /\ contended \subseteq Users
    /\ overlap \subseteq Transactions
    /\ reopened \subseteq Transactions
    /\ spoiled \subseteq Transactions

\* Every variable has its type: rows keep their columns, balances stay natural
\* numbers, and the SET clauses name columns of the row they update.
TypeOK == RowsTyped /\ CallsTyped /\ ObjectsTyped /\ HistoryTyped

\* A balance a call may write: what is credited, plus its own amount on its column.
CopyBound(c, k) ==
    credited[UserOf(c)][k] + (IF k = CreditedColumn(TrxOf(c)) THEN AmountOf[TrxOf(c)] ELSE 0)

\* The copies in flight are backed too: a call never carries more than the credits
\* committed by now plus its own, however old its copy of the wallet is (lines
\* 122-131), and only a call that carries one holds the wallet's row.
CopiesBacked ==
    \A c \in Calls :
        /\ HoldsWalletCopy(c) => \A k \in Column : userWallet[c][k] <= CopyBound(c, k)
        /\ HoldsWalletCopy(c) /\ pc[c] # "reloadWallet" =>
            \A k \in DOMAIN walletSet[c] : walletSet[c][k] <= CopyBound(c, k)
        /\ "wallet" \in held[c] => HoldsWalletCopy(c) /\ pc[c] # "reloadWallet"

\* The same for users whose wallet was never held twice: the copy is the wallet as
\* it is now plus the call's own amount, and a call that is past its wallet update
\* holds the row.
CopiesExact ==
    /\ \A c \in Calls :
        /\ HoldsWalletCopy(c) /\ pc[c] \notin {"reloadWallet", "updateWallet"}
            => "wallet" \in held[c]
        /\ HoldsWalletCopy(c) /\ pc[c] # "reloadWallet" =>
            /\ CreditedColumn(TrxOf(c)) \in DOMAIN walletSet[c]
            /\ \A k \in DOMAIN walletSet[c] : walletSet[c][k] = userWallet[c][k]
        /\ HoldsWalletCopy(c) /\ UserOf(c) \notin contended =>
            \A k \in Column : userWallet[c][k] = wallet[UserOf(c)][k] +
                (IF k = CreditedColumn(TrxOf(c)) THEN AmountOf[TrxOf(c)] ELSE 0)
    /\ \A c, d \in Calls :
        HoldsWalletCopy(c) /\ HoldsWalletCopy(d) /\ UserOf(c) = UserOf(d)
            /\ UserOf(c) \notin contended => c = d

\* No balance exceeds what committed transactions credited to it, however calls
\* interleave, fail or crash: concurrent updates lose money, they never make any.
BalanceBacked == \A u \in Users, k \in Column : wallet[u][k] <= credited[u][k]

\* Money is lost only to concurrency: while no two calls have held a copy of a
\* user's wallet at once, both balances are exactly the credits committed.
ExactWhenIsolated == \A u \in Users \ contended : wallet[u] = credited[u]

\* A transaction that calls have worked on one at a time, and that was never moved
\* back from Paid, was credited once if it is Paid and not at all otherwise - also
\* when calls fail after the wallet was written, or the process crashes.
CreditMatchesStatus ==
    \A t \in Transactions \ (overlap \cup reopened) :
        PurposeOf[t] # "Fund Withdrawal" =>
            credits[t] = IF status[t] = "Paid" THEN 1 ELSE 0

\* Once nothing works on a booking, it tells the status of its transaction, and a
\* booking that was paid for is matched - unless calls overlapped or one failed.
BookingAgrees ==
    \A t \in Transactions \ (overlap \cup spoiled) :
        PurposeOf[t] = "Service Payment" /\ (\A c \in Calls : TrxOf(c) = t => ~Busy(c)) =>
            \/ status[t] = "Pending" /\ booking[t] = NewBooking
            \/ /\ booking[t].paymentStatus = status[t]
               /\ booking[t].bookingStatus =
                    IF status[t] = "Paid" THEN "In Progress" ELSE "Cancelled"
               /\ credits[t] > 0 => booking[t].isMatched

\* A transaction becomes Paid only in a commit that also credits its owner.
PaidOnlyWithCredit ==
    [][\A t \in Transactions :
        Settles(t, status'[t]) /\ status[t] # "Paid" => credits'[t] = credits[t] + 1]_vars

\* The wallets behave as LossyLedger says: a committed balance plus one credit.
Ledger == INSTANCE LossyLedger
            WITH Columns <- Column, Amounts <- {AmountOf[t] : t \in Transactions}
ImplementsLedger == Ledger!Spec

\* Every call that arrives ends: the rows are always locked in the order wallet,
\* booking, transaction, and a call that fails or is lost lets go of them.
CallsEnd == \A c \in Calls : InFlight(c) ~> ~InFlight(c)

\* A booking that has been paid for is matched in the end, unless a fault or a crash
\* took a call or a match of that transaction away, or a second call, which had read
\* the booking before it was matched, wrote its old isMatched back.
PaidIsMatched ==
    \A t \in Transactions :
        PurposeOf[t] = "Service Payment" /\ credits[t] > 0
            ~> booking[t].isMatched \/ t \in spoiled \cup overlap

\* "Transaction already updated" (transaction.service.ts, line 116): a transaction
\* is credited at most once.
CreditedOnce == \A t \in Transactions : credits[t] <= 1
=============================================================================
