------------------------------ MODULE Payments ------------------------------
(***************************************************************************)
(* Payment requests on the connection pool: createTransaction for a        *)
(* booking, the settlement of its payment, and what every other handler    *)
(* does to the connection it uses.                                         *)
(*                                                                         *)
(* A handler takes a connection from the pool, opens a database            *)
(* transaction on it, and gives the connection back in its finally block.  *)
(* One path of createTransaction - the booking has a payment already -     *)
(* returns without commit or rollback.  Its connection goes back to the    *)
(* pool with the transaction still open, and the next request that gets    *)
(* this connection works inside it: its commit stores, and its rollback    *)
(* discards, what both have written.                                       *)
(***************************************************************************)
EXTENDS Naturals, FiniteSets, Persist

CONSTANTS
    Calls,          \* requests; a call is also the reference it generates
    Bookings,       \* bookings that can be paid for
    Connections,    \* the connections of the pool
    Kinds,          \* what is called, see Handlers
    NoCall,         \* paymentRef IS NULL
    Earlier,        \* the call that requested a payment before the model starts
    NoConnection,   \* the call has no connection
    MaxFaults       \* bound on database errors

\* "pay" is createTransaction for a booking, "settle" updatePayment.  "other" is any
\* handler that opens a transaction and ends it, "nested" one that queries the pool
\* while it has a connection, "lookup" one that never gives its connection back.
Handlers == {"pay", "settle", "other", "nested", "lookup"}

ASSUME PaymentsAssumption ==
    /\ Kinds \subseteq Handlers
    /\ NoCall \notin Calls \cup {Earlier}
    /\ Earlier \notin Calls
    /\ NoConnection \notin Connections
    /\ Bookings # {}
    /\ MaxFaults \in Nat

VARIABLES
    payment,    \* payment[b]: the committed payment row of booking b, and its paymentStatus
    open,       \* open[k][b]: what the transaction open on connection k has changed of it
    on,         \* on[c]: the connection call c has taken
    pc,         \* pc[c]: what call c does next
    request,    \* request[c]: the handler and its input
    entity,     \* entity[c]: the object call c saves
    changes,    \* changes[c]: SET clause of its UPDATE
    faults,     \* database errors so far
    \* History, read by no action.
    overlap     \* bookings that two requests worked on at once

database == <<payment, open>>
memory == <<on, pc, request, entity, changes>>
vars == <<database, memory, faults, overlap>>

-----------------------------------------------------------------------------
\* The columns of the payment, and paymentStatus of the booking it is for.
Columns == {"requestedBy", "paymentRef", "paymentStatus", "bookingPaymentStatus"}

Unrequested == [requestedBy |-> NoCall, paymentRef |-> NoCall, paymentStatus |-> "None",
                bookingPaymentStatus |-> "Not Paid"]

Requested(c) == [requestedBy |-> c, paymentRef |-> c, paymentStatus |-> "Pending",
                 bookingPaymentStatus |-> "Not Paid"]

Exists(row) == row.requestedBy # NoCall

NothingOpen == [b \in Bookings |-> NoChange]

NoRequest == [kind |-> "none", booking |-> CHOOSE b \in Bookings : TRUE, status |-> "Paid"]

\* Call c's transaction reads what was committed and what was written on its connection.
Seen(c, b) == Overlay(payment[b], open[on[c]][b])

Booked(c) == request[c].booking
Working == {"findBooking", "findTrx", "insert", "reload", "update", "query", "lookup", "commit"}
Connected(c) == pc[c] \in Working
InFlight(c) == pc[c] = "connect" \/ Connected(c)
WorksOn(c, b) == InFlight(c) /\ request[c].kind \in {"pay", "settle"} /\ Booked(c) = b

Idle(k) == \A c \in Calls : on[c] # k

\* Connection k has locked the row of booking b: its transaction has changed it.
Locks(k, b) == open[k][b] # NoChange
LockedByOther(c, b) == \E k \in Connections \ {on[c]} : Locks(k, b)

Init ==
    /\ payment \in [Bookings -> {Unrequested, Requested(Earlier)}]
    /\ open = [k \in Connections |-> NothingOpen]
    /\ on = [c \in Calls |-> NoConnection]
    /\ pc = [c \in Calls |-> "idle"]
    /\ request = [c \in Calls |-> NoRequest]
    /\ entity = [c \in Calls |-> NoChange]
    /\ changes = [c \in Calls |-> NoChange]
    /\ faults = 0
    /\ overlap = {}

-----------------------------------------------------------------------------
(* The connection of a call.                                               *)

Step(c, from, to) == pc[c] = from /\ pc' = [pc EXCEPT ![c] = to]

Arrive(c, kind, b, status) ==
    /\ Step(c, "idle", "connect")
    /\ kind \in Kinds
    /\ request' = [request EXCEPT ![c] = [kind |-> kind, booking |-> b, status |-> status]]
    /\ overlap' = IF /\ kind \in {"pay", "settle"}
                     /\ \E d \in Calls \ {c} : WorksOn(d, b)
                  THEN overlap \cup {b} ELSE overlap
    /\ UNCHANGED <<database, on, entity, changes, faults>>

FirstStep(kind) ==
    CASE kind = "pay" -> "findBooking"
      [] kind = "settle" -> "findTrx"
      [] kind = "nested" -> "query"
      [] kind = "other" -> "commit"
      [] OTHER -> "lookup"

ConnectShared(c, k) ==                      \* mutant: one query runner for all calls
    /\ pc[c] = "connect"
    /\ on' = [on EXCEPT ![c] = k]
    /\ pc' = [pc EXCEPT ![c] = FirstStep(request[c].kind)]
    /\ UNCHANGED <<database, request, entity, changes, faults, overlap>>

\* The pool gives call c connection k, with whatever is open on it.  START TRANSACTION
\* inside a transaction is only a warning.
Connect(c, k) ==
    /\ pc[c] = "connect"
    /\ Idle(k)
    /\ on' = [on EXCEPT ![c] = k]
    /\ pc' = [pc EXCEPT ![c] = FirstStep(request[c].kind)]
    /\ UNCHANGED <<database, request, entity, changes, faults, overlap>>

Forget(c) ==
    /\ entity' = [entity EXCEPT ![c] = NoChange]
    /\ changes' = [changes EXCEPT ![c] = NoChange]

Release(c) ==
    /\ on' = [on EXCEPT ![c] = NoConnection]
    /\ Forget(c)

\* Nothing is open on connection k any more.
Discard(k) == open' = [open EXCEPT ![k] = NothingOpen]

FailUnrolled(c) ==                          \* mutant: the catch block does not roll back
    /\ pc' = [pc EXCEPT ![c] = "failed"]
    /\ UNCHANGED <<payment, open>>
    /\ Release(c)

\* The catch block rolls back all that is open on the connection, the finally block
\* gives it back, and the error is thrown on.
Fail(c) ==
    /\ pc' = [pc EXCEPT ![c] = "failed"]
    /\ Discard(on[c])
    /\ UNCHANGED payment
    /\ Release(c)

\* Everything open on the connection is stored, the caller's writes or not.
Commit(c) ==
    /\ Step(c, "commit", "answered")
    /\ payment' = [b \in Bookings |-> Seen(c, b)]
    /\ Discard(on[c])
    /\ Release(c)
    /\ UNCHANGED <<request, faults, overlap>>

-----------------------------------------------------------------------------
(* createTransaction for a booking.                                        *)

\* Lines 56-68.
FindBooking(c) ==
    /\ pc[c] = "findBooking"
    /\ \/ /\ Seen(c, Booked(c)).bookingPaymentStatus # "Paid"
          /\ pc' = [pc EXCEPT ![c] = "findTrx"]
          /\ UNCHANGED <<database, on, entity, changes>>
       \/ /\ Seen(c, Booked(c)).bookingPaymentStatus = "Paid"
          /\ Fail(c)
    /\ UNCHANGED <<request, faults, overlap>>

\* The object createTransaction saves when the booking has a payment: what it has
\* read, with a new reference.
WithNewRef(c, row) ==
    [col \in {"requestedBy", "paymentRef", "paymentStatus"} |->
        IF col = "paymentRef" THEN c ELSE row[col]]

FindTrxRestarting(c) ==                     \* mutant: the retry starts from the new object
    LET row == Seen(c, Booked(c))
    IN  /\ pc[c] = "findTrx" /\ request[c].kind = "pay"
        /\ IF Exists(row)
           THEN /\ pc' = [pc EXCEPT ![c] = "reload"]
                /\ entity' = [entity EXCEPT ![c] =
                        [WithNewRef(c, row) EXCEPT !.paymentStatus = "Pending"]]
           ELSE /\ pc' = [pc EXCEPT ![c] = "insert"]
                /\ UNCHANGED entity
        /\ UNCHANGED <<database, on, changes, request, faults, overlap>>

\* Lines 70-79.
FindTrx(c) ==
    LET row == Seen(c, Booked(c))
    IN  /\ pc[c] = "findTrx" /\ request[c].kind = "pay"
        /\ \/ /\ ~Exists(row)
              /\ pc' = [pc EXCEPT ![c] = "insert"]
              /\ UNCHANGED <<database, on, entity, changes>>
           \/ /\ Exists(row) /\ row.paymentStatus = "Paid"
              /\ Fail(c)
           \/ /\ Exists(row) /\ row.paymentStatus # "Paid"
              /\ pc' = [pc EXCEPT ![c] = "reload"]
              /\ entity' = [entity EXCEPT ![c] = WithNewRef(c, row)]
              /\ UNCHANGED <<database, on, changes>>
        /\ UNCHANGED <<request, faults, overlap>>

Write(c, set) ==
    open' = [open EXCEPT ![on[c]][Booked(c)] =
                [col \in DOMAIN open[on[c]][Booked(c)] \cup DOMAIN set |->
                    IF col \in DOMAIN set THEN set[col] ELSE open[on[c]][Booked(c)][col]]]

NewPayment(c) ==
    [requestedBy |-> c, paymentRef |-> c, paymentStatus |-> "Pending"]

InsertAnyway(c) ==                          \* mutant: no UNIQUE constraint on bookingId
    /\ Step(c, "insert", "commit")
    /\ ~LockedByOther(c, Booked(c))
    /\ Write(c, NewPayment(c))
    /\ UNCHANGED <<payment, on, entity, changes, request, faults, overlap>>

\* Line 91.  A second insert for the booking waits for the first one's transaction and
\* then violates UNIQUE (bookingId).
Insert(c) ==
    /\ pc[c] = "insert"
    /\ ~LockedByOther(c, Booked(c))
    /\ \/ /\ ~Exists(payment[Booked(c)])
          /\ pc' = [pc EXCEPT ![c] = "commit"]
          /\ Write(c, NewPayment(c))
          /\ UNCHANGED <<payment, on, entity, changes>>
       \/ /\ Exists(payment[Booked(c)])
          /\ Fail(c)
    /\ UNCHANGED <<request, faults, overlap>>

\* save reads the row again and compares.
Reload(c) ==
    /\ Step(c, "reload", "update")
    /\ changes' = [changes EXCEPT ![c] = Changed(entity[c], Seen(c, Booked(c)))]
    /\ UNCHANGED <<database, on, request, entity, faults, overlap>>

UpdateRefKeeping(c) ==                      \* mutant: returns before the finally block
    /\ Step(c, "update", "answered")
    /\ request[c].kind = "pay"
    /\ ~LockedByOther(c, Booked(c))
    /\ Write(c, changes[c])
    /\ Forget(c)
    /\ UNCHANGED <<payment, on, request, faults, overlap>>

\* Lines 80-81 and the finally block: the new reference is written, the connection goes
\* back with its transaction open, and the caller gets the reference.
UpdateRef(c) ==
    /\ Step(c, "update", "answered")
    /\ request[c].kind = "pay"
    /\ ~LockedByOther(c, Booked(c))
    /\ Write(c, changes[c])
    /\ Release(c)
    /\ UNCHANGED <<payment, request, faults, overlap>>

-----------------------------------------------------------------------------
(* updatePayment, as far as the payment is concerned: see module Settlement *)

Settled(c, row) ==
    [requestedBy |-> row.requestedBy, paymentRef |-> row.paymentRef,
     paymentStatus |-> request[c].status, bookingPaymentStatus |-> request[c].status]

FindPayment(c) ==
    LET row == Seen(c, Booked(c))
    IN  /\ pc[c] = "findTrx" /\ request[c].kind = "settle"
        /\ \/ /\ ~Exists(row) \/ row.paymentStatus = request[c].status
              /\ Fail(c)
           \/ /\ Exists(row) /\ row.paymentStatus # request[c].status
              /\ pc' = [pc EXCEPT ![c] = "reload"]
              /\ entity' = [entity EXCEPT ![c] = Settled(c, row)]
              /\ UNCHANGED <<database, on, changes>>
        /\ UNCHANGED <<request, faults, overlap>>

UpdatePayment(c) ==
    /\ Step(c, "update", "commit")
    /\ request[c].kind = "settle"
    /\ ~LockedByOther(c, Booked(c))
    /\ Write(c, changes[c])
    /\ UNCHANGED <<payment, on, request, entity, changes, faults, overlap>>

-----------------------------------------------------------------------------
(* Other handlers.                                                         *)

\* A query on a second connection, which is given back at once.
QueryPool(c) ==
    /\ Step(c, "query", "commit")
    /\ \E k \in Connections : Idle(k)
    /\ UNCHANGED <<database, on, request, entity, changes, faults, overlap>>

\* getTransaction has no finally block: answered or not, it keeps the connection.  A
\* reference that is no uuid makes its query fail, which ends what was open.
Lookup(c) ==
    /\ pc[c] = "lookup"
    /\ \/ /\ pc' = [pc EXCEPT ![c] = "answered"]
          /\ UNCHANGED open
       \/ /\ pc' = [pc EXCEPT ![c] = "failed"]
          /\ Discard(on[c])
    /\ UNCHANGED <<payment, on, request, entity, changes, faults, overlap>>

\* A guard of the handler throws.
Refuse(c) ==
    /\ pc[c] = "commit"
    /\ request[c].kind = "other"
    /\ Fail(c)
    /\ UNCHANGED <<request, faults, overlap>>

-----------------------------------------------------------------------------
(* What the environment does.                                              *)

DatabaseError(c) ==
    /\ Connected(c)
    /\ pc[c] \notin {"query", "lookup"}
    /\ faults < MaxFaults
    /\ faults' = faults + 1
    /\ Fail(c)
    /\ UNCHANGED <<request, overlap>>

WaitsFor(c, d) ==
    /\ pc[c] \in {"update", "insert"}
    /\ on[d] \in Connections \ {on[c]}
    /\ Locks(on[d], Booked(c))

\* PostgreSQL aborts one of the transactions that wait for each other.
DeadlockVictim(c) ==
    /\ \E cycle \in SUBSET Calls :
        /\ c \in cycle
        /\ \A d \in cycle : /\ \E e \in cycle : WaitsFor(d, e)
                            /\ \E e \in cycle : WaitsFor(e, d)
    /\ Fail(c)
    /\ UNCHANGED <<request, faults, overlap>>

\* The pool closes a connection nobody has used for a while, and PostgreSQL rolls back
\* what was open on it; the next request opens a new one.
Expire(k) ==
    /\ Idle(k)
    /\ open[k] # NothingOpen
    /\ Discard(k)
    /\ UNCHANGED <<payment, memory, faults, overlap>>

\* A settlement that came by webhook is not awaited: its error ends the process.
Crash ==
    /\ \E c \in Calls : pc[c] = "failed" /\ request[c].kind = "settle"
    /\ open' = [k \in Connections |-> NothingOpen]
    /\ on' = [c \in Calls |-> NoConnection]
    /\ pc' = [c \in Calls |-> CASE InFlight(c) -> "lost"
                                [] pc[c] = "failed" -> "lost"
                                [] OTHER -> pc[c]]
    /\ entity' = [c \in Calls |-> NoChange]
    /\ changes' = [c \in Calls |-> NoChange]
    /\ UNCHANGED <<payment, request, faults, overlap>>

-----------------------------------------------------------------------------
CallStep(c) == \/ \E k \in Connections : Connect(c, k)
               \/ FindBooking(c) \/ FindTrx(c) \/ Insert(c) \/ Reload(c) \/ UpdateRef(c)
               \/ FindPayment(c) \/ UpdatePayment(c) \/ QueryPool(c) \/ Lookup(c)
               \/ Commit(c)
               \/ DeadlockVictim(c)

Next ==
    \/ \E c \in Calls :
        \/ \E b \in Bookings : \/ Arrive(c, "pay", b, "Paid")
                               \/ \E s \in {"Paid", "Cancelled"} : Arrive(c, "settle", b, s)
        \/ \E kind \in Handlers \ {"pay", "settle"} :
            Arrive(c, kind, NoRequest.booking, "Paid")
        \/ CallStep(c) \/ Refuse(c) \/ DatabaseError(c)
    \/ \E k \in Connections : Expire(k)
    \/ Crash

Spec == Init /\ [][Next]_vars

\* The event loop runs what is ready, the pool serves its queue in order, PostgreSQL
\* grants a lock that is free and breaks deadlocks, and an idle connection expires.
FairSpec == /\ Spec
            /\ \A c \in Calls : WF_vars(CallStep(c))
            /\ \A k \in Connections : WF_vars(Expire(k))
-----------------------------------------------------------------------------
(* What is checked.                                                        *)

\* Objects and SET clauses name columns of the row, and a connection has one user.
TypeOK ==
    /\ DOMAIN payment = Bookings
    /\ \A b \in Bookings : DOMAIN payment[b] = Columns
    /\ DOMAIN open = Connections
    /\ \A k \in Connections : DOMAIN open[k] = Bookings
    /\ \A k \in Connections, b \in Bookings : DOMAIN open[k][b] \subseteq Columns
    /\ on \in [Calls -> Connections \cup {NoConnection}]
    /\ \A c, d \in Calls : on[c] = on[d] /\ on[c] # NoConnection => c = d
    /\ pc \in [Calls -> {"idle", "connect", "answered", "failed", "lost"} \cup Working]
    /\ \A c \in Calls : Connected(c) => on[c] \in Connections
    /\ request \in [Calls -> [kind : Handlers \cup {"none"}, booking : Bookings,
                              status : {"Paid", "Cancelled"}]]
    /\ DOMAIN entity = Calls /\ DOMAIN changes = Calls
    /\ \A c \in Calls : DOMAIN entity[c] \subseteq Columns /\ DOMAIN changes[c] \subseteq Columns
    /\ faults \in 0..MaxFaults
    /\ overlap \subseteq Bookings

\* A booking never gets a second payment, although two requests can both find none.
OnePayment ==
    [][\A b \in Bookings :
        Exists(payment[b]) => payment'[b].requestedBy = payment[b].requestedBy]_vars

\* A request that failed has stored nothing, not even through the requests that use its
\* connection afterwards: every stored reference was answered.
FailedLeavesNothing ==
    \A b \in Bookings, c \in Calls : payment[b].paymentRef = c => pc[c] = "answered"

\* On a booking no two requests have worked on at once only a settlement changes the
\* status of a payment that was requested: a new reference does not reopen it, whoever
\* commits it.
OnlySettlementsSettle ==
    [][\A b \in Bookings \ overlap' :
        Exists(payment[b]) /\ payment'[b].paymentStatus # payment[b].paymentStatus =>
            \E c \in Calls : /\ WorksOn(c, b) /\ request[c].kind = "settle"
                             /\ pc'[c] = "answered"]_vars

\* Call c has a connection that it never gives back, or not before it gets another.
KeepsConnection(c) ==
    on[c] \in Connections /\ (pc[c] = "query" \/ request[c].kind = "lookup")

\* The pool has run dry.
Exhausted == \A k \in Connections : \E c \in Calls : on[c] = k /\ KeepsConnection(c)

\* A row is locked on a connection that is kept.
LockKept == \E c \in Calls, b \in Bookings : KeepsConnection(c) /\ Locks(on[c], b)

\* A request ends unless the pool runs dry, or a transaction that an answered request
\* left open has come to a call that keeps the connection: a lookup, or one that waits
\* for a second connection while the holder of that one waits for the locked row.
CallsEnd == \A c \in Calls : InFlight(c) ~> ~InFlight(c) \/ Exhausted \/ LockKept

\* "transaction created successfullyy" (transaction.controller.ts, line 31): when a payment
\* request is answered, the reference it is answered with is stored.
AnsweredIsStored ==
    [][\A c \in Calls :
        request[c].kind = "pay" /\ pc[c] # "answered" /\ pc'[c] = "answered"
            => payment'[Booked(c)].paymentRef = c]_vars
=============================================================================
