--------------------------- MODULE PaymentsProofs ---------------------------
(***************************************************************************)
(* Proofs about Payments, for any number of calls, bookings, connections   *)
(* and faults.                                                             *)
(***************************************************************************)
EXTENDS Payments, TLAPS

-----------------------------------------------------------------------------
(* Rows, SET clauses and reads.                                            *)

LEMMA NoChangeDomain == DOMAIN NoChange = {}
  BY DEF NoChange

LEMMA ChangedDomain ==
    ASSUME NEW object, NEW row
    PROVE  /\ DOMAIN Changed(object, row) \subseteq DOMAIN object
           /\ \A col \in DOMAIN Changed(object, row) :
                /\ Changed(object, row)[col] = object[col]
                /\ object[col] # row[col]
  BY DEF Changed

\* A column a transaction reads is the one its connection has written, or the committed one.
LEMMA SeenColumn ==
    ASSUME TypeOK, NEW c \in Calls, NEW b \in Bookings, NEW col \in Columns
    PROVE  /\ DOMAIN Seen(c, b) = Columns
           /\ Seen(c, b)[col] = IF col \in DOMAIN open[on[c]][b]
                                THEN open[on[c]][b][col] ELSE payment[b][col]
  BY DEF TypeOK, Seen, Overlay

\* What Write leaves open: the connection's other rows and the other connections stay,
\* and the row gets the columns of the SET clause.
LEMMA WriteEffect ==
    ASSUME TypeOK, NEW c \in Calls, on[c] \in Connections, NEW set, Write(c, set)
    PROVE  /\ DOMAIN open' = Connections
           /\ \A k \in Connections : DOMAIN open'[k] = Bookings
           /\ \A k \in Connections, b \in Bookings :
                k # on[c] \/ b # Booked(c) => open'[k][b] = open[k][b]
           /\ DOMAIN open'[on[c]][Booked(c)]
                = DOMAIN open[on[c]][Booked(c)] \cup DOMAIN set
           /\ \A col \in DOMAIN open'[on[c]][Booked(c)] :
                open'[on[c]][Booked(c)][col]
                    = IF col \in DOMAIN set THEN set[col] ELSE open[on[c]][Booked(c)][col]
  <1>1. Booked(c) \in Bookings
    BY DEF TypeOK, Booked
  <1> QED
    BY <1>1 DEF TypeOK, Write

\* What Discard leaves open.
LEMMA DiscardEffect ==
    ASSUME TypeOK, NEW k \in Connections,
           Discard(k)
    PROVE  /\ DOMAIN open' = Connections
           /\ \A l \in Connections : DOMAIN open'[l] = Bookings
           /\ \A l \in Connections \ {k}, b \in Bookings : open'[l][b] = open[l][b]
           /\ \A b \in Bookings : open'[k][b] = NoChange
  BY DEF TypeOK, Discard, NothingOpen

LEMMA DiscardTyped ==
    ASSUME TypeOK, NEW k \in Connections, Discard(k)
    PROVE  /\ DOMAIN open' = Connections
           /\ \A l \in Connections : DOMAIN open'[l] = Bookings
           /\ \A l \in Connections, b \in Bookings : DOMAIN open'[l][b] \subseteq Columns
  BY DiscardEffect, NoChangeDomain DEF TypeOK

-----------------------------------------------------------------------------
(* Type correctness.                                                       *)

LEMMA InitTyped == Init => TypeOK
  <1> SUFFICES ASSUME Init PROVE TypeOK
    OBVIOUS
  <1> USE PaymentsAssumption, NoChangeDomain DEF Init
  <1>1. \A b \in Bookings : DOMAIN payment[b] = Columns
    <2>1. DOMAIN Unrequested = Columns
      BY DEF Unrequested, Columns
    <2>2. DOMAIN Requested(Earlier) = Columns
      BY DEF Requested, Columns
    <2> QED
      BY <2>1, <2>2
  <1>2. /\ DOMAIN open = Connections
        /\ \A k \in Connections : DOMAIN open[k] = Bookings
        /\ \A k \in Connections, b \in Bookings : DOMAIN open[k][b] \subseteq Columns
    BY DEF NothingOpen
  <1>3. NoRequest \in [kind : Handlers \cup {"none"}, booking : Bookings,
                       status : {"Paid", "Cancelled"}]
    BY DEF NoRequest
  <1> QED
    BY <1>1, <1>2, <1>3 DEF TypeOK, Connected, Working

\* An action that touches neither rows nor objects, and moves one call within its
\* connection, keeps the types.
LEMMA MoveTyped ==
    ASSUME TypeOK, NEW c \in Calls, UNCHANGED <<database, on, request, entity, changes, faults, overlap>>,
           Connected(c), NEW to \in {"answered", "failed"} \cup Working,
           pc' = [pc EXCEPT ![c] = to]
    PROVE  TypeOK'
  BY DEF TypeOK, database, Connected

\* So does the end of a call, whether it rolls back or leaves its transaction open.
LEMMA ReleaseTyped ==
    ASSUME TypeOK, NEW c \in Calls, Release(c),
           DOMAIN payment' = Bookings,
           \A b \in Bookings : DOMAIN payment'[b] = Columns,
           DOMAIN open' = Connections,
           \A k \in Connections : DOMAIN open'[k] = Bookings,
           \A k \in Connections, b \in Bookings : DOMAIN open'[k][b] \subseteq Columns,
           UNCHANGED <<request, overlap>>, faults' \in 0..MaxFaults,
           NEW to \in {"answered", "failed"}, pc' = [pc EXCEPT ![c] = to]
    PROVE  TypeOK'
  BY PaymentsAssumption, NoChangeDomain DEF TypeOK, Release, Forget, Connected, Working

LEMMA FailTyped ==
    ASSUME TypeOK, NEW c \in Calls, on[c] \in Connections, Fail(c),
           UNCHANGED <<request, overlap>>, faults' \in 0..MaxFaults
    PROVE  TypeOK'
  <1>1. /\ DOMAIN open' = Connections
        /\ \A l \in Connections : DOMAIN open'[l] = Bookings
        /\ \A l \in Connections, b \in Bookings : DOMAIN open'[l][b] \subseteq Columns
    BY DiscardTyped DEF Fail
  <1>2. DOMAIN payment' = Bookings /\ \A b \in Bookings : DOMAIN payment'[b] = Columns
    BY DEF Fail, TypeOK
  <1> QED
    BY <1>1, <1>2, ReleaseTyped DEF Fail

\* A write of known columns.
LEMMA WriteTyped ==
    ASSUME TypeOK, NEW c \in Calls, on[c] \in Connections, NEW set, Write(c, set),
           DOMAIN set \subseteq Columns
    PROVE  /\ DOMAIN open' = Connections
           /\ \A k \in Connections : DOMAIN open'[k] = Bookings
           /\ \A k \in Connections, b \in Bookings : DOMAIN open'[k][b] \subseteq Columns
  BY WriteEffect DEF TypeOK

\* An object that is found.
LEMMA FoundTyped ==
    ASSUME TypeOK, NEW c \in Calls, pc[c] = "findTrx", NEW object,
           DOMAIN object \subseteq Columns,
           pc' = [pc EXCEPT ![c] = "reload"], entity' = [entity EXCEPT ![c] = object],
           UNCHANGED <<database, on, changes, request, faults, overlap>>
    PROVE  TypeOK'
  BY DEF TypeOK, database, Connected, Working

\* Every step keeps the types; one step of the proof per action.
LEMMA NextTyped == TypeOK /\ [Next]_vars => TypeOK'
  <1> SUFFICES ASSUME TypeOK, [Next]_vars PROVE TypeOK'
    OBVIOUS
  <1> USE PaymentsAssumption
  <1>0. \A c \in Calls : Connected(c) => on[c] \in Connections
    BY DEF TypeOK
  <1>f. faults \in 0..MaxFaults
    BY DEF TypeOK
  <1>1. ASSUME NEW c \in Calls, NEW kind \in Handlers, NEW b \in Bookings,
               NEW s \in {"Paid", "Cancelled"}, Arrive(c, kind, b, s)
        PROVE  TypeOK'
    BY <1>1 DEF Arrive, Step, TypeOK, database, Connected, Working
  <1>2. ASSUME NEW c \in Calls, NEW k \in Connections, Connect(c, k)
        PROVE  TypeOK'
    <2>1. FirstStep(request[c].kind) \in Working
      BY DEF FirstStep, Working
    <2> QED
      BY <1>2, <2>1 DEF Connect, TypeOK, database, Connected, Idle
  <1>3. ASSUME NEW c \in Calls, FindBooking(c) PROVE TypeOK'
    <2>1. on[c] \in Connections /\ Connected(c)
      BY <1>0, <1>3 DEF FindBooking, Connected, Working
    <2>2. CASE pc' = [pc EXCEPT ![c] = "findTrx"] /\ UNCHANGED <<database, on, entity, changes>>
      BY <1>3, <2>1, <2>2, MoveTyped DEF FindBooking, Working
    <2>3. CASE Fail(c)
      BY <1>f, <1>3, <2>1, <2>3, FailTyped DEF FindBooking
    <2> QED
      BY <1>3, <2>2, <2>3 DEF FindBooking
  <1>4. ASSUME NEW c \in Calls, FindTrx(c) PROVE TypeOK'
    <2> DEFINE row == Seen(c, Booked(c))
    <2>1. on[c] \in Connections /\ Connected(c)
      BY <1>0, <1>4 DEF FindTrx, Connected, Working
    <2>2. CASE pc' = [pc EXCEPT ![c] = "insert"] /\ UNCHANGED <<database, on, entity, changes>>
      BY <1>4, <2>1, <2>2, MoveTyped DEF FindTrx, Working
    <2>3. CASE Fail(c)
      BY <1>f, <1>4, <2>1, <2>3, FailTyped DEF FindTrx
    <2>4. CASE /\ pc' = [pc EXCEPT ![c] = "reload"]
               /\ entity' = [entity EXCEPT ![c] = WithNewRef(c, row)]
               /\ UNCHANGED <<database, on, changes>>
      <3>1. DOMAIN WithNewRef(c, row) \subseteq Columns
        BY DEF WithNewRef, Columns
      <3> QED
        BY <1>4, <2>4, <3>1, FoundTyped DEF FindTrx
    <2> QED
      BY <1>4, <2>2, <2>3, <2>4 DEF FindTrx
  <1>5. ASSUME NEW c \in Calls, Insert(c) PROVE TypeOK'
    <2>1. on[c] \in Connections
      BY <1>0, <1>5 DEF Insert, Connected, Working
    <2>2. CASE /\ pc' = [pc EXCEPT ![c] = "commit"]
               /\ Write(c, NewPayment(c))
               /\ UNCHANGED <<payment, on, entity, changes>>
      <3>1. DOMAIN NewPayment(c) \subseteq Columns
        BY DEF NewPayment, Columns
      <3> QED
        BY <1>5, <2>1, <2>2, <3>1, WriteTyped DEF Insert, TypeOK, Connected, Working
    <2>3. CASE Fail(c)
      BY <1>f, <1>5, <2>1, <2>3, FailTyped DEF Insert
    <2> QED
      BY <1>5, <2>2, <2>3 DEF Insert
  <1>6. ASSUME NEW c \in Calls, Reload(c) PROVE TypeOK'
    <2>1. DOMAIN Changed(entity[c], Seen(c, Booked(c))) \subseteq Columns
      BY ChangedDomain DEF TypeOK
    <2> QED
      BY <1>6, <2>1 DEF Reload, Step, TypeOK, database, Connected, Working
  <1>7. ASSUME NEW c \in Calls, UpdateRef(c) PROVE TypeOK'
    <2>1. on[c] \in Connections
      BY <1>0, <1>7 DEF UpdateRef, Step, Connected, Working
    <2>2. DOMAIN changes[c] \subseteq Columns
      BY DEF TypeOK
    <2>3. /\ DOMAIN payment' = Bookings
          /\ \A b \in Bookings : DOMAIN payment'[b] = Columns
          /\ UNCHANGED <<request, overlap>> /\ faults' \in 0..MaxFaults
      BY <1>7 DEF UpdateRef, TypeOK
    <2> QED
      BY <1>7, <2>1, <2>2, <2>3, WriteTyped, ReleaseTyped DEF UpdateRef, Step
  <1>8. ASSUME NEW c \in Calls, FindPayment(c) PROVE TypeOK'
    <2> DEFINE row == Seen(c, Booked(c))
    <2>1. on[c] \in Connections
      BY <1>0, <1>8 DEF FindPayment, Connected, Working
    <2>2. CASE Fail(c)
      BY <1>f, <1>8, <2>1, <2>2, FailTyped DEF FindPayment
    <2>3. CASE /\ pc' = [pc EXCEPT ![c] = "reload"]
               /\ entity' = [entity EXCEPT ![c] = Settled(c, row)]
               /\ UNCHANGED <<database, on, changes>>
      <3>1. DOMAIN Settled(c, row) \subseteq Columns
        BY DEF Settled, Columns
      <3> QED
        BY <1>8, <2>3, <3>1, FoundTyped DEF FindPayment
    <2> QED
      BY <1>8, <2>2, <2>3 DEF FindPayment
  <1>9. ASSUME NEW c \in Calls, UpdatePayment(c) PROVE TypeOK'
    <2>1. on[c] \in Connections
      BY <1>0, <1>9 DEF UpdatePayment, Step, Connected, Working
    <2>2. DOMAIN changes[c] \subseteq Columns
      BY DEF TypeOK
    <2> QED
      BY <1>9, <2>1, <2>2, WriteTyped DEF UpdatePayment, Step, TypeOK, Connected, Working
  <1>10. ASSUME NEW c \in Calls, QueryPool(c) PROVE TypeOK'
    BY <1>10, MoveTyped DEF QueryPool, Step, Connected, Working
  <1>11. ASSUME NEW c \in Calls, Lookup(c) PROVE TypeOK'
    <2>1. on[c] \in Connections /\ Connected(c)
      BY <1>0, <1>11 DEF Lookup, Connected, Working
    <2>2. CASE pc' = [pc EXCEPT ![c] = "answered"] /\ UNCHANGED open
      BY <1>11, <2>1, <2>2, MoveTyped DEF Lookup, database
    <2>3. CASE /\ pc' = [pc EXCEPT ![c] = "failed"]
               /\ Discard(on[c])
      <3>1. /\ DOMAIN open' = Connections
            /\ \A l \in Connections : DOMAIN open'[l] = Bookings
            /\ \A l \in Connections, b \in Bookings : DOMAIN open'[l][b] \subseteq Columns
        BY <2>1, <2>3, DiscardTyped
      <3> QED
        BY <1>11, <2>1, <2>3, <3>1 DEF Lookup, TypeOK, Connected, Working
    <2> QED
      BY <1>11, <2>2, <2>3 DEF Lookup
  <1>12. ASSUME NEW c \in Calls, Commit(c) PROVE TypeOK'
    <2>1. on[c] \in Connections
      BY <1>0, <1>12 DEF Commit, Step, Connected, Working
    <2>2. DOMAIN payment' = Bookings /\ \A b \in Bookings : DOMAIN payment'[b] = Columns
      BY <1>12, SeenColumn DEF Commit, Columns
    <2>3. /\ DOMAIN open' = Connections
          /\ \A l \in Connections : DOMAIN open'[l] = Bookings
          /\ \A l \in Connections, b \in Bookings : DOMAIN open'[l][b] \subseteq Columns
      BY <1>12, <2>1, DiscardTyped DEF Commit
    <2> QED
      BY <1>f, <1>12, <2>1, <2>2, <2>3, ReleaseTyped DEF Commit, Step
  <1>13. ASSUME NEW c \in Calls, DeadlockVictim(c) PROVE TypeOK'
    <2>1. PICK d \in Calls : WaitsFor(c, d)
      BY <1>13 DEF DeadlockVictim
    <2>2. on[c] \in Connections
      BY <1>0, <2>1 DEF WaitsFor, Connected, Working
    <2> QED
      BY <1>f, <1>13, <2>2, FailTyped DEF DeadlockVictim
  <1>14. ASSUME NEW c \in Calls, Refuse(c) PROVE TypeOK'
    <2>1. on[c] \in Connections
      BY <1>0, <1>14 DEF Refuse, Connected, Working
    <2> QED
      BY <1>f, <1>14, <2>1, FailTyped DEF Refuse
  <1>15. ASSUME NEW c \in Calls, DatabaseError(c) PROVE TypeOK'
    BY <1>0, <1>f, <1>15, FailTyped DEF DatabaseError
  <1>16. ASSUME NEW k \in Connections, Expire(k) PROVE TypeOK'
    BY <1>16, DiscardTyped DEF Expire, TypeOK, memory, Connected
  <1>17. ASSUME Crash PROVE TypeOK'
    <2>1. pc' \in [Calls -> {"idle", "connect", "answered", "failed", "lost"} \cup Working]
      BY <1>17 DEF Crash, TypeOK
    <2>2. \A c \in Calls : pc'[c] \notin Working
      BY <1>17 DEF Crash, TypeOK, InFlight, Connected, Working
    <2>3. /\ DOMAIN open' = Connections
          /\ \A k \in Connections : DOMAIN open'[k] = Bookings
          /\ \A k \in Connections, b \in Bookings : DOMAIN open'[k][b] \subseteq Columns
      BY <1>17, NoChangeDomain DEF Crash, NothingOpen
    <2>4. /\ on' = [c \in Calls |-> NoConnection]
          /\ DOMAIN entity' = Calls /\ DOMAIN changes' = Calls
          /\ \A c \in Calls : DOMAIN entity'[c] = {} /\ DOMAIN changes'[c] = {}
      BY <1>17, NoChangeDomain DEF Crash
    <2> QED
      BY <1>17, <2>1, <2>2, <2>3, <2>4 DEF Crash, TypeOK, Connected
  <1>18. CASE UNCHANGED vars
    BY <1>18 DEF vars, database, memory, TypeOK, Connected
  <1> QED
    BY <1>1, <1>2, <1>3, <1>4, <1>5, <1>6, <1>7, <1>8, <1>9, <1>10, <1>11, <1>12, <1>13,
       <1>14, <1>15, <1>16, <1>17, <1>18 DEF Next, CallStep, Handlers, NoRequest

\* Type correctness: rows, objects and SET clauses keep to the columns of the row, and
\* no two requests ever share a connection of the pool.
THEOREM TypeCorrect == Spec => []TypeOK
  BY InitTyped, NextTyped, PTL DEF Spec

-----------------------------------------------------------------------------
(* The inductive invariant.                                                *)

\* What is written on a connection but not stored yet was written by an answered request,
\* or by the one that is about to commit it.
OpenReferences ==
    \A k \in Connections, b \in Bookings, c \in Calls :
        "paymentRef" \in DOMAIN open[k][b] /\ open[k][b]["paymentRef"] = c =>
            pc[c] = "answered" \/ (on[c] = k /\ pc[c] = "commit")

\* A request carries its own reference, or one that was answered.
HeldReferences ==
    \A c, d \in Calls :
        /\ "paymentRef" \in DOMAIN entity[d] /\ entity[d]["paymentRef"] = c
                => pc[c] = "answered" \/ c = d
        /\ "paymentRef" \in DOMAIN changes[d] /\ changes[d]["paymentRef"] = c
                => pc[c] = "answered" \/ c = d

References == FailedLeavesNothing /\ OpenReferences /\ HeldReferences

\* No two transactions have changed the same row.
LocksExclusive ==
    \A k, l \in Connections, b \in Bookings : Locks(k, b) /\ Locks(l, b) => k = l

\* A payment that is inserted but not stored belongs to a request that is about to commit,
\* and to a booking that has none: no transaction that is left open has inserted one.
InsertsPending ==
    \A k \in Connections, b \in Bookings :
        "requestedBy" \in DOMAIN open[k][b] =>
            /\ ~Exists(payment[b])
            /\ \E c \in Calls : on[c] = k /\ pc[c] = "commit"

\* A request that has found the payment saves it as the payment it is.
ObjectsIdentify ==
    \A c \in Calls :
        /\ pc[c] = "reload" =>
            /\ Exists(payment[Booked(c)])
            /\ entity[c]["requestedBy"] = payment[Booked(c)]["requestedBy"]
        /\ pc[c] = "update" => "requestedBy" \notin DOMAIN changes[c]

Identity == LocksExclusive /\ InsertsPending /\ ObjectsIdentify

Inv == TypeOK /\ References /\ Identity

\* One step does not give a payment another identity.
Identified ==
    \A b \in Bookings : Exists(payment[b]) => payment'[b].requestedBy = payment[b].requestedBy

LEMMA InitInv == Init => Inv
  <1> SUFFICES ASSUME Init PROVE Inv
    OBVIOUS
  <1> USE PaymentsAssumption, NoChangeDomain DEF Init
  <1>1. References
    <2>1. Unrequested.paymentRef = NoCall /\ Requested(Earlier).paymentRef = Earlier
      BY DEF Unrequested, Requested
    <2>2. FailedLeavesNothing
      BY <2>1 DEF FailedLeavesNothing
    <2>3. OpenReferences
      BY DEF OpenReferences, NothingOpen
    <2>4. HeldReferences
      BY DEF HeldReferences
    <2> QED
      BY <2>2, <2>3, <2>4 DEF References
  <1>2. Identity
    BY DEF Identity, LocksExclusive, Locks, InsertsPending, ObjectsIdentify, NothingOpen
  <1> QED
    BY <1>1, <1>2, InitTyped DEF Inv

\* A quiet step stores nothing and writes nothing: at most it rolls a connection back, with
\* the request that was about to commit there, and empties objects.
Quiet ==
    /\ UNCHANGED payment
    /\ \A k \in Connections, b \in Bookings : open'[k][b] = open[k][b] \/ open'[k][b] = NoChange
    /\ \A c \in Calls : /\ entity'[c] = entity[c] \/ entity'[c] = NoChange
                        /\ changes'[c] = changes[c] \/ changes'[c] = NoChange
    /\ \A c \in Calls : pc[c] = "answered" => pc'[c] = "answered"
    /\ \A c \in Calls : pc[c] = "commit" =>
            \/ pc'[c] = "commit" /\ on'[c] = on[c]
            \/ \A b \in Bookings : open'[on[c]][b] = NoChange
    /\ \A c \in Calls : pc'[c] \in {"reload", "update"} =>
            /\ pc'[c] = pc[c] /\ request'[c] = request[c]
            /\ entity'[c] = entity[c] /\ changes'[c] = changes[c]

LEMMA QuietKeepsInv ==
    ASSUME Inv, Quiet
    PROVE  References' /\ Identity' /\ Identified
  <1> USE NoChangeDomain
  <1>1. FailedLeavesNothing'
    BY DEF Inv, References, FailedLeavesNothing, Quiet
  <1>2. OpenReferences'
    BY DEF Inv, References, OpenReferences, Quiet
  <1>3. HeldReferences'
    <2> SUFFICES ASSUME NEW c \in Calls, NEW d \in Calls
                 PROVE  /\ "paymentRef" \in DOMAIN entity'[d] /\ entity'[d]["paymentRef"] = c
                                => pc'[c] = "answered" \/ c = d
                        /\ "paymentRef" \in DOMAIN changes'[d] /\ changes'[d]["paymentRef"] = c
                                => pc'[c] = "answered" \/ c = d
      BY DEF HeldReferences
    <2>1. entity'[d] = entity[d] \/ entity'[d] = NoChange
      BY DEF Quiet
    <2>2. changes'[d] = changes[d] \/ changes'[d] = NoChange
      BY DEF Quiet
    <2>3. pc[c] = "answered" => pc'[c] = "answered"
      BY DEF Quiet
    <2> QED
      BY <2>1, <2>2, <2>3 DEF Inv, References, HeldReferences
  <1>4. LocksExclusive'
    BY DEF Inv, Identity, LocksExclusive, Locks, Quiet
  <1>5. InsertsPending'
    BY DEF Inv, Identity, InsertsPending, Exists, Quiet
  <1>6. ObjectsIdentify'
    BY DEF Inv, Identity, ObjectsIdentify, Exists, Booked, Quiet
  <1> QED
    BY <1>1, <1>2, <1>3, <1>4, <1>5, <1>6 DEF References, Identity, Identified, Quiet

\* Every failure is quiet: what the request has written is discarded with it.
LEMMA FailQuiet ==
    ASSUME Inv, NEW c \in Calls, pc[c] \in Working, Fail(c), UNCHANGED request
    PROVE  Quiet
  <1>1. on[c] \in Connections
    BY DEF Inv, TypeOK, Connected
  <1>2. /\ \A l \in Connections \ {on[c]}, b \in Bookings : open'[l][b] = open[l][b]
        /\ \A b \in Bookings : open'[on[c]][b] = NoChange
    BY <1>1, DiscardEffect DEF Fail, Inv
  <1> QED
    BY <1>1, <1>2 DEF Quiet, Fail, Release, Forget, Inv, TypeOK, Working

\* So is a step of one request that touches no row and no object.
LEMMA MoveQuiet ==
    ASSUME Inv, NEW c \in Calls, pc[c] \notin {"answered", "commit"},
           NEW to, to \notin {"reload", "update"}, pc' = [pc EXCEPT ![c] = to],
           UNCHANGED <<database, entity, changes>>,
           \A d \in Calls \ {c} : request'[d] = request[d] /\ on'[d] = on[d]
    PROVE  Quiet
  BY DEF Quiet, Inv, TypeOK, database

\* What a request that is not about to commit reads as the identity of a payment is the
\* committed one.
LEMMA SeenIdentity ==
    ASSUME Inv, NEW c \in Calls, pc[c] \in Working, pc[c] # "commit", NEW b \in Bookings
    PROVE  /\ "requestedBy" \notin DOMAIN open[on[c]][b]
           /\ Seen(c, b)["requestedBy"] = payment[b]["requestedBy"]
           /\ Exists(Seen(c, b)) <=> Exists(payment[b])
  <1>1. on[c] \in Connections
    BY DEF Inv, TypeOK, Connected
  <1>2. "requestedBy" \notin DOMAIN open[on[c]][b]
    <2> SUFFICES ASSUME "requestedBy" \in DOMAIN open[on[c]][b] PROVE FALSE
      OBVIOUS
    <2>1. PICK d \in Calls : on[d] = on[c] /\ pc[d] = "commit"
      BY <1>1 DEF Inv, Identity, InsertsPending
    <2>2. c = d
      BY <1>1, <2>1, PaymentsAssumption DEF Inv, TypeOK
    <2> QED
      BY <2>1, <2>2
  <1>3. Seen(c, b)["requestedBy"] = payment[b]["requestedBy"]
    BY <1>2, SeenColumn DEF Inv, Columns
  <1> QED
    BY <1>2, <1>3 DEF Exists

\* The reference a request reads was answered, unless the request is about to commit.
LEMMA SeenReference ==
    ASSUME Inv, NEW c \in Calls, pc[c] \in Working, pc[c] # "commit", NEW b \in Bookings,
           NEW d \in Calls, Seen(c, b)["paymentRef"] = d
    PROVE  pc[d] = "answered"
  <1>1. on[c] \in Connections
    BY DEF Inv, TypeOK, Connected
  <1>2. CASE "paymentRef" \in DOMAIN open[on[c]][b]
    <2>1. open[on[c]][b]["paymentRef"] = d
      BY <1>2, SeenColumn DEF Inv, Columns
    <2>2. pc[d] = "answered" \/ (on[d] = on[c] /\ pc[d] = "commit")
      BY <1>1, <1>2, <2>1 DEF Inv, References, OpenReferences
    <2>3. on[d] = on[c] => c = d
      BY <1>1, PaymentsAssumption DEF Inv, TypeOK
    <2> QED
      BY <2>2, <2>3
  <1>3. CASE "paymentRef" \notin DOMAIN open[on[c]][b]
    <2>1. payment[b]["paymentRef"] = d
      BY <1>3, SeenColumn DEF Inv, Columns
    <2> QED
      BY <2>1 DEF Inv, References, FailedLeavesNothing
  <1> QED
    BY <1>2, <1>3

\* Finding the payment: the object is the payment that was read, with the request's own
\* reference or the one it has.
LEMMA FoundKeepsInv ==
    ASSUME Inv, NEW c \in Calls, pc[c] = "findTrx", NEW object,
           DOMAIN object \subseteq Columns,
           pc' = [pc EXCEPT ![c] = "reload"], entity' = [entity EXCEPT ![c] = object],
           UNCHANGED <<database, on, changes, request, faults, overlap>>,
           Exists(Seen(c, Booked(c))),
           object["requestedBy"] = Seen(c, Booked(c))["requestedBy"],
           object["paymentRef"] \in {c, Seen(c, Booked(c))["paymentRef"]}
    PROVE  References' /\ Identity' /\ Identified
  <1>1. Booked(c) \in Bookings /\ pc[c] \in Working
    BY DEF Inv, TypeOK, Booked, Working
  <1>2. FailedLeavesNothing' /\ OpenReferences'
    BY DEF Inv, TypeOK, References, FailedLeavesNothing, OpenReferences, database
  <1>3. ASSUME NEW d \in Calls, object["paymentRef"] = d PROVE pc[d] = "answered" \/ c = d
    BY <1>1, <1>3, SeenReference
  <1>4. HeldReferences'
    BY <1>3 DEF Inv, TypeOK, References, HeldReferences
  <1>5. LocksExclusive' /\ InsertsPending'
    BY DEF Inv, TypeOK, Identity, LocksExclusive, Locks, InsertsPending, Exists, database
  <1>6. /\ Exists(payment[Booked(c)])
        /\ object["requestedBy"] = payment[Booked(c)]["requestedBy"]
    BY <1>1, SeenIdentity
  <1>7. ObjectsIdentify'
    BY <1>6 DEF Inv, TypeOK, Identity, ObjectsIdentify, Exists, Booked, database
  <1> QED
    BY <1>2, <1>4, <1>5, <1>7 DEF References, Identity, Identified, database

\* Reading again before the write: the SET clause never names the identity.
LEMMA ReloadKeepsInv ==
    ASSUME Inv, NEW c \in Calls, Reload(c)
    PROVE  References' /\ Identity' /\ Identified
  <1> DEFINE clause == Changed(entity[c], Seen(c, Booked(c)))
  <1>1. Booked(c) \in Bookings /\ pc[c] \in Working /\ pc[c] = "reload"
    BY DEF Inv, TypeOK, Booked, Working, Reload, Step
  <1>2. FailedLeavesNothing' /\ OpenReferences'
    BY DEF Inv, TypeOK, References, FailedLeavesNothing, OpenReferences, database, Reload, Step
  <1>3. HeldReferences'
    BY ChangedDomain DEF Inv, TypeOK, References, HeldReferences, Reload, Step
  <1>4. LocksExclusive' /\ InsertsPending'
    BY DEF Inv, TypeOK, Identity, LocksExclusive, Locks, InsertsPending, Exists, database,
           Reload, Step
  <1>5. "requestedBy" \notin DOMAIN clause
    BY <1>1, SeenIdentity, ChangedDomain DEF Inv, Identity, ObjectsIdentify
  <1>6. ObjectsIdentify'
    BY <1>5 DEF Inv, TypeOK, Identity, ObjectsIdentify, Exists, Booked, database, Reload, Step
  <1> QED
    BY <1>2, <1>3, <1>4, <1>6 DEF References, Identity, Identified, database, Reload

\* Writing what was found: the row is locked by nobody else.
LEMMA UpdateKeepsInv ==
    ASSUME Inv, NEW c \in Calls, pc[c] = "update", Write(c, changes[c]),
           ~LockedByOther(c, Booked(c)), UNCHANGED <<payment, request>>,
           NEW to \in {"answered", "commit"}, pc' = [pc EXCEPT ![c] = to],
           to = "commit" => on' = on,
           \A d \in Calls \ {c} : on'[d] = on[d],
           \A d \in Calls : /\ entity'[d] = entity[d] \/ (d = c /\ entity'[d] = NoChange)
                            /\ changes'[d] = changes[d] \/ (d = c /\ changes'[d] = NoChange)
    PROVE  References' /\ Identity' /\ Identified
  <1> USE NoChangeDomain
  <1>1. on[c] \in Connections /\ Booked(c) \in Bookings
    BY DEF Inv, TypeOK, Booked, Connected, Working
  <1>2. /\ DOMAIN open' = Connections
        /\ \A k \in Connections, b \in Bookings :
             k # on[c] \/ b # Booked(c) => open'[k][b] = open[k][b]
        /\ DOMAIN open'[on[c]][Booked(c)] = DOMAIN open[on[c]][Booked(c)] \cup DOMAIN changes[c]
        /\ \A col \in DOMAIN open'[on[c]][Booked(c)] :
             open'[on[c]][Booked(c)][col]
                = IF col \in DOMAIN changes[c] THEN changes[c][col]
                  ELSE open[on[c]][Booked(c)][col]
    BY <1>1, WriteEffect DEF Inv
  <1>3. \A d \in Calls : pc[d] = "answered" => pc'[d] = "answered"
    BY DEF Inv, TypeOK
  <1>4. FailedLeavesNothing'
    BY <1>3 DEF Inv, References, FailedLeavesNothing
  <1>5. OpenReferences'
    <2> SUFFICES ASSUME NEW k \in Connections, NEW b \in Bookings, NEW d \in Calls,
                        "paymentRef" \in DOMAIN open'[k][b], open'[k][b]["paymentRef"] = d
                 PROVE  pc'[d] = "answered" \/ (on'[d] = k /\ pc'[d] = "commit")
      BY DEF OpenReferences
    <2>1. CASE \/ k # on[c] \/ b # Booked(c)
               \/ "paymentRef" \notin DOMAIN changes[c]
      <3>1. "paymentRef" \in DOMAIN open[k][b] /\ open[k][b]["paymentRef"] = d
        BY <1>2, <2>1
      <3>2. pc[d] = "answered" \/ (on[d] = k /\ pc[d] = "commit")
        BY <3>1 DEF Inv, References, OpenReferences
      <3> QED
        BY <1>3, <3>2 DEF Inv, TypeOK
    <2>2. CASE k = on[c] /\ b = Booked(c) /\ "paymentRef" \in DOMAIN changes[c]
      <3>1. changes[c]["paymentRef"] = d
        BY <1>2, <2>2
      <3>2. pc[d] = "answered" \/ c = d
        BY <2>2, <3>1 DEF Inv, References, HeldReferences
      <3> QED
        BY <1>3, <2>2, <3>2 DEF Inv, TypeOK
    <2> QED
      BY <2>1, <2>2
  <1>6. HeldReferences'
    BY <1>3 DEF Inv, References, HeldReferences
  <1>7. LocksExclusive'
    <2> SUFFICES ASSUME NEW k \in Connections, NEW l \in Connections, NEW b \in Bookings,
                        Locks(k, b)', Locks(l, b)'
                 PROVE  k = l
      BY DEF LocksExclusive
    <2>1. CASE b # Booked(c)
      BY <1>2, <2>1 DEF Inv, Identity, LocksExclusive, Locks
    <2>2. CASE b = Booked(c)
      <3>1. \A m \in Connections \ {on[c]} : ~Locks(m, b)'
        BY <1>2, <2>2 DEF LockedByOther, Locks
      <3> QED
        BY <3>1
    <2> QED
      BY <2>1, <2>2
  <1>8. InsertsPending'
    <2> SUFFICES ASSUME NEW k \in Connections, NEW b \in Bookings,
                        "requestedBy" \in DOMAIN open'[k][b]
                 PROVE  /\ ~Exists(payment[b])
                        /\ \E d \in Calls : on'[d] = k /\ pc'[d] = "commit"
      BY DEF InsertsPending, Exists
    <2>1. "requestedBy" \in DOMAIN open[k][b]
      BY <1>2 DEF Inv, Identity, ObjectsIdentify
    <2>2. PICK d \in Calls : on[d] = k /\ pc[d] = "commit"
      BY <2>1 DEF Inv, Identity, InsertsPending
    <2>3. on'[d] = k /\ pc'[d] = "commit"
      BY <2>2 DEF Inv, TypeOK
    <2> QED
      BY <2>1, <2>3 DEF Inv, Identity, InsertsPending
  <1>9. ObjectsIdentify'
    BY DEF Inv, TypeOK, Identity, ObjectsIdentify, Exists, Booked
  <1> QED
    BY <1>4, <1>5, <1>6, <1>7, <1>8, <1>9 DEF References, Identity, Identified

\* Inserting a payment: the booking has none, and nobody else is inserting one.
LEMMA InsertKeepsInv ==
    ASSUME Inv, NEW c \in Calls, pc[c] = "insert", Write(c, NewPayment(c)),
           ~LockedByOther(c, Booked(c)), ~Exists(payment[Booked(c)]),
           pc' = [pc EXCEPT ![c] = "commit"],
           UNCHANGED <<payment, on, entity, changes, request>>
    PROVE  References' /\ Identity' /\ Identified
  <1> USE NoChangeDomain
  <1>1. on[c] \in Connections /\ Booked(c) \in Bookings
    BY DEF Inv, TypeOK, Booked, Connected, Working
  <1>2. /\ DOMAIN open' = Connections
        /\ \A k \in Connections, b \in Bookings :
             k # on[c] \/ b # Booked(c) => open'[k][b] = open[k][b]
        /\ open'[on[c]][Booked(c)]["paymentRef"] = c
    BY <1>1, WriteEffect DEF Inv, NewPayment
  <1>3. pc'[c] = "commit" /\ \A d \in Calls \ {c} : pc'[d] = pc[d]
    BY DEF Inv, TypeOK
  <1>4. FailedLeavesNothing'
    BY <1>3 DEF Inv, References, FailedLeavesNothing
  <1>5. OpenReferences'
    <2> SUFFICES ASSUME NEW k \in Connections, NEW b \in Bookings, NEW d \in Calls,
                        "paymentRef" \in DOMAIN open'[k][b], open'[k][b]["paymentRef"] = d
                 PROVE  pc'[d] = "answered" \/ (on'[d] = k /\ pc'[d] = "commit")
      BY DEF OpenReferences
    <2>1. CASE k = on[c] /\ b = Booked(c)
      BY <1>2, <1>3, <2>1
    <2>2. CASE k # on[c] \/ b # Booked(c)
      <3>1. pc[d] = "answered" \/ (on[d] = k /\ pc[d] = "commit")
        BY <1>2, <2>2 DEF Inv, References, OpenReferences
      <3> QED
        BY <1>3, <3>1
    <2> QED
      BY <2>1, <2>2
  <1>6. HeldReferences'
    BY <1>3 DEF Inv, References, HeldReferences
  <1>7. LocksExclusive'
    <2> SUFFICES ASSUME NEW k \in Connections, NEW l \in Connections, NEW b \in Bookings,
                        Locks(k, b)', Locks(l, b)'
                 PROVE  k = l
      BY DEF LocksExclusive
    <2>1. CASE b # Booked(c)
      BY <1>2, <2>1 DEF Inv, Identity, LocksExclusive, Locks
    <2>2. CASE b = Booked(c)
      BY <1>2, <2>2 DEF LockedByOther, Locks
    <2> QED
      BY <2>1, <2>2
  <1>8. InsertsPending'
    <2> SUFFICES ASSUME NEW k \in Connections, NEW b \in Bookings,
                        "requestedBy" \in DOMAIN open'[k][b]
                 PROVE  /\ ~Exists(payment[b])
                        /\ \E d \in Calls : on[d] = k /\ pc'[d] = "commit"
      BY DEF InsertsPending, Exists
    <2>1. CASE k = on[c] /\ b = Booked(c)
      BY <1>3, <2>1
    <2>2. CASE k # on[c] \/ b # Booked(c)
      BY <1>2, <1>3, <2>2 DEF Inv, Identity, InsertsPending
    <2> QED
      BY <2>1, <2>2
  <1>9. ObjectsIdentify'
    BY <1>3 DEF Inv, Identity, ObjectsIdentify, Exists, Booked
  <1> QED
    BY <1>4, <1>5, <1>6, <1>7, <1>8, <1>9 DEF References, Identity, Identified

\* A commit stores what is open on the connection, including what an answered request
\* has left there.
LEMMA CommitKeepsInv ==
    ASSUME Inv, NEW c \in Calls, Commit(c)
    PROVE  References' /\ Identity' /\ Identified
  <1> USE NoChangeDomain
  <1>1. on[c] \in Connections /\ pc[c] = "commit"
    BY DEF Inv, TypeOK, Connected, Working, Commit, Step
  <1>2. pc'[c] = "answered" /\ \A d \in Calls \ {c} : pc'[d] = pc[d] /\ on'[d] = on[d]
    BY DEF Inv, TypeOK, Commit, Step, Release
  <1>3. /\ \A k \in Connections \ {on[c]}, b \in Bookings : open'[k][b] = open[k][b]
        /\ \A b \in Bookings : open'[on[c]][b] = NoChange
    BY <1>1, DiscardEffect DEF Inv, Commit
  <1>4. /\ entity'[c] = NoChange /\ changes'[c] = NoChange
        /\ \A d \in Calls \ {c} : entity'[d] = entity[d] /\ changes'[d] = changes[d]
    BY DEF Inv, TypeOK, Commit, Release, Forget
  <1>5. \A b \in Bookings, col \in Columns :
            payment'[b][col] = IF col \in DOMAIN open[on[c]][b] THEN open[on[c]][b][col]
                               ELSE payment[b][col]
    BY SeenColumn DEF Inv, Commit
  <1>6. \A d \in Calls : on[d] = on[c] => c = d
    BY <1>1, PaymentsAssumption DEF Inv, TypeOK
  <1>7. FailedLeavesNothing'
    <2> SUFFICES ASSUME NEW b \in Bookings, NEW d \in Calls, payment'[b]["paymentRef"] = d
                 PROVE  pc'[d] = "answered"
      BY DEF FailedLeavesNothing
    <2>1. CASE "paymentRef" \in DOMAIN open[on[c]][b]
      <3>1. open[on[c]][b]["paymentRef"] = d
        BY <1>5, <2>1 DEF Columns
      <3>2. pc[d] = "answered" \/ on[d] = on[c]
        BY <1>1, <2>1, <3>1 DEF Inv, References, OpenReferences
      <3> QED
        BY <1>2, <1>6, <3>2
    <2>2. CASE "paymentRef" \notin DOMAIN open[on[c]][b]
      <3>1. payment[b]["paymentRef"] = d
        BY <1>5, <2>2 DEF Columns
      <3>2. pc[d] = "answered"
        BY <3>1 DEF Inv, References, FailedLeavesNothing
      <3> QED
        BY <1>2, <3>2
    <2> QED
      BY <2>1, <2>2
  <1>8. OpenReferences'
    <2> SUFFICES ASSUME NEW k \in Connections, NEW b \in Bookings, NEW d \in Calls,
                        "paymentRef" \in DOMAIN open'[k][b], open'[k][b]["paymentRef"] = d
                 PROVE  pc'[d] = "answered" \/ (on'[d] = k /\ pc'[d] = "commit")
      BY DEF OpenReferences
    <2>1. k # on[c] /\ open'[k][b] = open[k][b]
      BY <1>3
    <2>2. pc[d] = "answered" \/ (on[d] = k /\ pc[d] = "commit")
      BY <2>1 DEF Inv, References, OpenReferences
    <2> QED
      BY <1>2, <2>1, <2>2
  <1>9. HeldReferences'
    <2> SUFFICES ASSUME NEW d \in Calls, NEW e \in Calls
                 PROVE  /\ "paymentRef" \in DOMAIN entity'[e] /\ entity'[e]["paymentRef"] = d
                                => pc'[d] = "answered" \/ d = e
                        /\ "paymentRef" \in DOMAIN changes'[e] /\ changes'[e]["paymentRef"] = d
                                => pc'[d] = "answered" \/ d = e
      BY DEF HeldReferences
    <2>1. CASE e = c
      BY <1>4, <2>1
    <2>2. CASE e # c
      BY <1>2, <1>4, <2>2 DEF Inv, References, HeldReferences
    <2> QED
      BY <2>1, <2>2
  <1>10. LocksExclusive'
    BY <1>3 DEF Inv, Identity, LocksExclusive, Locks
  <1>11. ASSUME NEW b \in Bookings, "requestedBy" \notin DOMAIN open[on[c]][b]
         PROVE  payment'[b]["requestedBy"] = payment[b]["requestedBy"]
    BY <1>5, <1>11 DEF Columns
  <1>12. InsertsPending'
    <2> SUFFICES ASSUME NEW k \in Connections, NEW b \in Bookings,
                        "requestedBy" \in DOMAIN open'[k][b]
                 PROVE  /\ payment'[b]["requestedBy"] = NoCall
                        /\ \E d \in Calls : on'[d] = k /\ pc'[d] = "commit"
      BY DEF InsertsPending, Exists
    <2>1. k # on[c] /\ open'[k][b] = open[k][b]
      BY <1>3
    <2>2. PICK d \in Calls : on[d] = k /\ pc[d] = "commit"
      BY <2>1 DEF Inv, Identity, InsertsPending
    <2>3. on'[d] = k /\ pc'[d] = "commit"
      BY <1>2, <2>1, <2>2
    <2>4. open[on[c]][b] = NoChange
      BY <1>1, <2>1 DEF Inv, Identity, LocksExclusive, Locks
    <2>5. payment'[b]["requestedBy"] = payment[b]["requestedBy"]
      BY <1>11, <2>4
    <2> QED
      BY <2>1, <2>3, <2>5 DEF Inv, Identity, InsertsPending, Exists
  <1>13. Identified
    <2> SUFFICES ASSUME NEW b \in Bookings, Exists(payment[b])
                 PROVE  payment'[b]["requestedBy"] = payment[b]["requestedBy"]
      BY DEF Identified
    <2>1. "requestedBy" \notin DOMAIN open[on[c]][b]
      BY <1>1 DEF Inv, Identity, InsertsPending
    <2> QED
      BY <1>11, <2>1
  <1>14. ObjectsIdentify'
    <2> SUFFICES ASSUME NEW d \in Calls
                 PROVE  /\ pc'[d] = "reload" =>
                            /\ payment'[Booked(d)]["requestedBy"] # NoCall
                            /\ entity'[d]["requestedBy"] = payment'[Booked(d)]["requestedBy"]
                        /\ pc'[d] = "update" => "requestedBy" \notin DOMAIN changes'[d]
      BY DEF ObjectsIdentify, Exists, Booked, Commit
    <2>1. CASE d = c
      BY <1>2, <2>1
    <2>2. CASE d # c
      <3>1. Booked(d) \in Bookings
        BY DEF Inv, TypeOK, Booked
      <3> QED
        BY <1>2, <1>4, <1>13, <2>2, <3>1 DEF Inv, Identity, ObjectsIdentify, Identified, Exists
    <2> QED
      BY <2>1, <2>2
  <1> QED
    BY <1>7, <1>8, <1>9, <1>10, <1>12, <1>13, <1>14 DEF References, Identity

\* Every step keeps the invariant, and no step gives a payment another identity.
LEMMA NextInv == Inv /\ [Next]_vars => Inv' /\ Identified
  <1> SUFFICES ASSUME Inv, [Next]_vars PROVE References' /\ Identity' /\ Identified
    BY NextTyped DEF Inv
  <1> DEFINE Goal == References' /\ Identity' /\ Identified
  <1>1. ASSUME NEW c \in Calls, NEW kind \in Handlers, NEW b \in Bookings,
               NEW s \in {"Paid", "Cancelled"}, Arrive(c, kind, b, s)
        PROVE  Goal
    <2>1. \A d \in Calls \ {c} : request'[d] = request[d] /\ on'[d] = on[d]
      BY <1>1 DEF Arrive, Inv, TypeOK
    <2> QED
      BY <1>1, <2>1, MoveQuiet, QuietKeepsInv DEF Arrive, Step
  <1>2. ASSUME NEW c \in Calls, NEW k \in Connections, Connect(c, k) PROVE Goal
    <2>1. FirstStep(request[c].kind) \notin {"reload", "update"}
      BY DEF FirstStep
    <2>2. \A d \in Calls \ {c} : request'[d] = request[d] /\ on'[d] = on[d]
      BY <1>2 DEF Connect, Inv, TypeOK
    <2> QED
      BY <1>2, <2>1, <2>2, MoveQuiet, QuietKeepsInv DEF Connect
  <1>3. ASSUME NEW c \in Calls, FindBooking(c) PROVE Goal
    <2>1. CASE pc' = [pc EXCEPT ![c] = "findTrx"] /\ UNCHANGED <<database, on, entity, changes>>
      BY <1>3, <2>1, MoveQuiet, QuietKeepsInv DEF FindBooking
    <2>2. CASE Fail(c)
      BY <1>3, <2>2, FailQuiet, QuietKeepsInv DEF FindBooking, Working
    <2> QED
      BY <1>3, <2>1, <2>2 DEF FindBooking
  <1>4. ASSUME NEW c \in Calls, FindTrx(c) PROVE Goal
    <2> DEFINE row == Seen(c, Booked(c))
    <2>1. CASE pc' = [pc EXCEPT ![c] = "insert"] /\ UNCHANGED <<database, on, entity, changes>>
      BY <1>4, <2>1, MoveQuiet, QuietKeepsInv DEF FindTrx
    <2>2. CASE Fail(c)
      BY <1>4, <2>2, FailQuiet, QuietKeepsInv DEF FindTrx, Working
    <2>3. CASE /\ Exists(row)
               /\ pc' = [pc EXCEPT ![c] = "reload"]
               /\ entity' = [entity EXCEPT ![c] = WithNewRef(c, row)]
               /\ UNCHANGED <<database, on, changes>>
      <3>1. /\ DOMAIN WithNewRef(c, row) \subseteq Columns
            /\ WithNewRef(c, row)["requestedBy"] = row["requestedBy"]
            /\ WithNewRef(c, row)["paymentRef"] = c
        BY DEF WithNewRef, Columns
      <3> HIDE DEF row
      <3> QED
        BY <1>4, <2>3, <3>1, FoundKeepsInv DEF FindTrx, row
    <2> QED
      BY <1>4, <2>1, <2>2, <2>3 DEF FindTrx
  <1>5. ASSUME NEW c \in Calls, Insert(c) PROVE Goal
    <2>1. CASE Fail(c)
      BY <1>5, <2>1, FailQuiet, QuietKeepsInv DEF Insert, Working
    <2>2. CASE /\ ~Exists(payment[Booked(c)])
               /\ pc' = [pc EXCEPT ![c] = "commit"]
               /\ Write(c, NewPayment(c))
               /\ UNCHANGED <<payment, on, entity, changes>>
      BY <1>5, <2>2, InsertKeepsInv DEF Insert
    <2> QED
      BY <1>5, <2>1, <2>2 DEF Insert
  <1>6. ASSUME NEW c \in Calls, Reload(c) PROVE Goal
    BY <1>6, ReloadKeepsInv
  <1>7. ASSUME NEW c \in Calls, UpdateRef(c) PROVE Goal
    <2>1. /\ \A d \in Calls \ {c} : on'[d] = on[d]
          /\ \A d \in Calls : entity'[d] = entity[d] \/ (d = c /\ entity'[d] = NoChange)
          /\ \A d \in Calls : changes'[d] = changes[d] \/ (d = c /\ changes'[d] = NoChange)
      BY <1>7 DEF UpdateRef, Release, Forget, Inv, TypeOK
    <2> QED
      BY <1>7, <2>1, UpdateKeepsInv DEF UpdateRef, Step
  <1>8. ASSUME NEW c \in Calls, FindPayment(c) PROVE Goal
    <2> DEFINE row == Seen(c, Booked(c))
    <2>1. CASE Fail(c)
      BY <1>8, <2>1, FailQuiet, QuietKeepsInv DEF FindPayment, Working
    <2>2. CASE /\ Exists(row)
               /\ pc' = [pc EXCEPT ![c] = "reload"]
               /\ entity' = [entity EXCEPT ![c] = Settled(c, row)]
               /\ UNCHANGED <<database, on, changes>>
      <3>1. /\ DOMAIN Settled(c, row) \subseteq Columns
            /\ Settled(c, row)["requestedBy"] = row["requestedBy"]
            /\ Settled(c, row)["paymentRef"] = row["paymentRef"]
        BY DEF Settled, Columns
      <3> QED
        BY <1>8, <2>2, <3>1, FoundKeepsInv DEF FindPayment
    <2> QED
      BY <1>8, <2>1, <2>2 DEF FindPayment
  <1>9. ASSUME NEW c \in Calls, UpdatePayment(c) PROVE Goal
    BY <1>9, UpdateKeepsInv DEF UpdatePayment, Step
  <1>10. ASSUME NEW c \in Calls, QueryPool(c) PROVE Goal
    BY <1>10, MoveQuiet, QuietKeepsInv DEF QueryPool, Step
  <1>11. ASSUME NEW c \in Calls, Lookup(c) PROVE Goal
    <2>1. CASE pc' = [pc EXCEPT ![c] = "answered"] /\ UNCHANGED open
      BY <1>11, <2>1, MoveQuiet, QuietKeepsInv DEF Lookup, database
    <2>2. CASE pc' = [pc EXCEPT ![c] = "failed"] /\ Discard(on[c])
      <3>1. on[c] \in Connections
        BY <1>11 DEF Inv, TypeOK, Connected, Working, Lookup
      <3>2. \A k \in Connections, b \in Bookings :
                open'[k][b] = open[k][b] \/ open'[k][b] = NoChange
        BY <2>2, <3>1, DiscardEffect DEF Inv
      <3>3. Quiet
        BY <1>11, <2>2, <3>2 DEF Lookup, Quiet, Inv, TypeOK
      <3> QED
        BY <3>3, QuietKeepsInv
    <2> QED
      BY <1>11, <2>1, <2>2 DEF Lookup
  <1>12. ASSUME NEW c \in Calls, Commit(c) PROVE Goal
    BY <1>12, CommitKeepsInv
  <1>13. ASSUME NEW c \in Calls, DeadlockVictim(c) PROVE Goal
    <2>1. PICK d \in Calls : WaitsFor(c, d)
      BY <1>13 DEF DeadlockVictim
    <2> QED
      BY <1>13, <2>1, FailQuiet, QuietKeepsInv DEF DeadlockVictim, WaitsFor, Working
  <1>14. ASSUME NEW c \in Calls, Refuse(c) PROVE Goal
    BY <1>14, FailQuiet, QuietKeepsInv DEF Refuse, Working
  <1>15. ASSUME NEW c \in Calls, DatabaseError(c) PROVE Goal
    BY <1>15, FailQuiet, QuietKeepsInv DEF DatabaseError, Connected
  <1>16. ASSUME NEW k \in Connections, Expire(k) PROVE Goal
    <2>1. \A l \in Connections, b \in Bookings :
              open'[l][b] = open[l][b] \/ open'[l][b] = NoChange
      BY <1>16, DiscardEffect DEF Inv, Expire
    <2>2. Quiet
      BY <1>16, <2>1 DEF Expire, Quiet, memory
    <2> QED
      BY <2>2, QuietKeepsInv
  <1>17. ASSUME Crash PROVE Goal
    <2>1. \A k \in Connections, b \in Bookings : open'[k][b] = NoChange
      BY <1>17 DEF Crash, NothingOpen
    <2>2. \A c \in Calls : /\ pc[c] = "answered" => pc'[c] = "answered"
                           /\ pc'[c] \notin {"reload", "update"}
                           /\ entity'[c] = NoChange /\ changes'[c] = NoChange
      BY <1>17 DEF Crash, Inv, TypeOK, InFlight, Connected, Working
    <2>3. \A c \in Calls : pc[c] = "commit" => on[c] \in Connections
      BY DEF Inv, TypeOK, Connected, Working
    <2>4. Quiet
      BY <1>17, <2>1, <2>2, <2>3 DEF Crash, Quiet
    <2> QED
      BY <2>4, QuietKeepsInv
  <1>18. CASE UNCHANGED vars
    <2>1. Quiet
      BY <1>18 DEF vars, database, memory, Quiet
    <2> QED
      BY <2>1, QuietKeepsInv
  <1> QED
    BY <1>1, <1>2, <1>3, <1>4, <1>5, <1>6, <1>7, <1>8, <1>9, <1>10, <1>11, <1>12, <1>13,
       <1>14, <1>15, <1>16, <1>17, <1>18, PaymentsAssumption DEF Next, CallStep, Handlers, NoRequest

\* The invariant of the payment requests: references, locks and identities.
THEOREM PaymentInvariant == Spec => []Inv
  BY InitInv, NextInv, PTL DEF Spec

\* What a failed request has written is never stored, not even by a request that later
\* works inside the transaction that an answered one left open: every stored reference was
\* answered.
THEOREM FailuresLeaveNothing == Spec => []FailedLeavesNothing
  <1>1. Inv => FailedLeavesNothing
    BY DEF Inv, References
  <1> QED
    BY <1>1, PaymentInvariant, PTL

\* A booking never gets a second payment, however requests for it interleave and whoever
\* commits what they have written.
THEOREM PaymentIsOne == Spec => OnePayment
  <1>1. Inv /\ [Next]_vars =>
            [\A b \in Bookings :
                Exists(payment[b]) => payment'[b].requestedBy = payment[b].requestedBy]_vars
    BY NextInv DEF Identified
  <1> QED
    BY <1>1, PaymentInvariant, PTL DEF Spec, OnePayment

-----------------------------------------------------------------------------
(***************************************************************************)
(* Who changes the status of a payment: the strengthening for              *)
(* OnlySettlementsSettle, checked by TLC on the instance of payment_races  *)
(* before it was proved.                                                   *)
(***************************************************************************)

\* The history variable knows every booking that two requests work on at once.
SharedOverlaps ==
    \A c, d \in Calls, b \in Bookings : WorksOn(c, b) /\ WorksOn(d, b) /\ c # d => b \in overlap

\* Only a request for payment inserts one.
PaymentsInsert == \A c \in Calls : pc[c] = "insert" => request[c].kind = "pay"

\* On any other booking a status that is written but not stored was written by the request
\* that is about to commit it: a settlement, or the request that inserts the payment.
OpenStatuses ==
    \A k \in Connections, b \in Bookings \ overlap :
        "paymentStatus" \in DOMAIN open[k][b] =>
            \E c \in Calls : /\ on[c] = k /\ pc[c] = "commit" /\ Booked(c) = b
                             /\ \/ request[c].kind = "settle"
                                \/ request[c].kind = "pay" /\ ~Exists(payment[b])

\* There a request for a payment that exists saves the status it has read, so that its
\* UPDATE does not name the column.
ObjectsKeepStatus ==
    \A c \in Calls :
        request[c].kind = "pay" /\ Booked(c) \notin overlap =>
            /\ pc[c] = "reload" =>
                entity[c]["paymentStatus"] = Seen(c, Booked(c))["paymentStatus"]
            /\ pc[c] = "update" => "paymentStatus" \notin DOMAIN changes[c]

Statuses == SharedOverlaps /\ PaymentsInsert /\ OpenStatuses /\ ObjectsKeepStatus

\* One step changes the status of a payment only as a settlement that commits.
Settling ==
    \A b \in Bookings \ overlap' :
        Exists(payment[b]) /\ payment'[b].paymentStatus # payment[b].paymentStatus =>
            \E c \in Calls : /\ WorksOn(c, b) /\ request[c].kind = "settle"
                             /\ pc'[c] = "answered"

LEMMA InitStatuses == Init => Statuses
  <1> SUFFICES ASSUME Init PROVE Statuses
    OBVIOUS
  <1>1. \A c \in Calls, b \in Bookings : ~WorksOn(c, b)
    BY DEF Init, WorksOn, InFlight, Connected, Working
  <1>2. OpenStatuses /\ ObjectsKeepStatus
    BY NoChangeDomain DEF Init, OpenStatuses, ObjectsKeepStatus, NothingOpen
  <1>3. PaymentsInsert
    BY DEF Init, PaymentsInsert
  <1> QED
    BY <1>1, <1>2, <1>3 DEF Statuses, SharedOverlaps

\* A step of a request that is under way starts work on no booking.
LEMMA WorkShared ==
    ASSUME TypeOK, SharedOverlaps, NEW c \in Calls, InFlight(c), NEW to,
           pc' = [pc EXCEPT ![c] = to], UNCHANGED <<request, overlap>>
    PROVE  SharedOverlaps'
  <1>1. \A d \in Calls, b \in Bookings : WorksOn(d, b)' => WorksOn(d, b)
    BY DEF TypeOK, WorksOn, InFlight, Connected, Booked
  <1> QED
    BY <1>1 DEF SharedOverlaps

LEMMA ArriveShared ==
    ASSUME TypeOK, SharedOverlaps, NEW c \in Calls, NEW kind, NEW b \in Bookings, NEW s,
           Arrive(c, kind, b, s)
    PROVE  SharedOverlaps'
  <1>1. /\ \A d \in Calls \ {c}, e \in Bookings : WorksOn(d, e)' <=> WorksOn(d, e)
        /\ \A e \in Bookings : WorksOn(c, e)' <=> kind \in {"pay", "settle"} /\ e = b
    BY DEF TypeOK, Arrive, Step, WorksOn, InFlight, Connected, Booked
  <1>2. overlap \subseteq overlap'
    BY DEF Arrive
  <1>3. (kind \in {"pay", "settle"} /\ \E d \in Calls \ {c} : WorksOn(d, b)) => b \in overlap'
    BY DEF Arrive
  <1> SUFFICES ASSUME NEW d \in Calls, NEW e \in Calls, NEW f \in Bookings,
                      WorksOn(d, f)', WorksOn(e, f)', d # e
               PROVE  f \in overlap'
    BY DEF SharedOverlaps
  <1>4. CASE d # c /\ e # c
    BY <1>1, <1>2, <1>4 DEF SharedOverlaps
  <1>5. CASE d = c \/ e = c
    BY <1>1, <1>3, <1>5
  <1> QED
    BY <1>4, <1>5

LEMMA NextShared == TypeOK /\ SharedOverlaps /\ [Next]_vars => SharedOverlaps'
  <1> SUFFICES ASSUME TypeOK, SharedOverlaps, [Next]_vars PROVE SharedOverlaps'
    OBVIOUS
  <1>1. ASSUME NEW c \in Calls, NEW kind \in Handlers, NEW b \in Bookings,
               NEW s \in {"Paid", "Cancelled"}, Arrive(c, kind, b, s)
        PROVE  SharedOverlaps'
    BY <1>1, ArriveShared
  <1>2. ASSUME NEW c \in Calls, CallStep(c) \/ Refuse(c) \/ DatabaseError(c)
        PROVE  SharedOverlaps'
    <2>1. InFlight(c) /\ UNCHANGED <<request, overlap>>
      <3>1. CASE DeadlockVictim(c)
        <4>1. PICK d \in Calls : WaitsFor(c, d)
          BY <3>1 DEF DeadlockVictim
        <4> QED
          BY <3>1, <4>1 DEF DeadlockVictim, WaitsFor, InFlight, Connected, Working
      <3>2. CASE Refuse(c) \/ DatabaseError(c)
        BY <3>2 DEF Refuse, DatabaseError, InFlight, Connected, Working
      <3>3. CASE \E k \in Connections : Connect(c, k)
        BY <3>3 DEF Connect, InFlight
      <3>4. CASE FindBooking(c) \/ FindTrx(c) \/ Insert(c) \/ Reload(c) \/ UpdateRef(c)
        BY <3>4 DEF FindBooking, FindTrx, Insert, Reload, UpdateRef, Step, InFlight,
                    Connected, Working
      <3>5. CASE FindPayment(c) \/ UpdatePayment(c) \/ QueryPool(c) \/ Lookup(c) \/ Commit(c)
        BY <3>5 DEF FindPayment, UpdatePayment, QueryPool, Lookup, Commit, Step, InFlight,
                    Connected, Working
      <3> QED
        BY <1>2, <3>1, <3>2, <3>3, <3>4, <3>5 DEF CallStep
    <2>2. \E to : pc' = [pc EXCEPT ![c] = to]
      <3>1. CASE DeadlockVictim(c) \/ Refuse(c) \/ DatabaseError(c)
        BY <3>1 DEF DeadlockVictim, Refuse, DatabaseError, Fail
      <3>2. CASE \E k \in Connections : Connect(c, k)
        BY <3>2 DEF Connect
      <3>3. CASE FindBooking(c) \/ FindTrx(c) \/ Insert(c) \/ Reload(c) \/ UpdateRef(c)
        BY <3>3 DEF FindBooking, FindTrx, Insert, Reload, UpdateRef, Step, Fail
      <3>4. CASE FindPayment(c) \/ UpdatePayment(c) \/ QueryPool(c) \/ Lookup(c) \/ Commit(c)
        BY <3>4 DEF FindPayment, UpdatePayment, QueryPool, Lookup, Commit, Step, Fail
      <3> QED
        BY <1>2, <3>1, <3>2, <3>3, <3>4 DEF CallStep
    <2> QED
      BY <2>1, <2>2, WorkShared
  <1>3. CASE (\E k \in Connections : Expire(k)) \/ Crash \/ UNCHANGED vars
    <2>1. overlap' = overlap
      BY <1>3 DEF Expire, Crash, vars
    <2>2. \A c \in Calls, b \in Bookings : WorksOn(c, b)' => WorksOn(c, b)
      <3>1. CASE (\E k \in Connections : Expire(k)) \/ UNCHANGED vars
        BY <3>1 DEF Expire, vars, memory, WorksOn, InFlight, Connected, Booked
      <3>2. CASE Crash
        BY <3>2 DEF Crash, TypeOK, WorksOn, InFlight, Connected, Working, Booked
      <3> QED
        BY <1>3, <3>1, <3>2
    <2> QED
      BY <2>1, <2>2 DEF SharedOverlaps
  <1> QED
    BY <1>1, <1>2, <1>3, PaymentsAssumption DEF Next, Handlers, NoRequest

LEMMA NextInserts == TypeOK /\ PaymentsInsert /\ [Next]_vars => PaymentsInsert'
  <1> SUFFICES ASSUME TypeOK, PaymentsInsert, [Next]_vars,
                      NEW d \in Calls, pc'[d] = "insert"
               PROVE  request'[d].kind = "pay"
    BY DEF PaymentsInsert
  <1>1. ASSUME NEW c \in Calls, NEW kind \in Handlers, NEW b \in Bookings,
               NEW s \in {"Paid", "Cancelled"}, Arrive(c, kind, b, s)
        PROVE  request'[d].kind = "pay"
    BY <1>1 DEF Arrive, Step, TypeOK, PaymentsInsert
  <1>2. ASSUME NEW c \in Calls, CallStep(c) \/ Refuse(c) \/ DatabaseError(c)
        PROVE  request'[d].kind = "pay"
    <2>1. CASE DeadlockVictim(c) \/ Refuse(c) \/ DatabaseError(c)
      BY <2>1 DEF DeadlockVictim, Refuse, DatabaseError, Fail, TypeOK, PaymentsInsert
    <2>2. CASE \E k \in Connections : Connect(c, k)
      <3>1. FirstStep(request[c].kind) # "insert"
        BY DEF FirstStep
      <3> QED
        BY <2>2, <3>1 DEF Connect, TypeOK, PaymentsInsert
    <2>3. CASE FindBooking(c) \/ Insert(c) \/ Reload(c) \/ UpdateRef(c)
      BY <2>3 DEF FindBooking, Insert, Reload, UpdateRef, Step, Fail, TypeOK, PaymentsInsert
    <2>4. CASE FindTrx(c)
      BY <2>4 DEF FindTrx, Fail, TypeOK, PaymentsInsert
    <2>5. CASE FindPayment(c) \/ UpdatePayment(c)
      BY <2>5 DEF FindPayment, UpdatePayment, Step, Fail, TypeOK, PaymentsInsert
    <2>6. CASE QueryPool(c) \/ Lookup(c) \/ Commit(c)
      BY <2>6 DEF QueryPool, Lookup, Commit, Step, TypeOK, PaymentsInsert
    <2> QED
      BY <1>2, <2>1, <2>2, <2>3, <2>4, <2>5, <2>6 DEF CallStep
  <1>3. CASE (\E k \in Connections : Expire(k)) \/ UNCHANGED vars
    BY <1>3 DEF Expire, vars, memory, PaymentsInsert
  <1>4. CASE Crash
    BY <1>4 DEF Crash, TypeOK, InFlight, Connected, Working, PaymentsInsert
  <1> QED
    BY <1>1, <1>2, <1>3, <1>4, PaymentsAssumption DEF Next, Handlers, NoRequest

\* A calm step stores and writes nothing, and a request that is about to save, update or
\* commit either stays as it is or has its connection rolled back.
Calm ==
    /\ UNCHANGED payment
    /\ overlap \subseteq overlap'
    /\ \A k \in Connections, b \in Bookings : open'[k][b] = open[k][b] \/ open'[k][b] = NoChange
    /\ \A c \in Calls : pc[c] = "commit" =>
            \/ pc'[c] = "commit" /\ on'[c] = on[c] /\ request'[c] = request[c]
            \/ \A b \in Bookings : open'[on[c]][b] = NoChange
    /\ \A c \in Calls : pc'[c] \in {"reload", "update"} =>
            /\ pc'[c] = pc[c] /\ request'[c] = request[c] /\ on'[c] = on[c]
            /\ entity'[c] = entity[c] /\ changes'[c] = changes[c]
            /\ \A b \in Bookings : open'[on[c]][b] = open[on[c]][b]

LEMMA CalmKeeps ==
    ASSUME Inv, Statuses, Calm
    PROVE  OpenStatuses' /\ ObjectsKeepStatus' /\ Settling
  <1>1. Settling
    BY DEF Calm, Settling
  <1>2. OpenStatuses'
    <2> SUFFICES ASSUME NEW k \in Connections, NEW b \in Bookings \ overlap',
                        "paymentStatus" \in DOMAIN open'[k][b]
                 PROVE  \E c \in Calls : /\ on'[c] = k /\ pc'[c] = "commit" /\ Booked(c)' = b
                                         /\ \/ request'[c].kind = "settle"
                                            \/ request'[c].kind = "pay" /\ ~Exists(payment'[b])
      BY DEF OpenStatuses
    <2>1. open'[k][b] = open[k][b] /\ open'[k][b] # NoChange /\ b \notin overlap
      BY NoChangeDomain DEF Calm
    <2>2. PICK c \in Calls : /\ on[c] = k /\ pc[c] = "commit" /\ Booked(c) = b
                             /\ \/ request[c].kind = "settle"
                                \/ request[c].kind = "pay" /\ ~Exists(payment[b])
      BY <2>1 DEF Statuses, OpenStatuses
    <2>3. pc'[c] = "commit" /\ on'[c] = on[c] /\ request'[c] = request[c]
      BY <2>1, <2>2 DEF Calm
    <2> QED
      BY <2>2, <2>3 DEF Calm, Booked
  <1>3. ObjectsKeepStatus'
    <2> SUFFICES ASSUME NEW c \in Calls, request'[c].kind = "pay", Booked(c)' \notin overlap'
                 PROVE  /\ pc'[c] = "reload" =>
                            entity'[c]["paymentStatus"] = Seen(c, Booked(c))'["paymentStatus"]
                        /\ pc'[c] = "update" => "paymentStatus" \notin DOMAIN changes'[c]
      BY DEF ObjectsKeepStatus
    <2> SUFFICES ASSUME pc'[c] \in {"reload", "update"}
                 PROVE  /\ pc'[c] = "reload" =>
                            entity'[c]["paymentStatus"] = Seen(c, Booked(c))'["paymentStatus"]
                        /\ pc'[c] = "update" => "paymentStatus" \notin DOMAIN changes'[c]
      OBVIOUS
    <2>1. /\ pc'[c] = pc[c] /\ request'[c] = request[c] /\ on'[c] = on[c]
          /\ entity'[c] = entity[c] /\ changes'[c] = changes[c]
          /\ open'[on[c]][Booked(c)] = open[on[c]][Booked(c)]
          /\ payment' = payment /\ Booked(c)' = Booked(c)
      BY DEF Calm, Booked, Inv, TypeOK
    <2>2. Seen(c, Booked(c))' = Seen(c, Booked(c))
      BY <2>1 DEF Seen
    <2>3. Booked(c) \notin overlap
      BY <2>1 DEF Calm
    <2> QED
      BY <2>1, <2>2, <2>3 DEF Statuses, ObjectsKeepStatus
  <1> QED
    BY <1>1, <1>2, <1>3

LEMMA FailCalm ==
    ASSUME Inv, NEW c \in Calls, pc[c] \in Working, Fail(c), UNCHANGED <<request, overlap>>
    PROVE  Calm
  <1>1. on[c] \in Connections
    BY DEF Inv, TypeOK, Connected
  <1>2. /\ \A l \in Connections \ {on[c]}, b \in Bookings : open'[l][b] = open[l][b]
        /\ \A b \in Bookings : open'[on[c]][b] = NoChange
    BY <1>1, DiscardEffect DEF Fail, Inv
  <1>3. \A d \in Calls \ {c} : pc[d] \in Working => on[d] \in Connections /\ on[d] # on[c]
    BY <1>1, PaymentsAssumption DEF Inv, TypeOK, Connected
  <1>4. /\ \A d \in Calls \ {c} : /\ pc'[d] = pc[d] /\ on'[d] = on[d]
                                  /\ entity'[d] = entity[d] /\ changes'[d] = changes[d]
        /\ pc'[c] = "failed" /\ UNCHANGED payment
    BY DEF Fail, Release, Forget, Inv, TypeOK
  <1> QED
    BY <1>1, <1>2, <1>3, <1>4 DEF Calm, Working

LEMMA MoveCalm ==
    ASSUME Inv, NEW c \in Calls, pc[c] # "commit",
           NEW to, to \notin {"reload", "update"}, pc' = [pc EXCEPT ![c] = to],
           UNCHANGED <<database, entity, changes>>, overlap \subseteq overlap',
           \A d \in Calls \ {c} : request'[d] = request[d] /\ on'[d] = on[d]
    PROVE  Calm
  BY DEF Calm, Inv, TypeOK, database

\* Two requests that work on the same booking, which no two have worked on, are one.
LEMMA WorkAlone ==
    ASSUME Statuses, NEW b \in Bookings \ overlap, NEW c \in Calls, NEW d \in Calls,
           pc[c] \in Working, Booked(c) = b, request[c].kind \in {"pay", "settle"},
           pc[d] \in Working, Booked(d) = b, request[d].kind \in {"pay", "settle"}
    PROVE  c = d
  BY DEF Statuses, SharedOverlaps, WorksOn, InFlight, Connected

\* A request finds the payment: what it saves, if it is a request for payment, has the
\* status that it has read.
LEMMA FoundKeepsStatus ==
    ASSUME Inv, Statuses, NEW c \in Calls, pc[c] = "findTrx", NEW object,
           request[c].kind = "pay" =>
               object["paymentStatus"] = Seen(c, Booked(c))["paymentStatus"],
           pc' = [pc EXCEPT ![c] = "reload"], entity' = [entity EXCEPT ![c] = object],
           UNCHANGED <<database, on, changes, request, faults, overlap>>
    PROVE  OpenStatuses' /\ ObjectsKeepStatus' /\ Settling
  <1>1. /\ pc'[c] = "reload" /\ entity'[c] = object
        /\ \A d \in Calls \ {c} : pc'[d] = pc[d] /\ entity'[d] = entity[d]
    BY DEF Inv, TypeOK
  <1>2. OpenStatuses'
    <2>1. \A d \in Calls : pc[d] = "commit" => pc'[d] = "commit"
      BY <1>1
    <2> QED
      BY <2>1 DEF database, Statuses, OpenStatuses, Booked, Exists
  <1>3. ObjectsKeepStatus'
    <2>1. \A d \in Calls : Seen(d, Booked(d))' = Seen(d, Booked(d)) /\ Booked(d)' = Booked(d)
      BY DEF Seen, Booked, database
    <2> SUFFICES ASSUME NEW d \in Calls, request[d].kind = "pay", Booked(d) \notin overlap
                 PROVE  /\ pc'[d] = "reload" =>
                            entity'[d]["paymentStatus"] = Seen(d, Booked(d))["paymentStatus"]
                        /\ pc'[d] = "update" => "paymentStatus" \notin DOMAIN changes[d]
      BY <2>1 DEF ObjectsKeepStatus
    <2> QED
      BY <1>1 DEF Statuses, ObjectsKeepStatus
  <1> QED
    BY <1>2, <1>3 DEF Settling, database

\* A request for payment compares what it saves with a row of the same status: its SET
\* clause has no status.
LEMMA ReloadKeepsStatus ==
    ASSUME Inv, Statuses, NEW c \in Calls, Reload(c)
    PROVE  OpenStatuses' /\ ObjectsKeepStatus' /\ Settling
  <1> DEFINE set == Changed(entity[c], Seen(c, Booked(c)))
  <1>1. /\ pc[c] = "reload" /\ pc'[c] = "update" /\ changes'[c] = set
        /\ \A d \in Calls \ {c} : pc'[d] = pc[d] /\ changes'[d] = changes[d]
        /\ UNCHANGED <<database, on, request, entity, overlap>>
    BY DEF Reload, Step, Inv, TypeOK
  <1>2. OpenStatuses'
    <2>1. \A d \in Calls : pc[d] = "commit" => pc'[d] = "commit"
      BY <1>1
    <2> QED
      BY <1>1, <2>1 DEF database, Statuses, OpenStatuses, Booked, Exists
  <1>3. ObjectsKeepStatus'
    <2>1. \A d \in Calls : Seen(d, Booked(d))' = Seen(d, Booked(d)) /\ Booked(d)' = Booked(d)
      BY <1>1 DEF Seen, Booked, database
    <2>2. "paymentStatus" \in DOMAIN set =>
            entity[c]["paymentStatus"] # Seen(c, Booked(c))["paymentStatus"]
      BY ChangedDomain
    <2> HIDE DEF set
    <2> SUFFICES ASSUME NEW d \in Calls, request[d].kind = "pay", Booked(d) \notin overlap
                 PROVE  /\ pc'[d] = "reload" =>
                            entity[d]["paymentStatus"] = Seen(d, Booked(d))["paymentStatus"]
                        /\ pc'[d] = "update" => "paymentStatus" \notin DOMAIN changes'[d]
      BY <1>1, <2>1 DEF ObjectsKeepStatus
    <2> QED
      BY <1>1, <2>2 DEF Statuses, ObjectsKeepStatus
  <1> QED
    BY <1>1, <1>2, <1>3 DEF Settling, database

\* A write adds a status to what is open only as a settlement or an insert that goes on to
\* commit.
LEMMA WriteKeepsStatus ==
    ASSUME Inv, Statuses, NEW c \in Calls, pc[c] \in Working, pc[c] # "commit",
           request[c].kind \in {"pay", "settle"},
           NEW set, Write(c, set),
           NEW to, to \in {"commit", "answered"}, pc' = [pc EXCEPT ![c] = to],
           "paymentStatus" \in DOMAIN set /\ Booked(c) \notin overlap =>
               /\ to = "commit"
               /\ \/ request[c].kind = "settle"
                  \/ request[c].kind = "pay" /\ ~Exists(payment[Booked(c)]),
           to = "commit" => on' = on,
           UNCHANGED <<payment, request, overlap>>,
           \A d \in Calls \ {c} : /\ on'[d] = on[d] /\ entity'[d] = entity[d]
                                  /\ changes'[d] = changes[d]
    PROVE  OpenStatuses' /\ ObjectsKeepStatus' /\ Settling
  <1>1. on[c] \in Connections /\ Booked(c) \in Bookings
    BY DEF Inv, TypeOK, Connected, Booked
  <1>2. /\ \A k \in Connections, b \in Bookings :
                k # on[c] \/ b # Booked(c) => open'[k][b] = open[k][b]
        /\ DOMAIN open'[on[c]][Booked(c)] = DOMAIN open[on[c]][Booked(c)] \cup DOMAIN set
    BY <1>1, WriteEffect DEF Inv
  <1>3. pc'[c] = to /\ \A d \in Calls \ {c} : pc'[d] = pc[d]
    BY DEF Inv, TypeOK
  <1>4. \A d \in Calls : on[d] = on[c] => d = c
    BY <1>1, PaymentsAssumption DEF Inv, TypeOK
  <1>5. OpenStatuses'
    <2> SUFFICES ASSUME NEW k \in Connections, NEW b \in Bookings \ overlap,
                        "paymentStatus" \in DOMAIN open'[k][b]
                 PROVE  \E d \in Calls : /\ on'[d] = k /\ pc'[d] = "commit" /\ Booked(d) = b
                                         /\ \/ request[d].kind = "settle"
                                            \/ request[d].kind = "pay" /\ ~Exists(payment[b])
      BY DEF OpenStatuses, Booked, Exists
    <2>1. CASE "paymentStatus" \in DOMAIN open[k][b]
      <3>1. PICK d \in Calls : /\ on[d] = k /\ pc[d] = "commit" /\ Booked(d) = b
                               /\ \/ request[d].kind = "settle"
                                  \/ request[d].kind = "pay" /\ ~Exists(payment[b])
        BY <2>1 DEF Statuses, OpenStatuses
      <3>2. d # c
        BY <3>1
      <3> QED
        BY <1>3, <3>1, <3>2
    <2>2. CASE "paymentStatus" \notin DOMAIN open[k][b]
      <3>1. k = on[c] /\ b = Booked(c) /\ "paymentStatus" \in DOMAIN set
        BY <1>2, <2>2
      <3> QED
        BY <1>3, <3>1
    <2> QED
      BY <2>1, <2>2
  <1>6. ObjectsKeepStatus'
    <2> SUFFICES ASSUME NEW d \in Calls, request[d].kind = "pay", Booked(d) \notin overlap,
                        pc'[d] \in {"reload", "update"}
                 PROVE  /\ pc'[d] = "reload" =>
                            entity'[d]["paymentStatus"] = Seen(d, Booked(d))'["paymentStatus"]
                        /\ pc'[d] = "update" => "paymentStatus" \notin DOMAIN changes'[d]
      BY DEF ObjectsKeepStatus, Booked
    <2>1. d # c /\ pc[d] = pc'[d] /\ on'[d] = on[d]
      BY <1>3
    <2>2. on[d] \in Connections /\ on[d] # on[c] /\ Booked(d) \in Bookings
      BY <1>4, <2>1 DEF Inv, TypeOK, Connected, Working, Booked
    <2>3. open'[on'[d]][Booked(d)] = open[on[d]][Booked(d)] /\ Booked(d)' = Booked(d)
      BY <1>2, <2>1, <2>2 DEF Booked
    <2>4. Seen(d, Booked(d))' = Seen(d, Booked(d))
      BY <2>3 DEF Seen
    <2> QED
      BY <2>1, <2>4 DEF Statuses, ObjectsKeepStatus
  <1> QED
    BY <1>5, <1>6 DEF Settling

\* A commit that stores another status is a settlement's, or stores a new payment; nobody
\* else that works on the booking sees its status change.
LEMMA CommitKeepsStatus ==
    ASSUME Inv, Statuses, NEW c \in Calls, Commit(c)
    PROVE  OpenStatuses' /\ ObjectsKeepStatus' /\ Settling
  <1> USE NoChangeDomain
  <1>1. on[c] \in Connections /\ pc[c] = "commit" /\ UNCHANGED <<request, overlap>>
    BY DEF Inv, TypeOK, Connected, Working, Commit, Step
  <1>2. /\ pc'[c] = "answered"
        /\ \A d \in Calls \ {c} : /\ pc'[d] = pc[d] /\ on'[d] = on[d]
                                  /\ entity'[d] = entity[d] /\ changes'[d] = changes[d]
    BY DEF Inv, TypeOK, Commit, Step, Release, Forget
  <1>3. /\ \A k \in Connections \ {on[c]}, b \in Bookings : open'[k][b] = open[k][b]
        /\ \A b \in Bookings : open'[on[c]][b] = NoChange
    BY <1>1, DiscardEffect DEF Inv, Commit
  <1>4. \A b \in Bookings, col \in Columns :
            payment'[b][col] = IF col \in DOMAIN open[on[c]][b] THEN open[on[c]][b][col]
                               ELSE payment[b][col]
    BY SeenColumn DEF Inv, Commit
  <1>5. \A d \in Calls : on[d] = on[c] => d = c
    BY <1>1, PaymentsAssumption DEF Inv, TypeOK
  <1>6. ASSUME NEW b \in Bookings \ overlap, "paymentStatus" \in DOMAIN open[on[c]][b]
        PROVE  /\ Booked(c) = b
               /\ \/ request[c].kind = "settle"
                  \/ request[c].kind = "pay" /\ ~Exists(payment[b])
    <2>1. PICK d \in Calls : /\ on[d] = on[c] /\ pc[d] = "commit" /\ Booked(d) = b
                             /\ \/ request[d].kind = "settle"
                                \/ request[d].kind = "pay" /\ ~Exists(payment[b])
      BY <1>1, <1>6 DEF Statuses, OpenStatuses
    <2> QED
      BY <1>5, <2>1
  <1>7. OpenStatuses'
    <2> SUFFICES ASSUME NEW k \in Connections, NEW b \in Bookings \ overlap,
                        "paymentStatus" \in DOMAIN open'[k][b]
                 PROVE  \E d \in Calls : /\ on'[d] = k /\ pc'[d] = "commit" /\ Booked(d) = b
                                         /\ \/ request[d].kind = "settle"
                                            \/ /\ request[d].kind = "pay"
                                               /\ payment'[b]["requestedBy"] = NoCall
      BY <1>1 DEF OpenStatuses, Booked, Exists
    <2>1. k # on[c] /\ open'[k][b] = open[k][b]
      BY <1>3
    <2>2. PICK d \in Calls : /\ on[d] = k /\ pc[d] = "commit" /\ Booked(d) = b
                             /\ \/ request[d].kind = "settle"
                                \/ request[d].kind = "pay" /\ ~Exists(payment[b])
      BY <2>1 DEF Statuses, OpenStatuses
    <2>3. d # c /\ on'[d] = k /\ pc'[d] = "commit"
      BY <1>2, <2>1, <2>2
    <2>4. open[on[c]][b] = NoChange
      BY <1>1, <2>1 DEF Inv, Identity, LocksExclusive, Locks
    <2>5. payment'[b]["requestedBy"] = payment[b]["requestedBy"]
      BY <1>4, <2>4 DEF Columns
    <2> QED
      BY <2>2, <2>3, <2>5 DEF Exists
  <1>8. ObjectsKeepStatus'
    <2> SUFFICES ASSUME NEW d \in Calls, request[d].kind = "pay", Booked(d) \notin overlap,
                        pc'[d] \in {"reload", "update"}
                 PROVE  /\ pc'[d] = "reload" =>
                            entity'[d]["paymentStatus"] = Seen(d, Booked(d))'["paymentStatus"]
                        /\ pc'[d] = "update" => "paymentStatus" \notin DOMAIN changes'[d]
      BY <1>1 DEF ObjectsKeepStatus, Booked
    <2>1. d # c /\ pc[d] = pc'[d] /\ on'[d] = on[d]
      BY <1>2
    <2>2. on[d] \in Connections /\ on[d] # on[c] /\ Booked(d) \in Bookings
      BY <1>5, <2>1 DEF Inv, TypeOK, Connected, Working, Booked
    <2>3. open'[on[d]][Booked(d)] = open[on[d]][Booked(d)] /\ Booked(d)' = Booked(d)
      BY <1>1, <1>3, <2>2 DEF Booked
    <2>4. "paymentStatus" \notin DOMAIN open[on[c]][Booked(d)]
      <3> SUFFICES ASSUME "paymentStatus" \in DOMAIN open[on[c]][Booked(d)] PROVE FALSE
        OBVIOUS
      <3>1. Booked(c) = Booked(d) /\ request[c].kind \in {"pay", "settle"}
        BY <1>6, <2>2
      <3> QED
        BY <1>1, <2>1, <2>2, <3>1, WorkAlone DEF Working
    <2>5. payment'[Booked(d)]["paymentStatus"] = payment[Booked(d)]["paymentStatus"]
      BY <1>4, <2>2, <2>4 DEF Columns
    <2>6. TypeOK'
      BY NextTyped, <1>1 DEF Inv, Next, CallStep
    <2>7. Seen(d, Booked(d))["paymentStatus"]
            = IF "paymentStatus" \in DOMAIN open[on[d]][Booked(d)]
              THEN open[on[d]][Booked(d)]["paymentStatus"]
              ELSE payment[Booked(d)]["paymentStatus"]
      BY <2>2, SeenColumn DEF Inv, Columns
    <2>8. Seen(d, Booked(d))'["paymentStatus"]
            = IF "paymentStatus" \in DOMAIN open'[on'[d]][Booked(d)]
              THEN open'[on'[d]][Booked(d)]["paymentStatus"]
              ELSE payment'[Booked(d)]["paymentStatus"]
      BY <2>2, <2>3, <2>6 DEF TypeOK, Seen, Overlay, Columns
    <2>9. Seen(d, Booked(d))'["paymentStatus"] = Seen(d, Booked(d))["paymentStatus"]
      BY <2>1, <2>3, <2>5, <2>7, <2>8
    <2> QED
      BY <1>2, <2>1, <2>9 DEF Statuses, ObjectsKeepStatus
  <1>9. Settling
    <2> SUFFICES ASSUME NEW b \in Bookings \ overlap, Exists(payment[b]),
                        payment'[b]["paymentStatus"] # payment[b]["paymentStatus"]
                 PROVE  /\ WorksOn(c, b) /\ request[c].kind = "settle"
                        /\ pc'[c] = "answered"
      BY <1>1 DEF Settling
    <2>1. "paymentStatus" \in DOMAIN open[on[c]][b]
      BY <1>4 DEF Columns
    <2>2. Booked(c) = b /\ request[c].kind = "settle"
      BY <1>6, <2>1
    <2> QED
      BY <1>1, <1>2, <2>2 DEF WorksOn, InFlight, Connected, Working
  <1> QED
    BY <1>7, <1>8, <1>9

\* Every step keeps the statuses, and only a settlement that commits changes one.
LEMMA NextStatuses == Inv /\ Statuses /\ [Next]_vars => Statuses' /\ Settling
  <1> SUFFICES ASSUME Inv, Statuses, [Next]_vars
               PROVE  OpenStatuses' /\ ObjectsKeepStatus' /\ Settling
    BY NextShared, NextInserts DEF Inv, Statuses
  <1> DEFINE Goal == OpenStatuses' /\ ObjectsKeepStatus' /\ Settling
  <1>0. ASSUME NEW c \in Calls, pc[c] \in Working, Fail(c), UNCHANGED <<request, overlap>>
        PROVE  Goal
    BY <1>0, FailCalm, CalmKeeps
  <1>1. ASSUME NEW c \in Calls, NEW kind \in Handlers, NEW b \in Bookings,
               NEW s \in {"Paid", "Cancelled"}, Arrive(c, kind, b, s)
        PROVE  Goal
    <2>1. \A d \in Calls \ {c} : request'[d] = request[d] /\ on'[d] = on[d]
      BY <1>1 DEF Arrive, Inv, TypeOK
    <2>2. overlap \subseteq overlap'
      BY <1>1 DEF Arrive
    <2> QED
      BY <1>1, <2>1, <2>2, MoveCalm, CalmKeeps DEF Arrive, Step
  <1>2. ASSUME NEW c \in Calls, NEW k \in Connections, Connect(c, k) PROVE Goal
    <2>1. FirstStep(request[c].kind) \notin {"reload", "update"}
      BY DEF FirstStep
    <2>2. \A d \in Calls \ {c} : request'[d] = request[d] /\ on'[d] = on[d]
      BY <1>2 DEF Connect, Inv, TypeOK
    <2> QED
      BY <1>2, <2>1, <2>2, MoveCalm, CalmKeeps DEF Connect
  <1>3. ASSUME NEW c \in Calls, FindBooking(c) PROVE Goal
    <2>1. CASE pc' = [pc EXCEPT ![c] = "findTrx"] /\ UNCHANGED <<database, on, entity, changes>>
      BY <1>3, <2>1, MoveCalm, CalmKeeps DEF FindBooking
    <2>2. CASE Fail(c)
      BY <1>0, <1>3, <2>2 DEF FindBooking, Working
    <2> QED
      BY <1>3, <2>1, <2>2 DEF FindBooking
  <1>4. ASSUME NEW c \in Calls, FindTrx(c) PROVE Goal
    <2> DEFINE row == Seen(c, Booked(c))
    <2>1. CASE pc' = [pc EXCEPT ![c] = "insert"] /\ UNCHANGED <<database, on, entity, changes>>
      BY <1>4, <2>1, MoveCalm, CalmKeeps DEF FindTrx
    <2>2. CASE Fail(c)
      BY <1>0, <1>4, <2>2 DEF FindTrx, Working
    <2>3. CASE /\ pc' = [pc EXCEPT ![c] = "reload"]
               /\ entity' = [entity EXCEPT ![c] = WithNewRef(c, row)]
               /\ UNCHANGED <<database, on, changes>>
      <3>1. WithNewRef(c, row)["paymentStatus"] = row["paymentStatus"]
        BY DEF WithNewRef
      <3> QED
        BY <1>4, <2>3, <3>1, FoundKeepsStatus DEF FindTrx
    <2> QED
      BY <1>4, <2>1, <2>2, <2>3 DEF FindTrx
  <1>5. ASSUME NEW c \in Calls, Insert(c) PROVE Goal
    <2>1. CASE Fail(c)
      BY <1>0, <1>5, <2>1 DEF Insert, Working
    <2>2. CASE /\ ~Exists(payment[Booked(c)])
               /\ pc' = [pc EXCEPT ![c] = "commit"]
               /\ Write(c, NewPayment(c))
               /\ UNCHANGED <<payment, on, entity, changes>>
      <3>1. request[c].kind = "pay"
        BY <1>5 DEF Insert, Statuses, PaymentsInsert
      <3> QED
        BY <1>5, <2>2, <3>1, WriteKeepsStatus DEF Insert, Working
    <2> QED
      BY <1>5, <2>1, <2>2 DEF Insert
  <1>6. ASSUME NEW c \in Calls, Reload(c) PROVE Goal
    BY <1>6, ReloadKeepsStatus
  <1>7. ASSUME NEW c \in Calls, UpdateRef(c) PROVE Goal
    <2>1. \A d \in Calls \ {c} : /\ on'[d] = on[d] /\ entity'[d] = entity[d]
                                 /\ changes'[d] = changes[d]
      BY <1>7 DEF UpdateRef, Release, Forget, Inv, TypeOK
    <2>2. Booked(c) \notin overlap => "paymentStatus" \notin DOMAIN changes[c]
      BY <1>7 DEF UpdateRef, Step, Statuses, ObjectsKeepStatus
    <2> QED
      BY <1>7, <2>1, <2>2, WriteKeepsStatus DEF UpdateRef, Step, Working
  <1>8. ASSUME NEW c \in Calls, FindPayment(c) PROVE Goal
    <2> DEFINE row == Seen(c, Booked(c))
    <2>1. CASE Fail(c)
      BY <1>0, <1>8, <2>1 DEF FindPayment, Working
    <2>2. CASE /\ pc' = [pc EXCEPT ![c] = "reload"]
               /\ entity' = [entity EXCEPT ![c] = Settled(c, row)]
               /\ UNCHANGED <<database, on, changes>>
      <3>1. request[c].kind # "pay"
        BY <1>8 DEF FindPayment
      <3> QED
        BY <1>8, <2>2, <3>1, FoundKeepsStatus DEF FindPayment
    <2> QED
      BY <1>8, <2>1, <2>2 DEF FindPayment
  <1>9. ASSUME NEW c \in Calls, UpdatePayment(c) PROVE Goal
    BY <1>9, WriteKeepsStatus DEF UpdatePayment, Step, Working
  <1>10. ASSUME NEW c \in Calls, QueryPool(c) PROVE Goal
    BY <1>10, MoveCalm, CalmKeeps DEF QueryPool, Step
  <1>11. ASSUME NEW c \in Calls, Lookup(c) PROVE Goal
    <2>1. CASE pc' = [pc EXCEPT ![c] = "answered"] /\ UNCHANGED open
      BY <1>11, <2>1, MoveCalm, CalmKeeps DEF Lookup, database
    <2>2. CASE pc' = [pc EXCEPT ![c] = "failed"] /\ Discard(on[c])
      <3>1. on[c] \in Connections
        BY <1>11 DEF Inv, TypeOK, Connected, Working, Lookup
      <3>2. /\ \A l \in Connections \ {on[c]}, b \in Bookings : open'[l][b] = open[l][b]
            /\ \A b \in Bookings : open'[on[c]][b] = NoChange
        BY <2>2, <3>1, DiscardEffect DEF Inv
      <3>3. \A d \in Calls \ {c} : pc[d] \in Working => on[d] \in Connections /\ on[d] # on[c]
        BY <3>1, PaymentsAssumption DEF Inv, TypeOK, Connected
      <3>4. Calm
        BY <1>11, <2>2, <3>1, <3>2, <3>3 DEF Lookup, Calm, Inv, TypeOK, Working
      <3> QED
        BY <3>4, CalmKeeps
    <2> QED
      BY <1>11, <2>1, <2>2 DEF Lookup
  <1>12. ASSUME NEW c \in Calls, Commit(c) PROVE Goal
    BY <1>12, CommitKeepsStatus
  <1>13. ASSUME NEW c \in Calls, DeadlockVictim(c) PROVE Goal
    <2>1. PICK d \in Calls : WaitsFor(c, d)
      BY <1>13 DEF DeadlockVictim
    <2> QED
      BY <1>0, <1>13, <2>1 DEF DeadlockVictim, WaitsFor, Working
  <1>14. ASSUME NEW c \in Calls, Refuse(c) PROVE Goal
    BY <1>0, <1>14 DEF Refuse, Working
  <1>15. ASSUME NEW c \in Calls, DatabaseError(c) PROVE Goal
    BY <1>0, <1>15 DEF DatabaseError, Connected
  <1>16. ASSUME NEW k \in Connections, Expire(k) PROVE Goal
    <2>1. /\ \A l \in Connections \ {k}, b \in Bookings : open'[l][b] = open[l][b]
          /\ \A b \in Bookings : open'[k][b] = NoChange
      BY <1>16, DiscardEffect DEF Inv, Expire
    <2>2. \A c \in Calls : pc[c] \in Working => on[c] \in Connections /\ on[c] # k
      BY <1>16 DEF Expire, Idle, Inv, TypeOK, Connected
    <2>3. Calm
      BY <1>16, <2>1, <2>2 DEF Expire, Calm, memory, Working
    <2> QED
      BY <2>3, CalmKeeps
  <1>17. ASSUME Crash PROVE Goal
    <2>1. \A k \in Connections, b \in Bookings : open'[k][b] = NoChange
      BY <1>17 DEF Crash, NothingOpen
    <2>2. \A c \in Calls : pc'[c] \notin {"reload", "update"}
      BY <1>17 DEF Crash, Inv, TypeOK, InFlight, Connected, Working
    <2>3. \A c \in Calls : pc[c] = "commit" => on[c] \in Connections
      BY DEF Inv, TypeOK, Connected, Working
    <2>4. Calm
      BY <1>17, <2>1, <2>2, <2>3 DEF Crash, Calm
    <2> QED
      BY <2>4, CalmKeeps
  <1>18. CASE UNCHANGED vars
    <2>1. Calm
      BY <1>18 DEF vars, database, memory, Calm
    <2> QED
      BY <2>1, CalmKeeps
  <1> QED
    BY <1>1, <1>2, <1>3, <1>4, <1>5, <1>6, <1>7, <1>8, <1>9, <1>10, <1>11, <1>12, <1>13,
       <1>14, <1>15, <1>16, <1>17, <1>18, PaymentsAssumption DEF Next, CallStep, Handlers, NoRequest

\* On a booking that no two requests have worked on at once, only a settlement changes the
\* status of a payment that was requested, whatever a retry has left open on a connection
\* and whoever commits it.
THEOREM SettlementsSettle == Spec => OnlySettlementsSettle
  <1>1. Init => Inv /\ Statuses
    BY InitInv, InitStatuses
  <1>2. (Inv /\ Statuses) /\ [Next]_vars => (Inv /\ Statuses)'
    BY NextInv, NextStatuses
  <1>3. Inv /\ Statuses /\ [Next]_vars =>
            [\A b \in Bookings \ overlap' :
                Exists(payment[b]) /\ payment'[b].paymentStatus # payment[b].paymentStatus =>
                    \E c \in Calls : /\ WorksOn(c, b) /\ request[c].kind = "settle"
                                     /\ pc'[c] = "answered"]_vars
    BY NextStatuses DEF Settling
  <1> QED
    BY <1>1, <1>2, <1>3, PTL DEF Spec, OnlySettlementsSettle
=============================================================================
