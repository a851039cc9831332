--------------------------- MODULE MatchingProofs ---------------------------
(***************************************************************************)
(* Theorems about Matching: for all sets of bookings, providers and        *)
(* matches, however addresses match, no free provider is passed over, and  *)
(* a provider is booked twice only for the reasons DoubleBooked lists.     *)
(***************************************************************************)
EXTENDS Matching, TLAPS

MatchColumns == {"isMatched", "aidServiceProfile"}
BookingColumns == {"startDate", "endDate"} \cup MatchColumns
RowTyped(r) == DOMAIN r = BookingColumns /\ r.startDate \in Int /\ r.endDate \in Int

Typed ==
    /\ DOMAIN booking = Bookings
    /\ \A b \in Created : RowTyped(booking[b])
    /\ pc \in [Matches -> {"idle", "query", "reload", "commit", "done", "failed"}]
    /\ about \in [Matches -> Bookings]
    /\ DOMAIN pick = Matches
    /\ DOMAIN changes = Matches
    /\ DOMAIN free = Matches
    /\ DOMAIN apart = Matches
    /\ DOMAIN setBy = Bookings
    /\ \A c \in Matches : Running(c) => about[c] \in Created

\* The SET clause of a match names the provider it has chosen, or no provider.
Clauses ==
    \A c \in Matches :
        /\ DOMAIN changes[c] \subseteq MatchColumns
        /\ "aidServiceProfile" \in DOMAIN changes[c] => changes[c].aidServiceProfile = pick[c]
        /\ pc[c] = "query" => DOMAIN changes[c] = {}
        /\ pc[c] = "idle" => DOMAIN changes[c] = {}

\* setBy[b] are matches of booking b that are done and chose the provider it has.
Chosen ==
    \A b \in Bookings :
        /\ \A d \in setBy[b] : /\ d \in Matches /\ pc[d] = "done" /\ about[d] = b
                               /\ b \in Created /\ pick[d] = booking[b].aidServiceProfile
        /\ b \in Created /\ booking[b].aidServiceProfile # NoProvider => setBy[b] # {}

Crowds == \A c, d \in Matches : c # d /\ Running(c) /\ Running(d) => {c, d} \in crowd

\* What DoubleBooked is going to say of a match that has asked and not committed.
Foreseen ==
    \A c \in Matches : pc[c] \in {"reload", "commit"} =>
        \A y \in Created :
            /\ y # about[c]
            /\ booking[y].aidServiceProfile = pick[c]
            /\ pick[c] # NoProvider
            /\ TooClose(y, about[c])
            => Excused(c) \/ \E d \in setBy[y] : {c, d} \in crowd

Inv == Typed /\ Clauses /\ Chosen /\ Crowds /\ Foreseen /\ FreeFirst /\ DoubleBooked

-----------------------------------------------------------------------------
(* Rows and the query.                                                     *)

\* A new booking has the columns of a row.
LEMMA NewRow ==
    ASSUME NEW hour \in Int
    PROVE  /\ RowTyped(NewBooking(hour))
           /\ NewBooking(hour) # Absent
           /\ NewBooking(hour).aidServiceProfile = NoProvider
<1>1. DOMAIN NewBooking(hour) = BookingColumns
  BY DEF NewBooking, BookingColumns, MatchColumns
<1>2. NewBooking(hour) # Absent
  <2>1. "startDate" \in DOMAIN NewBooking(hour)
    BY <1>1 DEF BookingColumns
  <2>2. "startDate" \notin DOMAIN Absent
    BY DEF Absent
  <2>. QED
    BY <2>1, <2>2
<1>. QED
  BY <1>1, <1>2 DEF NewBooking, RowTyped

\* The commit of a match keeps the times of its booking and sets its provider or leaves it.
LEMMA MatchedRow ==
    ASSUME NEW r, RowTyped(r), NEW set, DOMAIN set \subseteq MatchColumns
    PROVE  /\ RowTyped(Overlay(r, set))
           /\ Overlay(r, set) # Absent
           /\ Overlay(r, set).startDate = r.startDate
           /\ Overlay(r, set).endDate = r.endDate
           /\ Overlay(r, set).aidServiceProfile =
                IF "aidServiceProfile" \in DOMAIN set THEN set.aidServiceProfile
                ELSE r.aidServiceProfile
<1>1. DOMAIN Overlay(r, set) = BookingColumns
  BY DEF Overlay, RowTyped
<1>2. Overlay(r, set).startDate = r.startDate /\ Overlay(r, set).endDate = r.endDate
  BY DEF Overlay, RowTyped, BookingColumns, MatchColumns
<1>3. Overlay(r, set) # Absent
  <2>1. "startDate" \in DOMAIN Overlay(r, set)
    BY <1>1 DEF BookingColumns
  <2>2. "startDate" \notin DOMAIN Absent
    BY DEF Absent
  <2>. QED
    BY <2>1, <2>2
<1>4. Overlay(r, set).aidServiceProfile =
        IF "aidServiceProfile" \in DOMAIN set THEN set.aidServiceProfile ELSE r.aidServiceProfile
  BY DEF Overlay, RowTyped, BookingColumns, MatchColumns
<1>. QED
  BY <1>1, <1>2, <1>3, <1>4 DEF RowTyped

\* Far enough, for the query, is what TooClose denies.
LEMMA FarEnough ==
    ASSUME Typed, NEW x \in Created, NEW b \in Created
    PROVE  (Before(x, b) \/ After(x, b)) <=> ~TooClose(x, b)
BY DEF Typed, RowTyped, Before, After, TooClose

\* A provider without a booking too close is eligible.
LEMMA FreeIsEligible ==
    ASSUME Typed, NEW b \in Created, NEW p \in Providers,
           \A x \in BookingsOf(p) : ~TooClose(x, b)
    PROVE  p \in Eligible(b)
BY FarEnough DEF Eligible, BookingsOf

\* One who is chosen and has a booking too close has another one far enough, or stands in.
LEMMA PickExcused ==
    ASSUME Typed, NEW b \in Created, NEW p \in Picks(b), NEW y \in BookingsOf(p)
    PROVE  \/ {x \in BookingsOf(p) : ~TooClose(x, b)} # {}
           \/ /\ p = Official
              /\ {q \in Providers : \A x \in BookingsOf(q) : ~TooClose(x, b)} = {}
<1>1. CASE Eligible(b) = {}
  BY <1>1, FreeIsEligible DEF Picks
<1>2. CASE Eligible(b) # {}
  <2>1. p \in Eligible(b)
    BY <1>2 DEF Picks
  <2>2. PICK x \in BookingsOf(p) : Before(x, b) \/ After(x, b)
    BY <2>1 DEF Eligible
  <2>. QED
    BY <2>2, FarEnough DEF BookingsOf
<1>. QED
  BY <1>1, <1>2

-----------------------------------------------------------------------------
(* The inductive invariant.                                                *)

LEMMA InitInv == Init => Inv
<1>. SUFFICES ASSUME Init PROVE Inv
  OBVIOUS
<1>1. Created = {}
  BY DEF Init, Created
<1>2. \A c \in Matches : pc[c] = "idle"
  BY DEF Init
<1>3. Typed
  BY <1>1 DEF Init, Typed, Running
<1>4. Clauses
  BY DEF Init, Clauses, NoChange
<1>5. Chosen
  BY <1>1 DEF Init, Chosen
<1>6. Crowds /\ Foreseen
  BY <1>1, <1>2 DEF Crowds, Foreseen, Running
<1>7. FreeFirst /\ DoubleBooked
  BY <1>1 DEF Init, FreeFirst, DoubleBooked
<1>. QED
  BY <1>3, <1>4, <1>5, <1>6, <1>7 DEF Inv

\* A booking that is new has no provider and concerns nobody.
LEMMA CreateKeepsInv ==
    ASSUME Inv, Hours \subseteq Nat, NEW b \in Bookings, NEW hour \in Hours, CreateBooking(b, hour)
    PROVE  Inv'
<1>. USE DEF Inv
<1>1. RowTyped(NewBooking(hour)) /\ NewBooking(hour) # Absent
      /\ NewBooking(hour).aidServiceProfile = NoProvider
  BY NewRow
<1>2. booking'[b] = NewBooking(hour) /\ \A x \in Bookings \ {b} : booking'[x] = booking[x]
  BY DEF CreateBooking, Typed
<1>3. Created' = Created \cup {b} /\ b \notin Created
  BY <1>1, <1>2 DEF CreateBooking, Created
<1>4. UNCHANGED <<pc, about, pick, changes, free, apart, setBy, crowd>>
  BY DEF CreateBooking, history
<1>5. \A x \in Created : booking'[x] = booking[x] /\ x \in Bookings
  BY <1>2, <1>3 DEF Created
<1>6. Typed'
  <2>1. DOMAIN booking' = Bookings
    BY DEF CreateBooking, Typed
  <2>2. \A x \in Created' : RowTyped(booking'[x])
    BY <1>1, <1>2, <1>3, <1>5 DEF Typed
  <2>. QED
    BY <1>3, <1>4, <2>1, <2>2 DEF Typed, Running
<1>7. Clauses' /\ Crowds'
  BY <1>4 DEF Clauses, Crowds, Running
<1>8. Chosen'
  BY <1>1, <1>2, <1>3, <1>4, <1>5 DEF Chosen
<1>9. Foreseen'
  <2>. SUFFICES ASSUME NEW c \in Matches, pc[c] \in {"reload", "commit"}, NEW y \in Created',
                       y # about[c], booking'[y].aidServiceProfile = pick[c],
                       pick[c] # NoProvider, TooClose(y, about[c])'
                PROVE  Excused(c) \/ \E d \in setBy[y] : {c, d} \in crowd
    BY <1>4 DEF Foreseen, Excused
  <2>1. y \in Created /\ about[c] \in Created
    BY <1>1, <1>2, <1>3 DEF Typed, Running
  <2>2. TooClose(y, about[c])
    BY <1>4, <1>5, <2>1 DEF TooClose
  <2>. QED
    BY <1>5, <2>1, <2>2 DEF Foreseen
<1>10. FreeFirst'
  BY <1>4 DEF FreeFirst
<1>11. DoubleBooked'
  <2>. SUFFICES ASSUME NEW x \in Created', NEW y \in Created', x # y,
                       booking'[x].aidServiceProfile = booking'[y].aidServiceProfile,
                       booking'[x].aidServiceProfile # NoProvider, TooClose(x, y)'
                PROVE  (\E c \in setBy[x], d \in setBy[y] :
                        {c, d} \in crowd \/ Excused(c) \/ Excused(d))'
    BY <1>3 DEF DoubleBooked
  <2>1. x \in Created /\ y \in Created
    BY <1>1, <1>2, <1>3
  <2>2. TooClose(x, y)
    BY <1>5, <2>1 DEF TooClose
  <2>3. \E c \in setBy[x], d \in setBy[y] : {c, d} \in crowd \/ Excused(c) \/ Excused(d)
    BY <1>5, <2>1, <2>2 DEF DoubleBooked
  <2>. QED
    BY <1>4, <2>3 DEF Excused
<1>. QED
  BY <1>6, <1>7, <1>8, <1>9, <1>10, <1>11

\* A booking whose start is moved has no match that ran or runs, and so no provider.
LEMMA UpdateKeepsInv ==
    ASSUME Inv, Hours \subseteq Nat, NEW b \in Bookings, NEW hour \in Hours, UpdateBooking(b, hour)
    PROVE  Inv'
<1>. USE DEF Inv
<1>1. /\ booking'[b].startDate = hour
      /\ booking'[b].endDate = booking[b].endDate
      /\ booking'[b].aidServiceProfile = booking[b].aidServiceProfile
      /\ DOMAIN booking'[b] = BookingColumns
      /\ \A x \in Bookings \ {b} : booking'[x] = booking[x]
      /\ b \in Created
      /\ DOMAIN booking' = Bookings
  <2>1. b \in Created /\ RowTyped(booking[b])
    BY DEF UpdateBooking, Typed
  <2>. QED
    BY <2>1 DEF UpdateBooking, Typed, RowTyped, BookingColumns, MatchColumns
<1>2. booking'[b] # Absent
  <2>1. "startDate" \in DOMAIN booking'[b] /\ "startDate" \notin DOMAIN Absent
    BY <1>1 DEF BookingColumns, Absent
  <2>. QED
    BY <2>1
<1>3. Created' = Created
  BY <1>1, <1>2 DEF Created
<1>4. UNCHANGED <<pc, about, pick, changes, free, apart, setBy, crowd>>
  BY DEF UpdateBooking, history
<1>5. booking[b].aidServiceProfile = NoProvider
  BY <1>1 DEF UpdateBooking, Chosen
<1>6. Typed'
  <2>1. RowTyped(booking'[b])
    <3>1. RowTyped(booking[b])
      BY <1>1 DEF Typed
    <3>2. hour \in Int
      OBVIOUS
    <3>. QED
      BY <1>1, <3>1, <3>2 DEF RowTyped
  <2>2. \A x \in Created \ {b} : RowTyped(booking'[x])
    BY <1>1 DEF Typed, Created
  <2>. QED
    BY <1>1, <1>3, <1>4, <2>1, <2>2 DEF Typed, Running
<1>7. Clauses' /\ Crowds'
  BY <1>4 DEF Clauses, Crowds, Running
<1>8. Chosen'
  BY <1>1, <1>3, <1>4 DEF Chosen
<1>9. Foreseen'
  <2>. SUFFICES ASSUME NEW c \in Matches, pc[c] \in {"reload", "commit"}, NEW y \in Created,
                       y # about[c], booking'[y].aidServiceProfile = pick[c],
                       pick[c] # NoProvider, TooClose(y, about[c])'
                PROVE  Excused(c) \/ \E d \in setBy[y] : {c, d} \in crowd
    BY <1>3, <1>4 DEF Foreseen, Excused
  <2>1. y # b /\ about[c] # b /\ about[c] \in Bookings /\ y \in Bookings
    BY <1>1, <1>5 DEF UpdateBooking, Typed, Created
  <2>2. TooClose(y, about[c])
    BY <1>1, <1>4, <2>1 DEF TooClose
  <2>. QED
    BY <1>1, <2>1, <2>2 DEF Foreseen
<1>10. FreeFirst'
  BY <1>4 DEF FreeFirst
<1>11. DoubleBooked'
  <2>. SUFFICES ASSUME NEW x \in Created, NEW y \in Created, x # y,
                       booking'[x].aidServiceProfile = booking'[y].aidServiceProfile,
                       booking'[x].aidServiceProfile # NoProvider, TooClose(x, y)'
                PROVE  (\E c \in setBy[x], d \in setBy[y] :
                        {c, d} \in crowd \/ Excused(c) \/ Excused(d))'
    BY <1>3 DEF DoubleBooked
  <2>1. x # b /\ y # b /\ x \in Bookings /\ y \in Bookings
    BY <1>1, <1>5 DEF Created
  <2>2. TooClose(x, y)
    BY <1>1, <2>1 DEF TooClose
  <2>3. \E c \in setBy[x], d \in setBy[y] : {c, d} \in crowd \/ Excused(c) \/ Excused(d)
    BY <1>1, <2>1, <2>2 DEF DoubleBooked
  <2>. QED
    BY <1>4, <2>3 DEF Excused
<1>. QED
  BY <1>6, <1>7, <1>8, <1>9, <1>10, <1>11

\* A match that begins meets every match that runs.
LEMMA BeginKeepsInv ==
    ASSUME Inv, NEW c \in Matches, Begin(c)
    PROVE  Inv'
<1>. USE DEF Inv
<1>1. UNCHANGED <<booking, about, pick, changes, free, apart, setBy>>
  BY DEF Begin
<1>2. /\ pc[c] = "idle" /\ pc'[c] = "query" /\ about[c] \in Created
      /\ \A e \in Matches \ {c} : pc'[e] = pc[e]
      /\ DOMAIN pc' = Matches
  BY DEF Begin, Step, Typed
<1>3. crowd \subseteq crowd' /\ \A d \in Matches : Running(d) => {c, d} \in crowd'
  BY DEF Begin
<1>4. Created' = Created
  BY <1>1 DEF Created
<1>5. Typed'
  BY <1>1, <1>2, <1>4 DEF Begin, Step, Typed, Running
<1>6. Clauses'
  BY <1>1, <1>2 DEF Clauses
<1>7. Chosen'
  BY <1>1, <1>2, <1>4 DEF Chosen
<1>8. Crowds'
  <2>. SUFFICES ASSUME NEW d \in Matches, NEW e \in Matches, d # e, Running(d)', Running(e)'
                PROVE  {d, e} \in crowd'
    BY DEF Crowds
  <2>1. CASE d = c
    BY <2>1, <1>2, <1>3 DEF Running
  <2>2. CASE e = c
    <3>1. {c, d} \in crowd'
      BY <2>2, <1>2, <1>3 DEF Running
    <3>2. {c, d} = {d, e}
      BY <2>2
    <3>. QED
      BY <3>1, <3>2
  <2>3. CASE d # c /\ e # c
    BY <2>3, <1>2, <1>3 DEF Running, Crowds
  <2>. QED
    BY <2>1, <2>2, <2>3
<1>9. Foreseen'
  <2>. SUFFICES ASSUME NEW e \in Matches, pc'[e] \in {"reload", "commit"}, NEW y \in Created,
                       y # about[e], booking[y].aidServiceProfile = pick[e],
                       pick[e] # NoProvider, TooClose(y, about[e])
                PROVE  (Excused(e) \/ \E d \in setBy[y] : {e, d} \in crowd)'
    BY <1>1, <1>4 DEF Foreseen, TooClose
  <2>1. Excused(e) \/ \E d \in setBy[y] : {e, d} \in crowd
    BY <1>2 DEF Foreseen
  <2>. QED
    BY <1>1, <1>3, <2>1 DEF Excused
<1>10. FreeFirst'
  BY <1>1 DEF FreeFirst
<1>11. DoubleBooked'
  <2>. SUFFICES ASSUME NEW x \in Created, NEW y \in Created, x # y,
                       booking[x].aidServiceProfile = booking[y].aidServiceProfile,
                       booking[x].aidServiceProfile # NoProvider, TooClose(x, y)
                PROVE  (\E d \in setBy[x], e \in setBy[y] :
                        {d, e} \in crowd \/ Excused(d) \/ Excused(e))'
    BY <1>1, <1>4 DEF DoubleBooked, TooClose
  <2>1. \E d \in setBy[x], e \in setBy[y] : {d, e} \in crowd \/ Excused(d) \/ Excused(e)
    BY DEF DoubleBooked
  <2>. QED
    BY <1>1, <1>3, <2>1 DEF Excused
<1>. QED
  BY <1>5, <1>6, <1>7, <1>8, <1>9, <1>10, <1>11

\* A match that asks chooses nobody worse than one who is free, and has an excuse for a
\* provider who is not.
LEMMA QueryKeepsInv ==
    ASSUME Inv, NEW c \in Matches, Query(c)
    PROVE  Inv'
<1>. USE DEF Inv
<1>0. UNCHANGED <<booking, about, changes, setBy, crowd>>
  BY DEF Query
<1>1. PICK p \in Picks(about[c]) :
        /\ pick' = [pick EXCEPT ![c] = p]
        /\ apart' = [apart EXCEPT ![c] = {x \in BookingsOf(p) : ~TooClose(x, about[c])}]
  BY DEF Query
<1>2. /\ pick'[c] = p
      /\ apart'[c] = {x \in BookingsOf(p) : ~TooClose(x, about[c])}
      /\ free'[c] = {q \in Providers : \A x \in BookingsOf(q) : ~TooClose(x, about[c])}
  BY <1>1 DEF Query, Typed
<1>3. \A e \in Matches \ {c} : pick'[e] = pick[e] /\ apart'[e] = apart[e] /\ free'[e] = free[e]
  BY <1>1 DEF Query, Typed
<1>4. /\ pc[c] = "query" /\ pc'[c] = "reload" /\ about[c] \in Created
      /\ \A e \in Matches \ {c} : pc'[e] = pc[e]
  BY DEF Query, Step, Typed, Running
<1>5. Created' = Created
  BY <1>0 DEF Created
<1>6. \A e \in Matches \ {c} : Excused(e)' <=> Excused(e)
  BY <1>3 DEF Excused
<1>7. \A x \in Created : \A d \in setBy[x] : d \in Matches \ {c}
  BY <1>4 DEF Chosen, Created
<1>8. Typed'
  BY <1>0, <1>1, <1>4, <1>5 DEF Query, Step, Typed, Running
<1>9. Clauses'
  BY <1>0, <1>3, <1>4 DEF Clauses
<1>10. Chosen'
  BY <1>0, <1>3, <1>4, <1>5 DEF Chosen
<1>11. Crowds'
  BY <1>0, <1>4 DEF Crowds, Running
<1>12. Foreseen'
  <2>. SUFFICES ASSUME NEW e \in Matches, pc'[e] \in {"reload", "commit"}, NEW y \in Created,
                       y # about[e], booking[y].aidServiceProfile = pick'[e],
                       pick'[e] # NoProvider, TooClose(y, about[e])
                PROVE  Excused(e)' \/ \E d \in setBy[y] : {e, d} \in crowd
    BY <1>0, <1>5 DEF Foreseen, TooClose
  <2>1. CASE e = c
    <3>1. y \in BookingsOf(p)
      BY <2>1, <1>2 DEF BookingsOf
    <3>2. \/ apart'[c] # {}
          \/ p = Official /\ free'[c] = {}
      BY <1>2, <1>4, <3>1, PickExcused
    <3>. QED
      BY <2>1, <1>2, <3>2 DEF Excused
  <2>2. CASE e # c
    BY <2>2, <1>3, <1>4, <1>6 DEF Foreseen
  <2>. QED
    BY <2>1, <2>2
<1>13. FreeFirst'
  <2>. SUFFICES ASSUME NEW e \in Matches, NEW q \in free'[e]
                PROVE  pick'[e] # NoProvider /\ Score(q, about[e]) <= Score(pick'[e], about[e])
    BY <1>0 DEF FreeFirst, Score
  <2>1. CASE e = c
    <3>1. q \in Eligible(about[c])
      BY <2>1, <1>2, <1>4, FreeIsEligible
    <3>2. p \in Eligible(about[c]) /\ Score(q, about[c]) <= Score(p, about[c])
      BY <3>1 DEF Picks
    <3>3. p # NoProvider
      BY <3>2, MatchingAssumption DEF Eligible
    <3>. QED
      BY <2>1, <1>2, <3>2, <3>3
  <2>2. CASE e # c
    BY <2>2, <1>3 DEF FreeFirst
  <2>. QED
    BY <2>1, <2>2
<1>14. DoubleBooked'
  <2>. SUFFICES ASSUME NEW x \in Created, NEW y \in Created, x # y,
                       booking[x].aidServiceProfile = booking[y].aidServiceProfile,
                       booking[x].aidServiceProfile # NoProvider, TooClose(x, y)
                PROVE  (\E d \in setBy[x], e \in setBy[y] :
                        {d, e} \in crowd \/ Excused(d) \/ Excused(e))'
    BY <1>0, <1>5 DEF DoubleBooked, TooClose
  <2>1. PICK d \in setBy[x], e \in setBy[y] : {d, e} \in crowd \/ Excused(d) \/ Excused(e)
    BY DEF DoubleBooked
  <2>2. {d, e} \in crowd \/ Excused(d)' \/ Excused(e)'
    BY <1>6, <1>7, <2>1
  <2>. QED
    BY <1>0, <2>1, <2>2
<1>. QED
  BY <1>8, <1>9, <1>10, <1>11, <1>12, <1>13, <1>14

\* A match that has read its booking sets the two columns it may set.
LEMMA ReloadKeepsInv ==
    ASSUME Inv, NEW c \in Matches, Reload(c)
    PROVE  Inv'
<1>. USE DEF Inv
<1>1. UNCHANGED <<booking, about, pick, free, apart, setBy, crowd>>
  BY DEF Reload, history
<1>2. /\ pc[c] = "reload" /\ pc'[c] = "commit"
      /\ \A e \in Matches \ {c} : pc'[e] = pc[e] /\ changes'[e] = changes[e]
  BY DEF Reload, Step, Typed
<1>3. /\ DOMAIN changes'[c] \subseteq MatchColumns
      /\ "aidServiceProfile" \in DOMAIN changes'[c] => changes'[c].aidServiceProfile = pick[c]
  BY DEF Reload, Typed, Changed, MatchColumns
<1>4. Created' = Created
  BY <1>1 DEF Created
<1>5. Typed'
  BY <1>1, <1>2, <1>4 DEF Reload, Step, Typed, Running
<1>6. Clauses'
  BY <1>1, <1>2, <1>3 DEF Clauses
<1>7. Chosen'
  BY <1>1, <1>2, <1>4 DEF Chosen
<1>8. Crowds'
  BY <1>1, <1>2 DEF Crowds, Running
<1>9. \A e \in Matches : Excused(e)' <=> Excused(e)
  BY <1>1 DEF Excused
<1>10. Foreseen'
  <2>. SUFFICES ASSUME NEW e \in Matches, pc'[e] \in {"reload", "commit"}, NEW y \in Created,
                       y # about[e], booking[y].aidServiceProfile = pick[e],
                       pick[e] # NoProvider, TooClose(y, about[e])
                PROVE  Excused(e) \/ \E d \in setBy[y] : {e, d} \in crowd
    BY <1>1, <1>4, <1>9 DEF Foreseen, TooClose
  <2>. QED
    BY <1>2 DEF Foreseen
<1>11. FreeFirst'
  BY <1>1 DEF FreeFirst
<1>12. DoubleBooked'
  <2>. SUFFICES ASSUME NEW x \in Created, NEW y \in Created, x # y,
                       booking[x].aidServiceProfile = booking[y].aidServiceProfile,
                       booking[x].aidServiceProfile # NoProvider, TooClose(x, y)
                PROVE  (\E d \in setBy[x], e \in setBy[y] :
                        {d, e} \in crowd \/ Excused(d) \/ Excused(e))'
    BY <1>1, <1>4 DEF DoubleBooked, TooClose
  <2>1. \E d \in setBy[x], e \in setBy[y] : {d, e} \in crowd \/ Excused(d) \/ Excused(e)
    BY DEF DoubleBooked
  <2>. QED
    BY <1>1, <2>1 DEF Excused
<1>. QED
  BY <1>5, <1>6, <1>7, <1>8, <1>10, <1>11, <1>12

\* A match that commits leaves its booking the provider it had, or gives it the one it has
\* chosen; that one was foreseen to be excused, or the other match ran with this one.
LEMMA CommitKeepsInv ==
    ASSUME Inv, NEW c \in Matches, Commit(c)
    PROVE  Inv'
<1>. DEFINE b == about[c]
            given == booking'[b].aidServiceProfile
<1>. USE DEF Inv
<1>1. UNCHANGED <<about, pick, changes, free, apart, crowd>>
  BY DEF Commit
<1>2. /\ pc[c] = "commit" /\ pc'[c] = "done"
      /\ \A e \in Matches \ {c} : pc'[e] = pc[e]
      /\ pc' \in [Matches -> {"idle", "query", "reload", "commit", "done", "failed"}]
  BY DEF Commit, Step, Typed
<1>3. b \in Created /\ b \in Bookings /\ RowTyped(booking[b])
  BY <1>2 DEF Typed, Running, Created
<1>4. /\ DOMAIN booking' = Bookings
      /\ booking'[b] = Overlay(booking[b], changes[c])
      /\ \A x \in Bookings \ {b} : booking'[x] = booking[x]
  BY <1>3 DEF Commit, Typed
<1>5. /\ RowTyped(booking'[b]) /\ booking'[b] # Absent
      /\ booking'[b].startDate = booking[b].startDate
      /\ booking'[b].endDate = booking[b].endDate
      /\ given = pick[c] \/ given = booking[b].aidServiceProfile
  <2>1. DOMAIN changes[c] \subseteq MatchColumns
    BY DEF Clauses
  <2>2. "aidServiceProfile" \in DOMAIN changes[c] => changes[c].aidServiceProfile = pick[c]
    BY DEF Clauses
  <2>. QED
    BY <1>3, <1>4, <2>1, <2>2, MatchedRow
<1>6. /\ DOMAIN setBy' = Bookings
      /\ setBy'[b] = {d \in setBy[b] : pick[d] = given} \cup (IF pick[c] = given THEN {c} ELSE {})
      /\ \A x \in Bookings \ {b} : setBy'[x] = setBy[x]
  BY <1>3 DEF Commit, Typed
<1>7. Created' = Created
  BY <1>3, <1>4, <1>5 DEF Created
<1>8. \/ given = pick[c] /\ c \in setBy'[b]
      \/ given = booking[b].aidServiceProfile /\ setBy[b] \subseteq setBy'[b]
  BY <1>3, <1>5, <1>6 DEF Chosen
<1>9. \A x, y \in Created : TooClose(x, y)' <=> TooClose(x, y)
  BY <1>4, <1>5 DEF TooClose, Created
<1>10. \A e \in Matches : Excused(e)' <=> Excused(e)
  BY <1>1 DEF Excused
<1>11. Typed'
  <2>1. \A x \in Created' : RowTyped(booking'[x])
    BY <1>4, <1>5, <1>7 DEF Typed, Created
  <2>. QED
    BY <1>1, <1>2, <1>4, <1>6, <1>7, <2>1 DEF Typed, Running
<1>12. Clauses'
  BY <1>1, <1>2 DEF Clauses
<1>13. Chosen'
  <2>. SUFFICES ASSUME NEW x \in Bookings
                PROVE  /\ \A d \in setBy'[x] :
                            /\ d \in Matches /\ pc'[d] = "done" /\ about[d] = x
                            /\ x \in Created /\ pick[d] = booking'[x].aidServiceProfile
                       /\ x \in Created /\ booking'[x].aidServiceProfile # NoProvider
                            => setBy'[x] # {}
    BY <1>1, <1>7 DEF Chosen
  <2>1. \A d \in setBy[x] : pc'[d] = "done"
    BY <1>2 DEF Chosen
  <2>2. CASE x = b
    <3>1. \A d \in setBy'[b] : d = c \/ d \in setBy[b]
      BY <1>6
    <3>2. \A d \in setBy'[b] : pick[d] = given
      BY <1>6
    <3>3. \A d \in setBy'[b] : d \in Matches /\ pc'[d] = "done" /\ about[d] = b
      BY <1>2, <1>3, <2>1, <2>2, <3>1 DEF Chosen
    <3>4. given # NoProvider => setBy'[b] # {}
      BY <1>3, <1>8 DEF Chosen
    <3>. QED
      BY <1>3, <2>2, <3>2, <3>3, <3>4
  <2>3. CASE x # b
    BY <1>4, <1>6, <2>1, <2>3 DEF Chosen
  <2>. QED
    BY <2>2, <2>3
<1>14. Crowds'
  BY <1>1, <1>2 DEF Crowds, Running
<1>15. Foreseen'
  <2>. SUFFICES ASSUME NEW e \in Matches, pc'[e] \in {"reload", "commit"}, NEW y \in Created,
                       y # about[e], booking'[y].aidServiceProfile = pick[e],
                       pick[e] # NoProvider, TooClose(y, about[e])'
                PROVE  Excused(e) \/ \E d \in setBy'[y] : {e, d} \in crowd
    BY <1>1, <1>7, <1>10 DEF Foreseen
  <2>1. e # c /\ pc[e] \in {"reload", "commit"} /\ about[e] \in Created
    BY <1>2 DEF Typed, Running
  <2>2. TooClose(y, about[e])
    BY <1>1, <1>9, <2>1 DEF TooClose
  <2>3. {e, c} \in crowd
    BY <1>2, <2>1 DEF Crowds, Running
  <2>4. CASE y # b
    BY <1>4, <1>6, <2>1, <2>2, <2>4 DEF Foreseen, Created
  <2>5. CASE y = b /\ c \in setBy'[b]
    BY <2>3, <2>5
  <2>6. CASE y = b /\ given = booking[b].aidServiceProfile /\ setBy[b] \subseteq setBy'[b]
    BY <2>1, <2>2, <2>6 DEF Foreseen
  <2>. QED
    BY <1>8, <2>4, <2>5, <2>6
<1>16. FreeFirst'
  BY <1>1 DEF FreeFirst
<1>17. DoubleBooked'
  <2>. DEFINE Reason(d, e) == {d, e} \in crowd \/ Excused(d) \/ Excused(e)
  <2>1. \A d, e : Reason(d, e) => Reason(e, d)
    <3>1. \A d, e : {d, e} = {e, d}
      OBVIOUS
    <3>. QED
      BY <3>1
  <2>2. ASSUME NEW x \in Created, NEW y \in Created, x # y,
               booking'[x].aidServiceProfile = booking'[y].aidServiceProfile,
               booking'[x].aidServiceProfile # NoProvider, TooClose(x, y), y # b
        PROVE  \E d \in setBy'[x], e \in setBy'[y] : Reason(d, e)
    <3>1. booking'[y] = booking[y] /\ setBy'[y] = setBy[y] /\ y \in Bookings
      BY <1>4, <1>6, <2>2 DEF Created
    <3>2. CASE x # b
      <4>1. booking'[x] = booking[x] /\ setBy'[x] = setBy[x]
        BY <1>4, <1>6, <3>2 DEF Created
      <4>. QED
        BY <2>2, <3>1, <4>1 DEF DoubleBooked
    <3>3. CASE x = b /\ given = booking[b].aidServiceProfile /\ setBy[b] \subseteq setBy'[b]
      <4>1. \E d \in setBy[b], e \in setBy[y] : Reason(d, e)
        BY <2>2, <3>1, <3>3 DEF DoubleBooked
      <4>. QED
        BY <3>1, <3>3, <4>1
    <3>4. CASE x = b /\ given = pick[c] /\ c \in setBy'[b]
      <4>1. TooClose(y, b)
        BY <2>2, <3>4 DEF TooClose
      <4>2. Excused(c) \/ \E d \in setBy[y] : {c, d} \in crowd
        BY <1>2, <2>2, <3>1, <3>4, <4>1 DEF Foreseen
      <4>3. setBy[y] # {}
        BY <2>2, <3>1 DEF Chosen
      <4>. QED
        BY <3>1, <3>4, <4>2, <4>3
    <3>. QED
      BY <1>8, <3>2, <3>3, <3>4
  <2>. SUFFICES ASSUME NEW x \in Created, NEW y \in Created, x # y,
                       booking'[x].aidServiceProfile = booking'[y].aidServiceProfile,
                       booking'[x].aidServiceProfile # NoProvider, TooClose(x, y)'
                PROVE  (\E d \in setBy[x], e \in setBy[y] :
                        {d, e} \in crowd \/ Excused(d) \/ Excused(e))'
    BY <1>7 DEF DoubleBooked
  <2>3. TooClose(x, y) /\ TooClose(y, x)
    BY <1>9 DEF TooClose
  <2>4. \E d \in setBy'[x], e \in setBy'[y] : Reason(d, e)
    <3>1. CASE y # b
      BY <2>2, <2>3, <3>1
    <3>2. CASE x # b
      <4>1. \E d \in setBy'[y], e \in setBy'[x] : Reason(d, e)
        BY <2>2, <2>3, <3>2
      <4>. HIDE DEF Reason
      <4>. QED
        BY <2>1, <4>1
    <3>. QED
      BY <3>1, <3>2
  <2>. QED
    BY <1>1, <2>4 DEF Excused
<1>. QED
  BY <1>11, <1>12, <1>13, <1>14, <1>15, <1>16, <1>17

\* When the process ends, no match is left that runs.
LEMMA FailKeepsInv ==
    ASSUME Inv, Fail
    PROVE  Inv'
<1>. USE DEF Inv
<1>1. UNCHANGED <<booking, about, pick, changes, free, apart, setBy, crowd>>
  BY DEF Fail, history
<1>2. /\ \A e \in Matches : pc'[e] = IF Running(e) THEN "failed" ELSE pc[e]
      /\ pc' \in [Matches -> {"idle", "query", "reload", "commit", "done", "failed"}]
  BY DEF Fail, Typed
<1>3. \A e \in Matches : ~Running(e)'
  BY <1>2 DEF Running
<1>4. Created' = Created
  BY <1>1 DEF Created
<1>5. Typed'
  BY <1>1, <1>2, <1>3, <1>4 DEF Typed
<1>6. Clauses'
  BY <1>1, <1>2 DEF Clauses
<1>7. Chosen'
  BY <1>1, <1>2, <1>4 DEF Chosen, Running
<1>8. Crowds' /\ Foreseen'
  BY <1>3 DEF Crowds, Foreseen, Running
<1>9. FreeFirst'
  BY <1>1 DEF FreeFirst
<1>10. DoubleBooked'
  <2>. SUFFICES ASSUME NEW x \in Created, NEW y \in Created, x # y,
                       booking[x].aidServiceProfile = booking[y].aidServiceProfile,
                       booking[x].aidServiceProfile # NoProvider, TooClose(x, y)
                PROVE  (\E d \in setBy[x], e \in setBy[y] :
                        {d, e} \in crowd \/ Excused(d) \/ Excused(e))'
    BY <1>1, <1>4 DEF DoubleBooked, TooClose
  <2>1. \E d \in setBy[x], e \in setBy[y] : {d, e} \in crowd \/ Excused(d) \/ Excused(e)
    BY DEF DoubleBooked
  <2>. QED
    BY <1>1, <2>1 DEF Excused
<1>. QED
  BY <1>5, <1>6, <1>7, <1>8, <1>9, <1>10

\* A step that changes nothing.
LEMMA StutterKeepsInv ==
    ASSUME Inv, UNCHANGED vars
    PROVE  Inv'
<1>. USE DEF Inv
<1>1. UNCHANGED <<booking, pc, about, pick, changes, free, apart, setBy, crowd>>
  BY DEF vars, history
<1>2. Created' = Created
  BY <1>1 DEF Created
<1>3. (Typed /\ Clauses /\ Chosen /\ Crowds /\ FreeFirst)'
  BY <1>1, <1>2 DEF Typed, Clauses, Chosen, Crowds, FreeFirst, Running
<1>4. \A e \in Matches : Excused(e)' <=> Excused(e)
  BY <1>1 DEF Excused
<1>5. Foreseen'
  <2>. SUFFICES ASSUME NEW e \in Matches, pc[e] \in {"reload", "commit"}, NEW y \in Created,
                       y # about[e], booking[y].aidServiceProfile = pick[e],
                       pick[e] # NoProvider, TooClose(y, about[e])
                PROVE  Excused(e) \/ \E d \in setBy[y] : {e, d} \in crowd
    BY <1>1, <1>2, <1>4 DEF Foreseen, TooClose
  <2>. QED
    BY DEF Foreseen
<1>6. DoubleBooked'
  <2>. SUFFICES ASSUME NEW x \in Created, NEW y \in Created, x # y,
                       booking[x].aidServiceProfile = booking[y].aidServiceProfile,
                       booking[x].aidServiceProfile # NoProvider, TooClose(x, y)
                PROVE  (\E d \in setBy[x], e \in setBy[y] :
                        {d, e} \in crowd \/ Excused(d) \/ Excused(e))'
    BY <1>1, <1>2 DEF DoubleBooked, TooClose
  <2>1. \E d \in setBy[x], e \in setBy[y] : {d, e} \in crowd \/ Excused(d) \/ Excused(e)
    BY DEF DoubleBooked
  <2>. QED
    BY <1>1, <2>1 DEF Excused
<1>. QED
  BY <1>3, <1>5, <1>6

LEMMA NextInv == Inv /\ [Next]_vars => Inv'
<1>. SUFFICES ASSUME Inv, [Next]_vars PROVE Inv'
  OBVIOUS
<1>. Hours \subseteq Nat
  BY MatchingAssumption
<1>1. CASE \E b \in Bookings, hour \in Hours : CreateBooking(b, hour)
  BY <1>1, CreateKeepsInv
<1>2. CASE \E b \in Bookings, hour \in Hours : UpdateBooking(b, hour)
  BY <1>2, UpdateKeepsInv
<1>3. CASE \E c \in Matches : Begin(c)
  BY <1>3, BeginKeepsInv
<1>4. CASE \E c \in Matches : Query(c)
  BY <1>4, QueryKeepsInv
<1>5. CASE \E c \in Matches : Reload(c)
  BY <1>5, ReloadKeepsInv
<1>6. CASE \E c \in Matches : Commit(c)
  BY <1>6, CommitKeepsInv
<1>7. CASE Fail
  BY <1>7, FailKeepsInv
<1>8. CASE UNCHANGED vars
  BY <1>8, StutterKeepsInv
<1>. QED
  BY <1>1, <1>2, <1>3, <1>4, <1>5, <1>6, <1>7, <1>8 DEF Next

-----------------------------------------------------------------------------
(* The theorems.                                                           *)

\* In every reachable state the parts of Inv hold: rows and matches are well formed, what is
\* recorded of a booking's matches is true of them, and matches that run together know it.
THEOREM MatchingInvariant == Spec => []Inv
<1>. QED
  BY InitInv, NextInv, PTL DEF Spec

\* However many matches run and bookings move, a match never passes over a provider who is
\* free (the query and the score of matchBookingWithServiceProfile).
THEOREM FreeProvidersComeFirst == Spec => []FreeFirst
<1>1. Inv => FreeFirst
  BY DEF Inv
<1>. QED
  BY <1>1, MatchingInvariant, PTL

\* Whatever fails and whichever matches overlap, two bookings of one provider collide only
\* if their matches ran at once, or one of the two was excused: nothing else
\* that matchBookingWithServiceProfile does can book a provider twice.
THEOREM DoubleBookingsExplained == Spec => []DoubleBooked
<1>1. Inv => DoubleBooked
  BY DEF Inv
<1>. QED
  BY <1>1, MatchingInvariant, PTL
=============================================================================
