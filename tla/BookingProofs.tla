---------------------------- MODULE BookingProofs ----------------------------
(***************************************************************************)
(* Theorems about Booking: for all sets of requests, bookings, providers   *)
(* and files, what a request can change of a booking it works on alone and *)
(* of one it does not, which files a clean-up can take, and what the       *)
(* ratings of a provider are worth.                                        *)
(***************************************************************************)
EXTENDS Booking, WellFoundedInduction, TLAPS

\* A column that is a Boolean, as a formula.
Yes(column) == column

\* The status of a booking that is paid for (the SMT solvers take no string with a space).
InProgress == "In Progress"

Settlements == {"settle", "match"}
Statuses == {"bookingStatus", "paymentStatus"}
Settles(c) == request[c].kind \in Settlements

\* Request c has a booking object on its way to the database.
Holds(c) == InFlight(c) /\ request[c].kind # "rateApp"
Own(c) == Duty[request[c].kind]
Current(c) == booking[BookingOf(c)]

\* Request c is going to add its rating to provider p.
Rates(c, p) == InFlight(c) /\ IsRating(c) /\ Rated(c) = p

\* Request c is going to have booking refer to file f, or clean f up.
Names(c, f) == InFlight(c) /\ request[c].kind \in {"update", "processed"} /\ request[c].arg = f

Refers(f) == \E b \in Bookings : \E version \in versions[b] :
                f = version.rawMediaFiles \/ f = version.processedMediaFiles

\* A number of ratings and an average, which is a fraction.
RatingTyped(row) ==
    /\ row.averageRating \in Nat \X (Nat \ {0})
    /\ row.noOfRatings \in Nat

\* An average between two ratings that can be given.
Within(average) == \E low, high \in Ratings : /\ low * average[2] <= average[1]
                                              /\ average[1] <= high * average[2]

-----------------------------------------------------------------------------
(* The inductive invariant, for one request or row at a time.              *)

\* What a request is about, at each of its steps.
RequestOK(c) ==
    /\ pc[c] \in {"idle", "pick", "reload"} => bookingSet[c] = NoChange
    /\ request[c].kind \in {"update", "processed"} => request[c].arg \in Files
    /\ InFlight(c) => request[c].kind \in {"update", "processed", "confirmProvider", "rate",
                                           "rateApp", "settle", "match"}
    /\ pc[c] = "pick" => request[c].kind = "match"
    /\ pc[c] \in {"reload", "update"} => request[c].kind # "rateApp"
    /\ pc[c] \in {"reloadProfile", "updateProfile"} => IsRating(c)
    /\ InFlight(c) /\ request[c].kind = "match" =>
        LET s == request[c].arg
        IN  s \in Calls /\ pc[s] # "idle" /\ request[s].kind = "settle"
            /\ BookingOf(s) = BookingOf(c)
    /\ InFlight(c) /\ IsRating(c) => Rated(c) \in Providers /\ request[c].arg \in Ratings

\* The object of a request is ONE committed version of its booking, but for its own columns.
ObjectOK(c) == Holds(c) =>
    /\ BookingOf(c) \in created
    /\ \E version \in versions[BookingOf(c)] :
        \A k \in DOMAIN entity[c] \ Own(c) : entity[c][k] = version[k]
    /\ DOMAIN entity[c] \in {BookingColumns, BookingColumns \ {"aidServiceProfile"}}
    /\ ~Settles(c) => "aidServiceProfile" \in DOMAIN entity[c]
    /\ "aidServiceProfile" \in DOMAIN entity[c] =>
        entity[c].aidServiceProfile \in Providers \cup {NoProvider}
    /\ \A k \in DOMAIN bookingSet[c] : bookingSet[c][k] = entity[c][k]
    /\ request[c].kind = "update" => /\ entity[c].rawMediaFiles = request[c].arg
                                     /\ entity[c].bookingStatus = "Cancelled"
    /\ request[c].kind = "processed" => entity[c].processedMediaFiles = request[c].arg
    /\ Settles(c) =>
        /\ entity[c].paymentStatus = "Paid" <=> entity[c].bookingStatus = InProgress
        /\ "aidServiceProfile" \in DOMAIN entity[c] => Yes(entity[c].isMatched)
    /\ request[c].kind = "match" /\ pc[c] # "pick" => "aidServiceProfile" \in DOMAIN entity[c]

\* A match and its settlement have one object, until the settlement has read the row again.
PairOK(m) == LET s == request[m].arg IN
    InFlight(m) /\ request[m].kind = "match" /\ InFlight(s) =>
        /\ \A k \in Statuses : entity[m][k] = entity[s][k]
        /\ pc[s] = "reload" /\ pc[m] # "pick" => Yes(entity[s].isMatched)

\* What a request has read of a booking it works on alone, or with its match, is still so,
\* and the row its UPDATE leaves has the statuses of its object and stays matched.
FreshOK(c) == Holds(c) /\ BookingOf(c) \notin overlap =>
    /\ \A k \in DOMAIN entity[c] \ Own(c) : entity[c][k] = Current(c)[k]
    /\ DOMAIN bookingSet[c] \subseteq Own(c)
    /\ request[c].kind = "update" => Current(c).bookingStatus = "Pending"
    /\ request[c].kind \in {"rate", "confirmProvider"} => Yes(Current(c).isMatched)
    /\ Settles(c) /\ pc[c] = "reload" => \/ entity[c].isMatched = Current(c).isMatched
                                         \/ Yes(entity[c].isMatched)
    /\ Settles(c) /\ pc[c] \in {"update", "commit"} =>
        /\ \A k \in Statuses : k \in DOMAIN bookingSet[c] \/ Current(c)[k] = entity[c][k]
        /\ "isMatched" \in DOMAIN bookingSet[c] => Yes(entity[c].isMatched)
        /\ Yes(entity[c].isMatched) =>
            "isMatched" \in DOMAIN bookingSet[c] \/ Yes(Current(c).isMatched)

\* Two requests that hold objects of one booking are a settlement and its match, or overlap.
Apart(c, d) == Holds(c) /\ Holds(d) /\ BookingOf(c) = BookingOf(d) =>
    \/ BookingOf(c) \in overlap
    \/ request[c].kind = "match" /\ request[c].arg = d
    \/ request[d].kind = "match" /\ request[d].arg = c

Alone == \A c \in Calls : FreshOK(c) /\ PairOK(c) /\ \A d \in Calls \ {c} : Apart(c, d)

\* The parts of TypeOK: about the rows, the providers and one request.
RowsTyped ==
    /\ created \subseteq Bookings
    /\ DOMAIN booking = Bookings
    /\ \A b \in Bookings : DOMAIN booking[b] = BookingColumns
    /\ deleted \subseteq Files
    /\ faults \in 0..MaxFaults
    /\ overlap \subseteq Bookings

ProvidersTyped ==
    /\ DOMAIN provider = Providers
    /\ \A p \in Providers : /\ DOMAIN provider[p] = DOMAIN NewProvider
                            /\ provider[p].noOfRatings \in Nat
    /\ contended \subseteq Providers

PCTyped == pc \in [Calls -> Open \cup {"idle", "committed", "failed", "lost"}]

CallTyped(c) == /\ DOMAIN request[c] = DOMAIN NoRequest
                /\ request[c].kind \in Kinds \cup {"none", "match"}
                /\ BookingOf(c) \in Bookings
                /\ request[c].user \in Users
                /\ DOMAIN entity[c] \subseteq BookingColumns
                /\ DOMAIN bookingSet[c] \subseteq DOMAIN entity[c]
                /\ DOMAIN profileSet[c] \subseteq DOMAIN NewProvider

Stored ==
    /\ RowsTyped
    /\ DOMAIN versions = Bookings
    /\ \A b \in Bookings :
        /\ b \in created => booking[b] \in versions[b]
        /\ b \notin created => booking[b] = NewBooking(NoFile) /\ versions[b] = {}
        /\ \A version \in versions[b] :
            /\ DOMAIN version = BookingColumns
            /\ version.aidServiceProfile \in Providers \cup {NoProvider}

Asked ==
    /\ PCTyped
    /\ DOMAIN request = Calls /\ DOMAIN entity = Calls /\ DOMAIN bookingSet = Calls
    /\ DOMAIN profile = Calls /\ DOMAIN profileSet = Calls
    /\ \A c \in Calls : CallTyped(c) /\ RequestOK(c) /\ ObjectOK(c)

\* On a booking without overlap the statuses agree, and a provider comes with the match.
Agreed ==
    \A b \in Bookings \ overlap :
        /\ booking[b].paymentStatus = "Paid" <=> booking[b].bookingStatus = InProgress
        /\ booking[b].rating # 0 \/ Yes(booking[b].confirmedByProvider)
            => Yes(booking[b].isMatched)
        /\ booking[b].aidServiceProfile # NoProvider => Yes(booking[b].isMatched)

\* A file that was named once is referred to, on its way, or cleaned up: only one of them.
Counted ==
    /\ uses \in [Files -> Nat]
    /\ \A f \in Files :
        /\ uses[f] = 0 => ~Refers(f) /\ f \notin deleted /\ \A c \in Calls : ~Names(c, f)
        /\ uses[f] = 1 =>
            /\ f \in deleted => ~Refers(f) /\ \A c \in Calls : ~Names(c, f)
            /\ \A c \in Calls : Names(c, f) => /\ ~Refers(f)
                                               /\ \A d \in Calls \ {c} : ~Names(d, f)

\* The provider object of a rating: within the ratings given, and one more than were
\* committed at most.
ProfileOK(c) == LET p == Rated(c) IN
    InFlight(c) /\ IsRating(c) =>
        /\ RatingTyped(profile[c]) /\ Within(profile[c].averageRating)
        /\ DOMAIN profile[c] = DOMAIN NewProvider
        /\ profile[c].noOfRatings <= reviews[p].number + 1
        /\ p \notin contended => profile[c] = WithRating(provider[p], request[c].arg)
        /\ pc[c] \in {"updateProfile", "commit"} =>
            /\ \A k \in DOMAIN profileSet[c] : profileSet[c][k] = profile[c][k]
            /\ reviews[p].number = 0 => "averageRating" \in DOMAIN profileSet[c]
            /\ p \notin contended => profileSet[c] = Changed(profile[c], provider[p])

ProviderOK(p) ==
    /\ RatingTyped(provider[p])
    /\ reviews[p].number \in Nat /\ reviews[p].sum \in Nat
    /\ reviews[p].number = 0 => provider[p] = NewProvider
    /\ reviews[p].number > 0 => Within(provider[p].averageRating)
    /\ provider[p].noOfRatings <= reviews[p].number

RatingsOK ==
    /\ ProvidersTyped
    /\ DOMAIN reviews = Providers
    /\ \A p \in Providers : ProviderOK(p)
    /\ \A c \in Calls : ProfileOK(c)
    /\ \A c, d \in Calls : \A p \in Providers :
        c # d /\ Rates(c, p) /\ Rates(d, p) => p \in contended
    /\ RatingsExact

Inv == Stored /\ Asked /\ Alone /\ Agreed /\ Counted /\ RatingsOK

-----------------------------------------------------------------------------
(* The operators of the model.                                             *)

LEMMA InvTyped == ASSUME Inv PROVE TypeOK
BY DEF Inv, Stored, RowsTyped, Asked, PCTyped, CallTyped, RatingsOK, ProvidersTyped, TypeOK

LEMMA NoChangeEmpty == DOMAIN NoChange = {}
BY DEF NoChange

LEMMA NewBookingFacts ==
    ASSUME NEW f
    PROVE  /\ DOMAIN NewBooking(f) = BookingColumns
           /\ NewBooking(f).aidServiceProfile = NoProvider
           /\ NewBooking(f).rawMediaFiles = f /\ NewBooking(f).processedMediaFiles = NoFile
           /\ NewBooking(f).bookingStatus = "Pending" /\ NewBooking(f).rating = 0
           /\ NewBooking(f).paymentStatus # "Paid"
           /\ ~Yes(NewBooking(f).confirmedByProvider)
BY DEF NewBooking, BookingColumns, Yes

LEMMA OverlayFacts ==
    ASSUME NEW row, NEW changes
    PROVE  /\ DOMAIN Overlay(row, changes) = DOMAIN row
           /\ \A k \in DOMAIN row :
                /\ k \in DOMAIN changes => Overlay(row, changes)[k] = changes[k]
                /\ k \notin DOMAIN changes => Overlay(row, changes)[k] = row[k]
BY DEF Overlay

LEMMA ChangedFacts ==
    ASSUME NEW object, NEW row
    PROVE  /\ DOMAIN Changed(object, row) \subseteq DOMAIN object
           /\ \A k \in DOMAIN object : k \in DOMAIN Changed(object, row) <=> object[k] # row[k]
           /\ \A k \in DOMAIN Changed(object, row) : Changed(object, row)[k] = object[k]
BY DEF Changed

LEMMA MatchedFacts ==
    ASSUME NEW object, NEW p
    PROVE  /\ DOMAIN Matched(object, p) = BookingColumns
           /\ Matched(object, p).aidServiceProfile = p
           /\ Yes(Matched(object, p).isMatched)
           /\ \A k \in BookingColumns \ {"isMatched", "aidServiceProfile"} :
                Matched(object, p)[k] = object[k]
BY DEF Matched, BookingColumns, Yes

LEMMA LoadedFacts ==
    ASSUME NEW b
    PROVE  /\ DOMAIN Loaded(b, WithProvider) = BookingColumns
           /\ DOMAIN Loaded(b, {}) = BookingColumns \ {"aidServiceProfile"}
           /\ \A k \in BookingColumns : Loaded(b, WithProvider)[k] = booking[b][k]
           /\ \A k \in BookingColumns \ {"aidServiceProfile"} : Loaded(b, {})[k] = booking[b][k]
BY DEF Loaded, WithProvider, BookingColumns

LEMMA RequestFacts ==
    ASSUME NEW kind, NEW b, NEW user, NEW arg
    PROVE  LET r == Request(kind, b, user, arg)
           IN  /\ r.kind = kind /\ r.booking = b /\ r.user = user /\ r.arg = arg
               /\ DOMAIN r = DOMAIN NoRequest
BY DEF Request, NoRequest, AboutNone

LEMMA AboutNoneFacts ==
    ASSUME NEW kind, NEW arg
    PROVE  LET r == AboutNone(kind, arg)
           IN  /\ r.kind = kind /\ r.arg = arg /\ r.booking \in Bookings /\ r.user \in Users
               /\ DOMAIN r = DOMAIN NoRequest
BY BookingAssumption DEF Request, NoRequest, AboutNone

LEMMA NoRequestFacts ==
    /\ NoRequest.kind = "none" /\ NoRequest.arg = NoFile /\ NoRequest.booking \in Bookings
    /\ NoRequest.user \in Users
BY AboutNoneFacts DEF NoRequest

\* The columns each endpoint is there to change.
LEMMA Duties ==
    /\ Duty["update"] = {"bookingStatus", "rawMediaFiles"}
    /\ Duty["processed"] = {"processedMediaFiles"}
    /\ Duty["confirmProvider"] = {"confirmedByProvider"}
    /\ Duty["rate"] = {"rating"}
    /\ Duty["settle"] = {"bookingStatus", "paymentStatus", "isMatched", "aidServiceProfile"}
    /\ Duty["match"] = Duty["settle"]
BY DEF Duty

LEMMA Progress == InProgress # "Pending" /\ InProgress # "Cancelled"
BY Zenon DEF InProgress

\* A booking that was matched before: paid for, in progress, with its provider.
LEMMA MatchedBookingFacts ==
    ASSUME NEW p
    PROVE  /\ DOMAIN MatchedBooking(p) = BookingColumns
           /\ MatchedBooking(p).aidServiceProfile = p
           /\ MatchedBooking(p).rawMediaFiles = NoFile
           /\ MatchedBooking(p).processedMediaFiles = NoFile
           /\ MatchedBooking(p).bookingStatus = InProgress
           /\ MatchedBooking(p).paymentStatus = "Paid"
           /\ Yes(MatchedBooking(p).isMatched)
<1>1. MatchedBooking(p) =
        Overlay(NewBooking(NoFile),
                [bookingStatus |-> InProgress, paymentStatus |-> "Paid", isMatched |-> TRUE,
                 aidServiceProfile |-> p])
  BY Zenon DEF MatchedBooking, InProgress
<1>. QED
  BY <1>1, NewBookingFacts DEF Overlay, BookingColumns, Yes

LEMMA InitInv == Init => Inv
<1>. SUFFICES ASSUME Init PROVE Inv
  OBVIOUS
<1>1. \A c \in Calls : /\ pc[c] = "idle" /\ request[c] = NoRequest /\ entity[c] = NoChange
                       /\ bookingSet[c] = NoChange /\ profileSet[c] = NoChange
  BY DEF Init
<1>2. ~ \E c \in Calls : InFlight(c)
  BY <1>1 DEF InFlight, Open
<1>r. \A b \in Bookings :
        /\ b \in created => /\ Earlier[b] \in Providers /\ booking[b] = MatchedBooking(Earlier[b])
                            /\ versions[b] = {booking[b]}
        /\ b \notin created => booking[b] = NewBooking(NoFile) /\ versions[b] = {}
  BY BookingAssumption DEF Init
<1>3. Stored
  BY <1>r, NewBookingFacts, MatchedBookingFacts, BookingAssumption DEF Init, Stored, RowsTyped
<1>4. \A c \in Calls : CallTyped(c) /\ RequestOK(c) /\ ObjectOK(c)
  BY <1>1, <1>2, NoChangeEmpty, NoRequestFacts
     DEF CallTyped, RequestOK, ObjectOK, Holds, InFlight, Open, BookingOf, IsRating
<1>5. Asked
  BY <1>4 DEF Init, Asked, PCTyped
<1>6. Alone
  BY <1>2 DEF Alone, FreshOK, PairOK, Apart, Holds
<1>7. Agreed
  BY <1>r, NewBookingFacts, MatchedBookingFacts, Progress DEF Agreed
<1>8. Counted
  <2>1. \A f \in Files : ~Refers(f)
    BY <1>r, MatchedBookingFacts, NewBookingFacts, BookingAssumption DEF Refers, Init
  <2>. QED
    BY <1>2, <2>1 DEF Init, Counted, Names
<1>9. RatingsOK
  <2>1. \A p \in Providers : provider[p] = NewProvider
    BY DEF Init
  <2>2. \A p \in Providers : ProviderOK(p)
    BY <2>1 DEF Init, ProviderOK, RatingTyped, NewProvider
  <2>3. \A c \in Calls : ProfileOK(c)
    BY <1>2 DEF ProfileOK
  <2>4. ProvidersTyped
    BY <2>1 DEF Init, ProvidersTyped, NewProvider
  <2>5. RatingsExact
    BY <2>1 DEF Init, RatingsExact, NewProvider
  <2>. QED
    BY <1>2, <2>2, <2>3, <2>4, <2>5 DEF Init, RatingsOK, Rates
<1>. QED
  BY <1>3, <1>5, <1>6, <1>7, <1>8, <1>9 DEF Inv

LEMMA InvAgree == ASSUME Inv PROVE StatusesAgree
BY Zenon DEF Inv, Agreed, Yes, StatusesAgree, InProgress

-----------------------------------------------------------------------------
(* What a step of one request leaves alone.                                *)

\* Request c is where it was.
Same(c) ==
    /\ pc'[c] = pc[c] /\ request'[c] = request[c] /\ entity'[c] = entity[c]
    /\ bookingSet'[c] = bookingSet[c] /\ profile'[c] = profile[c]
    /\ profileSet'[c] = profileSet[c]

\* A request that was made stays what it is.
Steady(c) == pc[c] # "idle" => request'[c] = request[c] /\ pc'[c] # "idle"

\* What a settlement and its match know of each other is kept.
Calm(c) == InFlight(c)' =>
    \/ pc[c] = "idle" /\ request'[c].kind # "match"
    \/ /\ InFlight(c) /\ request'[c] = request[c] /\ entity'[c] = entity[c]
       /\ pc'[c] = "reload" => pc[c] = "reload"
       /\ pc[c] = "pick" => pc'[c] = "pick"

Grows ==
    /\ created \subseteq created'
    /\ overlap \subseteq overlap'
    /\ \A b \in Bookings : versions[b] \subseteq versions'[b]

LEMMA InvFacts ==
    ASSUME Inv, NEW c \in Calls
    PROVE  /\ RowsTyped /\ PCTyped
           /\ CallTyped(c) /\ RequestOK(c) /\ ObjectOK(c) /\ FreshOK(c) /\ PairOK(c)
           /\ ProfileOK(c)
           /\ DOMAIN request = Calls /\ DOMAIN entity = Calls /\ DOMAIN bookingSet = Calls
           /\ DOMAIN profile = Calls /\ DOMAIN profileSet = Calls
           /\ \A d \in Calls \ {c} : Apart(c, d) /\ Apart(d, c)
           /\ BookingOf(c) \in Bookings
BY DEF Inv, Stored, Asked, Alone, RatingsOK, CallTyped

LEMMA SameCalm == ASSUME NEW c, Same(c) PROVE Calm(c) /\ (pc[c] # "idle" => Steady(c))
BY DEF Same, Calm, Steady, InFlight, Open

LEMMA TypedStays == ASSUME NEW c, Same(c), CallTyped(c) PROVE CallTyped(c)'
BY DEF Same, CallTyped, BookingOf

LEMMA RequestStays ==
    ASSUME NEW c \in Calls, Same(c), \A d \in Calls : Steady(d), RequestOK(c)
    PROVE  RequestOK(c)'
BY DEF Same, Steady, RequestOK, InFlight, BookingOf, IsRating, Rated

LEMMA ObjectStays ==
    ASSUME NEW c \in Calls, Same(c), Grows, CallTyped(c), ObjectOK(c)
    PROVE  ObjectOK(c)'
BY DEF Same, Grows, CallTyped, ObjectOK, Holds, InFlight, BookingOf, Own, Settles

LEMMA FreshStays ==
    ASSUME NEW c \in Calls, Same(c), Grows, FreshOK(c),
           Holds(c) /\ BookingOf(c) \notin overlap' =>
                booking'[BookingOf(c)] = booking[BookingOf(c)]
    PROVE  FreshOK(c)'
BY DEF Same, Grows, FreshOK, Holds, InFlight, BookingOf, Own, Settles, Current

LEMMA PairsStay ==
    ASSUME Inv, \A d \in Calls : Calm(d) /\ Steady(d)
    PROVE  \A m \in Calls : PairOK(m)'
<1>. SUFFICES ASSUME NEW m \in Calls, NEW s, s = request'[m].arg,
                     InFlight(m)', request'[m].kind = "match", InFlight(s)'
              PROVE  /\ \A k \in Statuses : entity'[m][k] = entity'[s][k]
                     /\ pc'[s] = "reload" /\ pc'[m] # "pick" => Yes(entity'[s].isMatched)
  BY DEF PairOK
<1>1. InFlight(m) /\ request'[m] = request[m] /\ entity'[m] = entity[m]
      /\ (pc[m] = "pick" => pc'[m] = "pick")
  BY DEF Calm
<1>2. s \in Calls /\ s = request[m].arg /\ pc[s] # "idle"
  BY <1>1, InvFacts DEF RequestOK
<1>3. InFlight(s) /\ entity'[s] = entity[s] /\ (pc'[s] = "reload" => pc[s] = "reload")
  BY <1>1, <1>2 DEF Calm
<1>. QED
  BY <1>1, <1>2, <1>3, InvFacts DEF PairOK

LEMMA ApartStays ==
    ASSUME Inv, Grows, NEW c \in Calls, NEW d \in Calls \ {c}, Calm(c), Calm(d),
           pc[c] = "idle" /\ Holds(c)' /\ Holds(d) /\ BookingOf(d) = BookingOf(c)'
                => BookingOf(d) \in overlap',
           pc[d] = "idle" /\ Holds(d)' /\ Holds(c) /\ BookingOf(c) = BookingOf(d)'
                => BookingOf(c) \in overlap',
           pc[c] # "idle" \/ pc[d] # "idle" \/ ~InFlight(c)' \/ ~InFlight(d)'
    PROVE  Apart(c, d)'
BY InvFacts DEF Grows, Calm, Apart, Holds, InFlight, BookingOf

\* A step of request c that is neither the start of a match nor its pick of a provider.
Local(c) ==
    /\ DOMAIN request' = Calls /\ DOMAIN entity' = Calls /\ DOMAIN bookingSet' = Calls
    /\ DOMAIN profile' = Calls /\ DOMAIN profileSet' = Calls
    /\ PCTyped'
    /\ Grows
    /\ \A d \in Calls \ {c} : Same(d)
    /\ Calm(c) /\ Steady(c)
    /\ pc[c] = "idle" /\ Holds(c)' =>
        \A d \in Calls \ {c} : Holds(d) /\ BookingOf(d) = BookingOf(c)' => BookingOf(d) \in overlap'
    /\ CallTyped(c)' /\ RequestOK(c)' /\ ObjectOK(c)' /\ FreshOK(c)'

LEMMA LocalKeeps ==
    ASSUME Inv, NEW c \in Calls, Local(c),
           \A d \in Calls \ {c} : Holds(d) /\ BookingOf(d) \notin overlap' =>
                FreshOK(d)' \/ booking'[BookingOf(d)] = booking[BookingOf(d)]
    PROVE  Asked' /\ Alone'
<1>1. \A d \in Calls \ {c} : Calm(d) /\ Steady(d)
  BY SameCalm DEF Local, Steady
<1>2. \A d \in Calls : Calm(d) /\ Steady(d)
  BY <1>1 DEF Local
<1>3. \A d \in Calls : CallTyped(d)' /\ RequestOK(d)' /\ ObjectOK(d)'
  <2>. SUFFICES ASSUME NEW d \in Calls \ {c}
                PROVE  CallTyped(d)' /\ RequestOK(d)' /\ ObjectOK(d)'
    BY DEF Local
  <2>1. Same(d) /\ Grows
    BY DEF Local
  <2>. QED
    BY <1>2, <2>1, InvFacts, TypedStays, RequestStays, ObjectStays
<1>4. \A d \in Calls : FreshOK(d)'
  <2>. SUFFICES ASSUME NEW d \in Calls \ {c} PROVE FreshOK(d)'
    BY DEF Local
  <2>1. Same(d) /\ Grows
    BY DEF Local
  <2>2. CASE FreshOK(d)'
    BY <2>2
  <2>3. CASE Holds(d) /\ BookingOf(d) \notin overlap' =>
                booking'[BookingOf(d)] = booking[BookingOf(d)]
    BY <2>1, <2>3, InvFacts, FreshStays
  <2>. QED
    BY <2>2, <2>3
<1>5. \A d \in Calls : PairOK(d)'
  BY <1>2, PairsStay
<1>6. \A d, e \in Calls : d # e => Apart(d, e)'
  <2>. SUFFICES ASSUME NEW d \in Calls, NEW e \in Calls, d # e PROVE Apart(d, e)'
    OBVIOUS
  <2>1. \A x \in Calls \ {c} : pc[x] = "idle" => ~InFlight(x)'
    BY DEF Local, Same, InFlight, Open
  <2>2. Grows /\ (d # c => Same(d)) /\ (e # c => Same(e))
    BY DEF Local
  <2>3. pc[d] = "idle" /\ Holds(d)' /\ Holds(e) /\ BookingOf(e) = BookingOf(d)'
            => BookingOf(e) \in overlap'
    BY <2>1 DEF Local, Holds
  <2>4. pc[e] = "idle" /\ Holds(e)' /\ Holds(d) /\ BookingOf(d) = BookingOf(e)'
            => BookingOf(d) \in overlap'
    BY <2>1 DEF Local, Holds
  <2>. QED
    BY <1>2, <2>1, <2>2, <2>3, <2>4, ApartStays
<1>. QED
  BY <1>3, <1>4, <1>5, <1>6 DEF Local, Asked, Alone

LEMMA StoredStays ==
    ASSUME Inv, UNCHANGED <<created, booking, versions>>, deleted' \subseteq Files,
           faults' \in 0..MaxFaults, overlap \subseteq overlap', overlap' \subseteq Bookings
    PROVE  Stored' /\ Agreed' /\ Grows
BY DEF Inv, Stored, RowsTyped, Agreed, Grows

\* A request that ends has nothing to save.
LEMMA ClosedLocal ==
    ASSUME Inv, NEW c \in Calls, pc'[c] \in {"committed", "failed", "lost"},
           DOMAIN request' = Calls, DOMAIN entity' = Calls, DOMAIN bookingSet' = Calls,
           DOMAIN profile' = Calls, DOMAIN profileSet' = Calls,
           PCTyped', Grows, \A d \in Calls \ {c} : Same(d), Steady(c), CallTyped(c)',
           request'[c].kind \in {"update", "processed"} => request'[c].arg \in Files
    PROVE  Local(c)
<1>1. ~InFlight(c)'
  BY DEF InFlight, Open
<1>2. RequestOK(c)' /\ ObjectOK(c)' /\ FreshOK(c)' /\ Calm(c)
  BY <1>1 DEF RequestOK, ObjectOK, FreshOK, Calm, Holds, InFlight, Open
<1>. QED
  BY <1>1, <1>2 DEF Local, Holds

\* What an arrival changes, whatever the endpoint.
LEMMA Arrived ==
    ASSUME Inv, NEW c \in Calls, NEW b \in Bookings, NEW user \in Users, NEW kind, NEW arg,
           Arrive(c, kind, b, user, arg)
    PROVE  /\ pc[c] = "idle" /\ kind \in Kinds /\ b \in created /\ bookingSet[c] = NoChange
           /\ request'[c].kind = kind /\ BookingOf(c)' = b /\ request'[c].arg = arg
           /\ request'[c].user = user /\ DOMAIN request'[c] = DOMAIN NoRequest
           /\ DOMAIN request' = Calls /\ \A d \in Calls \ {c} : request'[d] = request[d]
           /\ overlap \subseteq overlap' /\ overlap' \subseteq Bookings
           /\ \A d \in Calls \ {c} : Holds(d) /\ BookingOf(d) = b => b \in overlap'
           /\ Stored' /\ Agreed' /\ Grows
           /\ UNCHANGED <<created, booking, provider, deleted, bookingSet, profileSet, faults,
                          versions, reviews>>
<1>1. /\ pc[c] = "idle" /\ kind \in Kinds /\ b \in created
      /\ request' = [request EXCEPT ![c] = Request(kind, b, user, arg)]
      /\ overlap' = IF \E d \in Calls \ {c} : WorksOn(d, b) THEN overlap \cup {b} ELSE overlap
      /\ UNCHANGED <<created, booking, provider, deleted, bookingSet, profileSet, faults,
                     versions, reviews>>
  BY DEF Arrive, rows
<1>2. DOMAIN request' = Calls /\ request'[c] = Request(kind, b, user, arg)
      /\ \A d \in Calls \ {c} : request'[d] = request[d]
  BY <1>1, InvFacts
<1>3. /\ request'[c].kind = kind /\ BookingOf(c)' = b /\ request'[c].arg = arg
      /\ request'[c].user = user /\ DOMAIN request'[c] = DOMAIN NoRequest
  BY <1>2, RequestFacts DEF BookingOf
<1>4. /\ overlap \subseteq overlap' /\ overlap' \subseteq Bookings
      /\ \A d \in Calls \ {c} : Holds(d) /\ BookingOf(d) = b => b \in overlap'
  BY <1>1, InvFacts DEF WorksOn, Holds, RowsTyped
<1>5. Stored' /\ Agreed' /\ Grows
  BY <1>1, <1>4, InvFacts, StoredStays DEF RowsTyped
<1>. QED
  BY <1>1, <1>2, <1>3, <1>4, <1>5, InvFacts DEF RequestOK

\* An object that carries booking b as it is, but for what request of this kind changes.
Carries(object, kind, b, arg) ==
    /\ DOMAIN object \in {BookingColumns, BookingColumns \ {"aidServiceProfile"}}
    /\ \A k \in DOMAIN object \ Duty[kind] : object[k] = booking[b][k]
    /\ kind = "settle" =>
        /\ "aidServiceProfile" \notin DOMAIN object
        /\ object.isMatched = booking[b].isMatched
        /\ object.paymentStatus = "Paid" <=> object.bookingStatus = InProgress
    /\ kind # "settle" => "aidServiceProfile" \in DOMAIN object
    /\ kind = "update" => /\ object.rawMediaFiles = arg /\ arg \in Files
                          /\ object.bookingStatus = "Cancelled"
                          /\ booking[b].bookingStatus = "Pending"
    /\ kind = "processed" => object.processedMediaFiles = arg /\ arg \in Files
    /\ kind \in {"rate", "confirmProvider"} => booking[b].aidServiceProfile # NoProvider
    /\ kind = "rate" => arg \in Ratings

LEMMA HoldingLocal ==
    ASSUME Inv, NEW c \in Calls, NEW b \in Bookings, NEW user \in Users, NEW arg, NEW object,
           NEW kind \in {"update", "processed", "confirmProvider", "rate", "settle"},
           Arrive(c, kind, b, user, arg), Saving(c, object), Carries(object, kind, b, arg),
           DOMAIN profile' = Calls, \A d \in Calls \ {c} : profile'[d] = profile[d]
    PROVE  Local(c) /\ Stored' /\ Agreed'
<1>1. /\ pc[c] = "idle" /\ kind \in Kinds /\ b \in created /\ bookingSet'[c] = NoChange
      /\ request'[c].kind = kind /\ BookingOf(c)' = b /\ request'[c].arg = arg
      /\ DOMAIN request'[c] = DOMAIN NoRequest /\ request'[c].user \in Users
  BY Arrived
<1>2. /\ DOMAIN request' = Calls /\ \A d \in Calls \ {c} : request'[d] = request[d]
      /\ UNCHANGED <<created, booking, bookingSet, profileSet, versions>>
      /\ Stored' /\ Agreed' /\ Grows
  BY Arrived
<1>3. /\ pc' = [pc EXCEPT ![c] = "reload"] /\ entity' = [entity EXCEPT ![c] = object]
  BY DEF Saving
<1>4. /\ pc'[c] = "reload" /\ entity'[c] = object /\ DOMAIN entity' = Calls
      /\ \A d \in Calls \ {c} : pc'[d] = pc[d] /\ entity'[d] = entity[d]
  BY <1>3, InvFacts DEF PCTyped
<1>5. PCTyped' /\ Steady(c) /\ InFlight(c)' /\ Holds(c)'
  BY <1>1, <1>3, <1>4, InvFacts DEF PCTyped, Steady, InFlight, Holds, Open
<1>6. \A d \in Calls \ {c} : Same(d)
  BY <1>2, <1>4 DEF Same
<1>7. booking[b] \in versions[b] /\ booking[b].aidServiceProfile \in Providers \cup {NoProvider}
  BY <1>1 DEF Inv, Stored
<1>8. DOMAIN object \subseteq BookingColumns
  BY DEF Carries
<1>9. CallTyped(c)'
  BY <1>1, <1>2, <1>4, <1>8, InvFacts, NoChangeEmpty DEF CallTyped, BookingOf
<1>10. /\ Own(c)' = Duty[kind] /\ Current(c)' = booking[b]
       /\ Settles(c)' <=> kind = "settle"
  BY <1>1, <1>2 DEF Own, Current, Settles, Settlements
<1>11. RequestOK(c)'
  <2>1. kind = "rate" => Rated(c)' \in Providers
    BY <1>1, <1>4, <1>7, Duties DEF Carries, Rated, BookingColumns
  <2>. QED
    BY <1>1, <1>4, <2>1 DEF RequestOK, Carries, IsRating
<1>12. ObjectOK(c)'
  <2>1. "aidServiceProfile" \in DOMAIN object =>
            object.aidServiceProfile \in Providers \cup {NoProvider}
    BY <1>7, Duties DEF Carries
  <2>2. \A k \in DOMAIN object \ Own(c)' : object[k] = booking[b][k]
    BY <1>10 DEF Carries
  <2>3. b \in created' /\ booking[b] \in versions'[b]
    BY <1>1, <1>2, <1>7
  <2>. QED
    BY <1>1, <1>4, <1>10, <2>1, <2>2, <2>3, NoChangeEmpty DEF ObjectOK, Carries
<1>13. FreshOK(c)'
  <2>1. b \notin overlap' /\ booking[b].aidServiceProfile # NoProvider => Yes(booking[b].isMatched)
    BY <1>2 DEF Agreed
  <2>. QED
    BY <1>1, <1>4, <1>10, <2>1, NoChangeEmpty DEF FreshOK, Carries
<1>14. \A d \in Calls \ {c} : Holds(d) /\ BookingOf(d) = BookingOf(c)' => BookingOf(d) \in overlap'
  BY <1>1, Arrived
<1>15. Calm(c)
  BY <1>1 DEF Calm
<1>. QED
  BY <1>2, <1>4, <1>5, <1>6, <1>9, <1>11, <1>12, <1>13, <1>14, <1>15, InvFacts DEF Local

\* The object a handler saves: the columns it names, and all others as they were read.
LEMMA Spread ==
    ASSUME NEW b, NEW dto, DOMAIN dto \subseteq BookingColumns
    PROVE  LET object == Overlay(Loaded(b, WithProvider), dto)
           IN  /\ DOMAIN object = BookingColumns
               /\ \A k \in DOMAIN dto : object[k] = dto[k]
               /\ \A k \in BookingColumns \ DOMAIN dto : object[k] = booking[b][k]
BY OverlayFacts, LoadedFacts

LEMMA SpreadUnmatched ==
    ASSUME NEW b, NEW dto, DOMAIN dto \subseteq BookingColumns \ {"aidServiceProfile"}
    PROVE  LET object == Overlay(Loaded(b, {}), dto)
           IN  /\ DOMAIN object = BookingColumns \ {"aidServiceProfile"}
               /\ \A k \in DOMAIN dto : object[k] = dto[k]
               /\ \A k \in DOMAIN object \ DOMAIN dto : object[k] = booking[b][k]
<1>1. PICK object : object = Loaded(b, {})
  OBVIOUS
<1>2. /\ DOMAIN object = BookingColumns \ {"aidServiceProfile"}
      /\ \A k \in BookingColumns \ {"aidServiceProfile"} : object[k] = booking[b][k]
  BY <1>1, LoadedFacts
<1>3. /\ DOMAIN Overlay(object, dto) = DOMAIN object
      /\ \A k \in DOMAIN dto : Overlay(object, dto)[k] = dto[k]
      /\ \A k \in DOMAIN object \ DOMAIN dto : Overlay(object, dto)[k] = object[k]
  BY <1>2, OverlayFacts
<1>. QED
  BY <1>1, <1>2, <1>3

LEMMA CancelCarries ==
    ASSUME NEW b, NEW file \in Files, booking[b].bookingStatus = "Pending"
    PROVE  Carries(Overlay(Loaded(b, WithProvider), CancelDto(file)), "update", b, file)
<1>1. DOMAIN CancelDto(file) = {"bookingStatus", "rawMediaFiles"}
      /\ CancelDto(file).bookingStatus = "Cancelled" /\ CancelDto(file).rawMediaFiles = file
  BY DEF CancelDto
<1>2. {"bookingStatus", "rawMediaFiles"} \subseteq BookingColumns \ {"aidServiceProfile"}
  BY DEF BookingColumns
<1>4. PICK object : object = Overlay(Loaded(b, WithProvider), CancelDto(file))
  OBVIOUS
<1>5. /\ DOMAIN object = BookingColumns
      /\ \A k \in {"bookingStatus", "rawMediaFiles"} : object[k] = CancelDto(file)[k]
      /\ \A k \in BookingColumns \ {"bookingStatus", "rawMediaFiles"} : object[k] = booking[b][k]
  BY <1>1, <1>2, <1>4, Spread
<1>. QED
  BY <1>1, <1>4, <1>5, Duties DEF Carries, BookingColumns

LEMMA ColumnCarries ==
    ASSUME NEW b, NEW kind \in {"processed", "confirmProvider", "rate"}, NEW dto,
           NEW column, NEW arg, DOMAIN dto = {column}, Duty[kind] = {column},
           kind = "processed" => dto.processedMediaFiles = arg /\ arg \in Files,
           kind = "rate" => arg \in Ratings,
           kind # "processed" => booking[b].aidServiceProfile # NoProvider
    PROVE  Carries(Overlay(Loaded(b, WithProvider), dto), kind, b, arg)
<1>1. column \in BookingColumns \ {"aidServiceProfile"}
  BY Duties DEF BookingColumns
<1>3. PICK object : object = Overlay(Loaded(b, WithProvider), dto)
  OBVIOUS
<1>4. /\ DOMAIN object = BookingColumns /\ object[column] = dto[column]
      /\ \A k \in BookingColumns \ {column} : object[k] = booking[b][k]
  BY <1>1, <1>3, Spread
<1>5. kind = "processed" => object.processedMediaFiles = arg
  BY <1>4, Duties
<1>. QED
  BY <1>3, <1>4, <1>5 DEF Carries, BookingColumns

LEMMA SettledFacts ==
    ASSUME NEW b, NEW status
    PROVE  LET object == SettledAs(b, status)
           IN  /\ DOMAIN object = BookingColumns \ {"aidServiceProfile"}
               /\ object.paymentStatus = status
               /\ object.bookingStatus = IF status = "Paid" THEN InProgress ELSE "Cancelled"
               /\ \A k \in BookingColumns \ {"aidServiceProfile", "bookingStatus", "paymentStatus"} :
                    object[k] = booking[b][k]
<1>. DEFINE dto == [bookingStatus |-> IF status = "Paid" THEN InProgress ELSE "Cancelled",
                    paymentStatus |-> status]
<1>1. /\ DOMAIN dto = {"bookingStatus", "paymentStatus"} /\ dto.paymentStatus = status
      /\ dto.bookingStatus = IF status = "Paid" THEN InProgress ELSE "Cancelled"
  OBVIOUS
<1>2. SettledAs(b, status) = Overlay(Loaded(b, {}), dto)
  BY Zenon DEF SettledAs, InProgress
<1>. HIDE DEF dto
<1>3. {"bookingStatus", "paymentStatus"} \subseteq BookingColumns \ {"aidServiceProfile"}
  BY DEF BookingColumns
<1>4. /\ DOMAIN SettledAs(b, status) = BookingColumns \ {"aidServiceProfile"}
      /\ \A k \in DOMAIN dto : SettledAs(b, status)[k] = dto[k]
      /\ \A k \in DOMAIN SettledAs(b, status) \ DOMAIN dto : SettledAs(b, status)[k] = booking[b][k]
  BY <1>1, <1>2, <1>3, SpreadUnmatched
<1>. QED
  BY <1>1, <1>4

LEMMA SettledCarries ==
    ASSUME NEW b, NEW arg
    PROVE  Carries(SettledAs(b, "Cancelled"), "settle", b, arg)
BY SettledFacts, Duties, Progress DEF Carries, BookingColumns

LEMMA HandlersLocal ==
    ASSUME Inv, NEW c \in Calls, NEW b \in Bookings
    PROVE  /\ \A f \in Files : UpdateBooking(c, b, f) => Local(c) /\ Stored' /\ Agreed'
           /\ \A f \in Files : UpdateProcessedFiles(c, b, f) => Local(c) /\ Stored' /\ Agreed'
           /\ \A u \in Users : ConfirmByProvider(c, b, u) => Local(c) /\ Stored' /\ Agreed'
           /\ \A u \in Users, r \in Ratings :
                RateBooking(c, b, u, r) => Local(c) /\ Stored' /\ Agreed'
           /\ SettleOtherwise(c, b, "Cancelled") => Local(c) /\ Stored' /\ Agreed'
<1>0. OwnerOf[b] \in Users
  BY BookingAssumption
<1>1. ASSUME NEW f \in Files, UpdateBooking(c, b, f) PROVE Local(c) /\ Stored' /\ Agreed'
  <2>1. /\ Arrive(c, "update", b, OwnerOf[b], f) /\ UNCHANGED profile
        /\ Saving(c, Overlay(Loaded(b, WithProvider), CancelDto(f)))
        /\ booking[b].bookingStatus = "Pending"
    BY <1>1 DEF UpdateBooking
  <2>. QED
    BY <1>0, <2>1, CancelCarries, HoldingLocal, InvFacts
<1>2. ASSUME NEW f \in Files, UpdateProcessedFiles(c, b, f) PROVE Local(c) /\ Stored' /\ Agreed'
  <2>. DEFINE dto == [processedMediaFiles |-> f]
  <2>1. DOMAIN dto = {"processedMediaFiles"} /\ dto.processedMediaFiles = f
    OBVIOUS
  <2>2. /\ Arrive(c, "processed", b, OwnerOf[b], f) /\ UNCHANGED profile
        /\ Saving(c, Overlay(Loaded(b, WithProvider), dto))
    BY <1>2 DEF UpdateProcessedFiles
  <2>. HIDE DEF dto
  <2>3. Carries(Overlay(Loaded(b, WithProvider), dto), "processed", b, f)
    BY <2>1, Duties, ColumnCarries
  <2>. QED
    BY <1>0, <2>2, <2>3, HoldingLocal, InvFacts
<1>3. ASSUME NEW u \in Users, ConfirmByProvider(c, b, u) PROVE Local(c) /\ Stored' /\ Agreed'
  <2>. DEFINE dto == [confirmedByProvider |-> TRUE]
  <2>1. DOMAIN dto = {"confirmedByProvider"}
    OBVIOUS
  <2>2. /\ Arrive(c, "confirmProvider", b, u, NoFile) /\ UNCHANGED profile
        /\ Saving(c, Overlay(Loaded(b, WithProvider), dto))
        /\ booking[b].aidServiceProfile # NoProvider
    BY <1>3 DEF ConfirmByProvider, Provides
  <2>. HIDE DEF dto
  <2>3. Carries(Overlay(Loaded(b, WithProvider), dto), "confirmProvider", b, NoFile)
    BY <2>1, <2>2, Duties, ColumnCarries
  <2>. QED
    BY <2>2, <2>3, HoldingLocal, InvFacts
<1>4. ASSUME NEW u \in Users, NEW r \in Ratings, RateBooking(c, b, u, r)
      PROVE  Local(c) /\ Stored' /\ Agreed'
  <2>. DEFINE dto == [rating |-> r]
  <2>1. DOMAIN dto = {"rating"}
    OBVIOUS
  <2>2. /\ Arrive(c, "rate", b, u, r)
        /\ Saving(c, Overlay(Loaded(b, WithProvider), dto))
        /\ booking[b].aidServiceProfile # NoProvider
        /\ FoldsIn(c, booking[b].aidServiceProfile, r)
    BY <1>4 DEF RateBooking
  <2>. HIDE DEF dto
  <2>3. Carries(Overlay(Loaded(b, WithProvider), dto), "rate", b, r)
    BY <2>1, <2>2, Duties, ColumnCarries
  <2>4. DOMAIN profile' = Calls /\ \A d \in Calls \ {c} : profile'[d] = profile[d]
    BY <2>2, InvFacts DEF FoldsIn
  <2>. QED
    BY <2>2, <2>3, <2>4, HoldingLocal
<1>5. ASSUME SettleOtherwise(c, b, "Cancelled") PROVE Local(c) /\ Stored' /\ Agreed'
  <2>1. /\ Arrive(c, "settle", b, OwnerOf[b], NoFile) /\ UNCHANGED profile
        /\ Saving(c, SettledAs(b, "Cancelled"))
    BY <1>5 DEF SettleOtherwise
  <2>. QED
    BY <1>0, <2>1, SettledCarries, HoldingLocal, InvFacts
<1>. QED
  BY <1>1, <1>2, <1>3, <1>4, <1>5

\* A request that is refused.
LEMMA RefusedLocal ==
    ASSUME Inv, NEW c \in Calls, NEW b \in Bookings, NEW user \in Users, NEW arg,
           NEW kind \in {"update", "confirmProvider", "confirmUser", "rate"},
           kind = "update" => arg \in Files,
           Arrive(c, kind, b, user, arg), Throws(c)
    PROVE  Local(c) /\ Stored' /\ Agreed'
<1>1. /\ pc[c] = "idle" /\ kind \in Kinds /\ b \in created /\ bookingSet[c] = NoChange
      /\ request'[c].kind = kind /\ BookingOf(c)' = b /\ request'[c].arg = arg
      /\ DOMAIN request'[c] = DOMAIN NoRequest /\ request'[c].user \in Users
  BY Arrived
<1>2. /\ DOMAIN request' = Calls /\ \A d \in Calls \ {c} : request'[d] = request[d]
      /\ UNCHANGED <<bookingSet, profileSet>> /\ Stored' /\ Agreed' /\ Grows
  BY Arrived
<1>3. /\ pc' = [pc EXCEPT ![c] = "failed"] /\ UNCHANGED <<entity, profile>>
  BY DEF Throws
<1>4. pc'[c] = "failed" /\ PCTyped' /\ \A d \in Calls \ {c} : Same(d)
  BY <1>2, <1>3, InvFacts DEF PCTyped, Same
<1>5. CallTyped(c)' /\ Steady(c)
  BY <1>1, <1>2, <1>3, InvFacts DEF CallTyped, BookingOf, Steady
<1>6. request'[c].kind \in {"update", "processed"} => request'[c].arg \in Files
  BY <1>1
<1>7. /\ DOMAIN entity' = Calls /\ DOMAIN bookingSet' = Calls
      /\ DOMAIN profile' = Calls /\ DOMAIN profileSet' = Calls
  BY <1>2, <1>3, InvFacts
<1>. QED
  BY <1>2, <1>4, <1>5, <1>6, <1>7, ClosedLocal

LEMMA RefuseProcessedLocal ==
    ASSUME Inv, NEW c \in Calls, NEW b, NEW file \in Files, RefuseProcessed(c, b, file)
    PROVE  Local(c) /\ Stored' /\ Agreed'
<1>1. /\ pc[c] = "idle" /\ "processed" \in Kinds
      /\ request' = [request EXCEPT ![c] = AboutNone("processed", file)]
      /\ pc' = [pc EXCEPT ![c] = "failed"] /\ deleted' = deleted \cup {file}
      /\ UNCHANGED <<entity, profile, bookingSet, profileSet, created, booking, versions,
                     overlap, faults>>
  BY DEF RefuseProcessed, Throws
<1>2. Stored' /\ Agreed' /\ Grows
  BY <1>1, InvFacts, StoredStays DEF RowsTyped
<1>3. DOMAIN request' = Calls /\ request'[c] = AboutNone("processed", file)
      /\ \A d \in Calls \ {c} : request'[d] = request[d]
  BY <1>1, InvFacts
<1>4. pc'[c] = "failed" /\ PCTyped' /\ \A d \in Calls \ {c} : Same(d)
  BY <1>1, <1>3, InvFacts DEF PCTyped, Same
<1>5. CallTyped(c)' /\ Steady(c)
  BY <1>1, <1>3, InvFacts, AboutNoneFacts DEF CallTyped, BookingOf, Steady
<1>6. request'[c].arg \in Files
  BY <1>3, AboutNoneFacts
<1>7. /\ DOMAIN entity' = Calls /\ DOMAIN bookingSet' = Calls
      /\ DOMAIN profile' = Calls /\ DOMAIN profileSet' = Calls
  BY <1>1, InvFacts
<1>. QED
  BY <1>2, <1>3, <1>4, <1>5, <1>6, <1>7, ClosedLocal

\* A rating of the official provider has no booking.
LEMMA ArrivedApp ==
    ASSUME Inv, NEW c \in Calls, NEW rating, ArriveApp(c, rating)
    PROVE  /\ pc[c] = "idle" /\ "rateApp" \in Kinds
           /\ request'[c].kind = "rateApp" /\ request'[c].arg = rating
           /\ BookingOf(c)' \in Bookings /\ request'[c].user \in Users
           /\ DOMAIN request'[c] = DOMAIN NoRequest
           /\ DOMAIN request' = Calls /\ \A d \in Calls \ {c} : request'[d] = request[d]
           /\ Stored' /\ Agreed' /\ Grows
           /\ UNCHANGED <<created, booking, provider, deleted, entity, bookingSet, profileSet,
                          faults, versions, overlap, reviews, uses>>
<1>1. /\ pc[c] = "idle" /\ "rateApp" \in Kinds
      /\ request' = [request EXCEPT ![c] = AboutNone("rateApp", rating)]
      /\ UNCHANGED <<created, booking, provider, deleted, entity, bookingSet, profileSet,
                     faults, versions, overlap, reviews, uses>>
  BY DEF ArriveApp, rows
<1>2. DOMAIN request' = Calls /\ request'[c] = AboutNone("rateApp", rating)
      /\ \A d \in Calls \ {c} : request'[d] = request[d]
  BY <1>1, InvFacts
<1>3. Stored' /\ Agreed' /\ Grows
  BY <1>1, InvFacts, StoredStays DEF RowsTyped
<1>. QED
  BY <1>1, <1>2, <1>3, AboutNoneFacts DEF BookingOf

LEMMA RefuseRateAppLocal ==
    ASSUME Inv, NEW c \in Calls, NEW rating, RefuseRateApp(c, rating)
    PROVE  Local(c) /\ Stored' /\ Agreed'
<1>1. /\ ArriveApp(c, rating) /\ pc' = [pc EXCEPT ![c] = "failed"] /\ UNCHANGED profile
  BY DEF RefuseRateApp
<1>2. /\ pc[c] = "idle" /\ "rateApp" \in Kinds /\ request'[c].kind = "rateApp"
      /\ BookingOf(c)' \in Bookings /\ request'[c].user \in Users
      /\ DOMAIN request'[c] = DOMAIN NoRequest
  BY <1>1, ArrivedApp
<1>3. /\ DOMAIN request' = Calls /\ \A d \in Calls \ {c} : request'[d] = request[d]
      /\ Stored' /\ Agreed' /\ Grows /\ UNCHANGED <<entity, bookingSet, profileSet>>
  BY <1>1, ArrivedApp
<1>4. pc'[c] = "failed" /\ PCTyped' /\ \A d \in Calls \ {c} : Same(d)
  BY <1>1, <1>3, InvFacts DEF PCTyped, Same
<1>5. CallTyped(c)' /\ Steady(c)
  BY <1>2, <1>3, InvFacts DEF CallTyped, BookingOf, Steady
<1>6. /\ DOMAIN entity' = Calls /\ DOMAIN bookingSet' = Calls
      /\ DOMAIN profile' = Calls /\ DOMAIN profileSet' = Calls
  BY <1>1, <1>3, InvFacts
<1>. QED
  BY <1>2, <1>3, <1>4, <1>5, <1>6, ClosedLocal

LEMMA RateAppLocal ==
    ASSUME Inv, NEW c \in Calls, NEW rating \in Ratings, RateApp(c, rating)
    PROVE  Local(c) /\ Stored' /\ Agreed'
<1>1. /\ ArriveApp(c, rating) /\ pc' = [pc EXCEPT ![c] = "reloadProfile"]
      /\ Official \in Providers /\ FoldsIn(c, Official, rating)
  BY BookingAssumption DEF RateApp
<1>2. /\ pc[c] = "idle" /\ "rateApp" \in Kinds /\ request'[c].kind = "rateApp"
      /\ request'[c].arg = rating
      /\ BookingOf(c)' \in Bookings /\ request'[c].user \in Users
      /\ DOMAIN request'[c] = DOMAIN NoRequest
  BY <1>1, ArrivedApp
<1>3. /\ DOMAIN request' = Calls /\ \A d \in Calls \ {c} : request'[d] = request[d]
      /\ Stored' /\ Agreed' /\ Grows /\ UNCHANGED <<entity, bookingSet, profileSet>>
  BY <1>1, ArrivedApp
<1>4. DOMAIN profile' = Calls /\ \A d \in Calls \ {c} : profile'[d] = profile[d]
  BY <1>1, InvFacts DEF FoldsIn
<1>5. pc'[c] = "reloadProfile" /\ PCTyped' /\ \A d \in Calls \ {c} : Same(d)
  BY <1>1, <1>3, <1>4, InvFacts DEF PCTyped, Same, Open
<1>6. CallTyped(c)' /\ Steady(c)
  BY <1>2, <1>3, <1>5, InvFacts DEF CallTyped, BookingOf, Steady
<1>7. ~Holds(c)' /\ Rated(c)' = Official
  BY <1>2 DEF Holds, Rated
<1>8. RequestOK(c)' /\ ObjectOK(c)' /\ FreshOK(c)' /\ Calm(c)
  BY <1>1, <1>2, <1>5, <1>7 DEF RequestOK, ObjectOK, FreshOK, Calm, IsRating
<1>. QED
  BY <1>3, <1>4, <1>5, <1>6, <1>7, <1>8, InvFacts DEF Local

\* A request goes on from what it has read.
LEMMA MoveLocal ==
    ASSUME Inv, NEW c \in Calls, NEW from \in {"update", "reloadProfile", "updateProfile"}, NEW to,
           pc[c] = from, pc' = [pc EXCEPT ![c] = to],
           to = "commit" \/ (IsRating(c) /\ to \in {"reloadProfile", "updateProfile"}),
           UNCHANGED <<created, booking, deleted, faults, versions, overlap, request, entity,
                       bookingSet, profile>>,
           DOMAIN profileSet' = Calls, \A d \in Calls \ {c} : profileSet'[d] = profileSet[d],
           DOMAIN profileSet'[c] \subseteq DOMAIN NewProvider
    PROVE  Local(c) /\ Stored' /\ Agreed'
<1>1. Stored' /\ Agreed' /\ Grows
  BY InvFacts, StoredStays DEF RowsTyped
<1>2. pc'[c] = to /\ PCTyped' /\ \A d \in Calls \ {c} : Same(d)
  BY InvFacts DEF PCTyped, Same, Open
<1>3. InFlight(c) /\ InFlight(c)' /\ (Holds(c)' <=> Holds(c))
  BY <1>2 DEF InFlight, Open, Holds
<1>4. CallTyped(c)' /\ Steady(c) /\ Calm(c)
  BY <1>2, <1>3, InvFacts DEF CallTyped, BookingOf, Steady, Calm
<1>5. RequestOK(c)'
  BY <1>2, <1>3, InvFacts DEF RequestOK, Steady, IsRating, Rated, BookingOf
<1>6. ObjectOK(c)'
  <2>1. ObjectOK(c) /\ pc[c] # "pick"
    BY InvFacts
  <2>. QED
    BY <1>3, <2>1 DEF ObjectOK, BookingOf, Own, Settles
<1>7. FreshOK(c)'
  <2>1. Settles(c) => pc[c] = "update" /\ to = "commit"
    BY InvFacts DEF RequestOK, Settles, Settlements, IsRating
  <2>. QED
    BY <1>2, <1>3, <2>1, InvFacts DEF FreshOK, BookingOf, Own, Settles, Current
<1>. QED
  BY <1>1, <1>2, <1>4, <1>5, <1>6, <1>7, InvFacts DEF Local

LEMMA MovesLocal ==
    ASSUME Inv, NEW c \in Calls,
           Update(c) \/ ReloadProfile(c) \/ UpdateProfile(c)
    PROVE  Local(c) /\ Stored' /\ Agreed'
<1>1. CASE Update(c)
  <2>1. /\ pc[c] = "update" /\ pc' = [pc EXCEPT ![c] = AfterBooking(c)]
        /\ UNCHANGED <<created, booking, deleted, faults, versions, overlap, request, entity,
                       bookingSet, profile, profileSet>>
    BY <1>1 DEF Update, Step, rows, history
  <2>2. AfterBooking(c) = "commit" \/ (IsRating(c) /\ AfterBooking(c) = "reloadProfile")
    BY DEF AfterBooking, IsRating
  <2>. QED
    BY <2>1, <2>2, MoveLocal, InvFacts DEF CallTyped
<1>2. CASE ReloadProfile(c)
  <2>1. /\ pc[c] = "reloadProfile" /\ pc' = [pc EXCEPT ![c] = "updateProfile"]
        /\ profileSet' = [profileSet EXCEPT ![c] = Changed(profile[c], provider[Rated(c)])]
        /\ UNCHANGED <<created, booking, deleted, faults, versions, overlap, request, entity,
                       bookingSet, profile>>
    BY <1>2 DEF ReloadProfile, Step, rows, history
  <2>2. IsRating(c) /\ DOMAIN profile[c] = DOMAIN NewProvider
    BY <2>1, InvFacts DEF RequestOK, ProfileOK, InFlight, Open
  <2>3. DOMAIN Changed(profile[c], provider[Rated(c)]) \subseteq DOMAIN NewProvider
    BY <2>2, ChangedFacts
  <2>4. /\ DOMAIN profileSet' = Calls /\ \A d \in Calls \ {c} : profileSet'[d] = profileSet[d]
        /\ DOMAIN profileSet'[c] \subseteq DOMAIN NewProvider
    BY <2>1, <2>3, InvFacts
  <2>. QED
    BY <2>1, <2>2, <2>4, MoveLocal
<1>3. CASE UpdateProfile(c)
  <2>1. /\ pc[c] = "updateProfile" /\ pc' = [pc EXCEPT ![c] = "commit"]
        /\ UNCHANGED <<created, booking, deleted, faults, versions, overlap, request, entity,
                       bookingSet, profile, profileSet>>
    BY <1>3 DEF UpdateProfile, Step, rows, history
  <2>. QED
    BY <2>1, MoveLocal, InvFacts DEF CallTyped
<1>. QED
  BY <1>1, <1>2, <1>3

LEMMA ReloadLocal ==
    ASSUME Inv, NEW c \in Calls, Reload(c) PROVE Local(c) /\ Stored' /\ Agreed'
<1>. DEFINE changes == Changed(entity[c], booking[BookingOf(c)])
            to == IF changes = NoChange THEN AfterBooking(c) ELSE "update"
<1>1. /\ pc[c] = "reload" /\ pc' = [pc EXCEPT ![c] = to]
      /\ bookingSet' = [bookingSet EXCEPT ![c] = changes]
      /\ UNCHANGED <<created, booking, deleted, faults, versions, overlap, request, entity,
                     profile, profileSet>>
  BY DEF Reload, Step, rows, history
<1>2. PICK set : set = changes
  OBVIOUS
<1>3. /\ DOMAIN set \subseteq DOMAIN entity[c]
      /\ \A k \in DOMAIN entity[c] : k \in DOMAIN set <=> entity[c][k] # Current(c)[k]
      /\ \A k \in DOMAIN set : set[k] = entity[c][k]
  BY <1>2, ChangedFacts DEF Current
<1>4. to \in {"update", "commit"} \/ (IsRating(c) /\ to = "reloadProfile")
  BY DEF AfterBooking, IsRating
<1>. HIDE DEF to, changes
<1>5. Stored' /\ Agreed' /\ Grows
  BY <1>1, InvFacts, StoredStays DEF RowsTyped
<1>6. /\ pc'[c] = to /\ PCTyped' /\ bookingSet'[c] = set /\ DOMAIN bookingSet' = Calls
      /\ \A d \in Calls \ {c} : Same(d)
  BY <1>1, <1>2, <1>4, InvFacts DEF PCTyped, Same, Open
<1>7. /\ InFlight(c) /\ InFlight(c)' /\ Holds(c) /\ Holds(c)'
  BY <1>1, <1>4, <1>6, InvFacts DEF InFlight, Open, Holds, RequestOK
<1>8. CallTyped(c)' /\ Steady(c) /\ Calm(c)
  BY <1>1, <1>3, <1>4, <1>6, <1>7, InvFacts DEF CallTyped, BookingOf, Steady, Calm
<1>9. RequestOK(c)'
  BY <1>1, <1>4, <1>6, <1>7, InvFacts DEF RequestOK, Steady, IsRating, Rated, BookingOf, Holds
<1>10. ObjectOK(c)'
  <2>1. ObjectOK(c) /\ pc[c] # "pick"
    BY <1>1, InvFacts
  <2>2. /\ entity'[c] = entity[c] /\ request'[c] = request[c] /\ UNCHANGED <<created, versions>>
        /\ Own(c)' = Own(c) /\ (Settles(c)' <=> Settles(c)) /\ BookingOf(c)' = BookingOf(c)
    BY <1>1 DEF Own, Settles, BookingOf
  <2>. QED
    BY <1>3, <1>6, <1>7, <2>1, <2>2 DEF ObjectOK
<1>11. FreshOK(c)'
  <2>1. SUFFICES ASSUME BookingOf(c) \notin overlap PROVE FreshOK(c)'
    BY <1>1 DEF FreshOK, BookingOf
  <2>2. Current(c)' = Current(c) /\ Own(c)' = Own(c) /\ (Settles(c)' <=> Settles(c))
        /\ entity'[c] = entity[c] /\ request'[c] = request[c]
    BY <1>1 DEF Current, BookingOf, Own, Settles
  <2>3. DOMAIN set \subseteq Own(c)
    BY <1>3, <1>7, <2>1, InvFacts DEF FreshOK
  <2>4. Settles(c) => {"bookingStatus", "paymentStatus", "isMatched"} \subseteq DOMAIN entity[c]
    BY <1>7, InvFacts DEF ObjectOK, BookingColumns
  <2>5. Settles(c) => /\ \A k \in Statuses : k \in DOMAIN set \/ Current(c)[k] = entity[c][k]
                      /\ "isMatched" \in DOMAIN set => Yes(entity[c].isMatched)
                      /\ Yes(entity[c].isMatched) =>
                            "isMatched" \in DOMAIN set \/ Yes(Current(c).isMatched)
    BY <1>1, <1>3, <1>7, <2>1, <2>4, InvFacts DEF FreshOK, Statuses
  <2>6. pc'[c] # "reload"
    BY <1>4, <1>6
  <2>. QED
    BY <1>6, <1>7, <2>1, <2>2, <2>3, <2>5, <2>6, InvFacts DEF FreshOK
<1>. QED
  BY <1>1, <1>5, <1>6, <1>7, <1>8, <1>9, <1>10, <1>11, InvFacts DEF Local

-----------------------------------------------------------------------------
(* Steps of no request, of a settlement and its match, and of all requests. *)

LEMMA CreateKeeps ==
    ASSUME Inv, NEW b \in Bookings, NEW file, CreateBooking(b, file)
    PROVE  Stored' /\ Asked' /\ Alone' /\ Agreed'
<1>1. /\ b \notin created /\ created' = created \cup {b}
      /\ booking' = [booking EXCEPT ![b] = NewBooking(file)]
      /\ versions' = [versions EXCEPT ![b] = {NewBooking(file)}]
      /\ UNCHANGED <<pc, request, entity, bookingSet, profile, profileSet, deleted, faults, overlap>>
  BY DEF CreateBooking, memory
<1>2. /\ versions[b] = {} /\ booking'[b] = NewBooking(file) /\ versions'[b] = {NewBooking(file)}
      /\ DOMAIN booking' = Bookings /\ DOMAIN versions' = Bookings
      /\ \A x \in Bookings \ {b} : booking'[x] = booking[x] /\ versions'[x] = versions[x]
  BY <1>1 DEF Inv, Stored, RowsTyped
<1>3. Stored'
  BY <1>1, <1>2, NewBookingFacts DEF Inv, Stored, RowsTyped
<1>4. Agreed'
  BY <1>1, <1>2, NewBookingFacts, Progress DEF Inv, Agreed
<1>5. Grows /\ \A d \in Calls : Same(d)
  BY <1>1, <1>2 DEF Grows, Same
<1>6. \A d \in Calls : Calm(d) /\ Steady(d)
  BY <1>5, SameCalm DEF Steady
<1>7. \A d \in Calls : CallTyped(d)' /\ RequestOK(d)' /\ ObjectOK(d)'
  BY <1>5, <1>6, InvFacts, TypedStays, RequestStays, ObjectStays
<1>8. \A d \in Calls : FreshOK(d)'
  <2>. SUFFICES ASSUME NEW d \in Calls PROVE FreshOK(d)'
    OBVIOUS
  <2>1. Holds(d) => booking'[BookingOf(d)] = booking[BookingOf(d)]
    BY <1>1, <1>2, InvFacts DEF ObjectOK
  <2>. QED
    BY <1>5, <2>1, InvFacts, FreshStays
<1>9. \A d, e \in Calls : d # e => Apart(d, e)'
  BY <1>1, InvFacts DEF Apart, Holds, InFlight, BookingOf
<1>10. \A d \in Calls : PairOK(d)'
  BY <1>6, PairsStay
<1>. QED
  BY <1>1, <1>3, <1>4, <1>7, <1>8, <1>9, <1>10 DEF Inv, Asked, PCTyped, Alone

LEMMA CreateFailsKeeps ==
    ASSUME Inv, NEW file \in Files, CreateFails(file)
    PROVE  Stored' /\ Asked' /\ Alone' /\ Agreed'
<1>1. /\ faults < MaxFaults /\ faults' = faults + 1 /\ deleted' = deleted \cup {file}
      /\ UNCHANGED <<created, booking, versions, overlap, pc, request, entity, bookingSet, profile,
                     profileSet>>
  BY DEF CreateFails, memory
<1>2. faults' \in 0..MaxFaults
  <2>1. faults \in 0..MaxFaults /\ MaxFaults \in Nat
    BY BookingAssumption DEF Inv, Stored, RowsTyped
  <2>. QED
    BY <1>1, <2>1
<1>3. Stored' /\ Agreed' /\ Grows
  BY <1>1, <1>2, StoredStays DEF Inv, Stored, RowsTyped
<1>4. \A d \in Calls : Same(d)
  BY <1>1 DEF Same
<1>5. \A d \in Calls : Calm(d) /\ Steady(d)
  BY <1>4, SameCalm DEF Steady
<1>6. \A d \in Calls : CallTyped(d)' /\ RequestOK(d)' /\ ObjectOK(d)' /\ FreshOK(d)'
  BY <1>1, <1>3, <1>4, <1>5, InvFacts, TypedStays, RequestStays, ObjectStays, FreshStays
<1>7. \A d, e \in Calls : d # e => Apart(d, e)'
  BY <1>1, InvFacts DEF Apart, Holds, InFlight, BookingOf
<1>8. \A d \in Calls : PairOK(d)'
  BY <1>5, PairsStay
<1>. QED
  BY <1>1, <1>3, <1>6, <1>7, <1>8 DEF Inv, Asked, PCTyped, Alone

LEMMA CrashKeeps ==
    ASSUME Inv, Crash PROVE Stored' /\ Asked' /\ Alone' /\ Agreed'
<1>1. /\ pc' = [c \in Calls |-> IF pc[c] \in {"idle", "committed"} THEN pc[c] ELSE "lost"]
      /\ entity' = [c \in Calls |-> NoChange] /\ bookingSet' = [c \in Calls |-> NoChange]
      /\ profile' = [c \in Calls |-> NewProvider] /\ profileSet' = [c \in Calls |-> NoChange]
      /\ UNCHANGED <<created, booking, deleted, versions, overlap, request, faults>>
  BY DEF Crash, rows, history
<1>2. Stored' /\ Agreed'
  BY <1>1, StoredStays DEF Inv, Stored, RowsTyped
<1>3. \A c \in Calls : pc'[c] \in {"idle", "committed", "lost"}
  BY <1>1
<1>4. PCTyped' /\ \A c \in Calls : ~InFlight(c)'
  BY <1>1, <1>3 DEF PCTyped, InFlight, Open
<1>5. \A c \in Calls : CallTyped(c)' /\ RequestOK(c)' /\ ObjectOK(c)' /\ FreshOK(c)' /\ PairOK(c)'
  BY <1>1, <1>3, <1>4, InvFacts, NoChangeEmpty
     DEF CallTyped, BookingOf, RequestOK, ObjectOK, FreshOK, PairOK, Holds, IsRating
<1>6. \A d, e \in Calls : Apart(d, e)'
  BY <1>4 DEF Apart, Holds
<1>. QED
  BY <1>1, <1>2, <1>4, <1>5, <1>6 DEF Inv, Asked, Alone

LEMMA DatabaseErrorLocal ==
    ASSUME Inv, NEW c \in Calls, DatabaseError(c) PROVE Local(c) /\ Stored' /\ Agreed'
<1>1. /\ pc[c] \in Open /\ faults < MaxFaults /\ faults' = faults + 1
      /\ pc' = [pc EXCEPT ![c] = "failed"]
      /\ deleted' = IF request[c].kind = "processed" THEN deleted \cup {request[c].arg}
                    ELSE deleted
      /\ UNCHANGED <<created, booking, request, versions, overlap>>
  BY DEF DatabaseError, history
<1>2. /\ entity' = [entity EXCEPT ![c] = NoChange]
      /\ bookingSet' = [bookingSet EXCEPT ![c] = NoChange]
      /\ profile' = [profile EXCEPT ![c] = NewProvider]
      /\ profileSet' = [profileSet EXCEPT ![c] = NoChange]
  BY DEF DatabaseError, Forget
<1>3. faults' \in 0..MaxFaults
  <2>1. faults \in 0..MaxFaults /\ MaxFaults \in Nat
    BY BookingAssumption DEF Inv, Stored, RowsTyped
  <2>. QED
    BY <1>1, <2>1
<1>4. deleted' \subseteq Files
  BY <1>1, InvFacts DEF RowsTyped, RequestOK
<1>5. Stored' /\ Agreed' /\ Grows
  BY <1>1, <1>3, <1>4, StoredStays, InvFacts DEF RowsTyped
<1>6. /\ pc'[c] = "failed" /\ entity'[c] = NoChange /\ bookingSet'[c] = NoChange
      /\ profileSet'[c] = NoChange /\ PCTyped' /\ \A d \in Calls \ {c} : Same(d)
  BY <1>1, <1>2, InvFacts DEF PCTyped, Same
<1>7. CallTyped(c)' /\ Steady(c)
  BY <1>1, <1>6, InvFacts, NoChangeEmpty DEF CallTyped, BookingOf, Steady
<1>8. /\ DOMAIN request' = Calls /\ DOMAIN entity' = Calls /\ DOMAIN bookingSet' = Calls
      /\ DOMAIN profile' = Calls /\ DOMAIN profileSet' = Calls
  BY <1>1, <1>2, InvFacts
<1>9. request'[c].kind \in {"update", "processed"} => request'[c].arg \in Files
  BY <1>1, InvFacts DEF RequestOK
<1>. QED
  BY <1>5, <1>6, <1>7, <1>8, <1>9, ClosedLocal

LEMMA SettlePaidKeeps ==
    ASSUME Inv, NEW c \in Calls, NEW m \in Calls, NEW b \in Bookings, SettlePaid(c, m, b)
    PROVE  Stored' /\ Asked' /\ Alone' /\ Agreed'
<1>. DEFINE paid == SettledAs(b, "Paid")
            forC == Request("settle", b, OwnerOf[b], NoFile)
            forM == Request("match", b, OwnerOf[b], c)
<1>1. /\ c # m /\ pc[c] = "idle" /\ pc[m] = "idle" /\ "settle" \in Kinds /\ b \in created
      /\ request' = [request EXCEPT ![c] = forC, ![m] = forM]
      /\ pc' = [pc EXCEPT ![c] = "reload", ![m] = "pick"]
      /\ entity' = [entity EXCEPT ![c] = paid, ![m] = paid]
      /\ overlap' = IF \E d \in Calls : WorksOn(d, b) THEN overlap \cup {b} ELSE overlap
      /\ UNCHANGED <<created, booking, deleted, bookingSet, profile, profileSet, faults, versions>>
  BY DEF SettlePaid, rows
<1>2. /\ forC.kind = "settle" /\ forC.booking = b /\ forC.user = OwnerOf[b]
      /\ forM.kind = "match" /\ forM.booking = b /\ forM.user = OwnerOf[b] /\ forM.arg = c
      /\ DOMAIN forC = DOMAIN NoRequest /\ DOMAIN forM = DOMAIN NoRequest
      /\ OwnerOf[b] \in Users
  BY RequestFacts, BookingAssumption
<1>3. PICK object : object = paid
  OBVIOUS
<1>4. /\ DOMAIN object = BookingColumns \ {"aidServiceProfile"}
      /\ object.paymentStatus = "Paid" /\ object.bookingStatus = InProgress
      /\ \A k \in BookingColumns \ {"aidServiceProfile", "bookingStatus", "paymentStatus"} :
            object[k] = booking[b][k]
  BY <1>3, SettledFacts
<1>. HIDE DEF paid, forC, forM
<1>5. /\ DOMAIN request' = Calls /\ DOMAIN entity' = Calls
      /\ request'[c] = forC /\ request'[m] = forM /\ entity'[c] = object /\ entity'[m] = object
      /\ pc'[c] = "reload" /\ pc'[m] = "pick"
      /\ \A d \in Calls \ {c, m} : Same(d)
  BY <1>1, <1>3, InvFacts DEF PCTyped, Same
<1>6. PCTyped'
  BY <1>1, InvFacts DEF PCTyped, Open
<1>7. /\ overlap \subseteq overlap' /\ overlap' \subseteq Bookings
      /\ \A d \in Calls : Holds(d) /\ BookingOf(d) = b => b \in overlap'
  BY <1>1, InvFacts DEF WorksOn, Holds, RowsTyped
<1>8. Stored' /\ Agreed' /\ Grows
  BY <1>1, <1>7, InvFacts, StoredStays DEF RowsTyped
<1>9. /\ bookingSet'[c] = NoChange /\ bookingSet'[m] = NoChange
      /\ booking[b] \in versions[b]
  BY <1>1, InvFacts DEF RequestOK, Inv, Stored
<1>10. \A x \in {c, m} : /\ InFlight(x)' /\ Holds(x)' /\ BookingOf(x)' = b
                         /\ request'[x].kind \in {"settle", "match"} /\ Settles(x)'
                         /\ Own(x)' = Duty["settle"] /\ Current(x)' = booking[b]
  BY <1>1, <1>2, <1>5, Duties
     DEF InFlight, Open, Holds, BookingOf, Settles, Settlements, Own, Current
<1>11. \A d \in Calls : Steady(d)
  BY <1>1, <1>5, SameCalm DEF Steady, Same
<1>12. \A d \in Calls : CallTyped(d)'
  <2>1. CallTyped(c)' /\ CallTyped(m)'
    BY <1>1, <1>2, <1>4, <1>5, <1>9, InvFacts, NoChangeEmpty DEF CallTyped, BookingOf
  <2>. QED
    BY <1>5, <2>1, InvFacts, TypedStays
<1>13. \A d \in Calls : RequestOK(d)'
  <2>1. RequestOK(c)'
    BY <1>2, <1>5, <1>9 DEF RequestOK, IsRating
  <2>2. RequestOK(m)'
    BY <1>1, <1>2, <1>5, <1>9 DEF RequestOK, IsRating, BookingOf
  <2>. QED
    BY <1>5, <1>11, <2>1, <2>2, InvFacts, RequestStays
<1>14. \A d \in Calls : ObjectOK(d)'
  <2>1. \A k \in DOMAIN object \ Duty["settle"] : object[k] = booking[b][k]
    BY <1>4, Duties
  <2>2. \A x \in {c, m} : ObjectOK(x)'
    <3>. SUFFICES ASSUME NEW x \in {c, m} PROVE ObjectOK(x)'
      OBVIOUS
    <3>1. /\ entity'[x] = object /\ bookingSet'[x] = NoChange /\ Own(x)' = Duty["settle"]
          /\ BookingOf(x)' = b /\ b \in created' /\ booking[b] \in versions'[b]
          /\ request'[x].kind \in {"settle", "match"}
          /\ request'[x].kind = "match" => pc'[x] = "pick"
      BY <1>1, <1>2, <1>5, <1>9, <1>10
    <3>. QED
      BY <1>4, <1>10, <2>1, <3>1, NoChangeEmpty DEF ObjectOK
  <2>. QED
    BY <1>5, <1>8, <2>2, InvFacts, ObjectStays
<1>15. \A d \in Calls : FreshOK(d)'
  <2>1. \A k \in DOMAIN object \ Duty["settle"] : object[k] = booking[b][k]
    BY <1>4, Duties
  <2>2. object.isMatched = booking[b].isMatched
    BY <1>4 DEF BookingColumns
  <2>3. \A x \in {c, m} : FreshOK(x)'
    <3>. SUFFICES ASSUME NEW x \in {c, m} PROVE FreshOK(x)'
      OBVIOUS
    <3>1. /\ entity'[x] = object /\ bookingSet'[x] = NoChange /\ Own(x)' = Duty["settle"]
          /\ Current(x)' = booking[b] /\ request'[x].kind \in {"settle", "match"}
          /\ pc'[x] \in {"reload", "pick"}
      BY <1>5, <1>9, <1>10
    <3>. QED
      BY <2>1, <2>2, <3>1, NoChangeEmpty DEF FreshOK
  <2>. QED
    BY <1>1, <1>5, <1>8, <2>3, InvFacts, FreshStays
<1>16. \A x \in Calls : PairOK(x)'
  <2>. SUFFICES ASSUME NEW x \in Calls, NEW s, s = request'[x].arg,
                       InFlight(x)', request'[x].kind = "match", InFlight(s)'
                PROVE  /\ \A k \in Statuses : entity'[x][k] = entity'[s][k]
                       /\ pc'[s] = "reload" /\ pc'[x] # "pick" => Yes(entity'[s].isMatched)
    BY DEF PairOK
  <2>1. CASE x = m
    BY <1>2, <1>5, <2>1
  <2>2. CASE x # m
    <3>1. x # c
      BY <1>2, <1>5
    <3>2. Same(x) /\ InFlight(x) /\ request[x].kind = "match" /\ s = request[x].arg
      BY <1>5, <2>2, <3>1 DEF Same, InFlight
    <3>3. s \in Calls /\ pc[s] # "idle"
      BY <3>2, InvFacts DEF RequestOK
    <3>4. Same(s)
      BY <1>1, <1>5, <3>3
    <3>. QED
      BY <3>2, <3>4, InvFacts DEF PairOK, Same, InFlight
  <2>. QED
    BY <2>1, <2>2
<1>17. \A d, e \in Calls : d # e => Apart(d, e)'
  <2>. SUFFICES ASSUME NEW d \in Calls, NEW e \in Calls, d # e, Holds(d)', Holds(e)',
                       BookingOf(d)' = BookingOf(e)', BookingOf(d)' \notin overlap'
                PROVE  \/ request'[d].kind = "match" /\ request'[d].arg = e
                       \/ request'[e].kind = "match" /\ request'[e].arg = d
    BY DEF Apart
  <2>1. \A x \in Calls \ {c, m} : Holds(x)' =>
            /\ Holds(x) /\ request'[x] = request[x] /\ BookingOf(x)' = BookingOf(x)
    BY <1>5 DEF Same, Holds, InFlight, BookingOf
  <2>2. CASE d \in {c, m} /\ e \in {c, m}
    BY <1>2, <1>5, <2>2
  <2>3. CASE d \notin {c, m} /\ e \notin {c, m}
    BY <1>7, <2>1, <2>3, InvFacts DEF Apart
  <2>4. CASE d \in {c, m} /\ e \notin {c, m}
    BY <1>7, <1>10, <2>1, <2>4
  <2>5. CASE d \notin {c, m} /\ e \in {c, m}
    BY <1>7, <1>10, <2>1, <2>5
  <2>. QED
    BY <2>2, <2>3, <2>4, <2>5
<1>. QED
  BY <1>1, <1>5, <1>6, <1>8, <1>12, <1>13, <1>14, <1>15, <1>16, <1>17 DEF Inv, Asked, Alone

LEMMA PickKeeps ==
    ASSUME Inv, NEW m \in Calls, Pick(m)
    PROVE  Stored' /\ Asked' /\ Alone' /\ Agreed'
<1>1. /\ pc[m] = "pick" /\ pc' = [pc EXCEPT ![m] = "reload"]
      /\ UNCHANGED <<created, booking, deleted, request, bookingSet, profile, profileSet, faults,
                     versions, overlap>>
  BY DEF Pick, rows, history
<1>2. PICK p \in Providers \cup {Official} :
        entity' = [c \in Calls |-> IF c = m \/ (c = request[m].arg /\ pc[c] = "reload")
                                   THEN Matched(entity[m], p) ELSE entity[c]]
  BY DEF Pick
<1>3. PICK object : object = Matched(entity[m], p)
  OBVIOUS
<1>4. /\ DOMAIN object = BookingColumns /\ object.aidServiceProfile = p /\ Yes(object.isMatched)
      /\ \A k \in BookingColumns \ {"isMatched", "aidServiceProfile"} : object[k] = entity[m][k]
      /\ p \in Providers \cup {NoProvider}
  BY <1>3, MatchedFacts, BookingAssumption
<1>5. PICK s : s = request[m].arg
  OBVIOUS
<1>6. /\ InFlight(m) /\ Holds(m) /\ request[m].kind = "match" /\ s \in Calls /\ pc[s] # "idle"
      /\ request[s].kind = "settle" /\ BookingOf(s) = BookingOf(m) /\ s # m
  BY <1>1, <1>5, InvFacts DEF InFlight, Open, Holds, RequestOK
<1>7. /\ DOMAIN entity' = Calls /\ entity'[m] = object /\ pc'[m] = "reload"
      /\ entity'[s] = IF pc[s] = "reload" THEN object ELSE entity[s]
      /\ \A d \in Calls \ {m, s} : entity'[d] = entity[d]
      /\ \A d \in Calls \ {m} : pc'[d] = pc[d]
  BY <1>1, <1>2, <1>3, <1>5, <1>6, InvFacts DEF PCTyped
<1>8. \A d \in Calls : (InFlight(d)' <=> InFlight(d)) /\ (Holds(d)' <=> Holds(d))
  BY <1>1, <1>6, <1>7 DEF InFlight, Open, Holds
<1>9. Stored' /\ Agreed' /\ Grows
  BY <1>1, InvFacts, StoredStays DEF RowsTyped
<1>10. PCTyped' /\ \A d \in Calls : Steady(d)
  BY <1>1, <1>7, InvFacts DEF PCTyped, Open, Steady
<1>11. \A d \in Calls : entity'[d] = entity[d] /\ d # m => Same(d)
  BY <1>1, <1>7 DEF Same
<1>12. \A d \in Calls : \/ entity'[d] = object /\ d \in {m, s} /\ pc'[d] = "reload"
                        \/ entity'[d] = entity[d] /\ d # m
  BY <1>7
<1>13. \A d \in {m, s} : /\ request'[d] = request[d] /\ Own(d)' = Duty["settle"]
                         /\ Own(d) = Duty["settle"] /\ Settles(d)' /\ Settles(d)
                         /\ BookingOf(d)' = BookingOf(m) /\ Current(d)' = Current(m)
                         /\ request[d].kind \in {"settle", "match"}
  BY <1>1, <1>6, Duties DEF Own, Settles, Settlements, BookingOf, Current
<1>14. \A d \in Calls : CallTyped(d)'
  <2>. SUFFICES ASSUME NEW d \in Calls PROVE CallTyped(d)'
    OBVIOUS
  <2>1. CASE entity'[d] = entity[d] /\ d # m
    BY <1>11, <2>1, InvFacts, TypedStays
  <2>2. CASE entity'[d] = object /\ d \in {m, s} /\ pc'[d] = "reload"
    <3>1. bookingSet[d] = NoChange
      BY <1>1, <1>7, <2>2, InvFacts DEF RequestOK
    <3>. QED
      BY <1>1, <1>4, <2>2, <3>1, InvFacts, NoChangeEmpty DEF CallTyped, BookingOf
  <2>. QED
    BY <1>12, <2>1, <2>2
<1>15. \A d \in Calls : RequestOK(d)'
  <2>. SUFFICES ASSUME NEW d \in Calls PROVE RequestOK(d)'
    OBVIOUS
  <2>1. CASE entity'[d] = entity[d] /\ d # m
    BY <1>10, <1>11, <2>1, InvFacts, RequestStays
  <2>2. CASE entity'[d] = object /\ d \in {m, s} /\ pc'[d] = "reload"
    <3>1. RequestOK(d) /\ request'[d] = request[d] /\ bookingSet'[d] = bookingSet[d]
          /\ (InFlight(d)' <=> InFlight(d)) /\ pc'[d] = "reload"
          /\ request[d].kind \in {"settle", "match"} /\ pc[d] \in {"reload", "pick"}
      BY <1>1, <1>7, <1>8, <1>13, <2>2, InvFacts
    <3>2. \A x \in Calls : pc[x] # "idle" => /\ pc'[x] # "idle" /\ request'[x] = request[x]
                                             /\ BookingOf(x)' = BookingOf(x)
      BY <1>10 DEF Steady, BookingOf
    <3>3. BookingOf(d)' = BookingOf(d)
      BY <3>1 DEF BookingOf
    <3>. QED
      BY <3>1, <3>2, <3>3 DEF RequestOK, IsRating
  <2>. QED
    BY <1>12, <2>1, <2>2
<1>16. \A d \in Calls : ObjectOK(d)'
  <2>. SUFFICES ASSUME NEW d \in Calls PROVE ObjectOK(d)'
    OBVIOUS
  <2>1. CASE entity'[d] = entity[d] /\ d # m
    BY <1>9, <1>11, <2>1, InvFacts, ObjectStays
  <2>2. CASE entity'[d] = object /\ d \in {m, s} /\ pc'[d] = "reload"
    <3>1. ObjectOK(m) /\ Own(m) = Duty["settle"]
      BY <1>13, InvFacts
    <3>2. \E version \in versions[BookingOf(m)] :
            \A k \in DOMAIN object \ Duty["settle"] : object[k] = version[k]
      <4>1. PICK version \in versions[BookingOf(m)] :
                \A k \in DOMAIN entity[m] \ Own(m) : entity[m][k] = version[k]
        BY <1>6, <3>1 DEF ObjectOK
      <4>2. \A k \in BookingColumns \ Duty["settle"] : k \in DOMAIN entity[m] /\ object[k] = entity[m][k]
        BY <1>4, <1>6, <3>1, Duties DEF ObjectOK
      <4>. QED
        BY <1>4, <3>1, <4>1, <4>2
    <3>3. object.paymentStatus = "Paid" <=> object.bookingStatus = InProgress
      BY <1>4, <1>6, <1>13, <3>1 DEF ObjectOK, BookingColumns
    <3>4. BookingOf(m) \in created
      BY <1>6, <3>1 DEF ObjectOK
    <3>5. bookingSet'[d] = NoChange
      BY <1>1, <1>7, <2>2, InvFacts DEF RequestOK
    <3>6. /\ entity'[d] = object /\ Own(d)' = Duty["settle"] /\ BookingOf(d)' = BookingOf(m)
          /\ request'[d].kind \in {"settle", "match"} /\ Settles(d)'
          /\ UNCHANGED <<created, versions>>
      BY <1>1, <1>13, <2>2
    <3>7. "aidServiceProfile" \in DOMAIN object
      BY <1>4 DEF BookingColumns
    <3>. QED
      BY <1>4, <3>2, <3>3, <3>4, <3>5, <3>6, <3>7, NoChangeEmpty DEF ObjectOK
  <2>. QED
    BY <1>12, <2>1, <2>2
<1>17. \A d \in Calls : FreshOK(d)'
  <2>. SUFFICES ASSUME NEW d \in Calls PROVE FreshOK(d)'
    OBVIOUS
  <2>1. CASE entity'[d] = entity[d] /\ d # m
    BY <1>1, <1>9, <1>11, <2>1, InvFacts, FreshStays
  <2>2. CASE entity'[d] = object /\ d \in {m, s} /\ pc'[d] = "reload"
    <3>1. SUFFICES ASSUME BookingOf(m) \notin overlap PROVE FreshOK(d)'
      BY <1>1, <1>13, <2>2 DEF FreshOK
    <3>2. \A k \in BookingColumns \ Duty["settle"] : object[k] = Current(m)[k]
      BY <1>4, <1>6, <1>13, <3>1, Duties, InvFacts DEF FreshOK, ObjectOK
    <3>3. bookingSet'[d] = NoChange
      BY <1>1, <1>7, <2>2, InvFacts DEF RequestOK
    <3>. QED
      BY <1>4, <1>13, <2>2, <3>2, <3>3, NoChangeEmpty DEF FreshOK
  <2>. QED
    BY <1>12, <2>1, <2>2
<1>18. \A x \in Calls : PairOK(x)'
  <2>. SUFFICES ASSUME NEW x \in Calls, NEW t, t = request'[x].arg,
                       InFlight(x)', request'[x].kind = "match", InFlight(t)'
                PROVE  /\ \A k \in Statuses : entity'[x][k] = entity'[t][k]
                       /\ pc'[t] = "reload" /\ pc'[x] # "pick" => Yes(entity'[t].isMatched)
    BY DEF PairOK
  <2>1. /\ t = request[x].arg /\ request[x].kind = "match" /\ InFlight(x)
        /\ t \in Calls /\ request[t].kind = "settle" /\ InFlight(t)
    BY <1>1, <1>8, InvFacts DEF RequestOK
  <2>2. x # s /\ t # m
    BY <1>6, <2>1
  <2>3. \A k \in Statuses : object[k] = entity[m][k]
    BY <1>4 DEF Statuses, BookingColumns
  <2>4. \A k \in Statuses : entity[x][k] = entity[t][k]
    BY <2>1, InvFacts DEF PairOK
  <2>5. t = s => \A k \in Statuses : entity[m][k] = entity[t][k]
    BY <1>5, <1>6, <2>1, InvFacts DEF PairOK
  <2>6. \A k \in Statuses : entity'[x][k] = entity[x][k] /\ entity'[t][k] = entity[t][k]
    BY <1>7, <2>1, <2>2, <2>3, <2>5
  <2>7. CASE t = s
    BY <1>4, <1>7, <2>1, <2>2, <2>4, <2>6, <2>7
  <2>8. CASE t # s
    <3>1. entity'[t] = entity[t] /\ pc'[t] = pc[t] /\ x # m /\ pc'[x] = pc[x]
      BY <1>5, <1>7, <2>1, <2>2, <2>8
    <3>. QED
      BY <2>1, <2>4, <2>6, <3>1, InvFacts DEF PairOK
  <2>. QED
    BY <2>7, <2>8
<1>19. \A d, e \in Calls : d # e => Apart(d, e)'
  BY <1>1, <1>8, InvFacts DEF Apart, BookingOf
<1>. QED
  BY <1>1, <1>7, <1>9, <1>10, <1>14, <1>15, <1>16, <1>17, <1>18, <1>19 DEF Inv, Asked, Alone

-----------------------------------------------------------------------------
(* A commit.                                                               *)

\* What becomes of the booking: its columns but for those of the SET clause.
LEMMA CommitRow ==
    ASSUME Inv, NEW c \in Calls, Commit(c)
    PROVE  LET b == BookingOf(c)
           IN  /\ pc[c] = "commit" /\ InFlight(c)
               /\ UNCHANGED <<created, overlap, deleted, faults, request, contended, uses>>
               /\ DOMAIN booking' = Bookings /\ DOMAIN versions' = Bookings
               /\ \A x \in Bookings \ {b} : booking'[x] = booking[x] /\ versions'[x] = versions[x]
               /\ ~Holds(c) => booking' = booking /\ versions' = versions
               /\ Holds(c) =>
                    /\ versions'[b] = versions[b] \cup {booking'[b]}
                    /\ DOMAIN booking'[b] = BookingColumns
                    /\ DOMAIN bookingSet[c] \subseteq DOMAIN entity[c]
                    /\ \A k \in DOMAIN bookingSet[c] : booking'[b][k] = entity[c][k]
                    /\ \A k \in BookingColumns \ DOMAIN bookingSet[c] :
                            booking'[b][k] = booking[b][k]
<1>. DEFINE b == BookingOf(c)
<1>1. /\ pc[c] = "commit" /\ InFlight(c)
      /\ UNCHANGED <<created, overlap, deleted, faults, request, contended, uses>>
  BY DEF Commit, Step, InFlight, Open
<1>2. /\ booking' = IF request[c].kind = "rateApp" THEN booking
                    ELSE [booking EXCEPT ![b] = Overlay(booking[b], bookingSet[c])]
      /\ versions' = IF request[c].kind = "rateApp" THEN versions
                     ELSE [versions EXCEPT ![b] = versions[b] \cup {booking'[b]}]
  BY DEF Commit, CommitRows, RecordCommit
<1>3. b \in Bookings /\ DOMAIN booking = Bookings /\ DOMAIN versions = Bookings
      /\ DOMAIN booking[b] = BookingColumns
  BY InvFacts DEF RowsTyped, Inv, Stored
<1>4. PICK new : new = Overlay(booking[b], bookingSet[c])
  OBVIOUS
<1>5. /\ DOMAIN new = BookingColumns
      /\ \A k \in BookingColumns : /\ k \in DOMAIN bookingSet[c] => new[k] = bookingSet[c][k]
                                   /\ k \notin DOMAIN bookingSet[c] => new[k] = booking[b][k]
  BY <1>3, <1>4, OverlayFacts
<1>6. Holds(c) <=> request[c].kind # "rateApp"
  BY <1>1 DEF Holds
<1>. HIDE DEF b
<1>7. /\ DOMAIN booking' = Bookings /\ DOMAIN versions' = Bookings
      /\ \A x \in Bookings \ {b} : booking'[x] = booking[x] /\ versions'[x] = versions[x]
      /\ ~Holds(c) => booking' = booking /\ versions' = versions
      /\ Holds(c) => booking'[b] = new /\ versions'[b] = versions[b] \cup {booking'[b]}
  BY <1>2, <1>3, <1>4, <1>6
<1>8. Holds(c) => \A k \in DOMAIN bookingSet[c] : bookingSet[c][k] = entity[c][k]
  BY InvFacts DEF ObjectOK
<1>9. DOMAIN bookingSet[c] \subseteq DOMAIN entity[c] /\ DOMAIN entity[c] \subseteq BookingColumns
  BY InvFacts DEF CallTyped
<1>. QED
  BY <1>1, <1>5, <1>7, <1>8, <1>9 DEF b

LEMMA CommitStored ==
    ASSUME Inv, NEW c \in Calls, Commit(c)
    PROVE  Stored' /\ Grows
<1>1. CASE ~Holds(c)
  BY <1>1, CommitRow, StoredStays, InvFacts DEF RowsTyped
<1>2. CASE Holds(c)
  <2>1. PICK b \in Bookings : b = BookingOf(c)
    BY InvFacts
  <2>2. /\ UNCHANGED <<created, overlap, deleted, faults>>
        /\ DOMAIN booking' = Bookings /\ DOMAIN versions' = Bookings
        /\ \A x \in Bookings \ {b} : booking'[x] = booking[x] /\ versions'[x] = versions[x]
        /\ versions'[b] = versions[b] \cup {booking'[b]} /\ DOMAIN booking'[b] = BookingColumns
    BY <1>2, <2>1, CommitRow
  <2>3. b \in created
    BY <1>2, <2>1, InvFacts DEF ObjectOK
  <2>4. booking[b].aidServiceProfile \in Providers \cup {NoProvider}
    BY <2>3 DEF Inv, Stored
  <2>5. booking'[b].aidServiceProfile \in Providers \cup {NoProvider}
    <3>1. CASE "aidServiceProfile" \in DOMAIN bookingSet[c]
      BY <1>2, <2>1, <3>1, CommitRow, InvFacts DEF ObjectOK
    <3>2. CASE "aidServiceProfile" \notin DOMAIN bookingSet[c]
      <4>1. "aidServiceProfile" \in BookingColumns
        BY DEF BookingColumns
      <4>. QED
        BY <1>2, <2>1, <2>4, <3>2, <4>1, CommitRow
    <3>. QED
      BY <3>1, <3>2
  <2>6. RowsTyped' /\ Grows
    BY <2>2, InvFacts DEF RowsTyped, Grows
  <2>7. \A x \in Bookings : /\ x \in created' => booking'[x] \in versions'[x]
                            /\ x \notin created' => /\ booking'[x] = NewBooking(NoFile)
                                                    /\ versions'[x] = {}
    BY <2>2, <2>3 DEF Inv, Stored
  <2>8. \A x \in Bookings : \A version \in versions'[x] :
            /\ DOMAIN version = BookingColumns
            /\ version.aidServiceProfile \in Providers \cup {NoProvider}
    BY <2>2, <2>5 DEF Inv, Stored
  <2>. QED
    BY <2>2, <2>6, <2>7, <2>8 DEF Stored
<1>. QED
  BY <1>1, <1>2

\* On a booking without overlap, what a commit does to the row, by endpoint.
LEMMA CommitAlone ==
    ASSUME Inv, NEW c \in Calls, Commit(c), Holds(c), NEW b \in Bookings, b = BookingOf(c),
           b \notin overlap
    PROVE  /\ \A k \in BookingColumns \ Own(c) : booking'[b][k] = booking[b][k]
           /\ request[c].kind = "update" =>
                /\ booking'[b].bookingStatus \in {"Cancelled", "Pending"}
                /\ booking[b].bookingStatus = "Pending"
           /\ request[c].kind \in {"rate", "confirmProvider"} => Yes(booking[b].isMatched)
           /\ Settles(c) =>
                /\ \A k \in Statuses : booking'[b][k] = entity[c][k]
                /\ entity[c].paymentStatus = "Paid" <=> entity[c].bookingStatus = InProgress
                /\ Yes(booking[b].isMatched) => Yes(booking'[b].isMatched)
                /\ booking'[b].aidServiceProfile # booking[b].aidServiceProfile =>
                        Yes(booking'[b].isMatched)
<1>1. /\ FreshOK(c) /\ ObjectOK(c) /\ pc[c] = "commit" /\ Current(c) = booking[b]
      /\ DOMAIN bookingSet[c] \subseteq DOMAIN entity[c]
      /\ \A k \in DOMAIN bookingSet[c] : booking'[b][k] = entity[c][k]
      /\ \A k \in BookingColumns \ DOMAIN bookingSet[c] : booking'[b][k] = booking[b][k]
  BY CommitRow, InvFacts DEF Current
<1>2. \A k \in BookingColumns \ Own(c) : booking'[b][k] = booking[b][k]
  BY <1>1 DEF FreshOK
<1>3. request[c].kind = "update" =>
                /\ booking'[b].bookingStatus \in {"Cancelled", "Pending"}
                /\ booking[b].bookingStatus = "Pending"
  <2>1. "bookingStatus" \in BookingColumns
    BY DEF BookingColumns
  <2>. QED
    BY <1>1, <2>1 DEF FreshOK, ObjectOK
<1>4. request[c].kind \in {"rate", "confirmProvider"} => Yes(booking[b].isMatched)
  BY <1>1 DEF FreshOK
<1>5. ASSUME Settles(c)
      PROVE  /\ \A k \in Statuses : booking'[b][k] = entity[c][k]
             /\ entity[c].paymentStatus = "Paid" <=> entity[c].bookingStatus = InProgress
             /\ Yes(booking[b].isMatched) => Yes(booking'[b].isMatched)
             /\ booking'[b].aidServiceProfile # booking[b].aidServiceProfile =>
                        Yes(booking'[b].isMatched)
  <2>1. {"isMatched", "aidServiceProfile"} \subseteq BookingColumns /\ Statuses \subseteq BookingColumns
    BY DEF BookingColumns, Statuses
  <2>2. /\ \A k \in Statuses : k \in DOMAIN bookingSet[c] \/ booking[b][k] = entity[c][k]
        /\ "isMatched" \in DOMAIN bookingSet[c] => Yes(entity[c].isMatched)
        /\ Yes(entity[c].isMatched) =>
            "isMatched" \in DOMAIN bookingSet[c] \/ Yes(booking[b].isMatched)
    BY <1>1, <1>5 DEF FreshOK
  <2>3. /\ entity[c].paymentStatus = "Paid" <=> entity[c].bookingStatus = InProgress
        /\ "aidServiceProfile" \in DOMAIN entity[c] => Yes(entity[c].isMatched)
    BY <1>1, <1>5 DEF ObjectOK
  <2>4. \A k \in Statuses : booking'[b][k] = entity[c][k]
    BY <1>1, <2>1, <2>2
  <2>5. Yes(booking[b].isMatched) => Yes(booking'[b].isMatched)
    BY <1>1, <2>1, <2>2
  <2>6. booking'[b].aidServiceProfile # booking[b].aidServiceProfile => Yes(booking'[b].isMatched)
    <3>1. SUFFICES ASSUME "aidServiceProfile" \in DOMAIN bookingSet[c]
                   PROVE  Yes(booking'[b].isMatched)
      BY <1>1, <2>1
    <3>2. Yes(entity[c].isMatched)
      BY <1>1, <2>3, <3>1
    <3>3. CASE "isMatched" \in DOMAIN bookingSet[c]
      BY <1>1, <3>2, <3>3
    <3>4. CASE Yes(booking[b].isMatched)
      BY <2>5, <3>4
    <3>. QED
      BY <2>2, <3>2, <3>3, <3>4
  <2>. QED
    BY <2>3, <2>4, <2>5, <2>6
<1>. QED
  BY <1>2, <1>3, <1>4, <1>5

LEMMA CommitAgreed ==
    ASSUME Inv, NEW c \in Calls, Commit(c)
    PROVE  Agreed'
<1>1. CASE ~Holds(c)
  BY <1>1, CommitRow DEF Inv, Agreed
<1>2. CASE Holds(c)
  <2>1. PICK b \in Bookings : b = BookingOf(c)
    BY InvFacts
  <2>2. overlap' = overlap /\ \A x \in Bookings \ {b} : booking'[x] = booking[x]
    BY <2>1, CommitRow
  <2>3. SUFFICES ASSUME b \notin overlap
                 PROVE  /\ booking'[b].paymentStatus = "Paid"
                                <=> booking'[b].bookingStatus = InProgress
                        /\ booking'[b].rating # 0 \/ Yes(booking'[b].confirmedByProvider)
                                => Yes(booking'[b].isMatched)
                        /\ booking'[b].aidServiceProfile # NoProvider
                                => Yes(booking'[b].isMatched)
    BY <2>2 DEF Inv, Agreed
  <2>4. /\ booking[b].paymentStatus = "Paid" <=> booking[b].bookingStatus = InProgress
        /\ booking[b].rating # 0 \/ Yes(booking[b].confirmedByProvider) => Yes(booking[b].isMatched)
        /\ booking[b].aidServiceProfile # NoProvider => Yes(booking[b].isMatched)
    BY <2>3 DEF Inv, Agreed
  <2>5. \A k \in BookingColumns \ Own(c) : booking'[b][k] = booking[b][k]
    BY <1>2, <2>1, <2>3, CommitAlone
  <2>6. request[c].kind \in {"update", "processed", "confirmProvider", "rate", "settle", "match"}
    BY <1>2, InvFacts DEF RequestOK, Holds
  <2>7. CASE request[c].kind = "update"
    <3>1. Own(c) = {"bookingStatus", "rawMediaFiles"}
      BY <2>7, Duties DEF Own
    <3>2. /\ booking'[b].bookingStatus \in {"Cancelled", "Pending"}
          /\ booking[b].bookingStatus = "Pending"
      BY <1>2, <2>1, <2>3, <2>7, CommitAlone
    <3>. QED
      BY <2>4, <2>5, <3>1, <3>2, Progress DEF BookingColumns
  <2>8. CASE request[c].kind = "processed"
    <3>1. Own(c) = {"processedMediaFiles"}
      BY <2>8, Duties DEF Own
    <3>. QED
      BY <2>4, <2>5, <3>1 DEF BookingColumns
  <2>9. CASE request[c].kind \in {"confirmProvider", "rate"}
    <3>1. Own(c) \subseteq {"confirmedByProvider", "rating"}
      BY <2>9, Duties DEF Own
    <3>2. Yes(booking[b].isMatched)
      BY <1>2, <2>1, <2>3, <2>9, CommitAlone
    <3>. QED
      BY <2>4, <2>5, <3>1, <3>2 DEF BookingColumns
  <2>10. CASE request[c].kind \in {"settle", "match"}
    <3>1. Own(c) = {"bookingStatus", "paymentStatus", "isMatched", "aidServiceProfile"}
      BY <2>10, Duties DEF Own
    <3>2. /\ \A k \in Statuses : booking'[b][k] = entity[c][k]
          /\ entity[c].paymentStatus = "Paid" <=> entity[c].bookingStatus = InProgress
          /\ Yes(booking[b].isMatched) => Yes(booking'[b].isMatched)
          /\ booking'[b].aidServiceProfile # booking[b].aidServiceProfile =>
                        Yes(booking'[b].isMatched)
      BY <1>2, <2>1, <2>3, <2>10, CommitAlone DEF Settles, Settlements
    <3>3. booking'[b].rating = booking[b].rating
          /\ booking'[b].confirmedByProvider = booking[b].confirmedByProvider
      BY <2>5, <3>1 DEF BookingColumns
    <3>4. booking'[b].paymentStatus = "Paid" <=> booking'[b].bookingStatus = InProgress
      BY <3>2 DEF Statuses
    <3>. QED
      BY <2>4, <3>2, <3>3, <3>4
  <2>. QED
    BY <2>6, <2>7, <2>8, <2>9, <2>10
<1>. QED
  BY <1>1, <1>2

\* What a settlement or a match that is still at work has read stays so when the other commits.
LEMMA CommitPair ==
    ASSUME Inv, NEW c \in Calls, Commit(c), NEW d \in Calls \ {c}, Same(d), Holds(c), Holds(d),
           BookingOf(c) = BookingOf(d), BookingOf(d) \notin overlap
    PROVE  FreshOK(d)'
<1>1. PICK b \in Bookings : b = BookingOf(c) /\ b = BookingOf(d)
  BY InvFacts
<1>2. \/ request[c].kind = "match" /\ request[c].arg = d /\ request[d].kind = "settle"
      \/ request[d].kind = "match" /\ request[d].arg = c /\ request[c].kind = "settle"
  BY InvFacts DEF Apart, RequestOK, Holds
<1>3. Settles(c) /\ Settles(d) /\ Own(c) = Own(d)
  BY <1>2, Duties DEF Settles, Settlements, Own
<1>4. /\ \A k \in BookingColumns \ Own(d) : booking'[b][k] = booking[b][k]
      /\ \A k \in Statuses : booking'[b][k] = entity[c][k]
      /\ Yes(booking[b].isMatched) => Yes(booking'[b].isMatched)
  BY <1>1, <1>3, CommitAlone
<1>5. /\ FreshOK(d) /\ ObjectOK(d) /\ DOMAIN entity[d] \subseteq BookingColumns
      /\ Current(d) = booking[b] /\ InFlight(c) /\ InFlight(d) /\ pc[c] = "commit"
  BY <1>1, InvFacts, CommitRow DEF Current, CallTyped, Holds
<1>6. \A k \in Statuses : entity[c][k] = entity[d][k]
  BY <1>2, <1>5, InvFacts DEF PairOK
<1>7. pc[d] = "reload" => \/ entity[d].isMatched = booking'[b].isMatched
                          \/ Yes(entity[d].isMatched)
  <2>1. SUFFICES ASSUME pc[d] = "reload", ~Yes(entity[d].isMatched)
                 PROVE  entity[d].isMatched = booking'[b].isMatched
    OBVIOUS
  <2>2. request[c].kind # "match"
    BY <1>2, <1>5, <2>1, InvFacts DEF PairOK
  <2>3. request[d].kind # "match"
    BY <1>3, <1>5, <2>1 DEF ObjectOK
  <2>. QED
    BY <1>2, <2>2, <2>3
<1>8. PICK new : new = booking'[b]
  OBVIOUS
<1>9. /\ entity'[d] = entity[d] /\ bookingSet'[d] = bookingSet[d] /\ pc'[d] = pc[d]
      /\ request'[d] = request[d] /\ Own(d)' = Own(d) /\ (Settles(d)' <=> Settles(d))
      /\ Current(d)' = new
  BY <1>1, <1>8 DEF Same, Own, Settles, Current, BookingOf
<1>10. request[d].kind \notin {"update", "rate", "confirmProvider"}
  BY <1>2
<1>. QED
  BY <1>3, <1>4, <1>5, <1>6, <1>7, <1>8, <1>9, <1>10 DEF FreshOK

LEMMA CommitKeeps ==
    ASSUME Inv, NEW c \in Calls, Commit(c)
    PROVE  Stored' /\ Asked' /\ Alone' /\ Agreed' /\ Local(c)
<1>1. Stored' /\ Agreed' /\ Grows
  BY CommitStored, CommitAgreed
<1>2. /\ pc' = [pc EXCEPT ![c] = "committed"] /\ UNCHANGED <<request, overlap>>
      /\ entity' = [entity EXCEPT ![c] = NoChange]
      /\ bookingSet' = [bookingSet EXCEPT ![c] = NoChange]
      /\ profile' = [profile EXCEPT ![c] = NewProvider]
      /\ profileSet' = [profileSet EXCEPT ![c] = NoChange]
  BY DEF Commit, Step, Forget
<1>3. /\ pc'[c] = "committed" /\ entity'[c] = NoChange /\ bookingSet'[c] = NoChange
      /\ profileSet'[c] = NoChange /\ PCTyped' /\ \A d \in Calls \ {c} : Same(d)
  BY <1>2, InvFacts DEF PCTyped, Same
<1>4. CallTyped(c)' /\ Steady(c)
  BY <1>2, <1>3, InvFacts, NoChangeEmpty DEF CallTyped, BookingOf, Steady
<1>5. /\ DOMAIN request' = Calls /\ DOMAIN entity' = Calls /\ DOMAIN bookingSet' = Calls
      /\ DOMAIN profile' = Calls /\ DOMAIN profileSet' = Calls
  BY <1>2, InvFacts
<1>6. request'[c].kind \in {"update", "processed"} => request'[c].arg \in Files
  BY <1>2, InvFacts DEF RequestOK
<1>7. Local(c)
  BY <1>1, <1>3, <1>4, <1>5, <1>6, ClosedLocal
<1>8. \A d \in Calls \ {c} : Holds(d) /\ BookingOf(d) \notin overlap' =>
            FreshOK(d)' \/ booking'[BookingOf(d)] = booking[BookingOf(d)]
  <2>. SUFFICES ASSUME NEW d \in Calls \ {c}, Holds(d), BookingOf(d) \notin overlap
                PROVE  FreshOK(d)' \/ booking'[BookingOf(d)] = booking[BookingOf(d)]
    BY <1>2
  <2>1. CASE Holds(c) /\ BookingOf(c) = BookingOf(d)
    BY <1>3, <2>1, CommitPair
  <2>2. CASE ~Holds(c) \/ BookingOf(c) # BookingOf(d)
    BY <2>2, CommitRow, InvFacts
  <2>. QED
    BY <2>1, <2>2
<1>. QED
  BY <1>1, <1>7, <1>8, LocalKeeps

-----------------------------------------------------------------------------
(* Files.                                                                  *)

LEMMA CountedQuiet ==
    ASSUME Inv, UNCHANGED <<uses, deleted, versions>>,
           \A f \in Files, c \in Calls : Names(c, f)' => Names(c, f)
    PROVE  Counted'
<1>1. \A f \in Files : Refers(f)' <=> Refers(f)
  BY DEF Refers
<1>. QED
  BY <1>1 DEF Inv, Counted

\* One more request or booking names a file, and puts it to one use at most.
LEMMA CountedNamed ==
    ASSUME Inv, NEW file \in Files, Named(file),
           \A f \in Files \ {file} :
                /\ Refers(f)' => Refers(f)
                /\ f \in deleted' => f \in deleted
                /\ \A c \in Calls : Names(c, f)' => Names(c, f),
           \/ /\ Refers(file)' => Refers(file)
              /\ \A c \in Calls : Names(c, file)' => Names(c, file)
           \/ /\ file \in deleted' => file \in deleted
              /\ \A c \in Calls : Names(c, file)' => Names(c, file)
           \/ /\ Refers(file)' => Refers(file)
              /\ file \in deleted' => file \in deleted
              /\ \E c \in Calls : \A d \in Calls \ {c} : Names(d, file)' => Names(d, file)
    PROVE  Counted'
<1>1. uses' \in [Files -> Nat] /\ \A f \in Files \ {file} : uses'[f] = uses[f]
  BY DEF Named, Inv, Counted
<1>2. uses'[file] = uses[file] + 1 /\ uses[file] \in Nat
  BY DEF Named, Inv, Counted
<1>3. uses'[file] # 0 /\ (uses'[file] = 1 => uses[file] = 0)
  BY <1>2
<1>4. uses[file] = 0 => ~Refers(file) /\ file \notin deleted /\ \A c \in Calls : ~Names(c, file)
  BY DEF Inv, Counted
<1>5. uses'[file] = 1 =>
            /\ file \in deleted' => ~Refers(file)' /\ \A c \in Calls : ~Names(c, file)'
            /\ \A c \in Calls : Names(c, file)' => /\ ~Refers(file)'
                                                   /\ \A d \in Calls \ {c} : ~Names(d, file)'
  BY <1>3, <1>4
<1>6. ASSUME NEW f \in Files \ {file}
      PROVE  /\ uses'[f] = 0 => /\ ~Refers(f)' /\ f \notin deleted'
                                /\ \A c \in Calls : ~Names(c, f)'
             /\ uses'[f] = 1 =>
                /\ f \in deleted' => ~Refers(f)' /\ \A c \in Calls : ~Names(c, f)'
                /\ \A c \in Calls : Names(c, f)' => /\ ~Refers(f)'
                                                    /\ \A d \in Calls \ {c} : ~Names(d, f)'
  BY <1>1 DEF Inv, Counted
<1>. QED
  BY <1>1, <1>3, <1>5, <1>6 DEF Counted

\* The request that named a file puts it to its use and ends.
LEMMA CountedEnds ==
    ASSUME Inv, NEW c \in Calls, UNCHANGED uses, \A f \in Files : ~Names(c, f)',
           \A d \in Calls \ {c}, f \in Files : Names(d, f)' => Names(d, f),
           \A f \in Files : \/ /\ Refers(f)' => Refers(f) \/ Names(c, f)
                               /\ f \in deleted' => f \in deleted
                            \/ /\ Refers(f)' => Refers(f)
                               /\ f \in deleted' => f \in deleted \/ Names(c, f)
    PROVE  Counted'
<1>1. uses' \in [Files -> Nat]
  BY DEF Inv, Counted
<1>2. ASSUME NEW f \in Files, uses[f] = 0
      PROVE  ~Refers(f)' /\ f \notin deleted' /\ \A d \in Calls : ~Names(d, f)'
  BY <1>2 DEF Inv, Counted
<1>3. ASSUME NEW f \in Files, uses[f] = 1
      PROVE  /\ f \in deleted' => ~Refers(f)' /\ \A d \in Calls : ~Names(d, f)'
             /\ \A d \in Calls : Names(d, f)' => /\ ~Refers(f)'
                                                 /\ \A e \in Calls \ {d} : ~Names(e, f)'
  <2>1. /\ f \in deleted => ~Refers(f) /\ \A d \in Calls : ~Names(d, f)
        /\ \A d \in Calls : Names(d, f) => ~Refers(f) /\ \A e \in Calls \ {d} : ~Names(e, f)
    BY <1>3 DEF Inv, Counted
  <2>2. CASE Names(c, f)
    BY <2>1, <2>2
  <2>3. CASE ~Names(c, f)
    BY <2>1, <2>3
  <2>. QED
    BY <2>2, <2>3
<1>. QED
  BY <1>1, <1>2, <1>3 DEF Counted

LEMMA NamesStay ==
    ASSUME NEW c, Same(c) PROVE \A f : Names(c, f)' <=> Names(c, f)
BY DEF Same, Names, InFlight

\* A request that arrives names the file it came with, and no other.
LEMMA ArrivedCounts ==
    ASSUME Inv, NEW c \in Calls, NEW b \in Bookings, NEW user \in Users, NEW kind, NEW arg,
           Arrive(c, kind, b, user, arg), \A d \in Calls \ {c} : Same(d),
           kind \in {"update", "processed"} => arg \in Files
    PROVE  Counted'
<1>1. /\ request'[c].kind = kind /\ request'[c].arg = arg
      /\ UNCHANGED <<deleted, versions>>
  BY Arrived
<1>2. \A f : Refers(f)' <=> Refers(f)
  BY <1>1 DEF Refers
<1>3. \A f \in Files : f # arg \/ kind \notin {"update", "processed"} => ~Names(c, f)'
  BY <1>1 DEF Names
<1>4. CASE arg \in Files
  <2>1. Named(arg)
    BY <1>4 DEF Arrive
  <2>. QED
    BY <1>1, <1>2, <1>3, <1>4, <2>1, NamesStay, CountedNamed
<1>5. CASE arg \notin Files
  <2>1. UNCHANGED uses
    BY <1>5 DEF Arrive
  <2>. QED
    BY <1>1, <1>3, <1>5, <2>1, NamesStay, CountedQuiet
<1>. QED
  BY <1>4, <1>5

LEMMA CreateCounts ==
    ASSUME Inv, NEW b \in Bookings, NEW file \in Files, CreateBooking(b, file) \/ CreateFails(file)
    PROVE  Counted'
<1>1. Named(file) /\ UNCHANGED <<pc, request>>
  BY DEF CreateBooking, CreateFails, memory
<1>2. \A c \in Calls : \A f \in Files : Names(c, f)' <=> Names(c, f)
  BY <1>1 DEF Names, InFlight
<1>3. CASE CreateBooking(b, file)
  <2>1. /\ versions' = [versions EXCEPT ![b] = {NewBooking(file)}]
        /\ UNCHANGED deleted /\ DOMAIN versions = Bookings
    BY <1>3 DEF CreateBooking, Inv, Stored
  <2>2. \A x \in Bookings : \A version \in versions'[x] :
            version \in versions[x] \/ version = NewBooking(file)
    BY <2>1
  <2>3. \A f \in Files \ {file} : Refers(f)' => Refers(f)
    BY <2>2, NewBookingFacts, BookingAssumption DEF Refers
  <2>. QED
    BY <1>1, <1>2, <2>1, <2>3, CountedNamed
<1>4. CASE CreateFails(file)
  <2>1. deleted' = deleted \cup {file} /\ UNCHANGED versions
    BY <1>4 DEF CreateFails
  <2>2. \A f \in Files : Refers(f)' <=> Refers(f)
    BY <2>1 DEF Refers
  <2>. QED
    BY <1>1, <1>2, <2>1, <2>2, CountedNamed
<1>. QED
  BY <1>3, <1>4

LEMMA RefuseProcessedCounts ==
    ASSUME Inv, NEW c \in Calls, NEW b, NEW file \in Files, RefuseProcessed(c, b, file),
           \A d \in Calls \ {c} : Same(d)
    PROVE  Counted'
<1>1. /\ pc' = [pc EXCEPT ![c] = "failed"] /\ deleted' = deleted \cup {file} /\ Named(file)
      /\ UNCHANGED versions
  BY DEF RefuseProcessed, Throws
<1>2. \A f \in Files : Refers(f)' <=> Refers(f)
  BY <1>1 DEF Refers
<1>3. \A f \in Files : ~Names(c, f)'
  BY <1>1, InvFacts DEF PCTyped, Names, InFlight, Open
<1>. QED
  BY <1>1, <1>2, <1>3, NamesStay, CountedNamed

LEMMA ArrivalsCount ==
    ASSUME Inv, NEW c \in Calls, NEW b \in Bookings, \A d \in Calls \ {c} : Same(d)
    PROVE  /\ \A f \in Files : UpdateBooking(c, b, f) \/ RefuseUpdate(c, b, f)
                               \/ UpdateProcessedFiles(c, b, f) => Counted'
           /\ \A u \in Users : ConfirmByProvider(c, b, u) \/ RefuseProvider(c, b, u)
                               \/ ConfirmByUser(c, b, u) => Counted'
           /\ \A u \in Users, r \in Ratings :
                RateBooking(c, b, u, r) \/ RefuseRating(c, b, u, r) => Counted'
           /\ SettleOtherwise(c, b, "Cancelled") => Counted'
<1>0. OwnerOf[b] \in Users
  BY BookingAssumption
<1>1. ASSUME NEW f \in Files, UpdateBooking(c, b, f) \/ RefuseUpdate(c, b, f)
                              \/ UpdateProcessedFiles(c, b, f)
      PROVE  Counted'
  <2>1. \E kind : Arrive(c, kind, b, OwnerOf[b], f)
    BY <1>1 DEF UpdateBooking, RefuseUpdate, UpdateProcessedFiles
  <2>. QED
    BY <1>0, <2>1, ArrivedCounts
<1>2. ASSUME NEW u \in Users, ConfirmByProvider(c, b, u) \/ RefuseProvider(c, b, u)
                              \/ ConfirmByUser(c, b, u)
      PROVE  Counted'
  <2>1. \E kind \in {"confirmProvider", "confirmUser"} : Arrive(c, kind, b, u, NoFile)
    BY <1>2 DEF ConfirmByProvider, RefuseProvider, ConfirmByUser
  <2>. QED
    BY <2>1, ArrivedCounts
<1>3. ASSUME NEW u \in Users, NEW r \in Ratings,
             RateBooking(c, b, u, r) \/ RefuseRating(c, b, u, r)
      PROVE  Counted'
  <2>1. Arrive(c, "rate", b, u, r)
    BY <1>3 DEF RateBooking, RefuseRating
  <2>. QED
    BY <2>1, ArrivedCounts
<1>4. ASSUME SettleOtherwise(c, b, "Cancelled") PROVE Counted'
  <2>1. Arrive(c, "settle", b, OwnerOf[b], NoFile)
    BY <1>4 DEF SettleOtherwise
  <2>. QED
    BY <1>0, <2>1, ArrivedCounts
<1>. QED
  BY <1>1, <1>2, <1>3, <1>4

LEMMA RateAppCounts ==
    ASSUME Inv, NEW c \in Calls, NEW r, RateApp(c, r) \/ RefuseRateApp(c, r),
           \A d \in Calls \ {c} : Same(d)
    PROVE  Counted'
<1>1. ArriveApp(c, r)
  BY DEF RateApp, RefuseRateApp
<1>2. request'[c].kind = "rateApp" /\ UNCHANGED <<uses, deleted, versions>>
  BY <1>1, ArrivedApp
<1>3. \A f : ~Names(c, f)'
  BY <1>2 DEF Names
<1>. QED
  BY <1>2, <1>3, NamesStay, CountedQuiet

LEMMA SettlePaidCounts ==
    ASSUME Inv, NEW c \in Calls, NEW m \in Calls, NEW b \in Bookings, SettlePaid(c, m, b)
    PROVE  Counted'
<1>. DEFINE forC == Request("settle", b, OwnerOf[b], NoFile)
            forM == Request("match", b, OwnerOf[b], c)
<1>1. /\ request' = [request EXCEPT ![c] = forC, ![m] = forM]
      /\ pc' = [pc EXCEPT ![c] = "reload", ![m] = "pick"]
      /\ UNCHANGED <<uses, deleted, versions>>
  BY DEF SettlePaid, rows
<1>2. forC.kind = "settle" /\ forM.kind = "match"
  BY RequestFacts
<1>. HIDE DEF forC, forM
<1>3. \A d \in {c, m} : request'[d].kind \in {"settle", "match"}
  BY <1>1, <1>2, InvFacts
<1>4. \A d \in Calls \ {c, m} : request'[d] = request[d] /\ pc'[d] = pc[d]
  BY <1>1, InvFacts DEF PCTyped
<1>5. \A f \in Files, d \in Calls : Names(d, f)' => Names(d, f)
  BY <1>3, <1>4 DEF Names, InFlight
<1>. QED
  BY <1>1, <1>5, CountedQuiet

LEMMA MovesCount ==
    ASSUME Inv, NEW c \in Calls,
           Pick(c) \/ Reload(c) \/ Update(c) \/ ReloadProfile(c) \/ UpdateProfile(c)
    PROVE  Counted'
<1>1. /\ pc[c] \in Open /\ \E to : pc' = [pc EXCEPT ![c] = to]
      /\ UNCHANGED <<request, uses, deleted, versions>>
  BY DEF Pick, Reload, Update, ReloadProfile, UpdateProfile, Step, rows, history, Open
<1>2. \A d \in Calls \ {c} : pc'[d] = pc[d]
  BY <1>1, InvFacts DEF PCTyped
<1>3. \A f \in Files, d \in Calls : Names(d, f)' => Names(d, f)
  BY <1>1, <1>2 DEF Names, InFlight
<1>. QED
  BY <1>1, <1>3, CountedQuiet

LEMMA CommitCounts ==
    ASSUME Inv, NEW c \in Calls, Commit(c), \A d \in Calls \ {c} : Same(d) PROVE Counted'
<1>1. /\ UNCHANGED <<uses, deleted, request>> /\ pc' = [pc EXCEPT ![c] = "committed"]
  BY DEF Commit, Step
<1>2. \A f \in Files : ~Names(c, f)'
  BY <1>1, InvFacts DEF PCTyped, Names, InFlight, Open
<1>3. ASSUME NEW f \in Files, Refers(f)' PROVE Refers(f) \/ Names(c, f)
  <2>0. PICK x \in Bookings : \E version \in versions'[x] :
            f = version.rawMediaFiles \/ f = version.processedMediaFiles
    BY <1>3 DEF Refers
  <2>1. PICK version \in versions'[x] :
            f = version.rawMediaFiles \/ f = version.processedMediaFiles
    BY <2>0
  <2>2. CASE version \in versions[x]
    BY <2>1, <2>2 DEF Refers
  <2>3. CASE version \notin versions[x]
    <3>1. x = BookingOf(c) /\ Holds(c) /\ version = booking'[x] /\ InFlight(c)
      BY <2>1, <2>3, CommitRow
    <3>2. PICK k \in {"rawMediaFiles", "processedMediaFiles"} : f = booking'[x][k]
      BY <2>1, <3>1
    <3>3. k \in BookingColumns
      BY DEF BookingColumns
    <3>4. booking[x] \in versions[x]
      BY <3>1, InvFacts DEF ObjectOK, Inv, Stored
    <3>5. CASE k \notin DOMAIN bookingSet[c]
      <4>1. f = booking[x][k]
        BY <3>1, <3>2, <3>3, <3>5, CommitRow
      <4>. QED
        BY <3>2, <3>4, <4>1 DEF Refers
    <3>6. CASE k \in DOMAIN bookingSet[c] /\ k \notin Own(c)
      <4>1. f = entity[c][k] /\ k \in DOMAIN entity[c]
        BY <3>1, <3>2, <3>6, CommitRow
      <4>2. \E old \in versions[x] : f = old[k]
        BY <3>1, <3>6, <4>1, InvFacts DEF ObjectOK
      <4>. QED
        BY <3>2, <4>2 DEF Refers
    <3>7. CASE k \in DOMAIN bookingSet[c] /\ k \in Own(c)
      <4>1. f = entity[c][k]
        BY <3>1, <3>2, <3>7, CommitRow
      <4>2. request[c].kind \in {"update", "processed", "confirmProvider", "rate", "settle", "match"}
        BY <3>1, InvFacts DEF RequestOK, Holds
      <4>3. \/ request[c].kind = "update" /\ k = "rawMediaFiles"
            \/ request[c].kind = "processed" /\ k = "processedMediaFiles"
        BY <3>2, <3>7, <4>2, Duties DEF Own
      <4>. QED
        BY <3>1, <4>1, <4>3, InvFacts DEF ObjectOK, Names
    <3>. QED
      BY <3>5, <3>6, <3>7
  <2>. QED
    BY <2>2, <2>3
<1>. QED
  BY <1>1, <1>2, <1>3, NamesStay, CountedEnds

LEMMA DatabaseErrorCounts ==
    ASSUME Inv, NEW c \in Calls, DatabaseError(c), \A d \in Calls \ {c} : Same(d) PROVE Counted'
<1>1. /\ pc[c] \in Open /\ pc' = [pc EXCEPT ![c] = "failed"] /\ UNCHANGED <<uses, versions>>
      /\ deleted' = IF request[c].kind = "processed" THEN deleted \cup {request[c].arg}
                    ELSE deleted
  BY DEF DatabaseError, history
<1>2. \A f \in Files : ~Names(c, f)'
  BY <1>1, InvFacts DEF PCTyped, Names, InFlight, Open
<1>3. \A f \in Files : (Refers(f)' => Refers(f)) /\ (f \in deleted' => f \in deleted \/ Names(c, f))
  BY <1>1 DEF Refers, Names, InFlight
<1>. QED
  BY <1>1, <1>2, <1>3, NamesStay, CountedEnds

LEMMA CrashCounts ==
    ASSUME Inv, Crash PROVE Counted'
<1>1. /\ pc' = [c \in Calls |-> IF pc[c] \in {"idle", "committed"} THEN pc[c] ELSE "lost"]
      /\ UNCHANGED <<uses, deleted, versions>>
  BY DEF Crash, rows, history
<1>2. \A c \in Calls : ~InFlight(c)'
  BY <1>1 DEF InFlight, Open
<1>. QED
  BY <1>1, <1>2, CountedQuiet DEF Names

-----------------------------------------------------------------------------
(* The arithmetic of the average.                                          *)

LEMMA Greatest ==
    ASSUME NEW d \in Nat, NEW S \in SUBSET (1..d), S # {}
    PROVE  \E g \in S : \A h \in S : h <= g
<1>. DEFINE below == {n \in Nat : d - n \in S}
<1>1. PICK g \in S : TRUE
  OBVIOUS
<1>2. d - g \in below /\ below \subseteq Nat
  BY <1>1
<1>3. PICK R : R = {ss \in Nat \X Nat : ss[1] < ss[2]} /\ IsWellFoundedOn(R, Nat)
  BY Zenon, NatLessThanWellFounded DEF OpToRel
<1>4. PICK n \in below : \A m \in below : ~ (<<m, n>> \in R)
  BY <1>2, <1>3, WFMin
<1>5. ASSUME NEW h \in S PROVE h <= d - n
  <2>1. d - h \in below
    BY <1>5
  <2>2. ~ (<<d - h, n>> \in R)
    BY <1>4, <2>1
  <2>3. d - h \in Nat /\ n \in Nat
    BY <2>1
  <2>4. ~ (d - h < n)
    BY <1>3, <2>2, <2>3
  <2>5. h \in 1..d
    OBVIOUS
  <2>. QED
    BY <2>3, <2>4, <2>5
<1>. QED
  BY <1>5

LEMMA Divided ==
    ASSUME NEW n \in Nat, NEW g \in Nat \ {0}, n % g = 0
    PROVE  n = g * (n \div g) /\ n \div g \in Nat
OBVIOUS

\* A fraction in lowest terms is the fraction it comes from.
LEMMA ReducedFacts ==
    ASSUME NEW n \in Nat, NEW d \in Nat \ {0}
    PROVE  \E g \in Nat \ {0}, n1 \in Nat, d1 \in Nat \ {0} :
                n = g * n1 /\ d = g * d1 /\ Reduced(n, d) = <<n1, d1>>
<1>. DEFINE S == {g \in 1..d : n % g = 0 /\ d % g = 0}
<1>1. 1 \in S
  OBVIOUS
<1>2. PICK g \in S : \A h \in S : h <= g
  BY <1>1, Greatest
<1>3. \E z \in 1..d : /\ n % z = 0 /\ d % z = 0
                      /\ \A h \in 1..d : n % h = 0 /\ d % h = 0 => h <= z
  BY <1>2
<1>. DEFINE z == CHOOSE z \in 1..d : /\ n % z = 0 /\ d % z = 0
                                     /\ \A h \in 1..d : n % h = 0 /\ d % h = 0 => h <= z
<1>4. z \in 1..d /\ n % z = 0 /\ d % z = 0
  BY <1>3
<1>5. Reduced(n, d) = <<n \div z, d \div z>>
  BY DEF Reduced
<1>. HIDE DEF z
<1>6. z \in Nat \ {0}
  BY <1>4
<1>7. n = z * (n \div z) /\ n \div z \in Nat /\ d = z * (d \div z) /\ d \div z \in Nat
  BY <1>4, <1>6, Divided
<1>8. d \div z # 0
  BY <1>6, <1>7
<1>. QED
  BY <1>5, <1>6, <1>7, <1>8

\* Multiplication keeps the order, and what was multiplied on both sides cancels.
LEMMA Product ==
    ASSUME NEW a \in Nat, NEW b \in Nat
    PROVE  a * b \in Nat /\ a * b = b * a /\ (a # 0 /\ b # 0 => a * b # 0)
OBVIOUS

LEMMA Scaled ==
    ASSUME NEW a \in Nat, NEW b \in Nat, NEW g \in Nat, a <= b
    PROVE  a * g <= b * g
OBVIOUS

LEMMA Cancel ==
    ASSUME NEW a \in Nat, NEW b \in Nat, NEW g \in Nat \ {0}
    PROVE  (g * a <= g * b => a <= b) /\ (g * a = g * b => a = b)
OBVIOUS

LEMMA Regroup ==
    ASSUME NEW a \in Nat, NEW b \in Nat, NEW g \in Nat
    PROVE  (g * a) * b = g * (a * b) /\ a * (g * b) = g * (a * b)
OBVIOUS

\* The average of k ratings and one more, before it is reduced: still between two
\* ratings given, and k + 1 times the average still is the sum.
LEMMA Averaged ==
    ASSUME NEW x \in Nat, NEW y \in Nat \ {0}, NEW k \in Nat, NEW r \in Nat
    PROVE  /\ x * k + r * y \in Nat /\ y * (k + 1) \in Nat \ {0}
           /\ \A low \in Nat : (k = 0 \/ low * y <= x) /\ low <= r
                => low * (y * (k + 1)) <= x * k + r * y
           /\ \A high \in Nat : (k = 0 \/ x <= high * y) /\ r <= high
                => x * k + r * y <= high * (y * (k + 1))
           /\ \A sum \in Nat : x * k = sum * y => x * k + r * y = (sum + r) * y
<1>1. x * k \in Nat /\ r * y \in Nat /\ y * (k + 1) \in Nat \ {0} /\ y * k \in Nat
  BY Product
<1>2. \A a \in Nat : a * (y * (k + 1)) = (a * y) * k + a * y
  OBVIOUS
<1>3. ASSUME NEW low \in Nat, k = 0 \/ low * y <= x, low <= r
      PROVE  low * (y * (k + 1)) <= x * k + r * y
  <2>1. low * y <= r * y /\ low * y \in Nat
    BY <1>3, Scaled, Product
  <2>2. (low * y) * k <= x * k /\ (low * y) * k \in Nat
    BY <1>3, <2>1, Scaled, Product
  <2>. QED
    BY <1>1, <1>2, <2>1, <2>2
<1>4. ASSUME NEW high \in Nat, k = 0 \/ x <= high * y, r <= high
      PROVE  x * k + r * y <= high * (y * (k + 1))
  <2>1. r * y <= high * y /\ high * y \in Nat
    BY <1>4, Scaled, Product
  <2>2. x * k <= (high * y) * k /\ (high * y) * k \in Nat
    BY <1>4, <2>1, Scaled, Product
  <2>. QED
    BY <1>1, <1>2, <2>1, <2>2
<1>5. ASSUME NEW sum \in Nat, x * k = sum * y PROVE x * k + r * y = (sum + r) * y
  BY <1>5
<1>. QED
  BY <1>1, <1>3, <1>4, <1>5

\* What a new rating makes of the number and the average.
LEMMA RatedFacts ==
    ASSUME NEW row, RatingTyped(row), NEW rating \in Ratings,
           row.noOfRatings = 0 \/ Within(row.averageRating)
    PROVE  LET new == WithRating(row, rating)
           IN  /\ RatingTyped(new) /\ DOMAIN new = DOMAIN NewProvider
               /\ new.noOfRatings = row.noOfRatings + 1
               /\ Within(new.averageRating)
               /\ \A sum \in Nat :
                    row.averageRating[1] * row.noOfRatings = sum * row.averageRating[2]
                    => new.averageRating[1] * (row.noOfRatings + 1)
                        = (sum + rating) * new.averageRating[2]
<1>. DEFINE x == row.averageRating[1]
            y == row.averageRating[2]
            k == row.noOfRatings
            new == WithRating(row, rating)
            n == x * k + rating * y
            d == y * (k + 1)
<1>1. /\ DOMAIN new = DOMAIN NewProvider /\ new.noOfRatings = k + 1
      /\ new.averageRating = Reduced(n, d)
  BY DEF WithRating, NewProvider
<1>2. x \in Nat /\ y \in Nat \ {0} /\ k \in Nat /\ rating \in Nat \ {0} /\ Ratings \subseteq Nat
  BY BookingAssumption DEF RatingTyped
<1>3. k = 0 \/ \E low, high \in Ratings : low * y <= x /\ x <= high * y
  BY DEF Within
<1>. HIDE DEF x, y, k, new
<1>4. /\ n \in Nat /\ d \in Nat \ {0}
      /\ \A low \in Nat : (k = 0 \/ low * y <= x) /\ low <= rating => low * d <= n
      /\ \A high \in Nat : (k = 0 \/ x <= high * y) /\ rating <= high => n <= high * d
      /\ \A sum \in Nat : x * k = sum * y => n = (sum + rating) * y
  BY <1>2, Averaged
<1>. HIDE DEF n
<1>5. PICK g \in Nat \ {0}, n1 \in Nat, d1 \in Nat \ {0} :
            n = g * n1 /\ d = g * d1 /\ Reduced(n, d) = <<n1, d1>>
  BY <1>4, ReducedFacts
<1>6. new.averageRating = <<n1, d1>>
  BY <1>1, <1>5
<1>7. RatingTyped(new)
  BY <1>1, <1>2, <1>6 DEF RatingTyped
<1>8. \E low \in Ratings : low * d1 <= n1
  <2>1. PICK low \in Ratings : (k = 0 \/ low * y <= x) /\ low <= rating
    <3>1. CASE k = 0
      BY <1>2, <3>1
    <3>2. CASE k # 0
      <4>1. PICK low \in Ratings : low * y <= x
        BY <1>3, <3>2
      <4>2. CASE low <= rating
        BY <4>1, <4>2
      <4>3. CASE ~ (low <= rating)
        <5>1. rating * y <= low * y /\ rating * y \in Nat /\ low * y \in Nat
          BY <1>2, <4>3, Scaled, Product
        <5>. QED
          BY <1>2, <4>1, <5>1
      <4>. QED
        BY <4>2, <4>3
    <3>. QED
      BY <3>1, <3>2
  <2>2. low * (g * d1) <= g * n1 /\ low \in Nat
    BY <1>2, <1>4, <1>5, <2>1
  <2>3. g * (low * d1) <= g * n1 /\ low * d1 \in Nat
    BY <2>2, Regroup, Product
  <2>. QED
    BY <2>3, Cancel
<1>9. \E high \in Ratings : n1 <= high * d1
  <2>1. PICK high \in Ratings : (k = 0 \/ x <= high * y) /\ rating <= high
    <3>1. CASE k = 0
      BY <1>2, <3>1
    <3>2. CASE k # 0
      <4>1. PICK high \in Ratings : x <= high * y
        BY <1>3, <3>2
      <4>2. CASE rating <= high
        BY <4>1, <4>2
      <4>3. CASE ~ (rating <= high)
        <5>1. high * y <= rating * y /\ rating * y \in Nat /\ high * y \in Nat
          BY <1>2, <4>3, Scaled, Product
        <5>. QED
          BY <1>2, <4>1, <5>1
      <4>. QED
        BY <4>2, <4>3
    <3>. QED
      BY <3>1, <3>2
  <2>2. g * n1 <= high * (g * d1) /\ high \in Nat
    BY <1>2, <1>4, <1>5, <2>1
  <2>3. g * n1 <= g * (high * d1) /\ high * d1 \in Nat
    BY <2>2, Regroup, Product
  <2>. QED
    BY <2>3, Cancel
<1>10. ASSUME NEW sum \in Nat, x * k = sum * y PROVE n1 * (k + 1) = (sum + rating) * d1
  <2>. DEFINE all == sum + rating
  <2>1. all \in Nat /\ g * n1 = all * y
    BY <1>2, <1>4, <1>5, <1>10
  <2>. HIDE DEF all
  <2>2. g * (n1 * (k + 1)) = (g * n1) * (k + 1) /\ n1 * (k + 1) \in Nat
    BY <1>2, Regroup, Product
  <2>3. (all * y) * (k + 1) = all * d
    BY <1>2, <2>1
  <2>4. all * (g * d1) = g * (all * d1) /\ all * d1 \in Nat
    BY <2>1, Regroup, Product
  <2>5. g * (n1 * (k + 1)) = g * (all * d1)
    BY <1>5, <2>1, <2>2, <2>3, <2>4
  <2>6. n1 * (k + 1) = all * d1
    BY <2>2, <2>4, <2>5, Cancel
  <2>. QED
    BY <2>6 DEF all
<1>11. Within(new.averageRating)
  BY <1>6, <1>8, <1>9 DEF Within
<1>. QED
  BY <1>1, <1>2, <1>6, <1>7, <1>10, <1>11 DEF x, y, k, new

\* An average that is within the ratings is not that of a provider nobody rated.
LEMMA WithinPositive ==
    ASSUME NEW average \in Nat \X (Nat \ {0}), Within(average) PROVE average # <<0, 1>>
BY BookingAssumption, Product DEF Within

-----------------------------------------------------------------------------
(* The ratings.                                                            *)

RatingFacts(c) == InFlight(c) /\ IsRating(c)

\* Request d rates what it rated, with the object it had.
Rerates(d) == RatingFacts(d)' =>
    /\ RatingFacts(d) /\ Rated(d)' = Rated(d) /\ request'[d].arg = request[d].arg
    /\ profile'[d] = profile[d] /\ profileSet'[d] = profileSet[d]
    /\ pc'[d] \in {"updateProfile", "commit"} => pc[d] \in {"updateProfile", "commit"}

LEMMA SameRerates == ASSUME NEW c, Same(c) PROVE Rerates(c)
BY DEF Same, Rerates, RatingFacts, InFlight, IsRating, Rated

LEMMA RatingsFacts ==
    ASSUME Inv
    PROVE  /\ ProvidersTyped /\ DOMAIN reviews = Providers
           /\ \A p \in Providers : ProviderOK(p)
           /\ \A c \in Calls : ProfileOK(c) /\ (RatingFacts(c) => Rated(c) \in Providers
                                                                  /\ request[c].arg \in Ratings)
           /\ \A c, d \in Calls : \A p \in Providers :
                c # d /\ Rates(c, p) /\ Rates(d, p) => p \in contended
           /\ RatingsExact
BY InvFacts DEF Inv, RatingsOK, RatingFacts, RequestOK

LEMMA ProfileStays ==
    ASSUME Inv, NEW c \in Calls, Rerates(c), UNCHANGED <<provider, reviews>>,
           contended \subseteq contended'
    PROVE  ProfileOK(c)'
BY InvFacts DEF Rerates, RatingFacts, ProfileOK

\* No rating is begun, and none committed.
LEMMA RatingsQuiet ==
    ASSUME Inv, UNCHANGED <<provider, reviews>>, contended \subseteq contended',
           contended' \subseteq Providers, \A c \in Calls : Rerates(c)
    PROVE  RatingsOK'
<1>1. \A c \in Calls : ProfileOK(c)'
  BY ProfileStays
<1>2. \A c \in Calls, p \in Providers : Rates(c, p)' => Rates(c, p)
  BY DEF Rerates, RatingFacts, Rates
<1>3. \A p \in Providers : ProviderOK(p)'
  BY RatingsFacts DEF ProviderOK
<1>4. ProvidersTyped'
  BY RatingsFacts DEF ProvidersTyped
<1>5. RatingsExact'
  BY RatingsFacts DEF RatingsExact
<1>. QED
  BY <1>1, <1>2, <1>3, <1>4, <1>5, RatingsFacts DEF RatingsOK

\* Request c reads provider p and adds its rating to what it read.
LEMMA RatingsFold ==
    ASSUME Inv, NEW c \in Calls, NEW p \in Providers, NEW rating \in Ratings,
           UNCHANGED <<provider, reviews>>, FoldsIn(c, p, rating), DOMAIN profile' = Calls,
           \A d \in Calls \ {c} : Same(d), pc'[c] \in {"reload", "reloadProfile"},
           Rated(c)' = p, request'[c].arg = rating
    PROVE  RatingsOK'
<1>1. profile'[c] = WithRating(provider[p], rating)
  BY InvFacts DEF FoldsIn
<1>2. /\ contended \subseteq contended' /\ contended' \subseteq Providers
      /\ \A d \in Calls \ {c} : Rates(d, p) => p \in contended'
  BY RatingsFacts DEF FoldsIn, ProvidersTyped, Rates
<1>3. /\ RatingTyped(provider[p]) /\ provider[p].noOfRatings <= reviews[p].number
      /\ reviews[p].number \in Nat
      /\ provider[p].noOfRatings = 0 \/ Within(provider[p].averageRating)
  <2>1. ProviderOK(p)
    BY RatingsFacts
  <2>. QED
    BY <2>1 DEF ProviderOK, NewProvider
<1>4. PICK new : new = WithRating(provider[p], rating)
  OBVIOUS
<1>5. /\ RatingTyped(new) /\ Within(new.averageRating) /\ DOMAIN new = DOMAIN NewProvider
      /\ new.noOfRatings = provider[p].noOfRatings + 1
  BY <1>3, <1>4, RatedFacts
<1>6. new.noOfRatings <= reviews[p].number + 1
  <2>1. provider[p].noOfRatings \in Nat
    BY <1>3 DEF RatingTyped
  <2>. QED
    BY <1>3, <1>5, <2>1
<1>7. ProfileOK(c)'
  BY <1>1, <1>4, <1>5, <1>6 DEF ProfileOK
<1>8. \A d \in Calls \ {c} : Rerates(d)
  BY SameRerates
<1>9. \A d \in Calls : ProfileOK(d)'
  BY <1>2, <1>7, <1>8, ProfileStays
<1>10. \A d \in Calls \ {c}, q \in Providers : Rates(d, q)' => Rates(d, q)
  BY <1>8 DEF Rerates, RatingFacts, Rates
<1>11. \A q \in Providers : Rates(c, q)' => q = p
  BY DEF Rates
<1>12. \A d, e \in Calls : \A q \in Providers :
            d # e /\ Rates(d, q)' /\ Rates(e, q)' => q \in contended'
  BY <1>2, <1>10, <1>11, RatingsFacts
<1>13. \A q \in Providers : ProviderOK(q)'
  BY RatingsFacts DEF ProviderOK
<1>14. ProvidersTyped'
  BY <1>2, RatingsFacts DEF ProvidersTyped
<1>15. RatingsExact'
  BY <1>2, RatingsFacts DEF RatingsExact
<1>. QED
  BY <1>9, <1>12, <1>13, <1>14, <1>15, RatingsFacts DEF RatingsOK

LEMMA RatingsReload ==
    ASSUME Inv, NEW c \in Calls, ReloadProfile(c) PROVE RatingsOK'
<1>. DEFINE p == Rated(c)
<1>1. /\ pc[c] = "reloadProfile" /\ pc' = [pc EXCEPT ![c] = "updateProfile"]
      /\ profileSet' = [profileSet EXCEPT ![c] = Changed(profile[c], provider[p])]
      /\ UNCHANGED <<provider, reviews, contended, request, entity, bookingSet, profile>>
  BY DEF ReloadProfile, Step, rows, history
<1>2. RatingFacts(c) /\ p \in Providers
  BY <1>1, InvFacts DEF RequestOK, RatingFacts, InFlight, Open
<1>3. \A d \in Calls \ {c} : Rerates(d)
  BY <1>1, InvFacts DEF PCTyped, Rerates, RatingFacts, InFlight, IsRating, Rated
<1>4. pc'[c] = "updateProfile" /\ Rated(c)' = p /\ RatingFacts(c)'
  BY <1>1, <1>2, InvFacts DEF PCTyped, Rated, RatingFacts, InFlight, Open, IsRating
<1>5. profileSet'[c] = Changed(profile[c], provider[p])
  BY <1>1, InvFacts
<1>6. ProfileOK(c)'
  <2>1. /\ RatingTyped(profile[c]) /\ Within(profile[c].averageRating)
        /\ DOMAIN profile[c] = DOMAIN NewProvider
        /\ profile[c].noOfRatings <= reviews[p].number + 1
        /\ p \notin contended => profile[c] = WithRating(provider[p], request[c].arg)
    BY <1>2, InvFacts DEF ProfileOK, RatingFacts
  <2>2. "averageRating" \in DOMAIN profile[c]
    BY <2>1 DEF NewProvider
  <2>3. ASSUME reviews[p].number = 0 PROVE "averageRating" \in DOMAIN profileSet'[c]
    <3>1. provider[p] = NewProvider
      BY <1>2, <2>3, RatingsFacts DEF ProviderOK
    <3>2. profile[c].averageRating # provider[p].averageRating
      BY <2>1, <3>1, WithinPositive DEF RatingTyped, NewProvider
    <3>. QED
      BY <1>5, <2>2, <3>2, ChangedFacts
  <2>4. \A k \in DOMAIN profileSet'[c] : profileSet'[c][k] = profile[c][k]
    BY <1>5, ChangedFacts
  <2>. QED
    BY <1>1, <1>4, <1>5, <2>1, <2>3, <2>4 DEF ProfileOK, RatingFacts
<1>7. \A d \in Calls : ProfileOK(d)'
  BY <1>1, <1>3, <1>6, ProfileStays
<1>8. \A d \in Calls, q \in Providers : Rates(d, q)' => Rates(d, q)
  BY <1>2, <1>3, <1>4 DEF Rerates, RatingFacts, Rates
<1>9. \A q \in Providers : ProviderOK(q)'
  BY <1>1, RatingsFacts DEF ProviderOK
<1>10. ProvidersTyped'
  BY <1>1, RatingsFacts DEF ProvidersTyped
<1>11. RatingsExact'
  BY <1>1, RatingsFacts DEF RatingsExact
<1>. QED
  BY <1>1, <1>7, <1>8, <1>9, <1>10, <1>11, RatingsFacts DEF RatingsOK

\* What a rating leaves of its provider: each column is the one of its object, or the one
\* that was there.
LEMMA Rewritten ==
    ASSUME Inv, NEW c \in Calls, RatingFacts(c), pc[c] = "commit"
    PROVE  LET p == Rated(c)
               new == Overlay(provider[p], profileSet[c])
           IN  /\ RatingTyped(new) /\ Within(new.averageRating)
               /\ DOMAIN new = DOMAIN NewProvider
               /\ new.noOfRatings <= reviews[p].number + 1
               /\ p \notin contended =>
                    /\ new.noOfRatings = reviews[p].number + 1
                    /\ new.averageRating[1] * (reviews[p].number + 1)
                        = (reviews[p].sum + request[c].arg) * new.averageRating[2]
<1>. DEFINE p == Rated(c)
            new == Overlay(provider[p], profileSet[c])
<1>1. p \in Providers /\ request[c].arg \in Ratings
  BY RatingsFacts
<1>2. /\ RatingTyped(profile[c]) /\ Within(profile[c].averageRating)
      /\ DOMAIN profile[c] = DOMAIN NewProvider
      /\ profile[c].noOfRatings <= reviews[p].number + 1
      /\ p \notin contended => profile[c] = WithRating(provider[p], request[c].arg)
      /\ \A k \in DOMAIN profileSet[c] : profileSet[c][k] = profile[c][k]
      /\ reviews[p].number = 0 => "averageRating" \in DOMAIN profileSet[c]
      /\ p \notin contended => profileSet[c] = Changed(profile[c], provider[p])
  BY InvFacts DEF ProfileOK, RatingFacts
<1>3. /\ RatingTyped(provider[p])
      /\ reviews[p].number \in Nat /\ reviews[p].sum \in Nat
      /\ reviews[p].number > 0 => Within(provider[p].averageRating)
      /\ provider[p].noOfRatings <= reviews[p].number
      /\ provider[p].noOfRatings = 0 \/ Within(provider[p].averageRating)
      /\ DOMAIN provider[p] = DOMAIN NewProvider
  <2>1. ProviderOK(p) /\ ProvidersTyped
    BY <1>1, RatingsFacts
  <2>. QED
    BY <1>1, <2>1 DEF ProviderOK, ProvidersTyped, NewProvider
<1>. HIDE DEF p
<1>4. /\ DOMAIN new = DOMAIN NewProvider
      /\ \A k \in DOMAIN NewProvider :
            /\ k \in DOMAIN profileSet[c] => new[k] = profile[c][k]
            /\ k \notin DOMAIN profileSet[c] => new[k] = provider[p][k]
  BY <1>2, <1>3, OverlayFacts
<1>5. DOMAIN NewProvider = {"averageRating", "noOfRatings"}
  BY DEF NewProvider
<1>. HIDE DEF new
<1>6. /\ new.averageRating \in {profile[c].averageRating, provider[p].averageRating}
      /\ new.noOfRatings \in {profile[c].noOfRatings, provider[p].noOfRatings}
  BY <1>4, <1>5
<1>7. RatingTyped(new)
  BY <1>2, <1>3, <1>6 DEF RatingTyped
<1>8. Within(new.averageRating)
  <2>1. CASE "averageRating" \in DOMAIN profileSet[c]
    BY <1>2, <1>4, <1>5, <2>1
  <2>2. CASE "averageRating" \notin DOMAIN profileSet[c]
    <3>1. new.averageRating = provider[p].averageRating
      BY <1>4, <1>5, <2>2
    <3>2. reviews[p].number > 0
      BY <1>2, <1>3, <2>2
    <3>. QED
      BY <1>3, <3>1, <3>2
  <2>. QED
    BY <2>1, <2>2
<1>9. new.noOfRatings <= reviews[p].number + 1
  BY <1>2, <1>3, <1>6 DEF RatingTyped
<1>10. ASSUME p \notin contended
       PROVE  /\ new.noOfRatings = reviews[p].number + 1
              /\ new.averageRating[1] * (reviews[p].number + 1)
                    = (reviews[p].sum + request[c].arg) * new.averageRating[2]
  <2>1. \A k \in DOMAIN NewProvider : new[k] = profile[c][k]
    BY <1>2, <1>4, <1>10, ChangedFacts
  <2>2. new.averageRating = profile[c].averageRating /\ new.noOfRatings = profile[c].noOfRatings
    BY <1>5, <2>1
  <2>3. PICK made : made = WithRating(provider[p], request[c].arg)
    OBVIOUS
  <2>4. /\ made.noOfRatings = provider[p].noOfRatings + 1
        /\ \A sum \in Nat :
            provider[p].averageRating[1] * provider[p].noOfRatings
                    = sum * provider[p].averageRating[2]
            => made.averageRating[1] * (provider[p].noOfRatings + 1)
                    = (sum + request[c].arg) * made.averageRating[2]
    BY <1>1, <1>3, <2>3, RatedFacts
  <2>5. /\ provider[p].noOfRatings = reviews[p].number
        /\ provider[p].averageRating[1] * reviews[p].number
            = reviews[p].sum * provider[p].averageRating[2]
    BY <1>1, <1>10, RatingsFacts DEF RatingsExact
  <2>6. profile[c] = made
    BY <1>2, <1>10, <2>3
  <2>7. made.averageRating[1] * (reviews[p].number + 1)
            = (reviews[p].sum + request[c].arg) * made.averageRating[2]
    BY <1>3, <2>4, <2>5
  <2>. QED
    BY <2>2, <2>4, <2>5, <2>6, <2>7
<1>. QED
  BY <1>4, <1>7, <1>8, <1>9, <1>10 DEF p, new

LEMMA RatingsCommit ==
    ASSUME Inv, NEW c \in Calls, Commit(c), \A d \in Calls \ {c} : Same(d) PROVE RatingsOK'
<1>0. PICK p : p = Rated(c)
  OBVIOUS
<1>1. /\ pc[c] = "commit" /\ pc' = [pc EXCEPT ![c] = "committed"] /\ UNCHANGED contended
      /\ provider' = IF IsRating(c)
                     THEN [provider EXCEPT ![p] = Overlay(provider[p], profileSet[c])]
                     ELSE provider
      /\ reviews' = IF IsRating(c)
                    THEN [reviews EXCEPT ![p] = [number |-> reviews[p].number + 1,
                                                 sum |-> reviews[p].sum + request[c].arg]]
                    ELSE reviews
  BY <1>0 DEF Commit, Step, CommitRows, RecordCommit
<1>2. \A d \in Calls \ {c} : Rerates(d)
  BY SameRerates
<1>3. ~RatingFacts(c)' /\ Rerates(c)
  BY <1>1, InvFacts DEF PCTyped, Rerates, RatingFacts, InFlight, Open
<1>4. CASE ~IsRating(c)
  <2>1. UNCHANGED <<provider, reviews>> /\ contended \subseteq contended'
        /\ contended' \subseteq Providers
    BY <1>1, <1>4, RatingsFacts DEF ProvidersTyped
  <2>. QED
    BY <1>2, <1>3, <2>1, RatingsQuiet
<1>5. CASE IsRating(c)
  <2>1. RatingFacts(c)
    BY <1>1, <1>5 DEF RatingFacts, InFlight, Open
  <2>2. p \in Providers /\ request[c].arg \in Nat
    BY <1>0, <2>1, RatingsFacts, BookingAssumption
  <2>3. PICK new : new = Overlay(provider[p], profileSet[c])
    OBVIOUS
  <2>4. /\ RatingTyped(new) /\ Within(new.averageRating) /\ DOMAIN new = DOMAIN NewProvider
        /\ new.noOfRatings <= reviews[p].number + 1
        /\ p \notin contended =>
            /\ new.noOfRatings = reviews[p].number + 1
            /\ new.averageRating[1] * (reviews[p].number + 1)
                = (reviews[p].sum + request[c].arg) * new.averageRating[2]
    BY <1>0, <1>1, <2>1, <2>3, Rewritten
  <2>5. PICK all : all = [number |-> reviews[p].number + 1,
                          sum |-> reviews[p].sum + request[c].arg]
    OBVIOUS
  <2>6. reviews[p].number \in Nat /\ reviews[p].sum \in Nat
    BY <2>2, RatingsFacts DEF ProviderOK
  <2>7. /\ all.number = reviews[p].number + 1 /\ all.sum = reviews[p].sum + request[c].arg
        /\ all.number \in Nat /\ all.sum \in Nat /\ all.number > 0
    BY <2>2, <2>5, <2>6
  <2>8. provider' = [provider EXCEPT ![p] = new] /\ reviews' = [reviews EXCEPT ![p] = all]
    BY <1>1, <1>5, <2>3, <2>5
  <2>9. /\ DOMAIN provider' = Providers /\ DOMAIN reviews' = Providers
        /\ provider'[p] = new /\ reviews'[p] = all
        /\ \A q \in Providers \ {p} : provider'[q] = provider[q] /\ reviews'[q] = reviews[q]
    BY <2>2, <2>8, RatingsFacts DEF ProvidersTyped
  <2>10. \A q \in Providers : ProviderOK(q)'
    <3>1. ProviderOK(p)'
      BY <2>4, <2>7, <2>9 DEF ProviderOK
    <3>2. ASSUME NEW q \in Providers \ {p} PROVE ProviderOK(q)'
      <4>1. ProviderOK(q)
        BY RatingsFacts
      <4>. QED
        BY <2>9, <4>1 DEF ProviderOK
    <3>. QED
      BY <3>1, <3>2
  <2>11. ProvidersTyped'
    <3>1. new.noOfRatings \in Nat
      BY <2>4 DEF RatingTyped
    <3>. QED
      BY <1>1, <2>4, <2>9, <3>1, RatingsFacts DEF ProvidersTyped
  <2>12. RatingsExact'
    <3>1. ASSUME NEW q \in Providers \ contended, q # p
          PROVE  /\ provider'[q].noOfRatings = reviews'[q].number
                 /\ provider'[q].averageRating[1] * reviews'[q].number
                        = reviews'[q].sum * provider'[q].averageRating[2]
      BY <2>9, <3>1, RatingsFacts DEF RatingsExact
    <3>2. ASSUME p \notin contended
          PROVE  /\ provider'[p].noOfRatings = reviews'[p].number
                 /\ provider'[p].averageRating[1] * reviews'[p].number
                        = reviews'[p].sum * provider'[p].averageRating[2]
      BY <2>4, <2>7, <2>9, <3>2
    <3>. QED
      BY <1>1, <3>1, <3>2 DEF RatingsExact
  <2>13. ASSUME NEW d \in Calls \ {c} PROVE ProfileOK(d)'
    <3>. SUFFICES ASSUME RatingFacts(d)' PROVE ProfileOK(d)'
      BY DEF ProfileOK, RatingFacts
    <3>0. Same(d) /\ RatingFacts(d) /\ Rated(d)' = Rated(d)
      BY <1>2 DEF Rerates
    <3>1. ProfileOK(d) /\ Rated(d) \in Providers
      BY <3>0, RatingsFacts
    <3>2. CASE Rated(d) = p
      <4>1. Rates(c, p) /\ Rates(d, p)
        BY <1>0, <2>1, <3>0, <3>2 DEF Rates, RatingFacts
      <4>2. p \in contended
        BY <2>2, <4>1, RatingsFacts
      <4>3. profile[d].noOfRatings <= all.number + 1
        <5>1. profile[d].noOfRatings \in Nat /\ profile[d].noOfRatings <= reviews[p].number + 1
          BY <3>0, <3>1, <3>2 DEF ProfileOK, RatingFacts, RatingTyped
        <5>. QED
          BY <2>6, <2>7, <5>1
      <4>. QED
        BY <1>1, <2>7, <2>9, <3>0, <3>1, <3>2, <4>2, <4>3 DEF ProfileOK, RatingFacts, Same
    <3>3. CASE Rated(d) # p
      BY <1>1, <2>9, <3>0, <3>1, <3>3 DEF ProfileOK, RatingFacts, Same
    <3>. QED
      BY <3>2, <3>3
  <2>14. ProfileOK(c)'
    BY <1>3 DEF ProfileOK, RatingFacts
  <2>15. \A d \in Calls, q \in Providers : Rates(d, q)' => Rates(d, q)
    BY <1>2, <1>3 DEF Rerates, RatingFacts, Rates
  <2>. QED
    BY <1>1, <2>9, <2>10, <2>11, <2>12, <2>13, <2>14, <2>15, RatingsFacts DEF RatingsOK
<1>. QED
  BY <1>4, <1>5

\* Request c rates nothing after the step, and nothing else happens to the ratings.
LEMMA RatingsEnd ==
    ASSUME Inv, NEW c \in Calls, \A d \in Calls \ {c} : Same(d),
           UNCHANGED <<provider, reviews, contended>>, ~RatingFacts(c)'
    PROVE  RatingsOK'
<1>1. \A d \in Calls : Rerates(d)
  BY SameRerates DEF Rerates
<1>. QED
  BY <1>1, RatingsFacts, RatingsQuiet DEF ProvidersTyped

LEMMA ArrivalsRate ==
    ASSUME Inv, NEW c \in Calls, NEW b \in Bookings, \A d \in Calls \ {c} : Same(d)
    PROVE  /\ \A f \in Files : UpdateBooking(c, b, f) \/ RefuseUpdate(c, b, f)
                               \/ UpdateProcessedFiles(c, b, f) => RatingsOK'
           /\ \A u \in Users : ConfirmByProvider(c, b, u) \/ RefuseProvider(c, b, u)
                               \/ ConfirmByUser(c, b, u) => RatingsOK'
           /\ \A u \in Users, r \in Ratings :
                RateBooking(c, b, u, r) \/ RefuseRating(c, b, u, r) => RatingsOK'
           /\ SettleOtherwise(c, b, "Cancelled") => RatingsOK'
<1>0. OwnerOf[b] \in Users
  BY BookingAssumption
<1>1. ASSUME Throws(c), UNCHANGED <<provider, reviews>> PROVE RatingsOK'
  <2>1. pc' = [pc EXCEPT ![c] = "failed"] /\ UNCHANGED contended
    BY <1>1 DEF Throws
  <2>2. ~RatingFacts(c)'
    BY <2>1, InvFacts DEF PCTyped, RatingFacts, InFlight, Open
  <2>. QED
    BY <1>1, <2>1, <2>2, RatingsEnd
<1>2. ASSUME NEW f \in Files, UpdateBooking(c, b, f) \/ RefuseUpdate(c, b, f)
                              \/ UpdateProcessedFiles(c, b, f)
      PROVE  RatingsOK'
  <2>1. PICK kind \in {"update", "processed"} : Arrive(c, kind, b, OwnerOf[b], f)
    BY <1>2 DEF UpdateBooking, RefuseUpdate, UpdateProcessedFiles
  <2>2. request'[c].kind = kind /\ UNCHANGED <<provider, reviews>>
    BY <1>0, <2>1, Arrived
  <2>3. ~RatingFacts(c)'
    BY <2>1, <2>2 DEF RatingFacts, IsRating
  <2>4. Throws(c) \/ UNCHANGED contended
    BY <1>2 DEF UpdateBooking, RefuseUpdate, UpdateProcessedFiles
  <2>. QED
    BY <1>1, <2>2, <2>3, <2>4, RatingsEnd
<1>3. ASSUME NEW u \in Users, ConfirmByProvider(c, b, u) \/ RefuseProvider(c, b, u)
                              \/ ConfirmByUser(c, b, u)
      PROVE  RatingsOK'
  <2>1. PICK kind \in {"confirmProvider", "confirmUser"} : Arrive(c, kind, b, u, NoFile)
    BY <1>3 DEF ConfirmByProvider, RefuseProvider, ConfirmByUser
  <2>2. request'[c].kind = kind /\ UNCHANGED <<provider, reviews>>
    BY <2>1, Arrived
  <2>3. ~RatingFacts(c)'
    BY <2>1, <2>2 DEF RatingFacts, IsRating
  <2>4. Throws(c) \/ UNCHANGED contended
    BY <1>3 DEF ConfirmByProvider, RefuseProvider, ConfirmByUser
  <2>. QED
    BY <1>1, <2>2, <2>3, <2>4, RatingsEnd
<1>4. ASSUME NEW u \in Users, NEW r \in Ratings, RateBooking(c, b, u, r) PROVE RatingsOK'
  <2>. DEFINE object == Overlay(Loaded(b, WithProvider), [rating |-> r])
  <2>1. PICK p : p = booking[b].aidServiceProfile
    OBVIOUS
  <2>2. /\ Arrive(c, "rate", b, u, r) /\ Saving(c, object)
        /\ p # NoProvider /\ FoldsIn(c, p, r)
    BY <1>4, <2>1 DEF RateBooking
  <2>3. b \in created /\ request'[c].kind = "rate" /\ request'[c].arg = r
        /\ UNCHANGED <<provider, reviews>>
    BY <2>2, Arrived
  <2>4. p \in Providers
    BY <2>1, <2>2, <2>3 DEF Inv, Stored
  <2>5. pc' = [pc EXCEPT ![c] = "reload"] /\ entity' = [entity EXCEPT ![c] = object]
    BY <2>2 DEF Saving
  <2>6. "aidServiceProfile" \in BookingColumns /\ DOMAIN [rating |-> r] = {"rating"}
    BY DEF BookingColumns
  <2>7. object.aidServiceProfile = p
    BY <2>1, <2>6, LoadedFacts, OverlayFacts
  <2>. HIDE DEF object
  <2>8. pc'[c] = "reload" /\ Rated(c)' = p
    BY <2>3, <2>5, <2>7, InvFacts DEF PCTyped, Rated
  <2>9. DOMAIN profile' = Calls
    BY <2>2, InvFacts DEF FoldsIn
  <2>. QED
    BY <2>2, <2>3, <2>4, <2>8, <2>9, RatingsFold
<1>5. ASSUME NEW u \in Users, NEW r \in Ratings, RefuseRating(c, b, u, r) PROVE RatingsOK'
  <2>1. Arrive(c, "rate", b, u, r) /\ Throws(c)
    BY <1>5 DEF RefuseRating
  <2>. QED
    BY <1>1, <2>1, Arrived
<1>6. ASSUME SettleOtherwise(c, b, "Cancelled") PROVE RatingsOK'
  <2>1. Arrive(c, "settle", b, OwnerOf[b], NoFile) /\ UNCHANGED contended
    BY <1>6 DEF SettleOtherwise
  <2>2. request'[c].kind = "settle" /\ UNCHANGED <<provider, reviews>>
    BY <1>0, <2>1, Arrived
  <2>3. ~RatingFacts(c)'
    BY <2>2 DEF RatingFacts, IsRating
  <2>. QED
    BY <2>1, <2>2, <2>3, RatingsEnd
<1>. QED
  BY <1>2, <1>3, <1>4, <1>5, <1>6

LEMMA RateAppRates ==
    ASSUME Inv, NEW c \in Calls, NEW r \in Ratings, RateApp(c, r) \/ RefuseRateApp(c, r),
           \A d \in Calls \ {c} : Same(d)
    PROVE  RatingsOK'
<1>1. ArriveApp(c, r)
  BY DEF RateApp, RefuseRateApp
<1>2. request'[c].kind = "rateApp" /\ request'[c].arg = r /\ UNCHANGED <<provider, reviews>>
  BY <1>1, ArrivedApp
<1>3. CASE RateApp(c, r)
  <2>1. /\ Official \in Providers /\ FoldsIn(c, Official, r)
        /\ pc' = [pc EXCEPT ![c] = "reloadProfile"]
    BY <1>3, BookingAssumption DEF RateApp
  <2>2. DOMAIN profile' = Calls /\ pc'[c] = "reloadProfile" /\ Rated(c)' = Official
    BY <1>2, <2>1, InvFacts DEF FoldsIn, PCTyped, Rated
  <2>. QED
    BY <1>2, <2>1, <2>2, RatingsFold
<1>4. CASE RefuseRateApp(c, r)
  <2>1. pc' = [pc EXCEPT ![c] = "failed"] /\ UNCHANGED contended
    BY <1>4 DEF RefuseRateApp
  <2>2. ~RatingFacts(c)'
    BY <2>1, InvFacts DEF PCTyped, RatingFacts, InFlight, Open
  <2>. QED
    BY <1>2, <2>1, <2>2, RatingsEnd
<1>. QED
  BY <1>3, <1>4

LEMMA EndsRate ==
    ASSUME Inv, NEW c \in Calls, \A d \in Calls \ {c} : Same(d),
           DatabaseError(c) \/ \E b, f : RefuseProcessed(c, b, f)
    PROVE  RatingsOK'
<1>1. pc' = [pc EXCEPT ![c] = "failed"] /\ UNCHANGED <<provider, reviews, contended>>
  BY DEF DatabaseError, RefuseProcessed, Throws, history
<1>2. ~RatingFacts(c)'
  BY <1>1, InvFacts DEF PCTyped, RatingFacts, InFlight, Open
<1>. QED
  BY <1>1, <1>2, RatingsEnd

LEMMA MovesRate ==
    ASSUME Inv, NEW c \in Calls, Reload(c) \/ Update(c) \/ UpdateProfile(c)
    PROVE  RatingsOK'
<1>1. UNCHANGED <<provider, reviews, contended, request, entity, profile, profileSet>>
  BY DEF Reload, Update, UpdateProfile, rows, history
<1>2. PICK to : pc' = [pc EXCEPT ![c] = to] /\
        (to \in {"updateProfile", "commit"} => pc[c] = "updateProfile" \/ ~IsRating(c))
  <2>1. CASE Reload(c)
    <3>. DEFINE to == IF Changed(entity[c], booking[BookingOf(c)]) = NoChange
                      THEN AfterBooking(c) ELSE "update"
    <3>1. pc[c] = "reload" /\ pc' = [pc EXCEPT ![c] = to]
      BY <2>1 DEF Reload, Step
    <3>2. request[c].kind # "rateApp"
      BY <3>1, InvFacts DEF RequestOK
    <3>3. to \in {"reloadProfile", "update"} \/ ~IsRating(c)
      BY <3>2 DEF AfterBooking, IsRating
    <3>. HIDE DEF to
    <3>. QED
      BY <3>1, <3>3
  <2>2. CASE Update(c)
    <3>1. pc[c] = "update" /\ pc' = [pc EXCEPT ![c] = AfterBooking(c)]
      BY <2>2 DEF Update, Step
    <3>2. request[c].kind # "rateApp"
      BY <3>1, InvFacts DEF RequestOK
    <3>3. AfterBooking(c) = "reloadProfile" \/ ~IsRating(c)
      BY <3>2 DEF AfterBooking, IsRating
    <3>. QED
      BY <3>1, <3>3
  <2>3. CASE UpdateProfile(c)
    BY <2>3 DEF UpdateProfile, Step
  <2>. QED
    BY <2>1, <2>2, <2>3
<1>3. pc[c] \in Open
  BY DEF Reload, Update, UpdateProfile, Step, Open
<1>4. \A d \in Calls : Rerates(d)
  <2>. SUFFICES ASSUME NEW d \in Calls, RatingFacts(d)'
                PROVE  /\ RatingFacts(d)
                       /\ pc'[d] \in {"updateProfile", "commit"}
                            => pc[d] \in {"updateProfile", "commit"}
    BY <1>1 DEF Rerates, Rated
  <2>1. IsRating(d)
    BY <1>1 DEF RatingFacts, IsRating
  <2>2. CASE d = c
    BY <1>2, <1>3, <2>1, <2>2, InvFacts DEF PCTyped, RatingFacts, InFlight
  <2>3. CASE d # c
    BY <1>2, <2>1, <2>3, InvFacts DEF PCTyped, RatingFacts, InFlight
  <2>. QED
    BY <2>2, <2>3
<1>. QED
  BY <1>1, <1>4, RatingsFacts, RatingsQuiet DEF ProvidersTyped

LEMMA PickRates ==
    ASSUME Inv, NEW m \in Calls, Pick(m) PROVE RatingsOK'
<1>1. /\ pc[m] = "pick" /\ pc' = [pc EXCEPT ![m] = "reload"]
      /\ UNCHANGED <<provider, reviews, contended, request, profile, profileSet>>
  BY DEF Pick, rows, history
<1>2. PICK p \in Providers \cup {Official} :
        entity' = [c \in Calls |-> IF c = m \/ (c = request[m].arg /\ pc[c] = "reload")
                                   THEN Matched(entity[m], p) ELSE entity[c]]
  BY DEF Pick
<1>3. request[m].kind = "match" /\ request[request[m].arg].kind = "settle"
  BY <1>1, InvFacts DEF RequestOK, InFlight, Open
<1>4. ASSUME NEW d \in Calls, RatingFacts(d)' PROVE Rerates(d)
  <2>1. request[d].kind \in {"rate", "rateApp"}
    BY <1>1, <1>4 DEF RatingFacts, IsRating
  <2>2. d # m /\ d # request[m].arg
    BY <1>3, <2>1
  <2>3. entity'[d] = entity[d] /\ pc'[d] = pc[d]
    BY <1>1, <1>2, <2>2, InvFacts DEF PCTyped
  <2>. QED
    BY <1>1, <2>3 DEF Rerates, RatingFacts, InFlight, IsRating, Rated
<1>5. \A d \in Calls : Rerates(d)
  BY <1>4 DEF Rerates
<1>. QED
  BY <1>1, <1>5, RatingsFacts, RatingsQuiet DEF ProvidersTyped

LEMMA SettlePaidRates ==
    ASSUME Inv, NEW c \in Calls, NEW m \in Calls, NEW b \in Bookings, SettlePaid(c, m, b)
    PROVE  RatingsOK'
<1>. DEFINE paid == SettledAs(b, "Paid")
            forC == Request("settle", b, OwnerOf[b], NoFile)
            forM == Request("match", b, OwnerOf[b], c)
<1>1. /\ request' = [request EXCEPT ![c] = forC, ![m] = forM]
      /\ pc' = [pc EXCEPT ![c] = "reload", ![m] = "pick"]
      /\ entity' = [entity EXCEPT ![c] = paid, ![m] = paid]
      /\ UNCHANGED <<provider, reviews, contended, bookingSet, profile, profileSet>>
  BY DEF SettlePaid, rows
<1>2. forC.kind = "settle" /\ forM.kind = "match"
  BY RequestFacts
<1>. HIDE DEF paid, forC, forM
<1>3. \A d \in {c, m} : request'[d].kind \in {"settle", "match"}
  BY <1>1, <1>2, InvFacts
<1>4. \A d \in Calls \ {c, m} : Same(d)
  BY <1>1, InvFacts DEF PCTyped, Same
<1>5. ASSUME NEW d \in Calls PROVE Rerates(d)
  <2>1. CASE d \in {c, m}
    <3>1. ~RatingFacts(d)'
      BY <1>3, <2>1 DEF RatingFacts, IsRating
    <3>. QED
      BY <3>1 DEF Rerates
  <2>2. CASE d \notin {c, m}
    BY <1>4, <2>2, SameRerates
  <2>. QED
    BY <2>1, <2>2
<1>. QED
  BY <1>1, <1>5, RatingsFacts, RatingsQuiet DEF ProvidersTyped

LEMMA CreateRates ==
    ASSUME Inv, NEW b, NEW f, CreateBooking(b, f) \/ CreateFails(f) PROVE RatingsOK'
<1>1. UNCHANGED <<provider, reviews, contended, pc, request, entity, profile, profileSet>>
  BY DEF CreateBooking, CreateFails, memory
<1>2. \A d \in Calls : Rerates(d)
  BY <1>1 DEF Rerates, RatingFacts, InFlight, IsRating, Rated
<1>. QED
  BY <1>1, <1>2, RatingsFacts, RatingsQuiet DEF ProvidersTyped

LEMMA CrashRates ==
    ASSUME Inv, Crash PROVE RatingsOK'
<1>1. /\ pc' = [c \in Calls |-> IF pc[c] \in {"idle", "committed"} THEN pc[c] ELSE "lost"]
      /\ UNCHANGED <<provider, reviews, contended>>
  BY DEF Crash, rows, history
<1>2. \A d \in Calls : Rerates(d)
  BY <1>1 DEF Rerates, RatingFacts, InFlight, Open
<1>. QED
  BY <1>1, <1>2, RatingsFacts, RatingsQuiet DEF ProvidersTyped

-----------------------------------------------------------------------------
(* Every step keeps the invariant.                                         *)

LEMMA LocalInv ==
    ASSUME Inv, NEW c \in Calls, Local(c), Stored', Agreed', UNCHANGED booking,
           Counted', RatingsOK'
    PROVE  Inv'
BY LocalKeeps DEF Inv

LEMMA StutterInv ==
    ASSUME Inv, UNCHANGED vars PROVE Inv'
<1>1. /\ UNCHANGED <<created, booking, provider, deleted, pc, request, entity, bookingSet>>
      /\ UNCHANGED <<profile, profileSet, faults, versions, overlap, contended, reviews, uses>>
  BY DEF vars, rows, memory, history
<1>2. \A c \in Calls : Same(c)
  BY <1>1 DEF Same
<1>3. Stored' /\ Agreed' /\ Grows
  BY <1>1, StoredStays DEF Inv, Stored, RowsTyped
<1>4. \A c \in Calls : Calm(c) /\ Steady(c)
  BY <1>2, SameCalm DEF Steady
<1>5. \A c \in Calls : CallTyped(c)' /\ RequestOK(c)' /\ ObjectOK(c)'
  BY <1>2, <1>3, <1>4, InvFacts, TypedStays, RequestStays, ObjectStays
<1>6. \A c \in Calls : FreshOK(c)'
  BY <1>1, <1>2, <1>3, InvFacts, FreshStays
<1>7. \A c \in Calls : PairOK(c)'
  BY <1>4, PairsStay
<1>8. \A c \in Calls : \A d \in Calls \ {c} : Apart(c, d)'
  BY <1>1, InvFacts DEF Apart, Holds, InFlight, BookingOf
<1>9. PCTyped'
  BY <1>1 DEF PCTyped, Inv, Asked
<1>10. Asked' /\ Alone'
  BY <1>1, <1>5, <1>6, <1>7, <1>8, <1>9 DEF Asked, Alone, Inv
<1>11. Counted'
  BY <1>1, CountedQuiet DEF Names, InFlight
<1>12. RatingsOK'
  BY <1>1, <1>2, SameRerates, RatingsFacts, RatingsQuiet DEF ProvidersTyped
<1>. QED
  BY <1>3, <1>10, <1>11, <1>12 DEF Inv

LEMMA CreateInv ==
    ASSUME Inv, NEW b \in Bookings, NEW f \in Files, CreateBooking(b, f) \/ CreateFails(f)
    PROVE  Inv'
BY CreateKeeps, CreateFailsKeeps, CreateCounts, CreateRates DEF Inv

LEMMA ArrivalsInv ==
    ASSUME Inv, NEW c \in Calls, NEW b \in Bookings
    PROVE  /\ \A f \in Files : UpdateBooking(c, b, f) \/ RefuseUpdate(c, b, f)
                               \/ UpdateProcessedFiles(c, b, f) => Inv'
           /\ \A u \in Users : ConfirmByProvider(c, b, u) \/ RefuseProvider(c, b, u)
                               \/ ConfirmByUser(c, b, u) => Inv'
           /\ \A u \in Users, r \in Ratings :
                RateBooking(c, b, u, r) \/ RefuseRating(c, b, u, r) => Inv'
           /\ SettleOtherwise(c, b, "Cancelled") => Inv'
<1>0. OwnerOf[b] \in Users
  BY BookingAssumption
<1>1. ASSUME NEW f \in Files, UpdateBooking(c, b, f) \/ RefuseUpdate(c, b, f)
                              \/ UpdateProcessedFiles(c, b, f)
      PROVE  Inv'
  <2>1. Local(c) /\ Stored' /\ Agreed'
    BY <1>0, <1>1, HandlersLocal, RefusedLocal DEF RefuseUpdate
  <2>2. UNCHANGED booking /\ \A d \in Calls \ {c} : Same(d)
    BY <1>1, <2>1 DEF UpdateBooking, RefuseUpdate, UpdateProcessedFiles, Arrive, rows, Local
  <2>. QED
    BY <1>1, <2>1, <2>2, ArrivalsCount, ArrivalsRate, LocalInv
<1>2. ASSUME NEW u \in Users, ConfirmByProvider(c, b, u) \/ RefuseProvider(c, b, u)
                              \/ ConfirmByUser(c, b, u)
      PROVE  Inv'
  <2>1. Local(c) /\ Stored' /\ Agreed'
    BY <1>2, HandlersLocal, RefusedLocal DEF RefuseProvider, ConfirmByUser
  <2>2. UNCHANGED booking /\ \A d \in Calls \ {c} : Same(d)
    BY <1>2, <2>1 DEF ConfirmByProvider, RefuseProvider, ConfirmByUser, Arrive, rows, Local
  <2>. QED
    BY <1>2, <2>1, <2>2, ArrivalsCount, ArrivalsRate, LocalInv
<1>3. ASSUME NEW u \in Users, NEW r \in Ratings,
             RateBooking(c, b, u, r) \/ RefuseRating(c, b, u, r)
      PROVE  Inv'
  <2>1. Local(c) /\ Stored' /\ Agreed'
    BY <1>3, HandlersLocal, RefusedLocal DEF RefuseRating
  <2>2. UNCHANGED booking /\ \A d \in Calls \ {c} : Same(d)
    BY <1>3, <2>1 DEF RateBooking, RefuseRating, Arrive, rows, Local
  <2>. QED
    BY <1>3, <2>1, <2>2, ArrivalsCount, ArrivalsRate, LocalInv
<1>4. ASSUME SettleOtherwise(c, b, "Cancelled") PROVE Inv'
  <2>1. Local(c) /\ Stored' /\ Agreed'
    BY <1>4, HandlersLocal
  <2>2. UNCHANGED booking /\ \A d \in Calls \ {c} : Same(d)
    BY <1>4, <2>1 DEF SettleOtherwise, Arrive, rows, Local
  <2>. QED
    BY <1>4, <2>1, <2>2, ArrivalsCount, ArrivalsRate, LocalInv
<1>. QED
  BY <1>1, <1>2, <1>3, <1>4

LEMMA RefuseProcessedInv ==
    ASSUME Inv, NEW c \in Calls, NEW b, NEW f \in Files, RefuseProcessed(c, b, f) PROVE Inv'
<1>1. Local(c) /\ Stored' /\ Agreed'
  BY RefuseProcessedLocal
<1>2. UNCHANGED booking /\ \A d \in Calls \ {c} : Same(d)
  BY <1>1 DEF RefuseProcessed, Local
<1>. QED
  BY <1>1, <1>2, RefuseProcessedCounts, EndsRate, LocalInv

LEMMA RateAppInv ==
    ASSUME Inv, NEW c \in Calls, NEW r \in Ratings, RateApp(c, r) \/ RefuseRateApp(c, r)
    PROVE  Inv'
<1>1. Local(c) /\ Stored' /\ Agreed'
  BY RateAppLocal, RefuseRateAppLocal
<1>2. UNCHANGED booking /\ \A d \in Calls \ {c} : Same(d)
  BY <1>1 DEF RateApp, RefuseRateApp, ArriveApp, rows, Local
<1>. QED
  BY <1>1, <1>2, RateAppCounts, RateAppRates, LocalInv

LEMMA StepInv ==
    ASSUME Inv, NEW c \in Calls, RequestStep(c) \/ DatabaseError(c) PROVE Inv'
<1>1. CASE Pick(c)
  BY <1>1, PickKeeps, MovesCount, PickRates DEF Inv
<1>2. CASE Commit(c)
  <2>1. Stored' /\ Asked' /\ Alone' /\ Agreed' /\ \A d \in Calls \ {c} : Same(d)
    BY <1>2, CommitKeeps DEF Local
  <2>. QED
    BY <1>2, <2>1, CommitCounts, RatingsCommit DEF Inv
<1>3. CASE Reload(c) \/ Update(c) \/ ReloadProfile(c) \/ UpdateProfile(c)
  <2>1. Local(c) /\ Stored' /\ Agreed'
    BY <1>3, ReloadLocal, MovesLocal
  <2>2. UNCHANGED booking
    BY <1>3 DEF Reload, Update, ReloadProfile, UpdateProfile, rows
  <2>3. Counted' /\ RatingsOK'
    BY <1>3, MovesCount, MovesRate, RatingsReload
  <2>. QED
    BY <2>1, <2>2, <2>3, LocalInv
<1>4. CASE DatabaseError(c)
  <2>1. Local(c) /\ Stored' /\ Agreed'
    BY <1>4, DatabaseErrorLocal
  <2>2. UNCHANGED booking /\ \A d \in Calls \ {c} : Same(d)
    BY <1>4, <2>1 DEF DatabaseError, Local
  <2>. QED
    BY <1>4, <2>1, <2>2, DatabaseErrorCounts, EndsRate, LocalInv
<1>. QED
  BY <1>1, <1>2, <1>3, <1>4 DEF RequestStep

LEMMA NextInv == Inv /\ [Next]_vars => Inv'
<1>. SUFFICES ASSUME Inv, [Next]_vars PROVE Inv'
  OBVIOUS
<1>1. CASE UNCHANGED vars
  BY <1>1, StutterInv
<1>2. CASE \E f \in Files : CreateFails(f) \/ \E b \in Bookings : CreateBooking(b, f)
  BY <1>2, CreateInv, BookingAssumption
<1>3. ASSUME NEW c \in Calls, NEW b \in Bookings,
             \/ \E f \in Files : \/ UpdateBooking(c, b, f) \/ RefuseUpdate(c, b, f)
                                 \/ UpdateProcessedFiles(c, b, f) \/ RefuseProcessed(c, b, f)
             \/ \E u \in Users : \/ ConfirmByProvider(c, b, u) \/ RefuseProvider(c, b, u)
                                 \/ ConfirmByUser(c, b, u)
             \/ \E u \in Users, r \in Ratings :
                    RateBooking(c, b, u, r) \/ RefuseRating(c, b, u, r)
             \/ \E m \in Calls : SettlePaid(c, m, b)
             \/ SettleOtherwise(c, b, "Cancelled")
      PROVE  Inv'
  <2>1. CASE \E m \in Calls : SettlePaid(c, m, b)
    BY <2>1, SettlePaidKeeps, SettlePaidCounts, SettlePaidRates DEF Inv
  <2>2. CASE \E f \in Files : RefuseProcessed(c, b, f)
    BY <2>2, RefuseProcessedInv
  <2>. QED
    BY <1>3, <2>1, <2>2, ArrivalsInv
<1>4. CASE \E c \in Calls, r \in Ratings : RateApp(c, r) \/ RefuseRateApp(c, r)
  BY <1>4, RateAppInv
<1>5. CASE \E c \in Calls : RequestStep(c) \/ DatabaseError(c)
  BY <1>5, StepInv
<1>6. CASE Crash
  BY <1>6, CrashKeeps, CrashCounts, CrashRates DEF Inv
<1>. QED
  BY <1>1, <1>2, <1>3, <1>4, <1>5, <1>6 DEF Next

\* What a handler has read, what it is going to write and what was committed fit together,
\* at every step of every request.
THEOREM BookingInvariant == Spec => []Inv
BY InitInv, NextInv, PTL DEF Spec

\* The columns of the objects and SET clauses exist, rows keep theirs, and no counter or
\* phase leaves its range.
THEOREM TypeCorrect == Spec => []TypeOK
BY BookingInvariant, InvTyped, PTL

\* On a booking no two requests have worked on at once, the status of the booking says
\* whether it is paid for, and it is rated and confirmed only after it was matched.
THEOREM StatusesAlwaysAgree == Spec => []StatusesAgree
BY BookingInvariant, InvAgree, PTL

\* A file a booking refers to is deleted only when two requests named that file.
THEOREM FilesAreKept == Spec => []FilesKept
<1>1. ASSUME Inv, NEW b \in created, NEW k \in {"rawMediaFiles", "processedMediaFiles"},
             booking[b][k] \in deleted
      PROVE  uses[booking[b][k]] > 1
  <2>1. PICK f : f = booking[b][k]
    OBVIOUS
  <2>2. b \in Bookings /\ booking[b] \in versions[b] /\ f \in Files
    BY <1>1, <2>1 DEF Inv, Stored, RowsTyped
  <2>3. Refers(f) /\ f \in deleted
    BY <1>1, <2>1, <2>2 DEF Refers
  <2>4. uses[f] \in Nat /\ uses[f] # 0 /\ uses[f] # 1
    BY <1>1, <2>2, <2>3 DEF Inv, Counted
  <2>. QED
    BY <2>1, <2>4
<1>2. Inv => FilesKept
  BY <1>1 DEF FilesKept
<1>. QED
  BY <1>2, BookingInvariant, PTL

\* A provider never shows more ratings than were committed, nor an average outside the
\* ratings that can be given, however the ratings of two requests overwrite each other.
THEOREM RatingsAreBacked == Spec => []RatingsBacked
<1>1. ASSUME Inv PROVE RatingsBacked
  <2>1. \A p \in Providers : ProviderOK(p)
    BY <1>1, RatingsFacts
  <2>. QED
    BY <2>1 DEF ProviderOK, Within, RatingsBacked
<1>. QED
  BY <1>1, BookingInvariant, PTL

\* A provider no two requests have rated at once shows the number and the exact average
\* of all its reviews.
THEOREM RatingsAreExact == Spec => []RatingsExact
<1>1. Inv => RatingsExact
  BY DEF Inv, RatingsOK
<1>. QED
  BY <1>1, BookingInvariant, PTL

-----------------------------------------------------------------------------
(* The steps that change a booking: it is created, or a request commits.   *)

LEMMA RowSteps ==
    ASSUME [Next]_vars
    PROVE  \/ UNCHANGED <<booking, versions>>
           \/ \E b \in Bookings, f \in Files : CreateBooking(b, f)
           \/ \E c \in Calls : Commit(c)
<1>1. CASE UNCHANGED vars
  BY <1>1 DEF vars, rows, history
<1>2. ASSUME NEW f \in Files, CreateFails(f)
      PROVE  UNCHANGED <<booking, versions>>
  BY <1>2 DEF CreateFails
<1>3. ASSUME NEW c \in Calls, NEW b \in Bookings,
             \/ \E f \in Files : \/ UpdateBooking(c, b, f) \/ RefuseUpdate(c, b, f)
                                 \/ UpdateProcessedFiles(c, b, f)
             \/ \E u \in Users : \/ ConfirmByProvider(c, b, u) \/ RefuseProvider(c, b, u)
                                 \/ ConfirmByUser(c, b, u)
             \/ \E u \in Users, r \in Ratings :
                    RateBooking(c, b, u, r) \/ RefuseRating(c, b, u, r)
             \/ SettleOtherwise(c, b, "Cancelled")
      PROVE  UNCHANGED <<booking, versions>>
  <2>1. \E kind, user, arg : Arrive(c, kind, b, user, arg)
    BY <1>3 DEF UpdateBooking, RefuseUpdate, UpdateProcessedFiles, ConfirmByProvider,
                RefuseProvider, ConfirmByUser, RateBooking, RefuseRating, SettleOtherwise
  <2>. QED
    BY <2>1 DEF Arrive, rows
<1>4. ASSUME NEW c \in Calls, NEW b \in Bookings, \E f \in Files : RefuseProcessed(c, b, f)
      PROVE  UNCHANGED <<booking, versions>>
  BY <1>4 DEF RefuseProcessed
<1>5. ASSUME NEW c \in Calls, NEW b \in Bookings, \E m \in Calls : SettlePaid(c, m, b)
      PROVE  UNCHANGED <<booking, versions>>
  BY <1>5 DEF SettlePaid, rows
<1>6. ASSUME NEW c \in Calls, NEW r \in Ratings, RateApp(c, r) \/ RefuseRateApp(c, r)
      PROVE  UNCHANGED <<booking, versions>>
  BY <1>6 DEF RateApp, RefuseRateApp, ArriveApp, rows
<1>7. ASSUME NEW c \in Calls, \/ Pick(c) \/ Reload(c) \/ Update(c) \/ ReloadProfile(c)
                              \/ UpdateProfile(c) \/ DatabaseError(c)
      PROVE  UNCHANGED <<booking, versions>>
  BY <1>7 DEF Pick, Reload, Update, ReloadProfile, UpdateProfile, DatabaseError, rows, history
<1>8. CASE Crash
  BY <1>8 DEF Crash, rows, history
<1>. QED
  BY <1>1, <1>2, <1>3, <1>4, <1>5, <1>6, <1>7, <1>8 DEF Next, RequestStep

\* A commit changes the columns of its request, and no other where it worked alone.
LEMMA CommitOwn ==
    ASSUME Inv, NEW c \in Calls, Commit(c), NEW b \in created \ overlap',
           NEW k \in BookingColumns, booking'[b][k] # booking[b][k]
    PROVE  WorksOn(c, b) /\ pc'[c] = "committed" /\ k \in Duty[request[c].kind]
<1>1. b \in Bookings /\ b \notin overlap
  BY CommitRow DEF Inv, Stored, RowsTyped
<1>2. b = BookingOf(c) /\ Holds(c)
  BY <1>1, CommitRow
<1>3. k \in DOMAIN bookingSet[c]
  BY <1>2, CommitRow
<1>4. k \in Own(c)
  BY <1>1, <1>2, <1>3, InvFacts DEF FreshOK
<1>5. pc'[c] = "committed"
  BY InvFacts DEF Commit, Step, PCTyped
<1>. QED
  BY <1>2, <1>4, <1>5 DEF WorksOn, Holds, Own

\* A request that saves the whole object it has read changes no column but its own, on a
\* booking no two requests have worked on at once.
THEOREM OnlyOwnColumns == Spec => OwnColumnsOnly
<1>1. ASSUME Inv, [Next]_vars, NEW b \in created \ overlap', NEW k \in BookingColumns,
             booking'[b][k] # booking[b][k]
      PROVE  \E c \in Calls : /\ WorksOn(c, b) /\ pc'[c] = "committed"
                              /\ k \in Duty[request[c].kind]
  <2>1. CASE UNCHANGED <<booking, versions>>
    BY <1>1, <2>1
  <2>2. ASSUME NEW x \in Bookings, NEW f \in Files, CreateBooking(x, f) PROVE FALSE
    <3>1. b # x /\ booking' = [booking EXCEPT ![x] = NewBooking(f)] /\ DOMAIN booking = Bookings
      BY <1>1, <2>2 DEF CreateBooking, Inv, Stored, RowsTyped
    <3>. QED
      BY <1>1, <3>1
  <2>3. ASSUME NEW c \in Calls, Commit(c)
        PROVE  WorksOn(c, b) /\ pc'[c] = "committed" /\ k \in Duty[request[c].kind]
    BY <1>1, <2>3, CommitOwn
  <2>. QED
    BY <1>1, <2>1, <2>2, <2>3, RowSteps
<1>2. Inv /\ [Next]_vars => \A b \in created \ overlap' : \A k \in BookingColumns :
            booking'[b][k] # booking[b][k] =>
                \E c \in Calls : /\ WorksOn(c, b) /\ pc'[c] = "committed"
                                 /\ k \in Duty[request[c].kind]
  BY <1>1
<1>. QED
  BY <1>2, BookingInvariant, PTL DEF Spec, OwnColumnsOnly

-----------------------------------------------------------------------------
(* The bookings implement StaleRow.                                        *)

LEMMA RowWritten ==
    ASSUME Inv, NEW c \in Calls, Commit(c)
    PROVE  UNCHANGED <<booking, versions>> \/ Row!Next
<1>. SUFFICES ASSUME Holds(c) PROVE Row!Next
  BY CommitRow
<1>0. PICK b : b = BookingOf(c)
  OBVIOUS
<1>1. b \in Bookings
  BY <1>0, InvFacts
<1>2. \E version \in versions[b] :
            \A k \in BookingColumns \ Own(c) : booking'[b][k] \in {booking[b][k], version[k]}
  <2>1. PICK version \in versions[b] : \A k \in DOMAIN entity[c] \ Own(c) : entity[c][k] = version[k]
    BY <1>0, InvFacts DEF ObjectOK
  <2>2. ASSUME NEW k \in BookingColumns \ Own(c)
        PROVE  booking'[b][k] \in {booking[b][k], version[k]}
    <3>1. CASE k \in DOMAIN bookingSet[c]
      BY <1>0, <2>1, <3>1, CommitRow
    <3>2. CASE k \notin DOMAIN bookingSet[c]
      BY <1>0, <3>2, CommitRow
    <3>. QED
      BY <3>1, <3>2
  <2>. QED
    BY <2>2
<1>3. Row!OthersKept(b)
  BY <1>0, CommitRow DEF Row!OthersKept
<1>4. Row!Recorded(b)
  BY <1>0 DEF Commit, RecordCommit, Holds, Row!Recorded
<1>5. Own(c) \in {Duty[kind] : kind \in Endpoints}
  <2>1. request[c].kind \in {"update", "processed", "confirmProvider", "rate", "settle", "match"}
    BY InvFacts DEF RequestOK, Holds
  <2>. QED
    BY <2>1, Duties DEF Own, Endpoints
<1>6. Row!Write(b, Own(c))
  BY <1>2, <1>3, <1>4 DEF Row!Write
<1>. QED
  BY <1>1, <1>5, <1>6 DEF Row!Next

LEMMA RowCreated ==
    ASSUME Inv, NEW b \in Bookings, NEW file \in Files, CreateBooking(b, file) PROVE Row!Next
<1>1. PICK new : new = NewBooking(file)
  OBVIOUS
<1>2. /\ b \notin created
      /\ booking' = [booking EXCEPT ![b] = new]
      /\ versions' = [versions EXCEPT ![b] = {new}]
  BY <1>1 DEF CreateBooking
<1>3. DOMAIN booking = Bookings /\ DOMAIN versions = Bookings /\ versions[b] = {}
  BY <1>2 DEF Inv, Stored, RowsTyped
<1>4. booking'[b] = new /\ \A x \in Bookings \ {b} : booking'[x] = booking[x]
  BY <1>2, <1>3
<1>5. versions' = [versions EXCEPT ![b] = versions[b] \cup {booking'[b]}]
  BY <1>2, <1>3, <1>4
<1>6. Row!Create(b)
  BY <1>1, <1>3, <1>4, <1>5 DEF Row!Create, Row!OthersKept, Row!Recorded
<1>. QED
  BY <1>6 DEF Row!Next

\* Every booking is a row whose writers set the columns of others back to one committed
\* version at most: they never make a column up and never mix two versions.
THEOREM BookingsImplementRows == Spec => ImplementsRow
<1>1. Init => Row!Init
  BY DEF Init, Row!Init
<1>2. Inv /\ [Next]_vars => UNCHANGED <<booking, versions>> \/ Row!Next
  BY RowSteps, RowWritten, RowCreated
<1>3. UNCHANGED <<booking, versions>> <=> UNCHANGED Row!rowVars
  BY DEF Row!rowVars
<1>. QED
  BY <1>1, <1>2, <1>3, BookingInvariant, PTL DEF Spec, ImplementsRow, Row!Spec
=============================================================================
