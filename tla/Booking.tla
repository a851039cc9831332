------------------------------ MODULE Booking ------------------------------
(***************************************************************************)
(* The handlers that read a booking, change some of its columns and save   *)
(* the whole object: BookingService.createBooking, updateBooking,          *)
(* updateBookingProcessedFiles and confirmBookingService, and              *)
(* ReviewService.createRating, together with what a settlement and the     *)
(* match it starts do to the same row (their other steps are in module     *)
(* Settlement).                                                            *)
(*                                                                         *)
(* Every handler has the same shape inside its database transaction:       *)
(* find the booking, test it, change the object, save it (which reads the  *)
(* row again and updates the columns that differ), commit.  The test and   *)
(* the save are several round trips apart, and the object carries every    *)
(* column that was loaded, not only the ones the handler changes.          *)
(***************************************************************************)
EXTENDS Naturals, FiniteSets, Persist

CONSTANTS
    Calls,          \* requests: each is made at most once
    Bookings,       \* booking rows that exist or can be created
    Earlier,        \* Earlier[b]: the provider of b, a booking paid and matched before
    Users,          \* accounts
    OwnerOf,        \* OwnerOf[b]: booking b's profile
    Providers,      \* aid_service_profile rows
    AccountOf,      \* AccountOf[p]: provider p's profile
    Official,       \* the official provider, NoProvider when it was not seeded
    NoProvider,     \* aidServiceProfile IS NULL
    Files,          \* uploaded files a request can name
    NoFile,         \* the column is NULL
    Ratings,        \* the ratings a review can give
    Kinds,          \* the endpoints that are called
    MaxFaults       \* bound on database errors

Endpoints == {"update", "processed", "confirmProvider", "confirmUser", "rate", "rateApp",
              "settle"}

ASSUME BookingAssumption ==
    /\ Bookings # {}
    /\ DOMAIN Earlier \subseteq Bookings
    /\ \A b \in DOMAIN Earlier : Earlier[b] \in Providers
    /\ OwnerOf \in [Bookings -> Users]
    /\ AccountOf \in [Providers -> Users]
    /\ Official \in Providers \cup {NoProvider}
    /\ NoProvider \notin Providers
    /\ NoFile \notin Files
    /\ Ratings \subseteq Nat \ {0}
    /\ Kinds \subseteq Endpoints
    /\ MaxFaults \in Nat

VARIABLES
    \* The committed rows, and the files on disk.
    created,        \* bookings that exist
    booking,        \* booking[b]: the columns of booking b
    provider,       \* provider[p]: average and number of ratings of provider p
    deleted,        \* files that were deleted
    \* The requests, in the memory of the process.
    pc,             \* pc[c]: what request c does next
    request,        \* request[c]: the endpoint, the booking, the caller and the dto
    entity,         \* entity[c]: the booking object of request c
    bookingSet,     \* bookingSet[c]: SET clause of its booking UPDATE
    profile,        \* profile[c]: the provider object, its rating already folded in
    profileSet,     \* profileSet[c]: SET clause of its provider UPDATE
    faults,         \* database errors so far
    \* History, read by no action.
    versions,       \* versions[b]: every committed version of booking b
    overlap,        \* bookings two requests worked on at once
    contended,      \* providers two requests rated at once
    reviews,        \* reviews[p]: number and sum of the reviews committed for p
    uses            \* uses[f]: requests that named file f

rows == <<created, booking, provider, deleted>>
memory == <<pc, request, entity, bookingSet, profile, profileSet>>
history == <<versions, overlap, contended, reviews, uses>>
vars == <<rows, memory, faults, history>>

-----------------------------------------------------------------------------
BookingColumns == {"bookingStatus", "paymentStatus", "rawMediaFiles", "processedMediaFiles",
                   "confirmedByProvider", "confirmedByUser", "rating", "isMatched",
                   "aidServiceProfile"}

\* The columns each endpoint is there to change; a match shares its object with the
\* settlement that started it.
Duty ==
    LET settlement == {"bookingStatus", "paymentStatus", "isMatched", "aidServiceProfile"}
    IN  [update |-> {"bookingStatus", "rawMediaFiles"}, processed |-> {"processedMediaFiles"},
         confirmProvider |-> {"confirmedByProvider"}, confirmUser |-> {"confirmedByUser"},
         rate |-> {"rating"}, rateApp |-> {}, settle |-> settlement, match |-> settlement]

NewBooking(file) ==
    [bookingStatus |-> "Pending", paymentStatus |-> "Not Paid", rawMediaFiles |-> file,
     processedMediaFiles |-> NoFile, confirmedByProvider |-> FALSE,
     confirmedByUser |-> FALSE, rating |-> 0, isMatched |-> FALSE,
     aidServiceProfile |-> NoProvider]

\* What settlement and match have left of a booking without files.
MatchedBooking(p) ==
    Overlay(NewBooking(NoFile),
            [bookingStatus |-> "In Progress", paymentStatus |-> "Paid", isMatched |-> TRUE,
             aidServiceProfile |-> p])

NewProvider == [averageRating |-> <<0, 1>>, noOfRatings |-> 0]

Request(kind, b, user, arg) == [kind |-> kind, booking |-> b, user |-> user, arg |-> arg]

\* What no request reads is some booking and some account.
AboutNone(kind, arg) ==
    Request(kind, CHOOSE b \in Bookings : TRUE, CHOOSE u \in Users : TRUE, arg)
NoRequest == AboutNone("none", NoFile)

Open == {"pick", "reload", "update", "reloadProfile", "updateProfile", "commit"}
InFlight(c) == pc[c] \in Open
BookingOf(c) == request[c].booking
WorksOn(c, b) == InFlight(c) /\ request[c].kind # "rateApp" /\ BookingOf(c) = b
IsRating(c) == request[c].kind \in {"rate", "rateApp"}

\* The provider request c rates: the one its booking was matched with, or the
\* official one.
Rated(c) == IF request[c].kind = "rate" THEN entity[c].aidServiceProfile ELSE Official

Init ==
    /\ created = DOMAIN Earlier
    /\ booking = [b \in Bookings |-> IF b \in DOMAIN Earlier THEN MatchedBooking(Earlier[b])
                                     ELSE NewBooking(NoFile)]
    /\ provider = [p \in Providers |-> NewProvider]
    /\ deleted = {}
    /\ pc = [c \in Calls |-> "idle"]
    /\ request = [c \in Calls |-> NoRequest]
    /\ entity = [c \in Calls |-> NoChange]
    /\ bookingSet = [c \in Calls |-> NoChange]
    /\ profile = [c \in Calls |-> NewProvider]
    /\ profileSet = [c \in Calls |-> NoChange]
    /\ faults = 0
    /\ versions = [b \in Bookings |-> IF b \in DOMAIN Earlier THEN {booking[b]} ELSE {}]
    /\ overlap = {}
    /\ contended = {}
    /\ reviews = [p \in Providers |-> [number |-> 0, sum |-> 0]]
    /\ uses = [f \in Files |-> 0]

-----------------------------------------------------------------------------
(* Creating a booking.  Nothing can see the row before the commit, so the  *)
(* handler is one step.                                                    *)

Named(file) == uses' = [f \in Files |-> IF f = file THEN uses[f] + 1 ELSE uses[f]]

CreateBooking(b, file) ==
    /\ b \notin created
    /\ created' = created \cup {b}
    /\ booking' = [booking EXCEPT ![b] = NewBooking(file)]
    /\ versions' = [versions EXCEPT ![b] = {NewBooking(file)}]
    /\ Named(file)
    /\ UNCHANGED <<provider, deleted, memory, faults, overlap, contended, reviews>>

\* Lines 129-131: the files that came with it are deleted.
CreateFails(file) ==
    /\ faults < MaxFaults
    /\ faults' = faults + 1
    /\ deleted' = deleted \cup {file}
    /\ Named(file)
    /\ UNCHANGED <<created, booking, provider, memory, versions, overlap, contended, reviews>>

-----------------------------------------------------------------------------
(* A request finds its booking, tests it and changes the object.           *)

\* findOne loads every column; aidServiceProfile only as a relation it names.
Loaded(b, relations) ==
    [k \in (BookingColumns \ {"aidServiceProfile"}) \cup relations |-> booking[b][k]]

WithProvider == {"aidServiceProfile"}

\* Request c arrives at an endpoint for booking b.
Arrive(c, kind, b, user, arg) ==
    /\ pc[c] = "idle"
    /\ kind \in Kinds
    /\ b \in created
    /\ request' = [request EXCEPT ![c] = Request(kind, b, user, arg)]
    /\ overlap' = IF \E d \in Calls \ {c} : WorksOn(d, b) THEN overlap \cup {b} ELSE overlap
    /\ IF arg \in Files THEN Named(arg) ELSE UNCHANGED uses
    /\ UNCHANGED <<rows, bookingSet, profileSet, faults, versions, reviews>>

\* The object of request c goes to save.
Saving(c, object) ==
    /\ pc' = [pc EXCEPT ![c] = "reload"]
    /\ entity' = [entity EXCEPT ![c] = object]

\* The handler throws before it has written anything.
Throws(c) ==
    /\ pc' = [pc EXCEPT ![c] = "failed"]
    /\ UNCHANGED <<entity, profile, contended>>

\* The dto overwrites what it names; the only status it may and must name is
\* Cancelled.
CancelDto(file) == [bookingStatus |-> "Cancelled", rawMediaFiles |-> file]

UpdateBookingUnguarded(c, b, file) ==       \* mutant: lines 453-454 dropped
    /\ Arrive(c, "update", b, OwnerOf[b], file)
    /\ Saving(c, Overlay(Loaded(b, WithProvider), CancelDto(file)))
    /\ UNCHANGED <<profile, contended>>

UpdateBookingFromDto(c, b, file) ==         \* mutant: the loaded object is not spread
    /\ Arrive(c, "update", b, OwnerOf[b], file)
    /\ booking[b].bookingStatus = "Pending"
    /\ Saving(c, Overlay(NewBooking(file), CancelDto(file)))
    /\ UNCHANGED <<profile, contended>>

UpdateBooking(c, b, file) ==
    /\ Arrive(c, "update", b, OwnerOf[b], file)
    /\ booking[b].bookingStatus = "Pending"
    /\ Saving(c, Overlay(Loaded(b, WithProvider), CancelDto(file)))
    /\ UNCHANGED <<profile, contended>>

RefuseUpdate(c, b, file) ==
    /\ Arrive(c, "update", b, OwnerOf[b], file)
    /\ booking[b].bookingStatus # "Pending"
    /\ Throws(c)

UpdateProcessedFiles(c, b, file) ==
    /\ Arrive(c, "processed", b, OwnerOf[b], file)
    /\ Saving(c, Overlay(Loaded(b, WithProvider), [processedMediaFiles |-> file]))
    /\ UNCHANGED <<profile, contended>>

\* There is no such booking: the files the request came with are deleted.
RefuseProcessed(c, b, file) ==
    /\ pc[c] = "idle"
    /\ "processed" \in Kinds
    /\ b \notin created
    /\ request' = [request EXCEPT ![c] = AboutNone("processed", file)]
    /\ Throws(c)
    /\ deleted' = deleted \cup {file}
    /\ Named(file)
    /\ UNCHANGED <<created, booking, provider, bookingSet, profileSet, faults, versions,
                   overlap, reviews>>

\* user is the account of the provider booking b is matched with.
Provides(user, b) ==
    /\ booking[b].aidServiceProfile # NoProvider
    /\ AccountOf[booking[b].aidServiceProfile] = user

ConfirmByProviderForBoth(c, b, user) ==     \* mutant: the client's column is set as well
    /\ Arrive(c, "confirmProvider", b, user, NoFile)
    /\ Provides(user, b)
    /\ Saving(c, Overlay(Loaded(b, WithProvider), [confirmedByProvider |-> TRUE,
                                                   confirmedByUser |-> TRUE]))
    /\ UNCHANGED <<profile, contended>>

ConfirmByProvider(c, b, user) ==
    /\ Arrive(c, "confirmProvider", b, user, NoFile)
    /\ Provides(user, b)
    /\ Saving(c, Overlay(Loaded(b, WithProvider), [confirmedByProvider |-> TRUE]))
    /\ UNCHANGED <<profile, contended>>

RefuseProvider(c, b, user) ==
    /\ Arrive(c, "confirmProvider", b, user, NoFile)
    /\ ~Provides(user, b)
    /\ Throws(c)

\* Lines 223-242: whoever asks, the call throws - a stranger at the guard, the owner
\* when the profile of the official provider, which was not loaded, is dereferenced.
ConfirmByUser(c, b, user) ==
    /\ Arrive(c, "confirmUser", b, user, NoFile)
    /\ Throws(c)

-----------------------------------------------------------------------------
(* Ratings.                                                                *)

\* The average of a provider is a fraction in lowest terms.
Reduced(n, d) ==
    LET g == CHOOSE g \in 1..d : /\ n % g = 0 /\ d % g = 0
                                 /\ \A h \in 1..d : n % h = 0 /\ d % h = 0 => h <= g
    IN  <<n \div g, d \div g>>

RatedOnly(row, rating) ==                   \* mutant: the old average is not weighted
    [averageRating |-> <<rating, 1>>, noOfRatings |-> row.noOfRatings + 1]

Undivided(row, rating) ==                   \* mutant: divided by number, not number + 1
    LET average == row.averageRating
        number == row.noOfRatings
    IN  [averageRating |-> Reduced(average[1] * number + rating * average[2],
                                   average[2] * (IF number = 0 THEN 1 ELSE number)),
         noOfRatings |-> number + 1]

\* Lines 59-60: (average * number + rating) / (number + 1), and one more rating.
WithRating(row, rating) ==
    LET average == row.averageRating
        number == row.noOfRatings
    IN  [averageRating |-> Reduced(average[1] * number + rating * average[2],
                                   average[2] * (number + 1)),
         noOfRatings |-> number + 1]

\* The provider was read together with the booking; the copy is changed later, but
\* from what was read here.
FoldsIn(c, p, rating) ==
    /\ profile' = [profile EXCEPT ![c] = WithRating(provider[p], rating)]
    /\ contended' = IF \E d \in Calls \ {c} : InFlight(d) /\ IsRating(d) /\ Rated(d) = p
                    THEN contended \cup {p} ELSE contended

RateBooking(c, b, user, rating) ==
    /\ Arrive(c, "rate", b, user, rating)
    /\ booking[b].aidServiceProfile # NoProvider
    /\ ~Provides(user, b)
    /\ Saving(c, Overlay(Loaded(b, WithProvider), [rating |-> rating]))
    /\ FoldsIn(c, booking[b].aidServiceProfile, rating)

RefuseRating(c, b, user, rating) ==
    /\ Arrive(c, "rate", b, user, rating)
    /\ booking[b].aidServiceProfile = NoProvider \/ Provides(user, b)
    /\ Throws(c)

ArriveApp(c, rating) ==
    /\ pc[c] = "idle"
    /\ "rateApp" \in Kinds
    /\ request' = [request EXCEPT ![c] = AboutNone("rateApp", rating)]
    /\ UNCHANGED <<rows, entity, bookingSet, profileSet, faults, versions, overlap, reviews,
                   uses>>

RateApp(c, rating) ==
    /\ ArriveApp(c, rating)
    /\ Official # NoProvider
    /\ pc' = [pc EXCEPT ![c] = "reloadProfile"]
    /\ FoldsIn(c, Official, rating)

\* Line 55 dereferences the profile that was not found.
RefuseRateApp(c, rating) ==
    /\ ArriveApp(c, rating)
    /\ Official = NoProvider
    /\ pc' = [pc EXCEPT ![c] = "failed"]
    /\ UNCHANGED <<profile, contended>>
-----------------------------------------------------------------------------
(* A settlement and its match, as far as the booking is concerned.         *)

\* updatePayment loads the booking without its provider and gives it the status of
\* the payment; when that is Paid, request m is the match it starts on its object.
SettledAs(b, status) ==
    Overlay(Loaded(b, {}),
            [bookingStatus |-> IF status = "Paid" THEN "In Progress" ELSE "Cancelled",
             paymentStatus |-> status])

SettlePaid(c, m, b) ==
    LET object == SettledAs(b, "Paid")
    IN  /\ c # m /\ pc[c] = "idle" /\ pc[m] = "idle"
        /\ "settle" \in Kinds
        /\ b \in created
        /\ request' = [request EXCEPT ![c] = Request("settle", b, OwnerOf[b], NoFile),
                                       ![m] = Request("match", b, OwnerOf[b], c)]
        /\ pc' = [pc EXCEPT ![c] = "reload", ![m] = "pick"]
        /\ entity' = [entity EXCEPT ![c] = object, ![m] = object]
        /\ overlap' = IF \E d \in Calls : WorksOn(d, b) THEN overlap \cup {b} ELSE overlap
        /\ UNCHANGED <<rows, bookingSet, profile, profileSet, faults, versions, contended,
                       reviews, uses>>

SettleOtherwise(c, b, status) ==
    /\ Arrive(c, "settle", b, OwnerOf[b], NoFile)
    /\ Saving(c, SettledAs(b, status))
    /\ UNCHANGED <<profile, contended>>

Matched(object, p) ==
    LET changes == [aidServiceProfile |-> p, isMatched |-> TRUE]
    IN  [k \in BookingColumns |-> IF k \in DOMAIN changes THEN changes[k] ELSE object[k]]

\* The match changes the object the settlement may still have to save.
Pick(m) ==
    /\ pc[m] = "pick"
    /\ pc' = [pc EXCEPT ![m] = "reload"]
    /\ \E p \in Providers \cup {Official} :
        entity' = [c \in Calls |->
            IF c = m \/ (c = request[m].arg /\ pc[c] = "reload")
            THEN Matched(entity[m], p) ELSE entity[c]]
    /\ UNCHANGED <<rows, request, bookingSet, profile, profileSet, faults, history>>
-----------------------------------------------------------------------------
(* Saving.                                                                 *)

Step(c, from, to) == pc[c] = from /\ pc' = [pc EXCEPT ![c] = to]

AfterBooking(c) == IF request[c].kind = "rate" THEN "reloadProfile" ELSE "commit"

Reload(c) ==
    LET changes == Changed(entity[c], booking[BookingOf(c)])
    IN  /\ Step(c, "reload", IF changes = NoChange THEN AfterBooking(c) ELSE "update")
        /\ bookingSet' = [bookingSet EXCEPT ![c] = changes]
        /\ UNCHANGED <<rows, request, entity, profile, profileSet, faults, history>>

LocksProviderLeaked(c, p) ==                \* mutant: a rating that fails is not rolled back
    /\ request[c].kind = "rate" /\ pc[c] \in {"commit", "failed"}
    /\ booking[BookingOf(c)].aidServiceProfile = p /\ ~Provides(request[c].user, BookingOf(c))

\* Request c has updated the row of booking b, or of provider p, in its transaction.
LocksBooking(c, b) ==
    /\ pc[c] \in {"reloadProfile", "updateProfile", "commit"}
    /\ bookingSet[c] # NoChange
    /\ BookingOf(c) = b
LocksProvider(c, p) == pc[c] = "commit" /\ profileSet[c] # NoChange /\ Rated(c) = p

Update(c) ==
    /\ \A d \in Calls \ {c} : ~LocksBooking(d, BookingOf(c))
    /\ Step(c, "update", AfterBooking(c))
    /\ UNCHANGED <<rows, request, entity, bookingSet, profile, profileSet, faults, history>>

ReloadProfile(c) ==
    /\ Step(c, "reloadProfile", "updateProfile")
    /\ profileSet' = [profileSet EXCEPT ![c] = Changed(profile[c], provider[Rated(c)])]
    /\ UNCHANGED <<rows, request, entity, bookingSet, profile, faults, history>>

UpdateProfile(c) ==
    /\ Step(c, "updateProfile", "commit")
    /\ profileSet[c] # NoChange => \A d \in Calls \ {c} : ~LocksProvider(d, Rated(c))
    /\ UNCHANGED <<rows, request, entity, bookingSet, profile, profileSet, faults, history>>

Forget(c) ==
    /\ entity' = [entity EXCEPT ![c] = NoChange]
    /\ bookingSet' = [bookingSet EXCEPT ![c] = NoChange]
    /\ profile' = [profile EXCEPT ![c] = NewProvider]
    /\ profileSet' = [profileSet EXCEPT ![c] = NoChange]

CommitRowsReplacing(c) ==                   \* mutant: the row is replaced, not updated
    /\ booking' = IF request[c].kind = "rateApp" THEN booking
                  ELSE [booking EXCEPT ![BookingOf(c)] = bookingSet[c]]
    /\ provider' = IF IsRating(c)
                   THEN [provider EXCEPT ![Rated(c)] = Overlay(@, profileSet[c])]
                   ELSE provider

\* What request c wrote becomes the committed state; a rating also inserts a review.
CommitRows(c) ==
    /\ booking' = IF request[c].kind = "rateApp" THEN booking
                  ELSE [booking EXCEPT ![BookingOf(c)] = Overlay(@, bookingSet[c])]
    /\ provider' = IF IsRating(c)
                   THEN [provider EXCEPT ![Rated(c)] = Overlay(@, profileSet[c])]
                   ELSE provider

RecordCommit(c) ==
    /\ versions' = IF request[c].kind = "rateApp" THEN versions
                   ELSE [versions EXCEPT ![BookingOf(c)] = @ \cup {booking'[BookingOf(c)]}]
    /\ reviews' = IF IsRating(c)
                  THEN [reviews EXCEPT ![Rated(c)] =
                            [number |-> @.number + 1, sum |-> @.sum + request[c].arg]]
                  ELSE reviews

CommitDeleting(c) ==                        \* mutant: the clean-up moved to the finally block
    /\ Step(c, "commit", "committed")
    /\ CommitRows(c)
    /\ RecordCommit(c)
    /\ Forget(c)
    /\ deleted' = IF request[c].kind = "processed" THEN deleted \cup {request[c].arg}
                  ELSE deleted
    /\ UNCHANGED <<created, request, faults, overlap, contended, uses>>

Commit(c) ==
    /\ Step(c, "commit", "committed")
    /\ CommitRows(c)
    /\ RecordCommit(c)
    /\ Forget(c)
    /\ UNCHANGED <<created, deleted, request, faults, overlap, contended, uses>>

\* A statement fails and the catch block rolls back; updateBookingProcessedFiles also
\* deletes the files of its dto (lines 182-184).
DatabaseError(c) ==
    /\ pc[c] \in Open
    /\ faults < MaxFaults
    /\ faults' = faults + 1
    /\ pc' = [pc EXCEPT ![c] = "failed"]
    /\ deleted' = IF request[c].kind = "processed" THEN deleted \cup {request[c].arg}
                  ELSE deleted
    /\ Forget(c)
    /\ UNCHANGED <<created, booking, provider, request, history>>

\* Nobody awaits a match, nor a settlement that came by webhook: its rejection ends
\* the process, and every open transaction is rolled back.
Crash ==
    /\ \E c \in Calls : pc[c] = "failed" /\ request[c].kind \in {"settle", "match"}
    /\ pc' = [c \in Calls |-> IF pc[c] \in {"idle", "committed"} THEN pc[c] ELSE "lost"]
    /\ entity' = [c \in Calls |-> NoChange]
    /\ bookingSet' = [c \in Calls |-> NoChange]
    /\ profile' = [c \in Calls |-> NewProvider]
    /\ profileSet' = [c \in Calls |-> NoChange]
    /\ UNCHANGED <<rows, request, faults, history>>
-----------------------------------------------------------------------------
RequestStep(c) == \/ Pick(c) \/ Reload(c) \/ Update(c) \/ ReloadProfile(c) \/ UpdateProfile(c)
                  \/ Commit(c)

Next ==
    \/ \E f \in Files : CreateFails(f) \/ \E b \in Bookings : CreateBooking(b, f)
    \/ \E c \in Calls, b \in Bookings :
        \/ \E f \in Files : \/ UpdateBooking(c, b, f) \/ RefuseUpdate(c, b, f)
                            \/ UpdateProcessedFiles(c, b, f) \/ RefuseProcessed(c, b, f)
        \/ \E u \in Users : \/ ConfirmByProvider(c, b, u) \/ RefuseProvider(c, b, u)
                            \/ ConfirmByUser(c, b, u)
        \/ \E u \in Users, r \in Ratings : RateBooking(c, b, u, r) \/ RefuseRating(c, b, u, r)
        \/ \E m \in Calls : SettlePaid(c, m, b)
        \/ SettleOtherwise(c, b, "Cancelled")
    \/ \E c \in Calls, r \in Ratings : RateApp(c, r) \/ RefuseRateApp(c, r)
    \/ \E c \in Calls : RequestStep(c) \/ DatabaseError(c)
    \/ Crash

Spec == Init /\ [][Next]_vars

\* The event loop runs every continuation that is ready, and PostgreSQL grants a row
\* lock once it is free.
FairSpec == Spec /\ \A c \in Calls : WF_vars(RequestStep(c))
-----------------------------------------------------------------------------
(* What is checked.                                                        *)

\* Objects and SET clauses name columns of their row, and rows keep their columns.
TypeOK ==
    /\ created \subseteq Bookings
    /\ DOMAIN booking = Bookings
    /\ \A b \in Bookings : DOMAIN booking[b] = BookingColumns
    /\ DOMAIN provider = Providers
    /\ \A p \in Providers : /\ DOMAIN provider[p] = DOMAIN NewProvider
                            /\ provider[p].noOfRatings \in Nat
    /\ deleted \subseteq Files
    /\ pc \in [Calls -> Open \cup {"idle", "committed", "failed", "lost"}]
    /\ \A c \in Calls : /\ DOMAIN request[c] = DOMAIN NoRequest
                        /\ request[c].kind \in Kinds \cup {"none", "match"}
                        /\ BookingOf(c) \in Bookings
                        /\ request[c].user \in Users
                        /\ DOMAIN entity[c] \subseteq BookingColumns
                        /\ DOMAIN bookingSet[c] \subseteq DOMAIN entity[c]
                        /\ DOMAIN profileSet[c] \subseteq DOMAIN NewProvider
    /\ faults \in 0..MaxFaults
    /\ overlap \subseteq Bookings
    /\ contended \subseteq Providers

\* A request changes the columns it is there for.  Another column only ever goes back,
\* together with all others, to ONE version of the row that was committed before.
Row == INSTANCE StaleRow
        WITH Rows <- Bookings, Columns <- BookingColumns, row <- booking,
             Duties <- {Duty[kind] : kind \in Endpoints},
             Created <- {NewBooking(f) : f \in Files}
ImplementsRow == Row!Spec

\* On a booking no two requests have worked on at once, a commit changes no column but
\* those its request is there for, although it saves the whole object.
OwnColumnsOnly ==
    [][\A b \in created \ overlap' : \A k \in BookingColumns :
        booking'[b][k] # booking[b][k] =>
            \E c \in Calls : /\ WorksOn(c, b) /\ pc'[c] = "committed"
                             /\ k \in Duty[request[c].kind]]_vars

\* A booking no two requests have worked on at once is In Progress exactly when it is
\* paid for: the owner can cancel it before the payment and never after it, and the
\* match, which saves the same object, agrees with the settlement.  It is rated and
\* confirmed only after it was matched with a provider.
StatusesAgree ==
    \A b \in Bookings \ overlap :
        /\ booking[b].paymentStatus = "Paid" <=> booking[b].bookingStatus = "In Progress"
        /\ booking[b].rating # 0 \/ booking[b].confirmedByProvider => booking[b].isMatched

\* A file a booking refers to is on disk, unless two requests named that file: only
\* then does the clean-up of the one that failed take it from the one that did not.
FilesKept ==
    \A b \in created : \A k \in {"rawMediaFiles", "processedMediaFiles"} :
        booking[b][k] \in deleted => uses[booking[b][k]] > 1

\* A provider never shows more ratings than were committed, and never an average
\* outside what was given, however ratings overwrite each other.
RatingsBacked ==
    \A p \in Providers :
        LET average == provider[p].averageRating
        IN  /\ provider[p].noOfRatings <= reviews[p].number
            /\ reviews[p].number > 0 =>
                \E low, high \in Ratings : low * average[2] <= average[1]
                                           /\ average[1] <= high * average[2]

\* A provider that was never rated by two requests at once shows the number and the
\* exact average of all reviews committed.
RatingsExact ==
    \A p \in Providers \ contended :
        /\ provider[p].noOfRatings = reviews[p].number
        /\ provider[p].averageRating[1] * reviews[p].number
            = reviews[p].sum * provider[p].averageRating[2]

\* Every request ends: rows are locked in the order booking, provider, by all of them.
RequestsEnd == \A c \in Calls : InFlight(c) ~> ~InFlight(c)
=============================================================================
