------------------------------ MODULE Matching ------------------------------
(***************************************************************************)
(* Which provider a booking is matched with: the query for eligible        *)
(* providers, the score, and what becomes of both when matches run at the  *)
(* same time (BookingService).                                             *)
(*                                                                         *)
(* The query joins the bookings of a provider, so that ONE booking that is *)
(* far enough from the new one makes him eligible, whatever else he has to *)
(* do.  Its tests of isDeleted are left out: nothing in the repository     *)
(* sets that column of a provider.                                         *)
(***************************************************************************)
EXTENDS Integers, Persist

CONSTANTS
    Matches,        \* calls of matchBookingWithServiceProfile
    Bookings,
    Providers,
    Official,       \* the official provider, NoProvider if there is none
    NoProvider,     \* aidServiceProfile IS NULL
    Disabled,       \* providers with a disabilityType
    AddressMatch,   \* AddressMatch[b][p]: the parts of the addresses that match
    Hours,          \* the hours at which bookings start
    Movable         \* bookings whose start is moved later on

AddressParts == {"country", "state", "locality", "city"}

ASSUME MatchingAssumption ==
    /\ NoProvider \notin Providers
    /\ Official \in Providers \cup {NoProvider}
    /\ AddressMatch \in [Bookings -> [Providers -> SUBSET AddressParts]]
    /\ Hours \subseteq Nat
    /\ Movable \subseteq Bookings

VARIABLES
    booking,    \* booking[b]: times, provider and isMatched
    pc,         \* pc[c]: what match c does next
    about,      \* about[c]: the booking of match c
    pick,       \* pick[c]: the provider it has chosen
    changes,    \* changes[c]: SET clause of its UPDATE
    \* History, read by no action.
    free,       \* free[c]: the providers with no booking too close, when match c asked
    apart,      \* apart[c]: of the bookings of its pick, those that were far enough
    setBy,      \* setBy[b]: the matches that chose the provider of booking b
    crowd       \* pairs of matches that ran at once

history == <<free, apart, setBy, crowd>>
vars == <<booking, pc, about, pick, changes, history>>

-----------------------------------------------------------------------------
Absent == [isMatched |-> FALSE]
\* The end is an hour after the start (lines 88-90), and matching keeps another hour free.
NewBooking(hour) == [startDate |-> hour, endDate |-> hour + 1, isMatched |-> FALSE,
                     aidServiceProfile |-> NoProvider]
Created == {b \in Bookings : booking[b] # Absent}
BookingsOf(p) == {b \in Created : booking[b].aidServiceProfile = p}

After(x, b) == booking[x].startDate >= booking[b].endDate + 1
BeforeNoMargin(x, b) == booking[x].endDate <= booking[b].startDate  \* mutant: lines 315-317
Before(x, b) == booking[x].endDate <= booking[b].startDate - 1

EligibleInner(b) ==                             \* mutant: bookings.id IS NULL is left out
    {p \in Providers : \E x \in BookingsOf(p) : Before(x, b) \/ After(x, b)}

\* The service that was booked is not looked at.
Eligible(b) ==
    {p \in Providers : \/ BookingsOf(p) = {}
                       \/ \E x \in BookingsOf(p) : Before(x, b) \/ After(x, b)}

Score(p, b) ==
    LET match == AddressMatch[b][p]
    IN  (IF p \in Disabled THEN 5 ELSE 0)
        + CASE match = AddressParts -> 5
            [] match # AddressParts /\ AddressParts \ {"city"} \subseteq match -> 4
            [] "locality" \notin match /\ {"country", "state"} \subseteq match -> 3
            [] OTHER -> 0

\* The sort puts any one of the best first; without anybody eligible the official provider
\* takes the booking, if there is one.
Picks(b) ==
    IF Eligible(b) = {} THEN {Official}
    ELSE {p \in Eligible(b) : \A q \in Eligible(b) : Score(q, b) <= Score(p, b)}

Init ==
    /\ booking = [b \in Bookings |-> Absent]
    /\ pc = [c \in Matches |-> "idle"]
    /\ about \in [Matches -> Bookings]
    /\ pick = [c \in Matches |-> NoProvider]
    /\ changes = [c \in Matches |-> NoChange]
    /\ free = [c \in Matches |-> {}]
    /\ apart = [c \in Matches |-> {}]
    /\ setBy = [b \in Bookings |-> {}]
    /\ crowd = {}

-----------------------------------------------------------------------------
CreateBooking(b, hour) ==
    /\ b \notin Created
    /\ booking' = [booking EXCEPT ![b] = NewBooking(hour)]
    /\ UNCHANGED <<pc, about, pick, changes, history>>

\* An update moves the start and leaves the end where it was.  While a match runs it is
\* module Booking's business.
UpdateBooking(b, hour) ==
    /\ b \in Created \cap Movable
    /\ \A c \in Matches : about[c] = b => pc[c] = "idle"
    /\ booking' = [booking EXCEPT ![b].startDate = hour]
    /\ UNCHANGED <<pc, about, pick, changes, history>>

Running(c) == pc[c] \in {"query", "reload", "commit"}
Step(c, from, to) == pc[c] = from /\ pc' = [pc EXCEPT ![c] = to]

\* A settlement starts match c, once more if it comes twice: the guard against a second
\* match tests a relation that the settlement does not load.
Begin(c) ==
    /\ Step(c, "idle", "query")
    /\ about[c] \in Created
    /\ crowd' = crowd \cup {{c, d} : d \in {e \in Matches : Running(e)}}
    /\ UNCHANGED <<booking, about, pick, changes, free, apart, setBy>>

TooClose(x, b) == /\ booking[x].startDate <= booking[b].endDate
                  /\ booking[b].startDate <= booking[x].endDate

Query(c) ==
    /\ Step(c, "query", "reload")
    /\ \E p \in Picks(about[c]) :
        /\ pick' = [pick EXCEPT ![c] = p]
        /\ apart' = [apart EXCEPT ![c] = {x \in BookingsOf(p) : ~TooClose(x, about[c])}]
    /\ free' = [free EXCEPT ![c] =
            {p \in Providers : \A x \in BookingsOf(p) : ~TooClose(x, about[c])}]
    /\ UNCHANGED <<booking, about, changes, setBy, crowd>>

Reload(c) ==
    /\ Step(c, "reload", "commit")
    /\ changes' = [changes EXCEPT ![c] =
            Changed([isMatched |-> TRUE, aidServiceProfile |-> pick[c]], booking[about[c]])]
    /\ UNCHANGED <<booking, about, pick, history>>

Commit(c) ==
    /\ Step(c, "commit", "done")
    /\ booking' = [booking EXCEPT ![about[c]] = Overlay(@, changes[c])]
    /\ setBy' = [setBy EXCEPT ![about[c]] =
            {d \in @ : pick[d] = booking'[about[c]].aidServiceProfile}
            \cup (IF pick[c] = booking'[about[c]].aidServiceProfile THEN {c} ELSE {})]
    /\ UNCHANGED <<about, pick, changes, free, apart, crowd>>

\* Nobody awaits a match: when one fails the process ends, and every other with it.
Fail ==
    /\ \E c \in Matches : Running(c)
    /\ pc' = [c \in Matches |-> IF Running(c) THEN "failed" ELSE pc[c]]
    /\ UNCHANGED <<booking, about, pick, changes, history>>

Next ==
    \/ \E b \in Bookings, hour \in Hours : CreateBooking(b, hour) \/ UpdateBooking(b, hour)
    \/ \E c \in Matches : Begin(c) \/ Query(c) \/ Reload(c) \/ Commit(c)
    \/ Fail

Spec == Init /\ [][Next]_vars
-----------------------------------------------------------------------------
(* What is checked.                                                        *)

\* A match never passes over a provider who is free: it chooses one whose score is at least
\* that of every provider without a booking too close, and the official provider stands in
\* only if there is none.  (A booking that is matched again counts as one of its provider's.)
FreeFirst ==
    \A c \in Matches : \A p \in free[c] :
        pick[c] # NoProvider /\ Score(p, about[c]) <= Score(pick[c], about[c])

\* What speaks for the choice of match c although its provider was not free.
Excused(c) == apart[c] # {} \/ (pick[c] = Official /\ free[c] = {})

\* Two bookings of one provider are too close to each other only if their matches ran at
\* once; or the later match took him for another booking of his that was far enough; or it
\* found nobody free, and he is the official provider.
DoubleBooked ==
    \A x, y \in Created :
        x # y /\ booking[x].aidServiceProfile = booking[y].aidServiceProfile
            /\ booking[x].aidServiceProfile # NoProvider /\ TooClose(x, y)
        => \E c \in setBy[x], d \in setBy[y] : {c, d} \in crowd \/ Excused(c) \/ Excused(d)
=============================================================================
