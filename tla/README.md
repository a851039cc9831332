# ePrint-API in TLA+

A model of the server in this repository: a NestJS application in which users book print jobs, pay
for them through Paystack, are matched with a provider, and confirm and rate the job.  The modules
are about what happens when its handlers run at the same time, fail half-way, or are called twice:
nothing in the repository's tests reaches that (they are the framework's "Hello World").

Paths such as `transaction/transaction.service.ts` are below `src/` of the repository.

## The system

One Node process, one PostgreSQL database reached through TypeORM, two services outside it (Paystack
calls a webhook; a mailer is called).  All state that lasts is in the database, apart from uploaded
files.  A handler is one `async` function, and almost all of them have one shape:

1. `createQueryRunner()` takes a connection, `startTransaction()` opens a transaction
   (READ COMMITTED, the default: no read takes a lock);
2. `findOne` loads an object and the relations it names; the code tests it and throws;
3. the object is changed in memory;
4. `manager.save` reads the row again and updates **the columns in which the object differs**, so a
   column that was loaded and has changed since is written back with its old value;
5. `commitTransaction`; on any error `rollbackTransaction`; always `release`; then the error is thrown.

Between any two `await`s other requests run.  A rejected promise that nobody awaits ends the process
(Node's default; nothing in `main.ts` changes it).

### Components

| Component | State | Operations that change it | What is hard | What makes it correct |
|---|---|---|---|---|
| Payment settlement (`transaction.service.ts` 105-170) | `payment_transaction`, `profile_wallet`, status columns of `booking` | `updatePayment`, called by webhook (not awaited), verify endpoint, status endpoint | repeated deliveries, read-modify-write of a balance, a sub-task that is not awaited, crash | a payment credits its owner once, a credit is never made up, statuses agree |
| Provider match (`booking.service.ts` 305-427, 492-515) | `booking.aidServiceProfile`, `isMatched` | started by a settlement | its own transaction on an object the settlement is still changing; a query whose answer is old when it is used | a paid booking is matched in the end; a free provider is not passed over; nobody is booked twice |
| Bookings (`booking.service.ts` 68-292, 429-490) | `booking`, uploaded files | create, update/cancel, processed files, confirm by provider, confirm by user | test and save are round trips apart; the save writes the whole object | a handler changes its own columns; status and payment agree |
| Reviews (`review.service.ts` 24-94) | `review_and_rating`, `booking.rating`, provider average and count | `createRating` | running average as read-modify-write on a shared row | count and average are those of the reviews |
| Payment requests (`transaction.service.ts` 37-103) | `payment_transaction` | `createTransaction` | check-then-insert, early return without commit | one payment per booking, a reference that is answered is stored |
| Connection pool (TypeORM, 10 by default) | connections, open transactions | every handler | nested acquisition, runners that are never released | no request waits for ever |
| Accounts (`auth.service.ts`, `user.service.ts` 20-55) | `auth` with password and code, `profile`, `role` | register, seed, code, reset, verify, roles, change of name | concurrent duplicates, a code that is replaced while it is used, saves of the whole account | one account per e-mail and phone number; a code sets one password, of its own account |
| Catalogue (`aid-service.service.ts`) | services, tags, clusters, provider profiles | create, update, delete, seed, set tags and clusters, apply | unique names without a constraint; replacing a set of rows; links detached by a save | one service per name; the tags are those of one update; ratings survive an application |
| Users and clusters (`user.service.ts`) | clusters, memberships | create/update cluster, manage memberships | the same | a user is at most once in a cluster |
| Reports (`report.service.ts`) | reports, comments | create, update, resolve, comment | two writers of one row; a comment that is not awaited | a report shows what its requests made of it; a resolution is commented on |
| Notifications, mail (`notification.service.ts`) | `notification`, `app_version` | `sendNotification` (never awaited, swallows errors), `updateAppVersion` | an e-mail that fails skips the rows; the end of the process loses both | whoever is concerned is told, unless that step failed |
| File upload, Paystack client, HTTP layer, queries, migrations | - | - | - | - |

How they interact: a settlement starts a match (a call that is not awaited, sharing an object); a
booking, its payment and its match all save the same row; rating writes a booking and then a provider;
every handler shares the pool; an application for a provider profile and a rating save the same row; most
handlers end by sending a notification, which nobody awaits.

## Modules

| Module | What it is |
|---|---|
| `Persist` | TypeORM's `save` as the services use it: the SET clause of the UPDATE (`Changed`) and its effect (`Overlay`).  External code. |
| `Settlement` | `updatePayment` and the match it starts, one action per round trip. |
| `LossyLedger` | Abstract: what the wallets really promise. |
| `MCSettlement` | Values for TLC. |
| `SettlementProofs`, `LedgerProofs` | Theorems about `Settlement`; that it implements `LossyLedger`. |
| `Booking` | All handlers that save a booking row, and ratings. |
| `StaleRow` | Abstract: what a row, new or there from the start, promises under read - change - save; `Booking` and `Accounts` implement it. |
| `MCBooking` | Values for TLC. |
| `BookingProofs` | Theorems about `Booking`; that its rows implement `StaleRow`. |
| `Payments` | `createTransaction` for a booking, on a pool of connections it shares with settlements and every other handler. |
| `MCPayments` | Values for TLC. |
| `PaymentsProofs` | Theorems about `Payments`. |
| `Matching` | The query for eligible providers, the score, and several matches at once. |
| `MatchingProofs` | Theorems about `Matching`. |
| `Accounts` | Registration, codes, passwords, roles and names: every handler that writes an account. |
| `AccountsProofs` | Theorems about `Accounts`; that its rows implement `StaleRow`. |
| `Catalogue` | Services, clusters, tags, memberships and provider profiles: names that are looked up and inserted, sets of rows that are replaced. |
| `CatalogueProofs` | Theorems about `Catalogue`. |
| `Reports` | Reports, their comments, and the notifications that follow a commit. |
| `ReportsProofs` | Theorems about `Reports`. |
| `MCMatching`, `MCAccounts`, `MCCatalogue`, `MCReports` | Values for TLC. |

### Settlement

*State.*  `status`, `booking`, `wallet` are committed rows.  Per call: `pc` is the next round trip,
`request` the dto, `userWallet` and `entity` the two JavaScript objects, `walletSet` and `bookingSet`
the SET clauses computed by `save`, `held` the rows its transaction has locked.  `match` and `matchSet`
are the same for the match.  The rest (`credits`, `credited`, `versions`, `contended`, `overlap`,
`reopened`, `spoiled`) is history: no action reads it.

*Actions.*  `Begin`/`Refuse` (111-121), `FindWallet` (122-130, 145-153), `ReloadWallet` and
`UpdateWallet` (131; the latter also starts the match, 133, and sets the statuses, 135-139),
`ReloadBooking`/`UpdateBooking` (140), `ReloadTrx`/`UpdateTrx` (159), `Commit` (160), `DatabaseError`
(the catch block), `AnswerError` (the finally block for a caller that awaits), and for the match `Pick`
(348-391), `MatchReload`, `MatchUpdate`, `MatchCommit`, `MatchError`.  `Crash` is a rejection nobody
awaits.  An UPDATE waits while another transaction holds its row; a SELECT never does.

*Abstractions.*  Amounts are naturals (the column is `numeric(12,2)`).  Of a booking only the four columns
these handlers write are kept.  Which eligible provider wins is a free choice.  The profile, service and
notification of a match are left out: nothing is read back from them.  The status endpoint can pass any
`PaymentStatus`; `Paid` and one other value stand for all, since the code only distinguishes `Paid`.

### Booking

*State.*  `booking` has all columns the handlers touch; `rawMediaFiles` stands for everything an owner can
edit.  `provider` holds the running average (a fraction in lowest terms: rounding of a float is left out) and
the number of ratings; `deleted` the files removed.  Per request: `pc`, `request`, `entity` and `bookingSet`
as above, `profile` and `profileSet` for the provider row of a rating.  History: `versions`, `overlap`,
`contended`, `reviews`, `uses`.

*Actions.*  One per endpoint and outcome (`UpdateBooking`/`RefuseUpdate`, `UpdateProcessedFiles`/
`RefuseProcessed`, `ConfirmByProvider`/`RefuseProvider`, `ConfirmByUser`, `RateBooking`/`RefuseRating`,
`RateApp`/`RefuseRateApp`, `CreateBooking`/`CreateFails`), then the shared steps of a save (`Reload`, `Update`,
`ReloadProfile`, `UpdateProfile`, `Commit`), `DatabaseError` and `Crash`.  `SettlePaid`, `SettleOtherwise` and
`Pick` are the footprint of `Settlement` on the row: there the wallet and transaction rows are in the model,
here the other columns are.

*Two things the code does that one would not guess.*  `UpdateBookinDTO.bookingStatus` is required and can only
be `Cancelled`, so every accepted update cancels the booking.  `confirmBookingService` for the owner always
throws (see *Findings*), so `ConfirmByUser` has one outcome.

### Payments

*State.*  `payment` holds, per booking, the columns of its payment and the booking's `paymentStatus`, which the
handlers here write together.  `open` holds, per **connection**, what the transaction open on it has changed and
not committed: it belongs to the connection because the code lets a transaction outlive the request that began
it.  `on` is the connection a call has taken, `pc`, `request`, `entity` and `changes` are as in `Settlement`.  A
reference is the call that generated it (the code draws a UUID), so "whose reference is stored" can be said.
`overlap` is history.

*Actions.*  `Arrive`, `Connect` (43-46), then for `createTransaction` `FindBooking` (55-68), `FindTrx` (70-83),
`Insert` (91, with the UNIQUE constraint of the one-to-one column), `Reload` and `UpdateRef` (80-81, then the
finally block: the connection is released **with its transaction open**), `Commit` (93) and `Fail` (95-102); for
`updatePayment` `FindPayment` and `UpdatePayment`, its footprint on these columns.  `Lookup` is `getTransaction`
(172-179), which never gives its connection back.  `QueryPool` is a query that needs a second connection while
one is held: line 361 of `booking.service.ts` in a match, `generateUniqueID` called in `createAccount`.
`Refuse` and `Commit` of an "other" request are every other handler: what matters of them is that they end the
transaction they find on their connection.

*The environment.*  `DatabaseError` at any statement; `DeadlockVictim`, PostgreSQL's deadlock detection;
`Expire`, the pool closing an idle connection (its transaction is rolled back); `Crash`, the rejection of a
settlement that nobody awaits, which ends the process and with it every connection.

*Abstractions.*  A deposit has no booking and cannot take the early return, so it is an "other" request.  The
tables of other handlers are left out: what they write is stored or discarded with the rest of their
transaction, and nothing here reads it.  `DatabaseError` leaves out a connection that is itself broken.

### Matching

*State.*  `booking` has the times, the provider and `isMatched`; per match `pc`, `about` (its booking), `pick` (the provider
chosen) and `changes` (the SET clause).  History: `free` and `apart`, what was true of the providers when the match
asked; `setBy`, which matches chose a booking's provider; `crowd`, which matches ran at once.

*Actions.*  `CreateBooking` (the end is an hour after the start), `UpdateBooking` (moves the start, not the end), `Begin`
(338-359), `Query` (361-391: `Eligible`, `Score`, `Picks`), `Reload` and `Commit` (392-396), `Fail` (the rejection that ends the
process).  `Settlement` has the same match with the round trips of its transaction and a free choice of provider; here the choice is
modelled and the transaction is short.

*Abstractions.*  Hours are numbers; the columns are ISO strings, compared as strings.  How two addresses match is a constant
(the regular expressions are not looked into).  The tests of `isDeleted` stand before an `OR` that TypeORM does not put in
parentheses, so they apply to one alternative only; nothing in the repository sets that column of a provider, and they are left out.

### Accounts

*State.*  `account` has the columns handlers change (e-mail and phone number as one set `logins`) and the name in the profile;
`roleName` the roles.  Per call `pc`, `request`, `entity`, `changes` as elsewhere.  A code is its number and - for the properties only -
the call that drew it; a password is the call that set it.  History: `versions`, `used`, `overlap`, `crowd`.

*Actions.*  `Register` to `CommitAccount` (`createAccount`, 51-140, and the first part of `seedAdminProfile`), `AskRole`, `FindRole`,
`SaveRole`, `CommitRole` (roles), `RequestCode` (`resendOtp`, `requestResetPassword`), `AssignRole`, `Rename` and `UpdateProfile`
(`updateUser`), `FindForReset`/`RefuseReset` and `ResetPassword` (an UPDATE of every account **with the code that was read**),
`Verify`, then the shared `Reload`, `Update`, `Commit`, and `DatabaseError` and `Crash`: the e-mails about codes and passwords are neither
awaited nor caught, so one that fails ends the process.

*The null code.*  `otp` is optional in the dto, and null equals a stored code that was spent, so `FindForReset` lets a request with it pass
(`Given` has 0 for null).  Its UPDATE then compares a column with NULL, which no row satisfies (`Matching`), and the request is answered
all the same.  That a comparison with null is written `= NULL` and not `IS NULL` is TypeORM's way with a value that is no
find operator; written `IS NULL` it would set the password of every account without a code.

*Abstractions.*  Expiry of a code is left out (a code may be refused at any time); log-in and tokens store nothing.

### Catalogue

*State.*  `row` has services, clusters and provider profiles, `links` the tags or clusters of a service and the memberships of a user, `tag`
the tags, `providerOf` a user's profile.  Per call `loaded` (the links that came with its object), `detached` (those its save takes from
the service because the object does not list them) and `newTags` besides the usual.  History: `overlap`, `crowd`.

*Actions.*  One per endpoint, then `Reload`, `Update`, `FindTags` (56-76), `Unlink` (77-82, 100-106) and `Commit`.  `Rate` is the footprint of
`Booking` on a provider's row.

*Tag lists.*  An element of `Tags` is an entry of a list as it was sent, and `TagName` the name it has in small letters: a list that repeats a name is
a set of entries with one `TagName`.  `FindTags` makes a row for **every** entry whose name it has not found, so one request stores a new
name as often as its list has it, and a known one is linked as often.

*Abstractions.*  Clusters of a service take the path of its tags (`saveAidServiceClusters` with `ADD`); `REMOVE` and
`updateAidServiceClusters` have no caller.

### Reports

*State.*  `report`, `reportComment`, `notification`, `appVersion` are tables.  A *job* is a request or the comment that a resolution starts
(`FollowUp`); `pc`, `request`, `entity`, `changes` are per job and `notice` is how far its notification has come.  `crashed` says that the
process has ended.  History: `serial`, the reports had each request run alone at its commit, and `overlap`.

*Actions.*  `CreateReport`, `UpdateReport`, `ResolveReport`, `CommentReport`, `UpdateAppVersion`, `Refuse`; `Reload`, `Update`, `Commit` (which starts
what is not awaited); `SendMail`, `CreateNotification`, `NotificationFails` (`sendNotification`); `DatabaseError`; `Crash`.  The other services use
`sendNotification` in the same way, after their commit.

## What is checked

Each property is explained above its definition.

| Run | Instance | Shows |
|---|---|---|
| `settlement_races` | 3 awaited calls, a booking payment and a deposit of one user, Paid/Cancelled, no faults | Updates of the wallet are lost, never invented (`BalanceBacked`), and only when two calls held the row's copy at once (`ExactWhenIsolated`); Paid comes with a credit (`PaidOnlyWithCredit`); the wallets implement `LossyLedger` |
| `settlement_faults` | 2 calls, webhook or endpoint, three kinds of payment, one database error anywhere | Partial failure and crash leave status, credit and booking consistent when calls do not overlap; every call ends; a paid booking is matched unless something failed or overlapped |
| `credited_once` | 2 calls, no faults | **violated**: two deliveries credit twice |
| `booking_races` | 4 requests at one booking, two files, ratings 1 and 4, no faults | A request changes its own columns unless requests overlap (`OwnColumnsOnly`); overlapped, the row goes back to one committed version at worst (`ImplementsRow`); payment and status agree, rating and confirmation come after the match (`StatusesAgree`); ratings are lost but not invented, exact when alone |
| `booking_faults` | 3 requests, one database error, two bookings that were matched before with one provider, no official provider, one file | Every request ends, also when a rating that holds its booking waits for the provider, whom a rating of the other booking holds, while a third request waits for the first booking (`RequestsEnd`); a file a booking refers to disappears only when two requests named it (`FilesKept`) |
| `payment_races` | 4 requests (payment, settlement, other) for two bookings on two connections | A booking gets one payment (`OnePayment`) although two requests can both find none; on a booking that no two requests worked on at once, only a settlement changes a payment's status, whoever commits what a retry left open (`OnlySettlementsSettle`) |
| `payment_requests` | 3 requests (payment, settlement, nested, lookup) for one booking on two connections, one database error | What a failed request wrote is never stored, not even by a later user of its connection (`FailedLeavesNothing`); a request waits for ever only if the pool has run dry, or if a row is locked on a connection that is kept (`CallsEnd`) |
| `answered_is_stored` | 2 payment requests for one booking, no faults | **violated**: a retry answers a reference that is not stored |
| `providers_matched` | 3 matches of 3 bookings, 2 providers, three hours | A match never passes over a provider who is free (`FreeFirst`).  A provider is booked twice when matches run at once, when another of his bookings is far enough, or as the official provider - and for no other reason (`DoubleBooked`) |
| `account_races` | 3 requests of any kind, one fault, an account and a role that exist | Who shares a login registered at once (`DuplicatesCrowded`); a registration that is alone succeeds (`AloneRegisters`); every password comes from a registration or from a code of that account (`PasswordsFromCodes`); without overlap a code sets one password (`OneCodeOnePassword`) and the answer "Password reset done" is true of a code that was sent, and of `otp: null` changes nothing (`ResetIsDone`); every account implements `StaleRow` |
| `catalogue_races` | 3 requests of any kind, one fault, a service, a cluster, a user, tag lists of none, one and three entries, two of which are spellings of one name | Names double only when requests ran at once, tags also within one request, once for every entry of its list (`NamesOnce`); the links of a service are one request's, one for every entry (`LinksOfOneRequest`); a member once (`MemberOnce`); a profile has an owner (`ProviderOwned`) and keeps its ratings (`RatingsKept`), all unless requests overlap |
| `report_follow_up` | 2 requests of any kind, one error or one end of the process | A report no two requests write at once is what they make of it in turn (`SerialWhenAlone`); a resolution is commented on and everybody is told, unless that very step failed or the process ended (`FollowedUp`) |

*Bounds.*  `Calls` bounds the requests, each made once; `MaxFaults` the database errors.  A lost update needs two
calls on one row; a lost update that another call then builds on needs three; the mixture of two stale saves with
a settlement and its match needs four.  A rating needs a provider, which takes a settlement and a match
before; so `booking_faults` begins with two bookings that have one (`Earlier`, `MatchedBooking`): two ratings then take
their bookings and contend for his row, and the third request waits behind one of them.  `booking_races` begins without bookings and
has the official provider.  Two kinds of payment on one wallet exercise both balances, and the
withdrawal, which writes no wallet, is in the faults run.  A deadlock between payment
requests needs four calls: two retries leave transactions open that have locked a booking each, and two more work
inside them and ask for the other row.  Two requests suffice for every
race of `Reports`; a double booking by way of a third booking needs three bookings and three matches; doubled names and codes need two requests, and a
third that works on the result; a tag stored twice by one request needs two entries of one name, and the third entry is a name of its own.  With two connections the pool can be exhausted by two kept ones, or by one
kept and one nested.  Calls and files (and in the settlement
providers) are interchangeable, so they are symmetric in the safety runs; runs with liveness use no symmetry.

*Deadlock* is not checked by TLC because a model in which every request has been made stops; `CallsEnd` and
`RequestsEnd` say instead that no request hangs.

*Fairness.*  Weak fairness of each call and of each match: the event loop runs a continuation once its query is
answered, and PostgreSQL grants a row lock once it is free.  `Crash` is weakly fair in `Settlement` (Node ends the
process on an unhandled rejection).  In `Payments` a call is served by the pool (a queue, in order), gets a lock that
is free and is chosen as a deadlock's victim if it goes on for ever, and an idle connection expires (10 seconds by
default): all are weakly fair.  `Crash` is not, there, so `CallsEnd` does not lean on it.  Nothing is assumed of
arrivals and faults.  In `Reports` each job is weakly fair, awaited or not.

*What `CallsEnd` of `Payments` shows.*  Its two exceptions were found by TLC, not chosen.  `Exhausted` is the expected
one.  `LockKept` is not: the transaction that a retry left open, holding the payment's row, can be handed to
a request that keeps the connection (a lookup), or that waits for a second connection which a settlement of
that very payment holds while it waits for the row.  The pool does not expire a connection in use and PostgreSQL sees
no cycle, so the settlement hangs although the pool may have connections left.

*What "unless requests overlap" leaves out.*  Many properties are about rows no two requests have worked on at once (`overlap`, `crowd`,
`contended`).  They show that the handlers are right one after the other, and that nothing but the race breaks them; they do not
show the race harmless, because it is not.  What holds in the race itself is said by other properties where there is something to say:
`ImplementsLedger`, `BalanceBacked`, `ImplementsRow`, `RatingsBacked`, `PasswordsFromCodes`, `OnePayment`, and `RequestsEnd` and
`CallsEnd` for waiting.  The note of each hazard in `PROJECT.json` says which of the two it is.

## What is proved

For all values of the constants, by TLAPS.

*About `Settlement`*, under `SettlementAssumption`:

* `TypeCorrect`: `Spec => []TypeOK`.
* `MoneyInvariant`: the inductive invariant `TypeOK /\ WalletCallsSettle /\ Money`, where `Money` is
  `BalanceBacked`, `CopiesBacked`, `ExactWhenIsolated` and `CopiesExact`.  `BalanceBacked` is not inductive
  alone: a commit writes a balance that was computed long before, so one needs a bound on every copy in flight
  (its own credit plus what is committed *now*; `credited` only grows, so an old copy stays within it).  Exactness
  needs that only a call that holds the lock has passed its UPDATE, and that the row has not changed under a copy
  unless the user is contended.  `WalletCallsSettle` says which program counters a call can have given what it settles.
* `BalanceIsBacked`, `CopiesAreBacked`, `IsolatedWalletIsExact`: the parts, as theorems of the specification.
* `PaidNeedsCredit`: the action property `PaidOnlyWithCredit`, from the same invariant.
* `SingleInvariant` and `CreditsMatchStatuses`: a payment whose settlements never overlapped and that was not reopened was
  credited once if it is Paid and not at all otherwise.  `CreditMatchesStatus` is about committed rows; `Apart` adds that two
  calls at work on one payment have marked it, and `Fresh` that a call alone still finds the payment without the status it was
  asked for.  That is what the missing lock on the payment's row does *not* guarantee once two deliveries overlap.
* `SettlingInvariant` and `BookingsAgree`: when nothing works on a payment any more, its booking tells its status, and is matched
  once it was credited.  Nothing of the kind holds in between, because the match saves the very object the settlement holds,
  in a transaction of its own.  So the invariant follows this object (`ObjectSound`: a copy of the row, then the new status, then
  matched), the two UPDATEs made from it, in either order (`UpdateSound`, `MatchUpdateSound`: each makes the row tell the new
  status, and neither takes a match back), and `MatchesStarted` says which calls can have a match at all.
* `SettlementImplementsLedger`: each step of `Settlement` is a `Credit` of `LossyLedger` or leaves it unchanged.
  The extra invariant `VersionsKept` says that the copy a call holds was made from a version that was committed.

These proofs use framing lemmas (`FrameMoney`, `OtherStepsFrame`): an action that touches neither wallet nor copies
preserves the invariant, so only `FindWallet`, `ReloadWallet`, `UpdateWallet` and `Commit` need an argument.

*About `Booking`*, under `BookingAssumption`:

* `BookingInvariant`: the inductive invariant `Inv`, of six parts.  `Stored` and `Asked` say what the rows and the requests are; in
  them, `ObjectOK` says that what a request holds is *one* committed version of its booking but for its own columns.  `Alone` says
  that two requests with objects of one booking have marked it, except a settlement and its match, which share an object
  (`PairOK`), and that what a request alone has read is still so (`FreshOK`).  `Agreed`, `Counted` and `RatingsOK` hold the properties.
* `TypeCorrect`, `StatusesAlwaysAgree`, `FilesAreKept`, `RatingsAreBacked`, `RatingsAreExact`: the properties.  `FilesAreKept` rests on
  `Counted`: a file named once is referred to, on its way to a row, or cleaned up, and only one of the three.  `RatingsAreBacked` needs
  that each average in flight lies between two possible ratings; averages are fractions in lowest terms, and that each rational has
  such a form is `ReducedFacts`, by the well-founded order of the naturals (a least denominator).
* `OnlyOwnColumns`: the action property.  A request whose booking is not overlapped changes its `Duty` only.
* `BookingsImplementRows`: the bookings that exist at the start have one version, and each step of `Booking` is a step of `StaleRow` for every booking, or leaves it unchanged.

*About `Accounts`*, under `AccountsAssumption`:

* `AccountInvariant`: the inductive invariant `Inv`.  `Requests` and `Fresh` are to accounts what `Asked` and `Alone` are to bookings.
  `Versions` says of every version of an account, not only of the latest, where its password and its code come from: a stale
  save can bring any of them back.  `Codes` says that a code that was used is never an account's again unless requests overlapped.
  `Crowding` and `UserIds` extend the properties to registrations that have looked and not inserted yet.
* `TypeCorrect`, `SharedLoginsCrowded`, `RefusedForLogins`, `PasswordsHaveCodes`: the invariants of the run.
* `CodesSetOnePassword` and `AnsweredResetIsDone`: the two action properties.  The second has a case for the null code: its answer comes with no
  change of any account, which rests on `Matching` alone.
* `AccountsImplementRows`: every account implements `StaleRow`.

*About `Catalogue`*, under `CatalogueAssumption` and `KeysAssumption` (rows of different tables are different things):

* `CatalogueInvariant`: the inductive invariant `Inv`.  Each property is about committed rows, while a request saves what it has
  looked up round trips before; `Sound` says of a request in flight what the property is going to say of its commit.
  `NameSound`: whoever has the name it is about to store ran with it, or with one that wrote its row.  `LinksSound`: what it is going to
  remove and add, and that these are still the links it read unless the owner is overlapped.  `OwnerSound`: the profile it saves is
  its user's, with the ratings of now.  `Met` is what makes the exceptions true: two requests at work have marked what they share.
  `Begun` says that a request owns nothing before it commits.
* `TypeCorrect`, `NamesAreOnce` (of tags: one request may store a new name once per entry, two only if they ran at once), `LinksAreOneRequests`, `MembersAreOnce`, `ProvidersAreOwned`: the invariants of the run.
* `RatingsAreKept`: the action property.

A step of one request keeps the others sound for one of three reasons: it stores nothing (`KeepSound`), it begins (`AskKeepsInv`), or it
commits and shares nothing that is not marked (`OthersTopics`).

*About `Reports`*, under `ReportsAssumption`:

* `ReportInvariant` and `TypeCorrect`: the inductive invariant `TypeOK /\ Stored /\ Asked /\ Alone /\ SerialWhenAlone`.
* `AloneIsSerial`: `SerialWhenAlone`.  The request history that it compares with runs each request at one go, on the row as it is
  at the commit; the code reads the row twice before.  `Fresh` closes the gap: while a request is alone on its report,
  what its object or its SET clause would make of the row *now* is what the request at one go would make of it.

*About `Payments`*, under `PaymentsAssumption`:

* `TypeCorrect`: `Spec => []TypeOK`, which includes that no two requests share a connection.
* `PaymentInvariant`: the inductive invariant `TypeOK /\ References /\ Identity`.
  `References` strengthens `FailedLeavesNothing`, which is not inductive alone because a commit stores what other requests
  left on the connection: a reference that is open on a connection, or that another request's object carries, was
  answered, or belongs to the request that is about to commit it there.  `Identity` strengthens `OnePayment`: no two
  connections have changed one row (`LocksExclusive`), an insert that is not stored belongs to a request at its commit and to a booking
  without a payment (`InsertsPending`), and every object and SET clause that names a requester names the stored one
  (`ObjectsIdentify`).  Without `InsertsPending` a transaction that is left open could hold an insert, and whoever commits
  it would replace a payment that was stored meanwhile.
* `FailuresLeaveNothing` and `PaymentIsOne`: the two properties, as theorems of the specification.
* `SettlementsSettle`: `OnlySettlementsSettle`, from `Inv` and a second inductive invariant, `Statuses`.  On a booking that no two requests
  have worked on at once, a status that is open on a connection belongs to the request that is about to commit it there (`OpenStatuses`), a
  settlement or the insert of a payment that does not exist yet.  That a retry leaves no status open follows from `ObjectsKeepStatus`: what
  it saves has the status it reads on its own connection, and nobody changes that between its two reads, since a commit that does would belong to
  a second request for the booking.

Most steps are *quiet* there: they store nothing, and only forget objects or discard open transactions.  One lemma
(`QuietKeepsInv`) covers all of them, every failure included (`FailQuiet`); the writing actions and `Commit` have proofs
of their own.

*About `Matching`*, under `MatchingAssumption`, which leaves open how addresses match, whether there is an official provider
and at which hours bookings start:

* `MatchingInvariant`: the inductive invariant `Inv`.  `DoubleBooked` is not inductive alone.  A match chooses its provider when it asks
  and gives him the booking two round trips later; in between, other matches commit.  `Foreseen` says of a match in that
  state what `DoubleBooked` is going to say of its booking: whatever is too close to it and has the provider it chose was matched by one that ran at the
  same time, or the choice was excused when it was made.  A commit either leaves the provider as he was, or is one whose case `Foreseen` covers
  for the committing match; for the matches that have asked and not committed, the committing one is one that ran with them (`Crowds`).
  `Chosen` ties the record of a booking's matches to the row: without it a booking that is moved could already have a provider.
  `Clauses` says that a match sets no other column.
* `FreeProvidersComeFirst` and `DoubleBookingsExplained`: the two properties, as theorems of the specification.  The first rests
  on `FreeIsEligible`: whoever has no booking too close passes the query, which is why its fault is only that it lets others pass too.

Only model-checked: the liveness properties `CallsEnd`, `RequestsEnd`, `PaidIsMatched` and `FollowedUp` (fairness and ENABLED are
outside the prover's reach).

## Findings

Two statements the code makes about itself are refuted by a run each: the settlement guard
(`transaction.service.ts:116`, run `credited_once`) and the answer to a second payment request (`:81`, run `answered_is_stored`).
`PROJECT.json` quotes them.  Other things the modules contain because the code does them:

* The owner's confirmation of a booking always throws (`booking.service.ts:240` reads a relation that line 230 does not load).
* The guard against a second match never fires (`booking.service.ts:356`, a relation that `transaction.service.ts:113` does not load).  A
  booking that is matched again counts as one of its provider's, so he is not eligible for it by being otherwise free.
* The match saves the booking as Paid before the payment has committed (`transaction.service.ts:133`); an update that read a Pending booking
  can cancel it after it was paid (`booking.service.ts:455`).
* `verifyAccount` always refuses, because accounts are created verified.  "Password reset done" is answered even if the UPDATE finds no row
  (`auth.service.ts:328-341`): because another request has replaced the code meanwhile, or in one lone request with `otp: null` once the code is spent.
* One request that names a new tag twice, or in two spellings, stores it twice (`aid-service.service.ts:62-76`).
* Removing a user from clusters saves the rows it should remove (`user.service.ts:179`).
* `seedAidServices` looks for names in lower case and compares them with the data set's capitals: each call stores all of them
  again; it never releases its connection.
* An update of a report makes whoever sends it the one who resolved it, even if it only comments (`report.service.ts:118`).

## Plan

1. *Done*: `Settlement` with proofs and `LossyLedger`; `Booking` with `StaleRow`; `Payments`, with the pool, and its proofs; `Matching`,
   `Accounts`, `Catalogue`, `Reports`.
2. *Done*: theorems for every invariant and action property that a passing run checks.
3. A common abstract module for check-then-insert (`DuplicatesCrowded`, `NamesOnce`, `OnePayment` are three forms of it).

## Not modelled

Read-only queries, DTO validation and routing, JWT guards, log-in, mail text, Paystack's HTTP client, file upload and migrations:
they keep no state another component relies on, or are generated.  Overflow of `numeric(12,2)` and the rejection of a fractional
total by an integer column appear only as the database error that any statement can raise.
