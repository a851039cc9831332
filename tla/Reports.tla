------------------------------ MODULE Reports -------------------------------
(***************************************************************************)
(* Reports, their comments, and the notifications that follow a change     *)
(* (ReportService, NotificationService).                                   *)
(*                                                                         *)
(* An update and a resolution save the whole report they have read.  When  *)
(* a resolution has committed, its comment is recorded by commentReport in *)
(* a transaction of its own, and notifications go out: none of this is     *)
(* awaited, every error in it is swallowed, and the end of the process     *)
(* loses it without a trace.                                               *)
(***************************************************************************)
EXTENDS Naturals, Persist

CONSTANTS
    Calls,          \* requests; a call is also the report it creates, and the text it gives
    Reports,        \* reports that exist
    Users,          \* users with a profile
    Owner,          \* the provider whom reports are about
    NoProfile,      \* a column that names no profile
    NoText,         \* comment IS NULL
    MaxFaults       \* bound on errors of database and mail and on ends of the process

ASSUME ReportsAssumption ==
    /\ Calls \cap Reports = {}
    /\ \A c \in Calls : <<"comment", c>> \notin Calls
    /\ Owner \in Users
    /\ NoProfile \notin Users
    /\ NoText \notin Calls
    /\ MaxFaults \in Nat

VARIABLES
    report,         \* report[r]: the committed row
    reportComment,  \* rows of report_comment: the job that wrote it and its report
    notification,   \* rows of notification: the job they are about and who receives them
    appVersion,     \* rows of app_version
    pc,             \* pc[j]: what job j does next
    request,        \* request[j]: endpoint, report, user and dto of job j
    entity,         \* entity[j]: the report it saves
    changes,        \* changes[j]: SET clause of its UPDATE
    notice,         \* notice[j]: how far the notification of job j has come
    faults,         \* database and mail errors, and ends of the process, so far
    crashed,        \* the process has ended
    \* History, read by no action.
    serial,         \* serial[r]: the row, had every request run alone at its commit
    overlap         \* reports that two requests worked on at once

database == <<report, reportComment, notification, appVersion>>
memory == <<pc, request, entity, changes, notice>>
history == <<serial, overlap>>
vars == <<database, memory, faults, crashed, history>>

-----------------------------------------------------------------------------
\* The comment on its resolution is a job that call c starts and does not wait for.
FollowUp(c) == <<"comment", c>>
Jobs == Calls \cup {FollowUp(c) : c \in Calls}
Rows == Reports \cup Calls

Absent == [entityOwner |-> NoProfile]
NewReport(owner) == [comment |-> NoText, isResolved |-> FALSE, resolvedById |-> NoProfile,
                     entityOwner |-> owner]
Existing == {r \in Rows : report[r] # Absent}

\* resolved holds the flag of the dto, if it is given; commented says that a text is.
NoRequest == [kind |-> "none", report |-> NoProfile, user |-> NoProfile, resolved |-> {},
              commented |-> FALSE]

Open == {"reload", "update", "commit"}
InFlight(j) == pc[j] \in Open
Writes(c) == InFlight(c) /\ request[c].kind \in {"update", "resolve"}

Init ==
    /\ report = [r \in Rows |-> IF r \in Reports THEN NewReport(Owner) ELSE Absent]
    /\ reportComment = {}
    /\ notification = {}
    /\ appVersion = {}
    /\ pc = [j \in Jobs |-> "idle"]
    /\ request = [j \in Jobs |-> NoRequest]
    /\ entity = [j \in Jobs |-> NoChange]
    /\ changes = [j \in Jobs |-> NoChange]
    /\ notice = [j \in Jobs |-> "none"]
    /\ faults = 0
    /\ crashed = FALSE
    /\ serial = report
    /\ overlap = {}

-----------------------------------------------------------------------------
(* The endpoints: they read what they need and go on, or throw.            *)

Ask(c, dto, next, read) ==
    /\ pc[c] = "idle"
    /\ pc' = [pc EXCEPT ![c] = next]
    /\ request' = [request EXCEPT ![c] = dto]
    /\ entity' = [entity EXCEPT ![c] = read]
    /\ overlap' = overlap \cup IF Writes(c)' /\ \E d \in Calls : Writes(d)
                                                    /\ request[d].report = dto.report
                               THEN {dto.report} ELSE {}
    /\ UNCHANGED <<database, changes, notice, faults, crashed, serial>>

Dto(kind, r, u, resolved, commented) ==
    [kind |-> kind, report |-> r, user |-> u, resolved |-> resolved, commented |-> commented]

\* The owner is the provider of the booking, or the official profile - which need not exist.
CreateReport(c, u, owner) ==
    Ask(c, Dto("create", c, u, {}, FALSE), "commit", NewReport(owner))

\* The flag of the dto, or what there is without it.
Flag(resolved, otherwise) ==
    IF resolved = {} THEN otherwise ELSE CHOOSE flag \in resolved : TRUE

UpdateFlag(c, r, u, resolved, commented) ==   \* mutant: isResolved = (resolved == true)
    /\ r \in Existing
    /\ Ask(c, Dto("update", r, u, resolved, commented), "reload",
           [comment |-> IF commented THEN c ELSE report[r].comment,
            isResolved |-> TRUE \in resolved, resolvedById |-> u])

\* Whoever updates a report becomes the one who resolved it, even by a comment alone.
UpdateReport(c, r, u, resolved, commented) ==
    /\ r \in Existing
    /\ Ask(c, Dto("update", r, u, resolved, commented), "reload",
           [comment |-> IF commented THEN c ELSE report[r].comment,
            isResolved |-> Flag(resolved, report[r].isResolved), resolvedById |-> u])

ResolveReport(c, r, u, isResolved) ==
    /\ r \in Existing
    /\ Ask(c, Dto("resolve", r, u, {isResolved}, FALSE), "reload",
           [report[r] EXCEPT !.isResolved = isResolved, !.resolvedById = u])

CommentUnchecked(c, r, u) ==                    \* mutant: line 226 dropped
    Ask(c, Dto("comment", r, u, {}, TRUE), "commit", NoChange)

CommentReport(c, r, u) ==
    /\ r \in Existing
    /\ Ask(c, Dto("comment", r, u, {}, TRUE), "commit", NoChange)

UpdateAppVersion(c) ==
    Ask(c, Dto("version", c, NoProfile, {}, FALSE), "commit", NoChange)

\* No such profile or report; a report on a booking that is missing or has no provider, or
\* without the rating that its column demands.
Refuse(c) == Ask(c, NoRequest, "failed", NoChange)

-----------------------------------------------------------------------------
(* Saving, and what follows.                                               *)

Step(j, from, to) == pc[j] = from /\ pc' = [pc EXCEPT ![j] = to]
Target(j) == request[j].report

Reload(c) ==
    /\ Step(c, "reload", "update")
    /\ changes' = [changes EXCEPT ![c] = Changed(entity[c], report[Target(c)])]
    /\ UNCHANGED <<database, request, entity, notice, faults, crashed, history>>

Locks(c, r) == pc[c] = "commit" /\ Target(c) = r /\ changes[c] # NoChange

Update(c) ==
    /\ Step(c, "update", "commit")
    /\ \A d \in Calls : ~Locks(d, Target(c))
    /\ UNCHANGED <<database, request, entity, changes, notice, faults, crashed, history>>

Forget(j) == /\ entity' = [entity EXCEPT ![j] = NoChange]
             /\ changes' = [changes EXCEPT ![j] = NoChange]

\* The row, had request dto - with the given text - changed it at one go.
Serially(row, dto, text) ==
    LET commented == [row EXCEPT !.comment = IF dto.commented THEN text ELSE @]
    IN  [commented EXCEPT !.resolvedById = dto.user, !.isResolved = Flag(dto.resolved, @)]

\* Neither an update nor a new version of the app notifies anybody.
Notified(j) == request[j].kind \in {"create", "resolve", "comment"}

StartedNone(j) == {}                            \* mutant: line 293 dropped
Started(j) == IF request[j].kind = "resolve" THEN {FollowUp(j)} ELSE {}

Commit(j) ==
    /\ pc[j] = "commit"
    /\ pc' = [i \in Jobs |-> CASE i = j -> "answered"
                               [] i \in Started(j) -> "commit"
                               [] OTHER -> pc[i]]
    /\ request' = [i \in Jobs |->
            IF i \in Started(j) THEN Dto("comment", Target(j), request[j].user, {}, TRUE)
            ELSE request[i]]
    /\ CASE request[j].kind = "create" ->
                /\ report' = [report EXCEPT ![j] = entity[j]]
                /\ serial' = [serial EXCEPT ![j] = entity[j]]
         [] request[j].kind \in {"update", "resolve"} ->
                /\ report' = [report EXCEPT ![Target(j)] = Overlay(@, changes[j])]
                /\ serial' = [serial EXCEPT ![Target(j)] = Serially(@, request[j], j)]
         [] OTHER -> UNCHANGED <<report, serial>>
    /\ reportComment' = reportComment \cup
            (IF request[j].kind = "comment" THEN {<<j, Target(j)>>} ELSE {})
    /\ appVersion' = appVersion \cup (IF request[j].kind = "version" THEN {j} ELSE {})
    /\ notice' = [notice EXCEPT ![j] = IF Notified(j) THEN "mail" ELSE @]
    /\ Forget(j)
    /\ UNCHANGED <<notification, faults, crashed, overlap>>

-----------------------------------------------------------------------------
(* sendNotification: the e-mail, then the rows.                            *)

Receivers(j) == {report[Target(j)].entityOwner}
                \cup (IF request[j].kind = "create" THEN {request[j].user} ELSE {})

SendMail(j) ==
    /\ notice[j] = "mail"
    /\ notice' = [notice EXCEPT ![j] = "store"]
    /\ UNCHANGED <<database, pc, request, entity, changes, faults, crashed, history>>

CreateNotification(j) ==
    /\ notice[j] = "store"
    /\ notice' = [notice EXCEPT ![j] = "stored"]
    /\ notification' = notification \cup ({j} \X Receivers(j))
    /\ UNCHANGED <<report, reportComment, appVersion, pc, request, entity, changes, faults,
                   crashed, history>>

\* An e-mail that fails skips the rows.
NotificationFails(j) ==
    /\ notice[j] \in {"mail", "store"}
    /\ faults < MaxFaults
    /\ faults' = faults + 1
    /\ notice' = [notice EXCEPT ![j] = "failed"]
    /\ UNCHANGED <<database, pc, request, entity, changes, crashed, history>>

DatabaseError(j) ==
    /\ InFlight(j)
    /\ faults < MaxFaults
    /\ faults' = faults + 1
    /\ pc' = [pc EXCEPT ![j] = "failed"]
    /\ Forget(j)
    /\ UNCHANGED <<database, request, notice, crashed, history>>

\* Something else ends the process - a settlement that nobody awaits, say.
Crash ==
    /\ faults < MaxFaults
    /\ faults' = faults + 1
    /\ crashed' = TRUE
    /\ pc' = [j \in Jobs |-> IF InFlight(j) THEN "lost" ELSE pc[j]]
    /\ notice' = [j \in Jobs |-> IF notice[j] \in {"mail", "store"} THEN "lost" ELSE notice[j]]
    /\ entity' = [j \in Jobs |-> NoChange]
    /\ changes' = [j \in Jobs |-> NoChange]
    /\ UNCHANGED <<database, request, history>>

-----------------------------------------------------------------------------
JobStep(j) == (j \in Calls /\ (Reload(j) \/ Update(j))) \/ Commit(j)
NoticeStep(j) == SendMail(j) \/ CreateNotification(j)

Next ==
    \/ \E c \in Calls, u \in Users :
        \/ \E owner \in {Owner, NoProfile} : CreateReport(c, u, owner)
        \/ \E r \in Rows :
            \/ \E resolved \in {{}, {TRUE}, {FALSE}}, commented \in BOOLEAN :
                UpdateReport(c, r, u, resolved, commented)
            \/ \E isResolved \in BOOLEAN : ResolveReport(c, r, u, isResolved)
            \/ CommentReport(c, r, u)
    \/ \E c \in Calls : UpdateAppVersion(c) \/ Refuse(c)
    \/ \E j \in Jobs : JobStep(j) \/ NoticeStep(j) \/ NotificationFails(j) \/ DatabaseError(j)
    \/ Crash

Spec == Init /\ [][Next]_vars

\* The event loop runs every continuation that is ready, awaited or not, and PostgreSQL
\* grants a row lock once it is free.
FairSpec == Spec /\ \A j \in Jobs : WF_vars(JobStep(j) \/ NoticeStep(j))
-----------------------------------------------------------------------------
(* What is checked.                                                        *)

\* Comments and notifications belong to reports that exist, and a job that waits for its
\* notification has committed.
TypeOK ==
    /\ DOMAIN report = Rows
    /\ \A j \in Jobs :
        /\ pc[j] \in Open \cup {"idle", "answered", "failed", "lost"}
        /\ notice[j] \in {"none", "mail", "store", "stored", "failed", "lost"}
        /\ notice[j] # "none" => pc[j] = "answered" /\ Target(j) \in Existing
        /\ DOMAIN changes[j] \subseteq DOMAIN entity[j]
    /\ \A row \in reportComment : row[1] \in Jobs /\ row[2] \in Existing
    /\ notification \subseteq Jobs \X (Users \cup {NoProfile})
    /\ appVersion \subseteq Calls
    /\ faults \in 0..MaxFaults

\* A report that no two updates or resolutions have worked on at once is what they make of
\* it one after the other, in the order of their commits: nothing that an earlier one set
\* is lost, and it names the user who was the last to touch it.
SerialWhenAlone == \A r \in Existing \ overlap : report[r] = serial[r]

\* What is to follow the commit of a job: its notifications, and the comment.
Told(j) == notice[j] = "stored" /\ {<<j, u>> : u \in Receivers(j)} \subseteq notification
Commented(c) == \/ pc[FollowUp(c)] = "answered" /\ <<FollowUp(c), Target(c)>> \in reportComment
                \/ pc[FollowUp(c)] = "failed"

\* Every resolution that is answered is commented on in the end, and the owner is told of
\* every report, resolution and comment, unless the very step failed or the process ended:
\* a notification that fails takes no comment with it, and a comment that fails takes no
\* notification of the resolution with it.
FollowedUp ==
    \A j \in Jobs :
        pc[j] = "answered" ~>
            \/ crashed
            \/ /\ Notified(j) => Told(j) \/ notice[j] = "failed"
               /\ request[j].kind = "resolve" => Commented(j)
=============================================================================
