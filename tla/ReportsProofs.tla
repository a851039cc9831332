--------------------------- MODULE ReportsProofs ----------------------------
(***************************************************************************)
(* Theorems about Reports: for all sets of requests, reports and users,    *)
(* comments and notifications belong to reports that exist, and a report   *)
(* that no two requests have worked on at once is what they make of it one *)
(* after the other.                                                        *)
(***************************************************************************)
EXTENDS Reports, TLAPS

Columns == {"comment", "isResolved", "resolvedById", "entityOwner"}
Owners == Users \cup {NoProfile}
RowTyped(row) == DOMAIN row = Columns /\ row.entityOwner \in Owners

\* An object or a SET clause names no owner but a user, or nobody.
Owned(object) == "entityOwner" \in DOMAIN object => object.entityOwner \in Owners

\* A report that was created exists once its request has been answered.
Stored ==
    /\ DOMAIN report = Rows /\ DOMAIN serial = Rows
    /\ \A r \in Existing : RowTyped(report[r]) /\ DOMAIN serial[r] = Columns
    /\ \A c \in Calls : c \in Existing => pc[c] = "answered" /\ request[c].kind = "create"

\* What a job has been asked, and the jobs that a resolution starts.
Asked ==
    /\ pc \in [Jobs -> Open \cup {"idle", "answered", "failed", "lost"}]
    /\ DOMAIN request = Jobs /\ DOMAIN entity = Jobs
    /\ DOMAIN changes = Jobs /\ DOMAIN notice = Jobs
    /\ \A j \in Jobs :
        /\ request[j].kind \in {"update", "resolve", "comment"} => Target(j) \in Existing
        /\ request[j].kind = "create" => /\ j \in Calls /\ Target(j) = j
                                         /\ request[j].user \in Users
                                         /\ pc[j] = "commit" => RowTyped(entity[j])
        /\ request[j].kind = "version" => j \in Calls
        /\ request[j].kind = "resolve" => j \in Calls
        /\ pc[j] \in {"reload", "update"} => request[j].kind \in {"update", "resolve"}
        /\ pc[j] = "idle" => changes[j] = NoChange /\ request[j].kind = "none"
        /\ Owned(entity[j]) /\ Owned(changes[j])
    /\ \A c \in Calls : /\ pc[FollowUp(c)] # "idle" => pc[c] = "answered"
                        /\ request[FollowUp(c)].kind \in {"none", "comment"}

\* The UPDATE of a request that works alone on its report makes of the row, as it is now,
\* what the request run at one go would make of it.
Fresh(c) ==
    LET row == report[Target(c)]
    IN  Serially(row, request[c], c) =
            Overlay(row, IF pc[c] = "reload" THEN entity[c] ELSE changes[c])

Alone ==
    /\ \A c \in Calls : Writes(c) /\ Target(c) \notin overlap => Fresh(c)
    /\ \A c, d \in Calls :
        c # d /\ Writes(c) /\ Writes(d) /\ Target(c) = Target(d) => Target(c) \in overlap

Inv == TypeOK /\ Stored /\ Asked /\ Alone /\ SerialWhenAlone

-----------------------------------------------------------------------------
(* Rows.                                                                   *)

\* An object says of each column what the request run at one go makes of it, or is silent.
LEMMA SerialRow ==
    ASSUME NEW row, DOMAIN row = Columns, NEW dto, NEW text, NEW read,
           (IF "comment" \in DOMAIN read THEN read.comment ELSE row.comment)
                = IF dto.commented THEN text ELSE row.comment,
           (IF "isResolved" \in DOMAIN read THEN read.isResolved ELSE row.isResolved)
                = Flag(dto.resolved, row.isResolved),
           (IF "resolvedById" \in DOMAIN read THEN read.resolvedById ELSE row.resolvedById)
                = dto.user,
           (IF "entityOwner" \in DOMAIN read THEN read.entityOwner ELSE row.entityOwner)
                = row.entityOwner
    PROVE  Serially(row, dto, text) = Overlay(row, read)
<1>. DEFINE new == Serially(row, dto, text)
<1>1. new.comment = IF dto.commented THEN text ELSE row.comment
  BY DEF Serially, Columns
<1>2. new.isResolved = Flag(dto.resolved, row.isResolved)
  BY DEF Serially, Columns
<1>3. new.resolvedById = dto.user /\ new.entityOwner = row.entityOwner
  BY DEF Serially, Columns
<1>4. new = [k \in Columns |-> new[k]]
  BY DEF Serially, Columns
<1>. HIDE DEF new
<1>5. \A k \in Columns : new[k] = Overlay(row, read)[k]
  BY <1>1, <1>2, <1>3 DEF Columns, Overlay
<1>6. Overlay(row, read) = [k \in Columns |-> Overlay(row, read)[k]]
  BY DEF Overlay
<1>7. new = Overlay(row, read)
  BY <1>4, <1>5, <1>6
<1>. QED
  BY <1>7 DEF new

LEMMA SerialKeepsColumns ==
    ASSUME NEW row, DOMAIN row = Columns, NEW dto, NEW text
    PROVE  DOMAIN Serially(row, dto, text) = Columns
BY DEF Serially

\* save applies only what differs, which makes no difference to the row it was compared with.
LEMMA OverlayChanged ==
    ASSUME NEW object, NEW row
    PROVE  Overlay(row, Changed(object, row)) = Overlay(row, object)
BY DEF Overlay, Changed

LEMMA OverlayTyped ==
    ASSUME NEW row, RowTyped(row), NEW set, Owned(set)
    PROVE  RowTyped(Overlay(row, set))
BY DEF Overlay, RowTyped, Owned, Columns

LEMMA ChangedOwned ==
    ASSUME NEW object, Owned(object), NEW row
    PROVE  Owned(Changed(object, row)) /\ DOMAIN Changed(object, row) \subseteq DOMAIN object
BY DEF Changed, Owned

LEMMA TypedIsPresent ==
    ASSUME NEW row, RowTyped(row)
    PROVE  row # Absent
<1>1. "comment" \in DOMAIN row /\ "comment" \notin DOMAIN Absent
  BY DEF RowTyped, Columns, Absent
<1>. QED
  BY <1>1

LEMMA NewReportTyped ==
    ASSUME NEW owner \in Owners
    PROVE  RowTyped(NewReport(owner))
BY DEF NewReport, RowTyped, Columns

\* Jobs are requests and their follow-ups, which are not requests.
LEMMA JobKinds ==
    /\ Calls \subseteq Jobs
    /\ \A c \in Calls : FollowUp(c) \in Jobs /\ FollowUp(c) \notin Calls
    /\ \A c, d \in Calls : FollowUp(c) = FollowUp(d) => c = d
    /\ \A j \in Jobs : j \in Calls \/ \E c \in Calls : j = FollowUp(c)
BY ReportsAssumption DEF Jobs, FollowUp

-----------------------------------------------------------------------------
(* The inductive invariant.                                                *)

LEMMA InitInv == Init => Inv
<1>. SUFFICES ASSUME Init PROVE Inv
  OBVIOUS
<1>1. \A r \in Rows : r \in Existing => r \in Reports
  BY DEF Init, Existing
<1>2. \A r \in Reports : RowTyped(report[r])
  BY NewReportTyped, ReportsAssumption DEF Init, Rows, Owners
<1>3. Existing = Reports
  BY <1>1, <1>2, TypedIsPresent DEF Existing, Rows
<1>4. \A j \in Jobs : pc[j] = "idle" /\ request[j] = NoRequest /\ changes[j] = NoChange
  BY DEF Init
<1>5. TypeOK
  BY <1>4, ReportsAssumption DEF Init, TypeOK, NoChange
<1>6. Stored
  BY <1>2, <1>3, ReportsAssumption DEF Init, Stored, RowTyped
<1>7. Asked
  BY <1>4, JobKinds DEF Init, Asked, NoRequest, NoChange, Owned
<1>8. Alone
  BY <1>4, JobKinds DEF Alone, Writes, InFlight, Open
<1>9. SerialWhenAlone
  BY DEF Init, SerialWhenAlone
<1>. QED
  BY <1>5, <1>6, <1>7, <1>8, <1>9 DEF Inv

\* What an endpoint asks of its report, and the object it goes on with.
WellAsked(c, dto, next, read) ==
    /\ next \in {"reload", "commit", "failed"}
    /\ dto.kind \in {"none", "version", "update", "resolve", "comment", "create"}
    /\ dto.kind \in {"update", "resolve", "comment"} => dto.report \in Existing
    /\ dto.kind = "create" => dto.report = c /\ dto.user \in Users /\ RowTyped(read)
    /\ next = "reload" <=> dto.kind \in {"update", "resolve"}
    /\ Owned(read)
    /\ next = "reload" =>
        Serially(report[dto.report], dto, c) = Overlay(report[dto.report], read)

LEMMA AskKeepsInv ==
    ASSUME Inv, NEW c \in Calls, NEW dto, NEW next, NEW read,
           WellAsked(c, dto, next, read), Ask(c, dto, next, read)
    PROVE  Inv'
<1>. USE DEF Inv
<1>1. UNCHANGED <<report, reportComment, notification, appVersion, changes, notice, faults, serial>>
  BY DEF Ask, database
<1>2. /\ pc[c] = "idle" /\ pc'[c] = next /\ request'[c] = dto /\ entity'[c] = read
      /\ changes[c] = NoChange /\ notice[c] = "none" /\ c \in Jobs
      /\ DOMAIN pc' = Jobs /\ DOMAIN request' = Jobs /\ DOMAIN entity' = Jobs
  BY JobKinds DEF Ask, Asked, TypeOK
<1>3. \A j \in Jobs \ {c} : pc'[j] = pc[j] /\ request'[j] = request[j] /\ entity'[j] = entity[j]
  BY JobKinds DEF Ask, Asked
<1>4. Existing' = Existing /\ c \notin Existing
  BY <1>1, <1>2 DEF Existing, Stored
<1>5. Target(c)' = dto.report /\ \A j \in Jobs \ {c} : Target(j)' = Target(j)
  BY <1>2, <1>3 DEF Target
<1>6. overlap \subseteq overlap'
  BY DEF Ask
<1>7. TypeOK'
  BY <1>1, <1>2, <1>3, <1>4, <1>5 DEF TypeOK, WellAsked, Open, NoChange
<1>8. Stored'
  BY <1>1, <1>2, <1>3, <1>4, JobKinds DEF Stored
<1>9. Asked'
  <2>1. pc' \in [Jobs -> Open \cup {"idle", "answered", "failed", "lost"}]
    BY <1>2, <1>3 DEF Asked, WellAsked, Ask, Open
  <2>2. \A j \in Jobs \ {c} :
            /\ request'[j].kind \in {"update", "resolve", "comment"} => Target(j)' \in Existing'
            /\ request'[j].kind = "create" => /\ j \in Calls /\ Target(j)' = j
                                              /\ request'[j].user \in Users
                                              /\ pc'[j] = "commit" => RowTyped(entity'[j])
            /\ request'[j].kind = "version" => j \in Calls
            /\ request'[j].kind = "resolve" => j \in Calls
            /\ pc'[j] \in {"reload", "update"} => request'[j].kind \in {"update", "resolve"}
            /\ pc'[j] = "idle" => changes'[j] = NoChange /\ request'[j].kind = "none"
            /\ Owned(entity'[j]) /\ Owned(changes'[j])
    BY <1>1, <1>3, <1>4, <1>5 DEF Asked
  <2>3. Owned(changes'[c])
    BY <1>1, <1>2 DEF Owned, NoChange
  <2>4. \A d \in Calls : /\ pc'[FollowUp(d)] # "idle" => pc'[d] = "answered"
                         /\ request'[FollowUp(d)].kind \in {"none", "comment"}
    BY <1>2, <1>3, JobKinds DEF Asked
  <2>. QED
    BY <1>1, <1>2, <1>4, <1>5, <2>1, <2>2, <2>3, <2>4 DEF Asked, WellAsked
<1>10. Alone'
  <2>1. \A d \in Calls \ {c} : Writes(d)' <=> Writes(d)
    BY <1>3, JobKinds DEF Writes, InFlight
  <2>2. Writes(c)' => next = "reload"
    BY <1>2 DEF Writes, InFlight, WellAsked
  <2>3. \A d \in Calls \ {c} : Writes(c)' /\ Writes(d)' /\ Target(d)' = Target(c)'
                                => Target(c)' \in overlap'
    BY <1>2, <1>5, <2>1, JobKinds DEF Ask, Target
  <2>4. ASSUME NEW d \in Calls, Writes(d)', Target(d)' \notin overlap'
        PROVE  Fresh(d)'
    <3>1. CASE d = c
      <4>1. pc'[c] = "reload" /\ request'[c] = dto /\ entity'[c] = read /\ report' = report
        BY <1>1, <1>2, <2>2, <2>4, <3>1
      <4>2. Serially(report[dto.report], dto, c) = Overlay(report[dto.report], read)
        BY <1>2, <4>1 DEF WellAsked
      <4>. QED
        BY <1>5, <3>1, <4>1, <4>2 DEF Fresh
    <3>2. CASE d # c
      <4>1. Fresh(d)
        BY <1>5, <1>6, <2>1, <2>4, <3>2, JobKinds DEF Alone
      <4>. QED
        BY <1>1, <1>3, <3>2, <4>1, JobKinds DEF Fresh, Target
    <3>. QED
      BY <3>1, <3>2
  <2>5. ASSUME NEW d \in Calls, NEW e \in Calls, d # e, Writes(d)', Writes(e)',
               Target(d)' = Target(e)'
        PROVE  Target(d)' \in overlap'
    BY <1>5, <1>6, <2>1, <2>3, <2>5, JobKinds DEF Alone
  <2>. QED
    BY <2>4, <2>5 DEF Alone
<1>11. SerialWhenAlone'
  BY <1>1, <1>4, <1>6 DEF SerialWhenAlone
<1>. QED
  BY <1>7, <1>8, <1>9, <1>10, <1>11

\* The objects that an update and a resolution save are what they make of the row they read.
LEMMA UpdateWellAsked ==
    ASSUME Inv, NEW c \in Calls, NEW r \in Existing, NEW u \in Users,
           NEW resolved \in {{}, {TRUE}, {FALSE}}, NEW commented \in BOOLEAN,
           UpdateReport(c, r, u, resolved, commented)
    PROVE  Inv'
<1>. DEFINE dto == Dto("update", r, u, resolved, commented)
            row == report[r]
            read == [comment |-> IF commented THEN c ELSE row.comment,
                     isResolved |-> Flag(resolved, row.isResolved), resolvedById |-> u]
<1>1. DOMAIN row = Columns
  BY DEF Inv, Stored, RowTyped
<1>2. /\ dto.kind = "update" /\ dto.report = r /\ dto.user = u
      /\ dto.resolved = resolved /\ dto.commented = commented
  BY DEF Dto
<1>3. /\ read.comment = IF dto.commented THEN c ELSE row.comment
      /\ read.isResolved = Flag(dto.resolved, row.isResolved)
      /\ read.resolvedById = dto.user
      /\ DOMAIN read = {"comment", "isResolved", "resolvedById"}
  BY <1>2
<1>5. Serially(row, dto, c) = Overlay(row, read)
  <2>. HIDE DEF dto, read, row
  <2>. QED
    BY <1>1, <1>3, SerialRow
<1>6. Owned(read)
  BY DEF Owned
<1>7. WellAsked(c, dto, "reload", read)
  <2>. HIDE DEF dto, read
  <2>. QED
    BY <1>2, <1>5, <1>6 DEF WellAsked
<1>8. Ask(c, dto, "reload", read)
  BY DEF UpdateReport
<1>. QED
  <2>. HIDE DEF dto, read
  <2>. QED
    BY <1>7, <1>8, AskKeepsInv

LEMMA ResolveWellAsked ==
    ASSUME Inv, NEW c \in Calls, NEW r \in Existing, NEW u \in Users, NEW isResolved \in BOOLEAN,
           ResolveReport(c, r, u, isResolved)
    PROVE  Inv'
<1>. DEFINE dto == Dto("resolve", r, u, {isResolved}, FALSE)
            row == report[r]
            read == [row EXCEPT !.isResolved = isResolved, !.resolvedById = u]
<1>1. RowTyped(row)
  BY DEF Inv, Stored
<1>2. /\ dto.kind = "resolve" /\ dto.report = r /\ dto.user = u
      /\ dto.resolved = {isResolved} /\ dto.commented = FALSE
  BY DEF Dto
<1>3. Flag({isResolved}, row.isResolved) = isResolved
  BY DEF Flag
<1>4. /\ read.comment = row.comment
      /\ read.isResolved = isResolved
      /\ read.resolvedById = u
      /\ read.entityOwner = row.entityOwner
      /\ DOMAIN read = Columns
  BY <1>1 DEF RowTyped, Columns
<1>5. Serially(row, dto, c) = Overlay(row, read)
  <2>. HIDE DEF dto, read, row
  <2>. QED
    BY <1>1, <1>2, <1>3, <1>4, SerialRow DEF RowTyped, Columns
<1>6. Owned(read)
  BY <1>1 DEF Owned, RowTyped, Columns
<1>7. WellAsked(c, dto, "reload", read)
  <2>. HIDE DEF dto, read
  <2>. QED
    BY <1>2, <1>5, <1>6 DEF WellAsked
<1>8. Ask(c, dto, "reload", read)
  BY DEF ResolveReport
<1>. QED
  <2>. HIDE DEF dto, read
  <2>. QED
    BY <1>7, <1>8, AskKeepsInv

\* The endpoints that only insert, and a request that is refused.
LEMMA InsertWellAsked ==
    ASSUME Inv, NEW c \in Calls
    PROVE  /\ \A u \in Users, owner \in {Owner, NoProfile} : CreateReport(c, u, owner) => Inv'
           /\ \A r \in Rows, u \in Users : CommentReport(c, r, u) => Inv'
           /\ UpdateAppVersion(c) => Inv'
           /\ Refuse(c) => Inv'
<1>1. Owned(NoChange)
  BY DEF Owned, NoChange
<1>2. ASSUME NEW u \in Users, NEW owner \in {Owner, NoProfile}, CreateReport(c, u, owner)
      PROVE  Inv'
  <2>1. RowTyped(NewReport(owner))
    BY NewReportTyped, ReportsAssumption DEF Owners
  <2>2. WellAsked(c, Dto("create", c, u, {}, FALSE), "commit", NewReport(owner))
    BY <2>1 DEF WellAsked, Dto, Owned, RowTyped
  <2>. QED
    BY <1>2, <2>2, AskKeepsInv DEF CreateReport
<1>3. ASSUME NEW r \in Rows, NEW u \in Users, CommentReport(c, r, u)
      PROVE  Inv'
  <2>1. WellAsked(c, Dto("comment", r, u, {}, TRUE), "commit", NoChange)
    BY <1>1, <1>3 DEF WellAsked, Dto, CommentReport
  <2>. QED
    BY <1>3, <2>1, AskKeepsInv DEF CommentReport
<1>4. ASSUME UpdateAppVersion(c)
      PROVE  Inv'
  <2>1. WellAsked(c, Dto("version", c, NoProfile, {}, FALSE), "commit", NoChange)
    BY <1>1 DEF WellAsked, Dto
  <2>. QED
    BY <1>4, <2>1, AskKeepsInv DEF UpdateAppVersion
<1>5. ASSUME Refuse(c)
      PROVE  Inv'
  <2>1. WellAsked(c, NoRequest, "failed", NoChange)
    BY <1>1 DEF WellAsked, NoRequest
  <2>. QED
    BY <1>5, <2>1, AskKeepsInv DEF Refuse
<1>. QED
  BY <1>2, <1>3, <1>4, <1>5

\* A step that writes no report and asks nothing: a job goes on to its commit, or ends.
Ended == {"failed", "lost"}
Quiet ==
    /\ UNCHANGED <<report, request, serial, overlap>>
    /\ pc' \in [Jobs -> Open \cup {"idle", "answered", "failed", "lost"}]
    /\ DOMAIN entity' = Jobs /\ DOMAIN changes' = Jobs /\ DOMAIN notice' = Jobs
    /\ \A j \in Jobs :
        \/ pc'[j] = pc[j] /\ entity'[j] = entity[j] /\ changes'[j] = changes[j]
        \/ pc'[j] = pc[j] /\ ~InFlight(j) /\ entity'[j] = NoChange /\ changes'[j] = NoChange
        \/ InFlight(j) /\ pc'[j] \in Ended /\ entity'[j] = NoChange /\ changes'[j] = NoChange
        \/ /\ pc[j] = "update" /\ pc'[j] = "commit"
           /\ entity'[j] = entity[j] /\ changes'[j] = changes[j]

LEMMA QuietKeeps ==
    ASSUME Inv, Quiet
    PROVE  Stored' /\ Asked' /\ Alone' /\ SerialWhenAlone' /\ Existing' = Existing
<1>. USE DEF Inv
<1>1. UNCHANGED <<report, request, serial, overlap>>
  BY DEF Quiet
<1>2. Existing' = Existing
  BY <1>1 DEF Existing
<1>3. \A j \in Jobs : Target(j)' = Target(j)
  BY <1>1 DEF Target
<1>4. \A j \in Jobs : pc[j] \in {"idle", "answered", "failed", "lost"} => pc'[j] = pc[j]
  BY DEF Quiet, InFlight, Open
<1>5. Stored'
  BY <1>1, <1>2, <1>4, JobKinds DEF Stored
<1>6. Asked'
  <2>1. pc' \in [Jobs -> Open \cup {"idle", "answered", "failed", "lost"}]
    BY DEF Quiet
  <2>2. Owned(NoChange)
    BY DEF Owned, NoChange
  <2>3. ASSUME NEW j \in Jobs
        PROVE  /\ pc'[j] = "commit" => pc[j] \in {"update", "commit"} /\ entity'[j] = entity[j]
               /\ pc'[j] \in {"reload", "update"} => pc'[j] = pc[j]
               /\ pc'[j] = "idle" => pc[j] = "idle" /\ changes'[j] \in {changes[j], NoChange}
               /\ Owned(entity'[j]) /\ Owned(changes'[j])
    BY <2>2 DEF Quiet, Asked, Ended, InFlight, Open
  <2>4. \A j \in Jobs : request[j].kind = "create" => pc[j] # "update"
    BY DEF Asked
  <2>5. \A c \in Calls : pc'[FollowUp(c)] # "idle" => pc'[c] = "answered"
    BY <1>4, JobKinds DEF Asked
  <2>6. \A j \in Jobs :
            /\ request'[j].kind \in {"update", "resolve", "comment"} => Target(j)' \in Existing'
            /\ request'[j].kind = "create" => /\ j \in Calls /\ Target(j)' = j
                                              /\ request'[j].user \in Users
                                              /\ pc'[j] = "commit" => RowTyped(entity'[j])
            /\ request'[j].kind \in {"version", "resolve"} => j \in Calls
            /\ pc'[j] \in {"reload", "update"} => request'[j].kind \in {"update", "resolve"}
            /\ pc'[j] = "idle" => changes'[j] = NoChange /\ request'[j].kind = "none"
    BY <1>1, <1>2, <1>3, <2>3, <2>4 DEF Asked
  <2>. QED
    BY <1>1, <2>1, <2>3, <2>5, <2>6 DEF Asked, Quiet
<1>7. Alone'
  <2>1. \A c \in Calls : Writes(c)' => Writes(c)
    BY <1>1, JobKinds DEF Quiet, Writes, InFlight, Ended, Open
  <2>2. ASSUME NEW c \in Calls, Writes(c)', Target(c)' \notin overlap'
        PROVE  Fresh(c)'
    <3>1. Fresh(c)
      BY <1>1, <1>3, <2>1, <2>2, JobKinds DEF Alone
    <3>2. changes'[c] = changes[c] /\ entity'[c] = entity[c]
          /\ (pc'[c] = "reload" <=> pc[c] = "reload")
      BY <2>2, JobKinds DEF Quiet, Writes, InFlight, Open, Ended
    <3>. QED
      BY <1>1, <3>1, <3>2 DEF Fresh, Target
  <2>. QED
    BY <1>1, <1>3, <2>1, <2>2, JobKinds DEF Alone
<1>8. SerialWhenAlone'
  BY <1>1, <1>2 DEF SerialWhenAlone
<1>. QED
  BY <1>2, <1>5, <1>6, <1>7, <1>8

LEMMA UpdateKeepsInv == ASSUME Inv, NEW c \in Calls, Update(c) PROVE Inv'
<1>1. Quiet
  BY JobKinds DEF Inv, Asked, Update, Step, Quiet, database, history, Open
<1>2. Existing' = Existing
  BY <1>1, QuietKeeps
<1>3. TypeOK'
  BY <1>2, JobKinds DEF Inv, Asked, TypeOK, Update, Step, database, history, Target, Open
<1>. QED
  BY <1>1, <1>3, QuietKeeps DEF Inv

LEMMA FailureKeepsInv == ASSUME Inv, NEW j \in Jobs, DatabaseError(j) PROVE Inv'
<1>1. Quiet
  BY DEF Inv, Asked, DatabaseError, Forget, Quiet, database, history, Ended, Open
<1>2. Existing' = Existing
  BY <1>1, QuietKeeps
<1>3. faults' \in 0..MaxFaults
  BY ReportsAssumption DEF Inv, TypeOK, DatabaseError
<1>4. TypeOK'
  BY <1>2, <1>3 DEF Inv, Asked, TypeOK, DatabaseError, Forget, database, history, Target, Open,
                    InFlight, NoChange
<1>. QED
  BY <1>1, <1>4, QuietKeeps DEF Inv

LEMMA CrashKeepsInv == ASSUME Inv, Crash PROVE Inv'
<1>1. Quiet
  BY DEF Inv, Asked, Crash, Quiet, database, history, Ended, Open, InFlight
<1>2. Existing' = Existing
  BY <1>1, QuietKeeps
<1>3. faults' \in 0..MaxFaults
  BY ReportsAssumption DEF Inv, TypeOK, Crash
<1>4. TypeOK'
  BY <1>2, <1>3 DEF Inv, Asked, TypeOK, Crash, database, history, Target, Open, InFlight, NoChange
<1>. QED
  BY <1>1, <1>4, QuietKeeps DEF Inv

LEMMA NoticeKeepsInv ==
    ASSUME Inv, NEW j \in Jobs, SendMail(j) \/ CreateNotification(j) \/ NotificationFails(j)
    PROVE  Inv'
<1>1. Quiet
  BY DEF Inv, Asked, SendMail, CreateNotification, NotificationFails, Quiet, database, history
<1>2. Existing' = Existing
  BY <1>1, QuietKeeps
<1>3. faults' \in 0..MaxFaults
  BY ReportsAssumption DEF Inv, TypeOK, SendMail, CreateNotification, NotificationFails
<1>4. notice[j] # "none" /\ notice'[j] \in {"store", "stored", "failed"}
      /\ \A i \in Jobs \ {j} : notice'[i] = notice[i]
  BY DEF Inv, Asked, SendMail, CreateNotification, NotificationFails
<1>5. UNCHANGED <<report, reportComment, appVersion, pc, request, changes, entity>>
  BY DEF SendMail, CreateNotification, NotificationFails, database
<1>6. notification' \subseteq Jobs \X Owners
  <2>1. Target(j) \in Existing
    BY <1>4 DEF Inv, TypeOK
  <2>2. report[Target(j)].entityOwner \in Owners
    BY <2>1 DEF Inv, Stored, RowTyped
  <2>3. request[j].kind = "create" => request[j].user \in Owners
    BY DEF Inv, Asked, Owners
  <2>4. Receivers(j) \subseteq Owners
    BY <2>2, <2>3 DEF Receivers
  <2>. QED
    BY <2>4 DEF Inv, TypeOK, SendMail, CreateNotification, NotificationFails, database, Owners
<1>7. TypeOK'
  BY <1>2, <1>3, <1>4, <1>5, <1>6 DEF Inv, TypeOK, Target, Owners
<1>. QED
  BY <1>1, <1>7, QuietKeeps DEF Inv

\* What a request will update is what its object and the row differ in.
LEMMA ReloadKeepsInv ==
    ASSUME Inv, NEW c \in Calls, Reload(c)
    PROVE  Inv'
<1>. USE DEF Inv
<1>1. UNCHANGED <<report, reportComment, notification, appVersion, request, entity, notice,
                  faults, serial, overlap>>
  BY DEF Reload, database, history
<1>2. /\ pc[c] = "reload" /\ pc'[c] = "update" /\ c \in Jobs
      /\ changes'[c] = Changed(entity[c], report[Target(c)])
      /\ \A j \in Jobs \ {c} : pc'[j] = pc[j] /\ changes'[j] = changes[j]
      /\ DOMAIN changes' = Jobs
      /\ pc' \in [Jobs -> Open \cup {"idle", "answered", "failed", "lost"}]
  BY JobKinds DEF Reload, Step, Asked, Open
<1>3. Existing' = Existing /\ \A j \in Jobs : Target(j)' = Target(j)
  BY <1>1 DEF Existing, Target
<1>4. Owned(changes'[c]) /\ DOMAIN changes'[c] \subseteq DOMAIN entity[c]
  BY <1>2, ChangedOwned DEF Asked
<1>5. notice[c] = "none"
  BY <1>2 DEF TypeOK
<1>6. TypeOK'
  BY <1>1, <1>2, <1>3, <1>4, <1>5 DEF TypeOK, Open
<1>7. Stored'
  BY <1>1, <1>2, <1>3, JobKinds DEF Stored
<1>8. Asked'
  BY <1>1, <1>2, <1>3, <1>4, JobKinds DEF Asked
<1>9. Alone'
  <2>1. \A d \in Calls : Writes(d)' <=> Writes(d)
    BY <1>1, <1>2, JobKinds DEF Writes, InFlight, Open
  <2>2. ASSUME NEW d \in Calls, Writes(d)', Target(d)' \notin overlap'
        PROVE  Fresh(d)'
    <3>1. Fresh(d)
      BY <1>1, <1>3, <2>1, <2>2, JobKinds DEF Alone
    <3>2. CASE d = c
      <4>1. Serially(report[Target(c)], request[c], c) = Overlay(report[Target(c)], entity[c])
        BY <1>2, <3>1, <3>2 DEF Fresh
      <4>2. Overlay(report[Target(c)], changes'[c]) = Overlay(report[Target(c)], entity[c])
        BY <1>2, OverlayChanged
      <4>. QED
        BY <1>1, <1>2, <1>3, <3>2, <4>1, <4>2 DEF Fresh
    <3>3. CASE d # c
      BY <1>1, <1>2, <1>3, <3>1, <3>3, JobKinds DEF Fresh
    <3>. QED
      BY <3>2, <3>3
  <2>. QED
    BY <1>1, <1>3, <2>1, <2>2, JobKinds DEF Alone
<1>10. SerialWhenAlone'
  BY <1>1, <1>3 DEF SerialWhenAlone
<1>. QED
  BY <1>6, <1>7, <1>8, <1>9, <1>10

\* What a commit makes of the rows: it creates one, or it updates one that exists.
LEMMA CommittedRows ==
    ASSUME Inv, NEW j \in Jobs, Commit(j)
    PROVE  /\ Stored'
           /\ Existing \subseteq Existing'
           /\ \A r \in Existing' \ Existing : r = j /\ request[j].kind = "create"
           /\ request[j].kind = "create" => j \in Existing' /\ j \notin Existing
           /\ \A r \in Existing :
                (r # Target(j) \/ request[j].kind \notin {"update", "resolve"})
                    => report'[r] = report[r] /\ serial'[r] = serial[r]
           /\ SerialWhenAlone'
<1>. USE DEF Inv
<1>1. /\ pc[j] = "commit" /\ pc'[j] = "answered"
      /\ overlap' = overlap
  <2>1. /\ pc[j] = "commit" /\ overlap' = overlap
        /\ pc' = [i \in Jobs |-> CASE i = j -> "answered"
                                   [] i \in Started(j) -> "commit"
                                   [] OTHER -> pc[i]]
    BY DEF Commit
  <2>2. j \notin Started(j)
    BY JobKinds DEF Started, Asked
  <2>. QED
    BY <2>1, <2>2
<1>2. \A i \in Jobs : pc[i] = "answered" => pc'[i] = "answered" /\ request'[i] = request[i]
  <2>1. \A i \in Started(j) : \E c \in Calls : i = FollowUp(c) /\ pc[c] # "answered"
    BY <1>1 DEF Started, Asked
  <2>2. \A i \in Started(j) : pc[i] # "answered"
    BY <2>1 DEF Asked
  <2>. QED
    BY <2>2 DEF Commit
<1>3. j \in Calls => j \notin Existing
  BY <1>1 DEF Stored
<1>4. CASE request[j].kind = "create"
  <2>1. /\ j \in Calls /\ RowTyped(entity[j]) /\ j \in Rows
        /\ report' = [report EXCEPT ![j] = entity[j]]
        /\ serial' = [serial EXCEPT ![j] = entity[j]]
    BY <1>1, <1>4 DEF Commit, Asked, Rows
  <2>2. Existing' = Existing \cup {j}
    BY <2>1, TypedIsPresent DEF Existing, Stored
  <2>3. /\ \A r \in Rows \ {j} : report'[r] = report[r] /\ serial'[r] = serial[r]
        /\ report'[j] = entity[j] /\ serial'[j] = entity[j]
        /\ DOMAIN report' = Rows /\ DOMAIN serial' = Rows
    BY <2>1 DEF Stored
  <2>4. request'[j] = request[j]
    <3>1. Started(j) = {}
      BY <1>4 DEF Started
    <3>. QED
      BY <3>1 DEF Commit
  <2>5. Stored'
    <3>1. \A r \in Existing' : RowTyped(report'[r]) /\ DOMAIN serial'[r] = Columns
      BY <2>1, <2>2, <2>3 DEF Stored, RowTyped, Existing
    <3>2. \A c \in Calls : c \in Existing' => pc'[c] = "answered" /\ request'[c].kind = "create"
      BY <1>1, <1>2, <1>4, <2>2, <2>4, JobKinds DEF Stored
    <3>. QED
      BY <2>3, <3>1, <3>2 DEF Stored
  <2>6. SerialWhenAlone'
    BY <1>1, <2>2, <2>3 DEF SerialWhenAlone, Existing
  <2>. QED
    BY <1>3, <1>4, <2>1, <2>2, <2>3, <2>5, <2>6 DEF Existing
<1>5. CASE request[j].kind \in {"update", "resolve"}
  <2>. DEFINE r == Target(j)
  <2>1. /\ j \in Calls /\ r \in Existing /\ r \in Rows
        /\ report' = [report EXCEPT ![r] = Overlay(@, changes[j])]
        /\ serial' = [serial EXCEPT ![r] = Serially(@, request[j], j)]
    <3>1. j \in Calls /\ r \in Existing
      <4>1. j \in Calls
        BY <1>1, <1>5, JobKinds DEF Asked
      <4>. QED
        BY <1>5, <4>1 DEF Asked
    <3>. QED
      BY <1>5, <3>1 DEF Commit, Existing
  <2>2. /\ report'[r] = Overlay(report[r], changes[j])
        /\ serial'[r] = Serially(serial[r], request[j], j)
        /\ \A s \in Rows \ {r} : report'[s] = report[s] /\ serial'[s] = serial[s]
        /\ DOMAIN report' = Rows /\ DOMAIN serial' = Rows
    BY <2>1 DEF Stored
  <2>3. RowTyped(report'[r]) /\ DOMAIN serial'[r] = Columns
    <3>1. RowTyped(report[r]) /\ DOMAIN serial[r] = Columns /\ Owned(changes[j])
      BY <2>1 DEF Stored, Asked
    <3>. QED
      BY <2>2, <3>1, OverlayTyped, SerialKeepsColumns
  <2>4. Existing' = Existing
    BY <2>1, <2>2, <2>3, TypedIsPresent DEF Existing
  <2>5. Stored'
    <3>1. \A s \in Existing' : RowTyped(report'[s]) /\ DOMAIN serial'[s] = Columns
      BY <2>2, <2>3, <2>4 DEF Stored, Existing
    <3>2. \A c \in Calls : c \in Existing' => pc'[c] = "answered" /\ request'[c].kind = "create"
      BY <1>2, <2>4, JobKinds DEF Stored
    <3>. QED
      BY <2>2, <3>1, <3>2 DEF Stored
  <2>6. r \notin overlap => report'[r] = serial'[r]
    <3>1. Writes(j)
      BY <1>1, <1>5 DEF Writes, InFlight, Open
    <3>2. r \notin overlap => Fresh(j)
      BY <2>1, <3>1 DEF Alone
    <3>3. r \notin overlap => report[r] = serial[r]
      BY <2>1 DEF SerialWhenAlone
    <3>. QED
      BY <1>1, <2>2, <3>2, <3>3 DEF Fresh
  <2>7. SerialWhenAlone'
    BY <1>1, <2>2, <2>4, <2>6 DEF SerialWhenAlone, Existing
  <2>. QED
    BY <1>5, <2>2, <2>4, <2>5, <2>7 DEF Existing
<1>6. CASE request[j].kind \notin {"create", "update", "resolve"}
  <2>1. UNCHANGED <<report, serial>>
    BY <1>6 DEF Commit
  <2>2. Existing' = Existing
    BY <2>1 DEF Existing
  <2>3. Stored'
    BY <1>2, <2>1, <2>2, JobKinds DEF Stored
  <2>4. SerialWhenAlone'
    BY <1>1, <2>1, <2>2 DEF SerialWhenAlone
  <2>. QED
    BY <1>6, <2>1, <2>2, <2>3, <2>4
<1>. QED
  BY <1>4, <1>5, <1>6

\* A commit answers its job and starts at most the one that comments on a resolution; it
\* leaves every other request on other reports, or on one that it now shares with them.
LEMMA CommitKeepsInv ==
    ASSUME Inv, NEW j \in Jobs, Commit(j)
    PROVE  Inv'
<1>. USE DEF Inv
<1>1. /\ pc[j] = "commit" /\ UNCHANGED <<notification, faults, overlap>>
      /\ pc' = [i \in Jobs |-> CASE i = j -> "answered"
                                 [] i \in Started(j) -> "commit"
                                 [] OTHER -> pc[i]]
      /\ request' = [i \in Jobs |->
            IF i \in Started(j) THEN Dto("comment", Target(j), request[j].user, {}, TRUE)
            ELSE request[i]]
      /\ reportComment' = reportComment \cup
            (IF request[j].kind = "comment" THEN {<<j, Target(j)>>} ELSE {})
      /\ appVersion' = appVersion \cup (IF request[j].kind = "version" THEN {j} ELSE {})
      /\ notice' = [notice EXCEPT ![j] = IF Notified(j) THEN "mail" ELSE @]
      /\ entity' = [entity EXCEPT ![j] = NoChange]
      /\ changes' = [changes EXCEPT ![j] = NoChange]
  BY DEF Commit, Forget
<1>2. /\ \A i \in Started(j) : /\ i \in Jobs \ Calls /\ i # j /\ request[j].kind = "resolve"
                               /\ j \in Calls /\ i = FollowUp(j) /\ pc[i] = "idle"
      /\ request[j].kind = "resolve" => j \in Calls
  <2>1. request[j].kind = "resolve" => j \in Calls
    BY DEF Asked
  <2>2. j \in Calls => pc[FollowUp(j)] = "idle"
    BY <1>1 DEF Asked
  <2>. QED
    BY <2>1, <2>2, JobKinds DEF Started
<1>3. /\ pc'[j] = "answered" /\ request'[j] = request[j]
      /\ \A i \in Started(j) : /\ pc'[i] = "commit"
                               /\ request'[i] = Dto("comment", Target(j), request[j].user, {}, TRUE)
      /\ \A i \in Jobs \ (Started(j) \cup {j}) : pc'[i] = pc[i] /\ request'[i] = request[i]
  BY <1>1, <1>2
<1>4. /\ DOMAIN pc' = Jobs /\ DOMAIN request' = Jobs /\ DOMAIN entity' = Jobs
      /\ DOMAIN changes' = Jobs /\ DOMAIN notice' = Jobs
      /\ entity'[j] = NoChange /\ changes'[j] = NoChange
      /\ \A i \in Jobs \ {j} : /\ entity'[i] = entity[i] /\ changes'[i] = changes[i]
                               /\ notice'[i] = notice[i]
      /\ notice'[j] = IF Notified(j) THEN "mail" ELSE notice[j]
  BY <1>1 DEF Asked
<1>5. /\ \A i \in Started(j) : Target(i)' = Target(j)
      /\ \A i \in Jobs \ Started(j) : Target(i)' = Target(i)
      /\ Target(j)' = Target(j)
  BY <1>1, <1>2, <1>3 DEF Target, Dto
<1>6. Stored' /\ SerialWhenAlone' /\ Existing \subseteq Existing'
  BY CommittedRows
<1>7. request[j].kind \in {"create", "resolve", "comment", "update"} => Target(j) \in Existing'
  BY <1>6, CommittedRows DEF Asked
<1>8. notice[j] = "none" /\ \A i \in Started(j) : notice[i] = "none"
  BY <1>1, <1>2 DEF TypeOK
<1>9. TypeOK'
  <2>1. \A i \in Jobs :
            /\ pc'[i] \in Open \cup {"idle", "answered", "failed", "lost"}
            /\ notice'[i] \in {"none", "mail", "store", "stored", "failed", "lost"}
            /\ notice'[i] # "none" => pc'[i] = "answered" /\ Target(i)' \in Existing'
            /\ DOMAIN changes'[i] \subseteq DOMAIN entity'[i]
    <3>1. ASSUME NEW i \in Jobs \ (Started(j) \cup {j})
          PROVE  /\ pc'[i] \in Open \cup {"idle", "answered", "failed", "lost"}
                 /\ notice'[i] \in {"none", "mail", "store", "stored", "failed", "lost"}
                 /\ notice'[i] # "none" => pc'[i] = "answered" /\ Target(i)' \in Existing'
                 /\ DOMAIN changes'[i] \subseteq DOMAIN entity'[i]
      BY <1>3, <1>4, <1>5, <1>6 DEF TypeOK
    <3>2. \A i \in Started(j) : /\ pc'[i] = "commit" /\ notice'[i] = "none"
                                /\ DOMAIN changes'[i] \subseteq DOMAIN entity'[i]
      <4>1. \A i \in Jobs : DOMAIN changes[i] \subseteq DOMAIN entity[i]
        BY DEF TypeOK
      <4>2. \A i \in Started(j) : i \in Jobs \ {j}
        BY <1>2
      <4>. QED
        BY <1>3, <1>4, <1>8, <4>1, <4>2
    <3>3. notice'[j] \in {"none", "mail"} /\ (notice'[j] = "mail" => Target(j)' \in Existing')
      BY <1>4, <1>5, <1>7, <1>8 DEF Notified
    <3>. QED
      BY <1>3, <1>4, <3>1, <3>2, <3>3 DEF Open
  <2>2. \A row \in reportComment' : row[1] \in Jobs /\ row[2] \in Existing'
    BY <1>1, <1>6, <1>7 DEF TypeOK
  <2>3. appVersion' \subseteq Calls
    BY <1>1 DEF TypeOK, Asked
  <2>. QED
    BY <1>1, <1>6, <2>1, <2>2, <2>3 DEF TypeOK, Stored
<1>10. Asked'
  <2>1. pc' \in [Jobs -> Open \cup {"idle", "answered", "failed", "lost"}]
    BY <1>1, <1>9 DEF TypeOK
  <2>2. Owned(NoChange)
    BY DEF Owned, NoChange
  <2>3. ASSUME NEW i \in Jobs \ (Started(j) \cup {j})
        PROVE  /\ request'[i].kind \in {"update", "resolve", "comment"} => Target(i)' \in Existing'
               /\ request'[i].kind = "create" => /\ i \in Calls /\ Target(i)' = i
                                                 /\ request'[i].user \in Users
                                                 /\ pc'[i] = "commit" => RowTyped(entity'[i])
               /\ request'[i].kind \in {"version", "resolve"} => i \in Calls
               /\ pc'[i] \in {"reload", "update"} => request'[i].kind \in {"update", "resolve"}
               /\ pc'[i] = "idle" => changes'[i] = NoChange /\ request'[i].kind = "none"
               /\ Owned(entity'[i]) /\ Owned(changes'[i])
    BY <1>3, <1>4, <1>5, <1>6 DEF Asked
  <2>4. \A i \in Started(j) : /\ request'[i].kind = "comment" /\ Target(i)' \in Existing'
                              /\ pc'[i] = "commit" /\ Owned(entity'[i]) /\ Owned(changes'[i])
    <3>1. \A i \in Started(j) : Owned(entity'[i]) /\ Owned(changes'[i])
      BY <1>2, <1>4 DEF Asked
    <3>2. \A i \in Started(j) : request'[i].kind = "comment"
      BY <1>3 DEF Dto
    <3>3. \A i \in Started(j) : Target(j) \in Existing'
      BY <1>2, <1>7
    <3>. QED
      BY <1>3, <1>5, <3>1, <3>2, <3>3
  <2>5. /\ request'[j].kind \in {"update", "resolve", "comment"} => Target(j)' \in Existing'
        /\ request'[j].kind = "create" => /\ j \in Calls /\ Target(j)' = j
                                          /\ request'[j].user \in Users
        /\ request'[j].kind \in {"version", "resolve"} => j \in Calls
        /\ Owned(entity'[j]) /\ Owned(changes'[j])
    BY <1>3, <1>4, <1>5, <1>7, <2>2 DEF Asked
  <2>6. ASSUME NEW c \in Calls
        PROVE  /\ pc'[FollowUp(c)] # "idle" => pc'[c] = "answered"
               /\ request'[FollowUp(c)].kind \in {"none", "comment"}
    <3>1. CASE FollowUp(c) \in Started(j)
      BY <1>2, <1>3, <3>1, JobKinds DEF Dto
    <3>2. CASE FollowUp(c) \notin Started(j) /\ FollowUp(c) = j
      BY <1>1, <1>2, <1>3, <3>2, JobKinds DEF Asked
    <3>3. CASE FollowUp(c) \notin Started(j) /\ FollowUp(c) # j
      BY <1>2, <1>3, <3>3, JobKinds DEF Asked
    <3>. QED
      BY <3>1, <3>2, <3>3
  <2>. QED
    BY <1>3, <1>4, <2>1, <2>3, <2>4, <2>5, <2>6 DEF Asked
<1>11. Alone'
  <2>1. \A c \in Calls : Writes(c)' => /\ Writes(c) /\ c # j /\ c \in Jobs \ Started(j)
                                       /\ pc'[c] = pc[c] /\ request'[c] = request[c]
    BY <1>2, <1>3, JobKinds DEF Writes, InFlight, Open
  <2>2. ASSUME NEW c \in Calls, Writes(c)', Target(c)' \notin overlap'
        PROVE  Fresh(c)'
    <3>1. Fresh(c)
      BY <1>1, <1>5, <2>1, <2>2 DEF Alone
    <3>2. Target(c) \in Existing
      BY <2>1, <2>2 DEF Asked, Writes
    <3>3. Target(c) # Target(j) \/ request[j].kind \notin {"update", "resolve"}
      <4>1. request[j].kind \in {"update", "resolve"} => j \in Calls /\ Writes(j)
        BY <1>1, JobKinds DEF Asked, Writes, InFlight, Open
      <4>. QED
        BY <1>1, <1>5, <2>1, <2>2, <4>1 DEF Alone
    <3>4. report'[Target(c)] = report[Target(c)]
      BY <3>2, <3>3, CommittedRows
    <3>. QED
      BY <1>4, <1>5, <2>1, <2>2, <3>1, <3>4 DEF Fresh
  <2>. QED
    BY <1>1, <1>5, <2>1, <2>2 DEF Alone
<1>. QED
  BY <1>6, <1>9, <1>10, <1>11

LEMMA NextInv == Inv /\ [Next]_vars => Inv'
<1>. SUFFICES ASSUME Inv, [Next]_vars PROVE Inv'
  OBVIOUS
<1>1. ASSUME NEW c \in Calls, NEW u \in Users, NEW owner \in {Owner, NoProfile},
             CreateReport(c, u, owner)
      PROVE  Inv'
  BY <1>1, InsertWellAsked
<1>2. ASSUME NEW c \in Calls, NEW u \in Users, NEW r \in Rows,
             NEW resolved \in {{}, {TRUE}, {FALSE}}, NEW commented \in BOOLEAN,
             UpdateReport(c, r, u, resolved, commented)
      PROVE  Inv'
  BY <1>2, UpdateWellAsked DEF UpdateReport
<1>3. ASSUME NEW c \in Calls, NEW u \in Users, NEW r \in Rows, NEW isResolved \in BOOLEAN,
             ResolveReport(c, r, u, isResolved)
      PROVE  Inv'
  BY <1>3, ResolveWellAsked DEF ResolveReport
<1>4. ASSUME NEW c \in Calls, NEW u \in Users, NEW r \in Rows, CommentReport(c, r, u)
      PROVE  Inv'
  BY <1>4, InsertWellAsked
<1>5. ASSUME NEW c \in Calls, UpdateAppVersion(c) \/ Refuse(c)
      PROVE  Inv'
  BY <1>5, InsertWellAsked
<1>6. ASSUME NEW j \in Jobs, JobStep(j)
      PROVE  Inv'
  BY <1>6, ReloadKeepsInv, UpdateKeepsInv, CommitKeepsInv DEF JobStep
<1>7. ASSUME NEW j \in Jobs, NoticeStep(j) \/ NotificationFails(j) \/ DatabaseError(j)
      PROVE  Inv'
  BY <1>7, NoticeKeepsInv, FailureKeepsInv DEF NoticeStep
<1>8. CASE Crash
  BY <1>8, CrashKeepsInv
<1>9. CASE UNCHANGED vars
  <2>1. Quiet
    BY <1>9 DEF vars, database, memory, history, Quiet, Inv, Asked
  <2>2. Existing' = Existing
    BY <2>1, QuietKeeps
  <2>3. TypeOK'
    BY <1>9, <2>2 DEF vars, database, memory, history, Inv, TypeOK, Target
  <2>. QED
    BY <2>1, <2>3, QuietKeeps DEF Inv
<1>. QED
  BY <1>1, <1>2, <1>3, <1>4, <1>5, <1>6, <1>7, <1>8, <1>9 DEF Next

-----------------------------------------------------------------------------
(* The theorems.                                                           *)

\* In every reachable state the parts of Inv hold: what jobs were asked fits what is stored,
\* and a request that is alone on its report is going to write what it was asked for.
THEOREM ReportInvariant == Spec => []Inv
<1>. QED
  BY InitInv, NextInv, PTL DEF Spec

\* Comments and notifications belong to reports that exist, whatever fails between the
\* commit of a report and its notifications, which nobody awaits.
THEOREM TypeCorrect == Spec => []TypeOK
<1>1. Inv => TypeOK
  BY DEF Inv
<1>. QED
  BY <1>1, ReportInvariant, PTL

\* On a report that no two updates or resolutions have worked on at once none of them is
\* lost, although each saves the row it has read (updateReport, resolveReport).
THEOREM AloneIsSerial == Spec => []SerialWhenAlone
<1>1. Inv => SerialWhenAlone
  BY DEF Inv
<1>. QED
  BY <1>1, ReportInvariant, PTL
=============================================================================
