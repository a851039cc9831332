--------------------------- MODULE AccountsProofs ---------------------------
(***************************************************************************)
(* Theorems about Accounts: for all sets of requests, logins, names, codes *)
(* and roles, what a save can set back and what it cannot; where passwords *)
(* come from; and when two accounts can share a login.                     *)
(***************************************************************************)
EXTENDS Accounts, TLAPS

Registers(c) == request[c].kind \in {"register", "seed"}
SavesRow(c) == pc[c] \in {"reload", "update", "commit"}
AccountOf(c) == request[c].account

\* The columns a save is there to change; the other columns of its object it has read.
Duty(kind) == IF kind = "otp" THEN {"otp"}
              ELSE IF kind = "rename" THEN {"name", "profileName"}
              ELSE IF kind \in {"assign", "seed"} THEN {"role"}
              ELSE {}
Own(c) == Duty(request[c].kind)

\* Password p of account a is its first one, or was set by a reset with a code of a.
PasswordFrom(p, a) ==
    \/ p = a
    \/ /\ p \in Calls /\ pc[p] # "idle"
       /\ \E version \in versions[a] :
            version.otp # NoCode /\ version.otp.number = request[p].number

\* The column of a code: no code, or one with a number.
Coded(otp) == otp = NoCode \/ otp.number \in Numbers
CodeBy(otp, c) == otp.by = c /\ Coded(otp)

\* Code u was drawn when account a was registered, or by a request for a code of a.
DrawnFor(u, a) ==
    \/ /\ u = a
       /\ a = Earlier \/ (Registers(a) /\ pc[a] \notin Registering \cup {"idle"})
    \/ /\ u \in Calls /\ request[u].kind = "otp" /\ AccountOf(u) = a
       /\ pc[u] = "answered"

\* What a request is about, at each of its steps.
RequestOK(c) ==
    /\ pc[c] = "idle" => ~Registered(c) /\ request[c] = NoRequest
    /\ Registered(c) => Registers(c)
    /\ pc[c] \in Registering => /\ ~Registered(c) /\ Registers(c) /\ AccountOf(c) = c
                                /\ request[c].logins \in (SUBSET Logins) \ {{}}
                                /\ request[c].name \in Names
    /\ pc[c] \in OnRole \cup {"findRole"} =>
        \/ request[c].kind \in {"createRole", "updateRole"} /\ request[c].name \in RoleNames
        \/ request[c].kind = "seed" /\ Registered(c) /\ AccountOf(c) = c
    /\ pc[c] = "assign" =>
        request[c].kind = "seed" /\ Registered(c) /\ AccountOf(c) = c
    /\ SavesRow(c) => /\ request[c].kind \in {"otp", "rename", "profile", "assign", "seed"}
                      /\ Registered(AccountOf(c))
    /\ pc[c] = "hash" => /\ request[c].kind = "reset" /\ Registered(AccountOf(c))
                         /\ request[c].number = entity[c].otp.number
                         /\ Coded(entity[c].otp)

\* The object of a save is ONE version of its account, but for the columns that are its own.
ObjectOK(c) ==
    /\ pc[c] \notin {"update", "commit"} => changes[c] = NoChange
    /\ \A k \in DOMAIN changes[c] : changes[c][k] = entity[c][k]
    /\ pc[c] \in {"insert", "commitAccount"} =>
        \E number \in Numbers, userId \in {<<request[c].name>>, <<request[c].name, c>>} :
            entity[c] = NewAccount(c, request[c].logins, userId, request[c].name, number)
    /\ SavesRow(c) => \E version \in versions[AccountOf(c)] :
        \A k \in DOMAIN entity[c] \ Own(c) : entity[c][k] = version[k]
    /\ SavesRow(c) /\ request[c].kind = "otp" => CodeBy(entity[c].otp, c)

\* What a request has read of an account that it works on alone is still so.
FreshOK(c) == AccountOf(c) \notin overlap =>
    /\ SavesRow(c) =>
        /\ \A k \in DOMAIN entity[c] \ Own(c) : entity[c][k] = account[AccountOf(c)][k]
        /\ DOMAIN changes[c] \subseteq Own(c)
    /\ pc[c] = "hash" => entity[c].otp = account[AccountOf(c)].otp

\* The part of TypeOK that is about one request.
CallTyped(c) == /\ request[c].kind \in Kinds \cup {"none"}
                /\ request[c].account \in Accounts
                /\ DOMAIN entity[c] \subseteq Columns
                /\ DOMAIN changes[c] \subseteq DOMAIN entity[c]

PCTyped == pc \in [Calls -> {"idle", "answered", "failed", "lost"} \cup Open]

Requests ==
    /\ DOMAIN request = Calls /\ DOMAIN entity = Calls /\ DOMAIN changes = Calls
    /\ \A c \in Calls : RequestOK(c) /\ ObjectOK(c)

Fresh ==
    /\ \A a \in Accounts : \A c, d \in Calls :
        c # d /\ WorksOn(c, a) /\ WorksOn(d, a) => a \in overlap
    /\ \A c \in Calls : FreshOK(c)

\* Logins and user ids never change, and every version of an account has a password and a
\* code that are its own.
Versions ==
    /\ DOMAIN account = Accounts /\ DOMAIN versions = Accounts
    /\ \A a \in Accounts :
        /\ Registered(a) => account[a] \in versions[a]
        /\ ~Registered(a) => account[a] = Unregistered /\ versions[a] = {}
        /\ \A version \in versions[a] :
            /\ DOMAIN version = Columns
            /\ version.logins = account[a].logins /\ version.userId = account[a].userId
            /\ PasswordFrom(version.password, a)
            /\ version.otp = NoCode \/ DrawnFor(version.otp.by, a)
            /\ Coded(version.otp)

\* A code that was used is not the code of an account that no two requests worked on at once.
Codes ==
    /\ \A u \in used : \E a \in Accounts : DrawnFor(u, a)
    /\ \A a \in Accounts \ overlap : Registered(a) => account[a].otp.by \notin used

\* Registrations that run together know it, and so do a registration and an account with one
\* of its logins that was stored since it looked.
Crowding ==
    /\ \A c, d \in Calls :
        c # d /\ pc[c] \in Registering /\ pc[d] \in Registering => {c, d} \in crowd
    /\ \A c \in Calls, a \in Accounts :
        pc[c] \in Registering /\ a # c /\ account[a].logins \cap request[c].logins # {}
            => {a, c} \in crowd
    /\ DuplicatesCrowded

\* A user id that a registration is about to insert is taken only by one that ran with it.
UserIds ==
    /\ \A a \in Accounts : account[a].userId \in
            {<<>>} \cup {<<name>> : name \in Names} \cup {<<name, a>> : name \in Names}
    /\ \A c \in Calls :
        pc[c] = "insert" /\ (\E a \in Accounts : account[a].userId = entity[c].userId)
            => \E pair \in crowd : c \in pair
    /\ AloneRegisters

Inv == TypeOK /\ Requests /\ Versions /\ Fresh /\ Codes /\ Crowding /\ UserIds

-----------------------------------------------------------------------------
(* Steps of one request that change no account.                            *)

\* A request that was made stays what it is, and an answer is final.
Steady(c) == pc[c] # "idle" =>
    /\ request'[c] = request[c]
    /\ pc'[c] # "idle"
    /\ pc[c] = "answered" => pc'[c] = "answered"
    /\ pc[c] \notin Registering => pc'[c] \notin Registering

LEMMA DrawnStays ==
    ASSUME \A c \in Calls : Steady(c), NEW a \in Accounts, NEW u, DrawnFor(u, a)
    PROVE  DrawnFor(u, a)'
BY AccountsAssumption DEF DrawnFor, Steady, Registers, AccountOf, Accounts

LEMMA PasswordStays ==
    ASSUME \A c \in Calls : Steady(c), NEW a \in Accounts, NEW p, PasswordFrom(p, a),
           versions[a] \subseteq versions'[a]
    PROVE  PasswordFrom(p, a)'
BY DEF PasswordFrom, Steady

LEMMA OpenSteps ==
    /\ Registering \cap {"idle", "answered", "failed", "lost", "hash", "provider", "findRole"} = {}
    /\ Registering \cap (Saving \cup OnRole) = {}
    /\ Registering = {"generateId", "insert", "commitAccount"}
BY DEF Registering, Saving, OnRole

\* What such a step of request c has to ensure.
Local(c) ==
    /\ UNCHANGED <<account, versions, used>>
    /\ roleName' \in [Roles -> RoleNames \cup {""}]
    /\ overlap \subseteq overlap' /\ overlap' \subseteq Accounts
    /\ crowd \subseteq crowd' /\ crowd' \subseteq SUBSET Calls
    /\ faults' \in 0..MaxFaults /\ (faults' = 0 => faults = 0)
    /\ PCTyped'
    /\ DOMAIN request' = Calls /\ DOMAIN entity' = Calls /\ DOMAIN changes' = Calls
    /\ \A d \in Calls \ {c} : /\ pc'[d] = pc[d] /\ request'[d] = request[d]
                              /\ entity'[d] = entity[d] /\ changes'[d] = changes[d]
    /\ Steady(c)
    /\ CallTyped(c)' /\ RequestOK(c)' /\ ObjectOK(c)' /\ FreshOK(c)'
    /\ \A a \in Accounts, d \in Calls \ {c} : WorksOn(c, a)' /\ WorksOn(d, a) => a \in overlap'

\* A step that begins no registration, inserts nothing and refuses no registration.
NoRegistration(c) ==
    /\ crowd' = crowd
    /\ pc'[c] \in Registering => pc[c] \in Registering /\ request'[c] = request[c]
    /\ pc'[c] = "insert" => pc[c] = "insert" /\ entity'[c] = entity[c]
    /\ pc'[c] = "failed" => request'[c].kind # "register" \/ faults' # 0

LEMMA LocalKeeps ==
    ASSUME Inv, NEW c \in Calls, Local(c)
    PROVE  TypeOK' /\ Requests' /\ Versions' /\ Fresh' /\ Codes'
<1>. USE DEF Inv
<1>1. UNCHANGED <<account, versions, used>> /\ overlap \subseteq overlap'
  BY DEF Local
<1>2. \A d \in Calls \ {c} : /\ pc'[d] = pc[d] /\ request'[d] = request[d]
                             /\ entity'[d] = entity[d] /\ changes'[d] = changes[d]
  BY DEF Local
<1>3. \A d \in Calls : Steady(d)
  BY <1>2 DEF Local, Steady
<1>4. \A d \in Calls \ {c} : RequestOK(d)'
  BY <1>1, <1>2 DEF Requests, RequestOK, Registered, Registers, AccountOf, SavesRow
<1>5. \A d \in Calls \ {c} : ObjectOK(d)'
  BY <1>1, <1>2 DEF Requests, ObjectOK, AccountOf, SavesRow, Own
<1>6. \A d \in Calls \ {c} : FreshOK(d)'
  BY <1>1, <1>2 DEF Fresh, FreshOK, AccountOf, SavesRow, Own
<1>7. TypeOK'
  BY <1>1, <1>2 DEF Local, TypeOK, CallTyped, PCTyped
<1>8. Requests'
  BY <1>4, <1>5 DEF Local, Requests
<1>9. Versions'
  <2>1. \A a \in Accounts : \A version \in versions[a] : PasswordFrom(version.password, a)'
    BY <1>1, <1>3, PasswordStays DEF Versions
  <2>2. \A a \in Accounts : \A version \in versions[a] :
            version.otp = NoCode \/ DrawnFor(version.otp.by, a)'
    BY <1>3, DrawnStays DEF Versions
  <2>. QED
    BY <1>1, <2>1, <2>2 DEF Versions, Registered
<1>10. Fresh'
  <2>1. \A a \in Accounts, d \in Calls \ {c} : WorksOn(d, a)' <=> WorksOn(d, a)
    BY <1>2 DEF WorksOn
  <2>2. \A a \in Accounts : \A d, e \in Calls :
            d # e /\ WorksOn(d, a)' /\ WorksOn(e, a)' => a \in overlap'
    BY <1>1, <2>1 DEF Fresh, Local
  <2>. QED
    BY <1>6, <2>2 DEF Fresh, Local
<1>11. Codes'
  <2>1. \A u \in used : \E a \in Accounts : DrawnFor(u, a)'
    BY <1>3, DrawnStays DEF Codes
  <2>. QED
    BY <1>1, <2>1 DEF Codes, Registered
<1>. QED
  BY <1>7, <1>8, <1>9, <1>10, <1>11

LEMMA NoRegistrationKeeps ==
    ASSUME Inv, NEW c \in Calls, Local(c), NoRegistration(c)
    PROVE  Inv'
<1>. USE DEF Inv
<1>1. UNCHANGED <<account, crowd>> /\ (faults' = 0 => faults = 0)
  BY DEF Local, NoRegistration
<1>2. \A d \in Calls : pc'[d] \in Registering => pc[d] \in Registering /\ request'[d] = request[d]
  BY DEF Local, NoRegistration
<1>3. \A d \in Calls : pc'[d] = "insert" => pc[d] = "insert" /\ entity'[d] = entity[d]
  BY DEF Local, NoRegistration
<1>4. \A d \in Calls : pc'[d] = "failed" /\ request'[d].kind = "register" /\ faults' = 0
                        => pc[d] = "failed" /\ request'[d] = request[d]
  BY DEF Local, NoRegistration
<1>5. Crowding'
  BY <1>1, <1>2 DEF Crowding, DuplicatesCrowded
<1>6. UserIds'
  BY <1>1, <1>3, <1>4 DEF UserIds, AloneRegisters, WithLogin
<1>. QED
  BY <1>5, <1>6, LocalKeeps

-----------------------------------------------------------------------------
(* The inductive invariant: the steps that change no account.              *)

LEMMA InvFacts ==
    ASSUME Inv, NEW c \in Calls
    PROVE  /\ PCTyped /\ CallTyped(c) /\ RequestOK(c) /\ ObjectOK(c) /\ FreshOK(c)
           /\ DOMAIN request = Calls /\ DOMAIN entity = Calls /\ DOMAIN changes = Calls
           /\ roleName \in [Roles -> RoleNames \cup {""}]
           /\ overlap \subseteq Accounts /\ crowd \subseteq SUBSET Calls /\ faults \in 0..MaxFaults
BY DEF Inv, TypeOK, Requests, Fresh, PCTyped, CallTyped

LEMMA NoChangeEmpty == DOMAIN NoChange = {}
BY DEF NoChange

\* A request that fails forgets its object and has no business any more.
LEMMA FailedLocal ==
    ASSUME Inv, NEW c \in Calls, Fail(c), UNCHANGED overlap,
           crowd \subseteq crowd', crowd' \subseteq SUBSET Calls,
           DOMAIN request' = Calls, \A d \in Calls \ {c} : request'[d] = request[d],
           request'[c].kind \in Kinds \cup {"none"}, request'[c].account \in Accounts,
           Registered(c) => Registers(c)',
           faults' \in 0..MaxFaults, faults' = 0 => faults = 0,
           pc[c] # "idle" => request'[c] = request[c],
           pc[c] # "answered"
    PROVE  Local(c) /\ pc'[c] = "failed"
<1>1. pc' = [pc EXCEPT ![c] = "failed"]
  BY DEF Fail
<1>2. entity' = [entity EXCEPT ![c] = NoChange] /\ changes' = [changes EXCEPT ![c] = NoChange]
  BY DEF Fail, Forget
<1>3. UNCHANGED <<account, roleName, versions, used>>
  BY DEF Fail, database
<1>4. PCTyped'
  BY <1>1, InvFacts DEF PCTyped
<1>5. pc'[c] = "failed" /\ entity'[c] = NoChange /\ changes'[c] = NoChange
  BY <1>1, <1>2, InvFacts DEF PCTyped
<1>6. CallTyped(c)'
  BY <1>5, NoChangeEmpty DEF CallTyped
<1>7. RequestOK(c)'
  BY <1>3, <1>5 DEF RequestOK, SavesRow, Registering, OnRole, Registered
<1>8. ObjectOK(c)'
  BY <1>5, NoChangeEmpty DEF ObjectOK, SavesRow
<1>9. FreshOK(c)'
  BY <1>5 DEF FreshOK, SavesRow
<1>10. Steady(c)
  BY <1>5 DEF Steady, Registering
<1>11. \A a \in Accounts : ~WorksOn(c, a)'
  BY <1>5 DEF WorksOn, Saving
<1>12. \A d \in Calls \ {c} : /\ pc'[d] = pc[d] /\ entity'[d] = entity[d]
                              /\ changes'[d] = changes[d]
  BY <1>1, <1>2, InvFacts DEF PCTyped
<1>13. DOMAIN entity' = Calls /\ DOMAIN changes' = Calls
  BY <1>2, InvFacts
<1>14. Local(c)
  BY <1>3, <1>4, <1>6, <1>7, <1>8, <1>9, <1>10, <1>11, <1>12, <1>13, InvFacts DEF Local
<1>. QED
  BY <1>5, <1>14

\* One that is no registration, or that a database error has stopped.
LEMMA FailedOK ==
    ASSUME Inv, NEW c \in Calls, Fail(c), UNCHANGED <<overlap, crowd>>,
           DOMAIN request' = Calls, \A d \in Calls \ {c} : request'[d] = request[d],
           request'[c].kind \in Kinds \cup {"none"}, request'[c].account \in Accounts,
           Registered(c) => Registers(c)',
           faults' \in 0..MaxFaults, faults' = 0 => faults = 0,
           pc[c] # "idle" => request'[c] = request[c],
           pc[c] # "answered",
           request'[c].kind # "register" \/ faults' # 0
    PROVE  Local(c) /\ NoRegistration(c)
<1>1. crowd \subseteq crowd' /\ crowd' \subseteq SUBSET Calls
  BY InvFacts
<1>2. Local(c) /\ pc'[c] = "failed"
  BY <1>1, FailedLocal
<1>. QED
  BY <1>2 DEF NoRegistration, Registering

\* The inputs a request is made with, field by field.
IsRequest(r, kind, a, logins, name, number) ==
    /\ DOMAIN r = {"kind", "account", "logins", "name", "number", "role"}
    /\ r.kind = kind /\ r.account = a /\ r.logins = logins /\ r.name = name
    /\ r.number = number

LEMMA RequestFields ==
    ASSUME NEW r, NEW kind, NEW a, NEW logins, NEW name, NEW number,
           IsRequest(r, kind, a, logins, name, number), NEW value
    PROVE  /\ IsRequest([r EXCEPT !.kind = value], value, a, logins, name, number)
           /\ IsRequest([r EXCEPT !.account = value], kind, value, logins, name, number)
           /\ IsRequest([r EXCEPT !.logins = value], kind, a, value, name, number)
           /\ IsRequest([r EXCEPT !.name = value], kind, a, logins, value, number)
           /\ IsRequest([r EXCEPT !.number = value], kind, a, logins, name, value)
           /\ IsRequest([r EXCEPT !.role = value], kind, a, logins, name, number)
BY Zenon DEF IsRequest

LEMMA Inputs ==
    ASSUME NEW a, NEW logins, NEW name, NEW number, NEW role
    PROVE  /\ IsRequest(NoRequest, "none", Earlier, {}, "", 0)
           /\ IsRequest([NoRequest EXCEPT !.account = a], "none", a, {}, "", 0)
           /\ IsRequest([NoRequest EXCEPT !.account = a, !.number = number],
                        "none", a, {}, "", number)
           /\ IsRequest([NoRequest EXCEPT !.role = role, !.name = name],
                        "none", Earlier, {}, name, 0)
           /\ IsRequest([NoRequest EXCEPT !.account = a, !.logins = logins, !.name = name],
                        "none", a, logins, name, 0)
<1>. DEFINE about == [NoRequest EXCEPT !.account = a]
            with == [about EXCEPT !.logins = logins]
            of == [NoRequest EXCEPT !.role = role]
<1>1. IsRequest(NoRequest, "none", Earlier, {}, "", 0)
  BY DEF NoRequest, IsRequest
<1>2. IsRequest(about, "none", a, {}, "", 0) /\ IsRequest(of, "none", Earlier, {}, "", 0)
  BY <1>1, RequestFields
<1>. HIDE DEF about, of
<1>3. /\ IsRequest(with, "none", a, logins, "", 0)
      /\ IsRequest([about EXCEPT !.number = number], "none", a, {}, "", number)
      /\ IsRequest([of EXCEPT !.name = name], "none", Earlier, {}, name, 0)
  BY <1>2, RequestFields
<1>. HIDE DEF with
<1>4. IsRequest([with EXCEPT !.name = name], "none", a, logins, name, 0)
  BY <1>3, RequestFields
<1>. QED
  BY <1>1, <1>2, <1>3, <1>4 DEF about, with, of

\* What asking is, whatever the endpoint.
LEMMA Asked ==
    ASSUME Inv, NEW c \in Calls, NEW a, NEW logins, NEW name, NEW number,
           NEW input, IsRequest(input, "none", a, logins, name, number),
           NEW kind, Ask(c, kind, input)
    PROVE  /\ pc[c] = "idle" /\ kind \in Kinds /\ changes[c] = NoChange /\ ~Registered(c)
           /\ DOMAIN request' = Calls /\ \A d \in Calls \ {c} : request'[d] = request[d]
           /\ IsRequest(request'[c], kind, a, logins, name, number)
<1>1. request' = [request EXCEPT ![c] = [input EXCEPT !.kind = kind]]
  BY DEF Ask
<1>. DEFINE asked == [input EXCEPT !.kind = kind]
<1>2. IsRequest(asked, kind, a, logins, name, number)
  BY RequestFields
<1>. HIDE DEF asked
<1>3. DOMAIN request' = Calls /\ request'[c] = asked
      /\ \A d \in Calls \ {c} : request'[d] = request[d]
  BY <1>1, InvFacts DEF asked
<1>4. pc[c] = "idle" /\ kind \in Kinds /\ changes[c] = NoChange /\ ~Registered(c)
  BY InvFacts DEF Ask, RequestOK, ObjectOK
<1>. QED
  BY <1>2, <1>3, <1>4

LEMMA VerifyInv ==
    ASSUME Inv, NEW c \in Calls, Verify(c) PROVE Inv'
<1>1. Ask(c, "verify", NoRequest) /\ Fail(c) /\ UNCHANGED <<faults, overlap, crowd>>
  BY DEF Verify
<1>2. IsRequest(NoRequest, "none", Earlier, {}, "", 0)
  BY Inputs
<1>3. /\ IsRequest(request'[c], "verify", Earlier, {}, "", 0)
      /\ DOMAIN request' = Calls /\ \A d \in Calls \ {c} : request'[d] = request[d]
      /\ "verify" \in Kinds /\ pc[c] = "idle" /\ ~Registered(c)
  BY <1>1, <1>2, Asked
<1>4. Local(c) /\ NoRegistration(c)
  BY <1>1, <1>3, InvFacts, FailedOK DEF Accounts, IsRequest
<1>. QED
  BY <1>4, NoRegistrationKeeps

LEMMA RefuseResetInv ==
    ASSUME Inv, NEW c \in Calls, NEW a \in Accounts, NEW number, RefuseReset(c, a, number)
    PROVE  Inv'
<1>. DEFINE input == [NoRequest EXCEPT !.account = a, !.number = number]
<1>1. Ask(c, "reset", input) /\ Fail(c) /\ UNCHANGED <<faults, overlap, crowd>>
  BY DEF RefuseReset, AskReset
<1>2. IsRequest(input, "none", a, {}, "", number)
  BY Inputs
<1>. HIDE DEF input
<1>3. /\ IsRequest(request'[c], "reset", a, {}, "", number)
      /\ DOMAIN request' = Calls /\ \A d \in Calls \ {c} : request'[d] = request[d]
      /\ "reset" \in Kinds /\ pc[c] = "idle" /\ ~Registered(c)
  BY <1>1, <1>2, Asked
<1>4. Local(c) /\ NoRegistration(c)
  BY <1>1, <1>3, InvFacts, FailedOK DEF IsRequest
<1>. QED
  BY <1>4, NoRegistrationKeeps

LEMMA DatabaseErrorInv ==
    ASSUME Inv, NEW c \in Calls, DatabaseError(c) PROVE Inv'
<1>1. /\ Fail(c) /\ UNCHANGED <<request, overlap, crowd>> /\ InFlight(c)
      /\ faults < MaxFaults /\ faults' = faults + 1
  BY DEF DatabaseError
<1>a. faults \in 0..MaxFaults /\ MaxFaults \in Nat
  BY InvFacts, AccountsAssumption
<1>2. faults' \in 0..MaxFaults /\ faults' # 0
  BY <1>1, <1>a
<1>3. pc[c] # "answered"
  BY <1>1 DEF InFlight, Open, Registering, Saving, OnRole
<1>4. Registered(c) => Registers(c)'
  BY <1>1, InvFacts DEF RequestOK, Registers
<1>5. Local(c) /\ NoRegistration(c)
  BY <1>1, <1>2, <1>3, <1>4, InvFacts, FailedOK DEF CallTyped
<1>. QED
  BY <1>5, NoRegistrationKeeps

LEMMA PCMove ==
    ASSUME Inv, NEW c \in Calls, NEW to \in {"idle", "answered", "failed", "lost"} \cup Open,
           pc' = [pc EXCEPT ![c] = to]
    PROVE  PCTyped' /\ pc'[c] = to /\ \A d \in Calls \ {c} : pc'[d] = pc[d]
BY InvFacts DEF PCTyped

\* A step that only moves on, from a step that was not the first.
LEMMA QuietStep ==
    ASSUME Inv, NEW c \in Calls, NEW to \in {"answered"} \cup Open, pc' = [pc EXCEPT ![c] = to],
           UNCHANGED <<account, versions, used, faults, request, entity, changes, overlap, crowd>>,
           roleName' \in [Roles -> RoleNames \cup {""}],
           pc[c] \notin {"idle", "answered"} \cup Registering, to \notin Registering,
           \A a \in Accounts : WorksOn(c, a)' => WorksOn(c, a),
           RequestOK(c)', ObjectOK(c)', FreshOK(c)'
    PROVE  Inv'
<1>1. PCTyped' /\ pc'[c] = to /\ \A d \in Calls \ {c} : pc'[d] = pc[d]
  BY PCMove
<1>2. Steady(c)
  BY <1>1 DEF Steady, Open, Saving, OnRole
<1>3. CallTyped(c)'
  BY InvFacts DEF CallTyped
<1>4. \A a \in Accounts, d \in Calls \ {c} : WorksOn(c, a)' /\ WorksOn(d, a) => a \in overlap'
  BY DEF Inv, Fresh
<1>5. Local(c)
  BY <1>1, <1>2, <1>3, <1>4, InvFacts DEF Local
<1>6. to # "failed" /\ to # "insert"
  BY DEF Open, Saving, OnRole, Registering
<1>7. NoRegistration(c)
  BY <1>1, <1>6 DEF NoRegistration
<1>. QED
  BY <1>5, <1>7, NoRegistrationKeeps

LEMMA FindRoleInv ==
    ASSUME Inv, NEW c \in Calls, FindRole(c) PROVE Inv'
<1>1. pc[c] = "findRole" /\ UNCHANGED <<request, faults, overlap, crowd>>
  BY DEF FindRole
<1>2. CASE pc' = [pc EXCEPT ![c] = "saveRole"] /\ UNCHANGED <<database, entity, changes, versions, used>>
  <2>1. pc'[c] = "saveRole"
    BY <1>2, InvFacts DEF PCTyped
  <2>a. RequestOK(c)'
    BY <1>1, <1>2, <2>1, InvFacts
       DEF RequestOK, SavesRow, database, Registered, Registers, AccountOf, OnRole, Registering
  <2>b. ObjectOK(c)'
    BY <1>1, <1>2, <2>1, InvFacts DEF ObjectOK, SavesRow
  <2>2. RequestOK(c)' /\ ObjectOK(c)' /\ FreshOK(c)'
    BY <2>a, <2>b, <2>1 DEF FreshOK, SavesRow
  <2>3. \A a \in Accounts : ~WorksOn(c, a)'
    BY <2>1 DEF WorksOn, Saving
  <2>. QED
    BY <1>1, <1>2, <2>2, <2>3, InvFacts, OpenSteps, QuietStep DEF database, Open, OnRole
<1>3. CASE Fail(c)
  <2>1. Registered(c) => Registers(c)'
    BY <1>1, InvFacts DEF RequestOK, Registers
  <2>2. request[c].kind # "register"
    BY <1>1, InvFacts DEF RequestOK
  <2>3. Local(c) /\ NoRegistration(c)
    BY <1>1, <1>3, <2>1, <2>2, InvFacts, FailedOK DEF CallTyped
  <2>. QED
    BY <2>3, NoRegistrationKeeps
<1>. QED
  BY <1>1, <1>2, <1>3 DEF FindRole

LEMMA SaveRoleInv ==
    ASSUME Inv, NEW c \in Calls, SaveRole(c) PROVE Inv'
<1>1. pc[c] = "saveRole" /\ UNCHANGED <<request, faults, overlap, crowd>>
  BY DEF SaveRole
<1>2. CASE /\ pc' = [pc EXCEPT ![c] = "commitRole"]
           /\ UNCHANGED <<database, entity, changes, versions, used>>
  <2>1. pc'[c] = "commitRole"
    BY <1>2, InvFacts DEF PCTyped
  <2>2. RequestOK(c)'
    BY <1>1, <1>2, <2>1, InvFacts
       DEF RequestOK, SavesRow, database, Registered, Registers, AccountOf, OnRole, Registering
  <2>3. ObjectOK(c)' /\ FreshOK(c)'
    BY <1>1, <1>2, <2>1, InvFacts DEF ObjectOK, FreshOK, SavesRow
  <2>4. \A a \in Accounts : ~WorksOn(c, a)'
    BY <2>1 DEF WorksOn, Saving
  <2>. QED
    BY <1>1, <1>2, <2>2, <2>3, <2>4, InvFacts, OpenSteps, QuietStep DEF database, Open, OnRole
<1>3. CASE Fail(c)
  <2>1. Registered(c) => Registers(c)'
    BY <1>1, InvFacts DEF RequestOK, Registers
  <2>2. request[c].kind # "register"
    BY <1>1, InvFacts DEF RequestOK, OnRole
  <2>3. Local(c) /\ NoRegistration(c)
    BY <1>1, <1>3, <2>1, <2>2, InvFacts, FailedOK DEF CallTyped
  <2>. QED
    BY <2>3, NoRegistrationKeeps
<1>. QED
  BY <1>1, <1>2, <1>3 DEF SaveRole

LEMMA CommitRoleInv ==
    ASSUME Inv, NEW c \in Calls, CommitRole(c) PROVE Inv'
<1>1. /\ pc[c] = "commitRole" /\ UNCHANGED <<account, request, entity, changes, faults, history>>
      /\ pc' = [pc EXCEPT ![c] = IF request[c].kind = "seed" THEN "assign" ELSE "answered"]
      /\ roleName' = [roleName EXCEPT ![RoleOf(c)] = RoleWanted(c)]
  BY DEF CommitRole, Step
<1>2. RoleWanted(c) \in RoleNames
  BY <1>1, InvFacts, AccountsAssumption DEF RequestOK, OnRole, RoleWanted
<1>3. roleName' \in [Roles -> RoleNames \cup {""}]
  BY <1>1, <1>2, InvFacts
<1>4. PICK to \in {"assign", "answered"} : /\ pc' = [pc EXCEPT ![c] = to] 
                                           /\ to = "assign" => request[c].kind = "seed"
  BY <1>1
<1>5. pc'[c] = to
  BY <1>4, InvFacts DEF PCTyped
<1>6. RequestOK(c)'
  BY <1>1, <1>4, <1>5, InvFacts
     DEF RequestOK, SavesRow, Registered, Registers, AccountOf, OnRole, Registering
<1>7. ObjectOK(c)' /\ FreshOK(c)'
  BY <1>1, <1>4, <1>5, InvFacts DEF ObjectOK, FreshOK, SavesRow
<1>8. \A a \in Accounts : ~WorksOn(c, a)'
  BY <1>4, <1>5 DEF WorksOn, Saving
<1>9. UNCHANGED <<account, versions, used, faults, request, entity, changes, overlap, crowd>>
  BY <1>1 DEF history
<1>10. to \in {"answered"} \cup Open /\ to \notin Registering
       /\ pc[c] \notin {"idle", "answered"} \cup Registering
  BY <1>1, <1>4 DEF Open, Saving, Registering
<1>. QED
  BY <1>3, <1>4, <1>6, <1>7, <1>8, <1>9, <1>10, QuietStep

LEMMA AskRoleInv ==
    ASSUME Inv, NEW c \in Calls, NEW kind \in {"createRole", "updateRole"}, NEW role,
           NEW name \in RoleNames, AskRole(c, kind, role, name)
    PROVE  Inv'
<1>. DEFINE input == [NoRequest EXCEPT !.role = role, !.name = name]
<1>1. /\ Ask(c, kind, input) /\ pc' = [pc EXCEPT ![c] = "findRole"]
      /\ UNCHANGED <<account, roleName, entity, changes, faults, versions, used, overlap, crowd>>
  BY DEF AskRole, database, history
<1>2. IsRequest(input, "none", Earlier, {}, name, 0)
  BY Inputs
<1>. HIDE DEF input
<1>3. /\ IsRequest(request'[c], kind, Earlier, {}, name, 0)
      /\ DOMAIN request' = Calls /\ \A d \in Calls \ {c} : request'[d] = request[d]
      /\ kind \in Kinds /\ pc[c] = "idle" /\ ~Registered(c) /\ changes[c] = NoChange
  BY <1>1, <1>2, Asked
<1>4. PCTyped' /\ pc'[c] = "findRole" /\ \A d \in Calls \ {c} : pc'[d] = pc[d]
  BY <1>1, PCMove DEF Open
<1>5. CallTyped(c)'
  BY <1>1, <1>3, InvFacts DEF CallTyped, IsRequest, Accounts
<1>6. RequestOK(c)'
  BY <1>1, <1>3, <1>4
     DEF RequestOK, IsRequest, SavesRow, Registered, Registers, AccountOf, OnRole, Registering
<1>7. ObjectOK(c)' /\ FreshOK(c)'
  BY <1>1, <1>3, <1>4, InvFacts DEF ObjectOK, FreshOK, SavesRow
<1>8. \A a \in Accounts : ~WorksOn(c, a)'
  BY <1>4 DEF WorksOn, Saving
<1>9. Local(c)
  BY <1>1, <1>3, <1>4, <1>5, <1>6, <1>7, <1>8, InvFacts DEF Local, Steady
<1>10. NoRegistration(c)
  BY <1>1, <1>4, OpenSteps DEF NoRegistration
<1>. QED
  BY <1>9, <1>10, NoRegistrationKeeps

LEMMA UpdateInv ==
    ASSUME Inv, NEW c \in Calls, Update(c) \/ SeedProvider(c) PROVE Inv'
<1>1. PICK to \in {"commit", "answered"} :
        /\ pc' = [pc EXCEPT ![c] = to]
        /\ pc[c] = IF to = "commit" THEN "update" ELSE "provider"
        /\ UNCHANGED <<database, request, entity, changes, faults, history>>
  BY DEF Update, SeedProvider, Step
<1>2. UNCHANGED <<account, roleName, versions, used, faults, request, entity, changes, overlap, crowd>>
  BY <1>1 DEF history, database
<1>3. pc'[c] = to
  BY <1>1, InvFacts DEF PCTyped
<1>w. to = "commit" => SavesRow(c)
  BY <1>1 DEF SavesRow
<1>4. RequestOK(c)'
  BY <1>1, <1>2, <1>3, <1>w, InvFacts
     DEF RequestOK, SavesRow, Registered, Registers, AccountOf, OnRole, Registering
<1>a. (SavesRow(c)' => SavesRow(c) /\ pc[c] = "update") /\ pc[c] # "hash" /\ pc'[c] # "hash"
  BY <1>1, <1>3 DEF SavesRow
<1>b. ObjectOK(c) /\ changes'[c] = changes[c] /\ entity'[c] = entity[c]
  BY <1>2, InvFacts
<1>5. ObjectOK(c)'
  BY <1>1, <1>2, <1>3, <1>a, <1>b DEF ObjectOK, SavesRow, AccountOf, Own
<1>6. FreshOK(c)'
  BY <1>1, <1>2, <1>3, InvFacts DEF FreshOK, SavesRow, AccountOf, Own
<1>7. \A a \in Accounts : WorksOn(c, a)' => WorksOn(c, a)
  BY <1>1, <1>2, <1>3 DEF WorksOn, Saving
<1>8. to \in {"answered"} \cup Open /\ to \notin Registering
      /\ pc[c] \notin {"idle", "answered"} \cup Registering
  BY <1>1 DEF Open, Saving, Registering
<1>. QED
  BY <1>1, <1>2, <1>4, <1>5, <1>6, <1>7, <1>8, InvFacts, QuietStep

\* A request takes account a, as it is now, to save it: from there on its object is a version
\* of the account, and the account is known to be worked on twice if it is.
LEMMA LoadStep ==
    ASSUME Inv, NEW c \in Calls, NEW a \in Accounts,
           pc[c] \in {"idle", "assign"}, pc' = [pc EXCEPT ![c] = "reload"], MeetsOn(c, a),
           DOMAIN entity' = Calls, \A d \in Calls \ {c} : entity'[d] = entity[d],
           UNCHANGED <<account, roleName, changes, faults, versions, used, crowd>>,
           DOMAIN request' = Calls, \A d \in Calls \ {c} : request'[d] = request[d],
           pc[c] = "assign" => request'[c] = request[c], request'[c].account = a,
           request'[c].kind \in {"otp", "rename", "profile", "assign", "seed"},
           request'[c].kind \in Kinds, Registered(c) => Registers(c)', Registered(a),
           DOMAIN entity'[c] \subseteq Columns,
           \A k \in DOMAIN entity'[c] \ Duty(request'[c].kind) : entity'[c][k] = account[a][k],
           request'[c].kind = "otp" => CodeBy(entity'[c].otp, c)
    PROVE  Inv'
<1>1. PCTyped' /\ pc'[c] = "reload" /\ \A d \in Calls \ {c} : pc'[d] = pc[d]
  BY PCMove DEF Open, Saving
<1>3. changes'[c] = NoChange /\ DOMAIN changes'[c] = {}
  BY NoChangeEmpty, InvFacts DEF ObjectOK
<1>4. CallTyped(c)'
  BY <1>3 DEF CallTyped
<1>5. RequestOK(c)'
  BY <1>1 DEF RequestOK, SavesRow, Registered, AccountOf, OnRole, Registering
<1>6. account[a] \in versions[a]
  BY DEF Inv, Versions
<1>7. ObjectOK(c)'
  BY <1>1, <1>3, <1>6 DEF ObjectOK, SavesRow, AccountOf, Own
<1>8. FreshOK(c)'
  BY <1>1, <1>3 DEF FreshOK, SavesRow, AccountOf, Own
<1>9. /\ overlap \subseteq overlap' /\ overlap' \subseteq Accounts
      /\ \A d \in Calls \ {c} : WorksOn(d, a) => a \in overlap'
  BY InvFacts DEF MeetsOn
<1>10. \A b \in Accounts : WorksOn(c, b)' => b = a
  BY DEF WorksOn
<1>11. Steady(c)
  BY <1>1 DEF Steady, Registering
<1>a. \A b \in Accounts, d \in Calls \ {c} : WorksOn(c, b)' /\ WorksOn(d, b) => b \in overlap'
  BY <1>9, <1>10
<1>b. DOMAIN changes' = Calls /\ \A d \in Calls \ {c} : changes'[d] = changes[d]
  BY InvFacts
<1>12. Local(c)
  BY <1>1, <1>4, <1>5, <1>7, <1>8, <1>9, <1>11, <1>a, <1>b, InvFacts DEF Local
<1>13. NoRegistration(c)
  BY <1>1 DEF NoRegistration, Registering
<1>. QED
  BY <1>12, <1>13, NoRegistrationKeeps

\* The objects that are saved differ from the account in the columns of their request.
LEMMA LoadedObject ==
    ASSUME NEW a, NEW relation \in {"role", "profileName"}
    PROVE  LET object == Loaded(a, {relation})
           IN  /\ DOMAIN object \subseteq Columns /\ {relation, "otp", "name"} \subseteq DOMAIN object
               /\ \A k \in DOMAIN object : object[k] = account[a][k]
<1>1. /\ (Columns \ {"role", "profileName"}) \cup {relation} \subseteq Columns
      /\ {"otp", "name"} \subseteq Columns \ {"role", "profileName"}
  BY DEF Columns
<1>. QED
  BY <1>1 DEF Loaded

LEMMA CodeObject ==
    ASSUME NEW a, NEW c, NEW number \in Numbers
    PROVE  /\ DOMAIN WithCode(c, a, number) \subseteq Columns
           /\ CodeBy(WithCode(c, a, number).otp, c)
           /\ \A k \in DOMAIN WithCode(c, a, number) \ {"otp"} :
                WithCode(c, a, number)[k] = account[a][k]
<1>. DEFINE loaded == Loaded(a, {"profileName"})
            coded == [loaded EXCEPT !.otp = Code(number, c)]
<1>1. /\ DOMAIN loaded \subseteq Columns /\ "otp" \in DOMAIN loaded
      /\ \A k \in DOMAIN loaded : loaded[k] = account[a][k]
  BY LoadedObject
<1>2. CodeBy(Code(number, c), c)
  BY DEF Code, CodeBy, Coded
<1>. HIDE DEF loaded
<1>3. /\ DOMAIN coded \subseteq Columns /\ CodeBy(coded.otp, c)
      /\ \A k \in DOMAIN coded \ {"otp"} : coded[k] = account[a][k]
  BY <1>1, <1>2, Zenon
<1>4. WithCode(c, a, number) = coded
  BY DEF WithCode, loaded
<1>. HIDE DEF coded
<1>. QED
  BY <1>3, <1>4

LEMMA NameObject ==
    ASSUME NEW a, NEW name
    PROVE  /\ DOMAIN WithName(a, name) \subseteq Columns
           /\ \A k \in DOMAIN WithName(a, name) \ {"name", "profileName"} :
                WithName(a, name)[k] = account[a][k]
<1>. DEFINE loaded == Loaded(a, {"profileName"})
            named == [loaded EXCEPT !.name = name]
            renamed == [named EXCEPT !.profileName = name]
<1>1. /\ DOMAIN loaded \subseteq Columns
      /\ \A k \in DOMAIN loaded : loaded[k] = account[a][k]
  BY LoadedObject
<1>. HIDE DEF loaded
<1>2. /\ DOMAIN named = DOMAIN loaded
      /\ \A k \in DOMAIN named \ {"name"} : named[k] = account[a][k]
  BY <1>1, Zenon
<1>. HIDE DEF named
<1>3. /\ DOMAIN renamed \subseteq Columns
      /\ \A k \in DOMAIN renamed \ {"name", "profileName"} : renamed[k] = account[a][k]
  BY <1>1, <1>2, Zenon
<1>4. WithName(a, name) = renamed
  BY DEF WithName, loaded, named
<1>. HIDE DEF renamed
<1>. QED
  BY <1>3, <1>4

LEMMA RoleObject ==
    ASSUME NEW a, NEW role
    PROVE  /\ DOMAIN WithRole(a, role) \subseteq Columns
           /\ \A k \in DOMAIN WithRole(a, role) \ {"role"} : WithRole(a, role)[k] = account[a][k]
<1>. DEFINE loaded == Loaded(a, {"role"})
            given == [loaded EXCEPT !.role = role]
<1>1. /\ DOMAIN loaded \subseteq Columns
      /\ \A k \in DOMAIN loaded : loaded[k] = account[a][k]
  BY LoadedObject
<1>. HIDE DEF loaded
<1>2. /\ DOMAIN given \subseteq Columns
      /\ \A k \in DOMAIN given \ {"role"} : given[k] = account[a][k]
  BY <1>1, Zenon
<1>3. WithRole(a, role) = given
  BY DEF WithRole, loaded
<1>. HIDE DEF given
<1>. QED
  BY <1>2, <1>3

LEMMA ProfileObject ==
    ASSUME NEW a
    PROVE  /\ DOMAIN ProfileOf(a) \subseteq Columns
           /\ \A k \in DOMAIN ProfileOf(a) : ProfileOf(a)[k] = account[a][k]
BY DEF ProfileOf, Columns

LEMMA LoadInv ==
    ASSUME Inv, NEW c \in Calls, NEW kind \in {"otp", "rename", "profile", "assign"},
           NEW a \in Accounts, NEW object, Load(c, kind, a, object),
           DOMAIN object \subseteq Columns,
           \A k \in DOMAIN object \ Duty(kind) : object[k] = account[a][k],
           kind = "otp" => CodeBy(object.otp, c)
    PROVE  Inv'
<1>. DEFINE input == [NoRequest EXCEPT !.account = a]
<1>1. /\ Ask(c, kind, input) /\ Registered(a) /\ MeetsOn(c, a)
      /\ pc' = [pc EXCEPT ![c] = "reload"] /\ entity' = [entity EXCEPT ![c] = object]
      /\ UNCHANGED <<account, roleName, changes, faults, versions, used, crowd>>
  BY DEF Load, database
<1>2. IsRequest(input, "none", a, {}, "", 0)
  BY Inputs
<1>. HIDE DEF input
<1>3. /\ IsRequest(request'[c], kind, a, {}, "", 0)
      /\ DOMAIN request' = Calls /\ \A d \in Calls \ {c} : request'[d] = request[d]
      /\ kind \in Kinds /\ pc[c] = "idle" /\ ~Registered(c)
  BY <1>1, <1>2, Asked
<1>4. request'[c].kind = kind /\ request'[c].account = a
  BY <1>3 DEF IsRequest
<1>5. /\ DOMAIN entity' = Calls /\ entity'[c] = object
      /\ \A d \in Calls \ {c} : entity'[d] = entity[d]
  BY <1>1, InvFacts
<1>. QED
  BY <1>1, <1>3, <1>4, <1>5, LoadStep

LEMMA LoadActionsInv ==
    ASSUME Inv, NEW c \in Calls, NEW a \in Accounts
    PROVE  /\ RequestCode(c, a) => Inv'
           /\ \A name \in Names : Rename(c, a, name) => Inv'
           /\ UpdateProfile(c, a) => Inv'
           /\ \A r \in Roles : AssignRole(c, a, r) => Inv'
<1>1. /\ Duty("otp") = {"otp"} /\ Duty("rename") = {"name", "profileName"}
      /\ Duty("profile") = {} /\ Duty("assign") = {"role"}
  BY DEF Duty
<1>2. ASSUME RequestCode(c, a) PROVE Inv'
  <2>1. PICK number \in Numbers : Load(c, "otp", a, WithCode(c, a, number))
    BY <1>2 DEF RequestCode
  <2>. QED
    BY <1>1, <2>1, CodeObject, LoadInv
<1>3. ASSUME NEW name \in Names, Rename(c, a, name) PROVE Inv'
  BY <1>1, <1>3, NameObject, LoadInv DEF Rename
<1>4. ASSUME UpdateProfile(c, a) PROVE Inv'
  BY <1>1, <1>4, ProfileObject, LoadInv DEF UpdateProfile
<1>5. ASSUME NEW r \in Roles, AssignRole(c, a, r) PROVE Inv'
  BY <1>1, <1>5, RoleObject, LoadInv DEF AssignRole
<1>. QED
  BY <1>2, <1>3, <1>4, <1>5

LEMMA AssignSeededInv ==
    ASSUME Inv, NEW c \in Calls, AssignSeeded(c) PROVE Inv'
<1>. DEFINE object == WithRole(c, c)
<1>1. /\ pc[c] = "assign" /\ pc' = [pc EXCEPT ![c] = "reload"] /\ MeetsOn(c, c)
      /\ entity' = [entity EXCEPT ![c] = object]
      /\ UNCHANGED <<account, roleName, request, changes, faults, versions, used, crowd>>
  BY DEF AssignSeeded, Step, database
<1>2. request[c].kind = "seed" /\ Registered(c) /\ request[c].account = c
  BY <1>1, InvFacts DEF RequestOK, AccountOf
<1>3. Duty(request'[c].kind) = {"role"} /\ Registers(c)'
  BY <1>1, <1>2 DEF Duty, Registers
<1>4. /\ DOMAIN object \subseteq Columns
      /\ \A k \in DOMAIN object \ {"role"} : object[k] = account[c][k]
  BY RoleObject
<1>5. c \in Accounts /\ request[c].kind # "otp" /\ request[c].kind \in Kinds
  BY <1>2, InvFacts DEF Accounts, CallTyped
<1>. HIDE DEF object
<1>6. /\ DOMAIN entity' = Calls /\ entity'[c] = object
      /\ \A d \in Calls \ {c} : entity'[d] = entity[d]
  BY <1>1, InvFacts
<1>. QED
  BY <1>1, <1>2, <1>3, <1>4, <1>5, <1>6, InvFacts, LoadStep

LEMMA FindForResetInv ==
    ASSUME Inv, NEW c \in Calls, NEW a \in Accounts, NEW number,
           FindForReset(c, a, number)
    PROVE  Inv'
<1>. DEFINE input == [NoRequest EXCEPT !.account = a, !.number = number]
            object == [otp |-> account[a].otp]
<1>1. /\ Ask(c, "reset", input) /\ Registered(a) /\ account[a].otp.number = number
      /\ pc' = [pc EXCEPT ![c] = "hash"] /\ entity' = [entity EXCEPT ![c] = object]
      /\ MeetsOn(c, a)
      /\ UNCHANGED <<account, roleName, changes, faults, versions, used, crowd>>
  BY DEF FindForReset, AskReset, ReadCode, database
<1>2. IsRequest(input, "none", a, {}, "", number)
  BY Inputs
<1>3. object.otp = account[a].otp /\ DOMAIN object \subseteq Columns
  BY DEF Columns
<1>. HIDE DEF input, object
<1>a. Coded(account[a].otp)
  BY <1>1 DEF Inv, Versions
<1>4. /\ IsRequest(request'[c], "reset", a, {}, "", number)
      /\ DOMAIN request' = Calls /\ \A d \in Calls \ {c} : request'[d] = request[d]
      /\ "reset" \in Kinds /\ pc[c] = "idle" /\ ~Registered(c) /\ changes[c] = NoChange
  BY <1>1, <1>2, Asked
<1>5. PCTyped' /\ pc'[c] = "hash" /\ \A d \in Calls \ {c} : pc'[d] = pc[d]
  BY <1>1, PCMove DEF Open
<1>6. /\ DOMAIN entity' = Calls /\ entity'[c] = object
      /\ \A d \in Calls \ {c} : entity'[d] = entity[d]
  BY <1>1, InvFacts
<1>7. CallTyped(c)'
  BY <1>1, <1>3, <1>4, <1>6, NoChangeEmpty DEF CallTyped, IsRequest
<1>8. RequestOK(c)'
  BY <1>1, <1>3, <1>4, <1>5, <1>6, <1>a
     DEF RequestOK, SavesRow, Registered, AccountOf, OnRole, Registering, IsRequest
<1>9. ObjectOK(c)' /\ FreshOK(c)'
  BY <1>1, <1>3, <1>4, <1>5, <1>6, NoChangeEmpty
     DEF ObjectOK, FreshOK, SavesRow, AccountOf, IsRequest
<1>10. /\ overlap \subseteq overlap' /\ overlap' \subseteq Accounts
       /\ \A d \in Calls \ {c} : WorksOn(d, a) => a \in overlap'
  BY <1>1, InvFacts DEF MeetsOn
<1>11. \A b \in Accounts, d \in Calls \ {c} : WorksOn(c, b)' /\ WorksOn(d, b) => b \in overlap'
  BY <1>4, <1>10 DEF WorksOn, IsRequest
<1>12. Steady(c)
  BY <1>4 DEF Steady
<1>13. DOMAIN changes' = Calls /\ \A d \in Calls \ {c} : changes'[d] = changes[d]
  BY <1>1, InvFacts
<1>14. Local(c)
  BY <1>1, <1>4, <1>5, <1>6, <1>7, <1>8, <1>9, <1>10, <1>11, <1>12, <1>13, InvFacts DEF Local
<1>15. NoRegistration(c)
  BY <1>1, <1>5 DEF NoRegistration, Registering
<1>. QED
  BY <1>14, <1>15, NoRegistrationKeeps

LEMMA ReloadInv ==
    ASSUME Inv, NEW c \in Calls, Reload(c) PROVE Inv'
<1>. DEFINE set == Changed(entity[c], account[AccountOf(c)])
<1>1. /\ pc[c] = "reload" /\ pc' = [pc EXCEPT ![c] = "update"]
      /\ changes' = [changes EXCEPT ![c] = set]
      /\ UNCHANGED <<account, roleName, request, entity, faults, versions, used, overlap, crowd>>
  BY DEF Reload, Step, database, history, AccountOf
<1>2. /\ DOMAIN set \subseteq DOMAIN entity[c]
      /\ \A k \in DOMAIN set : set[k] = entity[c][k] /\ entity[c][k] # account[AccountOf(c)][k]
  BY DEF Changed
<1>. HIDE DEF set
<1>3. PCTyped' /\ pc'[c] = "update" /\ \A d \in Calls \ {c} : pc'[d] = pc[d]
  BY <1>1, PCMove DEF Open, Saving
<1>4. /\ DOMAIN changes' = Calls /\ changes'[c] = set
      /\ \A d \in Calls \ {c} : changes'[d] = changes[d]
  BY <1>1, InvFacts
<1>5. CallTyped(c)'
  BY <1>1, <1>2, <1>4, InvFacts DEF CallTyped
<1>6. SavesRow(c) /\ ObjectOK(c) /\ FreshOK(c) /\ RequestOK(c)
  BY <1>1, InvFacts DEF SavesRow
<1>7. RequestOK(c)'
  BY <1>1, <1>3, <1>6
     DEF RequestOK, SavesRow, Registered, Registers, AccountOf, OnRole, Registering
<1>8. ObjectOK(c)'
  BY <1>1, <1>2, <1>3, <1>4, <1>6 DEF ObjectOK, SavesRow, AccountOf, Own
<1>9. FreshOK(c)'
  BY <1>1, <1>2, <1>3, <1>4, <1>6 DEF FreshOK, SavesRow, AccountOf, Own
<1>10. \A b \in Accounts : WorksOn(c, b)' => WorksOn(c, b)
  BY <1>1 DEF WorksOn, Saving
<1>11. \A b \in Accounts, d \in Calls \ {c} : WorksOn(c, b)' /\ WorksOn(d, b) => b \in overlap'
  BY <1>1, <1>10 DEF Inv, Fresh
<1>12. Steady(c)
  BY <1>1, <1>3 DEF Steady, Registering
<1>13. Local(c)
  BY <1>1, <1>3, <1>4, <1>5, <1>7, <1>8, <1>9, <1>11, <1>12, InvFacts DEF Local
<1>14. NoRegistration(c)
  BY <1>1, <1>3 DEF NoRegistration, Registering
<1>. QED
  BY <1>13, <1>14, NoRegistrationKeeps

-----------------------------------------------------------------------------
(* The steps of a registration before its account is stored.               *)

\* What they ensure of the registrations that run together.
LEMMA RegistrationKeeps ==
    ASSUME Inv, NEW c \in Calls, Local(c), UNCHANGED faults,
           pc[c] # "failed", pc[c] # "insert" \/ pc'[c] # "insert",
           \A d \in Calls \ {c} :
                pc'[c] \in Registering /\ pc[d] \in Registering => {c, d} \in crowd',
           \A a \in Accounts \ {c} :
                pc'[c] \in Registering /\ account[a].logins \cap request'[c].logins # {}
                    => {a, c} \in crowd',
           \/ ~(pc'[c] = "insert" /\ \E a \in Accounts : account[a].userId = entity'[c].userId)
           \/ \E pair \in crowd' : c \in pair,
           \/ ~(request'[c].kind = "register" /\ pc'[c] = "failed")
           \/ WithLogin(request'[c].logins) # {}
           \/ \E pair \in crowd' : c \in pair
    PROVE  Inv'
<1>. USE DEF Inv
<1>1. /\ UNCHANGED account /\ crowd \subseteq crowd'
      /\ \A d \in Calls \ {c} : /\ pc'[d] = pc[d] /\ request'[d] = request[d]
                                /\ entity'[d] = entity[d]
  BY DEF Local
<1>2. \A d, e \in Calls : d # e /\ pc'[d] \in Registering /\ pc'[e] \in Registering
        => {d, e} \in crowd'
  <2>1. ASSUME NEW d \in Calls, NEW e \in Calls, d # e, pc'[d] \in Registering, pc'[e] \in Registering
        PROVE  {d, e} \in crowd'
    <3>1. CASE d = c
      BY <1>1, <2>1, <3>1
    <3>2. CASE e = c
      <4>1. {d, e} = {e, d}
        OBVIOUS
      <4>. QED
        BY <1>1, <2>1, <3>2, <4>1
    <3>3. CASE d # c /\ e # c
      BY <1>1, <2>1, <3>3 DEF Crowding
    <3>. QED
      BY <3>1, <3>2, <3>3
  <2>. QED
    BY <2>1
<1>3. \A d \in Calls, a \in Accounts :
        pc'[d] \in Registering /\ a # d /\ account'[a].logins \cap request'[d].logins # {}
            => {a, d} \in crowd'
  BY <1>1 DEF Crowding
<1>4. DuplicatesCrowded'
  BY <1>1 DEF Crowding, DuplicatesCrowded
<1>5. Crowding'
  BY <1>2, <1>3, <1>4 DEF Crowding
<1>6. \A d \in Calls :
        pc'[d] = "insert" /\ (\E a \in Accounts : account'[a].userId = entity'[d].userId)
            => \E pair \in crowd' : d \in pair
  BY <1>1 DEF UserIds
<1>7. \A logins : WithLogin(logins)' = WithLogin(logins)
  BY <1>1 DEF WithLogin
<1>8. AloneRegisters'
  BY <1>1, <1>7 DEF UserIds, AloneRegisters, WithLogin
<1>9. UserIds'
  BY <1>1, <1>6, <1>8 DEF UserIds
<1>. QED
  BY <1>5, <1>9, LocalKeeps

LEMMA EmptyRow ==
    Unregistered.userId = <<>> /\ Unregistered.logins = {} /\ DOMAIN Unregistered = Columns
BY DEF Unregistered, Columns

LEMMA GenerateIdInv ==
    ASSUME Inv, NEW c \in Calls, GenerateId(c) PROVE Inv'
<1>. DEFINE userId == UniqueId(request[c].name, c)
<1>1. PICK number \in Numbers :
        entity' = [entity EXCEPT ![c] =
            NewAccount(c, request[c].logins, userId, request[c].name, number)]
  BY DEF GenerateId
<1>. DEFINE object == NewAccount(c, request[c].logins, userId, request[c].name, number)
<1>2. /\ pc[c] = "generateId" /\ pc' = [pc EXCEPT ![c] = "insert"]
      /\ UNCHANGED <<account, roleName, request, changes, faults, versions, used, overlap, crowd>>
  BY DEF GenerateId, Step, database, history
<1>3. userId \in {<<request[c].name>>, <<request[c].name, c>>}
  BY DEF UniqueId
<1>4. /\ ~Registered(c) /\ Registers(c) /\ AccountOf(c) = c
      /\ request[c].logins \in (SUBSET Logins) \ {{}} /\ request[c].name \in Names
  BY <1>2, InvFacts, OpenSteps DEF RequestOK
<1>5. \A a \in Accounts : account[a].userId # userId
  <2>1. \A a \in Accounts : account[a].userId # <<request[c].name, c>>
    <3>1. account[c] = Unregistered
      BY <1>4 DEF Inv, Versions, Accounts
    <3>2. account[c].userId = <<>>
      BY <3>1, EmptyRow
    <3>3. \A a \in Accounts : account[a].userId \in
            {<<>>} \cup {<<name>> : name \in Names} \cup {<<name, a>> : name \in Names}
      BY DEF Inv, UserIds
    <3>4. \A name, other : <<name, c>> # <<>> /\ <<name, c>> # <<other>>
      OBVIOUS
    <3>5. \A a, name, other : a # c => <<name, c>> # <<other, a>>
      OBVIOUS
    <3>. QED
      BY <3>2, <3>3, <3>4, <3>5
  <2>. QED
    BY <2>1 DEF UniqueId
<1>6. /\ object.userId = userId /\ object.logins = request[c].logins
      /\ DOMAIN object = Columns
  BY DEF NewAccount, Columns
<1>7. PCTyped' /\ pc'[c] = "insert" /\ \A d \in Calls \ {c} : pc'[d] = pc[d]
  BY <1>2, PCMove DEF Open, Registering
<1>8. /\ DOMAIN entity' = Calls /\ entity'[c] = object
      /\ \A d \in Calls \ {c} : entity'[d] = entity[d]
  BY <1>1, InvFacts
<1>9. changes[c] = NoChange /\ DOMAIN changes'[c] = {}
  BY <1>2, NoChangeEmpty, InvFacts DEF ObjectOK
<1>10. ObjectOK(c)'
  BY <1>2, <1>3, <1>7, <1>8, <1>9 DEF ObjectOK, SavesRow
<1>. HIDE DEF object, userId
<1>11. CallTyped(c)'
  BY <1>2, <1>6, <1>8, <1>9, InvFacts DEF CallTyped
<1>12. RequestOK(c)'
  BY <1>2, <1>4, <1>7, OpenSteps DEF RequestOK, SavesRow, Registered, Registers, AccountOf, OnRole
<1>13. FreshOK(c)'
  BY <1>7 DEF FreshOK, SavesRow
<1>14. \A a \in Accounts : ~WorksOn(c, a)'
  BY <1>7 DEF WorksOn, Saving
<1>15. Steady(c)
  BY <1>2, <1>7, OpenSteps DEF Steady
<1>16. Local(c)
  BY <1>2, <1>7, <1>8, <1>10, <1>11, <1>12, <1>13, <1>14, <1>15, InvFacts DEF Local
<1>17. \A d \in Calls \ {c} : pc[d] \in Registering => {c, d} \in crowd'
  BY <1>2, OpenSteps DEF Inv, Crowding
<1>18. \A a \in Accounts \ {c} : account[a].logins \cap request'[c].logins # {} => {a, c} \in crowd'
  BY <1>2, OpenSteps DEF Inv, Crowding
<1>19. ~\E a \in Accounts : account[a].userId = entity'[c].userId
  BY <1>5, <1>6, <1>8
<1>. QED
  BY <1>2, <1>7, <1>16, <1>17, <1>18, <1>19, RegistrationKeeps

LEMMA InsertInv ==
    ASSUME Inv, NEW c \in Calls, Insert(c) PROVE Inv'
<1>1. pc[c] = "insert" /\ UNCHANGED <<request, faults, overlap, crowd>>
  BY DEF Insert
<1>2. /\ \A d \in Calls \ {c} : pc[d] \in Registering => {c, d} \in crowd
      /\ \A a \in Accounts \ {c} : account[a].logins \cap request[c].logins # {}
                => {a, c} \in crowd
  BY <1>1, OpenSteps DEF Inv, Crowding
<1>3. /\ (\A a \in Accounts : account[a].userId # entity[c].userId)
         => pc' = [pc EXCEPT ![c] = "commitAccount"]
            /\ UNCHANGED <<database, entity, changes, versions, used>>
      /\ (\E a \in Accounts : account[a].userId = entity[c].userId) => Fail(c)
  BY DEF Insert
<1>4. CASE \A a \in Accounts : account[a].userId # entity[c].userId
  <2>1. PCTyped' /\ pc'[c] = "commitAccount" /\ \A d \in Calls \ {c} : pc'[d] = pc[d]
    BY <1>3, <1>4, PCMove DEF Open, Registering, Insert
  <2>2. UNCHANGED <<account, roleName, entity, changes, versions, used>>
    BY <1>3, <1>4 DEF database, Insert
  <2>3. CallTyped(c)' /\ RequestOK(c)'
    BY <1>1, <2>1, <2>2, InvFacts, OpenSteps
       DEF CallTyped, RequestOK, SavesRow, Registered, Registers, AccountOf, OnRole
  <2>4. ObjectOK(c)' /\ FreshOK(c)'
    BY <1>1, <2>1, <2>2, InvFacts DEF ObjectOK, FreshOK, SavesRow
  <2>5. \A a \in Accounts : ~WorksOn(c, a)'
    BY <2>1 DEF WorksOn, Saving
  <2>6. Steady(c)
    BY <1>1, <2>1, OpenSteps DEF Steady
  <2>7. Local(c)
    BY <1>1, <2>1, <2>2, <2>3, <2>4, <2>5, <2>6, InvFacts DEF Local
  <2>. QED
    BY <1>1, <1>2, <2>1, <2>7, RegistrationKeeps
<1>5. CASE \E a \in Accounts : account[a].userId = entity[c].userId
  <2>1. Fail(c)
    BY <1>3, <1>5
  <2>2. \E pair \in crowd : c \in pair
    BY <1>1, <1>5 DEF Inv, UserIds
  <2>3. Registered(c) => Registers(c)'
    BY <1>1, InvFacts DEF RequestOK, Registers
  <2>4. crowd \subseteq crowd' /\ crowd' \subseteq SUBSET Calls
    BY <1>1, InvFacts
  <2>5. Local(c) /\ pc'[c] = "failed"
    BY <1>1, <2>1, <2>3, <2>4, InvFacts, FailedLocal DEF CallTyped
  <2>. QED
    BY <1>1, <2>2, <2>5, OpenSteps, RegistrationKeeps
<1>. QED
  BY <1>4, <1>5

LEMMA RegisterInv ==
    ASSUME Inv, NEW c \in Calls, NEW kind \in {"register", "seed"},
           NEW logins \in (SUBSET Logins) \ {{}}, NEW name \in Names,
           Register(c, kind, logins, name)
    PROVE  Inv'
<1>. DEFINE input == [NoRequest EXCEPT !.account = c, !.logins = logins, !.name = name]
<1>1. /\ Ask(c, kind, input) /\ UNCHANGED <<faults, overlap>>
      /\ crowd' = crowd \cup {{c, d} : d \in {d \in Calls \ {c} : pc[d] \in Registering}}
  BY DEF Register
<1>2. \/ /\ WithLogin(logins) = {} /\ pc' = [pc EXCEPT ![c] = "generateId"]
         /\ UNCHANGED <<account, roleName, entity, changes, versions, used>>
      \/ WithLogin(logins) # {} /\ Fail(c)
  BY DEF Register, database
<1>3. IsRequest(input, "none", c, logins, name, 0)
  BY Inputs
<1>. HIDE DEF input
<1>4. /\ IsRequest(request'[c], kind, c, logins, name, 0)
      /\ DOMAIN request' = Calls /\ \A d \in Calls \ {c} : request'[d] = request[d]
      /\ kind \in Kinds /\ pc[c] = "idle" /\ ~Registered(c) /\ changes[c] = NoChange
  BY <1>1, <1>3, Asked
<1>5. /\ request'[c].kind = kind /\ request'[c].account = c /\ request'[c].logins = logins
      /\ request'[c].name = name
  BY <1>4 DEF IsRequest
<1>6. /\ crowd \subseteq crowd' /\ crowd' \subseteq SUBSET Calls
      /\ \A d \in Calls \ {c} : pc[d] \in Registering => {c, d} \in crowd'
  <2>. DEFINE met == {d \in Calls \ {c} : pc[d] \in Registering}
  <2>1. crowd' = crowd \cup {{c, d} : d \in met} /\ met \subseteq Calls
    BY <1>1
  <2>2. \A d \in Calls \ {c} : pc[d] \in Registering => d \in met
    OBVIOUS
  <2>. HIDE DEF met
  <2>3. \A d \in met : {c, d} \in SUBSET Calls
    BY <2>1
  <2>4. crowd \subseteq crowd' /\ \A d \in met : {c, d} \in crowd'
    BY <2>1
  <2>5. \A pair \in crowd : pair \in SUBSET Calls
    BY InvFacts
  <2>6. \A pair \in crowd' : pair \in SUBSET Calls
    BY <2>1, <2>3, <2>5
  <2>. QED
    BY <2>2, <2>4, <2>6
<1>7. c \in Accounts
  BY DEF Accounts
<1>8. CASE /\ WithLogin(logins) = {} /\ pc' = [pc EXCEPT ![c] = "generateId"]
           /\ UNCHANGED <<account, roleName, entity, changes, versions, used>>
  <2>1. PCTyped' /\ pc'[c] = "generateId" /\ \A d \in Calls \ {c} : pc'[d] = pc[d]
    BY <1>8, PCMove DEF Open, Registering
  <2>2. CallTyped(c)'
    BY <1>4, <1>5, <1>7, <1>8, InvFacts DEF CallTyped
  <2>3. RequestOK(c)'
    BY <1>4, <1>5, <1>8, <2>1, OpenSteps
       DEF RequestOK, SavesRow, Registered, Registers, AccountOf, OnRole
  <2>4. ObjectOK(c)' /\ FreshOK(c)'
    BY <1>4, <1>8, <2>1, InvFacts DEF ObjectOK, FreshOK, SavesRow
  <2>5. \A a \in Accounts : ~WorksOn(c, a)'
    BY <2>1 DEF WorksOn, Saving
  <2>6. Steady(c)
    BY <1>4 DEF Steady
  <2>7. \A a \in Accounts : account[a].logins \cap logins = {}
    BY <1>8 DEF WithLogin
  <2>8. Local(c)
    BY <1>1, <1>4, <1>6, <1>8, <2>1, <2>2, <2>3, <2>4, <2>5, <2>6, InvFacts DEF Local
  <2>. QED
    BY <1>1, <1>4, <1>5, <1>6, <2>1, <2>7, <2>8, RegistrationKeeps
<1>9. CASE WithLogin(logins) # {} /\ Fail(c)
  <2>1. Local(c) /\ pc'[c] = "failed"
    BY <1>1, <1>4, <1>5, <1>6, <1>7, <1>9, InvFacts, FailedLocal
  <2>. QED
    BY <1>1, <1>4, <1>5, <1>9, <2>1, OpenSteps, RegistrationKeeps
<1>. QED
  BY <1>2, <1>8, <1>9

-----------------------------------------------------------------------------
(* The first state, a crash, and a step that changes nothing.              *)

LEMMA CrashInv ==
    ASSUME Inv, Crash PROVE Inv'
<1>. USE DEF Inv
<1>1. /\ UNCHANGED <<account, roleName, request, versions, used, overlap, crowd>>
      /\ faults < MaxFaults /\ faults' = faults + 1
      /\ pc' = [c \in Calls |-> IF InFlight(c) THEN "lost" ELSE pc[c]]
      /\ entity' = [c \in Calls |-> NoChange] /\ changes' = [c \in Calls |-> NoChange]
  BY DEF Crash, database, history
<1>2. faults \in 0..MaxFaults /\ MaxFaults \in Nat
  BY AccountsAssumption DEF TypeOK
<1>3. faults' \in 0..MaxFaults /\ faults' # 0
  BY <1>1, <1>2
<1>4. \A c \in Calls : /\ pc'[c] = IF InFlight(c) THEN "lost" ELSE pc[c]
                       /\ entity'[c] = NoChange /\ changes'[c] = NoChange
  BY <1>1
<1>5. \A c \in Calls : pc'[c] \in {"idle", "answered", "failed", "lost"}
  BY <1>4 DEF TypeOK, InFlight
<1>6. \A c \in Calls : pc'[c] = "idle" <=> pc[c] = "idle"
  BY <1>4 DEF InFlight, Open, Registering, Saving, OnRole
<1>7. \A c \in Calls : Steady(c)
  BY <1>1, <1>4, <1>5, <1>6, OpenSteps DEF Steady, InFlight, Open, Saving, OnRole
<1>8. TypeOK'
  BY <1>1, <1>3, <1>4, <1>5, NoChangeEmpty DEF TypeOK
<1>9. Requests'
  <2>1. \A c \in Calls : RequestOK(c)'
    BY <1>1, <1>4, <1>5, <1>6, OpenSteps
       DEF Requests, RequestOK, SavesRow, Registered, Registers, OnRole
  <2>2. \A c \in Calls : ObjectOK(c)'
    BY <1>4, <1>5, NoChangeEmpty DEF ObjectOK, SavesRow
  <2>. QED
    BY <1>1, <2>1, <2>2 DEF Requests
<1>10. Versions'
  <2>1. \A a \in Accounts : \A version \in versions[a] : PasswordFrom(version.password, a)'
    BY <1>1, <1>7, PasswordStays DEF Versions
  <2>2. \A a \in Accounts : \A version \in versions[a] :
            version.otp = NoCode \/ DrawnFor(version.otp.by, a)'
    BY <1>7, DrawnStays DEF Versions
  <2>. QED
    BY <1>1, <2>1, <2>2 DEF Versions, Registered
<1>11. Fresh'
  BY <1>5 DEF Fresh, FreshOK, SavesRow, WorksOn, Saving
<1>12. Codes'
  <2>1. \A u \in used : \E a \in Accounts : DrawnFor(u, a)'
    BY <1>7, DrawnStays DEF Codes
  <2>. QED
    BY <1>1, <2>1 DEF Codes, Registered
<1>13. Crowding'
  BY <1>1, <1>5, OpenSteps DEF Crowding, DuplicatesCrowded
<1>14. UserIds'
  BY <1>1, <1>3, <1>5 DEF UserIds, AloneRegisters
<1>. QED
  BY <1>8, <1>9, <1>10, <1>11, <1>12, <1>13, <1>14

LEMMA StutterInv ==
    ASSUME Inv, UNCHANGED vars PROVE Inv'
<1>1. UNCHANGED <<account, roleName, pc, request, entity, changes, faults, versions, used,
                  overlap, crowd>>
  BY DEF vars, database, memory, history
<1>. USE DEF Inv
<1>2. TypeOK'
  BY <1>1 DEF TypeOK
<1>3. Requests'
  BY <1>1 DEF Requests, RequestOK, ObjectOK, SavesRow, Registered, Registers, AccountOf, Own
<1>4. Versions'
  BY <1>1 DEF Versions, Registered, PasswordFrom, DrawnFor, Registers, AccountOf
<1>5. Fresh'
  BY <1>1 DEF Fresh, FreshOK, SavesRow, AccountOf, Own, WorksOn
<1>6. Codes'
  BY <1>1 DEF Codes, Registered, DrawnFor, Registers, AccountOf
<1>7. Crowding'
  BY <1>1 DEF Crowding, DuplicatesCrowded
<1>8. UserIds'
  BY <1>1 DEF UserIds, AloneRegisters, WithLogin
<1>. QED
  BY <1>2, <1>3, <1>4, <1>5, <1>6, <1>7, <1>8

-----------------------------------------------------------------------------
(* The steps that change accounts.                                         *)

\* A request that has saved an account, or accounts, neither registered nor renumbered it.
Saves(c) ==
    /\ UNCHANGED <<roleName, request, faults, crowd>>
    /\ pc[c] \in {"commit", "hash"}
    /\ \E to \in {"answered", "provider"} : pc' = [pc EXCEPT ![c] = to]
    /\ Forget(c)
    /\ overlap \subseteq overlap' /\ overlap' \subseteq Accounts
    /\ DOMAIN account' = Accounts /\ DOMAIN versions' = Accounts
    /\ \A a \in Accounts : /\ DOMAIN account'[a] = Columns
                           /\ account'[a].logins = account[a].logins
                           /\ account'[a].userId = account[a].userId
                           /\ versions[a] \subseteq versions'[a]

LEMMA SavesKeeps ==
    ASSUME Inv, NEW c \in Calls, Saves(c)
    PROVE  /\ TypeOK' /\ Requests' /\ Crowding' /\ UserIds'
           /\ \A d \in Calls : Steady(d)
           /\ pc'[c] \in {"answered", "provider"}
           /\ \A d \in Calls \ {c} : pc'[d] = pc[d] /\ entity'[d] = entity[d] /\ changes'[d] = changes[d]
           /\ \A a \in Accounts : Registered(a)' <=> Registered(a)
<1>. USE DEF Inv
<1>1. PICK to \in {"answered", "provider"} : pc' = [pc EXCEPT ![c] = to]
  BY DEF Saves
<1>2. PCTyped' /\ pc'[c] = to /\ \A d \in Calls \ {c} : pc'[d] = pc[d]
  BY <1>1, PCMove DEF Open
<1>3. /\ DOMAIN entity' = Calls /\ DOMAIN changes' = Calls
      /\ entity'[c] = NoChange /\ changes'[c] = NoChange
      /\ \A d \in Calls \ {c} : entity'[d] = entity[d] /\ changes'[d] = changes[d]
  BY InvFacts DEF Saves, Forget
<1>4. /\ UNCHANGED <<roleName, request, faults, crowd>> /\ pc[c] \in {"commit", "hash"}
      /\ overlap' \subseteq Accounts
      /\ DOMAIN account' = Accounts
      /\ \A a \in Accounts : /\ DOMAIN account'[a] = Columns
                             /\ account'[a].logins = account[a].logins
                             /\ account'[a].userId = account[a].userId
                             /\ versions[a] \subseteq versions'[a]
  BY DEF Saves
<1>5. \A a \in Accounts : Registered(a)' <=> Registered(a)
  BY <1>4 DEF Registered
<1>6. \A d \in Calls : Steady(d)
  BY <1>2, <1>4, OpenSteps DEF Steady
<1>7. TypeOK'
  <2>1. \A d \in Calls : CallTyped(d)'
    BY <1>3, <1>4, NoChangeEmpty DEF TypeOK, CallTyped
  <2>. QED
    BY <1>2, <1>4, <2>1 DEF TypeOK, CallTyped, PCTyped
<1>8. Requests'
  <2>1. \A d \in Calls \ {c} : RequestOK(d)'
    <3>1. \A d \in Calls \ {c} : d \in Accounts /\ AccountOf(d) \in Accounts /\ AccountOf(d)' = AccountOf(d)
      BY <1>4 DEF TypeOK, AccountOf, Accounts
    <3>. QED
      BY <1>2, <1>3, <1>4, <1>5, <3>1 DEF Requests, RequestOK, SavesRow, Registers
  <2>2. RequestOK(c)'
    <3>1. RequestOK(c) /\ c \in Accounts
      BY DEF Requests, Accounts
    <3>. QED
      BY <1>2, <1>4, <1>5, <3>1, OpenSteps DEF RequestOK, SavesRow, Registers, OnRole
  <2>3. \A d \in Calls \ {c} : ObjectOK(d)'
    <3>1. \A d \in Calls \ {c} : AccountOf(d) \in Accounts /\ AccountOf(d)' = AccountOf(d) /\ Own(d)' = Own(d)
      BY <1>4 DEF TypeOK, AccountOf, Own
    <3>. QED
      BY <1>2, <1>3, <1>4, <3>1 DEF Requests, ObjectOK, SavesRow
  <2>4. ObjectOK(c)'
    BY <1>2, <1>3, NoChangeEmpty DEF ObjectOK, SavesRow
  <2>. QED
    BY <1>3, <1>4, <2>1, <2>2, <2>3, <2>4 DEF Requests
<1>9. Crowding'
  BY <1>2, <1>4, OpenSteps DEF Crowding, DuplicatesCrowded
<1>10. UserIds'
  <2>1. \A logins : WithLogin(logins)' = WithLogin(logins)
    BY <1>4 DEF WithLogin
  <2>2. \A d \in Calls : /\ pc'[d] = "insert" => pc[d] = "insert" /\ entity'[d] = entity[d]
                         /\ pc'[d] = "failed" => pc[d] = "failed"
    BY <1>2, <1>3
  <2>3. AloneRegisters'
    BY <1>4, <2>1, <2>2 DEF UserIds, AloneRegisters
  <2>. QED
    BY <1>4, <2>2, <2>3 DEF UserIds
<1>. QED
  BY <1>2, <1>3, <1>5, <1>6, <1>7, <1>8, <1>9, <1>10

\* A code is drawn for one account.
LEMMA DrawnOnce ==
    ASSUME NEW a \in Accounts, NEW b \in Accounts, NEW u, DrawnFor(u, a), DrawnFor(u, b)
    PROVE  a = b /\ u # NoCall
BY AccountsAssumption DEF DrawnFor, Registers, Accounts

\* The row a save leaves: the columns of its UPDATE are those of its object.
LEMMA SavedRow ==
    ASSUME Inv, NEW c \in Calls, pc[c] = "commit"
    PROVE  LET a == AccountOf(c)
           IN  /\ a \in Accounts /\ Registered(a) /\ DOMAIN Saved(c) = Columns
               /\ \E version \in versions[a] : \A k \in Columns \ Own(c) :
                    Saved(c)[k] \in {account[a][k], version[k]}
               /\ "otp" \in Own(c) =>
                    Saved(c).otp = account[a].otp
                    \/ (request[c].kind = "otp" /\ CodeBy(Saved(c).otp, c))
               /\ a \notin overlap => \A k \in Columns \ Own(c) : Saved(c)[k] = account[a][k]
<1>. DEFINE a == AccountOf(c)
<1>1. /\ a \in Accounts /\ Registered(a) /\ SavesRow(c)
      /\ ObjectOK(c) /\ FreshOK(c) /\ DOMAIN changes[c] \subseteq DOMAIN entity[c]
  BY InvFacts DEF SavesRow, RequestOK, CallTyped, AccountOf
<1>2. DOMAIN account[a] = Columns
  BY <1>1 DEF Inv, TypeOK
<1>3. /\ DOMAIN Saved(c) = Columns
      /\ \A k \in Columns : Saved(c)[k] = IF k \in DOMAIN changes[c] THEN changes[c][k]
                                          ELSE account[a][k]
  BY <1>2 DEF Saved, Overlay, AccountOf
<1>4. \A k \in DOMAIN changes[c] : changes[c][k] = entity[c][k] /\ k \in DOMAIN entity[c]
  BY <1>1 DEF ObjectOK
<1>5. PICK version \in versions[a] : \A k \in DOMAIN entity[c] \ Own(c) : entity[c][k] = version[k]
  BY <1>1 DEF ObjectOK
<1>6. \A k \in Columns \ Own(c) : Saved(c)[k] \in {account[a][k], version[k]}
  BY <1>3, <1>4, <1>5
<1>7. "otp" \in Own(c) => request[c].kind = "otp"
  BY DEF Own, Duty
<1>8. "otp" \in Columns
  BY DEF Columns
<1>9. request[c].kind = "otp" => CodeBy(entity[c].otp, c)
  BY <1>1 DEF ObjectOK
<1>10. "otp" \in Own(c) => Saved(c).otp = account[a].otp
                          \/ (request[c].kind = "otp" /\ CodeBy(Saved(c).otp, c))
  BY <1>3, <1>4, <1>7, <1>8, <1>9
<1>11. a \notin overlap => \A k \in Columns \ Own(c) : Saved(c)[k] = account[a][k]
  BY <1>1, <1>3 DEF FreshOK
<1>. QED
  BY <1>1, <1>3, <1>5, <1>6, <1>10, <1>11

LEMMA CommitInv ==
    ASSUME Inv, NEW c \in Calls, Commit(c) PROVE Inv'
<1>. USE DEF Inv
<1>a. PICK a : a = AccountOf(c)
  OBVIOUS
<1>b. PICK row : row = Saved(c)
  OBVIOUS
<1>1. /\ pc[c] = "commit"
      /\ pc' = [pc EXCEPT ![c] = IF request[c].kind = "seed" THEN "provider" ELSE "answered"]
      /\ account' = [account EXCEPT ![a] = row]
      /\ versions' = [versions EXCEPT ![a] = @ \cup {row}]
      /\ Forget(c) /\ UNCHANGED <<roleName, request, faults, used, overlap, crowd>>
  BY <1>a, <1>b DEF Commit, Step, AccountOf
<1>2. /\ a \in Accounts /\ Registered(a) /\ DOMAIN row = Columns
      /\ \E version \in versions[a] : \A k \in Columns \ Own(c) :
            row[k] \in {account[a][k], version[k]}
      /\ "otp" \in Own(c) => row.otp = account[a].otp \/ (request[c].kind = "otp" /\ CodeBy(row.otp, c))
      /\ a \notin overlap => \A k \in Columns \ Own(c) : row[k] = account[a][k]
  BY <1>1, <1>a, <1>b, SavedRow
<1>3. /\ DOMAIN account' = Accounts /\ DOMAIN versions' = Accounts
      /\ account'[a] = row /\ versions'[a] = versions[a] \cup {row}
      /\ \A b \in Accounts \ {a} : account'[b] = account[b] /\ versions'[b] = versions[b]
  BY <1>1, <1>2 DEF Versions
<1>4. PICK version \in versions[a] : \A k \in Columns \ Own(c) : row[k] \in {account[a][k], version[k]}
  BY <1>2
<1>5. /\ {"logins", "userId", "password", "otp"} \subseteq Columns
      /\ {"logins", "userId", "password"} \cap Own(c) = {}
  BY DEF Columns, Own, Duty
<1>6. account[a] \in versions[a]
  BY <1>2 DEF Versions
<1>7. /\ version.logins = account[a].logins /\ version.userId = account[a].userId
      /\ PasswordFrom(version.password, a) /\ PasswordFrom(account[a].password, a)
      /\ version.otp = NoCode \/ DrawnFor(version.otp.by, a)
      /\ account[a].otp = NoCode \/ DrawnFor(account[a].otp.by, a)
      /\ Coded(version.otp) /\ Coded(account[a].otp)
  BY <1>2, <1>4, <1>6 DEF Versions
<1>8. /\ row.logins = account[a].logins /\ row.userId = account[a].userId
      /\ row.password \in {account[a].password, version.password}
  BY <1>4, <1>5, <1>7
<1>9. \/ row.otp = account[a].otp \/ row.otp = version.otp
      \/ request[c].kind = "otp" /\ CodeBy(row.otp, c)
  BY <1>2, <1>4, <1>5
<1>10. Saves(c)
  <2>1. \E to \in {"answered", "provider"} : pc' = [pc EXCEPT ![c] = to]
    BY <1>1
  <2>2. \A b \in Accounts : DOMAIN account[b] = Columns
    BY DEF TypeOK
  <2>. QED
    BY <1>1, <1>2, <1>3, <1>8, <2>1, <2>2, InvFacts DEF Saves
<1>11. /\ TypeOK' /\ Requests' /\ Crowding' /\ UserIds'
       /\ \A d \in Calls : Steady(d)
       /\ pc'[c] \in {"answered", "provider"}
       /\ \A d \in Calls \ {c} : pc'[d] = pc[d] /\ entity'[d] = entity[d] /\ changes'[d] = changes[d]
       /\ \A b \in Accounts : Registered(b)' <=> Registered(b)
  BY <1>10, SavesKeeps
<1>12. Versions'
  <2>1. PasswordFrom(row.password, a)'
    <3>1. PasswordFrom(row.password, a)
      BY <1>7, <1>8
    <3>2. versions[a] \subseteq versions'[a]
      BY <1>3
    <3>. QED
      BY <1>2, <1>11, <3>1, <3>2, PasswordStays
  <2>2. row.otp = NoCode \/ DrawnFor(row.otp.by, a)'
    <3>1. CASE row.otp = NoCode \/ DrawnFor(row.otp.by, a)
      BY <1>2, <1>11, <3>1, DrawnStays
    <3>2. CASE request[c].kind = "otp" /\ CodeBy(row.otp, c)
      <4>1. pc'[c] = "answered"
        BY <1>1, <3>2 DEF TypeOK
      <4>. QED
        BY <1>1, <1>a, <3>2, <4>1 DEF DrawnFor, AccountOf, CodeBy
    <3>. QED
      BY <1>7, <1>9, <3>1, <3>2
  <2>3. ASSUME NEW b \in Accounts, NEW v \in versions[b]
        PROVE  PasswordFrom(v.password, b)' /\ (v.otp = NoCode \/ DrawnFor(v.otp.by, b)')
    <3>1. PasswordFrom(v.password, b) /\ (v.otp = NoCode \/ DrawnFor(v.otp.by, b))
      BY <2>3 DEF Versions
    <3>2. versions[b] \subseteq versions'[b]
      BY <1>3
    <3>. QED
      BY <1>11, <2>3, <3>1, <3>2, PasswordStays, DrawnStays
  <2>. QED
    BY <1>2, <1>3, <1>7, <1>8, <1>9, <1>11, <2>1, <2>2, <2>3 DEF Versions, CodeBy
<1>13. Fresh'
  <2>1. \A b \in Accounts : ~WorksOn(c, b)'
    BY <1>11 DEF WorksOn, Saving
  <2>2. \A d \in Calls \ {c}, b \in Accounts : WorksOn(d, b)' <=> WorksOn(d, b)
    BY <1>1, <1>11 DEF WorksOn
  <2>3. FreshOK(c)'
    BY <1>11 DEF FreshOK, SavesRow
  <2>4. ASSUME NEW d \in Calls \ {c} PROVE FreshOK(d)'
    <3>1. CASE AccountOf(d) = a /\ (SavesRow(d) \/ pc[d] = "hash")
      <4>1. WorksOn(d, a) /\ WorksOn(c, a)
        BY <1>1, <1>a, <3>1 DEF WorksOn, SavesRow, Saving, AccountOf
      <4>2. a \in overlap
        BY <1>2, <4>1 DEF Fresh
      <4>. QED
        BY <1>1, <3>1, <4>2 DEF FreshOK, AccountOf
    <3>2. CASE AccountOf(d) # a
      <4>1. AccountOf(d) \in Accounts
        BY DEF TypeOK, AccountOf
      <4>. QED
        BY <1>1, <1>3, <1>11, <3>2, <4>1 DEF Fresh, FreshOK, AccountOf, SavesRow, Own
    <3>3. CASE ~(SavesRow(d) \/ pc[d] = "hash")
      BY <1>11, <3>3 DEF FreshOK, SavesRow
    <3>. QED
      BY <3>1, <3>2, <3>3
  <2>. QED
    BY <1>1, <2>1, <2>2, <2>3, <2>4 DEF Fresh
<1>14. Codes'
  <2>1. \A u \in used : \E b \in Accounts : DrawnFor(u, b)'
    BY <1>11, DrawnStays DEF Codes
  <2>2. a \notin overlap => row.otp.by \notin used
    <3>1. CASE row.otp = account[a].otp
      BY <1>2, <3>1 DEF Codes
    <3>2. CASE request[c].kind = "otp" /\ CodeBy(row.otp, c)
      BY <1>1, <3>2, AccountsAssumption DEF Codes, DrawnFor, Registers, CodeBy
    <3>. QED
      BY <1>2, <1>5, <3>1, <3>2
  <2>. QED
    BY <1>1, <1>3, <1>11, <2>1, <2>2 DEF Codes
<1>. QED
  BY <1>11, <1>12, <1>13, <1>14

LEMMA ResetRow ==
    ASSUME NEW row, DOMAIN row = Columns, NEW c
    PROVE  LET new == WithPassword(row, c)
           IN  /\ DOMAIN new = Columns /\ new.password = c /\ new.otp = NoCode
               /\ \A k \in Columns \ {"password", "otp"} : new[k] = row[k]
<1>1. "password" \in Columns /\ "otp" \in Columns
  BY DEF Columns
<1>. DEFINE set == [row EXCEPT !.password = c]
            new == [set EXCEPT !.otp = NoCode]
<1>2. /\ DOMAIN set = Columns /\ set.password = c
      /\ \A k \in Columns \ {"password"} : set[k] = row[k]
  BY <1>1, Zenon
<1>. HIDE DEF set
<1>3. /\ DOMAIN new = Columns /\ new.password = c /\ new.otp = NoCode
      /\ \A k \in Columns \ {"password", "otp"} : new[k] = row[k]
  BY <1>1, <1>2, Zenon
<1>4. WithPassword(row, c) = new
  BY DEF WithPassword, set
<1>. HIDE DEF new
<1>. QED
  BY <1>3, <1>4

\* Account a has a code, and this is its number.
HasCode(a, number) == number # NoCode.number /\ account[a].otp.number = number

\* What a reset does: it changes the accounts that have the code it has read.
LEMMA ResetStep ==
    ASSUME Inv, NEW c \in Calls, ResetPassword(c)
    PROVE  LET rows == Matching(entity[c].otp)
           IN  /\ Saves(c) /\ pc[c] = "hash"
               /\ pc' = [pc EXCEPT ![c] = "answered"]
               /\ rows = {a \in Accounts :
                    Registered(a) /\ HasCode(a, request[c].number)}
               /\ \A a \in Accounts :
                    IF a \in rows THEN /\ account'[a] = WithPassword(account[a], c)
                                       /\ versions'[a] = versions[a] \cup {account'[a]}
                    ELSE account'[a] = account[a] /\ versions'[a] = versions[a]
               /\ used' = used \cup {account[a].otp.by : a \in rows}
               /\ overlap' = overlap \cup {a \in rows : \E d \in Calls \ {c} : WorksOn(d, a)}
<1>. USE DEF Inv
<1>. DEFINE rows == Matching(entity[c].otp)
<1>1. /\ pc[c] = "hash" /\ pc' = [pc EXCEPT ![c] = "answered"]
      /\ account' = [a \in Accounts |->
                IF a \in rows THEN WithPassword(account[a], c) ELSE account[a]]
      /\ versions' = [a \in Accounts |->
                IF a \in rows THEN versions[a] \cup {account'[a]} ELSE versions[a]]
      /\ used' = used \cup {account[a].otp.by : a \in rows}
      /\ overlap' = overlap \cup {a \in rows : \E d \in Calls \ {c} : WorksOn(d, a)}
      /\ Forget(c) /\ UNCHANGED <<roleName, request, faults, crowd>>
  BY DEF ResetPassword, Step
<1>2. request[c].number = entity[c].otp.number /\ Coded(entity[c].otp)
  BY <1>1, InvFacts DEF RequestOK
<1>3. rows = {a \in Accounts : Registered(a) /\ HasCode(a, request[c].number)}
  <2>1. NoCode.number = 0 /\ 0 \notin Numbers /\ Unregistered.otp = NoCode
    BY AccountsAssumption DEF NoCode, Unregistered
  <2>2. entity[c].otp = NoCode <=> request[c].number = 0
    BY <1>2, <2>1 DEF Coded
  <2>3. \A a \in Accounts : HasCode(a, request[c].number) => Registered(a)
    BY <2>1 DEF Versions, HasCode
  <2>4. \A a \in Accounts :
          entity[c].otp # NoCode /\ account[a].otp.number = entity[c].otp.number
            <=> HasCode(a, request[c].number)
    BY <1>2, <2>1, <2>2 DEF HasCode
  <2>. QED
    BY <2>3, <2>4 DEF Matching
<1>4. rows \subseteq Accounts
  BY <1>3
<1>. HIDE DEF rows
<1>5. \A a \in Accounts :
        IF a \in rows THEN /\ account'[a] = WithPassword(account[a], c)
                           /\ versions'[a] = versions[a] \cup {account'[a]}
        ELSE account'[a] = account[a] /\ versions'[a] = versions[a]
  BY <1>1
<1>6. \A a \in Accounts : /\ DOMAIN account'[a] = Columns
                          /\ account'[a].logins = account[a].logins
                          /\ account'[a].userId = account[a].userId
                          /\ versions[a] \subseteq versions'[a]
  <2>1. \A a \in Accounts : DOMAIN account[a] = Columns
    BY DEF TypeOK
  <2>2. {"logins", "userId"} \subseteq Columns \ {"password", "otp"}
    BY DEF Columns
  <2>. QED
    BY <1>5, <2>1, <2>2, ResetRow
<1>7. overlap \subseteq overlap' /\ overlap' \subseteq Accounts
  BY <1>1, <1>4, InvFacts
<1>8. DOMAIN account' = Accounts /\ DOMAIN versions' = Accounts
  BY <1>1
<1>9. Saves(c)
  BY <1>1, <1>6, <1>7, <1>8 DEF Saves
<1>. QED
  BY <1>1, <1>2, <1>3, <1>5, <1>9 DEF rows

LEMMA ResetPasswordInv ==
    ASSUME Inv, NEW c \in Calls, ResetPassword(c) PROVE Inv'
<1>. USE DEF Inv
<1>a. PICK rows : rows = Matching(entity[c].otp)
  OBVIOUS
<1>b. PICK number : number = request[c].number
  OBVIOUS
<1>1. /\ Saves(c) /\ pc[c] = "hash" /\ pc' = [pc EXCEPT ![c] = "answered"]
      /\ rows = {a \in Accounts : Registered(a) /\ HasCode(a, number)}
      /\ \A a \in Accounts :
            IF a \in rows THEN /\ account'[a] = WithPassword(account[a], c)
                               /\ versions'[a] = versions[a] \cup {account'[a]}
            ELSE account'[a] = account[a] /\ versions'[a] = versions[a]
      /\ used' = used \cup {account[a].otp.by : a \in rows}
      /\ overlap' = overlap \cup {a \in rows : \E d \in Calls \ {c} : WorksOn(d, a)}
  BY <1>a, <1>b, ResetStep
<1>2. /\ TypeOK' /\ Requests' /\ Crowding' /\ UserIds'
      /\ \A d \in Calls : Steady(d)
      /\ pc'[c] = "answered"
      /\ \A d \in Calls \ {c} : pc'[d] = pc[d] /\ entity'[d] = entity[d] /\ changes'[d] = changes[d]
      /\ \A b \in Accounts : Registered(b)' <=> Registered(b)
      /\ request' = request
  BY <1>1, SavesKeeps DEF Saves, TypeOK
<1>3. \A a \in rows : /\ account'[a].password = c /\ account'[a].otp = NoCode
                      /\ DOMAIN account'[a] = Columns
  <2>1. \A a \in rows : a \in Accounts /\ account'[a] = WithPassword(account[a], c)
    BY <1>1
  <2>2. \A a \in Accounts : DOMAIN account[a] = Columns
    BY DEF TypeOK
  <2>. QED
    BY <2>1, <2>2, ResetRow
<1>4. /\ NoCode.by = NoCall
      /\ \A a \in rows : account[a].otp.number = number /\ account[a].otp # NoCode
  BY <1>1 DEF HasCode, NoCode
<1>5. \A a \in rows : DrawnFor(account[a].otp.by, a)
  <2>1. \A a \in rows : a \in Accounts /\ Registered(a)
    BY <1>1
  <2>. QED
    BY <1>4, <2>1 DEF Versions
<1>6. Versions'
  <2>1. ASSUME NEW a \in Accounts, NEW v \in versions[a]
        PROVE  /\ DOMAIN v = Columns
               /\ v.logins = account'[a].logins /\ v.userId = account'[a].userId
               /\ Coded(v.otp)
               /\ PasswordFrom(v.password, a)' /\ (v.otp = NoCode \/ DrawnFor(v.otp.by, a)')
    <3>1. PasswordFrom(v.password, a) /\ (v.otp = NoCode \/ DrawnFor(v.otp.by, a))
      BY <2>1 DEF Versions
    <3>2. PasswordFrom(v.password, a)'
      BY <1>1, <1>2, <3>1, PasswordStays DEF Saves
    <3>3. v.otp = NoCode \/ DrawnFor(v.otp.by, a)'
      BY <1>2, <3>1, DrawnStays
    <3>. QED
      BY <1>1, <2>1, <3>2, <3>3 DEF Versions, Saves
  <2>2. ASSUME NEW a \in rows PROVE PasswordFrom(c, a)'
    <3>1. account[a] \in versions'[a]
      BY <1>1, <2>2 DEF Versions
    <3>. QED
      BY <1>2, <1>4, <1>b, <2>2, <3>1 DEF PasswordFrom
  <2>3. \A a \in rows : account'[a].password = c /\ account'[a].otp = NoCode
                        /\ versions'[a] = versions[a] \cup {account'[a]}
    BY <1>1, <1>3
  <2>4. ASSUME NEW a \in Accounts, NEW v \in versions'[a]
        PROVE  /\ DOMAIN v = Columns
               /\ v.logins = account'[a].logins /\ v.userId = account'[a].userId
               /\ Coded(v.otp)
               /\ PasswordFrom(v.password, a)' /\ (v.otp = NoCode \/ DrawnFor(v.otp.by, a)')
    <3>1. CASE v \in versions[a]
      BY <2>1, <3>1
    <3>2. CASE v \notin versions[a]
      <4>1. a \in rows /\ v = account'[a]
        BY <1>1, <2>4, <3>2
      <4>. QED
        BY <1>3, <2>2, <4>1 DEF Coded
    <3>. QED
      BY <3>1, <3>2
  <2>5. \A a \in Accounts : /\ Registered(a)' => account'[a] \in versions'[a]
                            /\ ~Registered(a)' => account'[a] = Unregistered /\ versions'[a] = {}
    BY <1>1, <1>2 DEF Versions
  <2>. QED
    BY <1>1, <2>4, <2>5 DEF Versions, Saves
<1>7. Fresh'
  <2>1. \A b \in Accounts : ~WorksOn(c, b)'
    BY <1>2 DEF WorksOn, Saving
  <2>2. \A d \in Calls \ {c}, b \in Accounts : WorksOn(d, b)' <=> WorksOn(d, b)
    BY <1>2 DEF WorksOn
  <2>3. FreshOK(c)'
    BY <1>2 DEF FreshOK, SavesRow
  <2>4. ASSUME NEW d \in Calls \ {c} PROVE FreshOK(d)'
    <3>1. CASE AccountOf(d) \in rows /\ (SavesRow(d) \/ pc[d] = "hash")
      <4>1. WorksOn(d, AccountOf(d))
        BY <3>1 DEF WorksOn, SavesRow, Saving, AccountOf
      <4>2. AccountOf(d) \in overlap'
        BY <1>1, <3>1, <4>1
      <4>. QED
        BY <1>2, <4>2 DEF FreshOK, AccountOf
    <3>2. CASE AccountOf(d) \notin rows
      <4>1. AccountOf(d) \in Accounts
        BY DEF TypeOK, AccountOf
      <4>. QED
        BY <1>1, <1>2, <3>2, <4>1 DEF Fresh, FreshOK, AccountOf, SavesRow, Own
    <3>3. CASE ~(SavesRow(d) \/ pc[d] = "hash")
      BY <1>2, <3>3 DEF FreshOK, SavesRow
    <3>. QED
      BY <3>1, <3>2, <3>3
  <2>. QED
    BY <1>1, <2>1, <2>2, <2>3, <2>4 DEF Fresh
<1>8. Codes'
  <2>1. \A u \in used' : \E b \in Accounts : DrawnFor(u, b)
    BY <1>1, <1>5 DEF Codes
  <2>2. \A u \in used' : \E b \in Accounts : DrawnFor(u, b)'
    BY <1>2, <2>1, DrawnStays
  <2>3. NoCall \notin used'
    BY <2>1, DrawnOnce
  <2>4. ASSUME NEW a \in Accounts, a \notin overlap', Registered(a), a \notin rows
        PROVE  account'[a].otp.by \notin used'
    <3>1. account[a].otp.by \notin used /\ account'[a] = account[a]
      BY <1>1, <2>4 DEF Codes
    <3>2. account[a].otp = NoCode \/ DrawnFor(account[a].otp.by, a)
      BY <2>4 DEF Versions
    <3>3. ASSUME NEW b \in rows, account[b].otp.by = account[a].otp.by PROVE FALSE
      <4>1. DrawnFor(account[b].otp.by, b) /\ b \in Accounts /\ b # a
        BY <1>1, <1>5, <2>4, <3>3
      <4>. QED
        BY <1>4, <3>2, <3>3, <4>1, DrawnOnce
    <3>. QED
      BY <1>1, <3>1, <3>3
  <2>5. \A a \in rows : account'[a].otp.by \notin used'
    BY <1>3, <1>4, <2>3
  <2>. QED
    BY <1>1, <1>2, <2>2, <2>4, <2>5 DEF Codes
<1>. QED
  BY <1>2, <1>6, <1>7, <1>8

LEMMA CommitAccountInv ==
    ASSUME Inv, NEW c \in Calls, CommitAccount(c) PROVE Inv'
<1>. USE DEF Inv
<1>a. PICK row : row = entity[c]
  OBVIOUS
<1>1. /\ pc[c] = "commitAccount"
      /\ pc' = [pc EXCEPT ![c] = IF request[c].kind = "seed" THEN "findRole" ELSE "answered"]
      /\ account' = [account EXCEPT ![c] = row] /\ versions' = [versions EXCEPT ![c] = {row}]
      /\ Forget(c) /\ UNCHANGED <<roleName, request, faults, used, overlap, crowd>>
  BY <1>a DEF CommitAccount, Step
<1>2. /\ ~Registered(c) /\ Registers(c) /\ AccountOf(c) = c /\ c \in Accounts
      /\ request[c].logins \in (SUBSET Logins) \ {{}} /\ request[c].name \in Names
  BY <1>1, InvFacts, OpenSteps DEF RequestOK, Accounts
<1>3. PICK number \in Numbers, userId \in {<<request[c].name>>, <<request[c].name, c>>} :
        row = NewAccount(c, request[c].logins, userId, request[c].name, number)
  BY <1>1, <1>a, InvFacts DEF ObjectOK
<1>4. /\ row.logins = request[c].logins /\ row.userId = userId /\ row.password = c
      /\ row.otp.by = c /\ Coded(row.otp) /\ DOMAIN row = Columns
  BY <1>3 DEF NewAccount, Columns, Code, Coded
<1>5. PICK to \in {"findRole", "answered"} : /\ pc' = [pc EXCEPT ![c] = to]
                                             /\ to = "findRole" => request[c].kind = "seed"
  BY <1>1
<1>6. PCTyped' /\ pc'[c] = to /\ \A d \in Calls \ {c} : pc'[d] = pc[d]
  BY <1>5, PCMove DEF Open
<1>7. /\ DOMAIN entity' = Calls /\ DOMAIN changes' = Calls
      /\ entity'[c] = NoChange /\ changes'[c] = NoChange
      /\ \A d \in Calls \ {c} : entity'[d] = entity[d] /\ changes'[d] = changes[d]
  BY <1>1, InvFacts DEF Forget
<1>8. /\ DOMAIN account' = Accounts /\ account'[c] = row
      /\ DOMAIN versions' = Accounts /\ versions'[c] = {row} /\ versions[c] = {}
      /\ \A a \in Accounts \ {c} : account'[a] = account[a] /\ versions'[a] = versions[a]
  BY <1>1, <1>2 DEF Versions
<1>9. Registered(c)' /\ \A a \in Accounts \ {c} : Registered(a)' <=> Registered(a)
  <2>1. row.logins # {}
    BY <1>2, <1>4
  <2>. QED
    BY <1>8, <2>1 DEF Registered
<1>10. \A d \in Calls : Steady(d)
  BY <1>1, <1>6, OpenSteps DEF Steady
<1>11. \A d \in Calls \ {c} : SavesRow(d) \/ pc[d] = "hash" => AccountOf(d) # c
  BY <1>2 DEF Requests, RequestOK
<1>12. TypeOK'
  <2>1. \A d \in Calls : CallTyped(d)'
    BY <1>1, <1>7, NoChangeEmpty DEF TypeOK, CallTyped
  <2>. QED
    BY <1>1, <1>4, <1>6, <1>8, <2>1 DEF TypeOK, CallTyped, PCTyped
<1>13. Requests'
  <2>1. \A d \in Calls \ {c} : RequestOK(d)'
    <3>1. \A d \in Calls \ {c} : d \in Accounts /\ AccountOf(d) \in Accounts /\ AccountOf(d)' = AccountOf(d)
      BY <1>1 DEF TypeOK, AccountOf, Accounts
    <3>. QED
      BY <1>1, <1>6, <1>7, <1>9, <3>1 DEF Requests, RequestOK, SavesRow, Registers
  <2>2. RequestOK(c)'
    BY <1>1, <1>2, <1>5, <1>6, <1>9, OpenSteps
       DEF RequestOK, SavesRow, Registers, AccountOf, OnRole
  <2>3. \A d \in Calls \ {c} : ObjectOK(d)'
    <3>1. \A d \in Calls \ {c} : AccountOf(d) \in Accounts /\ AccountOf(d)' = AccountOf(d) /\ Own(d)' = Own(d)
      BY <1>1 DEF TypeOK, AccountOf, Own
    <3>. QED
      BY <1>1, <1>6, <1>7, <1>8, <1>11, <3>1 DEF Requests, ObjectOK, SavesRow
  <2>4. ObjectOK(c)'
    BY <1>6, <1>7, NoChangeEmpty DEF ObjectOK, SavesRow
  <2>. QED
    BY <1>1, <1>7, <2>1, <2>2, <2>3, <2>4, InvFacts DEF Requests
<1>14. DrawnFor(c, c)' /\ PasswordFrom(c, c)'
  BY <1>1, <1>2, <1>6, OpenSteps DEF DrawnFor, Registers, PasswordFrom
<1>15. Versions'
  <2>1. ASSUME NEW a \in Accounts \ {c}, NEW v \in versions[a]
        PROVE  PasswordFrom(v.password, a)' /\ (v.otp = NoCode \/ DrawnFor(v.otp.by, a)')
    <3>1. PasswordFrom(v.password, a) /\ (v.otp = NoCode \/ DrawnFor(v.otp.by, a))
      BY <2>1 DEF Versions
    <3>2. versions[a] \subseteq versions'[a]
      BY <1>8
    <3>. QED
      BY <1>10, <3>1, <3>2, PasswordStays, DrawnStays
  <2>. QED
    BY <1>4, <1>8, <1>9, <1>14, <2>1 DEF Versions
<1>16. Fresh'
  <2>1. \A b \in Accounts : ~WorksOn(c, b)'
    BY <1>6 DEF WorksOn, Saving
  <2>2. \A d \in Calls \ {c}, b \in Accounts : WorksOn(d, b)' <=> WorksOn(d, b)
    BY <1>1, <1>6 DEF WorksOn
  <2>3. FreshOK(c)'
    BY <1>6 DEF FreshOK, SavesRow
  <2>4. ASSUME NEW d \in Calls \ {c} PROVE FreshOK(d)'
    <3>1. AccountOf(d) \in Accounts
      BY DEF TypeOK, AccountOf
    <3>. QED
      BY <1>1, <1>6, <1>7, <1>8, <1>11, <3>1 DEF Fresh, FreshOK, AccountOf, SavesRow, Own
  <2>. QED
    BY <1>1, <2>1, <2>2, <2>3, <2>4 DEF Fresh
<1>17. Codes'
  <2>1. \A u \in used : \E b \in Accounts : DrawnFor(u, b)'
    BY <1>10, DrawnStays DEF Codes
  <2>2. c \notin used
    <3>1. \A b \in Accounts : ~DrawnFor(c, b)
      BY <1>1, <1>2, OpenSteps, AccountsAssumption DEF DrawnFor, Registers
    <3>. QED
      BY <3>1 DEF Codes
  <2>. QED
    BY <1>1, <1>4, <1>8, <1>9, <2>1, <2>2 DEF Codes
<1>18. Crowding'
  <2>1. \A d, e \in Calls : d # e /\ pc'[d] \in Registering /\ pc'[e] \in Registering
            => {d, e} \in crowd'
    BY <1>1, <1>6, OpenSteps DEF Crowding
  <2>2. \A d \in Calls, a \in Accounts :
            pc'[d] \in Registering /\ a # d /\ account'[a].logins \cap request'[d].logins # {}
                => {a, d} \in crowd'
    BY <1>1, <1>6, <1>8, OpenSteps DEF Crowding
  <2>3. \A a \in Accounts \ {c} : account[a].logins \cap row.logins # {} => {a, c} \in crowd'
    BY <1>1, <1>4, OpenSteps DEF Crowding
  <2>4. DuplicatesCrowded'
    <3>1. ASSUME NEW a \in Accounts, NEW b \in Accounts, a # b,
                 account'[a].logins \cap account'[b].logins # {}
          PROVE  {a, b} \in crowd'
      <4>1. CASE a = c
        <5>1. {a, b} = {b, c} /\ account[b].logins \cap row.logins # {}
          BY <1>8, <3>1, <4>1
        <5>. QED
          BY <2>3, <3>1, <4>1, <5>1
      <4>2. CASE b = c
        BY <1>8, <2>3, <3>1, <4>2
      <4>3. CASE a # c /\ b # c
        BY <1>1, <1>8, <3>1, <4>3 DEF Crowding, DuplicatesCrowded
      <4>. QED
        BY <4>1, <4>2, <4>3
    <3>. QED
      BY <3>1 DEF DuplicatesCrowded
  <2>. QED
    BY <2>1, <2>2, <2>4 DEF Crowding
<1>19. UserIds'
  <2>1. \A a \in Accounts : account'[a].userId \in
            {<<>>} \cup {<<name>> : name \in Names} \cup {<<name, a>> : name \in Names}
    BY <1>2, <1>4, <1>8 DEF UserIds
  <2>2. ASSUME NEW d \in Calls, pc'[d] = "insert",
               NEW a \in Accounts, account'[a].userId = entity'[d].userId
        PROVE  \E pair \in crowd' : d \in pair
    <3>1. d # c /\ pc[d] = "insert" /\ entity'[d] = entity[d]
      BY <1>6, <1>7, <2>2
    <3>2. CASE a = c
      <4>1. {c, d} \in crowd
        BY <1>1, <3>1, OpenSteps DEF Crowding
      <4>. QED
        BY <1>1, <4>1
    <3>3. CASE a # c
      BY <1>1, <1>8, <2>2, <3>1, <3>3 DEF UserIds
    <3>. QED
      BY <3>2, <3>3
  <2>3. \A logins : WithLogin(logins) \subseteq WithLogin(logins)'
    <3>1. \A logins : \A a \in WithLogin(logins) : a # c
      BY <1>2 DEF WithLogin, Registered
    <3>. QED
      BY <1>8, <3>1 DEF WithLogin
  <2>4. AloneRegisters'
    BY <1>1, <1>6, <2>3 DEF UserIds, AloneRegisters
  <2>. QED
    BY <2>1, <2>2, <2>4 DEF UserIds
<1>. QED
  BY <1>12, <1>13, <1>15, <1>16, <1>17, <1>18, <1>19

LEMMA InitInv ==
    ASSUME Init PROVE Inv
<1>. DEFINE number == CHOOSE n \in Numbers : TRUE
            row == NewAccount(Earlier, {EarlierLogin}, <<AdminName>>, AdminName, number)
<1>1. /\ account = [a \in Accounts |-> IF a = Earlier THEN row ELSE Unregistered]
      /\ versions = [a \in Accounts |-> IF a = Earlier THEN {account[a]} ELSE {}]
      /\ roleName = [r \in Roles |-> IF r = Earlier THEN EarlierRole ELSE ""]
      /\ pc = [c \in Calls |-> "idle"] /\ request = [c \in Calls |-> NoRequest]
      /\ entity = [c \in Calls |-> NoChange] /\ changes = [c \in Calls |-> NoChange]
      /\ faults = 0 /\ used = {} /\ overlap = {} /\ crowd = {}
  BY DEF Init
<1>2. /\ row.logins = {EarlierLogin} /\ row.userId = <<AdminName>> /\ row.password = Earlier
      /\ row.otp.by = Earlier /\ Coded(row.otp) /\ DOMAIN row = Columns
  BY AccountsAssumption DEF NewAccount, Columns, Code, Coded
<1>. HIDE DEF row
<1>3. /\ Earlier \in Accounts /\ Earlier \notin Calls /\ AdminName \in Names
      /\ EarlierRole \in RoleNames /\ 0 \in 0..MaxFaults
  BY AccountsAssumption DEF Accounts
<1>4. /\ account[Earlier] = row /\ versions[Earlier] = {row}
      /\ \A a \in Accounts \ {Earlier} : account[a] = Unregistered /\ versions[a] = {}
  BY <1>1, <1>3
<1>5. NoRequest.kind = "none" /\ NoRequest.account = Earlier
  BY DEF NoRequest
<1>6. \A c \in Calls : /\ pc[c] = "idle" /\ request[c] = NoRequest /\ c \in Accounts \ {Earlier}
                       /\ entity[c] = NoChange /\ changes[c] = NoChange
  BY <1>1, <1>3 DEF Accounts
<1>7. \A a \in Accounts : Registered(a) <=> a = Earlier
  BY <1>2, <1>4, EmptyRow DEF Registered
<1>8. TypeOK
  <2>1. \A a \in Accounts : DOMAIN account[a] = Columns
    BY <1>2, <1>4, EmptyRow
  <2>2. roleName \in [Roles -> RoleNames \cup {""}]
    BY <1>1, <1>3
  <2>. QED
    BY <1>1, <1>3, <1>5, <1>6, <2>1, <2>2, NoChangeEmpty DEF TypeOK
<1>9. Requests
  BY <1>1, <1>6, <1>7, NoChangeEmpty, OpenSteps
     DEF Requests, RequestOK, ObjectOK, SavesRow, OnRole
<1>10. Versions
  <2>1. PasswordFrom(Earlier, Earlier) /\ DrawnFor(Earlier, Earlier)
    BY DEF PasswordFrom, DrawnFor
  <2>. QED
    BY <1>1, <1>2, <1>4, <1>7, <2>1 DEF Versions
<1>11. Fresh
  BY <1>6 DEF Fresh, FreshOK, SavesRow, WorksOn, Saving
<1>12. Codes
  BY <1>1 DEF Codes
<1>13. Crowding
  <2>1. \A a, b \in Accounts : a # b => account[a].logins \cap account[b].logins = {}
    BY <1>4, EmptyRow
  <2>. QED
    BY <1>6, <2>1, OpenSteps DEF Crowding, DuplicatesCrowded
<1>14. UserIds
  <2>1. \A a \in Accounts : account[a].userId \in {<<>>} \cup {<<name>> : name \in Names}
    BY <1>2, <1>3, <1>4, EmptyRow
  <2>. QED
    BY <1>6, <2>1 DEF UserIds, AloneRegisters
<1>. QED
  BY <1>8, <1>9, <1>10, <1>11, <1>12, <1>13, <1>14 DEF Inv

-----------------------------------------------------------------------------
(* The theorems.                                                           *)

LEMMA CallStepInv ==
    ASSUME Inv, NEW c \in Calls, CallStep(c) PROVE Inv'
BY GenerateIdInv, InsertInv, CommitAccountInv, FindRoleInv, SaveRoleInv, CommitRoleInv,
   AssignSeededInv, ReloadInv, UpdateInv, CommitInv, ResetPasswordInv DEF CallStep

LEMMA NextInv ==
    ASSUME Inv, [Next]_vars PROVE Inv'
<1>1. CASE UNCHANGED vars
  BY <1>1, StutterInv
<1>2. CASE Crash
  BY <1>2, CrashInv
<1>3. ASSUME NEW c \in Calls,
             \/ \E logins \in (SUBSET Logins) \ {{}}, name \in Names :
                    Register(c, "register", logins, name)
             \/ Register(c, "seed", {AdminLogin}, AdminName)
      PROVE  Inv'
  <2>1. {AdminLogin} \in (SUBSET Logins) \ {{}} /\ AdminName \in Names
    BY AccountsAssumption
  <2>. QED
    BY <1>3, <2>1, RegisterInv
<1>4. ASSUME NEW c \in Calls,
             \E name \in RoleNames : \/ AskRole(c, "createRole", NoCall, name)
                                     \/ \E r \in Roles : AskRole(c, "updateRole", r, name)
      PROVE  Inv'
  BY <1>4, AskRoleInv
<1>5. ASSUME NEW c \in Calls, NEW a \in Accounts,
             \/ RequestCode(c, a)
             \/ \E name \in Names : Rename(c, a, name)
             \/ UpdateProfile(c, a)
             \/ \E r \in Roles : AssignRole(c, a, r)
             \/ \E number \in Given : FindForReset(c, a, number) \/ RefuseReset(c, a, number)
      PROVE  Inv'
  BY <1>5, LoadActionsInv, FindForResetInv, RefuseResetInv
<1>6. ASSUME NEW c \in Calls, Verify(c) \/ CallStep(c) \/ DatabaseError(c)
      PROVE  Inv'
  BY <1>6, VerifyInv, CallStepInv, DatabaseErrorInv
<1>. QED
  BY <1>1, <1>2, <1>3, <1>4, <1>5, <1>6 DEF Next

\* What a request has read and what accounts hold fit together in every state.
THEOREM AccountInvariant == Spec => []Inv
<1>1. Init => Inv
  BY InitInv
<1>2. Inv /\ [Next]_vars => Inv'
  BY NextInv
<1>. QED
  BY <1>1, <1>2, PTL DEF Spec

\* Rows keep their columns, objects and SET clauses name some of them.
THEOREM TypeCorrect == Spec => []TypeOK
<1>1. Inv => TypeOK
  BY DEF Inv
<1>. QED
  BY <1>1, AccountInvariant, PTL

\* Two accounts share an e-mail or phone number only when their registrations ran at once.
THEOREM SharedLoginsCrowded == Spec => []DuplicatesCrowded
<1>1. Inv => DuplicatesCrowded
  BY DEF Inv, Crowding
<1>. QED
  BY <1>1, AccountInvariant, PTL

\* A registration that ran alone and met no fault is refused only for its e-mail or phone number.
THEOREM RefusedForLogins == Spec => []AloneRegisters
<1>1. Inv => AloneRegisters
  BY DEF Inv, UserIds
<1>. QED
  BY <1>1, AccountInvariant, PTL

\* The password of an account is its first one, or was set by a reset that was given a number
\* that was a code of this account.
THEOREM PasswordsHaveCodes == Spec => []PasswordsFromCodes
<1>1. Inv => PasswordsFromCodes
  <2>1. ASSUME Inv, NEW a \in Accounts, Registered(a)
        PROVE  \/ account[a].password = a
               \/ \E version \in versions[a] :
                    /\ version.otp # NoCode
                    /\ version.otp.number = request[account[a].password].number
    <3>1. PasswordFrom(account[a].password, a)
      BY <2>1 DEF Inv, Versions
    <3>. QED
      BY <3>1 DEF PasswordFrom
  <2>. QED
    BY <2>1 DEF PasswordsFromCodes
<1>. QED
  BY <1>1, AccountInvariant, PTL

-----------------------------------------------------------------------------
(* What a step may do to an account.                                       *)

ChangesAccount(c) == CommitAccount(c) \/ Commit(c) \/ ResetPassword(c)

LEMMA FewChangeAccounts ==
    ASSUME [Next]_vars
    PROVE  UNCHANGED <<account, versions>> \/ \E c \in Calls : ChangesAccount(c)
<1>1. CASE UNCHANGED vars
  BY <1>1 DEF vars, database, history
<1>2. CASE Crash
  BY <1>2 DEF Crash, database, history
<1>3. ASSUME NEW c \in Calls,
             \/ \E logins \in (SUBSET Logins) \ {{}}, name \in Names :
                    Register(c, "register", logins, name)
             \/ Register(c, "seed", {AdminLogin}, AdminName)
      PROVE  UNCHANGED <<account, versions>>
  BY <1>3 DEF Register, Fail, database
<1>4. ASSUME NEW c \in Calls,
             \E name \in RoleNames : \/ AskRole(c, "createRole", NoCall, name)
                                     \/ \E r \in Roles : AskRole(c, "updateRole", r, name)
      PROVE  UNCHANGED <<account, versions>>
  BY <1>4 DEF AskRole, database, history
<1>5. ASSUME NEW c \in Calls, NEW a \in Accounts,
             \/ RequestCode(c, a)
             \/ \E name \in Names : Rename(c, a, name)
             \/ UpdateProfile(c, a)
             \/ \E r \in Roles : AssignRole(c, a, r)
             \/ \E number \in Given : FindForReset(c, a, number) \/ RefuseReset(c, a, number)
      PROVE  UNCHANGED <<account, versions>>
  BY <1>5 DEF RequestCode, Rename, UpdateProfile, AssignRole, Load, FindForReset, ReadCode,
              RefuseReset, Fail, database
<1>6. ASSUME NEW c \in Calls, Verify(c) \/ CallStep(c) \/ DatabaseError(c)
      PROVE  UNCHANGED <<account, versions>> \/ ChangesAccount(c)
  BY <1>6 DEF Verify, CallStep, DatabaseError, GenerateId, Insert, FindRole, SaveRole, CommitRole,
              AssignSeeded, Reload, Update, SeedProvider, Fail, ChangesAccount, database, history
<1>. QED
  BY <1>1, <1>2, <1>3, <1>4, <1>5, <1>6 DEF Next

\* Whoever has answered a reset has run its UPDATE.
LEMMA ResetsAnswer ==
    ASSUME Inv, [Next]_vars, NEW c \in Calls, pc[c] = "hash", pc'[c] = "answered"
    PROVE  ResetPassword(c)
<1>. USE DEF Inv, TypeOK
<1>1. ~UNCHANGED vars
  BY DEF vars, memory
<1>2. ~Crash
  BY DEF Crash
<1>3. ASSUME NEW d \in Calls, Fail(d) PROVE FALSE
  BY <1>3 DEF Fail
<1>4. ASSUME NEW d \in Calls, NEW kind, NEW input, Ask(d, kind, input) PROVE d # c
  BY <1>4 DEF Ask
<1>6. ASSUME NEW d \in Calls,
             \/ \E logins \in (SUBSET Logins) \ {{}}, name \in Names :
                    Register(d, "register", logins, name)
             \/ Register(d, "seed", {AdminLogin}, AdminName)
      PROVE  FALSE
  <2>1. PICK kind, logins, name : Register(d, kind, logins, name)
    BY <1>6
  <2>2. d # c
    BY <2>1, <1>4 DEF Register
  <2>. QED
    BY <2>1, <2>2, <1>3 DEF Register
<1>7. ASSUME NEW d \in Calls,
             \E name \in RoleNames : \/ AskRole(d, "createRole", NoCall, name)
                                     \/ \E r \in Roles : AskRole(d, "updateRole", r, name)
      PROVE  FALSE
  BY <1>7 DEF AskRole
<1>8. ASSUME NEW d \in Calls, NEW a \in Accounts,
             \/ RequestCode(d, a)
             \/ \E name \in Names : Rename(d, a, name)
             \/ UpdateProfile(d, a)
             \/ \E r \in Roles : AssignRole(d, a, r)
             \/ \E number \in Given : FindForReset(d, a, number) \/ RefuseReset(d, a, number)
      PROVE  FALSE
  <2>1. \/ pc' = [pc EXCEPT ![d] = "reload"] \/ pc' = [pc EXCEPT ![d] = "hash"] \/ Fail(d)
    BY <1>8 DEF RequestCode, Rename, UpdateProfile, AssignRole, Load, FindForReset, ReadCode,
                RefuseReset
  <2>. QED
    BY <2>1, <1>3
<1>9. ASSUME NEW d \in Calls, Verify(d) \/ CallStep(d) \/ DatabaseError(d)
      PROVE  ResetPassword(c)
  <2>1. CASE Verify(d) \/ DatabaseError(d)
    BY <2>1, <1>3 DEF Verify, DatabaseError
  <2>2. CASE Insert(d) \/ FindRole(d) \/ SaveRole(d)
    BY <2>2, <1>3 DEF Insert, FindRole, SaveRole
  <2>3. CASE \/ GenerateId(d) \/ CommitAccount(d) \/ CommitRole(d) \/ AssignSeeded(d)
             \/ Reload(d) \/ Update(d) \/ Commit(d) \/ SeedProvider(d)
    <3>1. pc[d] # "hash" /\ \E to : pc' = [pc EXCEPT ![d] = to]
      BY <2>3 DEF GenerateId, CommitAccount, CommitRole, AssignSeeded, Reload, Update, Commit,
                  SeedProvider, Step
    <3>. QED
      BY <3>1
  <2>4. CASE ResetPassword(d)
    <3>1. pc' = [pc EXCEPT ![d] = "answered"] /\ pc[d] = "hash"
      BY <2>4 DEF ResetPassword, Step
    <3>2. d = c
      BY <3>1
    <3>. QED
      BY <2>4, <3>2
  <2>. QED
    BY <1>9, <2>1, <2>2, <2>3, <2>4 DEF CallStep
<1>. QED
  BY <1>1, <1>2, <1>6, <1>7, <1>8, <1>9 DEF Next

\* On an account no two requests have worked on at once, a password changes only by a reset
\* that was given the current code, and no code does it twice.
THEOREM CodesSetOnePassword == Spec => OneCodeOnePassword
<1>. DEFINE P(a) == Registered(a) /\ account'[a].password # account[a].password =>
            /\ \E c \in Calls : /\ pc[c] = "hash" /\ pc'[c] = "answered"
                                /\ request[c].number = account[a].otp.number
            /\ account[a].otp.by \notin used
<1>1. ASSUME Inv, [Next]_vars, NEW a \in Accounts, a \notin overlap', Registered(a),
             account'[a].password # account[a].password
      PROVE  /\ \E c \in Calls : /\ pc[c] = "hash" /\ pc'[c] = "answered"
                                 /\ request[c].number = account[a].otp.number
             /\ account[a].otp.by \notin used
  <2>1. PICK c \in Calls : ChangesAccount(c)
    BY <1>1, FewChangeAccounts
  <2>2. ASSUME CommitAccount(c) PROVE FALSE
    <3>1. ~Registered(c)
      BY <1>1, <2>2, InvFacts, OpenSteps DEF CommitAccount, Step, RequestOK
    <3>. QED
      BY <1>1, <2>2, <3>1 DEF CommitAccount, Inv, TypeOK
  <2>3. ASSUME Commit(c) PROVE FALSE
    <3>1. /\ pc[c] = "commit" /\ UNCHANGED overlap
          /\ account' = [account EXCEPT ![AccountOf(c)] = Saved(c)]
      BY <2>3 DEF Commit, Step, AccountOf
    <3>2. a = AccountOf(c) /\ account'[a] = Saved(c)
      BY <1>1, <3>1 DEF Inv, TypeOK
    <3>3. "password" \in Columns \ Own(c)
      BY DEF Columns, Own, Duty
    <3>4. Saved(c).password = account[a].password
      BY <1>1, <3>1, <3>2, <3>3, SavedRow
    <3>. QED
      BY <1>1, <3>2, <3>4
  <2>4. ASSUME ResetPassword(c)
        PROVE  /\ pc[c] = "hash" /\ pc'[c] = "answered"
               /\ request[c].number = account[a].otp.number
               /\ account[a].otp.by \notin used
    <3>1. PICK rows : rows = Matching(entity[c].otp)
      OBVIOUS
    <3>2. /\ pc[c] = "hash" /\ pc' = [pc EXCEPT ![c] = "answered"]
          /\ rows = {b \in Accounts : Registered(b) /\ HasCode(b, request[c].number)}
          /\ \A b \in Accounts \ rows : account'[b] = account[b]
          /\ overlap \subseteq overlap'
      BY <1>1, <2>4, <3>1, ResetStep DEF Saves
    <3>3. pc'[c] = "answered"
      BY <1>1, <3>2 DEF Inv, TypeOK
    <3>4. a \in rows
      BY <1>1, <3>2
    <3>5. account[a].otp.by \notin used
      BY <1>1, <3>2 DEF Inv, Codes
    <3>. QED
      BY <3>2, <3>3, <3>4, <3>5 DEF HasCode
  <2>. QED
    BY <2>1, <2>2, <2>3, <2>4 DEF ChangesAccount
<1>2. Inv /\ [Next]_vars => \A a \in Accounts \ overlap' : P(a)
  BY <1>1
<1>. QED
  BY <1>2, AccountInvariant, PTL DEF Spec, OneCodeOnePassword

\* "Password reset done" is answered to a request with null, and then no account was changed;
\* for an account that no other request has worked on, any other request is answered so only
\* when its password was set and the code is spent.
THEOREM AnsweredResetIsDone == Spec => ResetIsDone
<1>. DEFINE P(c) ==
        IF request[c].number = NoCode.number THEN \A a \in Accounts : account'[a] = account[a]
        ELSE \/ request[c].account \in overlap'
             \/ LET row == account'[request[c].account]
                IN  row.password = c /\ row.otp = NoCode
<1>1. ASSUME Inv, [Next]_vars, NEW c \in Calls,
             request[c].kind = "reset", pc[c] = "hash", pc'[c] = "answered"
      PROVE  P(c)
  <2>1. ResetPassword(c)
    BY <1>1, ResetsAnswer
  <2>2. PICK rows : rows = Matching(entity[c].otp)
    OBVIOUS
  <2>3. PICK a : a = request[c].account
    OBVIOUS
  <2>4. /\ \A b \in rows : b \in Accounts => account'[b] = WithPassword(account[b], c)
        /\ \A b \in Accounts \ rows : account'[b] = account[b]
        /\ rows = {b \in Accounts : Registered(b) /\ HasCode(b, request[c].number)}
        /\ overlap \subseteq overlap'
    BY <1>1, <2>1, <2>2, ResetStep DEF Saves
  <2>5. /\ a \in Accounts /\ FreshOK(c) /\ RequestOK(c) /\ DOMAIN account[a] = Columns
    BY <1>1, <2>3, InvFacts DEF CallTyped, Inv, TypeOK
  <2>6. ASSUME request[c].number = NoCode.number
        PROVE  \A b \in Accounts : account'[b] = account[b]
    BY <2>4, <2>6 DEF HasCode
  <2>7. ASSUME request[c].number # NoCode.number, a \notin overlap'
        PROVE  account'[a].password = c /\ account'[a].otp = NoCode
    <3>1. entity[c].otp = account[a].otp /\ entity[c].otp # NoCode
      BY <1>1, <2>3, <2>4, <2>5, <2>7 DEF FreshOK, RequestOK, AccountOf
    <3>2. a \in rows
      BY <2>2, <2>5, <3>1 DEF Matching
    <3>. QED
      BY <2>4, <2>5, <3>2, ResetRow
  <2>. QED
    BY <2>3, <2>6, <2>7
<1>2. Inv /\ [Next]_vars =>
        \A c \in Calls :
            request[c].kind = "reset" /\ pc[c] = "hash" /\ pc'[c] = "answered" => P(c)
  BY <1>1
<1>. QED
  BY <1>2, AccountInvariant, PTL DEF Spec, ResetIsDone

-----------------------------------------------------------------------------
(* Every account implements StaleRow.                                      *)

LEMMA RowWritten ==
    ASSUME NEW a, NEW duty \in Duties,
           \E version \in versions[a] : \A k \in Columns \ duty :
                account'[a][k] \in {account[a][k], version[k]},
           versions'[a] = versions[a] \cup {account'[a]}
    PROVE  Row(a)!Next
<1>1. Row(a)!Recorded(a) /\ Row(a)!OthersKept(a)
  BY DEF Row!Recorded, Row!OthersKept
<1>2. Row(a)!Write(a, duty)
  BY <1>1 DEF Row!Write
<1>. QED
  BY <1>2 DEF Row!Next

LEMMA RowCreated ==
    ASSUME Inv, NEW c \in Calls, CommitAccount(c)
    PROVE  Row(c)!Next /\ \A a \in Accounts \ {c} : UNCHANGED <<account[a], versions[a]>>
<1>1. /\ pc[c] = "commitAccount"
      /\ account' = [account EXCEPT ![c] = entity[c]]
      /\ versions' = [versions EXCEPT ![c] = {entity[c]}]
  BY DEF CommitAccount, Step
<1>2. /\ DOMAIN account = Accounts /\ DOMAIN versions = Accounts /\ c \in Accounts
      /\ \A a \in Accounts : ~Registered(a) => versions[a] = {}
  BY DEF Inv, Versions, Accounts
<1>3. /\ ~Registered(c) /\ request[c].logins \in SUBSET Logins /\ request[c].name \in Names
  BY <1>1, InvFacts, OpenSteps DEF RequestOK
<1>4. PICK number \in Numbers, userId \in {<<request[c].name>>, <<request[c].name, c>>} :
        entity[c] = NewAccount(c, request[c].logins, userId, request[c].name, number)
  BY <1>1, InvFacts DEF ObjectOK
<1>5. userId \in (Names \X Calls) \cup {<<n>> : n \in Names}
  BY <1>3
<1>6. /\ account'[c] = entity[c] /\ versions'[c] = {entity[c]} /\ versions[c] = {}
      /\ \A a \in Accounts \ {c} : UNCHANGED <<account[a], versions[a]>>
  BY <1>1, <1>2, <1>3
<1>7. Row(c)!Recorded(c) /\ Row(c)!OthersKept(c)
  BY <1>6 DEF Row!Recorded, Row!OthersKept
<1>8. Row(c)!Create(c)
  BY <1>3, <1>4, <1>5, <1>6, <1>7 DEF Row!Create
<1>. QED
  BY <1>6, <1>8 DEF Row!Next

\* Every account that a step changes is created, or written by a handler that sets the columns
\* of others back to one committed version at most.
LEMMA RowSteps ==
    ASSUME Inv, [Next]_vars, NEW a \in Accounts
    PROVE  UNCHANGED <<account[a], versions[a]>> \/ Row(a)!Next
<1>1. CASE UNCHANGED <<account, versions>>
  BY <1>1
<1>2. ASSUME NEW c \in Calls, CommitAccount(c)
      PROVE  UNCHANGED <<account[a], versions[a]>> \/ Row(a)!Next
  BY <1>2, RowCreated
<1>3. ASSUME NEW c \in Calls, Commit(c)
      PROVE  UNCHANGED <<account[a], versions[a]>> \/ Row(a)!Next
  <2>1. /\ pc[c] = "commit" /\ account' = [account EXCEPT ![AccountOf(c)] = Saved(c)]
        /\ versions' = [versions EXCEPT ![AccountOf(c)] = @ \cup {Saved(c)}]
    BY <1>3 DEF Commit, Step, AccountOf
  <2>2. DOMAIN account = Accounts /\ DOMAIN versions = Accounts
    BY DEF Inv, Versions
  <2>3. CASE a # AccountOf(c)
    BY <2>1, <2>2, <2>3
  <2>4. CASE a = AccountOf(c)
    <3>1. PICK duty : duty = Own(c)
      OBVIOUS
    <3>2. duty \in Duties
      BY <3>1 DEF Own, Duty, Duties
    <3>3. account'[a] = Saved(c) /\ versions'[a] = versions[a] \cup {account'[a]}
      BY <2>1, <2>2, <2>4
    <3>4. \E version \in versions[a] : \A k \in Columns \ duty :
                account'[a][k] \in {account[a][k], version[k]}
      BY <2>1, <2>4, <3>1, <3>3, SavedRow
    <3>. QED
      BY <3>2, <3>3, <3>4, RowWritten
  <2>. QED
    BY <2>3, <2>4
<1>4. ASSUME NEW c \in Calls, ResetPassword(c)
      PROVE  UNCHANGED <<account[a], versions[a]>> \/ Row(a)!Next
  <2>1. PICK rows : rows = Matching(entity[c].otp)
    OBVIOUS
  <2>2. /\ \A b \in rows : b \in Accounts /\ Registered(b)
        /\ IF a \in rows THEN /\ account'[a] = WithPassword(account[a], c)
                              /\ versions'[a] = versions[a] \cup {account'[a]}
           ELSE account'[a] = account[a] /\ versions'[a] = versions[a]
    BY <1>4, <2>1, ResetStep
  <2>3. CASE a \notin rows
    BY <2>2, <2>3
  <2>4. CASE a \in rows
    <3>1. account[a] \in versions[a] /\ DOMAIN account[a] = Columns
      BY <2>2, <2>4 DEF Inv, Versions, TypeOK
    <3>2. \A k \in Columns \ {"password", "otp"} : account'[a][k] = account[a][k]
      BY <2>2, <2>4, <3>1, ResetRow
    <3>3. {"password", "otp"} \in Duties
      BY DEF Duties
    <3>. QED
      BY <2>2, <2>4, <3>1, <3>2, <3>3, RowWritten
  <2>. QED
    BY <2>3, <2>4
<1>. QED
  BY <1>1, <1>2, <1>3, <1>4, FewChangeAccounts DEF ChangesAccount

\* A save that is stale sets an account back, in columns that are not its own, to ONE version
\* that was committed before, and what it writes back was never mixed from several: every
\* account implements StaleRow.
THEOREM AccountsImplementRows == Spec => ImplementsRow
<1>1. Init => \A a \in Accounts : Row(a)!Init
  BY AccountsAssumption DEF Init, Row!Init, Accounts
<1>2. Inv /\ [Next]_vars =>
        \A a \in Accounts : UNCHANGED <<account[a], versions[a]>> \/ Row(a)!Next
  BY RowSteps
<1>. QED
  BY <1>1, <1>2, AccountInvariant, PTL DEF Spec, ImplementsRow
=============================================================================
