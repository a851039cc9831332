------------------------------ MODULE Accounts ------------------------------
(***************************************************************************)
(* Accounts, one-time codes and roles: the handlers of AuthService, and    *)
(* updateUser of UserService, which saves the account as well.             *)
(*                                                                         *)
(* Nothing in the database keeps an e-mail or phone number unique: a       *)
(* registration looks for it and inserts an account some round trips       *)
(* later.  A request for a code, the assignment of a role and a change of  *)
(* name read the whole account and save it, password and code included;    *)
(* only resetPassword updates the columns it means to change, in every     *)
(* account whose code equals the one it has read.                          *)
(***************************************************************************)
EXTENDS Naturals, FiniteSets, Persist

CONSTANTS
    Calls,          \* requests; a call is also the account or the role it creates
    Earlier,        \* an account and a role that were there before
    NoCall,         \* NULL
    Logins,         \* e-mail addresses and phone numbers
    EarlierLogin, AdminLogin,
    Names,          \* first names
    AdminName,
    Numbers,        \* the numbers a one-time code can be
    RoleNames, EarlierRole, AdminRole,
    Kinds,          \* the endpoints that are called
    MaxFaults       \* bound on database errors and e-mails that fail

Endpoints == {"register", "seed", "otp", "reset", "verify", "assign", "rename", "profile",
              "createRole", "updateRole"}

ASSUME AccountsAssumption ==
    /\ Earlier \notin Calls /\ NoCall \notin Calls \cup {Earlier}
    /\ {EarlierLogin, AdminLogin} \subseteq Logins
    /\ AdminName \in Names
    /\ Numbers \subseteq Nat \ {0} /\ Numbers # {}
    /\ {EarlierRole, AdminRole} \subseteq RoleNames
    /\ Kinds \subseteq Endpoints
    /\ MaxFaults \in Nat

VARIABLES
    account,    \* account[a]: the committed row of account a, and the name in its profile
    roleName,   \* roleName[r]: the committed name of role r
    pc,         \* pc[c]: what call c does next
    request,    \* request[c]: the endpoint and its input
    entity,     \* entity[c]: the account object call c saves
    changes,    \* changes[c]: SET clause of its UPDATE
    faults,     \* database errors and failed e-mails so far
    \* History, read by no action.
    versions,   \* versions[a]: every committed version of account a
    used,       \* codes that have set a password
    overlap,    \* accounts two requests worked on at once
    crowd       \* pairs of registrations that ran at once

database == <<account, roleName>>
memory == <<pc, request, entity, changes>>
history == <<versions, used, overlap, crowd>>
vars == <<database, memory, faults, history>>

-----------------------------------------------------------------------------
Accounts == Calls \cup {Earlier}
Roles == Calls \cup {Earlier}

\* A code: its number, and the call it was drawn by, which the code does not store.
NoCode == [number |-> 0, by |-> NoCall]
Code(number, c) == [number |-> number, by |-> c]

\* The columns that a handler can change.  A password is the call that set it.
Columns == {"logins", "userId", "password", "otp", "role", "name", "profileName"}

Unregistered ==
    [logins |-> {}, userId |-> <<>>, password |-> NoCall, otp |-> NoCode, role |-> NoCall,
     name |-> "", profileName |-> ""]

NewAccount(c, logins, userId, name, number) ==
    [logins |-> logins, userId |-> userId, password |-> c, otp |-> Code(number, c),
     role |-> NoCall, name |-> name, profileName |-> name]

Registered(a) == account[a].logins # {}
WithLogin(logins) == {a \in Accounts : account[a].logins \cap logins # {}}
NameTaken(name) == \E r \in Roles : roleName[r] = name

NoRequest == [kind |-> "none", account |-> Earlier, logins |-> {}, name |-> "",
              number |-> 0, role |-> NoCall]

Registering == {"generateId", "insert", "commitAccount"}
Saving == {"assign", "reload", "update", "commit"}
OnRole == {"saveRole", "commitRole"}
Open == Registering \cup Saving \cup OnRole \cup {"findRole", "hash", "provider"}
InFlight(c) == pc[c] \in Open
WorksOn(c, a) == pc[c] \in (Saving \ {"assign"}) \cup {"hash"} /\ request[c].account = a

Init ==
    /\ account = [a \in Accounts |->
            IF a = Earlier
            THEN NewAccount(Earlier, {EarlierLogin}, <<AdminName>>, AdminName,
                            CHOOSE n \in Numbers : TRUE)
            ELSE Unregistered]
    /\ roleName = [r \in Roles |-> IF r = Earlier THEN EarlierRole ELSE ""]
    /\ pc = [c \in Calls |-> "idle"]
    /\ request = [c \in Calls |-> NoRequest]
    /\ entity = [c \in Calls |-> NoChange]
    /\ changes = [c \in Calls |-> NoChange]
    /\ faults = 0
    /\ versions = [a \in Accounts |-> IF a = Earlier THEN {account[a]} ELSE {}]
    /\ used = {}
    /\ overlap = {}
    /\ crowd = {}

-----------------------------------------------------------------------------
Step(c, from, to) == pc[c] = from /\ pc' = [pc EXCEPT ![c] = to]

Ask(c, kind, input) ==
    /\ pc[c] = "idle"
    /\ kind \in Kinds
    /\ request' = [request EXCEPT ![c] = [input EXCEPT !.kind = kind]]

ForgetObject(c) ==                              \* mutant: the SET clause is kept
    /\ entity' = [entity EXCEPT ![c] = NoChange]
    /\ UNCHANGED changes

Forget(c) ==
    /\ entity' = [entity EXCEPT ![c] = NoChange]
    /\ changes' = [changes EXCEPT ![c] = NoChange]

Fail(c) ==
    /\ pc' = [pc EXCEPT ![c] = "failed"]
    /\ Forget(c)
    /\ UNCHANGED <<database, versions, used>>

\* Two requests work on account a from now on.
MeetsOn(c, a) == overlap' = IF \E d \in Calls \ {c} : WorksOn(d, a)
                            THEN overlap \cup {a} ELSE overlap

-----------------------------------------------------------------------------
(* createAccount.                                                          *)

RegisterUnchecked(c, kind, logins, name) ==     \* mutant: lines 60-65 dropped
    /\ Ask(c, kind, [NoRequest EXCEPT !.account = c, !.logins = logins, !.name = name])
    /\ crowd' = crowd \cup {{c, d} : d \in {d \in Calls \ {c} : pc[d] \in Registering}}
    /\ pc' = [pc EXCEPT ![c] = "generateId"]
    /\ UNCHANGED <<database, entity, changes, versions, used, faults, overlap>>

Register(c, kind, logins, name) ==
    /\ Ask(c, kind, [NoRequest EXCEPT !.account = c, !.logins = logins, !.name = name])
    /\ crowd' = crowd \cup {{c, d} : d \in {d \in Calls \ {c} : pc[d] \in Registering}}
    /\ \/ /\ WithLogin(logins) = {}
          /\ pc' = [pc EXCEPT ![c] = "generateId"]
          /\ UNCHANGED <<database, entity, changes, versions, used>>
       \/ /\ WithLogin(logins) # {}
          /\ Fail(c)
    /\ UNCHANGED <<faults, overlap>>

BaseId(name, c) == <<name>>                     \* mutant: the id that is taken is returned

\* The first name, or the first name and a random string when an account has that id.
UniqueId(name, c) ==
    IF \E a \in Accounts : account[a].userId = <<name>> THEN <<name, c>> ELSE <<name>>

GenerateId(c) ==
    /\ Step(c, "generateId", "insert")
    /\ \E number \in Numbers :
        entity' = [entity EXCEPT ![c] =
            NewAccount(c, request[c].logins, UniqueId(request[c].name, c), request[c].name,
                       number)]
    /\ UNCHANGED <<database, request, changes, faults, history>>

\* An insert waits for another that has the same user id, and then violates its index.
Insert(c) ==
    /\ pc[c] = "insert"
    /\ \A d \in Calls \ {c} :
        pc[d] = "commitAccount" => entity[d].userId # entity[c].userId
    /\ \/ /\ \A a \in Accounts : account[a].userId # entity[c].userId
          /\ pc' = [pc EXCEPT ![c] = "commitAccount"]
          /\ UNCHANGED <<database, entity, changes, versions, used>>
       \/ /\ \E a \in Accounts : account[a].userId = entity[c].userId
          /\ Fail(c)
    /\ UNCHANGED <<request, faults, overlap, crowd>>

\* The account, its profile and its wallet are stored together.
CommitAccount(c) ==
    /\ Step(c, "commitAccount", IF request[c].kind = "seed" THEN "findRole" ELSE "answered")
    /\ account' = [account EXCEPT ![c] = entity[c]]
    /\ versions' = [versions EXCEPT ![c] = {entity[c]}]
    /\ Forget(c)
    /\ UNCHANGED <<roleName, request, faults, used, overlap, crowd>>

-----------------------------------------------------------------------------
(* Roles.                                                                  *)

RoleOf(c) == IF request[c].kind = "updateRole" THEN request[c].role ELSE c

AskRole(c, kind, role, name) ==
    /\ Ask(c, kind, [NoRequest EXCEPT !.role = role, !.name = name])
    /\ pc' = [pc EXCEPT ![c] = "findRole"]
    /\ UNCHANGED <<database, entity, changes, faults, history>>

RoleWanted(c) == IF request[c].kind = "seed" THEN AdminRole ELSE request[c].name

\* createRole looks for the name, updateRole for the role.
FindRole(c) ==
    /\ pc[c] = "findRole"
    /\ LET found == IF request[c].kind = "updateRole" THEN roleName[RoleOf(c)] # ""
                    ELSE ~NameTaken(RoleWanted(c))
       IN  \/ /\ found
              /\ pc' = [pc EXCEPT ![c] = "saveRole"]
              /\ UNCHANGED <<database, entity, changes, versions, used>>
           \/ /\ ~found
              /\ Fail(c)
    /\ UNCHANGED <<request, faults, overlap, crowd>>

\* The name is UNIQUE, and two updates of one role wait for each other's row.
SaveRole(c) ==
    /\ pc[c] = "saveRole"
    /\ \A d \in Calls \ {c} : pc[d] = "commitRole" =>
            RoleWanted(d) # RoleWanted(c) /\ RoleOf(d) # RoleOf(c)
    /\ LET free == \A r \in Roles \ {RoleOf(c)} : roleName[r] # RoleWanted(c)
       IN  \/ /\ free
              /\ pc' = [pc EXCEPT ![c] = "commitRole"]
              /\ UNCHANGED <<database, entity, changes, versions, used>>
           \/ /\ ~free
              /\ Fail(c)
    /\ UNCHANGED <<request, faults, overlap, crowd>>

CommitRole(c) ==
    /\ Step(c, "commitRole", IF request[c].kind = "seed" THEN "assign" ELSE "answered")
    /\ roleName' = [roleName EXCEPT ![RoleOf(c)] = RoleWanted(c)]
    /\ UNCHANGED <<account, request, entity, changes, faults, history>>

-----------------------------------------------------------------------------
(* Requests that read the account, change it and save it.                  *)

\* resendOtp, requestResetPassword and updateUser load the profile with the account and
\* save it with it; assignRole loads the account alone.  The role is never loaded.
Loaded(a, relations) == [col \in (Columns \ {"role", "profileName"}) \cup relations |->
                            account[a][col]]

WithCode(c, a, number) ==
    [Loaded(a, {"profileName"}) EXCEPT !.otp = Code(number, c)]

WithNameUncoded(a, name) ==                     \* mutant: a rename takes the code away
    [Loaded(a, {"profileName"}) EXCEPT !.name = name, !.profileName = name, !.otp = NoCode]

WithName(a, name) ==
    [Loaded(a, {"profileName"}) EXCEPT !.name = name, !.profileName = name]

\* updateUser without a name saves the profile only.
ProfileOf(a) == [col \in {"profileName"} |-> account[a][col]]

WithRole(a, role) == [Loaded(a, {"role"}) EXCEPT !.role = role]

Load(c, kind, a, object) ==
    /\ Ask(c, kind, [NoRequest EXCEPT !.account = a])
    /\ Registered(a)
    /\ pc' = [pc EXCEPT ![c] = "reload"]
    /\ entity' = [entity EXCEPT ![c] = object]
    /\ MeetsOn(c, a)
    /\ UNCHANGED <<database, changes, faults, versions, used, crowd>>

RequestCode(c, a) == \E number \in Numbers : Load(c, "otp", a, WithCode(c, a, number))
Rename(c, a, name) == Load(c, "rename", a, WithName(a, name))
UpdateProfile(c, a) == Load(c, "profile", a, ProfileOf(a))
AssignRole(c, a, r) == roleName[r] # "" /\ Load(c, "assign", a, WithRole(a, r))

\* The seed assigns its role to the account it has created.
AssignSeeded(c) ==
    /\ Step(c, "assign", "reload")
    /\ entity' = [entity EXCEPT ![c] = WithRole(c, c)]
    /\ MeetsOn(c, c)
    /\ UNCHANGED <<database, request, changes, faults, versions, used, crowd>>

Reload(c) ==
    /\ Step(c, "reload", "update")
    /\ changes' = [changes EXCEPT ![c] = Changed(entity[c], account[request[c].account])]
    /\ UNCHANGED <<database, request, entity, faults, history>>

Locks(c, a) == pc[c] = "commit" /\ changes[c] # NoChange /\ request[c].account = a

Update(c) ==
    /\ Step(c, "update", "commit")
    /\ \A d \in Calls \ {c} : ~Locks(d, request[c].account)
    /\ UNCHANGED <<database, request, entity, changes, faults, history>>

SavedHashing(c) ==                              \* mutant: the hook is @BeforeUpdate as well
    [Overlay(account[request[c].account], changes[c]) EXCEPT !.password = c]

Saved(c) == Overlay(account[request[c].account], changes[c])

Commit(c) ==
    /\ Step(c, "commit", IF request[c].kind = "seed" THEN "provider" ELSE "answered")
    /\ account' = [account EXCEPT ![request[c].account] = Saved(c)]
    /\ versions' = [versions EXCEPT ![request[c].account] = @ \cup {Saved(c)}]
    /\ Forget(c)
    /\ UNCHANGED <<roleName, request, faults, used, overlap, crowd>>

\* createOrUpdateAidServiceProfile for the administrator commits on its own.
SeedProvider(c) ==
    /\ Step(c, "provider", "answered")
    /\ UNCHANGED <<database, request, entity, changes, faults, history>>

-----------------------------------------------------------------------------
(* resetPassword.                                                          *)

AskReset(c, a, number) ==
    /\ Ask(c, "reset", [NoRequest EXCEPT !.account = a, !.number = number])
    /\ Registered(a)

\* The code goes into the WHERE clause once the password is hashed.  The input has a number
\* or null, which equals the column of an account that has no code; the time of the last
\* code is kept when a code is cleared, so the test of the ten minutes can be passed too.
Given == Numbers \cup {NoCode.number}

ReadCode(c, a) ==
    /\ pc' = [pc EXCEPT ![c] = "hash"]
    /\ entity' = [entity EXCEPT ![c] = [otp |-> account[a].otp]]
    /\ MeetsOn(c, a)
    /\ UNCHANGED <<database, changes, faults, versions, used, crowd>>

FindForResetUnchecked(c, a, number) ==          \* mutant: line 320 dropped
    /\ AskReset(c, a, number)
    /\ ReadCode(c, a)

FindForReset(c, a, number) ==
    /\ AskReset(c, a, number)
    /\ account[a].otp.number = number
    /\ ReadCode(c, a)

\* Another number, or a code older than ten minutes.
RefuseReset(c, a, number) ==
    /\ AskReset(c, a, number)
    /\ Fail(c)
    /\ UNCHANGED <<faults, overlap, crowd>>

\* otp = NULL is true of no row.
Matching(code) == {a \in Accounts : code # NoCode /\ account[a].otp.number = code.number}

WithPasswordOnly(row, c) == [row EXCEPT !.password = c]     \* mutant: the code is not cleared
WithPassword(row, c) == [row EXCEPT !.password = c, !.otp = NoCode]

\* UPDATE ... WHERE otp = the number that was read, a statement of its own.  Whether it has
\* found a row is not looked at.
ResetPassword(c) ==
    LET rows == Matching(entity[c].otp)
    IN  /\ Step(c, "hash", "answered")
        /\ \A a \in rows, d \in Calls \ {c} : ~Locks(d, a)
        /\ account' = [a \in Accounts |->
                IF a \in rows THEN WithPassword(account[a], c) ELSE account[a]]
        /\ versions' = [a \in Accounts |->
                IF a \in rows THEN versions[a] \cup {account'[a]} ELSE versions[a]]
        /\ used' = used \cup {account[a].otp.by : a \in rows}
        /\ overlap' = overlap \cup {a \in rows : \E d \in Calls \ {c} : WorksOn(d, a)}
        /\ Forget(c)
        /\ UNCHANGED <<roleName, request, faults, crowd>>

-----------------------------------------------------------------------------
\* verifyAccount asks for an account whose e-mail and phone number are one string, and
\* refuses one that is verified, as all are.
Verify(c) ==
    /\ Ask(c, "verify", NoRequest)
    /\ Fail(c)
    /\ UNCHANGED <<faults, overlap, crowd>>

\* The catch block rolls back the transaction of the statement that failed; what a seed has
\* committed before stays.
DatabaseError(c) ==
    /\ InFlight(c)
    /\ faults < MaxFaults
    /\ faults' = faults + 1
    /\ Fail(c)
    /\ UNCHANGED <<request, overlap, crowd>>

\* The e-mail that tells a code or a reset is neither awaited nor caught: when it fails
\* the process ends, and every open transaction is rolled back.
Crash ==
    /\ \E c \in Calls : pc[c] = "answered" /\ request[c].kind \in {"otp", "reset"}
    /\ faults < MaxFaults
    /\ faults' = faults + 1
    /\ pc' = [c \in Calls |-> IF InFlight(c) THEN "lost" ELSE pc[c]]
    /\ entity' = [c \in Calls |-> NoChange]
    /\ changes' = [c \in Calls |-> NoChange]
    /\ UNCHANGED <<database, request, history>>

-----------------------------------------------------------------------------
CallStep(c) == \/ GenerateId(c) \/ Insert(c) \/ CommitAccount(c)
               \/ FindRole(c) \/ SaveRole(c) \/ CommitRole(c)
               \/ AssignSeeded(c) \/ Reload(c) \/ Update(c) \/ Commit(c) \/ SeedProvider(c)
               \/ ResetPassword(c)

Next ==
    \/ \E c \in Calls :
        \/ \E logins \in (SUBSET Logins) \ {{}}, name \in Names :
            Register(c, "register", logins, name)
        \/ Register(c, "seed", {AdminLogin}, AdminName)
        \/ \E name \in RoleNames : \/ AskRole(c, "createRole", NoCall, name)
                                   \/ \E r \in Roles : AskRole(c, "updateRole", r, name)
        \/ \E a \in Accounts :
            \/ RequestCode(c, a)
            \/ \E name \in Names : Rename(c, a, name)
            \/ UpdateProfile(c, a)
            \/ \E r \in Roles : AssignRole(c, a, r)
            \/ \E number \in Given : FindForReset(c, a, number) \/ RefuseReset(c, a, number)
        \/ Verify(c)
        \/ CallStep(c) \/ DatabaseError(c)
    \/ Crash

Spec == Init /\ [][Next]_vars

-----------------------------------------------------------------------------
(* What is checked.                                                        *)

\* Rows keep their columns, objects and SET clauses name some of them.
TypeOK ==
    /\ DOMAIN account = Accounts
    /\ \A a \in Accounts : DOMAIN account[a] = Columns
    /\ roleName \in [Roles -> RoleNames \cup {""}]
    /\ pc \in [Calls -> {"idle", "answered", "failed", "lost"} \cup Open]
    /\ \A c \in Calls : /\ request[c].kind \in Kinds \cup {"none"}
                        /\ request[c].account \in Accounts
                        /\ DOMAIN entity[c] \subseteq Columns
                        /\ DOMAIN changes[c] \subseteq DOMAIN entity[c]
    /\ faults \in 0..MaxFaults
    /\ overlap \subseteq Accounts /\ crowd \subseteq SUBSET Calls

\* Two accounts share an e-mail or phone number only when their registrations ran at once:
\* nothing but the look-up at the start of a registration keeps them apart.
DuplicatesCrowded ==
    \A a, b \in Accounts :
        a # b /\ account[a].logins \cap account[b].logins # {} => {a, b} \in crowd

\* A registration that ran alone and met no fault is refused only if its e-mail or phone
\* number is taken: a first name that others have is no obstacle.
AloneRegisters ==
    \A c \in Calls :
        /\ request[c].kind = "register" /\ pc[c] = "failed" /\ faults = 0
        /\ \A pair \in crowd : c \notin pair
        => WithLogin(request[c].logins) # {}

\* Whatever overwrites whatever, the password of an account is the one it was registered
\* with or one that a reset has set with a number that was a code of this account.
PasswordsFromCodes ==
    \A a \in Accounts : Registered(a) =>
        \/ account[a].password = a
        \/ \E version \in versions[a] :
            /\ version.otp # NoCode
            /\ version.otp.number = request[account[a].password].number

\* On an account no two requests have worked on at once, a password changes only by a
\* reset that was given the current code, and no code does it twice, although every
\* save carries the password and the code.
OneCodeOnePassword ==
    [][\A a \in Accounts \ overlap' :
        Registered(a) /\ account'[a].password # account[a].password =>
            /\ \E c \in Calls : /\ pc[c] = "hash" /\ pc'[c] = "answered"
                                /\ request[c].number = account[a].otp.number
            /\ account[a].otp.by \notin used]_vars

\* What "Password reset done" is worth.  A reset with null is answered so and changes no
\* account, with no other request about; any other, of an account that no other request has
\* worked on, is answered so only when its password was set and the code is spent.
ResetIsDone ==
    [][\A c \in Calls :
        request[c].kind = "reset" /\ pc[c] = "hash" /\ pc'[c] = "answered" =>
            IF request[c].number = NoCode.number THEN \A a \in Accounts : account'[a] = account[a]
            ELSE \/ request[c].account \in overlap'
                 \/ LET row == account'[request[c].account]
                    IN  row.password = c /\ row.otp = NoCode]_vars

\* What each request is there to change.
Duties == {{"password", "otp"}, {"otp"}, {"role"}, {"name", "profileName"}, {}}

Row(a) == INSTANCE StaleRow
            WITH Rows <- {a}, Columns <- Columns, Duties <- Duties,
                 Created <- {NewAccount(a, logins, userId, name, number) :
                                logins \in SUBSET Logins, name \in Names,
                                userId \in (Names \X Calls) \cup {<<n>> : n \in Names},
                                number \in Numbers},
                 row <- [r \in {a} |-> account[a]], versions <- [r \in {a} |-> versions[a]]

\* A save that is stale sets an account back, in columns that are not its own, to ONE
\* version that was committed before: what it writes back was never mixed from several.
ImplementsRow ==
    /\ \A a \in Accounts : Row(a)!Init
    /\ [][\A a \in Accounts :
            UNCHANGED <<account[a], versions[a]>> \/ Row(a)!Next]_vars
=============================================================================
