----------------------------- MODULE Catalogue ------------------------------
(***************************************************************************)
(* Services with their tags and clusters and the profiles of providers     *)
(* (AidServiceService), clusters and their members (UserService).          *)
(*                                                                         *)
(* Two patterns run through these handlers.  A name is looked for and then *)
(* inserted, with no constraint in the database behind it.  And a set of   *)
(* link rows - the tags or clusters of a service, the memberships of a     *)
(* user - is replaced by removing the rows that were read and adding new   *)
(* ones.  Saving a service with its links loaded also detaches every link  *)
(* that was stored since, because the object does not list it.             *)
(***************************************************************************)
EXTENDS Naturals, Persist

CONSTANTS
    Calls,          \* requests; a call is also the provider profile it creates
    Words,          \* names that requests give
    Seeds,          \* the names in datasets/seed.ts
    Tags,           \* entries of a list of tags: words as requests write them
    TagName,        \* TagName[t]: the name of entry t, which is the word in lower case
    Lists,          \* the lists of tags, each the set of its entries
    Services,       \* services that exist
    Clusters,       \* clusters that exist
    Users,
    NoProvider,     \* aidServiceProfile IS NULL
    Kinds,          \* the endpoints that are called
    MaxFaults       \* bound on database errors

Endpoints == {"createService", "updateService", "deleteService", "seed", "createCluster",
              "updateCluster", "join", "override", "leave", "apply", "rate"}

ASSUME CatalogueAssumption ==
    /\ Seeds \subseteq Words
    /\ DOMAIN TagName = Tags
    /\ Lists \subseteq SUBSET Tags
    /\ NoProvider \notin Calls
    /\ Kinds \subseteq Endpoints
    /\ MaxFaults \in Nat

VARIABLES
    row,        \* row[x]: the committed row of a service, cluster or provider profile
    links,      \* links[o]: the tags or clusters of service o, the memberships of user o
    tag,        \* the rows of table tag: the call that stored it, the entry it stands for
    providerOf, \* providerOf[u]: the provider profile of user u
    pc,         \* pc[c]: what call c does next
    request,    \* request[c]: the endpoint, the row it is about, the user, what it links
    entity,     \* entity[c]: the object it saves
    loaded,     \* loaded[c]: the links that came with the object
    changes,    \* changes[c]: SET clause of its UPDATE
    detached,   \* detached[c]: links its save takes from their service
    newTags,    \* newTags[c]: the entries of its list that it did not find
    faults,     \* database errors so far
    \* History, read by no action.
    overlap,    \* rows and owners of links that two calls worked on at once
    crowd       \* pairs of calls that ran at once

database == <<row, links, tag, providerOf>>
memory == <<pc, request, entity, loaded, changes, detached, newTags>>
history == <<overlap, crowd>>
vars == <<database, memory, faults, history>>

-----------------------------------------------------------------------------
\* Requests put names in lower case, the seed does not.
Lower(word) == <<word, "lower">>
Capital(word) == <<word, "capital">>

Things == (Calls \X Words) \cup Services \cup Clusters
Rows == Things \cup Calls
Owners == Things \cup Users

\* Rows of different tables are different things, and none is a request.
ASSUME KeysAssumption ==
    /\ Services \cap Clusters = {}
    /\ (Calls \X Words) \cap (Services \cup Clusters) = {}
    /\ Things \cap Users = {}
    /\ Calls \cap Owners = {}
    /\ \A c \in Calls : <<"seed", c>> \notin Rows \cup Users

Absent == [sort |-> "none"]
Named(sort, name) == [sort |-> sort, name |-> name, isDeleted |-> FALSE]
Provider(c, ratings) == [sort |-> "provider", contact |-> c, ratings |-> ratings]

Existing(sort) == {x \in Rows : row[x].sort = sort}
WithName(sort, name) == {x \in Existing(sort) : row[x].name = name}

\* The rows and owners call c works on.
Open == {"reload", "update", "findTags", "unlink", "commit"}
InFlight(c) == pc[c] \in Open
Object(c) == request[c].object
Topics(c) == {Object(c)} \cup (IF request[c].kind \in {"apply", "rate"}
                              THEN {<<"provider", request[c].user>>} ELSE {})

NoRequest == [kind |-> "none", object |-> <<>>, user |-> "none", add |-> {}]

Init ==
    /\ row = [x \in Rows |-> CASE x \in Services -> Named("service", Lower(x))
                               [] x \in Clusters -> Named("cluster", Lower(x))
                               [] OTHER -> Absent]
    /\ links = [o \in Owners |-> {}]
    /\ tag = {}
    /\ providerOf = [u \in Users |-> NoProvider]
    /\ pc = [c \in Calls |-> "idle"]
    /\ request = [c \in Calls |-> NoRequest]
    /\ entity = [c \in Calls |-> NoChange]
    /\ loaded = [c \in Calls |-> {}]
    /\ changes = [c \in Calls |-> NoChange]
    /\ detached = [c \in Calls |-> {}]
    /\ newTags = [c \in Calls |-> {}]
    /\ faults = 0
    /\ overlap = {}
    /\ crowd = {}

-----------------------------------------------------------------------------
\* Call c, about the given row and user, goes on at step next with the object and the links
\* it has loaded; or it throws.
Ask(c, kind, object, user, add, next, read, rows) ==
    /\ pc[c] = "idle"
    /\ kind \in Kinds
    /\ request' = [request EXCEPT ![c] =
            [kind |-> kind, object |-> object, user |-> user, add |-> add]]
    /\ pc' = [pc EXCEPT ![c] = next]
    /\ entity' = [entity EXCEPT ![c] = read]
    /\ loaded' = [loaded EXCEPT ![c] = rows]
    /\ LET others == {d \in Calls \ {c} : InFlight(d)}
       IN  /\ crowd' = crowd \cup {{c, d} : d \in others}
           /\ overlap' = overlap \cup UNION {Topics(d) \cap Topics(c)' : d \in others}
    /\ UNCHANGED <<database, changes, detached, newTags, faults>>

Throw(c, kind) == Ask(c, kind, <<>>, "none", {}, "failed", NoChange, {})

CreateServiceUnchecked(c, word, tags) ==        \* mutant: lines 153-157 dropped
    Ask(c, "createService", <<c, word>>, "none", tags,
        IF tags = {} THEN "commit" ELSE "findTags", Named("service", Lower(word)), {})

CreateService(c, word, tags) ==
    \/ /\ WithName("service", Lower(word)) = {}
       /\ Ask(c, "createService", <<c, word>>, "none", tags,
              IF tags = {} THEN "commit" ELSE "findTags", Named("service", Lower(word)), {})
    \/ /\ WithName("service", Lower(word)) # {}
       /\ Throw(c, "createService")

\* The service is loaded with its links, and without a change of name the save may have
\* nothing to update.
UpdateService(c, s, word, tags) ==
    LET others == WithName("service", Lower(word)) \ {s}
    IN  /\ row[s].sort = "service"
        /\ \/ /\ others = {}
              /\ Ask(c, "updateService", s, "none", tags, "reload",
                     [row[s] EXCEPT !.name = Lower(word)], links[s])
           \/ /\ others # {}
              /\ Throw(c, "updateService")

DeleteService(c, s) ==
    /\ row[s].sort = "service"
    /\ Ask(c, "deleteService", s, "none", {}, "reload", [row[s] EXCEPT !.isDeleted = TRUE], {})

\* The services are looked for in lower case and compared with the names as they are in the
\* data set: none is ever recognised.
Unseeded ==
    LET found == {s \in Existing("service") : \E word \in Seeds : row[s].name = Lower(word)}
    IN  {word \in Seeds : \A s \in found : row[s].name # Capital(word)}

SeedServices(c) ==
    Ask(c, "seed", <<"seed", c>>, "none", Unseeded, "commit", NoChange, {})

CreateCluster(c, word) ==
    \/ /\ WithName("cluster", Lower(word)) = {}
       /\ Ask(c, "createCluster", <<c, word>>, "none", {}, "commit",
              Named("cluster", Lower(word)), {})
    \/ /\ WithName("cluster", Lower(word)) # {}
       /\ Throw(c, "createCluster")

UpdateCluster(c, k, word) ==
    LET others == WithName("cluster", Lower(word)) \ {k}
    IN  /\ row[k].sort = "cluster"
        /\ \/ /\ others = {}
              /\ Ask(c, "updateCluster", k, "none", {}, "reload",
                     [row[k] EXCEPT !.name = Lower(word)], {})
           \/ /\ others # {}
              /\ Throw(c, "updateCluster")

-----------------------------------------------------------------------------
(* manageUserClusters, with action Add - or Add and override - or Remove.  *)

Linked(o) == {link[2] : link \in links[o]}

MissingAll(u, clusters) == clusters             \* mutant: the filter of lines 156-163 dropped
Missing(u, clusters) == clusters \ Linked(u)

JoinClusters(c, u, clusters) ==
    Ask(c, "join", u, u, Missing(u, clusters), "commit", NoChange, {})

OverrideClusters(c, u, clusters) ==
    Ask(c, "override", u, u, clusters, "unlink", NoChange, links[u])

\* The rows to remove are saved as they are.
LeaveClusters(c, u) ==
    \/ links[u] # {} /\ Ask(c, "leave", u, u, {}, "commit", NoChange, {})
    \/ links[u] = {} /\ Throw(c, "leave")

-----------------------------------------------------------------------------
(* Provider profiles.                                                      *)

AppliedAnew(c, p) == Provider(c, 0)             \* mutant: the stored profile is not spread
Applied(c, p) == Provider(c, row[p].ratings)

ApplyAgain(c, u) ==                             \* mutant: the look-up finds nothing
    Ask(c, "apply", c, u, {}, "commit", Provider(c, 0), {})

Apply(c, u) ==
    \/ /\ providerOf[u] # NoProvider
       /\ Ask(c, "apply", providerOf[u], u, {}, "reload", Applied(c, providerOf[u]), {})
    \/ /\ providerOf[u] = NoProvider
       /\ Ask(c, "apply", c, u, {}, "commit", Provider(c, 0), {})

\* A rating of the provider, see module Booking: it saves the whole profile as well.
Rate(c, u) ==
    /\ providerOf[u] # NoProvider
    /\ Ask(c, "rate", providerOf[u], u, {}, "reload",
           [row[providerOf[u]] EXCEPT !.ratings = @ + 1], {})

-----------------------------------------------------------------------------
(* Saving.                                                                 *)

Step(c, from, to) == pc[c] = from /\ pc' = [pc EXCEPT ![c] = to]

\* save reads the row again and, for a service that came with its links, these: a link that
\* the object does not list is to lose its service.
Reload(c) ==
    /\ Step(c, "reload", "update")
    /\ changes' = [changes EXCEPT ![c] = Changed(entity[c], row[Object(c)])]
    /\ detached' = [detached EXCEPT ![c] =
            IF request[c].kind = "updateService" THEN links[Object(c)] \ loaded[c] ELSE {}]
    /\ UNCHANGED <<database, request, entity, loaded, newTags, faults, history>>

Saved(c) == pc[c] \in {"findTags", "unlink", "commit"}
Unlinks(c) == request[c].kind = "override" \/ request[c].add # {}
LockedLinks(c) == (IF Saved(c) THEN detached[c] ELSE {})
                  \cup (IF pc[c] = "commit" /\ Unlinks(c) THEN loaded[c] ELSE {})
LocksRow(c, x) == Saved(c) /\ changes[c] # NoChange /\ Object(c) = x
FreeFor(c, set) == \A d \in Calls \ {c} : LockedLinks(d) \cap set = {}

Update(c) ==
    /\ Step(c, "update", IF request[c].add # {} THEN "findTags" ELSE "commit")
    /\ \A d \in Calls \ {c} : ~LocksRow(d, Object(c))
    /\ FreeFor(c, detached[c])
    /\ UNCHANGED <<database, request, entity, loaded, changes, detached, newTags, faults,
                   history>>

FindTagsOnly(c) ==                              \* mutant: line 76 dropped
    /\ Step(c, "findTags", "unlink")
    /\ UNCHANGED <<database, request, entity, loaded, changes, detached, newTags, faults,
                   history>>

\* Two entries of one name: a word given twice, or in small and in capital letters.
SameTag(t, other) == TagName[t] = TagName[other]

\* Every entry whose name is not found will be created, on its own account: two of a new
\* name become two rows.
FindTags(c) ==
    /\ Step(c, "findTags", "unlink")
    /\ newTags' = [newTags EXCEPT ![c] =
            {t \in request[c].add : \A r \in tag : ~SameTag(r[2], t)}]
    /\ UNCHANGED <<database, request, entity, loaded, changes, detached, faults, history>>

\* The links that came with the object are deleted; one that is gone already is no error.
Unlink(c) ==
    /\ Step(c, "unlink", "commit")
    /\ FreeFor(c, loaded[c])
    /\ UNCHANGED <<database, request, entity, loaded, changes, detached, newTags, faults,
                   history>>

Forget(c) ==
    /\ entity' = [entity EXCEPT ![c] = NoChange]
    /\ loaded' = [loaded EXCEPT ![c] = {}]
    /\ changes' = [changes EXCEPT ![c] = NoChange]
    /\ detached' = [detached EXCEPT ![c] = {}]
    /\ newTags' = [newTags EXCEPT ![c] = {}]

\* The rows with what call c has saved: all seeds, or one row, inserted or updated.
SavedRows(c) ==
    IF request[c].kind = "seed"
    THEN [x \in Rows |-> IF x \in {c} \X request[c].add
                         THEN Named("service", Capital(x[2])) ELSE row[x]]
    ELSE IF entity[c] = NoChange
    THEN row
    ELSE [row EXCEPT ![Object(c)] =
            IF @ = Absent THEN entity[c] ELSE Overlay(@, changes[c])]

Added(c) == {c} \X request[c].add

KeptWithAll(c) == links[Object(c)]              \* mutant: lines 77-82 dropped
Kept(c) == links[Object(c)] \ (detached[c] \cup IF Unlinks(c) THEN loaded[c] ELSE {})

Commit(c) ==
    /\ Step(c, "commit", "answered")
    /\ row' = SavedRows(c)
    /\ links' = IF Object(c) \in Owners
                THEN [links EXCEPT ![Object(c)] = Kept(c) \cup Added(c)] ELSE links
    /\ tag' = tag \cup ({c} \X newTags[c])
    /\ providerOf' = IF request[c].kind = "apply"
                     THEN [providerOf EXCEPT ![request[c].user] = Object(c)] ELSE providerOf
    /\ Forget(c)
    /\ UNCHANGED <<request, faults, history>>

DatabaseError(c) ==
    /\ InFlight(c)
    /\ faults < MaxFaults
    /\ faults' = faults + 1
    /\ pc' = [pc EXCEPT ![c] = "failed"]
    /\ Forget(c)
    /\ UNCHANGED <<database, request, history>>

-----------------------------------------------------------------------------
CallStep(c) == Reload(c) \/ Update(c) \/ FindTags(c) \/ Unlink(c) \/ Commit(c)

Next == \E c \in Calls :
    \/ \E word \in Words :
        \/ \E tags \in Lists :
            \/ CreateService(c, word, tags)
            \/ \E s \in Things : UpdateService(c, s, word, tags)
        \/ CreateCluster(c, word)
        \/ \E k \in Things : UpdateCluster(c, k, word)
    \/ \E s \in Things : DeleteService(c, s)
    \/ SeedServices(c)
    \/ \E u \in Users :
        \/ \E clusters \in SUBSET Existing("cluster") :
            JoinClusters(c, u, clusters) \/ OverrideClusters(c, u, clusters)
        \/ LeaveClusters(c, u)
        \/ Apply(c, u) \/ Rate(c, u)
    \/ CallStep(c)
    \/ DatabaseError(c)

Spec == Init /\ [][Next]_vars
-----------------------------------------------------------------------------
(* What is checked.                                                        *)

\* SET clauses name columns of the row they update, links lead from owners to what exists,
\* and a user's provider profile exists.
TypeOK ==
    /\ DOMAIN row = Rows
    /\ \A c \in Calls : /\ pc[c] \in {"idle", "answered", "failed"} \cup Open
                        /\ DOMAIN changes[c] \subseteq DOMAIN entity[c]
                        /\ newTags[c] \subseteq request[c].add
                        /\ changes[c] # NoChange =>
                            DOMAIN changes[c] \subseteq DOMAIN row[Object(c)]
    /\ DOMAIN links = Owners
    /\ \A u \in Users : /\ Linked(u) \subseteq Existing("cluster")
                        /\ providerOf[u] \in Existing("provider") \cup {NoProvider}
    /\ \A s \in Things : \A t \in Linked(s) : \E r \in tag : SameTag(r[2], t)
    /\ faults \in 0..MaxFaults

WritersOf(x) == {c \in Calls : pc[c] = "answered" /\ Object(c) = x}
Crowded(calls, others) == \E c \in calls, d \in others : {c, d} \in crowd

\* Two services or clusters have one name only if requests that wrote them ran at once;
\* services whose names are capital are the seed's, which repeats them.  Two tags have one
\* name only if the requests that stored them ran at once, or are one request, which needs
\* no other to store a new name as often as its list has it.
NamesOnce ==
    /\ \A x, y \in Things :
        /\ x # y /\ row[x] # Absent /\ row[y].sort = row[x].sort
        /\ row[x].name = row[y].name /\ row[x].name[2] = "lower"
        => Crowded(WritersOf(x), WritersOf(y))
    /\ \A r, s \in tag : SameTag(r[2], s[2]) => r[1] = s[1] \/ {r[1], s[1]} \in crowd
    /\ \A r \in tag : \A t \in request[r[1]].add : SameTag(r[2], t) => <<r[1], t>> \in tag

\* The links of a service that no two requests have worked on at once are the ones that one
\* request asked for, all of them: one for every entry of its list.
LinksOfOneRequest ==
    \A s \in Things \ overlap :
        links[s] # {} => \E c \in Calls : links[s] = {c} \X request[c].add

\* A user is in a cluster once, unless two requests changed the memberships at once.
MemberOnce ==
    \A u \in Users \ overlap : \A one, other \in links[u] : one[2] = other[2] => one = other

\* A provider profile belongs to the user who applied, unless two applications ran at once
\* (the profile that was replaced stays, and is nobody's).
ProviderOwned ==
    \A c \in Existing("provider") :
        \/ providerOf[request[c].user] = c
        \/ <<"provider", request[c].user>> \in overlap

\* On a provider profile no two requests have worked on at once only a rating changes the
\* ratings, although a new application saves them with the rest.
RatingsKept ==
    [][\A p \in Existing("provider") \ overlap' :
        row'[p].ratings # row[p].ratings =>
            \E c \in Calls : /\ request[c].kind = "rate" /\ Object(c) = p
                             /\ pc[c] = "commit" /\ pc'[c] = "answered"]_vars
=============================================================================
