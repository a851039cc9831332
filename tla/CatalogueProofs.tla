--------------------------- MODULE CatalogueProofs --------------------------
(***************************************************************************)
(* Theorems about Catalogue: for all sets of requests, words, tags,        *)
(* services, clusters and users, what a look-up that is followed by an     *)
(* insert guarantees, whose the links of a service or a user are, and what *)
(* an application for a provider profile can set back.                     *)
(***************************************************************************)
EXTENDS Catalogue, TLAPS

-----------------------------------------------------------------------------
(* The inductive invariant.                                                *)

\* A service or a cluster; a provider profile; no row.
IsNamed(r) ==
    /\ DOMAIN r = {"sort", "name", "isDeleted"}
    /\ r.sort \in {"service", "cluster"}
IsProvider(r) ==
    /\ DOMAIN r = {"sort", "contact", "ratings"}
    /\ r.sort = "provider"
IsEmpty(r) == r = Absent

\* Some row of table tag has the name of entry t.
HasTag(t) == \E r \in tag : SameTag(r[2], t)

\* What the rows are, and the links between them.
Stored ==
    /\ DOMAIN row = Rows /\ DOMAIN links = Owners /\ DOMAIN providerOf = Users
    /\ tag \subseteq Calls \X Tags
    /\ \A x \in Things : IsEmpty(row[x]) \/ IsNamed(row[x])
    /\ \A x \in Things : IsEmpty(row[x]) => links[x] = {}
    /\ \A p \in Calls : IsEmpty(row[p]) \/ IsProvider(row[p])
    /\ \A o \in Owners : \A link \in links[o] : link = <<link[1], link[2]>> /\ link[1] \in Calls
    /\ \A s \in Things : \A t \in Linked(s) : HasTag(t)
    /\ \A u \in Users : Linked(u) \subseteq Existing("cluster")

\* Call c owns nothing in the database, as long as it has not committed.
Unborn(c) ==
    /\ IsEmpty(row[c]) /\ \A word \in Words : IsEmpty(row[<<c, word>>])
    /\ \A r \in tag : r[1] # c
    /\ \A o \in Owners : \A link \in links[o] : link[1] # c

Begun ==
    \A c \in Calls : pc[c] \in {"idle"} \cup Open => Unborn(c)

\* The variables of the calls, and what a call that is not at work holds.
Rested ==
    /\ DOMAIN pc = Calls /\ DOMAIN request = Calls /\ DOMAIN entity = Calls
    /\ DOMAIN loaded = Calls /\ DOMAIN changes = Calls /\ DOMAIN detached = Calls
    /\ DOMAIN newTags = Calls
    /\ \A c \in Calls :
        /\ pc[c] \in {"idle", "answered", "failed"} \cup Open
        /\ ~InFlight(c) => /\ changes[c] = NoChange /\ detached[c] = {} /\ newTags[c] = {}
                           /\ entity[c] = NoChange
    /\ faults \in 0..MaxFaults

\* Two calls at work have met, and have marked what both are about.
Met ==
    \A c, d \in Calls : c # d /\ InFlight(c) /\ InFlight(d) =>
        {c, d} \in crowd /\ Topics(c) \cap Topics(d) \subseteq overlap

\* The services or clusters that request c creates.
Creates(c) == {c} \X Words

\* What each endpoint is about.
AboutThing == {"createService", "updateService", "deleteService", "createCluster", "updateCluster"}
AboutUser == {"join", "override", "leave"}
AboutProvider == {"apply", "rate"}

\* A call of each kind has an object of that kind, and a row to save it to or to insert.
KindSound(c) ==
    LET kind == request[c].kind
        o == Object(c)
    IN  /\ kind \in AboutThing =>
            /\ o \in Things /\ IsNamed(entity[c])
            /\ IsEmpty(row[o]) => pc[c] \notin {"reload", "update"} /\ o \in Creates(c)
            /\ IsNamed(row[o]) => row[o].sort = entity[c].sort
            /\ kind \in {"createService", "createCluster"} => o \in Creates(c)
        /\ kind \in AboutProvider =>
            /\ o \in Calls /\ IsProvider(entity[c])
            /\ request[c].user \in Users /\ request[o].user = request[c].user
            /\ IsEmpty(row[o]) => o = c /\ kind = "apply" /\ pc[c] = "commit"
        /\ kind \in AboutUser => o \in Users /\ request[c].user = o
        /\ kind = "seed" => o = <<"seed", c>> /\ request[c].add \subseteq Words
        /\ kind \in AboutUser \cup {"seed"} =>
            entity[c] = NoChange /\ pc[c] \in {"unlink", "commit"}
        /\ kind \in AboutThing \cup AboutUser \cup AboutProvider \cup {"seed"}

\* The SET clause names columns of the row, with the values of the object.
ClauseSound(c) ==
    /\ \A k \in DOMAIN changes[c] :
        k \in DOMAIN entity[c] /\ changes[c][k] = entity[c][k] /\ k # "sort"
    /\ changes[c] # NoChange =>
        request[c].kind \notin AboutUser \cup {"seed"} /\ ~IsEmpty(row[Object(c)])

\* The links a call removes and adds.
LinksSound(c) ==
    LET kind == request[c].kind
        o == Object(c)
    IN  /\ loaded[c] = {} \/ kind \in {"updateService", "override"}
        /\ detached[c] = {} \/ kind = "updateService"
        /\ kind \in {"deleteService", "createCluster", "updateCluster", "leave"} \cup AboutProvider
            => request[c].add = {}
        /\ kind \in {"createService", "updateService"} =>
            /\ request[c].add \subseteq Tags
            /\ pc[c] = "unlink" \/ (pc[c] = "commit" /\ request[c].add # {}) =>
                \A t \in request[c].add : HasTag(t) \/ t \in newTags[c]
            /\ o \notin overlap => detached[c] = {}
            /\ o \notin overlap /\ kind = "updateService" => loaded[c] = links[o]
        /\ kind \in AboutUser => request[c].add \subseteq Existing("cluster")
        /\ kind = "join" /\ o \notin overlap => request[c].add \cap Linked(o) = {}
        /\ kind = "override" /\ o \notin overlap => loaded[c] = links[o]
        /\ newTags[c] \subseteq request[c].add
        /\ newTags[c] # {} => kind \in {"createService", "updateService"}
        /\ \A t \in newTags[c], other \in request[c].add :
                SameTag(t, other) => other \in newTags[c]
        /\ \A r \in tag : \A t \in newTags[c] : SameTag(r[2], t) => {c, r[1]} \in crowd

\* Whoever has the name a call is about to store ran with it, or with one that wrote its row.
NameSound(c) ==
    request[c].kind \in AboutThing =>
        \A y \in Things \ {Object(c)} :
            /\ row[y].sort = entity[c].sort
            /\ row[y].name = entity[c].name
            /\ entity[c].name[2] = "lower"
            => Crowded(WritersOf(Object(c)) \cup {c}, WritersOf(y))

\* What an application or a rating knows of the profile.
OwnerSound(c) ==
    LET u == request[c].user
        o == Object(c)
    IN  /\ request[c].kind = "apply" /\ <<"provider", u>> \notin overlap =>
            o = IF providerOf[u] = NoProvider THEN c ELSE providerOf[u]
        /\ request[c].kind = "apply" /\ o \notin overlap /\ IsProvider(row[o]) =>
            entity[c].ratings = row[o].ratings

Sound(c) == KindSound(c) /\ ClauseSound(c) /\ LinksSound(c) /\ NameSound(c) /\ OwnerSound(c)
Working == \A c \in Calls : InFlight(c) => Sound(c)

\* Provider profiles, and the users that applied for them.
Owned ==
    /\ \A p \in Calls : IsProvider(row[p]) => pc[p] = "answered" /\ request[p].user \in Users
    /\ \A u \in Users : providerOf[u] # NoProvider =>
        /\ providerOf[u] \in Calls /\ IsProvider(row[providerOf[u]])
        /\ request[providerOf[u]].user = u

Facts == NamesOnce /\ LinksOfOneRequest /\ MemberOnce /\ ProviderOwned
Inv == Stored /\ Begun /\ Rested /\ Met /\ Working /\ Owned /\ Facts

-----------------------------------------------------------------------------
(* Keys, rows and the names of the rows.                                   *)

LEMMA KeyFacts ==
    /\ Things \subseteq Rows /\ Things \subseteq Owners /\ Users \subseteq Owners
    /\ Calls \subseteq Rows /\ Calls \cap Owners = {} /\ Things \cap Users = {}
    /\ \A c \in Calls, word \in Words : <<c, word>> \in Things
    /\ \A c \in Calls, word \in Words : <<c, word>> \notin Services \cup Clusters
    /\ \A c \in Calls : <<"seed", c>> \notin Owners \cup Calls
    /\ Services \subseteq Things /\ Clusters \subseteq Things /\ Services \cap Clusters = {}
    /\ Rows = Things \cup Calls /\ Owners = Things \cup Users
  BY KeysAssumption DEF Things, Rows, Owners

LEMMA RowKinds ==
    ASSUME NEW r
    PROVE  /\ IsEmpty(r) => ~IsNamed(r) /\ ~IsProvider(r) /\ r.sort = "none"
           /\ IsNamed(r) => ~IsProvider(r) /\ r # NoChange /\ r.sort # "none"
           /\ IsProvider(r) => r # NoChange /\ r.sort # "none"
  <1>1. DOMAIN Absent = {"sort"} /\ Absent.sort = "none"
    BY DEF Absent
  <1>2. DOMAIN NoChange = {}
    BY DEF NoChange
  <1> QED
    BY <1>1, <1>2 DEF IsEmpty, IsNamed, IsProvider

LEMMA NamedFacts ==
    ASSUME NEW sort \in {"service", "cluster"}, NEW name
    PROVE  /\ IsNamed(Named(sort, name))
           /\ Named(sort, name).sort = sort /\ Named(sort, name).name = name
  BY DEF Named, IsNamed

LEMMA ProviderFacts ==
    ASSUME NEW c, NEW ratings
    PROVE  IsProvider(Provider(c, ratings)) /\ Provider(c, ratings).ratings = ratings
  BY DEF Provider, IsProvider

\* What is left of a row, and of an object, once some columns are overwritten.
LEMMA OverlayFacts ==
    ASSUME NEW r, NEW set,
           \A k \in DOMAIN set : k # "sort"
    PROVE  /\ DOMAIN Overlay(r, set) = DOMAIN r
           /\ IsNamed(r) => IsNamed(Overlay(r, set))
           /\ IsProvider(r) => IsProvider(Overlay(r, set))
           /\ IsNamed(r) \/ IsProvider(r) => Overlay(r, set).sort = r.sort
           /\ IsNamed(r) => Overlay(r, set).name =
                                IF "name" \in DOMAIN set THEN set["name"] ELSE r.name
           /\ IsProvider(r) => Overlay(r, set).ratings =
                                IF "ratings" \in DOMAIN set THEN set["ratings"] ELSE r.ratings
  BY DEF Overlay, IsNamed, IsProvider

LEMMA ChangedFacts ==
    ASSUME NEW object, NEW r
    PROVE  \A k \in DOMAIN Changed(object, r) :
                k \in DOMAIN object /\ Changed(object, r)[k] = object[k] /\ object[k] # r[k]
  BY DEF Changed

LEMMA NoChangeFacts == DOMAIN NoChange = {}
  BY DEF NoChange

LEMMA NameFacts ==
    ASSUME NEW word
    PROVE  Lower(word)[2] = "lower" /\ Capital(word)[2] # "lower"
  BY DEF Lower, Capital

LEMMA CrowdedFacts ==
    ASSUME NEW one, NEW two
    PROVE  Crowded(one, two) <=> Crowded(two, one)
  <1>1. \A c, d : {c, d} = {d, c}
    OBVIOUS
  <1> QED
    BY <1>1 DEF Crowded

LEMMA MoreCrowded ==
    ASSUME NEW one, NEW two, NEW three, NEW four, one \subseteq three, two \subseteq four,
           Crowded(one, two), crowd \subseteq crowd'
    PROVE  \E c \in three, d \in four : {c, d} \in crowd'
  BY DEF Crowded

-----------------------------------------------------------------------------
(* The initial states.                                                     *)

LEMMA InitRows ==
    ASSUME Init
    PROVE  /\ DOMAIN row = Rows
           /\ \A x \in Services : row[x] = Named("service", Lower(x))
           /\ \A x \in Clusters : row[x] = Named("cluster", Lower(x))
           /\ \A x \in Rows \ (Services \cup Clusters) : IsEmpty(row[x])
  <1>1. row = [x \in Rows |-> CASE x \in Services -> Named("service", Lower(x))
                                [] x \in Clusters -> Named("cluster", Lower(x))
                                [] OTHER -> Absent]
    BY DEF Init
  <1>2. DOMAIN row = Rows
    BY <1>1
  <1>3. ASSUME NEW x \in Services PROVE row[x] = Named("service", Lower(x))
    <2>1. x \in Rows /\ x \notin Clusters
      BY KeyFacts
    <2> QED
      BY <1>1, <2>1, Zenon
  <1>4. ASSUME NEW x \in Clusters PROVE row[x] = Named("cluster", Lower(x))
    <2>1. x \in Rows /\ x \notin Services
      BY KeyFacts
    <2> QED
      BY <1>1, <2>1, Zenon
  <1>5. ASSUME NEW x \in Rows \ (Services \cup Clusters) PROVE row[x] = Absent
    BY <1>1, Zenon
  <1> QED
    BY <1>2, <1>3, <1>4, <1>5 DEF IsEmpty

LEMMA InitInv == Init => Inv
  <1> SUFFICES ASSUME Init PROVE Inv
    OBVIOUS
  <1>a. \A c \in Calls : pc[c] = "idle" /\ ~InFlight(c)
    BY DEF Init, InFlight, Open
  <1>b. \A o \in Owners : links[o] = {} /\ Linked(o) = {}
    BY DEF Init, Linked
  <1>c. tag = {} /\ \A u \in Users : providerOf[u] = NoProvider
    BY DEF Init
  <1>1. \A x \in Things : IsEmpty(row[x]) \/ IsNamed(row[x])
    <2>1. ASSUME NEW x \in Things PROVE IsEmpty(row[x]) \/ IsNamed(row[x])
      <3>1. x \in Services \/ x \in Clusters \/ x \in Rows \ (Services \cup Clusters)
        BY KeyFacts
      <3> QED
        BY <3>1, InitRows, NamedFacts
    <2> QED
      BY <2>1
  <1>2. \A p \in Calls : IsEmpty(row[p])
    <2>1. \A p \in Calls : p \in Rows \ (Services \cup Clusters)
      BY KeyFacts
    <2> QED
      BY <2>1, InitRows
  <1>3. Stored
    BY <1>b, <1>c, <1>1, <1>2, InitRows, KeyFacts DEF Stored, Init
  <1>4. Begun
    <2>1. \A c \in Calls, word \in Words : IsEmpty(row[<<c, word>>])
      <3>1. \A c \in Calls, word \in Words : <<c, word>> \in Rows \ (Services \cup Clusters)
        BY KeyFacts
      <3> QED
        BY <3>1, InitRows
    <2> QED
      BY <1>b, <1>c, <1>2, <2>1 DEF Begun, Unborn
  <1>5. Rested
    BY <1>a, CatalogueAssumption DEF Rested, Init, Open
  <1>6. Met /\ Working
    BY <1>a DEF Met, Working
  <1>7. Owned
    BY <1>2, <1>c, RowKinds DEF Owned
  <1>8. NamesOnce
    <2>1. ASSUME NEW x \in Things, NEW y \in Things, x # y, row[x] # Absent,
                 row[y].sort = row[x].sort, row[x].name = row[y].name
          PROVE  FALSE
      <3>1. IsNamed(row[x]) /\ IsNamed(row[y])
        BY <1>1, <2>1, RowKinds DEF IsEmpty
      <3>2. x \in Services \cup Clusters /\ y \in Services \cup Clusters
        BY <3>1, InitRows, KeyFacts, RowKinds
      <3>3. row[x].name = Lower(x) /\ row[y].name = Lower(y)
        BY <3>2, InitRows, NamedFacts
      <3>4. x = Lower(x)[1] /\ y = Lower(y)[1]
        BY DEF Lower
      <3> QED
        BY <2>1, <3>3, <3>4
    <2> QED
      BY <1>c, <2>1 DEF NamesOnce
  <1>9. LinksOfOneRequest /\ MemberOnce
    BY <1>b, KeyFacts DEF LinksOfOneRequest, MemberOnce
  <1>10. ProviderOwned
    <2>1. Existing("provider") = {}
      <3>1. ASSUME NEW x \in Rows, row[x].sort = "provider" PROVE FALSE
        BY <1>1, <1>2, <3>1, KeyFacts, RowKinds DEF IsNamed
      <3> QED
        BY <3>1 DEF Existing
    <2> QED
      BY <2>1 DEF ProviderOwned
  <1> QED
    BY <1>3, <1>4, <1>5, <1>6, <1>7, <1>8, <1>9, <1>10 DEF Inv, Facts

-----------------------------------------------------------------------------
(* What a step leaves of the soundness of the other calls.                 *)

\* Call d does nothing.
Still(d) ==
    /\ pc'[d] = pc[d] /\ request'[d] = request[d] /\ entity'[d] = entity[d]
    /\ loaded'[d] = loaded[d] /\ changes'[d] = changes[d]
    /\ detached'[d] = detached[d] /\ newTags'[d] = newTags[d]

\* Requests stay what they are, and history only grows.
Grown ==
    /\ \A d \in Calls : pc[d] # "idle" => request'[d] = request[d]
    /\ crowd \subseteq crowd' /\ overlap \subseteq overlap'
    /\ \A x \in Things : WritersOf(x) \subseteq WritersOf(x)'

LEMMA KeepKind ==
    ASSUME NEW d \in Calls, InFlight(d), KindSound(d), Still(d), UNCHANGED row, Grown, Owned,
           Stored
    PROVE  KindSound(d)'
  <1>1. pc[d] # "idle" /\ request'[d] = request[d]
    BY DEF InFlight, Open, Still
  <1>2. request[d].kind \in AboutProvider => request'[Object(d)].user = request[Object(d)].user
    <2>1. CASE request[d].kind \in AboutProvider
      <3>1. Object(d) \in Calls
        BY <2>1 DEF KindSound
      <3>2. CASE IsEmpty(row[Object(d)])
        BY <1>1, <2>1, <3>2 DEF KindSound
      <3>3. CASE ~IsEmpty(row[Object(d)])
        BY <3>1, <3>3 DEF Owned, Stored, Grown
      <3> QED
        BY <3>2, <3>3
    <2> QED
      BY <2>1
  <1> QED
    BY <1>1, <1>2 DEF KindSound, Still, Object, IsNamed, IsProvider, IsEmpty, Absent

LEMMA KeepClause ==
    ASSUME NEW d \in Calls, ClauseSound(d), Still(d), UNCHANGED row
    PROVE  ClauseSound(d)'
  BY DEF ClauseSound, Still, Object, IsEmpty, NoChange, Absent

LEMMA KeepLinks ==
    ASSUME NEW d \in Calls, LinksSound(d), Still(d), UNCHANGED database, Grown
    PROVE  LinksSound(d)'
  <1>1. \A t : HasTag(t)' <=> HasTag(t)
    BY DEF HasTag, database
  <1> QED
    BY <1>1 DEF LinksSound, Still, Object, Linked, Existing, database, Grown

LEMMA KeepName ==
    ASSUME NEW d \in Calls, InFlight(d), KindSound(d), NameSound(d), Still(d), UNCHANGED row, Grown
    PROVE  NameSound(d)'
  <1> SUFFICES ASSUME request[d].kind \in AboutThing, NEW y \in Things \ {Object(d)},
                      row[y].sort = entity[d].sort, row[y].name = entity[d].name,
                      entity[d].name[2] = "lower"
               PROVE  Crowded(WritersOf(Object(d)) \cup {d}, WritersOf(y))'
    BY DEF NameSound, Still, Object
  <1>1. Crowded(WritersOf(Object(d)) \cup {d}, WritersOf(y))
    BY DEF NameSound
  <1>2. Object(d) \in Things /\ Object(d)' = Object(d)
    BY DEF KindSound, Still, Object
  <1>3. WritersOf(Object(d)) \subseteq WritersOf(Object(d))'
    BY <1>2 DEF Grown, WritersOf
  <1> QED
    BY <1>1, <1>3 DEF Crowded, Grown

LEMMA KeepOwner ==
    ASSUME NEW d \in Calls, OwnerSound(d), Still(d), UNCHANGED <<row, providerOf>>, Grown
    PROVE  OwnerSound(d)'
  BY DEF OwnerSound, Still, Object, Grown, IsProvider

LEMMA KeepSound ==
    ASSUME NEW d \in Calls, InFlight(d), Sound(d), Still(d), UNCHANGED database, Grown, Owned,
           Stored
    PROVE  Sound(d)'
  BY KeepKind, KeepClause, KeepLinks, KeepName, KeepOwner DEF Sound, database

-----------------------------------------------------------------------------
(* Steps inside a request that touch no row.                               *)

\* Call c goes on, or fails and forgets everything; nothing that others see has changed.
Quiet(c) ==
    /\ InFlight(c)
    /\ pc' = [pc EXCEPT ![c] = pc'[c]] /\ pc'[c] \in Open \cup {"failed"}
    /\ UNCHANGED <<database, request, history>>
    /\ \A d \in Calls \ {c} : Still(d)
    /\ DOMAIN entity' = Calls /\ DOMAIN loaded' = Calls /\ DOMAIN changes' = Calls
    /\ DOMAIN detached' = Calls /\ DOMAIN newTags' = Calls
    /\ pc'[c] = "failed" => /\ changes'[c] = NoChange /\ detached'[c] = {} /\ newTags'[c] = {}
                            /\ entity'[c] = NoChange
    /\ faults' \in 0..MaxFaults

LEMMA QuietKeepsInv ==
    ASSUME Inv, NEW c \in Calls, Quiet(c), InFlight(c)' => Sound(c)'
    PROVE  Inv'
  <1> USE DEF Inv
  <1>1. \A d \in Calls : /\ d # c => pc'[d] = pc[d]
                         /\ InFlight(d)' => InFlight(d)
                         /\ pc'[d] = "answered" <=> pc[d] = "answered"
                         /\ pc'[d] = "idle" <=> pc[d] = "idle"
    BY DEF Quiet, Still, InFlight, Open
  <1>2. row' = row /\ links' = links /\ tag' = tag /\ providerOf' = providerOf
        /\ request' = request /\ overlap' = overlap /\ crowd' = crowd
    BY DEF Quiet, database, history
  <1>3. \A x : WritersOf(x)' = WritersOf(x)
    BY <1>1, <1>2 DEF WritersOf, Object
  <1>4. Stored'
    BY <1>2 DEF Stored, HasTag, Linked, Existing, IsEmpty, IsNamed, IsProvider, Absent
  <1>5. Begun'
    BY <1>1, <1>2 DEF Begun, Unborn, IsEmpty, Absent, InFlight
  <1>6. Rested'
    <2>1. DOMAIN pc' = Calls
      BY DEF Rested, Quiet
    <2>2. ASSUME NEW d \in Calls
          PROVE  /\ pc'[d] \in {"idle", "answered", "failed"} \cup Open
                 /\ ~InFlight(d)' =>
                    /\ changes'[d] = NoChange /\ detached'[d] = {} /\ newTags'[d] = {}
                    /\ entity'[d] = NoChange
      BY <1>1 DEF Rested, Quiet, Still, InFlight
    <2> QED
      BY <1>2, <2>1, <2>2 DEF Rested, Quiet, NoChange, InFlight, Open
  <1>7. Met'
    BY <1>1, <1>2 DEF Met, Topics, Object
  <1>8. Working'
    <2>1. Grown
      BY <1>2, <1>3 DEF Grown
    <2>2. ASSUME NEW d \in Calls, InFlight(d)' PROVE Sound(d)'
      BY <1>1, <2>1, <2>2, KeepSound DEF Working, Quiet
    <2> QED
      BY <2>2 DEF Working
  <1>9. Owned'
    BY <1>1, <1>2 DEF Owned, IsProvider
  <1>10. Facts'
    <2>1. NamesOnce'
      BY <1>2, <1>3 DEF Facts, NamesOnce, Crowded, Absent
    <2>2. LinksOfOneRequest' /\ MemberOnce' /\ ProviderOwned'
      BY <1>2 DEF Facts, LinksOfOneRequest, MemberOnce, ProviderOwned, Existing
    <2> QED
      BY <2>1, <2>2 DEF Facts
  <1> QED
    BY <1>4, <1>5, <1>6, <1>7, <1>8, <1>9, <1>10

\* The row a request is about, unless it is one of the memberships or the seed.
LEMMA ObjectFacts ==
    ASSUME Stored, NEW c \in Calls, KindSound(c)
    PROVE  /\ request[c].kind \in AboutThing =>
                /\ Object(c) \in Things /\ Object(c) \in Owners /\ Object(c) \notin Calls
                /\ Object(c) \notin Users
                /\ IsEmpty(row[Object(c)]) \/ IsNamed(row[Object(c)])
           /\ request[c].kind \in AboutProvider =>
                /\ Object(c) \in Calls /\ Object(c) \notin Things /\ Object(c) \notin Owners
                /\ Object(c) \notin Users
                /\ IsEmpty(row[Object(c)]) \/ IsProvider(row[Object(c)])
           /\ request[c].kind \in AboutUser =>
                /\ Object(c) \in Users /\ Object(c) \in Owners /\ Object(c) \notin Things
                /\ Object(c) \notin Calls
           /\ request[c].kind = "seed" =>
                Object(c) \notin Owners /\ Object(c) \notin Things /\ Object(c) \notin Calls
  BY KeyFacts DEF KindSound, Stored

LEMMA ReloadKeepsInv ==
    ASSUME Inv, NEW c \in Calls, Reload(c)
    PROVE  Inv'
  <1> USE DEF Inv
  <1> DEFINE o == Object(c)
             kind == request[c].kind
  <1>1. pc[c] = "reload" /\ pc'[c] = "update" /\ InFlight(c) /\ InFlight(c)'
        /\ \A d \in Calls \ {c} : pc'[d] = pc[d]
    BY DEF Reload, Step, Rested, InFlight, Open
  <1>2. /\ UNCHANGED <<database, request, entity, loaded, newTags, faults, history>>
        /\ changes'[c] = Changed(entity[c], row[o])
        /\ detached'[c] = IF kind = "updateService" THEN links[o] \ loaded[c] ELSE {}
        /\ \A d \in Calls \ {c} : changes'[d] = changes[d] /\ detached'[d] = detached[d]
        /\ DOMAIN changes' = Calls /\ DOMAIN detached' = Calls
    BY DEF Reload, Rested
  <1>3. Quiet(c)
    <2>1. pc' = [pc EXCEPT ![c] = pc'[c]]
      BY <1>1 DEF Reload, Step
    <2>2. \A d \in Calls \ {c} : Still(d)
      BY <1>1, <1>2 DEF Still
    <2> QED
      BY <1>1, <1>2, <2>1, <2>2 DEF Quiet, Rested, Open
  <1>4. Sound(c)
    BY <1>1 DEF Working
  <1>5. kind \in AboutThing \cup AboutProvider
    BY <1>1, <1>4 DEF Sound, KindSound
  <1>6. ~IsEmpty(row[o]) /\ row[o].sort = entity[c].sort
    <2>1. CASE kind \in AboutThing
      BY <1>1, <1>4, <2>1, ObjectFacts DEF Sound, KindSound
    <2>2. CASE kind \in AboutProvider
      BY <1>1, <1>4, <2>2, ObjectFacts DEF Sound, KindSound, IsProvider
    <2> QED
      BY <1>5, <2>1, <2>2
  <1>7. KindSound(c)'
    BY <1>1, <1>2, <1>4, <1>5, <1>6 DEF Sound, KindSound, Object, AboutUser, AboutThing,
       AboutProvider, database, IsNamed, IsProvider, IsEmpty, Absent
  <1>8. ClauseSound(c)'
    <2>1. \A k \in DOMAIN changes'[c] :
            k \in DOMAIN entity[c] /\ changes'[c][k] = entity[c][k] /\ k # "sort"
      BY <1>2, <1>6, ChangedFacts
    <2>2. kind \notin AboutUser \cup {"seed"}
      BY <1>5 DEF AboutUser, AboutThing, AboutProvider
    <2> QED
      BY <1>2, <1>6, <2>1, <2>2 DEF ClauseSound, Object, database, IsEmpty, Absent, NoChange
  <1>9. LinksSound(c)'
    <2>1. o \notin overlap => detached'[c] = {}
      BY <1>2, <1>4 DEF Sound, LinksSound
    <2>2. kind # "updateService" => detached'[c] = {}
      BY <1>2
    <2> QED
      BY <1>1, <1>2, <1>4, <2>1, <2>2
      DEF Sound, LinksSound, Object, database, history, Linked, Existing
  <1>10. NameSound(c)'
    <2>1. \A x : WritersOf(x)' = WritersOf(x)
      BY <1>1, <1>2 DEF WritersOf, Object
    <2> QED
      BY <1>2, <1>4, <2>1 DEF Sound, NameSound, Object, database, history, Crowded
  <1>11. OwnerSound(c)'
    BY <1>2, <1>4 DEF Sound, OwnerSound, Object, database, history, IsProvider
  <1> QED
    BY <1>3, <1>7, <1>8, <1>9, <1>10, <1>11, QuietKeepsInv DEF Sound

\* A step that changes nothing but where the request goes on, and the tags it did not find.
LEMMA OnKeepsInv ==
    ASSUME Inv, NEW c \in Calls, InFlight(c),
           NEW next \in Open, next \notin {"reload", "update"}, pc' = [pc EXCEPT ![c] = next],
           request[c].kind \in AboutUser \cup {"seed"} => next = "commit",
           request[c].kind \in AboutProvider => next = "commit" \/ ~IsEmpty(row[Object(c)]),
           UNCHANGED <<database, request, entity, loaded, changes, detached, faults, history>>,
           \A d \in Calls \ {c} : newTags'[d] = newTags[d],
           DOMAIN newTags' = Calls,
           newTags'[c] \subseteq request[c].add,
           newTags'[c] = newTags[c] \/ request[c].kind \in {"createService", "updateService"},
           \A r \in tag : \A t \in newTags'[c] \ newTags[c] : ~SameTag(r[2], t),
           \A t \in newTags'[c], other \in request[c].add :
                SameTag(t, other) => other \in newTags'[c],
           next = "unlink" \/ (next = "commit" /\ request[c].add # {}) =>
                \/ request[c].kind \notin {"createService", "updateService"}
                \/ \A t \in request[c].add : HasTag(t) \/ t \in newTags'[c]
    PROVE  Inv'
  <1> USE DEF Inv
  <1>1. pc'[c] = next /\ InFlight(c)' /\ \A d \in Calls \ {c} : pc'[d] = pc[d]
    BY DEF Rested, InFlight
  <1>2. Quiet(c)
    <2>1. \A d \in Calls \ {c} : Still(d)
      BY <1>1 DEF Still
    <2>2. next # "failed"
      BY DEF Open
    <2> QED
      BY <1>1, <2>1, <2>2 DEF Quiet, Rested
  <1>3. Sound(c)
    BY DEF Working
  <1>4. KindSound(c)'
    BY <1>1, <1>3 DEF Sound, KindSound, Object, database, IsNamed, IsProvider, IsEmpty, Absent
  <1>5. ClauseSound(c)'
    BY <1>3 DEF Sound, ClauseSound, Object, database, IsEmpty, Absent, NoChange
  <1>6. LinksSound(c)'
    <2>1. request[c].kind \notin {"createService", "updateService"} => newTags'[c] = {}
      BY <1>3 DEF Sound, LinksSound
    <2>2. \A r \in tag : \A t \in newTags'[c] : SameTag(r[2], t) => {c, r[1]} \in crowd
      BY <1>3 DEF Sound, LinksSound
    <2>3. \A t : HasTag(t)' <=> HasTag(t)
      BY DEF HasTag, database
    <2> QED
      BY <1>1, <1>3, <2>1, <2>2, <2>3
      DEF Sound, LinksSound, Object, database, history, Linked, Existing
  <1>7. NameSound(c)'
    <2>1. \A x : WritersOf(x)' = WritersOf(x)
      BY <1>1 DEF WritersOf, Object, InFlight, Open
    <2> QED
      BY <1>3, <2>1 DEF Sound, NameSound, Object, database, history, Crowded
  <1>8. OwnerSound(c)'
    BY <1>3 DEF Sound, OwnerSound, Object, database, history, IsProvider
  <1> QED
    BY <1>1, <1>2, <1>4, <1>5, <1>6, <1>7, <1>8, QuietKeepsInv DEF Sound

LEMMA UpdateKeepsInv ==
    ASSUME Inv, NEW c \in Calls, Update(c)
    PROVE  Inv'
  <1> DEFINE next == IF request[c].add # {} THEN "findTags" ELSE "commit"
  <1>1. /\ pc[c] = "update" /\ InFlight(c) /\ pc' = [pc EXCEPT ![c] = next]
        /\ UNCHANGED <<database, request, entity, loaded, changes, detached, newTags, faults,
                       history>>
    BY DEF Update, Step, InFlight, Open
  <1>2. Sound(c)
    BY <1>1 DEF Inv, Working
  <1>3. request[c].kind \notin AboutUser \cup {"seed"}
    BY <1>1, <1>2 DEF Sound, KindSound
  <1>4. request[c].kind \in AboutProvider => ~IsEmpty(row[Object(c)])
    BY <1>1, <1>2 DEF Sound, KindSound
  <1>5. next \in Open /\ next \notin {"reload", "update", "unlink"}
        /\ (next = "commit" => request[c].add = {})
    BY DEF Open
  <1>6. /\ newTags'[c] \subseteq request[c].add /\ DOMAIN newTags' = Calls
        /\ \A t \in newTags'[c], other \in request[c].add :
                SameTag(t, other) => other \in newTags'[c]
    BY <1>1, <1>2 DEF Sound, LinksSound, Inv, Rested
  <1> HIDE DEF next
  <1> QED
    BY <1>1, <1>3, <1>4, <1>5, <1>6, OnKeepsInv

LEMMA FindTagsKeepsInv ==
    ASSUME Inv, NEW c \in Calls, FindTags(c)
    PROVE  Inv'
  <1>1. /\ pc[c] = "findTags" /\ InFlight(c) /\ pc' = [pc EXCEPT ![c] = "unlink"]
        /\ newTags' = [newTags EXCEPT ![c] =
                {t \in request[c].add : \A r \in tag : ~SameTag(r[2], t)}]
        /\ UNCHANGED <<database, request, entity, loaded, changes, detached, faults, history>>
    BY DEF FindTags, Step, InFlight, Open
  <1>2. Sound(c)
    BY <1>1 DEF Inv, Working
  <1>3. /\ newTags'[c] = {t \in request[c].add : \A r \in tag : ~SameTag(r[2], t)}
        /\ DOMAIN newTags' = Calls /\ \A d \in Calls \ {c} : newTags'[d] = newTags[d]
    BY <1>1 DEF Inv, Rested
  <1>4. request[c].kind \notin AboutUser \cup {"seed"}
    BY <1>1, <1>2 DEF Sound, KindSound
  <1>5. request[c].kind \in AboutProvider => ~IsEmpty(row[Object(c)])
    BY <1>1, <1>2 DEF Sound, KindSound
  <1>6. newTags'[c] = newTags[c] \/ request[c].kind \in {"createService", "updateService"}
    <2>1. CASE request[c].kind \notin {"createService", "updateService"}
      <3>1. request[c].kind \in {"deleteService", "createCluster", "updateCluster"}
                                    \cup AboutProvider
        BY <1>2, <1>4, <2>1 DEF Sound, KindSound, AboutThing
      <3>2. request[c].add = {} /\ newTags[c] = {}
        BY <1>2, <3>1 DEF Sound, LinksSound
      <3> QED
        BY <1>3, <3>2
    <2> QED
      BY <2>1
  <1>7. /\ \A t \in request[c].add : HasTag(t) \/ t \in newTags'[c]
        /\ \A r \in tag : \A t \in newTags'[c] \ newTags[c] : ~SameTag(r[2], t)
        /\ newTags'[c] \subseteq request[c].add
    BY <1>3 DEF HasTag
  <1>9. \A t \in newTags'[c], other \in request[c].add :
            SameTag(t, other) => other \in newTags'[c]
    BY <1>3 DEF SameTag
  <1>8. "unlink" \in Open /\ "unlink" \notin {"reload", "update"}
    BY DEF Open
  <1> QED
    BY <1>1, <1>3, <1>4, <1>5, <1>6, <1>7, <1>8, <1>9, OnKeepsInv

LEMMA UnlinkKeepsInv ==
    ASSUME Inv, NEW c \in Calls, Unlink(c)
    PROVE  Inv'
  <1>1. /\ pc[c] = "unlink" /\ InFlight(c) /\ pc' = [pc EXCEPT ![c] = "commit"]
        /\ UNCHANGED <<database, request, entity, loaded, changes, detached, newTags, faults,
                       history>>
    BY DEF Unlink, Step, InFlight, Open
  <1>2. Sound(c)
    BY <1>1 DEF Inv, Working
  <1>3. /\ newTags'[c] \subseteq request[c].add /\ DOMAIN newTags' = Calls
        /\ \/ request[c].kind \notin {"createService", "updateService"}
           \/ \A t \in request[c].add : HasTag(t) \/ t \in newTags'[c]
        /\ \A t \in newTags'[c], other \in request[c].add :
                SameTag(t, other) => other \in newTags'[c]
    BY <1>1, <1>2 DEF Sound, LinksSound, Inv, Rested
  <1>4. "commit" \in Open /\ "commit" \notin {"reload", "update"}
    BY DEF Open
  <1> QED
    BY <1>1, <1>3, <1>4, OnKeepsInv

LEMMA ErrorKeepsInv ==
    ASSUME Inv, NEW c \in Calls, DatabaseError(c)
    PROVE  Inv'
  <1> USE DEF Inv
  <1>1. /\ InFlight(c) /\ pc'[c] = "failed" /\ ~InFlight(c)'
        /\ \A d \in Calls \ {c} : pc'[d] = pc[d]
    BY DEF DatabaseError, Rested, InFlight, Open
  <1>2. pc' = [pc EXCEPT ![c] = pc'[c]]
    BY <1>1 DEF DatabaseError
  <1>3. UNCHANGED <<database, request, history>> /\ faults' = faults + 1 /\ faults < MaxFaults
    BY DEF DatabaseError
  <1>4. faults' \in 0..MaxFaults
    BY <1>3, CatalogueAssumption DEF Rested
  <1>5. /\ changes'[c] = NoChange /\ detached'[c] = {} /\ newTags'[c] = {} /\ entity'[c] = NoChange
        /\ DOMAIN entity' = Calls /\ DOMAIN loaded' = Calls /\ DOMAIN changes' = Calls
        /\ DOMAIN detached' = Calls /\ DOMAIN newTags' = Calls
        /\ \A d \in Calls \ {c} :
            /\ entity'[d] = entity[d] /\ loaded'[d] = loaded[d] /\ changes'[d] = changes[d]
            /\ detached'[d] = detached[d] /\ newTags'[d] = newTags[d]
    BY DEF DatabaseError, Forget, Rested
  <1>6. Quiet(c)
    BY <1>1, <1>2, <1>3, <1>4, <1>5 DEF Quiet, Still
  <1> QED
    BY <1>1, <1>6, QuietKeepsInv

-----------------------------------------------------------------------------
(* Requests that begin.                                                    *)

\* What Ask makes of the variables, call by call.
Begins(c, kind, object, user, add, next, read, rows) ==
    /\ pc[c] = "idle" /\ pc'[c] = next
    /\ request'[c] = [kind |-> kind, object |-> object, user |-> user, add |-> add]
    /\ Object(c)' = object
    /\ entity'[c] = read /\ loaded'[c] = rows
    /\ changes'[c] = NoChange /\ detached'[c] = {} /\ newTags'[c] = {}
    /\ \A d \in Calls \ {c} : Still(d)
    /\ UNCHANGED <<row, links, tag, providerOf, changes, detached, newTags, faults>>
    /\ crowd \subseteq crowd' /\ overlap \subseteq overlap'
    /\ \A d \in Calls \ {c} : InFlight(d) =>
        {c, d} \in crowd' /\ Topics(d) \cap Topics(c)' \subseteq overlap'
    /\ DOMAIN pc' = Calls /\ DOMAIN request' = Calls /\ DOMAIN entity' = Calls
    /\ DOMAIN loaded' = Calls

LEMMA AskFacts ==
    ASSUME Rested, NEW c \in Calls, NEW kind, NEW object, NEW user, NEW add, NEW next,
           NEW read, NEW rows, Ask(c, kind, object, user, add, next, read, rows)
    PROVE  Begins(c, kind, object, user, add, next, read, rows)
  <1>1. /\ pc[c] = "idle"
        /\ request' = [request EXCEPT ![c] =
                [kind |-> kind, object |-> object, user |-> user, add |-> add]]
        /\ pc' = [pc EXCEPT ![c] = next]
        /\ entity' = [entity EXCEPT ![c] = read]
        /\ loaded' = [loaded EXCEPT ![c] = rows]
        /\ UNCHANGED <<row, links, tag, providerOf, changes, detached, newTags, faults>>
    BY DEF Ask, database
  <1>2. /\ crowd' = crowd \cup {{c, d} : d \in {e \in Calls \ {c} : InFlight(e)}}
        /\ overlap' = overlap \cup
                UNION {Topics(d) \cap Topics(c)' : d \in {e \in Calls \ {c} : InFlight(e)}}
    BY DEF Ask
  <1>3. /\ pc'[c] = next /\ entity'[c] = read /\ loaded'[c] = rows
        /\ request'[c] = [kind |-> kind, object |-> object, user |-> user, add |-> add]
        /\ DOMAIN pc' = Calls /\ DOMAIN request' = Calls /\ DOMAIN entity' = Calls
        /\ DOMAIN loaded' = Calls
    BY <1>1 DEF Rested
  <1>4. Object(c)' = object
    BY <1>3 DEF Object
  <1>5. changes'[c] = NoChange /\ detached'[c] = {} /\ newTags'[c] = {}
    BY <1>1 DEF Rested, InFlight, Open, NoChange
  <1>6. \A d \in Calls \ {c} : Still(d)
    BY <1>1 DEF Rested, Still
  <1>7. ASSUME NEW d \in Calls \ {c}, InFlight(d)
        PROVE  {c, d} \in crowd' /\ Topics(d) \cap Topics(c)' \subseteq overlap'
    <2>1. d \in {e \in Calls \ {c} : InFlight(e)}
      BY <1>7
    <2> QED
      BY <1>2, <2>1
  <1>8. crowd \subseteq crowd' /\ overlap \subseteq overlap'
    BY <1>2
  <1> QED
    BY <1>1, <1>3, <1>4, <1>5, <1>6, <1>7, <1>8 DEF Begins

\* A request that has begun is sound, and the others are as before.
LEMMA AskKeepsInv ==
    ASSUME Inv, NEW c \in Calls, NEW kind, NEW object, NEW user, NEW add, NEW next,
           NEW read, NEW rows, Ask(c, kind, object, user, add, next, read, rows),
           next \in Open \/ (next = "failed" /\ read = NoChange),
           next \in Open => Sound(c)'
    PROVE  Inv'
  <1> USE DEF Inv
  <1>1. /\ pc[c] = "idle" /\ pc'[c] = next
        /\ entity'[c] = read /\ loaded'[c] = rows
        /\ changes'[c] = NoChange /\ detached'[c] = {} /\ newTags'[c] = {}
        /\ \A d \in Calls \ {c} : Still(d)
        /\ UNCHANGED <<row, links, tag, providerOf, changes, detached, newTags, faults>>
        /\ crowd \subseteq crowd' /\ overlap \subseteq overlap'
        /\ \A d \in Calls \ {c} : InFlight(d) =>
            {c, d} \in crowd' /\ Topics(d) \cap Topics(c)' \subseteq overlap'
        /\ DOMAIN pc' = Calls /\ DOMAIN request' = Calls /\ DOMAIN entity' = Calls
        /\ DOMAIN loaded' = Calls
    <2>1. Begins(c, kind, object, user, add, next, read, rows)
      BY AskFacts
    <2> QED
      BY <2>1 DEF Begins
  <1>2. ASSUME NEW d \in Calls
        PROVE  /\ pc'[d] = "answered" <=> pc[d] = "answered"
               /\ pc[d] # "idle" => d # c /\ request'[d] = request[d]
               /\ InFlight(d) => d # c /\ InFlight(d)'
               /\ InFlight(d)' /\ d # c => InFlight(d)
               /\ InFlight(d)' /\ d = c => next \in Open
               /\ pc'[d] \in {"idle"} \cup Open => pc[d] \in {"idle"} \cup Open
    BY <1>1 DEF Still, InFlight, Open
  <1>3. \A x : WritersOf(x)' = WritersOf(x)
    <2>1. ASSUME NEW x, NEW d \in Calls
          PROVE  (pc'[d] = "answered" /\ Object(d)' = x) <=> (pc[d] = "answered" /\ Object(d) = x)
      BY <1>2 DEF Object
    <2> QED
      BY <2>1 DEF WritersOf
  <1>4. Stored'
    BY <1>1 DEF Stored, HasTag, Linked, Existing, IsEmpty, IsNamed, IsProvider, Absent
  <1>5. Begun'
    BY <1>1, <1>2 DEF Begun, Unborn, IsEmpty, Absent
  <1>6. Rested'
    <2>1. ASSUME NEW d \in Calls
          PROVE  /\ pc'[d] \in {"idle", "answered", "failed"} \cup Open
                 /\ ~InFlight(d)' =>
                    /\ changes'[d] = NoChange /\ detached'[d] = {} /\ newTags'[d] = {}
                    /\ entity'[d] = NoChange
      <3>1. CASE d = c
        BY <1>1, <3>1 DEF InFlight
      <3>2. CASE d # c
        BY <1>1, <1>2, <3>2 DEF Rested, Still
      <3> QED
        BY <3>1, <3>2
    <2> QED
      BY <1>1, <2>1 DEF Rested, NoChange, InFlight, Open
  <1>7. Met'
    <2>1. ASSUME NEW d \in Calls, NEW e \in Calls, d # e, InFlight(d)', InFlight(e)'
          PROVE  {d, e} \in crowd' /\ Topics(d)' \cap Topics(e)' \subseteq overlap'
      <3>0. \A f \in Calls \ {c} : Topics(f)' = Topics(f)
        BY <1>1 DEF Still, Topics, Object
      <3>1. CASE d = c
        BY <1>1, <1>2, <2>1, <3>0, <3>1
      <3>2. CASE e = c
        <4>1. {d, e} = {e, d}
          OBVIOUS
        <4> QED
          BY <1>1, <1>2, <2>1, <3>0, <3>2, <4>1
      <3>3. CASE d # c /\ e # c
        <4>1. InFlight(d) /\ InFlight(e) /\ Topics(d)' = Topics(d) /\ Topics(e)' = Topics(e)
          BY <1>2, <2>1, <3>0, <3>3
        <4>2. {d, e} \in crowd /\ Topics(d) \cap Topics(e) \subseteq overlap
          BY <2>1, <4>1 DEF Met
        <4> QED
          BY <1>1, <4>1, <4>2
      <3> QED
        BY <3>1, <3>2, <3>3
    <2> QED
      BY <2>1 DEF Met
  <1>8. Working'
    <2>1. Grown
      BY <1>1, <1>2, <1>3 DEF Grown
    <2>2. ASSUME NEW d \in Calls, InFlight(d)' PROVE Sound(d)'
      <3>1. CASE d = c
        BY <1>2, <2>2, <3>1
      <3>2. CASE d # c
        BY <1>1, <1>2, <2>1, <2>2, <3>2, KeepSound DEF Working, database
      <3> QED
        BY <3>1, <3>2
    <2> QED
      BY <2>2 DEF Working
  <1>9. Owned'
    <2>1. ASSUME NEW p \in Calls, IsProvider(row[p])
          PROVE  pc'[p] = "answered" /\ request'[p] = request[p] /\ request[p].user \in Users
      BY <1>2, <2>1 DEF Owned
    <2>2. row' = row /\ providerOf' = providerOf
      BY <1>1
    <2>3. ASSUME NEW p \in Calls, IsProvider(row'[p])
          PROVE  pc'[p] = "answered" /\ request'[p].user \in Users
      BY <2>1, <2>2, <2>3
    <2>4. ASSUME NEW u \in Users, providerOf'[u] # NoProvider
          PROVE  /\ providerOf'[u] \in Calls /\ IsProvider(row'[providerOf'[u]])
                 /\ request'[providerOf'[u]].user = u
      <3>1. /\ providerOf[u] \in Calls /\ IsProvider(row[providerOf[u]])
            /\ request[providerOf[u]].user = u
        BY <2>2, <2>4 DEF Owned
      <3> QED
        BY <2>1, <2>2, <3>1
    <2> QED
      BY <2>3, <2>4 DEF Owned, IsProvider
  <1>10. NamesOnce'
    <2>1. \A r \in tag : r[1] \in Calls \ {c}
      BY <1>1 DEF Begun, Unborn, Stored
    <2>2. \A r \in tag : request'[r[1]] = request[r[1]]
      BY <1>1, <2>1 DEF Still
    <2> QED
      BY <1>1, <1>3, <2>2 DEF Facts, NamesOnce, Crowded, Absent
  <1>11. LinksOfOneRequest'
    <2>1. ASSUME NEW s \in Things \ overlap', links'[s] # {}
          PROVE  \E e \in Calls : links'[s] = {e} \X request'[e].add
      <3>1. PICK e \in Calls : links[s] = {e} \X request[e].add
        BY <1>1, <2>1 DEF Facts, LinksOfOneRequest
      <3>2. PICK link \in links[s] : link[1] = e
        BY <1>1, <2>1, <3>1
      <3>3. s \in Owners
        BY KeyFacts
      <3>4. e # c
        BY <1>1, <3>2, <3>3 DEF Begun, Unborn
      <3> QED
        BY <1>1, <3>1, <3>4 DEF Still
    <2> QED
      BY <2>1 DEF LinksOfOneRequest
  <1>12. MemberOnce'
    BY <1>1 DEF Facts, MemberOnce
  <1>13. ProviderOwned'
    <2>1. ASSUME NEW p \in Rows, row[p].sort = "provider"
          PROVE  p \in Calls /\ IsProvider(row[p]) /\ request'[p] = request[p]
      <3>1. p \in Calls
        BY <2>1, KeyFacts, RowKinds DEF Stored, IsNamed
      <3>2. IsProvider(row[p])
        BY <2>1, <3>1, RowKinds DEF Stored
      <3> QED
        BY <1>2, <3>1, <3>2 DEF Owned
    <2> QED
      BY <1>1, <2>1 DEF Facts, ProviderOwned, Existing
  <1> QED
    BY <1>4, <1>5, <1>6, <1>7, <1>8, <1>9, <1>10, <1>11, <1>12, <1>13 DEF Facts

LEMMA ThrowKeepsInv ==
    ASSUME Inv, NEW c \in Calls, NEW kind, Throw(c, kind)
    PROVE  Inv'
  <1>1. Ask(c, kind, <<>>, "none", {}, "failed", NoChange, {})
    BY DEF Throw
  <1>2. "failed" \notin Open
    BY DEF Open
  <1> QED
    BY <1>1, <1>2, AskKeepsInv

LEMMA BeginsWriters ==
    ASSUME NEW c \in Calls, NEW kind, NEW object, NEW user, NEW add, NEW next,
           NEW read, NEW rows, Begins(c, kind, object, user, add, next, read, rows),
           next # "answered"
    PROVE  \A x : WritersOf(x)' = WritersOf(x)
  <1>1. ASSUME NEW x, NEW d \in Calls
        PROVE  (pc'[d] = "answered" /\ Object(d)' = x) <=> (pc[d] = "answered" /\ Object(d) = x)
    BY DEF Begins, Still, Object
  <1> QED
    BY <1>1 DEF WritersOf

\* A request about a service or a cluster that saves a name nobody has, or the name of a row.
SoundThing(c, kind, o, add, next, read, rows) ==
    /\ kind \in AboutThing /\ o \in Things /\ add \subseteq Tags
    /\ next \in {"commit", "findTags", "reload"}
    /\ IsNamed(read)
    /\ IsEmpty(row[o]) => next # "reload" /\ o \in Creates(c)
    /\ IsNamed(row[o]) => row[o].sort = read.sort
    /\ kind \in {"createService", "createCluster"} => o \in Creates(c)
    /\ kind \notin {"createService", "updateService"} => add = {}
    /\ next = "commit" => add = {}
    /\ rows = IF kind = "updateService" THEN links[o] ELSE {}
    /\ \A y \in Things \ {o} :
        row[y].sort = read.sort /\ row[y].name = read.name /\ read.name[2] = "lower"
            => Crowded(WritersOf(o), WritersOf(y))

LEMMA ThingBegins ==
    ASSUME Inv, NEW c \in Calls, NEW kind, NEW o, NEW add, NEW next, NEW read, NEW rows,
           Ask(c, kind, o, "none", add, next, read, rows),
           SoundThing(c, kind, o, add, next, read, rows)
    PROVE  Inv'
  <1> USE DEF SoundThing
  <1>1. Begins(c, kind, o, "none", add, next, read, rows)
    BY AskFacts DEF Inv
  <1>2. /\ pc'[c] = next
        /\ request'[c].kind = kind /\ request'[c].add = add /\ Object(c)' = o
        /\ entity'[c] = read /\ loaded'[c] = rows
        /\ changes'[c] = NoChange /\ detached'[c] = {} /\ newTags'[c] = {}
        /\ UNCHANGED <<row, links, tag, providerOf>>
        /\ crowd \subseteq crowd' /\ overlap \subseteq overlap'
    BY <1>1 DEF Begins
  <1>3. kind \notin AboutUser \cup AboutProvider \cup {"seed", "join", "override", "leave", "apply"}
    BY DEF AboutThing, AboutUser, AboutProvider
  <1>4. KindSound(c)'
    BY <1>2, <1>3 DEF KindSound, IsEmpty, IsNamed, Absent
  <1>5. ClauseSound(c)'
    BY <1>2, NoChangeFacts DEF ClauseSound, NoChange
  <1>6. LinksSound(c)'
    BY <1>2, <1>3 DEF LinksSound
  <1>7. NameSound(c)'
    <2>1. \A x : WritersOf(x)' = WritersOf(x)
      BY <1>1, BeginsWriters
    <2>2. ASSUME NEW y \in Things \ {o}, row[y].sort = read.sort, row[y].name = read.name,
                 read.name[2] = "lower"
          PROVE  \E d \in WritersOf(o) \cup {c}, e \in WritersOf(y) : {d, e} \in crowd'
      BY <1>2, <2>2 DEF Crowded
    <2> QED
      BY <1>2, <2>1, <2>2 DEF NameSound, Crowded
  <1>8. OwnerSound(c)'
    BY <1>2, <1>3 DEF OwnerSound
  <1> QED
    BY <1>4, <1>5, <1>6, <1>7, <1>8, AskKeepsInv DEF Sound, Open

\* What a look-up by name says that finds nothing, or nothing but row o.
LEMMA WithNameFacts ==
    ASSUME NEW sort, NEW name, NEW o, WithName(sort, name) \subseteq {o}
    PROVE  \A y \in Things \ {o} : ~(row[y].sort = sort /\ row[y].name = name)
  BY KeyFacts DEF WithName, Existing

LEMMA CreateServiceKeepsInv ==
    ASSUME Inv, NEW c \in Calls, NEW word \in Words, NEW tags \in SUBSET Tags,
           CreateService(c, word, tags)
    PROVE  Inv'
  <1> DEFINE o == <<c, word>>
             read == Named("service", Lower(word))
             next == IF tags = {} THEN "commit" ELSE "findTags"
  <1>1. CASE /\ WithName("service", Lower(word)) = {}
             /\ Ask(c, "createService", o, "none", tags, next, read, {})
    <2>1. pc[c] = "idle"
      BY <1>1 DEF Ask
    <2>2. IsEmpty(row[o]) /\ ~IsNamed(row[o]) /\ o \in Creates(c) /\ o \in Things
      BY <2>1, KeyFacts, RowKinds DEF Inv, Begun, Unborn, Creates
    <2>3. IsNamed(read) /\ read.sort = "service" /\ read.name = Lower(word)
      BY NamedFacts
    <2>4. \A y \in Things \ {o} : ~(row[y].sort = read.sort /\ row[y].name = read.name)
      BY <1>1, <2>3, WithNameFacts
    <2>5. next \in {"commit", "findTags"} /\ (next = "commit" => tags = {})
      OBVIOUS
    <2>6. "createService" \in AboutThing
      BY DEF AboutThing
    <2>7. SoundThing(c, "createService", o, tags, next, read, {})
      BY <1>1, <2>2, <2>3, <2>4, <2>5, <2>6 DEF SoundThing
    <2> HIDE DEF next, read, o
    <2> QED
      BY <1>1, <2>7, ThingBegins, Zenon
  <1>2. CASE Throw(c, "createService")
    BY <1>2, ThrowKeepsInv
  <1> QED
    BY <1>1, <1>2 DEF CreateService

LEMMA CreateClusterKeepsInv ==
    ASSUME Inv, NEW c \in Calls, NEW word \in Words, CreateCluster(c, word)
    PROVE  Inv'
  <1> DEFINE o == <<c, word>>
             read == Named("cluster", Lower(word))
  <1>1. CASE /\ WithName("cluster", Lower(word)) = {}
             /\ Ask(c, "createCluster", o, "none", {}, "commit", read, {})
    <2>1. pc[c] = "idle"
      BY <1>1 DEF Ask
    <2>2. IsEmpty(row[o]) /\ ~IsNamed(row[o]) /\ o \in Creates(c) /\ o \in Things
      BY <2>1, KeyFacts, RowKinds DEF Inv, Begun, Unborn, Creates
    <2>3. IsNamed(read) /\ read.sort = "cluster" /\ read.name = Lower(word)
      BY NamedFacts
    <2>4. \A y \in Things \ {o} : ~(row[y].sort = read.sort /\ row[y].name = read.name)
      BY <1>1, <2>3, WithNameFacts
    <2>5. "createCluster" \in AboutThing
      BY DEF AboutThing
    <2>6. SoundThing(c, "createCluster", o, {}, "commit", read, {})
      BY <1>1, <2>2, <2>3, <2>4, <2>5 DEF SoundThing
    <2> HIDE DEF read, o
    <2> QED
      BY <1>1, <2>6, ThingBegins, Zenon
  <1>2. CASE Throw(c, "createCluster")
    BY <1>2, ThrowKeepsInv
  <1> QED
    BY <1>1, <1>2 DEF CreateCluster

\* A row that is found by its sort is a service or a cluster, and exists.
LEMMA SortFacts ==
    ASSUME Stored, NEW x \in Things, row[x].sort \in {"service", "cluster"}
    PROVE  IsNamed(row[x]) /\ ~IsEmpty(row[x])
  BY RowKinds DEF Stored

LEMMA UpdateServiceKeepsInv ==
    ASSUME Inv, NEW c \in Calls, NEW s \in Things, NEW word \in Words,
           NEW tags \in SUBSET Tags, UpdateService(c, s, word, tags)
    PROVE  Inv'
  <1> DEFINE read == [row[s] EXCEPT !.name = Lower(word)]
  <1>1. row[s].sort = "service" /\ IsNamed(row[s]) /\ ~IsEmpty(row[s])
    BY SortFacts DEF Inv, UpdateService
  <1>2. CASE /\ WithName("service", Lower(word)) \ {s} = {}
             /\ Ask(c, "updateService", s, "none", tags, "reload", read, links[s])
    <2>1. IsNamed(read) /\ read.sort = row[s].sort /\ read.name = Lower(word)
      BY <1>1 DEF IsNamed
    <2>2. \A y \in Things \ {s} : ~(row[y].sort = read.sort /\ row[y].name = read.name)
      <3>1. WithName("service", Lower(word)) \subseteq {s}
        BY <1>2
      <3> QED
        BY <1>1, <2>1, <3>1, WithNameFacts
    <2>3. "updateService" \in AboutThing
      BY DEF AboutThing
    <2>4. SoundThing(c, "updateService", s, tags, "reload", read, links[s])
      BY <1>1, <1>2, <2>1, <2>2, <2>3 DEF SoundThing
    <2> HIDE DEF read
    <2> QED
      BY <1>2, <2>4, ThingBegins, Zenon
  <1>3. CASE Throw(c, "updateService")
    BY <1>3, ThrowKeepsInv
  <1> QED
    BY <1>2, <1>3 DEF UpdateService

LEMMA UpdateClusterKeepsInv ==
    ASSUME Inv, NEW c \in Calls, NEW k \in Things, NEW word \in Words, UpdateCluster(c, k, word)
    PROVE  Inv'
  <1> DEFINE read == [row[k] EXCEPT !.name = Lower(word)]
  <1>1. row[k].sort = "cluster" /\ IsNamed(row[k]) /\ ~IsEmpty(row[k])
    BY SortFacts DEF Inv, UpdateCluster
  <1>2. CASE /\ WithName("cluster", Lower(word)) \ {k} = {}
             /\ Ask(c, "updateCluster", k, "none", {}, "reload", read, {})
    <2>1. IsNamed(read) /\ read.sort = row[k].sort /\ read.name = Lower(word)
      BY <1>1 DEF IsNamed
    <2>2. \A y \in Things \ {k} : ~(row[y].sort = read.sort /\ row[y].name = read.name)
      <3>1. WithName("cluster", Lower(word)) \subseteq {k}
        BY <1>2
      <3> QED
        BY <1>1, <2>1, <3>1, WithNameFacts
    <2>3. "updateCluster" \in AboutThing
      BY DEF AboutThing
    <2>4. SoundThing(c, "updateCluster", k, {}, "reload", read, {})
      BY <1>1, <1>2, <2>1, <2>2, <2>3 DEF SoundThing
    <2> HIDE DEF read
    <2> QED
      BY <1>2, <2>4, ThingBegins, Zenon
  <1>3. CASE Throw(c, "updateCluster")
    BY <1>3, ThrowKeepsInv
  <1> QED
    BY <1>2, <1>3 DEF UpdateCluster

LEMMA DeleteServiceKeepsInv ==
    ASSUME Inv, NEW c \in Calls, NEW s \in Things, DeleteService(c, s)
    PROVE  Inv'
  <1> DEFINE read == [row[s] EXCEPT !.isDeleted = TRUE]
  <1>1. row[s].sort = "service" /\ IsNamed(row[s]) /\ ~IsEmpty(row[s])
    BY SortFacts DEF Inv, DeleteService
  <1>2. Ask(c, "deleteService", s, "none", {}, "reload", read, {})
    BY DEF DeleteService
  <1>3. IsNamed(read) /\ read.sort = row[s].sort /\ read.name = row[s].name
    BY <1>1 DEF IsNamed
  <1>4. \A y \in Things \ {s} :
            row[y].sort = read.sort /\ row[y].name = read.name /\ read.name[2] = "lower"
                => Crowded(WritersOf(s), WritersOf(y))
    BY <1>1, <1>3 DEF Inv, Facts, NamesOnce, IsEmpty
  <1>5. "deleteService" \in AboutThing
    BY DEF AboutThing
  <1>6. SoundThing(c, "deleteService", s, {}, "reload", read, {})
    BY <1>1, <1>2, <1>3, <1>4, <1>5 DEF SoundThing
  <1> HIDE DEF read
  <1> QED
    BY <1>2, <1>6, ThingBegins, Zenon

\* A request about the memberships of a user, or the seed.
SoundLinks(c, kind, o, user, add, next, rows) ==
    /\ kind \in AboutUser \cup {"seed"} /\ next \in {"unlink", "commit"}
    /\ kind \in AboutUser => o \in Users /\ user = o /\ add \subseteq Existing("cluster")
    /\ kind = "seed" => o = <<"seed", c>> /\ add \subseteq Words
    /\ kind = "leave" => add = {}
    /\ kind = "join" => add \cap Linked(o) = {}
    /\ rows = IF kind = "override" THEN links[o] ELSE {}

LEMMA LinksBegin ==
    ASSUME Inv, NEW c \in Calls, NEW kind, NEW o, NEW user, NEW add, NEW next, NEW rows,
           Ask(c, kind, o, user, add, next, NoChange, rows),
           SoundLinks(c, kind, o, user, add, next, rows)
    PROVE  Inv'
  <1> USE DEF SoundLinks
  <1>1. Begins(c, kind, o, user, add, next, NoChange, rows)
    BY AskFacts DEF Inv
  <1>2. /\ pc'[c] = next
        /\ request'[c].kind = kind /\ request'[c].add = add /\ Object(c)' = o
        /\ request'[c].user = user
        /\ entity'[c] = NoChange /\ loaded'[c] = rows
        /\ changes'[c] = NoChange /\ detached'[c] = {} /\ newTags'[c] = {}
        /\ UNCHANGED <<row, links, tag, providerOf>>
        /\ NoChange' = NoChange
    BY <1>1 DEF Begins, NoChange
  <1>3. kind \notin AboutThing \cup AboutProvider
    BY DEF AboutThing, AboutUser, AboutProvider
  <1>4. KindSound(c)'
    BY <1>2, <1>3 DEF KindSound
  <1>5. ClauseSound(c)'
    BY <1>2, NoChangeFacts DEF ClauseSound
  <1>6. LinksSound(c)'
    <2>1. Existing("cluster")' = Existing("cluster") /\ Linked(o)' = Linked(o)
      BY <1>2 DEF Existing, Linked
    <2>2. kind \notin {"createService", "updateService"}
      BY <1>3 DEF AboutThing
    <2>3. \/ add = {}
          \/ kind \notin {"deleteService", "createCluster", "updateCluster", "leave"}
                                \cup AboutProvider
      BY <1>3 DEF AboutThing
    <2>4. rows = {} \/ kind = "override"
      OBVIOUS
    <2>5. kind \in AboutUser => add \subseteq Existing("cluster")'
      BY <2>1
    <2>6. kind \in {"join", "override"} => kind \in AboutUser
      BY DEF AboutUser
    <2>7. kind = "override" => rows = links'[o]
      BY <1>2
    <2> QED
      BY <1>2, <2>1, <2>2, <2>3, <2>4, <2>5, <2>7 DEF LinksSound
  <1>7. NameSound(c)' /\ OwnerSound(c)'
    BY <1>2, <1>3 DEF NameSound, OwnerSound, AboutProvider
  <1> QED
    BY <1>4, <1>5, <1>6, <1>7, AskKeepsInv DEF Sound, Open

LEMMA SeedKeepsInv ==
    ASSUME Inv, NEW c \in Calls, SeedServices(c)
    PROVE  Inv'
  <1>1. Unseeded \subseteq Words
    BY CatalogueAssumption DEF Unseeded
  <1>2. SoundLinks(c, "seed", <<"seed", c>>, "none", Unseeded, "commit", {})
    BY <1>1 DEF SoundLinks, AboutUser
  <1> QED
    BY <1>2, LinksBegin DEF SeedServices

LEMMA JoinKeepsInv ==
    ASSUME Inv, NEW c \in Calls, NEW u \in Users, NEW clusters \in SUBSET Existing("cluster"),
           JoinClusters(c, u, clusters)
    PROVE  Inv'
  <1>1. SoundLinks(c, "join", u, u, Missing(u, clusters), "commit", {})
    BY DEF SoundLinks, AboutUser, Missing
  <1> QED
    BY <1>1, LinksBegin DEF JoinClusters

LEMMA OverrideKeepsInv ==
    ASSUME Inv, NEW c \in Calls, NEW u \in Users, NEW clusters \in SUBSET Existing("cluster"),
           OverrideClusters(c, u, clusters)
    PROVE  Inv'
  <1>1. SoundLinks(c, "override", u, u, clusters, "unlink", links[u])
    BY DEF SoundLinks, AboutUser
  <1> QED
    BY <1>1, LinksBegin DEF OverrideClusters

LEMMA LeaveKeepsInv ==
    ASSUME Inv, NEW c \in Calls, NEW u \in Users, LeaveClusters(c, u)
    PROVE  Inv'
  <1>1. CASE Ask(c, "leave", u, u, {}, "commit", NoChange, {})
    <2>1. SoundLinks(c, "leave", u, u, {}, "commit", {})
      BY DEF SoundLinks, AboutUser
    <2> QED
      BY <1>1, <2>1, LinksBegin
  <1>2. CASE Throw(c, "leave")
    BY <1>2, ThrowKeepsInv
  <1> QED
    BY <1>1, <1>2 DEF LeaveClusters

\* A request about the provider profile p of user u: the one that u has, or a new one.
SoundProvider(c, kind, p, u, next, read) ==
    /\ kind \in AboutProvider /\ p \in Calls /\ u \in Users /\ IsProvider(read)
    /\ \/ /\ providerOf[u] = p /\ p # c /\ request[p].user = u /\ next = "reload"
          /\ IsProvider(row[p]) /\ (kind = "apply" => read.ratings = row[p].ratings)
       \/ providerOf[u] = NoProvider /\ p = c /\ next = "commit" /\ kind = "apply"

LEMMA ProviderBegins ==
    ASSUME Inv, NEW c \in Calls, NEW kind, NEW p, NEW u, NEW next, NEW read,
           Ask(c, kind, p, u, {}, next, read, {}),
           SoundProvider(c, kind, p, u, next, read)
    PROVE  Inv'
  <1> USE DEF SoundProvider
  <1>1. Begins(c, kind, p, u, {}, next, read, {})
    BY AskFacts DEF Inv
  <1>2. /\ pc'[c] = next
        /\ request'[c].kind = kind /\ request'[c].add = {} /\ Object(c)' = p
        /\ request'[c].user = u
        /\ entity'[c] = read /\ loaded'[c] = {}
        /\ changes'[c] = NoChange /\ detached'[c] = {} /\ newTags'[c] = {}
        /\ UNCHANGED <<row, links, tag, providerOf>>
        /\ pc[c] = "idle"
    BY <1>1 DEF Begins
  <1>3. kind \notin AboutThing \cup AboutUser \cup {"seed"}
    BY DEF AboutThing, AboutUser, AboutProvider
  <1>4. p = c => IsEmpty(row[p]) /\ ~IsProvider(row[p])
    BY <1>2, RowKinds DEF Inv, Begun, Unborn
  <1>5. request'[p].user = u
    BY <1>1, <1>2 DEF Begins, Still
  <1>6. KindSound(c)'
    <2>1. IsEmpty(row[p]) => p = c /\ kind = "apply" /\ next = "commit"
      BY RowKinds
    <2>2. IsEmpty(row[p])' <=> IsEmpty(row[p])
      BY <1>2 DEF IsEmpty, Absent
    <2> QED
      BY <1>2, <1>3, <1>5, <2>1, <2>2 DEF KindSound, IsProvider, IsEmpty, Absent
  <1>7. ClauseSound(c)'
    <2>1. NoChange' = NoChange
      BY DEF NoChange
    <2> QED
      BY <1>2, <2>1, NoChangeFacts DEF ClauseSound
  <1>8. LinksSound(c)'
    BY <1>2, <1>3 DEF LinksSound, AboutUser, AboutThing
  <1>9. NameSound(c)'
    BY <1>2, <1>3 DEF NameSound
  <1>10. OwnerSound(c)'
    <2>1. NoProvider # p
      BY CatalogueAssumption
    <2>2. row' = row /\ providerOf' = providerOf
      BY <1>2
    <2>3. kind = "apply" => p = IF providerOf[u] = NoProvider THEN c ELSE providerOf[u]
      BY <2>1
    <2>4. kind = "apply" /\ IsProvider(row[p]) => read.ratings = row[p].ratings
      BY <1>4
    <2> QED
      BY <1>2, <2>2, <2>3, <2>4 DEF OwnerSound, IsProvider
  <1> QED
    BY <1>6, <1>7, <1>8, <1>9, <1>10, AskKeepsInv DEF Sound, Open

\* The profile a user has was made by an earlier request.
LEMMA ProfileFacts ==
    ASSUME Inv, NEW c \in Calls, pc[c] = "idle", NEW u \in Users, providerOf[u] # NoProvider
    PROVE  /\ providerOf[u] \in Calls /\ providerOf[u] # c
           /\ IsProvider(row[providerOf[u]]) /\ request[providerOf[u]].user = u
  BY RowKinds DEF Inv, Owned, Begun, Unborn

LEMMA ApplyKeepsInv ==
    ASSUME Inv, NEW c \in Calls, NEW u \in Users, Apply(c, u)
    PROVE  Inv'
  <1>1. CASE /\ providerOf[u] # NoProvider
             /\ Ask(c, "apply", providerOf[u], u, {}, "reload", Applied(c, providerOf[u]), {})
    <2>1. pc[c] = "idle"
      BY <1>1 DEF Ask
    <2>2. /\ IsProvider(Applied(c, providerOf[u]))
          /\ Applied(c, providerOf[u]).ratings = row[providerOf[u]].ratings
      BY ProviderFacts DEF Applied
    <2>3. SoundProvider(c, "apply", providerOf[u], u, "reload", Applied(c, providerOf[u]))
      BY <1>1, <2>1, <2>2, ProfileFacts DEF SoundProvider, AboutProvider
    <2> QED
      BY <1>1, <2>3, ProviderBegins
  <1>2. CASE /\ providerOf[u] = NoProvider
             /\ Ask(c, "apply", c, u, {}, "commit", Provider(c, 0), {})
    <2>1. SoundProvider(c, "apply", c, u, "commit", Provider(c, 0))
      BY <1>2, ProviderFacts DEF SoundProvider, AboutProvider
    <2> QED
      BY <1>2, <2>1, ProviderBegins
  <1> QED
    BY <1>1, <1>2 DEF Apply

LEMMA RateKeepsInv ==
    ASSUME Inv, NEW c \in Calls, NEW u \in Users, Rate(c, u)
    PROVE  Inv'
  <1> DEFINE read == [row[providerOf[u]] EXCEPT !.ratings = @ + 1]
  <1>1. providerOf[u] # NoProvider /\ Ask(c, "rate", providerOf[u], u, {}, "reload", read, {})
    BY DEF Rate
  <1>2. pc[c] = "idle"
    BY <1>1 DEF Ask
  <1>3. IsProvider(row[providerOf[u]])
    BY <1>1, <1>2, ProfileFacts
  <1>4. IsProvider(read)
    BY <1>3 DEF IsProvider
  <1>5. SoundProvider(c, "rate", providerOf[u], u, "reload", read)
    BY <1>1, <1>2, <1>4, ProfileFacts DEF SoundProvider, AboutProvider
  <1> HIDE DEF read
  <1> QED
    BY <1>1, <1>5, ProviderBegins

-----------------------------------------------------------------------------
(* The commit.                                                             *)

\* What the commit of call c makes of row x.
Keeps(x) == row'[x] = row[x]
Seeded(c, x) == /\ request[c].kind = "seed" /\ x \in Creates(c)
                /\ row'[x] = Named("service", Capital(x[2]))
Inserted(c, x) == /\ request[c].kind \in AboutThing \cup AboutProvider
                  /\ x = Object(c) /\ IsEmpty(row[x]) /\ row'[x] = entity[c]
Updated(c, x) == /\ request[c].kind \in AboutThing \cup AboutProvider
                 /\ x = Object(c) /\ ~IsEmpty(row[x]) /\ row'[x] = Overlay(row[x], changes[c])

LEMMA SavedRowsFacts ==
    ASSUME Inv, NEW c \in Calls, pc[c] = "commit", row' = SavedRows(c)
    PROVE  /\ DOMAIN row' = Rows
           /\ \A x \in Rows : Keeps(x) \/ Seeded(c, x) \/ Inserted(c, x) \/ Updated(c, x)
           /\ request[c].kind \in AboutThing \cup AboutProvider =>
                Inserted(c, Object(c)) \/ Updated(c, Object(c))
  <1>1. Sound(c) /\ DOMAIN row = Rows
    BY DEF Inv, Working, InFlight, Open, Stored
  <1>2. CASE request[c].kind = "seed"
    <2>1. row' = [x \in Rows |-> IF x \in {c} \X request[c].add
                                 THEN Named("service", Capital(x[2])) ELSE row[x]]
      BY <1>2, Zenon DEF SavedRows
    <2>2. \A x \in {c} \X request[c].add : x \in Creates(c)
      BY <1>1, <1>2 DEF Sound, KindSound, Creates
    <2>3. request[c].kind \notin AboutThing \cup AboutProvider
      BY <1>2 DEF AboutThing, AboutProvider
    <2>4. DOMAIN row' = Rows
      BY <2>1
    <2>5. ASSUME NEW x \in Rows PROVE Keeps(x) \/ Seeded(c, x)
      <3>1. CASE x \in {c} \X request[c].add
        <4>1. row'[x] = Named("service", Capital(x[2]))
          BY <2>1, <3>1, Zenon
        <4> QED
          BY <1>2, <2>2, <3>1, <4>1, Zenon DEF Seeded
      <3>2. CASE x \notin {c} \X request[c].add
        BY <2>1, <3>2, Zenon DEF Keeps
      <3> QED
        BY <3>1, <3>2
    <2> QED
      BY <2>3, <2>4, <2>5
  <1>3. CASE request[c].kind \in AboutUser
    <2>1. row' = row
      <3>1. request[c].kind # "seed" /\ entity[c] = NoChange
        BY <1>1, <1>3 DEF Sound, KindSound, AboutUser
      <3> QED
        BY <3>1, Zenon DEF SavedRows
    <2>2. request[c].kind \notin AboutThing \cup AboutProvider
      BY <1>3 DEF AboutThing, AboutProvider, AboutUser
    <2> QED
      BY <1>1, <2>1, <2>2 DEF Keeps
  <1>4. CASE request[c].kind \in AboutThing \cup AboutProvider
    <2>1. request[c].kind # "seed" /\ entity[c] # NoChange
      BY <1>1, <1>4, RowKinds DEF Sound, KindSound, AboutThing, AboutProvider
    <2>2. Object(c) \in Rows
      BY <1>1, <1>4, KeyFacts DEF Sound, KindSound
    <2>3. CASE row[Object(c)] = Absent
      <3>1. row' = [row EXCEPT ![Object(c)] = entity[c]]
        BY <2>1, <2>3, Zenon DEF SavedRows
      <3>2. Inserted(c, Object(c))
        BY <1>1, <1>4, <2>2, <2>3, <3>1 DEF Inserted, IsEmpty
      <3> QED
        BY <1>1, <3>1, <3>2 DEF Keeps
    <2>4. CASE row[Object(c)] # Absent
      <3>1. row' = [row EXCEPT ![Object(c)] = Overlay(row[Object(c)], changes[c])]
        BY <2>1, <2>4, Zenon DEF SavedRows
      <3>2. Updated(c, Object(c))
        BY <1>1, <1>4, <2>2, <2>4, <3>1 DEF Updated, IsEmpty
      <3> QED
        BY <1>1, <3>1, <3>2 DEF Keeps
    <2> QED
      BY <2>3, <2>4
  <1> QED
    BY <1>1, <1>2, <1>3, <1>4 DEF Sound, KindSound

\* Rows stay what they are and keep their sort; whatever is new is the call's own.
RowsKept(c) ==
    /\ DOMAIN row' = Rows
    /\ \A x \in Things : IsEmpty(row'[x]) \/ IsNamed(row'[x])
    /\ \A p \in Calls : IsEmpty(row'[p]) \/ IsProvider(row'[p])
    /\ \A x \in Rows : ~IsEmpty(row[x]) => ~IsEmpty(row'[x]) /\ row'[x].sort = row[x].sort
    /\ \A x \in Rows : x = Object(c) \/ x \in Creates(c) \/ row'[x] = row[x]
    /\ \A x \in Rows : IsEmpty(row[x]) => x \in Creates(c) \cup {c} \/ IsEmpty(row'[x])
    /\ request[c].kind \in AboutThing \cup AboutProvider => ~IsEmpty(row'[Object(c)])

LEMMA CommitRows ==
    ASSUME Inv, NEW c \in Calls, pc[c] = "commit", row' = SavedRows(c)
    PROVE  RowsKept(c)
  <1> USE DEF Inv
  <1>1. Sound(c)
    BY DEF Working, InFlight, Open
  <1>2. \A k \in DOMAIN changes[c] : k # "sort"
    BY <1>1 DEF Sound, ClauseSound
  <1>3. ASSUME NEW x \in Rows
        PROVE  /\ x \in Things => IsEmpty(row'[x]) \/ IsNamed(row'[x])
               /\ x \in Calls => IsEmpty(row'[x]) \/ IsProvider(row'[x])
               /\ ~IsEmpty(row[x]) => ~IsEmpty(row'[x]) /\ row'[x].sort = row[x].sort
               /\ x = Object(c) \/ x \in Creates(c) \/ row'[x] = row[x]
               /\ IsEmpty(row[x]) => x \in Creates(c) \cup {c} \/ IsEmpty(row'[x])
               /\ Inserted(c, x) \/ Updated(c, x) => ~IsEmpty(row'[x])
    <2>0. /\ x \in Things => IsEmpty(row[x]) \/ IsNamed(row[x])
          /\ x \in Calls => IsEmpty(row[x]) \/ IsProvider(row[x])
          /\ x \in Things \/ x \in Calls
          /\ x \in Things => x \notin Calls
      BY KeyFacts DEF Stored
    <2>1. CASE Keeps(x) /\ ~Inserted(c, x) /\ ~Updated(c, x)
      BY <2>0, <2>1 DEF Keeps
    <2>2. CASE Seeded(c, x)
      <3>1. IsNamed(row'[x])
        BY <2>2, NamedFacts DEF Seeded
      <3>2. x \in Things /\ IsEmpty(row[x])
        BY <2>2, KeyFacts DEF Seeded, Creates, Begun, Unborn, Open
      <3>3. ~Inserted(c, x) /\ ~Updated(c, x)
        BY <2>2 DEF Seeded, Inserted, Updated, AboutThing, AboutProvider
      <3> QED
        BY <2>0, <2>2, <3>1, <3>2, <3>3 DEF Seeded
    <2>3. CASE Inserted(c, x)
      <3>1. CASE request[c].kind \in AboutThing
        <4>1. x \in Things /\ IsNamed(row'[x]) /\ x \in Creates(c)
          BY <1>1, <2>3, <3>1, ObjectFacts DEF Inserted, Sound, KindSound
        <4> QED
          BY <2>0, <2>3, <4>1, RowKinds DEF Inserted
      <3>2. CASE request[c].kind \in AboutProvider
        <4>1. x \in Calls /\ IsProvider(row'[x]) /\ x = c
          BY <1>1, <2>3, <3>2, ObjectFacts DEF Inserted, Sound, KindSound
        <4> QED
          BY <2>0, <2>3, <4>1, RowKinds DEF Inserted
      <3> QED
        BY <2>3, <3>1, <3>2 DEF Inserted
    <2>4. CASE Updated(c, x)
      <3>1. row'[x] = Overlay(row[x], changes[c]) /\ ~IsEmpty(row[x]) /\ x = Object(c)
        BY <2>4 DEF Updated
      <3>2. IsNamed(row[x]) \/ IsProvider(row[x])
        BY <2>0, <3>1
      <3>3. /\ IsNamed(row[x]) => IsNamed(row'[x])
            /\ IsProvider(row[x]) => IsProvider(row'[x])
            /\ row'[x].sort = row[x].sort
        BY <1>2, <3>1, <3>2, OverlayFacts
      <3> QED
        BY <2>0, <3>1, <3>2, <3>3, RowKinds
    <2> QED
      BY <2>1, <2>2, <2>3, <2>4, SavedRowsFacts
  <1>4. request[c].kind \in AboutThing \cup AboutProvider =>
            /\ Object(c) \in Rows
            /\ Inserted(c, Object(c)) \/ Updated(c, Object(c))
    BY <1>1, KeyFacts, SavedRowsFacts DEF Sound, KindSound
  <1> QED
    BY <1>3, <1>4, SavedRowsFacts, KeyFacts DEF RowsKept

\* What a commit makes of the variables, row by row and call by call.
Commits(c) ==
    /\ pc[c] = "commit" /\ pc'[c] = "answered" /\ InFlight(c)
    /\ \A d \in Calls \ {c} : Still(d)
    /\ UNCHANGED <<request, faults, overlap, crowd>>
    /\ RowsKept(c)
    /\ DOMAIN links' = Owners
    /\ \A o \in Owners :
        links'[o] = IF o = Object(c) THEN Kept(c) \cup Added(c) ELSE links[o]
    /\ tag' = tag \cup ({c} \X newTags[c])
    /\ DOMAIN providerOf' = Users
    /\ \A u \in Users :
        providerOf'[u] = IF request[c].kind = "apply" /\ u = request[c].user
                         THEN Object(c) ELSE providerOf[u]
    /\ DOMAIN pc' = Calls /\ DOMAIN entity' = Calls /\ DOMAIN loaded' = Calls
    /\ DOMAIN changes' = Calls /\ DOMAIN detached' = Calls /\ DOMAIN newTags' = Calls
    /\ entity'[c] = NoChange /\ changes'[c] = NoChange
    /\ detached'[c] = {} /\ newTags'[c] = {}

LEMMA CommitFacts ==
    ASSUME Inv, NEW c \in Calls, Commit(c)
    PROVE  Commits(c) /\ Sound(c)
  <1> USE DEF Inv
  <1>1. /\ pc[c] = "commit" /\ pc' = [pc EXCEPT ![c] = "answered"]
        /\ row' = SavedRows(c)
        /\ links' = IF Object(c) \in Owners
                    THEN [links EXCEPT ![Object(c)] = Kept(c) \cup Added(c)] ELSE links
        /\ tag' = tag \cup ({c} \X newTags[c])
        /\ providerOf' = IF request[c].kind = "apply"
                         THEN [providerOf EXCEPT ![request[c].user] = Object(c)] ELSE providerOf
        /\ UNCHANGED <<request, faults, overlap, crowd>>
    BY DEF Commit, Step, history
  <1>2. /\ entity' = [entity EXCEPT ![c] = NoChange]
        /\ loaded' = [loaded EXCEPT ![c] = {}]
        /\ changes' = [changes EXCEPT ![c] = NoChange]
        /\ detached' = [detached EXCEPT ![c] = {}]
        /\ newTags' = [newTags EXCEPT ![c] = {}]
    BY DEF Commit, Forget
  <1>3. RowsKept(c)
    BY <1>1, CommitRows
  <1>4. /\ DOMAIN links' = Owners
        /\ \A o \in Owners :
            links'[o] = IF o = Object(c) THEN Kept(c) \cup Added(c) ELSE links[o]
    <2>1. DOMAIN links = Owners
      BY DEF Stored
    <2> HIDE DEF Inv
    <2>2. CASE Object(c) \in Owners
      <3>1. links' = [links EXCEPT ![Object(c)] = Kept(c) \cup Added(c)]
        BY <1>1, <2>2
      <3> QED
        BY <2>1, <3>1
    <2>3. CASE Object(c) \notin Owners
      BY <1>1, <2>1, <2>3
    <2> QED
      BY <2>2, <2>3
  <1>5. /\ DOMAIN providerOf' = Users
        /\ \A u \in Users :
            providerOf'[u] = IF request[c].kind = "apply" /\ u = request[c].user
                             THEN Object(c) ELSE providerOf[u]
    <2>1. DOMAIN providerOf = Users
      BY DEF Stored
    <2> QED
      BY <1>1, <2>1
  <1>6. pc'[c] = "answered" /\ DOMAIN pc' = Calls /\ InFlight(c)
    BY <1>1 DEF Rested, InFlight, Open
  <1>7. \A d \in Calls \ {c} : Still(d)
    BY <1>1, <1>2 DEF Rested, Still
  <1>8. /\ DOMAIN entity' = Calls /\ DOMAIN loaded' = Calls
        /\ DOMAIN changes' = Calls /\ DOMAIN detached' = Calls /\ DOMAIN newTags' = Calls
        /\ entity'[c] = NoChange /\ changes'[c] = NoChange
        /\ detached'[c] = {} /\ newTags'[c] = {}
    BY <1>2 DEF Rested
  <1>9. Sound(c)
    BY <1>6 DEF Working
  <1> QED
    BY <1>1, <1>3, <1>4, <1>5, <1>6, <1>7, <1>8, <1>9 DEF Commits

LEMMA CommitWriters ==
    ASSUME NEW c \in Calls, Commits(c), NEW x
    PROVE  WritersOf(x)' = WritersOf(x) \cup (IF x = Object(c) THEN {c} ELSE {})
  <1>1. ASSUME NEW d \in Calls
        PROVE  (pc'[d] = "answered" /\ Object(d)' = x)
                    <=> (pc[d] = "answered" /\ Object(d) = x) \/ (d = c /\ x = Object(c))
    <2>1. CASE d = c
      BY <2>1 DEF Commits, Object
    <2>2. CASE d # c
      BY <2>2 DEF Commits, Still, Object
    <2> QED
      BY <2>1, <2>2
  <1> QED
    BY <1>1 DEF WritersOf

\* The links that a commit leaves are some that were there and the ones it adds.
LEMMA CommitLinks ==
    ASSUME NEW c \in Calls, Commits(c), NEW o \in Owners
    PROVE  /\ o # Object(c) => links'[o] = links[o]
           /\ links'[o] \subseteq links[o] \cup Added(c)
           /\ \A link \in Added(c) : link = <<link[1], link[2]>> /\ link[1] = c
                                     /\ link[2] \in request[c].add
           /\ o = Object(c) => links'[o] = Kept(c) \cup Added(c) /\ Kept(c) \subseteq links[o]
  <1>1. Added(c) = {c} \X request[c].add
    BY DEF Added
  <1>2. links'[o] = IF o = Object(c) THEN Kept(c) \cup Added(c) ELSE links[o]
    BY DEF Commits
  <1>3. Kept(c) \subseteq links[Object(c)]
    BY DEF Kept
  <1> QED
    BY <1>1, <1>2, <1>3

\* What the rows say of the clusters and the provider profiles only grows.
LEMMA CommitExisting ==
    ASSUME Stored, NEW c \in Calls, Commits(c), NEW sort, sort # "none"
    PROVE  Existing(sort) \subseteq Existing(sort)'
  <1>1. ASSUME NEW x \in Rows, row[x].sort = sort PROVE row'[x].sort = sort
    BY <1>1, RowKinds DEF Commits, RowsKept
  <1> QED
    BY <1>1 DEF Existing

LEMMA CommitStored ==
    ASSUME Inv, NEW c \in Calls, Commits(c), Sound(c)
    PROVE  Stored'
  <1> USE DEF Inv
  <1>1. DOMAIN row' = Rows /\ DOMAIN links' = Owners /\ DOMAIN providerOf' = Users
        /\ (\A x \in Things : IsEmpty(row'[x]) \/ IsNamed(row'[x]))
        /\ (\A p \in Calls : IsEmpty(row'[p]) \/ IsProvider(row'[p]))
    BY DEF Commits, RowsKept
  <1>2. tag' \subseteq Calls \X Tags
    <2>1. newTags[c] \subseteq Tags
      BY DEF Sound, LinksSound
    <2> QED
      BY <2>1 DEF Commits, Stored
  <1>3. ASSUME NEW x \in Things, IsEmpty(row'[x]) PROVE links'[x] = {}
    <2>1. IsEmpty(row[x])
      BY <1>3, KeyFacts DEF Commits, RowsKept
    <2>2. x # Object(c)
      <3>1. x = Object(c) => request[c].kind \in AboutThing
        BY ObjectFacts DEF Sound, KindSound, Stored
      <3> QED
        BY <1>3, <3>1 DEF Commits, RowsKept
    <2> QED
      BY <2>1, <2>2, CommitLinks, KeyFacts DEF Stored
  <1>4. \A o \in Owners : \A link \in links'[o] :
            link = <<link[1], link[2]>> /\ link[1] \in Calls
    <2>1. ASSUME NEW o \in Owners, NEW link \in links'[o]
          PROVE  link = <<link[1], link[2]>> /\ link[1] \in Calls
      <3>1. link \in links[o] \/ link \in Added(c)
        BY CommitLinks
      <3> QED
        BY <3>1, CommitLinks DEF Stored
    <2> QED
      BY <2>1
  <1>5. ASSUME NEW s \in Things PROVE \A t \in Linked(s)' : HasTag(t)'
    <2>1. ASSUME NEW link \in links'[s] PROVE HasTag(link[2])'
      <3>0. s \in Owners
        BY KeyFacts
      <3>1. CASE link \in links[s]
        <4>1. link[2] \in Linked(s)
          BY <3>1 DEF Linked
        <4>2. HasTag(link[2])
          BY <4>1 DEF Stored
        <4> QED
          BY <4>2 DEF Commits, HasTag
      <3>2. CASE link \notin links[s]
        <4>1. s = Object(c) /\ link[2] \in request[c].add
          BY <2>1, <3>0, <3>2, CommitLinks
        <4>2. request[c].kind \in AboutThing
          BY <4>1, ObjectFacts DEF Sound, KindSound
        <4>3. request[c].kind \in {"createService", "updateService"}
          BY <4>1, <4>2 DEF Sound, LinksSound, AboutThing
        <4>4. HasTag(link[2]) \/ link[2] \in newTags[c]
          BY <4>1, <4>3 DEF Sound, LinksSound, Commits
        <4>5. CASE link[2] \in newTags[c]
          <5>1. <<c, link[2]>> \in tag'
            BY <4>5 DEF Commits
          <5> QED
            BY <5>1 DEF HasTag, SameTag
        <4>6. CASE HasTag(link[2])
          BY <4>6 DEF Commits, HasTag
        <4> QED
          BY <4>4, <4>5, <4>6
      <3> QED
        BY <3>1, <3>2
    <2> QED
      BY <2>1 DEF Linked
  <1>6. ASSUME NEW u \in Users PROVE Linked(u)' \subseteq Existing("cluster")'
    <2>1. Existing("cluster") \subseteq Existing("cluster")'
      BY CommitExisting
    <2>2. ASSUME NEW link \in links'[u] PROVE link[2] \in Existing("cluster")
      <3>0. u \in Owners
        BY KeyFacts
      <3>1. CASE link \in links[u]
        BY <3>1 DEF Linked, Stored
      <3>2. CASE link \notin links[u]
        <4>1. u = Object(c) /\ link[2] \in request[c].add
          BY <2>2, <3>0, <3>2, CommitLinks
        <4>2. request[c].kind \in AboutUser
          BY <4>1, <3>0, ObjectFacts DEF Sound, KindSound
        <4> QED
          BY <4>1, <4>2 DEF Sound, LinksSound
      <3> QED
        BY <3>1, <3>2
    <2> QED
      BY <2>1, <2>2 DEF Linked
  <1> QED
    BY <1>1, <1>2, <1>3, <1>4, <1>5, <1>6 DEF Stored

LEMMA CommitBegun ==
    ASSUME Inv, NEW c \in Calls, Commits(c), Sound(c)
    PROVE  Begun'
  <1> USE DEF Inv
  <1>1. ASSUME NEW d \in Calls, pc'[d] \in {"idle"} \cup Open
        PROVE  Unborn(d)'
    <2>1. d # c /\ Unborn(d)
      BY <1>1 DEF Commits, Still, Open, Begun
    <2>2. \A x \in Rows : IsEmpty(row[x]) /\ x \notin Creates(c) \cup {c} => IsEmpty(row'[x])
      BY DEF Commits, RowsKept
    <2>3. IsEmpty(row'[d])
      <3>1. d \in Rows /\ d \notin Creates(c)
        BY KeyFacts DEF Creates
      <3> QED
        BY <2>1, <2>2, <3>1 DEF Unborn
    <2>4. \A word \in Words : IsEmpty(row'[<<d, word>>])
      <3>1. \A word \in Words :
                <<d, word>> \in Rows /\ <<d, word>> \notin Creates(c) /\ <<d, word>> # c
        BY <2>1, KeyFacts DEF Creates
      <3> QED
        BY <2>1, <2>2, <3>1 DEF Unborn
    <2>5. \A r \in tag' : r[1] # d
      BY <2>1 DEF Unborn, Commits
    <2>6. \A o \in Owners : \A link \in links'[o] : link[1] # d
      <3>1. ASSUME NEW o \in Owners, NEW link \in links'[o] PROVE link[1] # d
        <4>1. link \in links[o] \/ link \in Added(c)
          BY CommitLinks
        <4> QED
          BY <2>1, <4>1, CommitLinks DEF Unborn
      <3> QED
        BY <3>1
    <2> QED
      BY <2>3, <2>4, <2>5, <2>6 DEF Unborn, IsEmpty, Absent
  <1> QED
    BY <1>1 DEF Begun, Open

LEMMA CommitRested ==
    ASSUME Inv, NEW c \in Calls, Commits(c), Sound(c)
    PROVE  Rested' /\ Met'
  <1> USE DEF Inv
  <1>1. ASSUME NEW d \in Calls
        PROVE  /\ pc'[d] \in {"idle", "answered", "failed"} \cup Open
               /\ ~InFlight(d)' => /\ changes'[d] = NoChange /\ detached'[d] = {}
                                   /\ newTags'[d] = {} /\ entity'[d] = NoChange
    <2>1. CASE d = c
      BY <2>1 DEF Commits
    <2>2. CASE d # c
      BY <2>2 DEF Commits, Still, Rested, InFlight
    <2> QED
      BY <2>1, <2>2
  <1>2. Rested'
    BY <1>1 DEF Rested, Commits, NoChange, InFlight, Open
  <1>3. \A d \in Calls : InFlight(d)' => InFlight(d)
    BY DEF Commits, Still, InFlight, Open
  <1>4. Met'
    BY <1>3 DEF Met, Commits, Topics, Object
  <1> QED
    BY <1>2, <1>4

-----------------------------------------------------------------------------
(* What a commit leaves of the soundness of the calls that go on.          *)

\* Calls c and d are at work at once.
Together(c, d) ==
    /\ c # d /\ InFlight(c) /\ InFlight(d) /\ Sound(c) /\ Sound(d)
    /\ {c, d} \in crowd /\ {d, c} \in crowd
    /\ Topics(c) \cap Topics(d) \subseteq overlap

LEMMA TogetherFacts ==
    ASSUME Inv, NEW c \in Calls, NEW d \in Calls, c # d, InFlight(c), InFlight(d)
    PROVE  Together(c, d)
  <1>1. {d, c} = {c, d}
    OBVIOUS
  <1> QED
    BY <1>1 DEF Together, Inv, Working, Met

\* A commit changes the row and the links of whoever shares them only if that is known.
LEMMA OthersTopics ==
    ASSUME Inv, NEW c \in Calls, NEW d \in Calls, Commits(c), Together(c, d)
    PROVE  /\ Object(d) = Object(c) => Object(d) \in overlap
           /\ Object(d) \in Owners /\ Object(d) \notin overlap
                => links'[Object(d)] = links[Object(d)]
           /\ request[d].kind = "apply" /\ <<"provider", request[d].user>> \notin overlap
                => providerOf'[request[d].user] = providerOf[request[d].user]
           /\ Object(d) \in Rows /\ Object(d) \notin overlap /\ Object(d) \notin Creates(c)
                => row'[Object(d)] = row[Object(d)]
  <1>1. Object(d) = Object(c) => Object(d) \in overlap
    BY DEF Together, Topics
  <1>2. Object(d) \in Owners /\ Object(d) \notin overlap
            => links'[Object(d)] = links[Object(d)]
    BY <1>1 DEF Commits
  <1>3. ASSUME request[d].kind = "apply", <<"provider", request[d].user>> \notin overlap
        PROVE  providerOf'[request[d].user] = providerOf[request[d].user]
    <2>1. request[d].user \in Users
      BY <1>3 DEF Together, Sound, KindSound, AboutProvider
    <2>2. ~(request[c].kind = "apply" /\ request[d].user = request[c].user)
      BY <1>3 DEF Together, Topics
    <2> QED
      BY <2>1, <2>2 DEF Commits
  <1>4. Object(d) \in Rows /\ Object(d) \notin overlap /\ Object(d) \notin Creates(c)
            => row'[Object(d)] = row[Object(d)]
    BY <1>1 DEF Commits, RowsKept
  <1> QED
    BY <1>1, <1>2, <1>3, <1>4

LEMMA OthersKind ==
    ASSUME Inv, NEW c \in Calls, NEW d \in Calls, Commits(c), Together(c, d), Still(d)
    PROVE  KindSound(d)' /\ ClauseSound(d)'
  <1> DEFINE o == Object(d)
             kind == request[d].kind
  <1>0. KindSound(d) /\ ClauseSound(d) /\ request' = request /\ Object(d)' = o
    BY DEF Together, Sound, Commits, Object
  <1>1. ASSUME o \in Rows
        PROVE  /\ IsEmpty(row'[o]) => IsEmpty(row[o])
               /\ ~IsEmpty(row[o]) => row'[o].sort = row[o].sort
    BY <1>1 DEF Commits, RowsKept
  <1>2. kind \in AboutThing =>
            /\ o \in Things /\ IsNamed(entity'[d])
            /\ IsEmpty(row'[o]) => pc'[d] \notin {"reload", "update"} /\ o \in Creates(d)
            /\ IsNamed(row'[o]) => row'[o].sort = entity'[d].sort
            /\ kind \in {"createService", "createCluster"} => o \in Creates(d)
    <2>1. CASE kind \in AboutThing
      <3>1. o \in Things /\ o \in Rows /\ (IsEmpty(row[o]) \/ IsNamed(row[o]))
        BY <1>0, <2>1, ObjectFacts, KeyFacts DEF Inv
      <3>2. IsEmpty(row[o]) => IsEmpty(row'[o])
        <4>1. ASSUME IsEmpty(row[o]) PROVE IsEmpty(row'[o])
          <5>1. o \in Creates(d)
            BY <1>0, <2>1, <4>1 DEF KindSound
          <5>2. o \notin Creates(c) \cup {c}
            BY <3>1, <5>1, KeyFacts DEF Creates, Together
          <5> QED
            BY <3>1, <4>1, <5>2 DEF Commits, RowsKept
        <4> QED
          BY <4>1
      <3> QED
        BY <1>0, <1>1, <2>1, <3>1, <3>2, RowKinds DEF KindSound, Still
    <2> QED
      BY <2>1
  <1>3. kind \in AboutProvider =>
            /\ o \in Calls /\ IsProvider(entity'[d])
            /\ request'[d].user \in Users /\ request'[o].user = request'[d].user
            /\ IsEmpty(row'[o]) => o = d /\ kind = "apply" /\ pc'[d] = "commit"
    BY <1>0, <1>1, KeyFacts DEF KindSound, Still
  <1>4. KindSound(d)'
    <2>1. kind \in AboutUser => o \in Users /\ request[d].user = o
      BY <1>0 DEF KindSound
    <2>2. kind = "seed" => o = <<"seed", d>> /\ request[d].add \subseteq Words
      BY <1>0 DEF KindSound
    <2>3. kind \in AboutUser \cup {"seed"} =>
            entity'[d] = NoChange /\ pc'[d] \in {"unlink", "commit"}
      BY <1>0 DEF KindSound, Still
    <2>4. kind \in AboutThing \cup AboutUser \cup AboutProvider \cup {"seed"}
      BY <1>0 DEF KindSound
    <2> QED
      BY <1>0, <1>2, <1>3, <2>1, <2>2, <2>3, <2>4
      DEF KindSound, IsEmpty, IsNamed, IsProvider, Absent, NoChange, Creates
  <1>5. ClauseSound(d)'
    <2>1. \A k \in DOMAIN changes'[d] :
            k \in DOMAIN entity'[d] /\ changes'[d][k] = entity'[d][k] /\ k # "sort"
      BY <1>0 DEF ClauseSound, Still
    <2>2. changes'[d] # NoChange =>
            kind \notin AboutUser \cup {"seed"} /\ ~IsEmpty(row'[o])
      <3>1. ASSUME changes[d] # NoChange
            PROVE  kind \notin AboutUser \cup {"seed"} /\ ~IsEmpty(row'[o])
        <4>1. kind \notin AboutUser \cup {"seed"} /\ ~IsEmpty(row[o])
          BY <1>0, <3>1 DEF ClauseSound
        <4>2. o \in Rows
          BY <1>0, <4>1, KeyFacts DEF KindSound
        <4> QED
          BY <1>1, <4>1, <4>2
      <3> QED
        BY <3>1 DEF Still
    <2> QED
      BY <1>0, <2>1, <2>2 DEF ClauseSound, IsEmpty, Absent, NoChange
  <1> QED
    BY <1>4, <1>5

LEMMA OthersLinks ==
    ASSUME Inv, NEW c \in Calls, NEW d \in Calls, Commits(c), Together(c, d), Still(d)
    PROVE  LinksSound(d)'
  <1> DEFINE o == Object(d)
             kind == request[d].kind
  <1>0. KindSound(d) /\ LinksSound(d) /\ request' = request /\ Object(d)' = o
        /\ overlap' = overlap /\ crowd' = crowd
    BY DEF Together, Sound, Commits, Object
  <1>1. kind \in {"createService", "updateService"} \cup AboutUser => o \in Owners
    BY <1>0, ObjectFacts DEF Inv, AboutThing
  <1>2. o \in Owners /\ o \notin overlap => links'[o] = links[o] /\ Linked(o)' = Linked(o)
    BY <1>0, OthersTopics DEF Linked
  <1>3. \A t : HasTag(t) => HasTag(t)'
    BY DEF Commits, HasTag
  <1>4. Existing("cluster") \subseteq Existing("cluster")'
    BY CommitExisting DEF Inv
  <1>5. \A r \in tag' : \A t \in newTags[d] : SameTag(r[2], t) => {d, r[1]} \in crowd
    <2>1. ASSUME NEW r \in tag', NEW t \in newTags[d], SameTag(r[2], t)
          PROVE  {d, r[1]} \in crowd
      <3>1. r \in tag \/ r[1] = c
        BY DEF Commits
      <3> QED
        BY <1>0, <2>1, <3>1 DEF LinksSound, Together
    <2> QED
      BY <2>1
  <1>6. kind \in {"createService", "updateService"} =>
            /\ request[d].add \subseteq Tags
            /\ pc[d] = "unlink" \/ (pc[d] = "commit" /\ request[d].add # {}) =>
                \A t \in request[d].add : HasTag(t)' \/ t \in newTags[d]
            /\ o \notin overlap => detached[d] = {}
            /\ o \notin overlap /\ kind = "updateService" => loaded[d] = links'[o]
    BY <1>0, <1>1, <1>2, <1>3 DEF LinksSound
  <1>7. /\ kind \in AboutUser => request[d].add \subseteq Existing("cluster")'
        /\ kind = "join" /\ o \notin overlap => request[d].add \cap Linked(o)' = {}
        /\ kind = "override" /\ o \notin overlap => loaded[d] = links'[o]
    BY <1>0, <1>1, <1>2, <1>4 DEF LinksSound, AboutUser
  <1>8. /\ loaded[d] = {} \/ kind \in {"updateService", "override"}
        /\ detached[d] = {} \/ kind = "updateService"
        /\ kind \in {"deleteService", "createCluster", "updateCluster", "leave"} \cup AboutProvider
            => request[d].add = {}
        /\ newTags[d] \subseteq request[d].add
        /\ \A t \in newTags[d], other \in request[d].add :
                SameTag(t, other) => other \in newTags[d]
        /\ newTags[d] # {} => kind \in {"createService", "updateService"}
    BY <1>0 DEF LinksSound
  <1>9. /\ loaded'[d] = loaded[d] /\ detached'[d] = detached[d] /\ newTags'[d] = newTags[d]
        /\ pc'[d] = pc[d]
    BY DEF Still
  <1> HIDE DEF o, kind
  <1> QED
    BY <1>0, <1>5, <1>6, <1>7, <1>8, <1>9 DEF LinksSound, o, kind

\* A name that is new in a row is the name of what the call has saved.
LEMMA CommitNamed ==
    ASSUME Inv, NEW c \in Calls, Commits(c), row' = SavedRows(c), Sound(c), NEW x \in Things,
           row'[x] # Absent, row'[x].name[2] = "lower"
    PROVE  \/ ~IsEmpty(row[x]) /\ row'[x].sort = row[x].sort /\ row'[x].name = row[x].name
           \/ /\ x = Object(c) /\ request[c].kind \in AboutThing
              /\ row'[x].sort = entity[c].sort /\ row'[x].name = entity[c].name
  <1>0. pc[c] = "commit" /\ x \in Rows /\ (IsEmpty(row[x]) \/ IsNamed(row[x]))
    BY KeyFacts DEF Commits, Inv, Stored
  <1>1. CASE Keeps(x)
    BY <1>1 DEF Keeps, IsEmpty
  <1>2. CASE Seeded(c, x)
    BY <1>2, NamedFacts, NameFacts DEF Seeded
  <1>3. CASE Inserted(c, x) \/ Updated(c, x)
    <2>1. x = Object(c) /\ request[c].kind \in AboutThing
      BY <1>3, ObjectFacts DEF Inserted, Updated, Sound, Inv
    <2>2. CASE Inserted(c, x)
      BY <2>1, <2>2 DEF Inserted
    <2>3. CASE Updated(c, x)
      <3>1. row'[x] = Overlay(row[x], changes[c]) /\ IsNamed(row[x]) /\ ~IsEmpty(row[x])
        BY <1>0, <2>3 DEF Updated
      <3>2. \A k \in DOMAIN changes[c] : k # "sort" /\ changes[c][k] = entity[c][k]
        BY DEF Sound, ClauseSound
      <3>3. /\ row'[x].sort = row[x].sort
            /\ row'[x].name = IF "name" \in DOMAIN changes[c] THEN changes[c]["name"]
                              ELSE row[x].name
        BY <3>1, <3>2, OverlayFacts
      <3>4. row[x].sort = entity[c].sort
        BY <2>1, <3>1 DEF Sound, KindSound
      <3>5. "name" \in DOMAIN changes[c] => changes[c]["name"] = entity[c].name
        BY <3>2
      <3> QED
        BY <2>1, <3>1, <3>3, <3>4, <3>5
    <2> QED
      BY <1>3, <2>2, <2>3
  <1> QED
    BY <1>0, <1>1, <1>2, <1>3, SavedRowsFacts

LEMMA OthersName ==
    ASSUME Inv, NEW c \in Calls, NEW d \in Calls, Commits(c), row' = SavedRows(c),
           Together(c, d), Still(d)
    PROVE  NameSound(d)'
  <1>0. /\ KindSound(d) /\ NameSound(d) /\ Sound(c) /\ Object(d)' = Object(d)
        /\ request'[d] = request[d] /\ entity'[d] = entity[d] /\ crowd' = crowd
    BY DEF Together, Sound, Still, Object, Commits
  <1> SUFFICES ASSUME request[d].kind \in AboutThing, NEW y \in Things \ {Object(d)},
                      row'[y].sort = entity[d].sort, row'[y].name = entity[d].name,
                      entity[d].name[2] = "lower"
               PROVE  \E e \in WritersOf(Object(d))' \cup {d}, f \in WritersOf(y)' :
                            {e, f} \in crowd'
    BY <1>0 DEF NameSound, Crowded
  <1>1. row'[y] # Absent
    <2>1. IsNamed(entity[d])
      BY <1>0 DEF KindSound
    <2> QED
      BY <2>1, RowKinds DEF IsEmpty
  <1>2. WritersOf(Object(d)) \subseteq WritersOf(Object(d))' /\ WritersOf(y) \subseteq WritersOf(y)'
    <2>1. \A x : WritersOf(x) \subseteq WritersOf(x)'
      BY CommitWriters
    <2> QED
      BY <1>0, <2>1 DEF WritersOf
  <1>3. CASE ~IsEmpty(row[y]) /\ row'[y].sort = row[y].sort /\ row'[y].name = row[y].name
    <2>1. Crowded(WritersOf(Object(d)) \cup {d}, WritersOf(y))
      BY <1>0, <1>3 DEF NameSound
    <2> QED
      BY <1>0, <1>2, <2>1 DEF Crowded
  <1>4. CASE y = Object(c)
    <2>1. c \in WritersOf(y)'
      BY <1>4, CommitWriters
    <2> QED
      BY <1>0, <2>1 DEF Crowded, Together
  <1> QED
    BY <1>0, <1>1, <1>3, <1>4, CommitNamed

LEMMA OthersOwner ==
    ASSUME Inv, NEW c \in Calls, NEW d \in Calls, Commits(c), Together(c, d), Still(d)
    PROVE  OwnerSound(d)'
  <1> DEFINE o == Object(d)
             u == request[d].user
  <1>0. KindSound(d) /\ OwnerSound(d) /\ request' = request /\ Object(d)' = o
        /\ overlap' = overlap /\ entity'[d] = entity[d]
    BY DEF Together, Sound, Commits, Object, Still
  <1>1. request[d].kind = "apply" /\ <<"provider", u>> \notin overlap =>
            o = IF providerOf'[u] = NoProvider THEN d ELSE providerOf'[u]
    BY <1>0, OthersTopics DEF OwnerSound
  <1>2. ASSUME request[d].kind = "apply", o \notin overlap, IsProvider(row'[o])
        PROVE  entity[d].ratings = row'[o].ratings
    <2>1. o \in Calls /\ o \in Rows /\ o \notin Creates(c)
      BY <1>0, <1>2, KeyFacts DEF KindSound, AboutProvider, Creates
    <2>2. row'[o] = row[o]
      BY <1>2, <2>1, OthersTopics
    <2> QED
      BY <1>0, <1>2, <2>2 DEF OwnerSound, IsProvider
  <1> QED
    BY <1>0, <1>1, <1>2 DEF OwnerSound, IsProvider

LEMMA CommitWorking ==
    ASSUME Inv, NEW c \in Calls, Commits(c), row' = SavedRows(c), Sound(c)
    PROVE  Working'
  <1>1. ASSUME NEW d \in Calls, InFlight(d)' PROVE Sound(d)'
    <2>1. d # c /\ Still(d) /\ InFlight(d)
      BY <1>1 DEF Commits, InFlight, Open, Still
    <2>2. Together(c, d)
      BY <2>1, TogetherFacts DEF Commits
    <2> QED
      BY <2>1, <2>2, OthersKind, OthersLinks, OthersName, OthersOwner DEF Sound
  <1> QED
    BY <1>1 DEF Working

-----------------------------------------------------------------------------
(* What a commit leaves of the facts about the rows.                       *)

LEMMA CommitOwned ==
    ASSUME Inv, NEW c \in Calls, Commits(c), Sound(c)
    PROVE  Owned'
  <1> USE DEF Inv
  <1>0. request' = request
    BY DEF Commits
  <1>1. ASSUME NEW p \in Calls, IsProvider(row'[p])
        PROVE  pc'[p] = "answered" /\ request[p].user \in Users
    <2>1. p \in Rows /\ p \notin Creates(c)
      BY KeyFacts DEF Creates
    <2>2. CASE IsProvider(row[p])
      BY <2>2 DEF Owned, Commits, Still
    <2>3. CASE ~IsProvider(row[p])
      <3>1. IsEmpty(row[p])
        BY <2>3 DEF Stored
      <3>2. p = c
        BY <1>1, <2>1, <3>1, RowKinds DEF Commits, RowsKept
      <3>3. request[c].kind \in AboutProvider
        <4>1. p = Object(c)
          <5>1. row'[p] # row[p]
            BY <1>1, <2>3
          <5> QED
            BY <2>1, <5>1 DEF Commits, RowsKept
        <4> QED
          BY <4>1, ObjectFacts DEF Sound, KindSound
      <3> QED
        BY <3>2, <3>3 DEF Sound, KindSound, Commits
    <2> QED
      BY <2>2, <2>3
  <1>2. ASSUME NEW u \in Users, providerOf'[u] # NoProvider
        PROVE  /\ providerOf'[u] \in Calls /\ IsProvider(row'[providerOf'[u]])
               /\ request[providerOf'[u]].user = u
    <2>1. CASE request[c].kind = "apply" /\ u = request[c].user
      <3>1. providerOf'[u] = Object(c) /\ Object(c) \in Calls /\ request[Object(c)].user = u
        BY <2>1 DEF Commits, Sound, KindSound, AboutProvider
      <3>2. ~IsEmpty(row'[Object(c)])
        BY <2>1 DEF Commits, RowsKept, AboutProvider
      <3> QED
        BY <3>1, <3>2 DEF Commits, RowsKept
    <2>2. CASE ~(request[c].kind = "apply" /\ u = request[c].user)
      <3>1. providerOf'[u] = providerOf[u]
        BY <2>2 DEF Commits
      <3>2. /\ providerOf[u] \in Calls /\ IsProvider(row[providerOf[u]])
            /\ request[providerOf[u]].user = u
        BY <1>2, <3>1 DEF Owned
      <3>3. providerOf[u] \in Rows
        BY <3>2, KeyFacts
      <3>4. IsProvider(row'[providerOf[u]])
        BY <3>2, <3>3, RowKinds DEF Commits, RowsKept
      <3> QED
        BY <3>1, <3>2, <3>4
    <2> QED
      BY <2>1, <2>2
  <1>3. ASSUME NEW p \in Calls, IsProvider(row[p])'
        PROVE  pc'[p] = "answered" /\ request'[p].user \in Users
    BY <1>0, <1>1, <1>3 DEF IsProvider
  <1>4. ASSUME NEW u \in Users, providerOf'[u] # NoProvider
        PROVE  /\ providerOf'[u] \in Calls /\ IsProvider(row[providerOf[u]])'
               /\ request'[providerOf'[u]].user = u
    BY <1>0, <1>2, <1>4 DEF IsProvider
  <1> QED
    BY <1>3, <1>4 DEF Owned

LEMMA CommitNames ==
    ASSUME Inv, NEW c \in Calls, Commits(c), row' = SavedRows(c), Sound(c)
    PROVE  NamesOnce'
  <1> USE DEF Inv
  <1>0. /\ \A x : WritersOf(x) \subseteq WritersOf(x)'
        /\ c \in WritersOf(Object(c))'
        /\ crowd' = crowd
    <2>1. c \in WritersOf(Object(c))'
      BY DEF Commits, WritersOf, Object
    <2> QED
      BY <2>1, CommitWriters DEF Commits
  <1> DEFINE Clash(x, y) ==
           \E d \in WritersOf(x)', e \in WritersOf(y)' : {d, e} \in crowd'
  <1>1. ASSUME NEW x, NEW y, Clash(x, y) PROVE Clash(y, x)
    <2>1. \A d, e : {d, e} = {e, d}
      OBVIOUS
    <2> QED
      BY <1>1, <2>1
  \* The call has saved x with a name that y had already.
  <1>2. ASSUME NEW x \in Things, NEW y \in Things \ {x}, x = Object(c),
               request[c].kind \in AboutThing,
               row[y].sort = entity[c].sort, row[y].name = entity[c].name,
               entity[c].name[2] = "lower"
        PROVE  Clash(x, y)
    <2>1. Crowded(WritersOf(x) \cup {c}, WritersOf(y))
      BY <1>2 DEF Sound, NameSound
    <2>2. c \in WritersOf(x)'
      BY <1>2, CommitWriters
    <2> QED
      BY <1>0, <2>1, <2>2 DEF Crowded
  <1>3. ASSUME NEW x \in Things, NEW y \in Things, x # y, row'[x] # Absent,
               row'[y].sort = row'[x].sort, row'[x].name = row'[y].name,
               row'[x].name[2] = "lower"
        PROVE  Clash(x, y)
    <2>1. row'[y] # Absent
      BY <1>3, KeyFacts, RowKinds DEF Commits, RowsKept, IsEmpty
    <2>2. DEFINE Old(z) == ~IsEmpty(row[z]) /\ row'[z].sort = row[z].sort
                            /\ row'[z].name = row[z].name
                 New(z) == /\ z = Object(c) /\ request[c].kind \in AboutThing
                           /\ row'[z].sort = entity[c].sort /\ row'[z].name = entity[c].name
    <2>3. (Old(x) \/ New(x)) /\ (Old(y) \/ New(y))
      BY <1>3, <2>1, CommitNamed
    <2>4. CASE Old(x) /\ Old(y)
      <3>1. Crowded(WritersOf(x), WritersOf(y))
        BY <1>3, <2>4 DEF Facts, NamesOnce, IsEmpty
      <3> QED
        BY <1>0, <3>1 DEF Crowded
    <2>5. CASE New(x) /\ Old(y)
      BY <1>2, <1>3, <2>5
    <2>6. CASE Old(x) /\ New(y)
      <3>1. Clash(y, x)
        BY <1>2, <1>3, <2>6
      <3> QED
        BY <1>1, <3>1
    <2> QED
      BY <1>3, <2>3, <2>4, <2>5, <2>6
  <1>4. \A r \in tag' : r \in tag \/ (r[1] = c /\ r[2] \in newTags[c])
    BY DEF Commits
  <1>5. ASSUME NEW r \in tag', NEW s \in tag', SameTag(r[2], s[2])
        PROVE  r[1] = s[1] \/ {r[1], s[1]} \in crowd
    <2>1. \A q \in tag : \A t \in newTags[c] : SameTag(q[2], t) => {c, q[1]} \in crowd
      BY DEF Sound, LinksSound
    <2>2. SameTag(s[2], r[2])
      BY <1>5 DEF SameTag
    <2>3. CASE r \in tag /\ s \in tag
      BY <1>5, <2>3 DEF Facts, NamesOnce
    <2>4. CASE r \notin tag /\ s \in tag
      BY <1>4, <2>1, <2>2, <2>4
    <2>5. CASE r \in tag /\ s \notin tag
      <3>1. {c, r[1]} = {r[1], c}
        OBVIOUS
      <3> QED
        BY <1>4, <1>5, <2>1, <2>5, <3>1
    <2>6. CASE r \notin tag /\ s \notin tag
      BY <1>4, <2>6
    <2> QED
      BY <2>3, <2>4, <2>5, <2>6
  <1>6. ASSUME NEW r \in tag', NEW t \in request'[r[1]].add, SameTag(r[2], t)
        PROVE  <<r[1], t>> \in tag'
    <2>1. t \in request[r[1]].add
      BY DEF Commits
    <2>2. CASE r \in tag
      BY <1>6, <2>1, <2>2 DEF Facts, NamesOnce, Commits
    <2>3. CASE r[1] = c /\ r[2] \in newTags[c]
      <3>1. t \in newTags[c]
        BY <1>6, <2>1, <2>3 DEF Sound, LinksSound
      <3> QED
        BY <2>3, <3>1 DEF Commits
    <2> QED
      BY <1>4, <2>2, <2>3
  <1> QED
    BY <1>0, <1>3, <1>5, <1>6 DEF NamesOnce, Crowded, Absent

\* The links of an owner that only one call works on: what was there, or what the call asked
\* for, or both.
LEMMA CommitKept ==
    ASSUME Inv, NEW c \in Calls, Commits(c), Sound(c), Object(c) \in Owners,
           Object(c) \notin overlap
    PROVE  /\ request[c].kind \in AboutThing =>
                \/ links'[Object(c)] = links[Object(c)]
                \/ links'[Object(c)] = Added(c)
           /\ request[c].kind \in AboutUser =>
                \/ links'[Object(c)] = Added(c)
                \/ /\ links'[Object(c)] = links[Object(c)] \cup Added(c)
                   /\ request[c].add \cap Linked(Object(c)) = {}
  <1> DEFINE o == Object(c)
  <1>1. links'[o] = Kept(c) \cup Added(c)
    BY CommitLinks
  <1>2. Kept(c) = links[o] \ (detached[c] \cup IF Unlinks(c) THEN loaded[c] ELSE {})
    BY DEF Kept
  <1>3. request[c].add = {} => Added(c) = {}
    BY DEF Added
  <1>4. CASE request[c].kind \in AboutThing
    <2>1. detached[c] = {}
      BY <1>4 DEF Sound, LinksSound, AboutThing
    <2>2. CASE request[c].kind = "updateService" /\ request[c].add # {}
      <3>1. loaded[c] = links[o] /\ Unlinks(c)
        BY <2>2 DEF Sound, LinksSound, Unlinks
      <3> QED
        BY <1>1, <1>2, <3>1, <1>4 DEF AboutThing, AboutUser
    <2>3. CASE request[c].kind = "createService"
      <3>1. IsEmpty(row[o]) /\ o \in Things
        <4>1. o \in Creates(c) /\ o \in Things
          BY <2>3 DEF Sound, KindSound, AboutThing
        <4>2. Unborn(c)
          BY DEF Inv, Begun, Commits, Open
        <4> QED
          BY <4>1, <4>2 DEF Unborn, Creates
      <3>2. links[o] = {}
        BY <3>1 DEF Inv, Stored
      <3> QED
        BY <1>1, <1>2, <1>4, <3>2 DEF AboutThing, AboutUser
    <2>4. CASE request[c].add = {}
      <3>1. ~Unlinks(c)
        BY <1>4, <2>4 DEF Unlinks, AboutThing
      <3> QED
        BY <1>1, <1>2, <1>3, <1>4, <2>1, <2>4, <3>1 DEF AboutThing, AboutUser
    <2> QED
      BY <1>4, <2>2, <2>3, <2>4 DEF Sound, LinksSound, AboutThing
  <1>5. CASE request[c].kind \in AboutUser
    <2>1. detached[c] = {}
      BY <1>5 DEF Sound, LinksSound, AboutUser
    <2>2. request[c].kind \notin AboutThing
      BY <1>5 DEF AboutUser, AboutThing
    <2>3. CASE request[c].kind = "override"
      <3>1. loaded[c] = links[o] /\ Unlinks(c)
        BY <2>3 DEF Sound, LinksSound, Unlinks
      <3> QED
        BY <1>1, <1>2, <2>2, <3>1
    <2>4. CASE request[c].kind = "join"
      <3>1. loaded[c] = {} /\ request[c].add \cap Linked(o) = {}
        BY <2>4 DEF Sound, LinksSound
      <3> QED
        BY <1>1, <1>2, <2>1, <2>2, <3>1
    <2>5. CASE request[c].kind = "leave"
      <3>1. loaded[c] = {} /\ request[c].add = {}
        BY <2>5 DEF Sound, LinksSound
      <3> QED
        BY <1>1, <1>2, <2>1, <2>2, <3>1
    <2> QED
      BY <1>5, <2>3, <2>4, <2>5 DEF AboutUser
  <1> QED
    BY <1>4, <1>5 DEF AboutThing, AboutUser

LEMMA CommitLinksFacts ==
    ASSUME Inv, NEW c \in Calls, Commits(c), Sound(c)
    PROVE  LinksOfOneRequest' /\ MemberOnce'
  <1> USE DEF Inv
  <1>0. overlap' = overlap /\ request' = request
    BY DEF Commits
  <1>1. ASSUME NEW s \in Things \ overlap, links'[s] # {}
        PROVE  \E d \in Calls : links'[s] = {d} \X request[d].add
    <2>0. s \in Owners
      BY KeyFacts
    <2>1. CASE links'[s] = links[s]
      BY <1>1, <2>1 DEF Facts, LinksOfOneRequest
    <2>2. CASE links'[s] # links[s]
      <3>1. s = Object(c)
        BY <2>0, <2>2, CommitLinks
      <3>2. request[c].kind \in AboutThing
        BY <3>1, ObjectFacts DEF Sound, KindSound
      <3>3. links'[s] = Added(c)
        BY <1>1, <2>0, <2>2, <3>1, <3>2, CommitKept
      <3> QED
        BY <3>3 DEF Added
    <2> QED
      BY <2>1, <2>2
  <1>2. ASSUME NEW u \in Users \ overlap, NEW one \in links'[u], NEW other \in links'[u],
               one[2] = other[2]
        PROVE  one = other
    <2>0. u \in Owners
      BY KeyFacts
    <2>1. \A l \in links[u], k \in links[u] : l[2] = k[2] => l = k
      BY DEF Facts, MemberOnce
    <2>2. \A l \in Added(c), k \in Added(c) : l[2] = k[2] => l = k
      BY DEF Added
    <2>3. CASE u # Object(c)
      BY <1>2, <2>0, <2>1, <2>3, CommitLinks
    <2>4. CASE u = Object(c)
      <3>1. request[c].kind \in AboutUser
        BY <2>0, <2>4, ObjectFacts DEF Sound, KindSound
      <3>2. CASE links'[u] = Added(c)
        BY <1>2, <2>2, <3>2
      <3>3. CASE /\ links'[u] = links[u] \cup Added(c)
                 /\ request[c].add \cap Linked(u) = {}
        <4>1. \A l \in links[u] : l[2] \in Linked(u)
          BY DEF Linked
        <4>2. \A l \in Added(c) : l[2] \in request[c].add
          BY DEF Added
        <4>3. \A l \in links[u], k \in Added(c) : l[2] # k[2]
          BY <3>3, <4>1, <4>2
        <4> QED
          BY <1>2, <2>1, <2>2, <3>3, <4>3
      <3> QED
        BY <1>2, <2>0, <2>4, <3>1, <3>2, <3>3, CommitKept
    <2> QED
      BY <2>3, <2>4
  <1> QED
    BY <1>0, <1>1, <1>2 DEF LinksOfOneRequest, MemberOnce

LEMMA CommitProviders ==
    ASSUME Inv, NEW c \in Calls, Commits(c), Sound(c)
    PROVE  ProviderOwned'
  <1> USE DEF Inv
  <1>0. overlap' = overlap /\ request' = request
    BY DEF Commits
  <1>1. ASSUME NEW p \in Rows, row'[p].sort = "provider"
        PROVE  \/ providerOf'[request[p].user] = p
               \/ <<"provider", request[p].user>> \in overlap
    <2>1. p \in Calls /\ IsProvider(row'[p])
      <3>1. p \in Calls
        BY <1>1, KeyFacts, RowKinds DEF Commits, RowsKept, IsNamed
      <3> QED
        BY <1>1, <3>1, RowKinds DEF Commits, RowsKept
    <2>2. CASE IsProvider(row[p])
      <3> DEFINE u == request[p].user
      <3>1. p \in Existing("provider") /\ u \in Users
        BY <1>1, <2>1, <2>2 DEF Existing, IsProvider, Owned
      <3>2. providerOf[u] = p \/ <<"provider", u>> \in overlap
        BY <2>1, <3>1 DEF Facts, ProviderOwned
      <3>3. CASE providerOf[u] = p /\ <<"provider", u>> \notin overlap
        <4>1. CASE request[c].kind = "apply" /\ u = request[c].user
          <5>1. Object(c) = p
            BY <3>3, <4>1, <2>1, CatalogueAssumption DEF Sound, OwnerSound
          <5> QED
            BY <3>1, <4>1, <5>1 DEF Commits
        <4>2. CASE ~(request[c].kind = "apply" /\ u = request[c].user)
          BY <3>1, <3>3, <4>2 DEF Commits
        <4> QED
          BY <4>1, <4>2
      <3> QED
        BY <3>2, <3>3
    <2>3. CASE ~IsProvider(row[p])
      <3>1. IsEmpty(row[p]) /\ row'[p] # row[p] /\ p \notin Creates(c)
        BY <2>1, <2>3, KeyFacts DEF Stored, Creates
      <3>2. p = Object(c)
        BY <1>1, <3>1 DEF Commits, RowsKept
      <3>3. request[c].kind \in AboutProvider
        BY <2>1, <3>2, ObjectFacts DEF Sound, KindSound
      <3>4. request[c].kind = "apply" /\ p = c /\ request[c].user \in Users
        BY <3>1, <3>2, <3>3 DEF Sound, KindSound
      <3> QED
        BY <3>2, <3>4 DEF Commits
    <2> QED
      BY <2>2, <2>3
  <1> QED
    BY <1>0, <1>1 DEF ProviderOwned, Existing

LEMMA CommitKeepsInv ==
    ASSUME Inv, NEW c \in Calls, Commit(c)
    PROVE  Inv'
  <1>1. Commits(c) /\ Sound(c) /\ row' = SavedRows(c)
    BY CommitFacts DEF Commit
  <1>2. Stored' /\ Begun' /\ Rested' /\ Met' /\ Working' /\ Owned'
    BY <1>1, CommitStored, CommitBegun, CommitRested, CommitWorking, CommitOwned
  <1>3. NamesOnce' /\ LinksOfOneRequest' /\ MemberOnce' /\ ProviderOwned'
    BY <1>1, CommitNames, CommitLinksFacts, CommitProviders
  <1> QED
    BY <1>2, <1>3 DEF Inv, Facts

-----------------------------------------------------------------------------
(* The theorems.                                                           *)

LEMMA NextKeepsInv == Inv /\ [Next]_vars => Inv'
  <1> SUFFICES ASSUME Inv, [Next]_vars PROVE Inv'
    OBVIOUS
  <1>1. ASSUME NEW c \in Calls, NEW word \in Words, NEW tags \in Lists,
               CreateService(c, word, tags)
        PROVE  Inv'
    BY <1>1, CreateServiceKeepsInv, CatalogueAssumption
  <1>2. ASSUME NEW c \in Calls, NEW word \in Words, NEW tags \in Lists,
               NEW s \in Things, UpdateService(c, s, word, tags)
        PROVE  Inv'
    BY <1>2, UpdateServiceKeepsInv, CatalogueAssumption
  <1>3. ASSUME NEW c \in Calls, NEW word \in Words, CreateCluster(c, word)
        PROVE  Inv'
    BY <1>3, CreateClusterKeepsInv
  <1>4. ASSUME NEW c \in Calls, NEW word \in Words, NEW k \in Things, UpdateCluster(c, k, word)
        PROVE  Inv'
    BY <1>4, UpdateClusterKeepsInv
  <1>5. ASSUME NEW c \in Calls, NEW s \in Things, DeleteService(c, s)
        PROVE  Inv'
    BY <1>5, DeleteServiceKeepsInv
  <1>6. ASSUME NEW c \in Calls, SeedServices(c)
        PROVE  Inv'
    BY <1>6, SeedKeepsInv
  <1>7. ASSUME NEW c \in Calls, NEW u \in Users, NEW clusters \in SUBSET Existing("cluster"),
               JoinClusters(c, u, clusters) \/ OverrideClusters(c, u, clusters)
        PROVE  Inv'
    BY <1>7, JoinKeepsInv, OverrideKeepsInv
  <1>8. ASSUME NEW c \in Calls, NEW u \in Users, LeaveClusters(c, u)
        PROVE  Inv'
    BY <1>8, LeaveKeepsInv
  <1>9. ASSUME NEW c \in Calls, NEW u \in Users, Apply(c, u) \/ Rate(c, u)
        PROVE  Inv'
    BY <1>9, ApplyKeepsInv, RateKeepsInv
  <1>10. ASSUME NEW c \in Calls, CallStep(c) \/ DatabaseError(c)
         PROVE  Inv'
    BY <1>10, ReloadKeepsInv, UpdateKeepsInv, FindTagsKeepsInv, UnlinkKeepsInv, CommitKeepsInv,
       ErrorKeepsInv DEF CallStep
  <1>11. ASSUME UNCHANGED vars PROVE Inv'
    <2>1. UNCHANGED <<row, links, tag, providerOf, pc, request, entity, loaded, changes,
                      detached, newTags, faults, overlap, crowd>>
      BY <1>11 DEF vars, database, memory, history
    <2>2. Stored' /\ Begun' /\ Rested'
      <3>1. Stored'
        BY <2>1 DEF Inv, Stored, HasTag, Linked, Existing, IsEmpty, IsNamed, IsProvider, Absent
      <3>2. Begun'
        BY <2>1 DEF Inv, Begun, Unborn, IsEmpty, Absent, Open
      <3>3. Rested'
        BY <2>1 DEF Inv, Rested, InFlight, Open, NoChange
      <3> QED
        BY <3>1, <3>2, <3>3
    <2>3. Met' /\ Owned'
      BY <2>1 DEF Inv, Met, Owned, InFlight, Open, Topics, Object, IsProvider
    <2>4. Working'
      <3>1. Grown
        BY <2>1 DEF Grown, WritersOf, Object
      <3>2. ASSUME NEW d \in Calls, InFlight(d)' PROVE Sound(d)'
        <4>1. InFlight(d) /\ Still(d) /\ UNCHANGED database
          BY <2>1, <3>2 DEF InFlight, Open, Still, database
        <4> QED
          BY <3>1, <4>1, KeepSound DEF Inv, Working
      <3> QED
        BY <3>2 DEF Working
    <2>5. Facts'
      <3>1. NamesOnce'
        <4>1. \A x : WritersOf(x)' = WritersOf(x)
          BY <2>1 DEF WritersOf, Object
        <4> QED
          BY <2>1, <4>1 DEF Inv, Facts, NamesOnce, Crowded, Absent
      <3>2. LinksOfOneRequest' /\ MemberOnce' /\ ProviderOwned'
        BY <2>1 DEF Inv, Facts, LinksOfOneRequest, MemberOnce, ProviderOwned, Existing
      <3> QED
        BY <3>1, <3>2 DEF Facts
    <2> QED
      BY <2>2, <2>3, <2>4, <2>5 DEF Inv
  <1> QED
    BY <1>1, <1>2, <1>3, <1>4, <1>5, <1>6, <1>7, <1>8, <1>9, <1>10, <1>11 DEF Next

\* The invariant that the other theorems rest on: what a request in flight may still save
\* is a name that only requests beside it have, the links it has read, and a profile of its
\* user, or else the row is known to be worked on by two.
THEOREM CatalogueInvariant == Spec => []Inv
  BY InitInv, NextKeepsInv, PTL DEF Spec

\* SET clauses name columns of the row they update, links lead to what exists.
LEMMA InvTyped == Inv => TypeOK
  <1> SUFFICES ASSUME Inv PROVE TypeOK
    OBVIOUS
  <1> USE DEF Inv
  <1>1. ASSUME NEW c \in Calls
        PROVE  /\ pc[c] \in {"idle", "answered", "failed"} \cup Open
               /\ DOMAIN changes[c] \subseteq DOMAIN entity[c]
               /\ newTags[c] \subseteq request[c].add
               /\ changes[c] # NoChange => DOMAIN changes[c] \subseteq DOMAIN row[Object(c)]
    <2>1. CASE ~InFlight(c)
      BY <2>1, NoChangeFacts DEF Rested
    <2>2. CASE InFlight(c)
      <3>1. Sound(c)
        BY <2>2 DEF Working
      <3>2. DOMAIN changes[c] \subseteq DOMAIN entity[c] /\ newTags[c] \subseteq request[c].add
        BY <3>1 DEF Sound, ClauseSound, LinksSound
      <3>3. ASSUME changes[c] # NoChange
            PROVE  DOMAIN entity[c] = DOMAIN row[Object(c)]
        <4>1. request[c].kind \in AboutThing \cup AboutProvider /\ ~IsEmpty(row[Object(c)])
          BY <3>1, <3>3 DEF Sound, ClauseSound, KindSound
        <4>2. CASE request[c].kind \in AboutThing
          <5>1. IsNamed(entity[c]) /\ IsNamed(row[Object(c)])
            BY <3>1, <4>1, <4>2, ObjectFacts DEF Sound, KindSound
          <5> QED
            BY <5>1 DEF IsNamed
        <4>3. CASE request[c].kind \in AboutProvider
          <5>1. IsProvider(entity[c]) /\ IsProvider(row[Object(c)])
            BY <3>1, <4>1, <4>3, ObjectFacts DEF Sound, KindSound
          <5> QED
            BY <5>1 DEF IsProvider
        <4> QED
          BY <4>1, <4>2, <4>3
      <3> QED
        BY <3>2, <3>3 DEF Rested
    <2> QED
      BY <2>1, <2>2
  <1>2. ASSUME NEW u \in Users
        PROVE  /\ Linked(u) \subseteq Existing("cluster")
               /\ providerOf[u] \in Existing("provider") \cup {NoProvider}
    BY KeyFacts DEF Stored, Owned, Existing, IsProvider
  <1> QED
    BY <1>1, <1>2 DEF TypeOK, Stored, HasTag, Rested

THEOREM TypeCorrect == Spec => []TypeOK
  BY CatalogueInvariant, InvTyped, PTL

\* Names double only when requests ran at once: a look-up that finds nothing is followed by
\* an insert that only a request beside it can have overtaken.  A tag doubles within one
\* request as well, which stores a new name once for every entry of its list.
THEOREM NamesAreOnce == Spec => []NamesOnce
  <1>1. Inv => NamesOnce
    BY DEF Inv, Facts
  <1> QED
    BY <1>1, CatalogueInvariant, PTL

\* The links of a service are what one request asked for, although every save of a service
\* writes them again from what it has read.
THEOREM LinksAreOneRequests == Spec => []LinksOfOneRequest
  <1>1. Inv => LinksOfOneRequest
    BY DEF Inv, Facts
  <1> QED
    BY <1>1, CatalogueInvariant, PTL

\* A user joins a cluster once.
THEOREM MembersAreOnce == Spec => []MemberOnce
  <1>1. Inv => MemberOnce
    BY DEF Inv, Facts
  <1> QED
    BY <1>1, CatalogueInvariant, PTL

\* A provider profile is the one its user has.
THEOREM ProvidersAreOwned == Spec => []ProviderOwned
  <1>1. Inv => ProviderOwned
    BY DEF Inv, Facts
  <1> QED
    BY <1>1, CatalogueInvariant, PTL

\* The step that changes the ratings of a provider is the commit of a rating.
RatingStep ==
    \A p \in Existing("provider") \ overlap' :
        row'[p].ratings # row[p].ratings =>
            \E c \in Calls : /\ request[c].kind = "rate" /\ Object(c) = p
                             /\ pc[c] = "commit" /\ pc'[c] = "answered"

LEMMA OnlyCommitWrites ==
    ASSUME Next, row' # row
    PROVE  \E c \in Calls : Commit(c)
  BY DEF Next, CallStep, CreateService, UpdateService, CreateCluster, UpdateCluster, DeleteService,
     SeedServices, JoinClusters, OverrideClusters, LeaveClusters, Apply, Rate, Throw, Ask, Reload,
     Update, FindTags, Unlink, DatabaseError, database

LEMMA CommitRates ==
    ASSUME Inv, NEW c \in Calls, Commit(c), NEW p \in Existing("provider") \ overlap',
           row'[p].ratings # row[p].ratings
    PROVE  /\ request[c].kind = "rate" /\ Object(c) = p
           /\ pc[c] = "commit" /\ pc'[c] = "answered"
  <1>1. Commits(c) /\ Sound(c) /\ row' = SavedRows(c)
    BY CommitFacts DEF Commit
  <1>2. p \in Calls /\ p \in Rows /\ IsProvider(row[p]) /\ ~IsEmpty(row[p]) /\ p \notin Creates(c)
    <2>1. p \in Rows /\ row[p].sort = "provider"
      BY DEF Existing
    <2>2. p \in Calls
      BY <2>1, KeyFacts, RowKinds DEF Inv, Stored, IsNamed
    <2> QED
      BY <2>1, <2>2, KeyFacts, RowKinds DEF Inv, Stored, Creates
  <1>3. Updated(c, p)
    <2>1. row'[p] # row[p]
      OBVIOUS
    <2> QED
      BY <1>1, <1>2, <2>1, SavedRowsFacts DEF Keeps, Seeded, Inserted, Commits
  <1>4. /\ p = Object(c) /\ request[c].kind \in AboutProvider
        /\ row'[p] = Overlay(row[p], changes[c])
    BY <1>1, <1>2, <1>3, ObjectFacts DEF Updated, Sound, Inv
  <1>5. "ratings" \in DOMAIN changes[c] /\ row'[p].ratings = entity[c].ratings
    <2>1. \A k \in DOMAIN changes[c] : k # "sort" /\ changes[c][k] = entity[c][k]
      BY <1>1 DEF Sound, ClauseSound
    <2>2. row'[p].ratings = IF "ratings" \in DOMAIN changes[c] THEN changes[c]["ratings"]
                            ELSE row[p].ratings
      BY <1>2, <1>4, <2>1, OverlayFacts
    <2> QED
      BY <2>1, <2>2
  <1>6. request[c].kind # "apply"
    BY <1>1, <1>2, <1>4, <1>5 DEF Sound, OwnerSound, Commits
  <1> QED
    BY <1>1, <1>4, <1>6 DEF Commits, AboutProvider

LEMMA StepRates == Inv /\ [Next]_vars => RatingStep
  <1> SUFFICES ASSUME Inv, [Next]_vars, NEW p \in Existing("provider") \ overlap',
                      row'[p].ratings # row[p].ratings
               PROVE  \E c \in Calls : /\ request[c].kind = "rate" /\ Object(c) = p
                                       /\ pc[c] = "commit" /\ pc'[c] = "answered"
    BY DEF RatingStep
  <1>1. row' # row
    OBVIOUS
  <1>2. Next
    BY <1>1 DEF vars, database
  <1>3. PICK c \in Calls : Commit(c)
    BY <1>1, <1>2, OnlyCommitWrites
  <1> QED
    BY <1>3, CommitRates

\* On a profile that no two requests work on at once, a new application sets no rating back.
THEOREM RatingsAreKept == Spec => RatingsKept
  <1>1. Inv /\ [Next]_vars => [RatingStep]_vars
    BY StepRates
  <1> QED
    BY <1>1, CatalogueInvariant, PTL DEF Spec, RatingsKept, RatingStep
=============================================================================
