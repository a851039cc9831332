SPECIFICATION Spec
CONSTANTS
    c1 = c1
    c2 = c2
    c3 = c3
    s1 = s1
    k1 = k1
    u1 = u1
    art = art
    Art = Art
    law = law
    NoProvider = NoProvider
    Calls = {c1, c2, c3}
    Words = {"printing"}
    Seeds = {"printing"}
    Tags = {art, Art, law}
    TagName <- NameOfTag
    Lists = {{}, {art}, {art, Art, law}}
    Services = {s1}
    Clusters = {k1}
    Users = {u1}
    Kinds = {"createService", "updateService", "deleteService", "seed", "createCluster", "updateCluster", "join", "override", "leave", "apply", "rate"}
    MaxFaults = 1
SYMMETRY Symmetry
INVARIANTS
    TypeOK
    NamesOnce
    LinksOfOneRequest
    MemberOnce
    ProviderOwned
PROPERTIES
    RatingsKept
CHECK_DEADLOCK FALSE
