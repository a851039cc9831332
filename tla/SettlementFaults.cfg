SPECIFICATION FairSpec
CONSTANTS
    c1 = c1
    c2 = c2
    c3 = c3
    svc = svc
    dep = dep
    out = out
    customer = customer
    p1 = p1
    p2 = p2
    NoProvider = NoProvider
    AdminProfile = p1
    Calls = {c1, c2}
    Transactions = {svc, dep, out}
    Users = {customer}
    Providers = {p1}
    OwnerOf <- MCOwner
    PurposeOf <- MCPurpose
    AmountOf <- MCAmount
    Requests = {"Paid", "Cancelled"}
    Awaited = {TRUE, FALSE}
    MaxFaults = 1
INVARIANTS
    CreditMatchesStatus
    BookingAgrees
PROPERTIES
    CallsEnd
    PaidIsMatched
CHECK_DEADLOCK FALSE
