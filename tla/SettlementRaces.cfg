SPECIFICATION Spec
CONSTANTS
    c1 = c1
    c2 = c2
    c3 = c3
    svc = svc
    dep = dep
    out = out
    customer = customer
    p1 = p1
    p2 = p2
    NoProvider = NoProvider
    AdminProfile = NoProvider
    Calls = {c1, c2, c3}
    Transactions = {svc, dep}
    Users = {customer}
    Providers = {p1}
    OwnerOf <- MCOwner
    PurposeOf <- MCPurpose
    AmountOf <- MCAmount
    Requests = {"Paid", "Cancelled"}
    Awaited = {TRUE}
    MaxFaults = 0
SYMMETRY Symmetry
INVARIANTS
    TypeOK
    BalanceBacked
    ExactWhenIsolated
PROPERTIES
    PaidOnlyWithCredit
    ImplementsLedger
CHECK_DEADLOCK FALSE
