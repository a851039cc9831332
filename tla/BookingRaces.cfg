SPECIFICATION Spec
CONSTANTS
    c1 = c1
    c2 = c2
    c3 = c3
    c4 = c4
    b1 = b1
    b2 = b2
    customer = customer
    printer = printer
    p1 = p1
    f1 = f1
    f2 = f2
    NoProvider = NoProvider
    NoFile = NoFile
    Calls = {c1, c2, c3, c4}
    Bookings = {b1}
    Earlier <- NoneEarlier
    Users = {customer, printer}
    OwnerOf <- MCOwner
    Providers = {p1}
    AccountOf <- MCAccount
    Official = p1
    Files = {f1, f2}
    Ratings = {1, 4}
    Kinds = {"update", "processed", "confirmProvider", "confirmUser", "settle", "rate", "rateApp"}
    MaxFaults = 0
SYMMETRY Symmetry
INVARIANTS
    TypeOK
    StatusesAgree
    RatingsBacked
    RatingsExact
PROPERTIES
    ImplementsRow
    OwnColumnsOnly
CHECK_DEADLOCK FALSE
