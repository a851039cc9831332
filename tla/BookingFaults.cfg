SPECIFICATION FairSpec
CONSTANTS
    c1 = c1
    c2 = c2
    c3 = c3
    c4 = c4
    b1 = b1
    b2 = b2
    customer = customer
    printer = printer
    p1 = p1
    f1 = f1
    f2 = f2
    NoProvider = NoProvider
    NoFile = NoFile
    Calls = {c1, c2, c3}
    Bookings = {b1, b2}
    Earlier <- BothEarlier
    Users = {customer, printer}
    OwnerOf <- MCOwner
    Providers = {p1}
    AccountOf <- MCAccount
    Official = NoProvider
    Files = {f1}
    Ratings = {1}
    Kinds = {"processed", "settle", "rate", "rateApp"}
    MaxFaults = 1
INVARIANTS
    FilesKept
PROPERTIES
    RequestsEnd
CHECK_DEADLOCK FALSE
