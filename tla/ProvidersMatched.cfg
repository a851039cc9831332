SPECIFICATION Spec
CONSTANTS
    m1 = m1
    m2 = m2
    m3 = m3
    b1 = b1
    b2 = b2
    b3 = b3
    p1 = p1
    p2 = p2
    NoProvider = NoProvider
    Matches = {m1, m2, m3}
    Bookings = {b1, b2, b3}
    Providers = {p1, p2}
    Official = p1
    Disabled = {p2}
    AddressMatch <- MCAddressMatch
    Hours = {1, 2, 3}
    Movable = {b3}
SYMMETRY Symmetry
INVARIANTS
    FreeFirst
    DoubleBooked
CHECK_DEADLOCK FALSE
