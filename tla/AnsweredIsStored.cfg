SPECIFICATION Spec
CONSTANTS
    c1 = c1
    c2 = c2
    c3 = c3
    c4 = c4
    b1 = b1
    b2 = b2
    k1 = k1
    k2 = k2
    NoCall = NoCall
    Earlier = Earlier
    NoConnection = NoConnection
    Calls = {c1, c2}
    Bookings = {b1}
    Connections = {k1, k2}
    Kinds = {"pay"}
    MaxFaults = 0
PROPERTIES
    AnsweredIsStored
CHECK_DEADLOCK FALSE
