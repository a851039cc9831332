SPECIFICATION FairSpec
CONSTANTS
    c1 = c1
    c2 = c2
    r1 = r1
    u1 = u1
    u2 = u2
    NoProfile = NoProfile
    NoText = NoText
    Calls = {c1, c2}
    Reports = {r1}
    Users = {u1, u2}
    Owner = u1
    MaxFaults = 1
INVARIANTS
    TypeOK
    SerialWhenAlone
PROPERTIES
    FollowedUp
CHECK_DEADLOCK FALSE
