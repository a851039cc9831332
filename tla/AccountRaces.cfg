SPECIFICATION Spec
CONSTANTS
    c1 = c1
    c2 = c2
    c3 = c3
    Earlier = Earlier
    NoCall = NoCall
    Calls = {c1, c2, c3}
    Logins = {"mail", "phone"}
    EarlierLogin = "phone"
    AdminLogin = "mail"
    Names = {"Ada", "Ben"}
    AdminName = "Ada"
    Numbers = {1, 2}
    RoleNames = {"clerk", "superadmin"}
    EarlierRole = "clerk"
    AdminRole = "superadmin"
    Kinds = {"register", "seed", "otp", "reset", "verify", "assign", "rename", "profile", "createRole", "updateRole"}
    MaxFaults = 1
SYMMETRY Symmetry
INVARIANTS
    TypeOK
    DuplicatesCrowded
    AloneRegisters
    PasswordsFromCodes
PROPERTIES
    OneCodeOnePassword
    ResetIsDone
    ImplementsRow
CHECK_DEADLOCK FALSE
