CONSTANTS
    r1 = r1
    r2 = r2
    r3 = r3
    old = old
    e1 = e1
    e2 = e2
    p1 = p1
    p2 = p2
    Requests = {r1, r2, r3}
    Accounts0 = {old}
    Emails = {e1, e2}
    Passwords = {p1, p2}
    Roles = {"guest", "admin"}
    RequiredRole = "user"
    Configs <- Setups
    MaxFaults = 1
SPECIFICATION Spec
INVARIANTS
    TypeOK
    RegisteredOnce
    ClaimsTrue
    LoginTells
    ChangeTells
    MeTells
CHECK_DEADLOCK FALSE
SYMMETRY Symmetry
