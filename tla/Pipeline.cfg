CONSTANTS
    r1 = r1
    r2 = r2
    r3 = r3
    c1 = c1
    c2 = c2
    Requests = {r1, r2, r3}
    Traffic <- Mix
    Routes <- RouteList
    Chains <- Orders
    RequiredRole = "user"
    Leeway = 1
    Clients = {c1, c2}
    MaxRequests = 1
    Window = 2
    MaxTime = 2
SPECIFICATION Spec
INVARIANTS
    QuotaExact
    EndToEndLimit
    OnlyByToken
CHECK_DEADLOCK FALSE
SYMMETRY RequestSymmetry
