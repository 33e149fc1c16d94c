CONSTANTS
    c1 = c1
    c2 = c2
    Clients = {c1, c2}
    MaxRequests = 2
    Window = 3
    MaxTime = 6
SPECIFICATION Spec
INVARIANTS
    WindowBound
PROPERTIES
    DeniedOnlyWhenFull
    RetryAfterHonest
