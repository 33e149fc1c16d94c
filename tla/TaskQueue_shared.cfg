CONSTANTS
    t1 = t1
    t2 = t2
    client = client
    client2 = client2
    w1 = w1
    w2 = w2
    poller = poller
    poller2 = poller2
    monitor = monitor
    p1 = p1
    p2 = p2
    Tasks = {t1}
    Fallible = {t1}
    Procs = {p1, p2}
    Clients = {client}
    Workers = {w2}
    Pollers = {poller, poller2}
    Monitors = {}
    Home <- TwoProcesses
    MaxRetries = 1
    Delays = {0}
    MaxSubmits = 2
    MaxFaults = 1
    MaxCrashes = 1
SPECIFICATION Spec
INVARIANTS
    Conserved
    NoDuplication
    BackoffRespected
    TypeOK
CONSTRAINT FewMishaps
