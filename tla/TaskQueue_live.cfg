CONSTANTS
    t1 = t1
    t2 = t2
    client = client
    client2 = client2
    w1 = w1
    w2 = w2
    poller = poller
    poller2 = poller2
    monitor = monitor
    p1 = p1
    p2 = p2
    Tasks = {t1, t2}
    Fallible = {t1}
    Procs = {p1}
    Clients = {client}
    Workers = {w1}
    Pollers = {poller}
    Monitors = {monitor}
    Home <- OneProcess
    MaxRetries = 1
    Delays = {1}
    MaxSubmits = 1
    MaxFaults = 1
    MaxCrashes = 1
SPECIFICATION FairSpec
PROPERTIES
    EveryTaskSettles
    LockGranted
    ImplementsLedger
INVARIANTS
    StatsAtomic
    AttemptsBounded
    NothingDoubled
