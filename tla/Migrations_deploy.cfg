CONSTANTS
    a = a
    b = b
    c = c
    op = op
    Runners = {a, b}
    Rollbackers = {op}
    Migrations <- List
    Exclusive = {1}
    MaxFaults = 1
    MaxRestarts = 1
SPECIFICATION FairSpec
INVARIANTS
    TypeOK
    EffectsRecorded
    ListIsPrefix
    OkMeansApplied
    SomebodyFinishes
PROPERTIES
    EveryRunEnds
CHECK_DEADLOCK FALSE
