CONSTANTS
    a = a
    b = b
    c = c
    op = op
    Runners = {a}
    Rollbackers = {op}
    Migrations <- List
    Exclusive = {1}
    MaxFaults = 0
    MaxRestarts = 0
SPECIFICATION Spec
INVARIANTS
    RolledBackIsUndone
CHECK_DEADLOCK FALSE
