CONSTANTS
    r1 = r1
    r2 = r2
    r3 = r3
    m1 = m1
    z1 = z1
    Recorders = {r1, r2}
    Readers = {m1}
    Resetters = {z1}
    Counters = {"success", "error", "sum_ms"}
    Statuses = {200, 400}
    Times = {2}
    Minute = 1
    MaxTime = 1
SPECIFICATION Spec
INVARIANTS
    SnapshotExplained
    LastMinuteComplete
CHECK_DEADLOCK FALSE
SYMMETRY RecorderSymmetry
