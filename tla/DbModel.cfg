CONSTANTS
    c1 = c1
    c2 = c2
    a = a
    b = b
    d = d
    title = title
    content = content
    Clients = {c1, c2}
    Rows0 = {a, b, d}
    Fields = {title, content}
    PerPages = {0, 1, 2}
    MaxU32 = 7
    MaxClock = 2
    MaxFaults = 1
SPECIFICATION Spec
INVARIANTS
    TypeOK
    PagesExact
    WalkMisses
    WalkRepeats
    RowWhole
PROPERTY
    DeleteFinal
CHECK_DEADLOCK FALSE
SYMMETRY Symmetry
