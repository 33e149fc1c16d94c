CONSTANTS
    a = a
    b = b
    c = c
    email = email
    flaky = flaky
    foreign = foreign
    broken = broken
    Callers = {a, b}
    Tasks = {email, flaky, foreign, broken}
    Serializable = {email, flaky, foreign}
    Handled = {email, flaky}
    Fallible = {flaky}
    Builds = {TRUE, FALSE}
    Delays = {0, 2}
    MaxDrops = 1
SPECIFICATION FairSpec
INVARIANTS
    InMemoryResultTells
PROPERTIES
    EveryCallEnds
