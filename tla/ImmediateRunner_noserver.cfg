CONSTANTS
    a = a
    b = b
    c = c
    email = email
    flaky = flaky
    foreign = foreign
    broken = broken
    Callers = {a, b, c}
    Tasks = {email, flaky}
    Serializable = {email, flaky}
    Handled = {email, flaky}
    Fallible = {flaky}
    Builds = {TRUE}
    Delays = {0, 2}
    MaxDrops = 1
SPECIFICATION Spec
INVARIANTS
    OkMeansDone
