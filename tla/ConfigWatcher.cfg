CONSTANTS
    r1 = r1
    r2 = r2
    app = app
    reload = reload
    Receivers = {r1, r2}
    Updaters = {app}
    Reloader = reload
    ManualConfigs <- Manual
    MaxEdits = 2
SPECIFICATION FairSpec
INVARIANT
    OnlyGoodConfigs
PROPERTY
    EventuallyCurrent
CHECK_DEADLOCK FALSE
