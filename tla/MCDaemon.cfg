SPECIFICATION FairSpec
CONSTANTS
    s1 = s1
    w1 = w1
    a1 = a1
    e1 = e1
    Subs = {s1}
    Handlers = {h1, h2}
    Works = {w1}
    Epochs = {e1}
    Arrivals = {a1}
    Worlds <- MCWorlds
    MaxQueued = 1
    Fanout = 1
    MaxCrashes = 1
    MaxRefusals = 1
    MaxFaults = 1
INVARIANTS
    NoncesSurvive
PROPERTIES
    TicksReturn
    AcknowledgedIsDecided
    OwnRecordsAreSigned
