SPECIFICATION Spec
CONSTANTS
    Processes = {p, q}
    Payloads = {x, y}
    Fsync = TRUE
    MaxLines = 2
SYMMETRY Interchangeable
INVARIANTS
    LoadableFileIsOneChain
    AcknowledgedIsKept
    HandlesHoldThePast
