SPECIFICATION Spec
CONSTANTS
    Leeches = {1, 2}
    Peers = {1, 2}
    Pieces <- MCPieces
    Worlds <- MCWorlds
    Rounds = 2
    MaxQueue = 1
INVARIANTS
    AvailabilityIsCounted
    ReservationsAreOwed
    HonestTransfersSucceed
