SPECIFICATION FairSpec
CONSTANTS
    Nodes <- MCNodes
    Records <- MCRecords
    Kind <- MCKind
    Bucket <- MCBucket
    After <- MCAfter
    Epoch <- MCEpoch
    Size <- MCSize
    Rule <- MCRule
    Score <- MCScore
    Blobs <- MCBlobs
    Checker <- MCChecker
    Clients <- MCClients
    Candidates <- MCCandidates
    About <- MCAbout
    Claimed <- MCClaimed
    Actual <- MCActual
    Island <- MCIsland
    Worlds <- MCWorlds
    MaxIds = 4
    MaxRecords = 3
    MaxBytes = 1
    MaxBlobs = 1
    MaxHintRecords = 2
    MaxHints = 1
    Capacity = 1
    Clocks <- MCClocks
    FinalityEpochs = 1
    MaxCuts = 1
INVARIANTS
    SidesStayInStep
PROPERTIES
    SessionsDeliver
    ClaimsMeetTheirChecker
    RecordsConverge
