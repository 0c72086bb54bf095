SPECIFICATION FairSpec
CONSTANTS
    NoScore = NoScore
    Objectives = {1, 2, 3, 4, 5, 6}
    Commitments = {1, 2, 3, 11, 12, 13, 14, 21, 22, 23, 24, 25}
    Claims = {1, 2, 3, 4, 11, 12, 13, 14, 21, 22, 23, 24, 25}
    Artifacts = {"a", "b", "c", "d"}
    Units = {"w", "x", "y", "z"}
    Jobs = {"none", "job", "other"}
    Objective <- WorldObjectives
    Commitment <- WorldCommitments
    Claim <- WorldClaims
    Rank <- FlippingRank
    NoBeacon = NoBeacon
    Beacon <- TheBeacons
    FinalityEpochs = 1
    SyncLag = 1
    MaxEpoch = 6
    MaxCrashes = 1
    MaxOutages = 0
    Worlds <- FourWorlds
INVARIANTS
    MoneyInv
    BeaconOrderDecides
    UnitsArePaidWhileFunded
PROPERTIES
    ImplementsPool
    AcceptedClaimsSettle
