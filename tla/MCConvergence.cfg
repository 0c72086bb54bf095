SPECIFICATION SpecAB
CONSTANTS
    NoScore = NoScore
    Objectives = {1, 2, 3}
    Commitments = {1, 2, 3, 4, 5}
    Claims = {1, 2, 3, 4, 5, 6}
    Artifacts = {"a", "b", "c", "d", "e", "f"}
    Units = {"x", "y"}
    Jobs = {"none", "job"}
    Objective <- TheObjectives
    Commitment <- TheCommitments
    Claim <- TheClaims
    Rank <- FlippingRank
    NoBeacon = NoBeacon
    Beacon <- TheBeacons
    BeaconB <- TheBeacons
    FinalityEpochs = 1
    Worlds = {{1, 2, 3}}
    SyncLag = 1
    MaxEpoch = 6
    MaxCrashes = 0
    MaxOutages = 0
INVARIANTS
    NodesConverge
