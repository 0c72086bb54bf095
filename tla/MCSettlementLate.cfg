SPECIFICATION Spec
CONSTANTS
    NoScore = NoScore
    Objectives = {1, 2}
    Commitments = {1, 2, 3, 4}
    Claims = {1, 2, 3, 4}
    Artifacts = {"a", "b", "c", "d"}
    Units = {}
    Jobs = {"none"}
    Objective <- MixedObjectives
    Commitment <- MixedCommitments
    Claim <- MixedClaims
    Rank <- FlippingRank
    NoBeacon = NoBeacon
    Beacon <- TheBeacons
    Worlds = {{1, 2}}
    FinalityEpochs = 1
    SyncLag = 3
    MaxEpoch = 5
    MaxCrashes = 1
    MaxOutages = 1
INVARIANTS
    PaidEpochIsFrozen
    PaidClaimsWereEarned
