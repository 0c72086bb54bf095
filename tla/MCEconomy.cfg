CONSTANTS
    Identities = {"t", "a"}
    Kinds = {"lean", "cert"}
    Objectives = {"o1", "o2", "o3"}
    Claims = {"c1", "c2", "c3"}
    Pools = {"p1", "p2"}
    BeaconValues = {"v"}
    Bonds = {1, 2}
    ChallengeBonds = {2}
    Issuances <- MCIssuances
    Objective <- MCObjective
    Claim <- MCClaim
    Pool <- MCPool
    Draw <- MCDraw
    Worlds <- MCWorlds
    VerificationBond = 1
    AttestationWindow = 0
    FinalityEpochs = 0
    Bits = 4
    SyncLag = 1
    MaxEpoch = 3
SPECIFICATION Spec
CHECK_DEADLOCK FALSE
INVARIANTS
    NobodyOwesMoreThanTheyHold
    SupplyIsAccountedFor
    TypedWorkIsBacked
    HonestLogsAuditClean
    AnsweredPromisesArePaid
