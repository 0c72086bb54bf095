CONSTANTS
    Identities = {"t", "a", "b", "c"}
    Kinds = {"lean"}
    Objectives = {"o1"}
    Claims = {}
    Pools = {}
    BeaconValues = {}
    Bonds = {}
    ChallengeBonds = {}
    Issuances <- MCIssuances
    Objective <- MCObjective
    Claim <- NoRecords
    Pool <- NoRecords
    Draw <- MCDraw
    Worlds <- MCWorlds
    VerificationBond = 1
    AttestationWindow = 0
    FinalityEpochs = 0
    Bits = 4
    SyncLag = 1
    MaxEpoch = 3
    PeerRecords <- MCPeerRecords
    Rank <- MCRank
    CommitteeSize = 3
    MaxCommitteeSize = 4
    Seals = {s1, s2}
    Seal <- MCSeal
    Embargo <- MCEmbargo
    Liars = {"b"}
SPECIFICATION SealedSpec
SYMMETRY SealSymmetry
CHECK_DEADLOCK FALSE
INVARIANTS
    SharesStayValid
    QuorumOpens
    ExposureIsCovered
