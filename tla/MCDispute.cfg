SPECIFICATION FairSpec
CONSTANTS
    States = {0, 1, 2}
    Last = 4
    Step <- Counting
    Parties = {"a", "b"}
    Claims = {1, 2}
    Challenges = {1, 2}
    Claim <- CrossClaims
    Challenge <- CrossChallenges
    Scenarios <- CrossScenarios
    Endowment <- CrossEndowment
    Window = 1
    Spenders = {"a"}
    Diligents = {"a", "nobody"}
INVARIANTS
    SearchInvariant
    FaithfulTraceWinsTheStep
    OnlyTheSilentForfeit
    BondsAreCovered
PROPERTIES
    DisputesClose
