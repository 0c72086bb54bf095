SPECIFICATION ClimbSpec
CONSTANTS
    NoScore = NoScore
    MaxScore = 8
    MaxTarget = 6
    MinImprovements = {1, 2, 3, 7}
    Rewards = {1, 2, 5, 7}
INVARIANTS
    PaidInFullAtTarget
    ExhaustedIsFinal
