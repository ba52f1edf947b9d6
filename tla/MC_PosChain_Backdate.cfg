CONSTANTS
    MODIFIER_INTERVAL = 4
    MODIFIER_INTERVAL_RATIO = 3
    NSections = 3
    StakeMinAge = 8
    StakeMaxAge = 12
    DayLen = 4
    STAKE_TARGET_SPACING = 1
    TargetSpacingWorkMax = 2
    RetargetSpan = 4
    InitTarget = 4
    TargetLimit = 6
    Hashes = {0, 1}
    HashRange = 16
    PosHashShift = 4
    GenesisHash = 0
    Deltas <- MCDeltasBackdate
    MaxBackdate = 1
    OutputValue = 1
    CoinValue = 1
    MaxHeight = 5
    DtV03Switch = 0
    DtV04Switch = 0
    SigBits = {0}
SPECIFICATION Spec
INVARIANT ModifierOncePerInterval
CHECK_DEADLOCK FALSE
