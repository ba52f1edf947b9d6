\* the PPCoin profile: v0.2 kernel for coinstakes before 13, signature entropy before 17
CONSTANTS
    MODIFIER_INTERVAL = 4
    MODIFIER_INTERVAL_RATIO = 3
    NSections = 3
    StakeMinAge = 8
    StakeMaxAge = 12
    DayLen = 4
    STAKE_TARGET_SPACING = 1
    TargetSpacingWorkMax = 2
    RetargetSpan = 4
    InitTarget = 4
    TargetLimit = 6
    Hashes = {0}
    HashRange = 16
    PosHashShift = 4
    GenesisHash = 0
    Deltas = {1, 4}
    MaxBackdate = 0
    OutputValue = 1
    CoinValue = 1
    MaxHeight = 7
    DtV03Switch = 13
    DtV04Switch = 17
    SigBits = {0, 1}
SPECIFICATION Spec
INVARIANTS NoModifierFailure ModifierOncePerInterval KernelCheckStable
CHECK_DEADLOCK FALSE
