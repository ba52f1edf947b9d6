\* One proof hash, modifier 0, six time units with 30 days = 3, 90 days = 4;
\* two keys, one the checkpoint master's, and two checkpoint hashes of which
\* the master announced one; an annual rate of 1000 (in the model's time unit)
\* pays 5 per coin-day, so a single immature coin-day shows in the reward
CONSTANTS
    Hashes = {h1}
    Modifiers = {0}
    NoMod = NoMod
    NoHash = NoHash
    Times = {0, 1, 2, 3, 4, 5}
    Day = 1
    MinAge = 3
    MaxAge = 4
    MaxFuture = 1
    Values = {300}
    CoinValue = 200
    MaxInputs = 2
    DtV03Switch = 6
    Keys = {k1, k2}
    MasterKey = k1
    CpHashes = {c1, c2}
    Announced = {c1}
    AnnualPercentageRate = 1000
    MinTxFee = 1
    MinFees = {0, 1, 2}
    Rewards = {0, 1, 2, 5, 6}
SPECIFICATION Spec
INVARIANTS MatureStakeEarns StakeWeightWithinCoinAge RoundTrip BlockSignedByOwner CheckpointAuthentic ImmatureCoinsEarnNothing
