SPECIFICATION Spec
CONSTANTS
    ONE = 3
    Nano = 2
    Kinds = {"aave", "erc4626", "yearn", "midas", "gearbox", "euler", "silo", "tetu"}
    TargetPairs <- MCTargets
    Fee = 1
    ExtraMains = {0, 6}
    MaxAssets = 7
    MaxShares = 6
    MaxMain = 5
    MaxHeld = 6
INVARIANTS
    TypeOK
    ExactRequiredSuffices
    UnwrapCovered
    ExtraMainSuffices
    PoolNotPoorer
    Balanced
