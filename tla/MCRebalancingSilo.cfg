SPECIFICATION Spec
CONSTANTS
    ONE = 3
    Nano = 2
    Kinds = {"silo"}
    TargetPairs <- MCTargets
    Fee = 1
    ExtraMains = {0, 6}
    MaxAssets = 7
    MaxShares = 6
    MaxMain = 5
    MaxHeld = 6
INVARIANT RequiredSuffices
