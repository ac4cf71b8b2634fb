SPECIFICATION Spec
CONSTANTS
    ONE = 5
    Nano = 1
    Degradation = 2
    MaxAssets = 12
    MaxSupply = 12
    MaxTime = 5
INVARIANTS
    TypeOK
    AgreesWithVault
PROPERTIES
    ReportsDoNotJump
    StayersKeepValue
