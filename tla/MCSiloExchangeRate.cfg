SPECIFICATION Spec
CONSTANTS
    ONE = 3
    Nano = 1
    MaxUint = 15
    ProtocolShareFee = 2
    InterestRate = 2
    MaxAmount = 3
    MaxTime = 4
INVARIANTS
    TypeOK
PROPERTIES
    AccrualInvisible
    RateNeverFalls
CHECK_DEADLOCK FALSE
