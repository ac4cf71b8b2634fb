SPECIFICATION Spec
CONSTANTS
    ONE = 5
    Nano = 1
    MaxAssets = 12
    MaxSupply = 12
PROPERTIES
    InvestingInvisible
    RateNeverFalls
