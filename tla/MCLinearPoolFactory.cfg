SPECIFICATION Spec
CONSTANTS
    silo = silo
    euler = euler
    erc4626 = erc4626
    dai = dai
    sDai = sDai
    Factories = {silo, erc4626, euler}
    Kind <- MCKind
    Tokens = {dai, sDai}
    Underlying <- MCUnderlying
    Salts = {salt1}
    Params = {ok, bad}
    ValidParams = {ok}
    WindowEnd <- MCWindowEnd
    MaxTime = 2
    MaxPools = 2
    NoPool = NoPool
    EulerProtocol = EulerProtocol
INVARIANTS
    TypeOK
    EveryPoolLinked
    ManagersDistinct
    NextAddressesFree
    PredictionHolds
    SaltsDense
PROPERTY ImplementsRegistry
CHECK_DEADLOCK FALSE
