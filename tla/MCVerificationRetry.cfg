SPECIFICATION Spec
CONSTANTS
    pool = pool
    rebalancer = rebalancer
    math = math
    poolSol = poolSol
    mathSol = mathSol
    rebalancerSol = rebalancerSol
    otherSol = otherSol
    FileOrder <- MCFileOrder
    SourceOrder <- MCSourceOrder
    Base <- MCBase
    Versions = {1, 2}
    Compilations <- MCCompilations
    Imports <- MCImports
    MaxDeploys = 1
    MaxRequests = 2
    MaxCompilations = 1
INVARIANT MissingIsRetried
