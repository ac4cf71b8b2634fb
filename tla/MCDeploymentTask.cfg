SPECIFICATION FairSpec
CONSTANTS
    alice = alice
    bob = bob
    vault = vault
    silo = silo
    token = token
    Runners = {alice}
    TaskOrder <- MCOneTask
    Needs <- MCNobodysNeeds
    Factory = Factory
    Others <- MCOthers
    Pool = Pool
    Inputs = {v1, v2}
    Builds = {b1}
    Modes = {"LIVE", "TEST", "CHECK", "READ_ONLY"}
    Forces = {FALSE}
    MaxDeploys = 4
INVARIANTS
    TypeOK
    PoolOfFactory
    PoolHashKnown
PROPERTIES
    OutputsStable
    RunsEnd
