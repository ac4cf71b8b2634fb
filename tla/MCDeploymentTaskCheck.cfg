SPECIFICATION Spec
CONSTANTS
    alice = alice
    bob = bob
    vault = vault
    silo = silo
    token = token
    Runners = {alice}
    TaskOrder <- MCOneTask
    Needs <- MCNobodysNeeds
    Factory = Factory
    Others <- MCOthers
    Pool = Pool
    Inputs = {v1}
    Builds = {b1}
    Modes = {"LIVE", "CHECK"}
    Forces = {FALSE}
    MaxDeploys = 4
INVARIANT CheckComplete
