SPECIFICATION Spec
CONSTANTS
    alice = alice
    bob = bob
    vault = vault
    silo = silo
    token = token
    Runners = {alice, bob}
    TaskOrder <- MCTwoTasks
    Needs <- MCNeeds
    Factory = Factory
    Others <- MCNoOthers
    Pool = Pool
    Inputs = {v1}
    Builds = {b1, b2}
    Modes = {"LIVE", "TEST", "CHECK"}
    Forces = {TRUE}
    MaxDeploys = 3
SYMMETRY MCSymmetry
INVARIANTS
    OutputsDeployed
    DependenciesDeployed
    CheckSound
