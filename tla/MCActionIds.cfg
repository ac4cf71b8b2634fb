SPECIFICATION Spec
CONSTANTS
    silo = silo
    tetu = tetu
    create = create
    pause = pause
    FirstBuilds <- MCFirstBuilds
    TaskOrder <- MCTaskOrder
    Factory = factory
    Pool = pool
    Token = token
    Functions = {create, pause}
    MaxContracts = 4
    MaxBuilds = 1
INVARIANTS TypeOK RecordsGenuine RecordsComplete CollisionsAccepted
