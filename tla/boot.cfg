SPECIFICATION Spec
CONSTANTS
    api = api
    worker = worker
    rebuild = rebuild
    Waiting <- MCWaiting
    Migrating <- MCMigrating
    ConnectAttempts = 2
    SchemaAttempts = 2
    InitDb = FALSE
    MaxLaunches = 2
    MaxStops = 2
CHECK_DEADLOCK FALSE
INVARIANTS
    RunsOnSchema
PROPERTIES
    BootEnds
    ReadyRuns
    WorkerRecovers
