SPECIFICATION Spec
CONSTANTS
    api = api
    worker = worker
    rebuild = rebuild
    Waiting <- MCWaiting
    Migrating <- MCApi
    ConnectAttempts = 2
    SchemaAttempts = 2
    InitDb = FALSE
    MaxLaunches = 1
    MaxStops = 0
CHECK_DEADLOCK FALSE
PROPERTIES
    ApiBringsSchema
