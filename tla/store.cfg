SPECIFICATION FairSpec
CONSTANTS
    run1 = run1
    run2 = run2
    worker = worker
    handler1 = handler1
    handler2 = handler2
    workerProcess = workerProcess
    api = api
    key1 = key1
    Aggregates <- MCRuns
    LockKeys <- MCKeys
    HashText <- MCSameKey
    Writers <- MCWriters
    MaxAttempts <- MCAttempts
    Processes <- MCProcesses
    ProcessOf <- MCProcessOf
    PoolSize <- MCPoolSize
    MaxCalls = 2
    MaxBatch = 2
CHECK_DEADLOCK FALSE
INVARIANTS
    TypeOK
    LockExclusive
    TransactionOwnsTail
    RevisionsDense
    BatchAtomic
    OkIsDurable
PROPERTIES
    GrowsAtTail
    CallsReturn
    ImplementsLog
