SPECIFICATION Spec
CONSTANTS
    item1 = item1
    item2 = item2
    worker1 = worker1
    worker2 = worker2
    handler1 = handler1
    handler2 = handler2
    NoItem = NoItem
    Items <- MCItems
    Workers <- MCWorker
    Handlers <- MCHandlers
    Requests = {"pause", "resume", "cancel", "retry"}
    Outcomes = {"success", "failure"}
    Effort = 4
    ItemsPerLoop = 1
    MaxAttempts = 2
    MaxControls = 2
    MaxRebuilds = 0
    MaxRequests = 2
    MaxFaults = 0
SYMMETRY MCAlike
CHECK_DEADLOCK FALSE
INVARIANTS
    TypeOK
    CompletedIsEarned
    StopIsHeeded
    ControlIsLatest
