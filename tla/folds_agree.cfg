SPECIFICATION Spec
CONSTANTS
    item1 = item1
    item2 = item2
    worker1 = worker1
    worker2 = worker2
    handler1 = handler1
    handler2 = handler2
    NoItem = NoItem
    Items <- MCItems
    Workers <- MCWorker
    Handlers <- MCHandler
    Requests = {"cancel"}
    Outcomes = {"success"}
    Effort = 4
    ItemsPerLoop = 1
    MaxAttempts = 2
    MaxControls = 1
    MaxRebuilds = 0
    MaxRequests = 1
    MaxFaults = 0
CHECK_DEADLOCK FALSE
INVARIANTS
    FoldsAgreeOnStatus
