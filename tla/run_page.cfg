SPECIFICATION PageSpec
CONSTANTS
    item1 = item1
    worker1 = worker1
    handler1 = handler1
    NoItem = NoItem
    Items <- MCOneItem
    Workers <- MCWorker
    Handlers <- MCHandler
    Requests = {"cancel"}
    Outcomes = {"success", "error"}
    Effort = 4
    ItemsPerLoop = 2
    MaxAttempts = 2
    MaxControls = 1
    MaxRebuilds = 1
    MaxRequests = 2
    MaxFaults = 0
CHECK_DEADLOCK FALSE
INVARIANTS
    PageExplained
    PageCountsAgree
