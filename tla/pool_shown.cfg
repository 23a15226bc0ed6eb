SPECIFICATION Spec
CONSTANTS
    item1 = item1
    item2 = item2
    worker1 = worker1
    worker2 = worker2
    handler1 = handler1
    handler2 = handler2
    NoItem = NoItem
    Items <- MCItems
    Workers <- MCWorkers
    Handlers <- MCHandler
    Requests = {}
    Outcomes = {"success"}
    Effort = 4
    ItemsPerLoop = 1
    MaxAttempts = 2
    MaxControls = 0
    MaxRebuilds = 0
    MaxRequests = 0
    MaxFaults = 0
CHECK_DEADLOCK FALSE
PROPERTIES
    ShownCompletedStays
