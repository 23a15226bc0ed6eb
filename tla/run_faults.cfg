SPECIFICATION FairSpec
CONSTANTS
    item1 = item1
    item2 = item2
    worker1 = worker1
    worker2 = worker2
    handler1 = handler1
    handler2 = handler2
    NoItem = NoItem
    Items <- MCOneItem
    Workers <- MCWorker
    Handlers <- MCHandler
    Requests = {"cancel", "retry"}
    Outcomes = {"success", "error"}
    Effort = 4
    ItemsPerLoop = 2
    MaxAttempts = 2
    MaxControls = 2
    MaxRebuilds = 1
    MaxRequests = 2
    MaxFaults = 1
CHECK_DEADLOCK FALSE
INVARIANTS
    ExecutionsPaid
    EventsOnce
    CompletedShowsEffort
    ProjectionBehindLog
PROPERTIES
    AssignedIsPickedUp
