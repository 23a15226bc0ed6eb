SPECIFICATION FairSpec
CONSTANTS
    handler1 = handler1
    handler2 = handler2
    client1 = client1
    Handlers <- MCHandlers
    Clients <- MCClients
    Capacity = 2
    MaxInbox = 1
    MaxEvents = 4
    MaxBatch = 2
CHECK_DEADLOCK FALSE
INVARIANTS
    TypeOK
    BatchesInOrder
    GreetedMissNothing
PROPERTIES
    EventsReachClient
    SpeechUnmutes
    ClosedIsReaped
    ImplementsFeed
