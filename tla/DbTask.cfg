SPECIFICATION FairSpec
CONSTANTS
    Clients = {c1, c2}
    Main = main
    QueueSize = 2
    ReplySize = 2
    Outstanding = 2
    MaxRequests = 3
    MaxStarts = 2
INVARIANTS OneTaskOnDatabase RepliesMatchRequests TaskNeverWaitsForClient
PROPERTY EveryRequestAnswered
CHECK_DEADLOCK FALSE
