SPECIFICATION FairSpec
CONSTANTS
    c1 = c1
    c2 = c2
    Clients <- MCClients
    MaxPolls = 1
    MaxStored = 1
    MaxCommands <- MCMaxCommands
    None = none
INVARIANTS
    TypeOK
    AnswerIsOwn
    OwnOrder
PROPERTIES
    EveryCallReturns
    AcceptedIsFinished
CHECK_DEADLOCK FALSE
