CONSTANTS
    RequestIds = {r1, r2}
    Threads = {t1, t2}
    MaxStored = 1
    Readings = {1, 2}
SPECIFICATION FairSpec
PROPERTIES
    OutcomeIsFinal
    PositionOnlyAdvances
    EveryRequestFinishes
    WaitersReleased
    DestructorReturns
    ImplementsFairLifecycle
