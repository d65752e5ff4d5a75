CONSTANTS
    RequestIds = {r1, r2, r3}
    Threads = {t1, t2}
    MaxStored = 2
    Readings = {1, 2}
SYMMETRY CallerSymmetry
SPECIFICATION Spec
INVARIANTS
    TypeOK
    JobsInOrder
    SnapshotsFollowJobs
    WaitAnswersSound
    DrainedWhenDestroyed
PROPERTIES
    RecentResultsKept
