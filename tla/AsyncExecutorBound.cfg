CONSTANTS
    RequestIds = {r1, r2, r3}
    Threads = {t1}
    MaxStored = 2
    Readings = {1, 2}
SPECIFICATION Spec
INVARIANTS SnapshotsBounded
