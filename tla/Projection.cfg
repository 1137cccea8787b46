SPECIFICATION Spec
CONSTANTS
    Adapter = {a1}
    Line = {l1}
    Key = {}
    Lease = {s1}
    NoLease = NoLease
    a1 = a1
    a2 = a2
    l1 = l1
    k1 = k1
    MAX_DEPTH = 1
    DEFAULT_DEPTH = 1
    MAX_OUTPUT = 0
    Page = 3
    MaxEvents = 3
    MaxPrivate = 1
    MaxEpoch = 2
    MaxInstalled = 1
    MaxReturns = 1
    Manifest <- ProjectionManifest
INVARIANTS
    NoSilentGap
    StateMatchesCheckpoint
CHECK_DEADLOCK FALSE
