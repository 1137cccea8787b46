SPECIFICATION Spec
CONSTANTS
    Adapter = {a1, a2}
    Line = {l1}
    Key = {k1}
    Lease = {s1, s2}
    NoLease = NoLease
    a1 = a1
    a2 = a2
    l1 = l1
    k1 = k1
    MAX_DEPTH = 1
    DEFAULT_DEPTH = 1
    MAX_OUTPUT = 1
    Page = 3
    MaxEvents = 2
    MaxPrivate = 0
    MaxEpoch = 0
    MaxInstalled = 1
    MaxReturns = 0
    Manifest <- HandlerManifest
SYMMETRY Identities
INVARIANTS
    SuspendedWorkDrains
CHECK_DEADLOCK FALSE
