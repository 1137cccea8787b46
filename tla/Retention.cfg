SPECIFICATION Spec
CONSTANTS
    Graph = {g1}
    Branch = {b1}
    Engine = {e1}
    Body = {x}
    Batch = {}
    NoBatch = NoBatch
    Pin = {p1}
    NoPlan = NoPlan
    MaxRevisions = 3
    MaxObservations = 3
    MaxEvents = 2
    MaxTime = 1
    MaxGeneration = 1
    MaxReceived = 2
    MaxAncestor = 0
    MaxRequired = 1
    MaxMentions = 0
    MaxPinned = 1
SYMMETRY Identifiers
INVARIANTS
    RootsLoad
    DependenciesLoad
    AnchorsValid
