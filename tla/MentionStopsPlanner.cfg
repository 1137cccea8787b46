SPECIFICATION Spec
CONSTANTS
    Graph = {g1}
    Branch = {b1}
    Engine = {e1}
    Body = {x, y}
    Batch = {}
    NoBatch = NoBatch
    Pin = {}
    NoPlan = NoPlan
    MaxRevisions = 3
    MaxObservations = 3
    MaxEvents = 3
    MaxTime = 1
    MaxGeneration = 2
    MaxReceived = 0
    MaxAncestor = 0
    MaxRequired = 0
    MaxMentions = 1
    MaxPinned = 0
SYMMETRY Identifiers
INVARIANTS
    MentionsOnlyRetain
