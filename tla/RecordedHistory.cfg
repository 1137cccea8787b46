SPECIFICATION Spec
CONSTANTS
    Graph = {g1, g2}
    Branch = {b1}
    Engine = {e1}
    Body = {x, y}
    Batch = {k1}
    NoBatch = NoBatch
    Pin = {}
    NoPlan = NoPlan
    MaxRevisions = 3
    MaxObservations = 2
    MaxEvents = 4
    MaxTime = 1
    MaxGeneration = 2
    MaxReceived = 0
    MaxAncestor = 0
    MaxRequired = 0
    MaxMentions = 0
    MaxPinned = 0
SYMMETRY Identifiers
INVARIANTS
    TypeOK
    AsOfServed
    HeadIsTip
    NoLostUpdate
    EveryChangeHasAnEvent
    BatchErasedWhole
PROPERTIES
    ImplementsRegister
