SPECIFICATION Spec
CONSTANTS
    adm = adm
    u1 = u1
    u2 = u2
    a1 = a1
    squad = squad
    team = team
    org = org
    g1 = g1
    main = main
    alt = alt
    n1 = n1
    n2 = n2
    n3 = n3
    e1 = e1
    m1 = m1
    v1 = v1
    Principal = {adm, u1, u2, a1, squad, team, org}
    ADMINISTRATORS = adm
    NoOwner = NoOwner
    Graph = {g1}
    Branch = {main, alt}
    AnyBranch = AnyBranch
    MAX_GROUP_DEPTH = 2
    MAX_OWNERSHIP_CHAIN = 2
    MaxTime = 1
    Home = g1
    Fact <- AllFacts
    NoEntity = NoEntity
    LocalWriters = {u1, u2}
    Demands <- Requests
    MaxRegistry = 6
    MaxRevisions = 3
INVARIANTS
    TypeOK
    NestingBounded
    ResolutionIgnoresDepth
    ReferencesResolve
    HiddenIsAbsent
PROPERTIES
    AuthorityLossAdvancesEpoch
    ImplementsHistory
CHECK_DEADLOCK FALSE
