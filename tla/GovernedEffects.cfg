SPECIFICATION Spec
CONSTANTS
    Host = {h1}
    Member = {m1}
    Source = {s1, s2}
    NoSource = NoSource
    Policy = {p1, p2}
    NoPolicy = NoPolicy
    Terms <- Policies
    Proposal = {q1, q2, q3}
    Validity <- Periods
    Deadline = {1}
    MaxTime = 0
    MaxDecisions = 3
    Adapter = {a1, a2}
    Owner <- Owners
    Plans <- HostPlans
    MaxOpen = 1
    Limits <- Budgets
    Execution = {x1}
    NoExecution = NoExecution
    Grant <- Grants
    m1 = m1
    h1 = h1
    s1 = s1
    s2 = s2
    p1 = p1
    p2 = p2
    q1 = q1
    q2 = q2
    q3 = q3
    a1 = a1
    a2 = a2
    x1 = x1
SYMMETRY Identities
INVARIANTS
    TypeOK
    OrdinalsContiguous
    NoEventLost
PROPERTIES
    AttemptsFollowHead
    ImplementsOutbox
CHECK_DEADLOCK FALSE
