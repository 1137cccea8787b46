SPECIFICATION GovernanceSpec
CONSTANTS
    Host = {h1}
    Member = {m1, m2}
    Source = {s1, s2}
    NoSource = NoSource
    Policy = {p1, p2}
    NoPolicy = NoPolicy
    Terms <- TwoPolicies
    Proposal = {q1, q2, q3}
    Validity <- Periods
    Deadline = {2}
    MaxTime = 2
    MaxDecisions = 3
    MaxOpen = 3
    m1 = m1
    m2 = m2
    h1 = h1
    s1 = s1
    s2 = s2
    p1 = p1
    p2 = p2
    q1 = q1
    q2 = q2
    q3 = q3
SYMMETRY Identities
INVARIANTS
    HistoryVerifies
    HeadEndsHistory
PROPERTIES
    AcceptanceIsRecorded
CHECK_DEADLOCK FALSE
