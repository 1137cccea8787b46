---------------------------- MODULE MCGovernance ----------------------------
EXTENDS Governance, TLC
CONSTANTS m1, m2, h1, s1, s2, p1, p2, q1, q2, q3
Both(threshold, from, until, sources) ==
    [members |-> {m1, m2}, threshold |-> threshold, proposers |-> {h1}, readers |-> {},
     sources |-> sources, from |-> from, until |-> until]
TwoPolicies == p1 :> Both(2, 0, 2, {s1, s2}) @@ p2 :> Both(1, 1, 3, {s1})
Periods == {[issued |-> 0, expires |-> 1], [issued |-> 0, expires |-> 2], [issued |-> 1, expires |-> 2]}
Identities == Permutations({q1, q2, q3}) \cup Permutations({m1, m2})
=============================================================================
