-------------------------- MODULE MCGovernedEffects --------------------------
EXTENDS GovernedEffects, TLC
CONSTANTS m1, h1, s1, s2, p1, p2, q1, q2, q3, a1, a2, x1
Sole(until, sources) ==
    [members |-> {m1}, threshold |-> 1, proposers |-> {h1}, readers |-> {},
     sources |-> sources, from |-> 0, until |-> until]
Policies == p1 :> Sole(1, {s1, s2}) @@ p2 :> Sole(1, {s1})
HostPlans == {
    a1 :> {"governed", "running", "draining", "removed"} @@ a2 :> {"governed", "running"},
    a1 :> {"plain", "running", "paused", "draining", "removed"} @@ a2 :> {}}
Owners == [a \in Adapter |-> h1]
Budgets == [a \in Adapter |-> [attempts |-> 1, backlog |-> 2]]
Grants == [a \in Adapter |-> [execution |-> x1, sources |-> {s1,s2}, from |-> 0, until |-> 1, replay |-> (a = a1)]]
Identities == Permutations({q1, q2, q3})
Periods == {[issued |-> 0, expires |-> 1]}
=============================================================================
