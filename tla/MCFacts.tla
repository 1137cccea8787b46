------------------------------- MODULE MCFacts -------------------------------
EXTENDS Facts
CONSTANTS adm, u1, u2, a1, squad, team, org, g1, main, alt, n1, n2, n3, e1, m1, v1

(* What hosts ask of the registry. *)
By(h, batch) == [host |-> h, batch |-> batch]
Add(id, kind) == [change |-> "add_principal", id |-> id, kind |-> kind]
Member(group, id) == [change |-> "add_member", group |-> group, id |-> id]
NoMember(group, id) == [change |-> "remove_member", group |-> group, id |-> id]
Give(id, level) == [change |-> "grant", graph |-> g1, id |-> id, permission |-> level]
On(change, b) == [change |-> change, graph |-> g1, branch |-> b]
OnFor(change, b, id) == [change |-> change, graph |-> g1, branch |-> b, id |-> id]
Set(id, status) == [change |-> "set_status", id |-> id, status |-> status]
Acting(branches, identities, expires) ==
    [scopes |-> {[graph |-> g1, permission |-> Write, branches |-> branches]},
     owner_all |-> FALSE, identities |-> identities, expires |-> expires, may_delegate |-> FALSE]
Agent(d) == [change |-> "add_agent", id |-> a1, owner |-> u2, delegation |-> d]
Delegate(d) == [change |-> "set_delegation", id |-> a1, delegation |-> d]

People == <<Add(u2, "user"), Add(team, "group"), Member(team, u2), Give(team, Write)>>
Nested == <<Add(squad, "group"), Add(org, "group")>>
WithAgent == <<Agent(Acting({}, {team}, Never))>>

Alone(h, changes) == {By(h, <<c>>) : c \in changes}
Administration ==
    {By(u1, People \o Nested), By(u1, WithAgent),
     By(u1, <<[change |-> "set_group_administrators", group |-> team, administrators |-> {u2}]>>),
     By(u1, <<On("protect_branch", main), OnFor("grant_branch_write", main, u2)>>)}
    \cup Alone(u1, {Member(team, squad), Member(org, team), Member(squad, org),
                    NoMember(team, u2), Give(team, Read),
                    [change |-> "revoke", graph |-> g1, id |-> team],
                    On("unprotect_branch", main), OnFor("revoke_branch_write", main, u2),
                    Set(u2, "suspended"), Set(u2, "active"), Set(a1, "retired"),
                    Member(adm, u2), NoMember(adm, u1)})
    \cup Alone(u2, {Delegate(Acting({main}, {}, 1)), Set(a1, "suspended"), Member(team, a1),
                    Agent(Acting({main}, {u2}, 1))})
    \cup Alone(a1, {Delegate(Acting({}, {}, Never))})

(* A chain of agents, each added by the one before; the identifiers of groups serve here. *)
Passing(level, expires) ==
    [scopes |-> {[graph |-> g1, permission |-> level, branches |-> {}]}, owner_all |-> TRUE,
     identities |-> {}, expires |-> expires, may_delegate |-> TRUE]
SubAgent(owner, id, level, expires) ==
    [change |-> "add_agent", id |-> id, owner |-> owner, delegation |-> Passing(level, expires)]
Chaining ==
    Alone(u1, {Add(u2, "user"), Give(u2, Write), Give(u2, Read), Set(u2, "suspended"), Set(a1, "suspended")})
    \cup Alone(u2, {SubAgent(u2, a1, Write, Never)})
    \cup Alone(a1, {SubAgent(a1, squad, Write, 1)})
    \cup Alone(squad, {SubAgent(squad, team, Read, 1)})

(* The records. *)
Node(k, body, readers, groups) ==
    [kind |-> "node", key |-> k, refs |-> {}, entity |-> "entity", host |-> NoEntity,
     body |-> body, readers |-> readers, groups |-> groups]
Edge(k, from, to) ==
    [kind |-> "edge", key |-> k, refs |-> {from, to}, entity |-> NoEntity, host |-> NoEntity,
     body |-> 0, readers |-> {}, groups |-> {}]
Attachment(k) ==
    [kind |-> "attachment", key |-> k, refs |-> {}, entity |-> NoEntity, host |-> "entity",
     body |-> 0, readers |-> {}, groups |-> {}]
Embedding(k, of) ==
    [kind |-> "embedding", key |-> k, refs |-> {of}, entity |-> NoEntity, host |-> NoEntity,
     body |-> 0, readers |-> {}, groups |-> {}]
N1 == Node(n1, 0, {}, {})
N1b == Node(n1, 1, {}, {})
Hidden == Node(n2, 0, {u1}, {})
Teams == Node(n3, 0, {}, {team})
Open3 == Node(n3, 0, {}, {})
Link == Edge(e1, n1, n2)
Loop == Edge(e1, n1, n1)
Note == Attachment(m1)
Vector == Embedding(v1, n1)
AllFacts == {N1, N1b, Hidden, Teams, Open3, Link, Loop, Note, Vector}

Asserts(f) == [op |-> "assert", fact |-> f, expected |-> {}, widen_readers |-> FALSE]
Correct(f, expected, widen) ==
    [op |-> "correct", fact |-> f, expected |-> expected, widen_readers |-> widen]
Retract(f) == [op |-> "retract", fact |-> f, expected |-> {}, widen_readers |-> FALSE]
Asks(h, changes) == [host |-> h, changes |-> changes]
Sets(h, F) == [host |-> h, facts |-> F]

Nothing == [enable |-> {}, batches |-> {}, writes |-> {}, imports |-> {}, commits |-> {},
            owners |-> {}, cachers |-> {}, times |-> {0}]
Administering == [Nothing EXCEPT !.enable = {u1}, !.batches = Administration, !.times = Time]
Delegating == [Nothing EXCEPT !.enable = {u1}, !.batches = Chaining, !.times = Time]
Hiding ==
    [Nothing EXCEPT
        !.enable = {u1},
        !.batches = {By(u1, People \o WithAgent), By(u1, <<NoMember(team, u2)>>)},
        !.writes = {Asks(u1, {Asserts(N1), Asserts(Hidden)}), Asks(u1, {Asserts(Link)}),
                    Asks(a1, {Asserts(Teams)}), Asks(u2, {Asserts(Hidden)}),
                    Asks(u2, {Asserts(Link)}), Asks(u2, {Retract(N1)}), Asks(u2, {Retract(Hidden)}),
                    Asks(u2, {Correct(Open3, {2}, TRUE)}), Asks(a1, {Asserts(Note)}),
                    Asks(u1, {Retract(Link), Retract(Hidden)})},
        !.owners = {u1}]
Sharing ==
    [Nothing EXCEPT
        !.writes = {Asks(u1, {Asserts(N1), Asserts(Vector)}), Asks(u1, {Asserts(Note), Asserts(Open3)}),
                    Asks(u1, {Retract(N1), Retract(Vector)})},
        !.imports = {Sets(u2, {N1b, Hidden})},
        !.commits = {Sets(u1, {N1, Note})},
        !.owners = {u2}, !.cachers = {u2}]
Requests == {Administering, Delegating, Hiding, Sharing}
RegistryOnly == {Administering}
=============================================================================
