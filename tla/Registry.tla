------------------------------ MODULE Registry ------------------------------
(***************************************************************************)
(* The principal registry of weave-engine: users, groups and agents, nested*)
(* groups, agent delegation, graph ACLs and protected branches.  A registry*)
(* write is a batch of changes, each checked under the authority the       *)
(* earlier ones left, and becomes one revision of the registry graph or    *)
(* nothing.  Authority is resolved from the registry as it is, for every   *)
(* request; a write that may reduce it advances the admission epoch, which *)
(* voids requests verified and retries signed under the earlier one.       *)
(*                                                                         *)
(* The registry graph's facts are the record `registry' rendered, so a     *)
(* write with no difference records nothing.  Its revisions are numbered.  *)
(* Every operation takes one sample of a clock that moves both ways.       *)
(***************************************************************************)
EXTENDS Integers, Sequences, FiniteSets, FiniteSetsExt

CONSTANTS
    Principal,              \* identifiers of users, groups and agents
    ADMINISTRATORS,         \* the reserved group of tenant administrators
    NoOwner,
    Graph,
    Branch,
    AnyBranch,              \* asks for an unprotected branch of no particular name
    MAX_GROUP_DEPTH,
    MAX_OWNERSHIP_CHAIN,
    MaxTime                 \* bound: clock samples are 0..MaxTime

Time == 0..MaxTime
Never == MaxTime + 1        \* the expiry of a delegation that states none

\* Ordered permissions; 0 is none at all.
Discover == 1
Read == 2
Write == 3
Administer == 4
Level == 0..Administer

ASSUME RegistryAssumption ==
    /\ IsFiniteSet(Principal) /\ IsFiniteSet(Graph) /\ IsFiniteSet(Branch)
    /\ ADMINISTRATORS \in Principal
    /\ AnyBranch \notin Branch /\ NoOwner \notin Principal
    /\ {MAX_GROUP_DEPTH, MAX_OWNERSHIP_CHAIN} \subseteq Nat \ {0}
    /\ MaxTime \in Nat

VARIABLES
    registry,       \* the state rendered as facts of weave:registry at its head
    registryHead,   \* its revision; 0 before enable_registry
    epoch           \* the registry revision that last advanced the epoch of an installed policy

authority == <<registry, registryHead, epoch>>

Kind == {"unregistered", "user", "group", "agent"}
Status == {"active", "suspended", "retired"}
Scope == [graph : Graph, permission : 1..Administer, branches : SUBSET Branch]
Delegation == [scopes : SUBSET Scope, owner_all : BOOLEAN, identities : SUBSET Principal,
               expires : 0..Never, may_delegate : BOOLEAN]
NoDelegation == [scopes |-> {}, owner_all |-> FALSE, identities |-> {},
                 expires |-> Never, may_delegate |-> FALSE]

Unregistered ==
    [kind |-> [p \in Principal |-> "unregistered"],
     status |-> [p \in Principal |-> "active"],
     administrators |-> [p \in Principal |-> {}],
     owner |-> [p \in Principal |-> NoOwner],
     delegation |-> [p \in Principal |-> NoDelegation],
     members |-> {},
     grants |-> [g \in Graph |-> [p \in Principal |-> 0]],
     protected |-> {},
     writers |-> {}]

State == [kind : [Principal -> Kind], status : [Principal -> Status],
          administrators : [Principal -> SUBSET Principal],
          owner : [Principal -> Principal \cup {NoOwner}],
          delegation : [Principal -> Delegation],
          members : SUBSET (Principal \X Principal),
          grants : [Graph -> [Principal -> Level]],
          protected : SUBSET (Graph \X Branch),
          writers : SUBSET (Graph \X Branch \X Principal)]

RegistryTypeOK ==
    /\ registry \in State
    /\ registryHead \in Nat
    /\ epoch \in 0..registryHead

(***************************************************************************)
(* Groups and ownership                                                    *)
(***************************************************************************)

Registered(s) == {p \in Principal : s.kind[p] # "unregistered"}
Active(s) == {p \in Registered(s) : s.status[p] = "active"}
Groups(s) == {p \in Principal : s.kind[p] = "group"}
ActiveGroups(s) == Groups(s) \cap Active(s)

\* What a chain of the edges E (from, to) reaches from p, p not included unless on a cycle.
Reach(E, p) ==
    LET reached[n \in 0..Cardinality(Principal)] ==
            IF n = 0 THEN {} ELSE
            LET near == {p} \cup reached[n - 1]
            IN  {e[2] : e \in {x \in E : x[1] \in near}}
    IN  reached[Cardinality(Principal)]

\* A membership is a pair <<member, group>>.
Closure(s, p) == Reach({e \in s.members : e[2] \in ActiveGroups(s)}, p)
Ancestors(s, p) == Reach(s.members, p)
Below(s, p) == {p} \cup Reach({<<e[2], e[1]>> : e \in s.members}, p)
Chain(s, p) == Reach({<<a, s.owner[a]>> : a \in {q \in Principal : s.owner[q] # NoOwner}}, p)
AgentsOf(s, p) ==
    Reach({<<s.owner[a], a>> : a \in {q \in Active(s) : s.kind[q] = "agent"}}, p)

\* The groups with a chain of n groups above them, themselves counted.
Height(s, n) ==
    LET tall[k \in 1..n] ==
            IF k = 1 THEN Groups(s)
            ELSE {g \in Groups(s) : \E e \in s.members : e[1] = g /\ e[2] \in tall[k - 1]}
    IN  tall[n]

TooDeep(s, p) ==
    (Ancestors(s, p) \cup ({p} \cap Groups(s))) \cap Height(s, MAX_GROUP_DEPTH + 1) # {}

(***************************************************************************)
(* Resolution of a principal: an AND of reader clauses, what it may do on  *)
(* each graph, and the branches it writes without Administer.              *)
(***************************************************************************)

NoClause == [principals |-> {}, groups |-> {}]
Nobody ==
    [actor |-> "nobody", clauses |-> {NoClause}, own |-> NoClause, subjects |-> {},
     administrator |-> FALSE, expires |-> Never, may_delegate |-> FALSE,
     permission |-> [g \in Graph |-> 0], plain |-> {}]

RecordAdmits(readers, groups, clauses) ==
    \/ readers = {} /\ groups = {}
    \/ \A c \in clauses : readers \cap c.principals # {} \/ groups \cap c.groups # {}

Identity(s, p) == [principals |-> {p} \cup AgentsOf(s, p), groups |-> Closure(s, p)]

ResolveUser(s, p) ==
    LET own == Identity(s, p)
        subjects == {p} \cup own.groups
        administrator == ADMINISTRATORS \in subjects
        held == [g \in Graph |-> IF administrator THEN Administer
                                 ELSE Max({s.grants[g][x] : x \in subjects})]
    IN  [Nobody EXCEPT
          !.actor = "user", !.clauses = {own}, !.own = own, !.subjects = subjects,
          !.administrator = administrator, !.permission = held,
          !.plain = {at \in Graph \X (Branch \cup {AnyBranch}) :
                        IF at \in s.protected
                        THEN /\ held[at[1]] >= Read
                             /\ \E w \in subjects : <<at[1], at[2], w>> \in s.writers
                        ELSE held[at[1]] >= Write}]

\* An agent holds what its owner holds now, within its delegation.
ResolveAgent(s, p, owner) ==
    LET d == s.delegation[p]
        self == Identity(s, p)
        Exercised(held) == IF d.owner_all THEN held ELSE held \cap d.identities
        own == [principals |-> self.principals \cup Exercised(owner.own.principals),
                groups |-> self.groups \cup Exercised(owner.own.groups)]
        Scoped(g) == {sc.permission : sc \in {x \in d.scopes : x.graph = g}}
    IN  IF owner.actor = "nobody" THEN Nobody ELSE
        [Nobody EXCEPT
          !.actor = "agent", !.clauses = owner.clauses \cup {own}, !.own = own,
          !.expires = Min({owner.expires, d.expires}), !.may_delegate = d.may_delegate,
          !.permission = [g \in Graph |-> Min({owner.permission[g], Write, Max({0} \cup Scoped(g))})],
          !.plain = {at \in owner.plain :
                        \E sc \in d.scopes : /\ sc.graph = at[1] /\ sc.permission >= Write
                                             /\ sc.branches = {} \/ at[2] \in sc.branches}]

\* A principal whose owner resolves to `owner'. Groups never authenticate.
ResolveOne(s, p, owner) ==
    IF p \notin Active(s) THEN Nobody ELSE
    CASE s.kind[p] = "group" -> Nobody
      [] s.kind[p] = "user" -> ResolveUser(s, p)
      [] s.kind[p] = "agent" -> ResolveAgent(s, p, owner)

\* With n owners of its chain left to resolve, the last agent is nobody.
Resolve(s, p) ==
    LET who[n \in 0..MAX_OWNERSHIP_CHAIN] ==
            [q \in Principal |->
                ResolveOne(s, q, IF n = 0 THEN Nobody ELSE who[n - 1][s.owner[q]])]
    IN  who[MAX_OWNERSHIP_CHAIN][p]

Effective(s, p, now) ==
    LET who == Resolve(s, p) IN IF now >= who.expires THEN Nobody ELSE who

CanWrite(who, g, b) ==
    \/ <<g, b>> \in who.plain
    \/ who.actor = "user" /\ who.permission[g] = Administer

\* Group administration is never delegated to agents.
MayAdministerGroup(s, who, g) ==
    \/ who.administrator
    \/ who.actor = "user" /\ g # ADMINISTRATORS /\ s.administrators[g] \cap who.subjects # {}

NameableGroup(s, who, g) ==
    /\ g \in ActiveGroups(s)
    /\ (\A c \in who.clauses : g \in c.groups) \/ MayAdministerGroup(s, who, g)

(***************************************************************************)
(* One change of a registry write                                          *)
(***************************************************************************)

RegistryChange ==
    [change : {"add_principal"}, id : Principal, kind : Kind \ {"unregistered"}]
    \cup [change : {"add_agent"}, id : Principal, owner : Principal, delegation : Delegation]
    \cup [change : {"set_delegation"}, id : Principal, delegation : Delegation]
    \cup [change : {"set_status"}, id : Principal, status : Status]
    \cup [change : {"add_member", "remove_member"}, group : Principal, id : Principal]
    \cup [change : {"set_group_administrators"}, group : Principal,
          administrators : SUBSET Principal]
    \cup [change : {"grant"}, graph : Graph, id : Principal, permission : 1..Administer]
    \cup [change : {"revoke"}, graph : Graph, id : Principal]
    \cup [change : {"protect_branch", "unprotect_branch"}, graph : Graph, branch : Branch]
    \cup [change : {"grant_branch_write", "revoke_branch_write"},
          graph : Graph, branch : Branch, id : Principal]

\* A sub-agent's delegation fits inside its owner's, on every branch it writes.
Covers(parent, sc) ==
    \E p \in parent.scopes :
        /\ p.graph = sc.graph /\ p.permission >= sc.permission
        /\ \/ p.branches = {} \/ sc.permission < Write
           \/ sc.branches # {} /\ sc.branches \subseteq p.branches

CheckDelegation(s, owner, d, now) ==
    LET held == Effective(s, owner, now) IN
    /\ \A sc \in d.scopes : sc.permission # Administer
    /\ held.actor # "nobody"
    /\ d.owner_all \/ d.identities \subseteq held.own.principals \cup held.own.groups
    /\ s.kind[owner] = "agent" =>
          /\ s.delegation[owner].may_delegate
          /\ \A sc \in d.scopes : Covers(s.delegation[owner], sc)
          /\ d.expires <= held.expires

\* In the state with the member already added, everything below it is checked.
AddMember(s, g, m) == [s EXCEPT !.members = @ \cup {<<m, g>>}]
MemberFitsAlone(s, g, m) ==
    /\ s.kind[g] = "group" /\ s.status[g] # "retired"
    /\ m \in Registered(s)
    /\ g = ADMINISTRATORS => s.kind[m] = "user"
    /\ <<m, g>> \notin s.members =>
          /\ m # g /\ m \notin Ancestors(s, g)
          /\ ~TooDeep(AddMember(s, g, m), m)

MemberFits(s, g, m) ==
    /\ s.kind[g] = "group" /\ s.status[g] # "retired"
    /\ m \in Registered(s)
    /\ g = ADMINISTRATORS => s.kind[m] = "user"
    /\ <<m, g>> \notin s.members =>
          /\ m # g /\ m \notin Ancestors(s, g)
          /\ \A p \in Below(s, m) : ~TooDeep(AddMember(s, g, m), p)

HasAdministrator(s) ==
    \E p \in Active(s) : s.kind[p] = "user" /\ <<p, ADMINISTRATORS>> \in s.members

RemoveMember(s, g, m) == [s EXCEPT !.members = @ \ {<<m, g>>}]

Changed(s, c) ==
    CASE c.change = "add_principal" -> [s EXCEPT !.kind[c.id] = c.kind]
      [] c.change = "add_agent" -> [s EXCEPT !.kind[c.id] = "agent", !.owner[c.id] = c.owner,
                                             !.delegation[c.id] = c.delegation]
      [] c.change = "set_delegation" -> [s EXCEPT !.delegation[c.id] = c.delegation]
      [] c.change = "set_status" -> [s EXCEPT !.status[c.id] = c.status]
      [] c.change = "add_member" -> AddMember(s, c.group, c.id)
      [] c.change = "remove_member" -> RemoveMember(s, c.group, c.id)
      [] c.change = "set_group_administrators" -> [s EXCEPT !.administrators[c.group] = c.administrators]
      [] c.change = "grant" -> [s EXCEPT !.grants[c.graph][c.id] = c.permission]
      [] c.change = "revoke" -> [s EXCEPT !.grants[c.graph][c.id] = 0]
      [] c.change = "protect_branch" -> [s EXCEPT !.protected = @ \cup {<<c.graph, c.branch>>}]
      [] c.change = "unprotect_branch" ->
            [s EXCEPT !.protected = @ \ {<<c.graph, c.branch>>},
                      !.writers = {w \in @ : <<w[1], w[2]>> # <<c.graph, c.branch>>}]
      [] c.change = "grant_branch_write" -> [s EXCEPT !.writers = @ \cup {<<c.graph, c.branch, c.id>>}]
      [] c.change = "revoke_branch_write" -> [s EXCEPT !.writers = @ \ {<<c.graph, c.branch, c.id>>}]

\* What an agent may change: agents below it, and its own sub-agents.
WithinAgent(s, h, who, c) ==
    \/ c.change = "add_agent" /\ (c.owner = h \/ h \in Chain(s, c.owner)) /\ who.may_delegate
    \/ c.change \in {"set_delegation", "set_status"} /\ h \in Chain(s, c.id)

\* The chain of a new agent is its owner's and one link more.
ChainFitsItself(s, owner) == Cardinality(Chain(s, owner)) <= MAX_OWNERSHIP_CHAIN
ChainFits(s, owner) == Cardinality(Chain(s, owner)) < MAX_OWNERSHIP_CHAIN

OnPrincipal(s, h, who, c, now) ==
    \/ /\ c.change = "add_principal"
       /\ who.administrator /\ c.kind # "agent" /\ c.id \notin Registered(s)
    \/ /\ c.change = "add_agent"
       /\ c.owner \in Registered(s) \ Groups(s)
       /\ who.administrator \/ c.owner = h \/ h \in Chain(s, c.owner)
       /\ ChainFits(s, c.owner)
       /\ CheckDelegation(s, c.owner, c.delegation, now)
       /\ c.id \notin Registered(s)
    \/ /\ c.change = "set_delegation"
       /\ s.kind[c.id] = "agent"
       /\ who.administrator \/ h \in Chain(s, c.id)
       /\ CheckDelegation(s, s.owner[c.id], c.delegation, now)
    \/ /\ c.change = "set_status"
       /\ who.administrator \/ h \in Chain(s, c.id)
       /\ c.id \in Registered(s) \ {ADMINISTRATORS}
       /\ s.status[c.id] = "retired" => c.status = "retired"
       /\ HasAdministrator(Changed(s, c))

OnGroup(s, who, c) ==
    \/ /\ c.change = "add_member"
       /\ MayAdministerGroup(s, who, c.group) /\ MemberFits(s, c.group, c.id)
    \/ /\ c.change = "remove_member"
       /\ MayAdministerGroup(s, who, c.group)
       /\ c.group = ADMINISTRATORS =>
             \E e \in RemoveMember(s, c.group, c.id).members : e[2] = ADMINISTRATORS
    \/ /\ c.change = "set_group_administrators"
       /\ who.administrator /\ c.group \in Groups(s) \ {ADMINISTRATORS}
       /\ c.administrators \subseteq Registered(s)

OnGraph(s, who, c) ==
    /\ c.change \in {"grant", "revoke", "protect_branch", "unprotect_branch",
                     "grant_branch_write", "revoke_branch_write"}
    /\ who.permission[c.graph] = Administer
    /\ c.change \in {"grant", "grant_branch_write"} => c.id \in Registered(s)
    /\ c.change = "grant_branch_write" => <<c.graph, c.branch>> \in s.protected

Permitted(s, h, c, now) ==
    LET who == Effective(s, h, now) IN
    /\ who.actor # "nobody"
    /\ who.actor = "agent" => WithinAgent(s, h, who, c)
    /\ OnPrincipal(s, h, who, c, now) \/ OnGroup(s, who, c) \/ OnGraph(s, who, c)

AdditiveGrant(c) == c.change \in {"grant", "add_principal", "add_agent", "add_member",
                                  "grant_branch_write", "unprotect_branch"}

Additive(c) == c.change \in {"add_principal", "add_agent", "add_member",
                             "grant_branch_write", "unprotect_branch"}

\* The state the batch leaves, as a set: empty when one of its changes is refused.
Applied(s, h, batch, now) ==
    LET after[n \in 0..Len(batch)] ==
            IF n = 0 THEN {s}
            ELSE {Changed(t, batch[n]) :
                     t \in {u \in after[n - 1] : Permitted(u, h, batch[n], now)}}
    IN  after[Len(batch)]

(***************************************************************************)
(* The operations                                                          *)
(***************************************************************************)

RegistryInit == registry = Unregistered /\ registryHead = 0 /\ epoch = 0

\* No difference records no revision, and so advances no epoch.
RegistryWrite(s, reducing) ==
    /\ registry' = s
    /\ registryHead' = IF s = registry THEN registryHead ELSE registryHead + 1
    /\ epoch' = IF reducing /\ s # registry THEN registryHead' ELSE epoch

\* One-way; the host becomes the first user and tenant administrator.
EnableRegistry(h) ==
    /\ registryHead = 0
    /\ h # ADMINISTRATORS
    /\ RegistryWrite(AddMember([Unregistered EXCEPT !.kind[ADMINISTRATORS] = "group",
                                                    !.kind[h] = "user"],
                               ADMINISTRATORS, h), FALSE)

ApplyRegistry(h, batch, now) ==
    /\ registryHead # 0 /\ batch # <<>>
    /\ \E s \in Applied(registry, h, batch, now) :
          RegistryWrite(s, \E n \in DOMAIN batch : ~Additive(batch[n]))

(***************************************************************************)
(* Properties                                                              *)
(***************************************************************************)

\* Groups never form a cycle and no chain of them is deeper than MAX_GROUP_DEPTH, whatever
\* order memberships are added in: add_member checks everything below the member it adds.
NestingBounded ==
    \A g \in Groups(registry) : g \notin Ancestors(registry, g) /\ ~TooDeep(registry, g)

\* What p holds in s and no longer holds in t.  Unprotecting a branch is left out: the code
\* calls it additive, though a writer entry with Read alone is lost with it.
Loses(s, t, p) ==
    LET old == Resolve(s, p)
        new == Resolve(t, p)
    IN  \/ old.administrator /\ ~new.administrator
        \/ \E g \in Graph : new.permission[g] < old.permission[g]
        \/ \E g \in Graph, b \in Branch \cup {AnyBranch} :
              /\ CanWrite(old, g, b) /\ ~CanWrite(new, g, b)
              /\ ~(<<g, b>> \in s.protected /\ <<g, b>> \notin t.protected)
        \/ \E reader \in Principal, group \in Principal :
              /\ RecordAdmits({reader}, {group}, old.clauses)
              /\ ~RecordAdmits({reader}, {group}, new.clauses)

\* No principal loses a permission, a branch or the sight of a record without the admission
\* epoch moving to the registry revision that took it (registry.rs additive, ADR-0007
\* section 5): requests verified before it are void.
AuthorityLossAdvancesEpoch ==
    [][(\E p \in Principal : Loses(registry, registry', p)) =>
           epoch' = registryHead' /\ epoch' # epoch]_authority

\* How deep in a chain of owners a principal is resolved makes no difference, for agents are
\* added only where the chain still fits (registry.rs resolve_at keeps a result under the
\* principal alone, whatever depth it was computed at).
ResolutionIgnoresDepth ==
    \A p \in Principal : registry.kind[p] = "agent" =>
        Resolve(registry, p) = ResolveOne(registry, p, Resolve(registry, registry.owner[p]))

\* What `who' may do and read, `owner' may too.
Within(who, owner) ==
    /\ who.actor # "nobody" => owner.actor # "nobody"
    /\ \A g \in Graph : who.permission[g] <= owner.permission[g]
    /\ \A g \in Graph, b \in Branch \cup {AnyBranch} :
          CanWrite(who, g, b) => CanWrite(owner, g, b)
    /\ \A readers, groups \in SUBSET Principal :
          RecordAdmits(readers, groups, who.clauses) => RecordAdmits(readers, groups, owner.clauses)

\* No agent may ever do or read what one of its owners, up to the user at the end of the
\* chain, may not at that moment: an owner's loss is its agents' (ADR-0007 sections 2 and 3;
\* registry.rs compute and effective).
AgentsStayWithinOwners ==
    \A p \in Principal, now \in Time : \A owner \in Chain(registry, p) :
        Within(Effective(registry, p, now), Effective(registry, owner, now))

\* The tenant keeps an administrator that can act (docs/REGISTRY.md: the last active
\* tenant administrator cannot be removed or suspended).
KeepsAdministrator == registryHead # 0 => HasAdministrator(registry)
=============================================================================
