------------------------------- MODULE Facts -------------------------------
(***************************************************************************)
(* The fact store of weave-engine, composed with the registry that decides *)
(* who writes it and what a writer may know.  One graph with its branches: *)
(* fact writes (assert, correct, retract) record versions on lines, which  *)
(* are shared by the revisions of one unforked history; snapshot commits   *)
(* replace the graph; a branch may be pointed at any revision; the answer  *)
(* of a revision may be cached as a checkpoint.                            *)
(*                                                                         *)
(* A live record its writer cannot read is absent to it, except that its   *)
(* key is taken.  A record is never left without the records it refers to. *)
(* Revisions are numbered in the order they were recorded; an ID derived   *)
(* from content is their branch, parent and change.  Programs are of       *)
(* version 1.2.0 or later.  A refused request changes nothing.             *)
(***************************************************************************)
EXTENDS Registry

CONSTANTS
    Home,           \* the graph
    Fact,           \* the records in circulation: kind, key, the keys each refers to, the
                    \* entity of a node, the entity it hangs on, its body and its readers
    NoEntity,
    LocalWriters,   \* hosts granted the graph in a store without a registry
    Demands,        \* bound: what the hosts of a store may ask of it
    MaxRegistry,    \* bound: revisions of the registry
    MaxRevisions    \* bound: revisions of the graph

VARIABLES
    revisions,      \* tables revisions and fact_revisions, in recording order
    versions,       \* tables fact_log and fact_index
    heads,          \* table heads
    checkpoints,    \* table fact_checkpoints
    demand          \* what the hosts of this store ask of it

facts == <<revisions, versions, heads, checkpoints>>
vars == <<authority, facts, demand>>

IsGraph(f) == f.kind \notin {"space", "embedding"}
Keys(F) == {f.key : f \in F}
FactsOf(V) == {v.fact : v \in V}
At(V, k) == {v \in V : v.fact.key = k}

Change == [op : {"assert", "correct", "retract"}, fact : Fact,
           expected : SUBSET Nat, widen_readers : BOOLEAN]

ASSUME FactsAssumption ==
    /\ Home \in Graph
    /\ {MaxRegistry, MaxRevisions} \subseteq Nat
    /\ \A d \in Demands :
          /\ d.enable \subseteq Principal
          /\ \A q \in d.batches : q.host \in Principal /\ q.batch \in Seq(RegistryChange)
          /\ \A q \in d.writes : q.host \in Principal /\ q.changes \subseteq Change
          /\ \A q \in d.imports \cup d.commits : q.host \in Principal /\ q.facts \subseteq Fact

FactsTypeOK ==
    /\ revisions \in Seq([kind : {"fact", "snapshot"}, branch : Branch, parent : 0..MaxRevisions,
                          put : SUBSET Fact, drop : SUBSET Keys(Fact),
                          line : 0..MaxRevisions, seq : 0..MaxRevisions, writer : Principal])
    /\ versions \subseteq [line : 1..MaxRevisions, from : 0..MaxRevisions, until : 0..MaxRevisions,
                           fact : Fact, by : DOMAIN revisions, writer : Principal]
    /\ heads \in [Branch -> {0} \cup DOMAIN revisions]
    /\ checkpoints \subseteq [revision : DOMAIN revisions, answer : SUBSET Fact]
    /\ demand \in Demands

TypeOK == RegistryTypeOK /\ FactsTypeOK

Init ==
    /\ RegistryInit
    /\ revisions = <<>> /\ versions = {} /\ checkpoints = {}
    /\ heads = [b \in Branch |-> 0]
    /\ demand \in Demands

(***************************************************************************)
(* Lines of versions, and what a revision holds                            *)
(***************************************************************************)

Lines == Max({0} \cup {revisions[r].line : r \in DOMAIN revisions})
IsAnyTip(r) == TRUE
IsTip(r) == \A q \in DOMAIN revisions : revisions[q].line = revisions[r].line =>
                                            revisions[q].seq <= revisions[r].seq

Live(r) == {v \in versions : /\ v.line = revisions[r].line
                             /\ v.from <= revisions[r].seq
                             /\ v.until = 0 \/ v.until > revisions[r].seq}

\* Versions of a snapshot's payload were recorded by no fact write.
Seen(r) ==
    CASE r = 0 -> {}
      [] r # 0 /\ revisions[r].kind = "snapshot" ->
            {[fact |-> f, by |-> 0, writer |-> revisions[r].writer] : f \in revisions[r].put}
      [] r # 0 /\ revisions[r].kind = "fact" ->
            {[fact |-> v.fact, by |-> v.by, writer |-> v.writer] : v \in Live(r)}

RecordedAsSeen(r) == Seen(r)

\* The same as a line's base records it.
Recorded(r) == {[v EXCEPT !.by = IF @ = 0 THEN r ELSE @] : v \in Seen(r)}

Checkpoint(r) == {c \in checkpoints : c.revision = r}
Load(r) == IF Checkpoint(r) # {} THEN (CHOOSE c \in Checkpoint(r) : TRUE).answer
           ELSE {f \in FactsOf(Seen(r)) : IsGraph(f)}

(***************************************************************************)
(* What a writer may compare its changes with                              *)
(***************************************************************************)

\* In a store without a registry a host is its literal principal.
View(h, now) ==
    [host |-> h, registry |-> registryHead # 0,
     clauses |-> IF registryHead = 0 THEN {[principals |-> {h}, groups |-> {}]}
                 ELSE Effective(registry, h, now).clauses]

Admits(view, f) == RecordAdmits(f.readers, f.groups, view.clauses)

\* An edge is read with its endpoints.
WriterReads(view, V, v) ==
    /\ Admits(view, v.fact)
    /\ v.fact.kind = "edge" => \A n \in V : n.fact.key \in v.fact.refs => Admits(view, n.fact)

WriterKnows(view, V, v) ==
    WriterReads(view, V, v) \/ (~view.registry /\ v.writer = view.host)

Known(view, V) == {v \in V : WriterKnows(view, V, v)}

ResolvableAnyway(view, V) == V

\* References resolve among known records; a local host is trusted with every live one.
Resolvable(view, V) == IF view.registry THEN Known(view, V) ELSE V

GraphWritable(h, b, now) ==
    IF registryHead = 0 THEN h \in LocalWriters
    ELSE CanWrite(Effective(registry, h, now), Home, b)

RequireBranchWrite(h, b, now) ==
    /\ registryHead # 0 => Effective(registry, h, now).permission[Home] >= Discover
    /\ GraphWritable(h, b, now)

ValidReaderGroups(F, h, now) ==
    \A f \in F : \A g \in f.groups :
        registryHead # 0 /\ NameableGroup(registry, Effective(registry, h, now), g)

(***************************************************************************)
(* The rules of a fact write against the versions V of its parent          *)
(***************************************************************************)

Failing(checks) == {c[1] : c \in {x \in checks : x[2]}}

SameIdentity(old, new) ==
    /\ <<old.kind, old.refs, old.entity, old.host>> = <<new.kind, new.refs, new.entity, new.host>>
    /\ old.kind = "space" => old = new

Public(f) == f.readers = {} /\ f.groups = {}
Widens(old, new) ==
    /\ ~Public(old)
    /\ Public(new) \/ ~(new.readers \subseteq old.readers /\ new.groups \subseteq old.groups)

\* 0 expects the key absent; r expects the version unchanged since revision r.
Expected(now, c) ==
    \A e \in c.expected :
        IF e = 0 THEN now = {}
        ELSE /\ e \in DOMAIN revisions
             /\ \E v \in now, then \in At(Seen(e), c.fact.key) :
                   v.fact = then.fact /\ (0 \in {v.by, then.by} \/ v.by = then.by)

ChangeFaults(view, V, c) ==
    LET all == At(V, c.fact.key)
        now == all \cap Known(view, V)
    IN  Failing({
            <<"occupied", c.op = "assert" /\ all # now>>,
            <<"kind", \E v \in now : v.fact.kind # c.fact.kind>>,
            <<"already live", c.op = "assert" /\ \E v \in now : v.fact # c.fact>>,
            <<"expectation", c.op # "assert" /\ ~Expected(now, c)>>,
            <<"not live", c.op # "assert" /\ now = {}>>,
            <<"identity", c.op = "correct" /\ \E v \in now : ~SameIdentity(v.fact, c.fact)>>,
            <<"widened", /\ c.op = "correct" /\ ~c.widen_readers
                         /\ \E v \in now : Widens(v.fact, c.fact)>>,
            <<"immutable", c.op = "retract" /\ c.fact.kind = "space">>})

Put(view, V, changes) ==
    {c.fact : c \in {x \in changes : /\ x.op # "retract"
                                     /\ x.fact \notin FactsOf(Known(view, V))}}
Drop(changes) == {c.fact.key : c \in {x \in changes : x.op = "retract"}}

Kept(V, put, drop) == {f \in FactsOf(V) : f.key \notin Keys(put) \cup drop}
HasEntity(F, e) == \E n \in F : n.kind = "node" /\ n.entity = e

KnownDependent(view, V, put, drop) ==
    LET after == Kept(V, put, drop) \cup put
    IN  \E t \in FactsOf(Known(view, V)), f \in after :
            /\ t.key \in drop /\ f.key \in Keys(FactsOf(Known(view, V)))
            /\ \/ t.key \in f.refs
               \/ t.kind = "node" /\ f.host = t.entity /\ ~HasEntity(after, t.entity)

\* Some record of the parent, known or hidden, survives a retracted record it needs.
Dependent(view, V, put, drop) ==
    LET after == Kept(V, put, drop) \cup put
    IN  \E t \in FactsOf(Known(view, V)), f \in after :
            /\ t.key \in drop /\ f.key \in Keys(FactsOf(V))
            /\ \/ t.key \in f.refs
               \/ t.kind = "node" /\ f.host = t.entity /\ ~HasEntity(after, t.entity)

\* Some written record, or one that validating it brings in, refers to nothing it may.
Dangling(view, V, put, drop) ==
    LET resolved == Kept(Resolvable(view, V), put, drop) \cup put
        Needed(F) == F \cup {f \in resolved : \E g \in F : f.key \in g.refs}
    IN  \E f \in Needed(Needed(put)) :
            \/ ~(f.refs \subseteq Keys(resolved))
            \/ f.host # NoEntity /\ ~HasEntity(resolved, f.host)

WriteFaults(view, V, changes) ==
    LET put == Put(view, V, changes)
        drop == Drop(changes)
    IN  (UNION {ChangeFaults(view, V, c) : c \in changes})
        \cup Failing({
            <<"twice", \E c, d \in changes : c # d /\ c.fact.key = d.fact.key>>,
            <<"dependent", Dependent(view, V, put, drop)>>,
            <<"dangling", Dangling(view, V, put, drop)>>})

(***************************************************************************)
(* The operations                                                          *)
(***************************************************************************)

\* The content-derived ID is new.
Fresh(kind, b, put, drop) ==
    \A r \in DOMAIN revisions :
        <<revisions[r].kind, revisions[r].branch, revisions[r].parent,
          revisions[r].put, revisions[r].drop>> # <<kind, b, heads[b], put, drop>>

NewRevision(kind, h, b, put, drop, line, seq) ==
    /\ Len(revisions) < MaxRevisions
    /\ Fresh(kind, b, put, drop)
    /\ revisions' = Append(revisions,
            [kind |-> kind, branch |-> b, parent |-> heads[b], put |-> put, drop |-> drop,
             line |-> line, seq |-> seq, writer |-> h])
    /\ heads' = [heads EXCEPT ![b] = Len(revisions')]

\* Continue the parent's line from its tip; anything else starts a line on a base.
AppendFacts(h, b, put, drop) ==
    LET parent == heads[b]
        continues == parent # 0 /\ revisions[parent].kind = "fact" /\ IsTip(parent)
        line == IF continues THEN revisions[parent].line ELSE Lines + 1
        seq == IF continues THEN revisions[parent].seq + 1 ELSE 1
        Version(v, from) == [line |-> line, from |-> from, until |-> 0,
                             fact |-> v.fact, by |-> v.by, writer |-> v.writer]
        base == IF continues THEN {} ELSE {Version(v, 0) : v \in Recorded(parent)}
        Ended(v) == v.line = line /\ v.until = 0 /\ v.fact.key \in Keys(put) \cup drop
    IN  /\ NewRevision("fact", h, b, put, drop, line, seq)
        /\ versions' =
              {[v EXCEPT !.until = IF Ended(v) THEN seq ELSE @] : v \in versions \cup base}
              \cup {Version([fact |-> f, by |-> Len(revisions'), writer |-> h], seq) : f \in put}
        /\ UNCHANGED checkpoints

WriteFacts(h, b, changes, now) ==
    LET view == View(h, now)
        V == Seen(heads[b])
        put == Put(view, V, changes)
        drop == Drop(changes)
    IN  /\ RequireBranchWrite(h, b, now)
        /\ ValidReaderGroups({c.fact : c \in {x \in changes : x.op # "retract"}}, h, now)
        /\ WriteFaults(view, V, changes) = {}
        /\ put # {} \/ drop # {}
        /\ AppendFacts(h, b, put, drop)

\* The asserts and corrections that bring the records F about, as far as the writer knows.
Reconciled(view, V, F) ==
    {[op |-> IF At(Known(view, V), f.key) = {} THEN "assert" ELSE "correct",
      fact |-> f, expected |-> {}, widen_readers |-> FALSE] :
         f \in F \ FactsOf(Known(view, V))}

Import(h, b, F, now) ==
    WriteFacts(h, b, Reconciled(View(h, now), Seen(heads[b]), F), now)

Closed(F) == \A f \in F : /\ \A g \in F : g.key = f.key => g = f
                          /\ f.refs \subseteq Keys(F)
                          /\ f.host # NoEntity => HasEntity(F, f.host)

\* Snapshot commits record no delegation, so agents make none.
CommitSnapshot(h, b, F, now) ==
    /\ RequireBranchWrite(h, b, now)
    /\ registry.kind[h] # "agent"
    /\ Closed(F) /\ \A f \in F : IsGraph(f)
    /\ ValidReaderGroups(F, h, now)
    /\ heads[b] # 0 => Load(heads[b]) # F
    /\ NewRevision("snapshot", h, b, F, {}, 0, 0)
    /\ UNCHANGED <<versions, checkpoints>>

\* Forking a branch is accepting into one that does not exist.
AcceptRevision(h, b, r, now) ==
    /\ GraphWritable(h, b, now)
    /\ \A f \in Load(r) : Admits(View(h, now), f)
    /\ heads[b] # r
    /\ heads' = [heads EXCEPT ![b] = r]
    /\ UNCHANGED <<revisions, versions, checkpoints>>

CheckpointFactRevision(h, r, now) ==
    /\ GraphWritable(h, AnyBranch, now)
    /\ revisions[r].kind = "fact"
    /\ checkpoints' = (checkpoints \ Checkpoint(r)) \cup {[revision |-> r, answer |-> Load(r)]}
    /\ UNCHANGED <<revisions, versions, heads>>

DropFactCheckpoint(h, r, now) ==
    /\ GraphWritable(h, AnyBranch, now)
    /\ checkpoints' = checkpoints \ Checkpoint(r)
    /\ UNCHANGED <<revisions, versions, heads>>

RegistryNext ==
    /\ \/ \E h \in demand.enable : EnableRegistry(h)
       \/ \E q \in demand.batches, now \in demand.times :
             registryHead < MaxRegistry /\ ApplyRegistry(q.host, q.batch, now)
    /\ UNCHANGED facts

FactsNext ==
    /\ \E now \in demand.times :
          \/ \E b \in Branch :
                \/ \E q \in demand.writes : WriteFacts(q.host, b, q.changes, now)
                \/ \E q \in demand.imports : Import(q.host, b, q.facts, now)
                \/ \E q \in demand.commits : CommitSnapshot(q.host, b, q.facts, now)
                \/ \E h \in demand.owners, r \in DOMAIN revisions : AcceptRevision(h, b, r, now)
          \/ \E h \in demand.cachers, r \in DOMAIN revisions :
                CheckpointFactRevision(h, r, now) \/ DropFactCheckpoint(h, r, now)
    /\ UNCHANGED authority

Next == (RegistryNext \/ FactsNext) /\ UNCHANGED demand

Spec == Init /\ [][Next]_vars

(***************************************************************************)
(* Properties                                                              *)
(***************************************************************************)

\* Whatever lines versions are on, however branches fork and rejoin, and whatever is
\* checkpointed, each revision keeps its parent's records but the ones it changed, with who
\* recorded them, and answers with them for good (facts.rs append_facts_with and
\* load_fact_revision, fact_store append and live).
History == INSTANCE FactHistory WITH
    log <- [r \in DOMAIN revisions |->
               [kind |-> revisions[r].kind, parent |-> revisions[r].parent,
                writer |-> revisions[r].writer, put |-> revisions[r].put,
                drop |-> revisions[r].drop]],
    records <- [r \in DOMAIN revisions |-> Recorded(r)],
    answers <- [r \in DOMAIN revisions |-> Load(r)]
ImplementsHistory == History!Spec

\* In every revision a key is one record's and the records a live record refers to are live,
\* hidden ones included: no sequence of writes by principals who see different parts of the graph breaks it
\* (facts.rs append_facts_with, the dependent check sees every live record).
ReferencesResolve == \A r \in DOMAIN revisions : Closed(FactsOf(Seen(r)))

\* In a store with a registry the outcome of a write does not depend on the records its
\* writer cannot read, except by the retraction of a record it can (a hidden dependent
\* refuses it); and asserting a key one of them holds has a single answer
\* (ADR-0008 section 4; facts.rs append_facts_with, ID_UNAVAILABLE).
HiddenIsAbsent ==
    registryHead # 0 =>
        \A q \in demand.writes, b \in Branch, now \in demand.times :
            LET view == View(q.host, now)
                V == Seen(heads[b])
                known == Known(view, V)
                taken == {c \in q.changes : c.op = "assert" /\ At(V \ known, c.fact.key) # {}}
            IN  /\ \A c \in taken : ChangeFaults(view, V, c) = {"occupied"}
                /\ taken = {} /\ Drop(q.changes) \cap Keys(FactsOf(known)) = {} =>
                      /\ WriteFaults(view, V, q.changes) = WriteFaults(view, known, q.changes)
                      /\ Put(view, V, q.changes) = Put(view, known, q.changes)
=============================================================================
