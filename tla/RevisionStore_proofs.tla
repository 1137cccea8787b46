----------------------- MODULE RevisionStore_proofs ------------------------
(***************************************************************************)
(* Theorems of RevisionStore for every value of its constants.             *)
(***************************************************************************)
EXTENDS RevisionStore, SequenceTheorems, FiniteSetTheorems, TLAPS

USE DEF None

(***************************************************************************)
(* What the operators return                                               *)
(***************************************************************************)

\* A payload a caller may write, naming revisions of the table, is a payload.
LEMMA PayloadsAreContent ==
    ASSUME NEW ids \in SUBSET (1..MaxRevisions)
    PROVE  Payloads(ids) \subseteq Content
  BY DEF Payloads, Content, SmallSubsets

\* A function on an initial segment of the numbers is a sequence.
LEMMA SegmentIsSequence ==
    ASSUME NEW S, NEW k \in Nat, NEW f \in [1..k -> S]
    PROVE  f \in Seq(S) /\ Len(f) = k
  OBVIOUS

\* Positions behind the first n, among the first n + k.
LEMMA SegmentGrows ==
    ASSUME NEW n \in Nat, NEW k \in Nat
    PROVE  /\ 1..n \subseteq 1..(n + k) /\ (n + 1)..(n + k) \subseteq 1..(n + k)
           /\ \A i \in 1..k : n + i \in 1..(n + k)
           /\ \A m \in Nat : n + k <= m => 1..(n + k) \subseteq 1..m
  OBVIOUS

\* The closure contains its roots that exist, and only revisions of the table.
LEMMA ClosureContains ==
    ASSUME NEW R
    PROVE  /\ Closure(R) \subseteq Revs
           /\ R \cap Revs \subseteq Closure(R)
  BY DEF Closure

\* The closure is closed: whatever a retained revision needs is retained too.
LEMMA ClosureIsClosed ==
    ASSUME NEW R
    PROVE  Closed(Closure(R))
  <1> SUFFICES ASSUME NEW r \in Closure(R), NEW s \in Needs(r)
               PROVE  s \in Closure(R)
    BY DEF Closed
  <1>1. s \in Revs
    BY DEF Needs
  <1>2. ASSUME NEW S \in SUBSET Revs, R \subseteq S, Closed(S)
        PROVE  s \in S
    <2>1. r \in S
      BY <1>2 DEF Closure
    <2> QED  BY <1>2, <2>1 DEF Closed
  <1> QED  BY <1>1, <1>2 DEF Closure

(***************************************************************************)
(* Type correctness                                                        *)
(***************************************************************************)

THEOREM InitTypeOK == Init => TypeOK
  <1> SUFFICES ASSUME Init PROVE TypeOK
    OBVIOUS
  <1> USE BoundsAssumption DEF Init
  <1>1. revisions \in Seq(RevisionRow) /\ Len(revisions) = 0
    OBVIOUS
  <1>2. \A S : <<>> \in Seq(S)
    OBVIOUS
  <1>3. 0 \in 0..MaxTime /\ None \in {None} \cup Revs
    OBVIOUS
  <1> QED  BY <1>1, <1>2, <1>3 DEF TypeOK

\* What TypeOK says of the table and the heads, in the form the steps use it.
LEMMA TableFacts ==
    ASSUME TypeOK
    PROVE  /\ revisions \in Seq(RevisionRow) /\ Len(revisions) \in Nat
           /\ Revs = 1..Len(revisions) /\ Revs \subseteq 1..MaxRevisions
           /\ heads \in [Line -> {None} \cup Revs] /\ heads \in [Line -> 0..MaxRevisions]
           /\ now \in 0..MaxTime
           /\ events \in Seq([revision : 1..MaxRevisions, line : Line])
           /\ \A l \in Line : observations[l] \in Seq(Observation)
  <1> USE BoundsAssumption
  <1>1. /\ revisions \in Seq(RevisionRow) /\ Len(revisions) <= MaxRevisions
        /\ heads \in [Line -> {None} \cup Revs]
        /\ now \in 0..MaxTime
        /\ events \in Seq([revision : 1..MaxRevisions, line : Line])
    BY DEF TypeOK
  <1>2. \A l \in Line : observations[l] \in Seq(Observation)
    BY DEF TypeOK
  <1>3. Len(revisions) \in Nat
    BY <1>1
  <1>4. Revs = 1..Len(revisions) /\ Revs \subseteq 1..MaxRevisions
    BY <1>1, <1>3 DEF Revs
  <1>5. {None} \cup Revs \subseteq 0..MaxRevisions
    BY <1>4
  <1>6. heads \in [Line -> 0..MaxRevisions]
    BY <1>1, <1>5
  <1> QED  BY <1>1, <1>2, <1>3, <1>4, <1>6

\* Advancing heads to revisions of the table keeps the shape of heads and history.
LEMMA AdvanceTypes ==
    ASSUME TypeOK, Revs \subseteq Revs', Revs' \subseteq 1..MaxRevisions,
           NEW S \in SUBSET Line,
           NEW revision \in [S -> Revs'], NEW basis \in [S -> 0..MaxRevisions],
           AdvanceHeads(S, revision, basis)
    PROVE  /\ observations' \in [Line -> Seq(Observation)]
           /\ heads' \in [Line -> {None} \cup Revs']
  <1> DEFINE row(l) == [revision |-> revision[l], time |-> now, basis |-> basis[l]]
  <1>1. \A l \in S : row(l) \in Observation
    BY TableFacts DEF Observation
  <1>2. \A l \in Line : observations[l] \in Seq(Observation) /\ heads[l] \in {None} \cup Revs
    BY TableFacts
  <1>3. \A l \in S : Append(observations[l], row(l)) \in Seq(Observation)
    BY <1>1, <1>2, AppendProperties
  <1> QED  BY <1>2, <1>3 DEF AdvanceHeads

\* The members of a batch form a sequence of lines.
LEMMA OrderIsSequence ==
    ASSUME NEW order \in Orders
    PROVE  /\ Len(order) \in Nat \ {0}
           /\ order \in [1..Len(order) -> Line]
           /\ Members(order) = {order[i] : i \in 1..Len(order)}
           /\ Members(order) \subseteq Line
  <1>1. Cardinality(Graph) \in Nat
    BY FiniteAssumption, FS_CardinalityType
  <1>2. PICK k \in 1..Cardinality(Graph) : order \in [1..k -> Line]
    BY DEF Orders
  <1>3. k \in Nat \ {0} /\ order \in Seq(Line)
    BY <1>1, <1>2
  <1>4. Len(order) = k
    BY <1>2, <1>3
  <1> QED  BY <1>2, <1>3, <1>4 DEF Members

\* What a commit adds: one row, of its own line, behind the rows there were.
LEMMA CommitTypes ==
    ASSUME TypeOK, NEW e \in Engine, NEW l \in Line, NEW expected \in Expectable,
           NEW content \in Payloads(Revs), Commit(e, l, expected, content)
    PROVE  TypeOK'
  <1> DEFINE new == Len(revisions) + 1
             row == [line |-> l, parent |-> heads[l], content |-> content,
                     batch |-> NoBatch, time |-> now]
  <1> USE BoundsAssumption
  <1>1. Len(revisions) \in Nat /\ new \in 1..MaxRevisions
    BY TableFacts DEF Commit
  <1>2. content \in Content
    BY <1>1, PayloadsAreContent DEF Revs
  <1>3. row \in RevisionRow
    <2>1. heads[l] \in 0..MaxRevisions /\ now \in 0..MaxTime
      BY TableFacts
    <2> QED  BY <1>2, <2>1 DEF RevisionRow
  <1>4. revisions' \in Seq(RevisionRow) /\ Len(revisions') = new /\ Revs' = 1..new
    <2>1. revisions' = Append(revisions, row)
      BY DEF Commit
    <2> HIDE DEF row
    <2>2. revisions' \in Seq(RevisionRow) /\ Len(revisions') = new
      BY <1>3, <2>1, TableFacts, AppendProperties
    <2> QED  BY <2>2 DEF Revs
  <1>5. Revs \subseteq Revs' /\ Revs' \subseteq 1..MaxRevisions
    BY <1>1, <1>4 DEF Revs
  <1>6. /\ observations' \in [Line -> Seq(Observation)]
        /\ heads' \in [Line -> {None} \cup Revs']
    <2>1. /\ [x \in {l} |-> new] \in [{l} -> Revs']
          /\ [x \in {l} |-> expected] \in [{l} -> 0..MaxRevisions]
      BY <1>1, <1>4 DEF Expectable, Revs
    <2>2. AdvanceHeads({l}, [x \in {l} |-> new], [x \in {l} |-> expected])
      BY DEF Commit
    <2> HIDE DEF new
    <2> QED  BY <1>5, <2>1, <2>2, AdvanceTypes
  <1>7. events' \in Seq([revision : 1..MaxRevisions, line : Line])
    <2>1. events' = Append(events, [revision |-> new, line |-> l])
      BY DEF Commit, Journal
    <2>2. [revision |-> new, line |-> l] \in [revision : 1..MaxRevisions, line : Line]
      BY <1>1
    <2>3. events \in Seq([revision : 1..MaxRevisions, line : Line])
      BY TableFacts
    <2> HIDE DEF new
    <2> QED  BY <2>1, <2>2, <2>3, AppendProperties
  <1> QED  BY <1>4, <1>5, <1>6, <1>7 DEF TypeOK, Commit, Samples

\* What a batch adds: one row per member, in the order of the manifest.
LEMMA CommitBatchTypes ==
    ASSUME TypeOK, NEW e \in Engine, NEW b \in Batch, NEW order \in Orders,
           NEW expected \in [Members(order) -> Expectable],
           NEW content \in [Members(order) -> Payloads(1..(Len(revisions) + Len(order)))],
           CommitBatch(e, b, order, expected, content)
    PROVE  TypeOK'
  <1> DEFINE k == Len(order)
             n == Len(revisions)
             position == [l \in Members(order) |-> CHOOSE i \in 1..k : order[i] = l]
             changed == {i \in 1..k : ~BatchUnchanged(expected[order[i]], content[order[i]])}
             row(i) == [line |-> order[i], parent |-> expected[order[i]],
                        content |-> content[order[i]], batch |-> b, time |-> now]
  <1> USE BoundsAssumption
  <1>1. /\ k \in Nat \ {0} /\ order \in [1..k -> Line]
        /\ Members(order) = {order[i] : i \in 1..k} /\ Members(order) \subseteq Line
    BY OrderIsSequence
  <1>2. n \in Nat /\ n + k <= MaxRevisions /\ now \in 0..MaxTime
    <2>1. n + k <= MaxRevisions
      BY DEF CommitBatch
    <2> QED  BY <2>1, TableFacts
  <1>3. \A l \in Members(order) : content[l] \in Content /\ expected[l] \in 0..MaxRevisions
    <2>1. Expectable \subseteq 0..MaxRevisions
      BY TableFacts DEF Expectable
    <2>2. 1..(n + k) \in SUBSET (1..MaxRevisions)
      <3> HIDE DEF n, k
      <3> QED  BY <1>1, <1>2
    <2>3. Payloads(1..(n + k)) \subseteq Content
      BY <2>2, PayloadsAreContent
    <2> QED  BY <2>1, <2>3
  <1>4. \A i \in 1..k : row(i) \in RevisionRow
    <2> SUFFICES ASSUME NEW i \in 1..k PROVE row(i) \in RevisionRow
      OBVIOUS
    <2>1. order[i] \in Line /\ order[i] \in Members(order)
      <3> HIDE DEF k
      <3> QED  BY <1>1
    <2>2. content[order[i]] \in Content /\ expected[order[i]] \in 0..MaxRevisions
      BY <1>3, <2>1
    <2> QED  BY <1>2, <2>1, <2>2 DEF RevisionRow
  <1>5. revisions' \in Seq(RevisionRow) /\ Len(revisions') = n + k /\ Revs' = 1..(n + k)
    <2> DEFINE rows == [i \in 1..k |-> row(i)]
    <2>1. revisions' = revisions \o rows
      BY DEF CommitBatch
    <2>2. rows \in Seq(RevisionRow) /\ Len(rows) = k
      <3>1. rows \in [1..k -> RevisionRow]
        BY <1>4
      <3> HIDE DEF rows, k
      <3> QED  BY <1>1, <3>1, SegmentIsSequence
    <2>3. revisions' \in Seq(RevisionRow) /\ Len(revisions') = n + k
      <3>1. revisions \in Seq(RevisionRow)
        BY TableFacts
      <3> HIDE DEF rows, k
      <3>2. /\ revisions \o rows \in Seq(RevisionRow)
            /\ Len(revisions \o rows) = Len(revisions) + Len(rows)
        BY <2>2, <3>1, ConcatProperties
      <3> QED  BY <2>1, <2>2, <3>2
    <2> QED  BY <2>3 DEF Revs
  <1>6. Revs \subseteq Revs' /\ Revs' \subseteq 1..MaxRevisions
    <2>1. Revs = 1..n
      BY TableFacts
    <2> HIDE DEF n, k
    <2>2. k \in Nat /\ MaxRevisions \in Nat
      BY <1>1
    <2> QED  BY <1>2, <1>5, <2>1, <2>2, SegmentGrows
  <1>7. /\ observations' \in [Line -> Seq(Observation)]
        /\ heads' \in [Line -> {None} \cup Revs']
    <2>1. AdvanceHeads(Members(order), [l \in Members(order) |-> n + position[l]], expected)
      BY DEF CommitBatch
    <2>2. \A l \in Members(order) : position[l] \in 1..k
      BY <1>1
    <2>3. [l \in Members(order) |-> n + position[l]] \in [Members(order) -> Revs']
      <3> HIDE DEF n, position, k
      <3>1. \A l \in Members(order) : n + position[l] \in 1..(n + k)
        <4>1. k \in Nat
          BY <1>1
        <4> QED  BY <1>2, <2>2, <4>1, SegmentGrows
      <3> QED  BY <1>5, <3>1
    <2>4. expected \in [Members(order) -> 0..MaxRevisions]
      BY <1>3
    <2> HIDE DEF n, position, k
    <2> QED  BY <1>1, <1>6, <2>1, <2>3, <2>4, AdvanceTypes
  <1>8. events' \in Seq([revision : 1..MaxRevisions, line : Line])
    <2>1. IsFiniteSet(changed) /\ Cardinality(changed) \in Nat
      <3> HIDE DEF k
      <3>1. 1 \in Int /\ k \in Int
        BY <1>1
      <3>2. IsFiniteSet(1..k)
        BY <3>1, FS_Interval
      <3>3. changed \in SUBSET (1..k)
        OBVIOUS
      <3> HIDE DEF changed
      <3> QED  BY <3>2, <3>3, FS_Subset, FS_CardinalityType
    <2> DEFINE Event == [revision : 1..MaxRevisions, line : Line]
    <2>2. PICK nth \in [1..Cardinality(changed) -> changed] :
             events' = events \o [v \in DOMAIN nth |->
                         [revision |-> n + nth[v], line |-> order[nth[v]]]]
      BY DEF CommitBatch
    <2>3. \A v \in DOMAIN nth : nth[v] \in 1..k
      <3>1. changed \in SUBSET (1..k)
        OBVIOUS
      <3> HIDE DEF changed, k
      <3> QED  BY <2>2, <3>1
    <2>4. \A i \in 1..k : n + i \in 1..MaxRevisions /\ order[i] \in Line
      <3> HIDE DEF n, k
      <3>1. k \in Nat /\ MaxRevisions \in Nat
        BY <1>1
      <3>2. \A i \in 1..k : n + i \in 1..MaxRevisions
        BY <1>2, <3>1, SegmentGrows
      <3> QED  BY <1>1, <3>2
    <2>5. \A v \in DOMAIN nth : [revision |-> n + nth[v], line |-> order[nth[v]]] \in Event
      <3> HIDE DEF n, k, changed
      <3> QED  BY <2>3, <2>4
    <2> DEFINE added == [v \in DOMAIN nth |->
                           [revision |-> n + nth[v], line |-> order[nth[v]]]]
               c == Cardinality(changed)
    <2>6. added \in Seq(Event)
      <3>1. DOMAIN nth = 1..c /\ c \in Nat
        BY <2>1, <2>2
      <3>2. added \in [1..c -> Event]
        BY <2>5, <3>1
      <3> HIDE DEF added, c, Event
      <3> QED  BY <3>1, <3>2
    <2>7. events \in Seq(Event)
      BY DEF TypeOK
    <2> HIDE DEF Event
    <2>8. events \o added \in Seq(Event)
      <3> HIDE DEF added
      <3> QED  BY <2>6, <2>7, ConcatProperties
    <2> QED  BY <2>2, <2>8 DEF Event
  <1>9. manifests' \in [Batch -> SUBSET Revs']
    <2>1. MemberIds(n, k) \subseteq Revs'
      <3> HIDE DEF n, k
      <3>1. k \in Nat
        BY <1>1
      <3> QED  BY <1>2, <1>5, <3>1, SegmentGrows DEF MemberIds
    <2>2. manifests' = [manifests EXCEPT ![b] = MemberIds(n, k)]
      BY DEF CommitBatch
    <2>3. manifests \in [Batch -> SUBSET Revs]
      BY DEF TypeOK
    <2> HIDE DEF n, k
    <2> QED  BY <1>6, <2>1, <2>2, <2>3
  <1>10. /\ retired' = retired /\ pins' = pins /\ policy' = policy /\ plan' = plan
         /\ tombstones' = tombstones /\ now' = now
         /\ \E x \in Engine : sample' = [sample EXCEPT ![x] = now]
    BY DEF CommitBatch, Samples
  <1>11. Len(revisions') <= MaxRevisions
    BY <1>2, <1>5
  <1> HIDE DEF n, k
  <1> QED  BY <1>2, <1>5, <1>6, <1>7, <1>8, <1>9, <1>10, <1>11 DEF TypeOK

\* What a capsule adds: rows behind those there were, and the manifests that name them.
LEMMA ReceiveTypes ==
    ASSUME TypeOK, NEW e \in Engine, NEW k \in Room,
           NEW rows \in [1..k -> Incoming(Len(revisions) + k)], Receive(e, rows)
    PROVE  TypeOK'
  <1> USE BoundsAssumption
  <1> DEFINE n == Len(revisions)
  <1>1. k \in Nat /\ n \in Nat /\ n + k <= MaxRevisions /\ now \in 0..MaxTime
    BY TableFacts DEF Room
  <1>2. rows \in Seq(RevisionRow) /\ Len(rows) = k
    <2>1. 1..(n + k) \in SUBSET (1..MaxRevisions) /\ 0..(n + k) \subseteq 0..MaxRevisions
      <3> HIDE DEF n
      <3> QED  BY <1>1
    <2>2. Payloads(1..(n + k)) \subseteq Content
      BY <2>1, PayloadsAreContent
    <2>3. Incoming(n + k) \subseteq RevisionRow
      BY <1>1, <2>1, <2>2 DEF Incoming, RevisionRow
    <2>4. rows \in [1..k -> RevisionRow]
      BY <2>3
    <2> QED  BY <1>1, <2>4, SegmentIsSequence
  <1>3. revisions' \in Seq(RevisionRow) /\ Len(revisions') = n + k
    <2>1. revisions' = revisions \o rows
      BY DEF Receive
    <2>2. revisions \in Seq(RevisionRow)
      BY TableFacts
    <2>3. /\ revisions \o rows \in Seq(RevisionRow)
          /\ Len(revisions \o rows) = Len(revisions) + Len(rows)
      BY <1>2, <2>2, ConcatProperties
    <2> QED  BY <1>2, <2>1, <2>3
  <1>4. Revs' = 1..(n + k) /\ Revs = 1..n
    BY <1>3 DEF Revs
  <1>5. Revs \subseteq Revs'
    <2> HIDE DEF n
    <2> QED  BY <1>1, <1>4, SegmentGrows
  <1>6. manifests' \in [Batch -> SUBSET Revs']
    <2>1. ASSUME NEW b \in Batch
          PROVE  manifests[b] \cup ManifestOf(b, rows, n) \subseteq Revs'
      <3>1. manifests[b] \subseteq Revs
        BY DEF TypeOK
      <3>2. DOMAIN rows = 1..k
        OBVIOUS
      <3> HIDE DEF n
      <3>3. ManifestOf(b, rows, n) \subseteq 1..(n + k)
        BY <1>1, <3>2, SegmentGrows DEF ManifestOf
      <3> QED  BY <1>4, <1>5, <3>1, <3>3
    <2>2. manifests' = [b \in Batch |-> manifests[b] \cup ManifestOf(b, rows, n)]
      BY DEF Receive
    <2> QED  BY <2>1, <2>2
  <1>7. heads' \in [Line -> {None} \cup Revs']
    BY <1>5 DEF TypeOK, Receive
  <1>8. pins' \in [Pin -> SUBSET Revs'] /\ DOMAIN tombstones' \subseteq Revs'
    BY <1>5 DEF TypeOK, Receive
  <1>9. plan' \in {NoPlan} \cup [generation : Nat, floor : 0..MaxTime, replay : Nat,
                                 retained : SUBSET Revs', collect : SUBSET Revs']
    BY <1>5 DEF TypeOK, Receive
  <1>10. sample' \in [Engine -> 0..MaxTime]
    BY DEF TypeOK, Receive, Samples
  <1>11. Len(revisions') <= MaxRevisions
    BY <1>1, <1>3
  <1> QED  BY <1>3, <1>6, <1>7, <1>8, <1>9, <1>10, <1>11 DEF TypeOK, Receive

\* Accepting a revision of the table moves one head to it.
LEMMA AcceptTypes ==
    ASSUME TypeOK, NEW e \in Engine, NEW l \in Line, NEW r \in Revs,
           NEW expected \in Expectable, Accept(e, l, r, expected)
    PROVE  TypeOK'
  <1> USE BoundsAssumption
  <1>1. Revs' = Revs /\ Revs \subseteq 1..MaxRevisions
    <2>1. revisions' = revisions
      BY DEF Accept
    <2> QED  BY <2>1, TableFacts DEF Revs
  <1>2. /\ observations' \in [Line -> Seq(Observation)]
        /\ heads' \in [Line -> {None} \cup Revs']
    <2>1. /\ [x \in {l} |-> r] \in [{l} -> Revs']
          /\ [x \in {l} |-> expected] \in [{l} -> 0..MaxRevisions]
      BY <1>1 DEF Expectable
    <2>2. AdvanceHeads({l}, [x \in {l} |-> r], [x \in {l} |-> expected])
      BY DEF Accept
    <2> QED  BY <1>1, <2>1, <2>2, AdvanceTypes
  <1>3. events' \in Seq([revision : 1..MaxRevisions, line : Line])
    <2>1. events' = Append(events, [revision |-> r, line |-> l])
      BY DEF Accept, Journal
    <2>2. [revision |-> r, line |-> l] \in [revision : 1..MaxRevisions, line : Line]
      BY <1>1
    <2>3. events \in Seq([revision : 1..MaxRevisions, line : Line])
      BY TableFacts
    <2> QED  BY <2>1, <2>2, <2>3, AppendProperties
  <1> QED  BY <1>1, <1>2, <1>3 DEF TypeOK, Accept, Samples

\* A plan is computed from the table and carries frontiers inside its bounds.
LEMMA PlanTypes ==
    ASSUME TypeOK, NEW floor \in 0..MaxTime, NEW replay \in Nat
    PROVE  Plan([floor |-> floor, replay |-> replay]) \in
              [generation : Nat, floor : 0..MaxTime, replay : Nat,
               retained : SUBSET Revs, collect : SUBSET Revs]
  BY ClosureContains DEF Plan, TypeOK

\* Compaction adds anchors for revisions of the table only.
LEMMA CompactTypes ==
    ASSUME TypeOK, NEW e \in Engine, CompactRetention(e)
    PROVE  TypeOK'
  <1> USE BoundsAssumption
  <1>1. /\ plan \in [generation : Nat, floor : 0..MaxTime, replay : Nat,
                     retained : SUBSET Revs, collect : SUBSET Revs]
        /\ now \in 0..MaxTime /\ Revs' = Revs
    BY DEF TypeOK, CompactRetention, Revs
  <1>2. policy' \in [floor : 0..MaxTime, replay : Nat, generation : Nat, epoch : Nat]
    <2>1. policy \in [floor : 0..MaxTime, replay : Nat, generation : Nat, epoch : Nat]
      BY DEF TypeOK
    <2>2. policy.epoch \in Nat
      BY <2>1
    <2>3. plan.generation + 1 \in Nat /\ plan.floor \in 0..MaxTime /\ plan.replay \in Nat
      BY <1>1
    <2> QED  BY <2>2, <2>3 DEF CompactRetention
  <1>3. DOMAIN tombstones' = DOMAIN tombstones \cup plan.collect
    BY DEF CompactRetention
  <1>4. tombstones' \in [DOMAIN tombstones' -> [erased : 0..MaxTime, generation : Nat]]
    <2>1. plan.generation + 1 \in Nat
      BY <1>1
    <2>2. \A r \in DOMAIN tombstones : tombstones[r] \in [erased : 0..MaxTime, generation : Nat]
      BY DEF TypeOK
    <2>3. tombstones' = [r \in DOMAIN tombstones \cup plan.collect |->
             IF r \in plan.collect THEN [erased |-> now, generation |-> plan.generation + 1]
             ELSE tombstones[r]]
      BY DEF CompactRetention
    <2> QED  BY <1>1, <2>1, <2>2, <2>3
  <1>5. DOMAIN tombstones' \subseteq Revs
    BY <1>1, <1>3 DEF TypeOK
  <1> QED  BY <1>1, <1>2, <1>4, <1>5 DEF TypeOK, CompactRetention, Samples, Revs

\* TypeOK is inductive.
LEMMA NextTypeOK == TypeOK /\ [Next]_vars => TypeOK'
  <1> SUFFICES ASSUME TypeOK, [Next]_vars PROVE TypeOK'
    OBVIOUS
  <1>1. CASE ClockMoves
    BY <1>1 DEF ClockMoves, TypeOK, Revs
  <1>2. ASSUME NEW e \in Engine, Sample(e) PROVE TypeOK'
    <2>1. sample' \in [Engine -> 0..MaxTime]
      BY <1>2 DEF Sample, Samples, TypeOK
    <2> QED  BY <1>2, <2>1 DEF Sample, TypeOK, Revs
  <1>3. ASSUME NEW e \in Engine, Reopen(e) PROVE TypeOK'
    <2>1. sample' \in [Engine -> 0..MaxTime]
      BY <1>3, BoundsAssumption DEF Reopen, TypeOK
    <2> QED  BY <1>3, <2>1 DEF Reopen, TypeOK, Revs
  <1>4. ASSUME NEW e \in Engine, NEW p \in Pin, NEW S \in SUBSET Revs,
               RetainSnapshots(e, p, S)
        PROVE  TypeOK'
    BY <1>4 DEF RetainSnapshots, Samples, TypeOK, Revs
  <1>5. ASSUME NEW p \in Pin, ReleaseRetentionRoot(p) PROVE TypeOK'
    BY <1>5 DEF ReleaseRetentionRoot, TypeOK, Revs
  <1>6. ASSUME NEW e \in Engine, NEW l \in Line, NEW x \in Expectable, ReleaseBranch(e, l, x)
        PROVE  TypeOK'
    BY <1>6 DEF ReleaseBranch, DropHead, Samples, TypeOK, Revs
  <1>7. ASSUME NEW e \in Engine, NEW floor \in 0..MaxTime, NEW replay \in 0..Len(events),
               PlanRetention(e, [floor |-> floor, replay |-> replay])
        PROVE  TypeOK'
    <2>1. plan' \in [generation : Nat, floor : 0..MaxTime, replay : Nat,
                     retained : SUBSET Revs, collect : SUBSET Revs]
      BY <1>7, PlanTypes DEF PlanRetention
    <2> QED  BY <1>7, <2>1 DEF PlanRetention, Samples, TypeOK, Revs
  <1>8. CASE UNCHANGED vars
    BY <1>8 DEF vars, TypeOK, Revs
  <1> QED
    BY <1>1, <1>2, <1>3, <1>4, <1>5, <1>6, <1>7, <1>8, CommitTypes, CommitBatchTypes,
       ReceiveTypes, AcceptTypes, CompactTypes
       DEF Next

\* The tables keep their shape: every reference of a head, a pin, a manifest, a
\* tombstone or a plan is to a row of the revisions table.
THEOREM TypeCorrect == Spec => []TypeOK
  BY InitTypeOK, NextTypeOK, PTL DEF Spec

(***************************************************************************)
(* What a step may do to the tables: every commit, batch and acceptance    *)
(* is a movement of some heads, and nothing else touches the history.      *)
(***************************************************************************)

TableGrows == Len(revisions) <= Len(revisions') /\ \A r \in Revs : revisions'[r] = revisions[r]

Moves(S, revision, basis) ==
    /\ AdvanceHeads(S, revision, basis)
    /\ \A l \in S : CasHolds(l, basis[l])
    /\ \A l \in S : revision[l] \in Present'
    /\ \A l \in S : revisions'[revision[l]].content.required \subseteq Present'
    /\ \A k \in 1..Len(events') :
          \/ k <= Len(events) /\ events'[k] = events[k]
          \/ events'[k].revision \in Present'
    /\ UNCHANGED <<retired, pins, policy, tombstones>>

Movement ==
    \E S \in SUBSET Line : \E revision \in [S -> Revs'], basis \in [S -> Expectable] :
        Moves(S, revision, basis)

History == <<heads, observations, events, retired>>

\* A commit moves one head to the row it appends.
LEMMA CommitMoves ==
    ASSUME TypeOK, NEW e \in Engine, NEW l \in Line, NEW expected \in Expectable,
           NEW content \in Payloads(Revs), Commit(e, l, expected, content)
    PROVE  TableGrows /\ Movement
  <1> DEFINE new == Len(revisions) + 1
             row == [line |-> l, parent |-> heads[l], content |-> content,
                     batch |-> NoBatch, time |-> now]
  <1>1. revisions \in Seq(RevisionRow) /\ Len(revisions) \in Nat /\ revisions' = Append(revisions, row)
    BY DEF TypeOK, Commit
  <1>2. /\ Len(revisions') = new /\ revisions'[new] = row
        /\ \A r \in Revs : revisions'[r] = revisions[r]
    <2> HIDE DEF row
    <2> QED  BY <1>1 DEF Revs
  <1>3. TableGrows
    <2>1. Len(revisions) <= Len(revisions')
      <3> HIDE DEF row
      <3> QED  BY <1>1, <1>2
    <2> HIDE DEF row, new
    <2> QED  BY <1>2, <2>1 DEF TableGrows
  <1>4. DOMAIN tombstones \subseteq Revs /\ tombstones' = tombstones
    BY DEF TypeOK, Commit
  <1>5. new \in Present' /\ Present \subseteq Present' /\ new \in Revs'
    BY <1>1, <1>2, <1>4 DEF Present, Revs
  <1>6. content.required \subseteq Present
    BY DEF Commit, RequiredLoad
  <1>7. \A k \in 1..Len(events') : \/ k <= Len(events) /\ events'[k] = events[k]
                                   \/ events'[k].revision = new
    <2>1. events' = Append(events, [revision |-> new, line |-> l])
      BY DEF Commit, Journal
    <2>2. \E T : events \in Seq(T)
      BY DEF TypeOK
    <2> HIDE DEF new
    <2> QED  BY <2>1, <2>2
  <1>8. Moves({l}, [x \in {l} |-> new], [x \in {l} |-> expected])
    <2>1. UNCHANGED <<retired, pins, policy, tombstones>>
      BY DEF Commit
    <2>2. AdvanceHeads({l}, [x \in {l} |-> new], [x \in {l} |-> expected])
      BY DEF Commit
    <2>3. CasHolds(l, expected)
      BY DEF Commit
    <2>4. revisions'[new].content.required \subseteq Present'
      BY <1>2, <1>5, <1>6
    <2> HIDE DEF new
    <2> QED  BY <2>1, <2>2, <2>3, <2>4, <1>5, <1>7 DEF Moves
  <1>9. Movement
    <2>1. /\ [x \in {l} |-> new] \in [{l} -> Revs']
          /\ [x \in {l} |-> expected] \in [{l} -> Expectable]
      BY <1>5
    <2> HIDE DEF new
    <2> QED  BY <1>8, <2>1 DEF Movement
  <1> QED  BY <1>3, <1>9

\* An acceptance moves one head to a row that loads.
LEMMA AcceptMoves ==
    ASSUME TypeOK, NEW e \in Engine, NEW l \in Line, NEW r \in Revs,
           NEW expected \in Expectable, Accept(e, l, r, expected)
    PROVE  TableGrows /\ Movement
  <1>1. /\ UNCHANGED <<revisions, retired, pins, policy, tombstones>>
        /\ AdvanceHeads({l}, [x \in {l} |-> r], [x \in {l} |-> expected])
        /\ CasHolds(l, expected) /\ r \in Present
        /\ revisions[r].content.required \subseteq Present
    BY DEF Accept, Loads, RequiredLoad
  <1>2. Revs' = Revs /\ Present' = Present
    BY <1>1 DEF Revs, Present
  <1>3. TableGrows
    <2>1. Len(revisions) \in Nat
      BY DEF TypeOK
    <2> QED  BY <1>1, <2>1 DEF TableGrows
  <1>4. \A k \in 1..Len(events') : \/ k <= Len(events) /\ events'[k] = events[k]
                                   \/ events'[k].revision = r
    <2>1. events' = Append(events, [revision |-> r, line |-> l])
      BY DEF Accept, Journal
    <2>2. \E T : events \in Seq(T)
      BY DEF TypeOK
    <2> QED  BY <2>1, <2>2
  <1>5. Moves({l}, [x \in {l} |-> r], [x \in {l} |-> expected])
    BY <1>1, <1>2, <1>4 DEF Moves
  <1>6. /\ [x \in {l} |-> r] \in [{l} -> Revs']
        /\ [x \in {l} |-> expected] \in [{l} -> Expectable]
    BY <1>2
  <1> QED  BY <1>3, <1>5, <1>6 DEF Movement

\* A batch moves the head of every member to the row it appends for that member.
LEMMA BatchMoves ==
    ASSUME TypeOK, NEW e \in Engine, NEW b \in Batch, NEW order \in Orders,
           NEW expected \in [Members(order) -> Expectable],
           NEW content \in [Members(order) -> Payloads(1..(Len(revisions) + Len(order)))],
           CommitBatch(e, b, order, expected, content)
    PROVE  TableGrows /\ Movement
  <1> DEFINE k == Len(order)
             n == Len(revisions)
             position == [l \in Members(order) |-> CHOOSE i \in 1..k : order[i] = l]
             changed == {i \in 1..k : ~BatchUnchanged(expected[order[i]], content[order[i]])}
             rows == [i \in 1..k |->
                        [line |-> order[i], parent |-> expected[order[i]],
                         content |-> content[order[i]], batch |-> b, time |-> now]]
             target == [l \in Members(order) |-> n + position[l]]
  <1>1. /\ k \in Nat \ {0} /\ order \in [1..k -> Line]
        /\ Members(order) = {order[i] : i \in 1..k} /\ Members(order) \subseteq Line
    BY OrderIsSequence
  <1>2. n \in Nat /\ \E T : revisions \in Seq(T)
    BY DEF TypeOK
  <1>3. revisions' = revisions \o rows
    BY DEF CommitBatch
  <1>4. /\ Len(revisions') = n + k
        /\ \A r \in Revs : revisions'[r] = revisions[r]
        /\ \A i \in 1..k : revisions'[n + i] = rows[i]
    <2> DEFINE T == {rows[i] : i \in 1..k}
    <2>1. rows \in [1..k -> T]
      OBVIOUS
    <2>2. rows \in Seq(T) /\ Len(rows) = k
      <3> HIDE DEF rows, k, T
      <3> QED  BY <1>1, <2>1, SegmentIsSequence
    <2> HIDE DEF rows, k, T
    <2>3. PICK U : revisions \in Seq(U)
      BY <1>2
    <2> HIDE DEF n
    <2>4. Len(revisions') = Len(revisions) + k
      BY <1>1, <1>3, <2>2, <2>3
    <2>5. \A r \in 1..Len(revisions) : (revisions \o rows)[r] = revisions[r]
      BY <2>2, <2>3, ConcatProperties
    <2>6. \A i \in 1..k : (revisions \o rows)[Len(revisions) + i] = rows[i]
      BY <1>1, <2>2, <2>3
    <2> QED  BY <1>3, <2>4, <2>5, <2>6 DEF Revs, n
  <1>5. TableGrows
    <2> HIDE DEF k
    <2> QED  BY <1>1, <1>2, <1>4 DEF TableGrows
  <1>6. DOMAIN tombstones \subseteq Revs /\ tombstones' = tombstones
    BY DEF TypeOK, CommitBatch
  <1>7. /\ Present \subseteq Present' /\ MemberIds(n, k) \subseteq Present'
        /\ \A i \in 1..k : n + i \in Present' /\ n + i \in Revs'
    <2> HIDE DEF k
    <2> QED  BY <1>1, <1>2, <1>4, <1>6 DEF Present, Revs, MemberIds
  <1>8. \A l \in Members(order) :
           /\ position[l] \in 1..k /\ order[position[l]] = l
           /\ target[l] = n + position[l]
    BY <1>1
  <1>9. \A l \in Members(order) : revisions'[target[l]].content.required \subseteq Present'
    <2>1. \A l \in Members(order) : content[l].required \subseteq Present \cup MemberIds(n, k)
      BY DEF CommitBatch, RequiredLoad
    <2>2. \A l \in Members(order) : revisions'[target[l]].content = content[l]
      <3>1. \A i \in 1..k : rows[i].content = content[order[i]]
        OBVIOUS
      <3> HIDE DEF rows, target, position, k
      <3> SUFFICES ASSUME NEW l \in Members(order)
                   PROVE  revisions'[target[l]].content = content[l]
        OBVIOUS
      <3>2. /\ position[l] \in 1..k /\ order[position[l]] = l
            /\ target[l] = n + position[l]
        BY <1>8
      <3> DEFINE i == position[l]
      <3> HIDE DEF i
      <3>3. revisions'[n + i] = rows[i] /\ rows[i].content = content[order[i]]
        BY <1>4, <3>1, <3>2 DEF i
      <3> QED  BY <3>2, <3>3 DEF i
    <2> HIDE DEF target, k
    <2> QED  BY <1>7, <2>1, <2>2
  <1>10. \A v \in 1..Len(events') : \/ v <= Len(events) /\ events'[v] = events[v]
                                    \/ events'[v].revision \in Present'
    <2>1. PICK nth \in [1..Cardinality(changed) -> changed] :
             events' = events \o [v \in DOMAIN nth |->
                         [revision |-> n + nth[v], line |-> order[nth[v]]]]
      BY DEF CommitBatch
    <2> DEFINE added == [v \in DOMAIN nth |-> [revision |-> n + nth[v], line |-> order[nth[v]]]]
               c == Cardinality(changed)
    <2>2. c \in Nat
      <3> HIDE DEF k
      <3>1. 1 \in Int /\ k \in Int
        BY <1>1
      <3>2. IsFiniteSet(1..k)
        BY <3>1, FS_Interval
      <3>3. changed \in SUBSET (1..k)
        OBVIOUS
      <3> HIDE DEF changed
      <3> QED  BY <3>2, <3>3, FS_Subset, FS_CardinalityType
    <2>3. \A v \in 1..c : added[v].revision \in Present'
      <3> HIDE DEF k, c
      <3> QED  BY <1>7, <2>1 DEF c
    <2> DEFINE T == {added[v] : v \in 1..c}
    <2>4. added \in [1..c -> T]
      BY <2>1
    <2>5. events' = events \o added /\ \E U : events \in Seq(U)
      BY <2>1 DEF TypeOK
    <2> HIDE DEF added, c, T
    <2>6. Len(added) = c /\ added \in Seq(T)
      BY <2>2, <2>4, SegmentIsSequence
    <2>7. PICK U : events \in Seq(U)
      BY <2>5
    <2>8. /\ Len(events \o added) = Len(events) + c
          /\ \A v \in 1..Len(events) : (events \o added)[v] = events[v]
          /\ \A v \in 1..c : (events \o added)[Len(events) + v] = added[v]
      BY <2>2, <2>6, <2>7
    <2> QED  BY <2>2, <2>3, <2>5, <2>8
  <1>11. Moves(Members(order), target, expected)
    <2>1. UNCHANGED <<retired, pins, policy, tombstones>>
      BY DEF CommitBatch
    <2>2. AdvanceHeads(Members(order), target, expected)
      BY DEF CommitBatch
    <2>3. \A l \in Members(order) : CasHolds(l, expected[l])
      BY DEF CommitBatch
    <2>4. \A l \in Members(order) : target[l] \in Present'
      <3> HIDE DEF target, position, k
      <3> QED  BY <1>7, <1>8
    <2> HIDE DEF target
    <2> QED  BY <2>1, <2>2, <2>3, <2>4, <1>9, <1>10 DEF Moves
  <1>12. target \in [Members(order) -> Revs']
    <2>1. \A l \in Members(order) : target[l] \in Revs'
      <3> HIDE DEF target, position, k
      <3> QED  BY <1>7, <1>8
    <2> QED  BY <2>1
  <1> HIDE DEF target
  <1> QED  BY <1>1, <1>5, <1>11, <1>12 DEF Movement

Pinning ==
    /\ \A p \in Pin : pins'[p] \subseteq Present \cup pins[p]
    /\ UNCHANGED <<History, policy, tombstones>>

\* A capsule appends its rows and keeps those there were.
LEMMA ReceivedRows ==
    ASSUME TypeOK, NEW e \in Engine, NEW k \in Room,
           NEW rows \in [1..k -> Incoming(Len(revisions) + k)], Receive(e, rows)
    PROVE  /\ TableGrows
           /\ Len(revisions') = Len(revisions) + k
           /\ \A i \in 1..k : revisions'[Len(revisions) + i] = rows[i]
  <1>1. PICK U : revisions \in Seq(U) /\ Len(revisions) \in Nat
    BY DEF TypeOK
  <1>2. k \in Nat
    BY DEF Room
  <1> DEFINE T == Incoming(Len(revisions) + k)
  <1>3. rows \in [1..k -> T]
    OBVIOUS
  <1> HIDE DEF T
  <1>4. rows \in Seq(T) /\ Len(rows) = k
    BY <1>2, <1>3, SegmentIsSequence
  <1>5. revisions' = revisions \o rows
    BY DEF Receive
  <1>6. Len(revisions \o rows) = Len(revisions) + k
    BY <1>1, <1>4
  <1>7. \A i \in 1..Len(revisions) : (revisions \o rows)[i] = revisions[i]
    BY <1>1, <1>4
  <1>8. \A i \in 1..k : (revisions \o rows)[Len(revisions) + i] = rows[i]
    BY <1>1, <1>2, <1>4
  <1> QED  BY <1>1, <1>2, <1>5, <1>6, <1>7, <1>8 DEF TableGrows, Revs

\* Every step moves heads, retires a branch, changes pins, compacts, or leaves
\* all of these alone; and rows of the revisions table never change.
LEMMA StepShape ==
    ASSUME TypeOK, [Next]_vars
    PROVE  /\ TableGrows
           /\ \/ Movement
              \/ \E e \in Engine, l \in Line, x \in Expectable : ReleaseBranch(e, l, x)
              \/ \E e \in Engine : CompactRetention(e)
              \/ Pinning
  <1> USE DEF History
  <1>0. Len(revisions) \in Nat /\ \E T : revisions \in Seq(T)
    BY DEF TypeOK
  <1>1. revisions' = revisions => TableGrows
    BY <1>0 DEF TableGrows
  <1>2. ASSUME UNCHANGED <<revisions, heads, observations, events, retired, pins, policy, tombstones>>
        PROVE  TableGrows /\ Pinning
    BY <1>1, <1>2 DEF Pinning
  <1>3. CASE ClockMoves
    BY <1>2, <1>3 DEF ClockMoves
  <1>4. CASE \E e \in Engine : Sample(e)
    BY <1>2, <1>4 DEF Sample
  <1>5. CASE \E e \in Engine : Reopen(e)
    BY <1>2, <1>5 DEF Reopen
  <1>6. ASSUME NEW e \in Engine, NEW k \in Room,
               NEW rows \in [1..k -> Incoming(Len(revisions) + k)], Receive(e, rows)
        PROVE  TableGrows /\ Pinning
    BY <1>6, ReceivedRows DEF Receive, Pinning
  <1>7. ASSUME NEW e \in Engine, NEW p \in Pin, NEW S \in SUBSET Revs, RetainSnapshots(e, p, S)
        PROVE  TableGrows /\ Pinning
    BY <1>1, <1>7 DEF RetainSnapshots, Pinning, TypeOK
  <1>8. ASSUME NEW p \in Pin, ReleaseRetentionRoot(p)
        PROVE  TableGrows /\ Pinning
    BY <1>1, <1>8 DEF ReleaseRetentionRoot, Pinning, TypeOK
  <1>9. ASSUME NEW e \in Engine, NEW l \in Line, NEW x \in Expectable, ReleaseBranch(e, l, x)
        PROVE  TableGrows
    BY <1>1, <1>9 DEF ReleaseBranch
  <1>10. ASSUME NEW e \in Engine, NEW p, PlanRetention(e, p)
         PROVE  TableGrows /\ Pinning
    BY <1>2, <1>10 DEF PlanRetention
  <1>11. ASSUME NEW e \in Engine, CompactRetention(e)
         PROVE  TableGrows
    BY <1>1, <1>11 DEF CompactRetention
  <1>12. CASE UNCHANGED vars
    BY <1>2, <1>12 DEF vars
  <1> QED
    BY <1>3, <1>4, <1>5, <1>6, <1>7, <1>8, <1>9, <1>10, <1>11, <1>12,
       CommitMoves, BatchMoves, AcceptMoves DEF Next

\* The line l gets the observation row, and its revision as head.
Appends(l, row) ==
    /\ Len(observations'[l]) = Len(observations[l]) + 1
    /\ observations'[l] # <<>>
    /\ \A i \in 1..Len(observations[l]) : observations'[l][i] = observations[l][i]
    /\ observations'[l][Len(observations[l]) + 1] = row
    /\ heads'[l] = row.revision
    /\ l \notin retired
    /\ observations[l] # <<>> => TipTime(l) <= now

\* A movement appends one observation to each line it moves and keeps the others.
LEMMA MovementAppends ==
    ASSUME TypeOK, NEW S \in SUBSET Line, NEW revision, NEW basis,
           AdvanceHeads(S, revision, basis), NEW l \in Line
    PROVE  /\ l \notin S => observations'[l] = observations[l] /\ heads'[l] = heads[l]
           /\ l \in S => Appends(l, [revision |-> revision[l], time |-> now, basis |-> basis[l]])
  <1>1. observations[l] \in Seq(Observation) /\ Len(observations[l]) \in Nat
    BY DEF TypeOK
  <1>2. CASE l \notin S
    BY <1>2 DEF AdvanceHeads
  <1>3. CASE l \in S
    <2> DEFINE row == [revision |-> revision[l], time |-> now, basis |-> basis[l]]
    <2>1. observations'[l] = Append(observations[l], row)
      BY <1>3 DEF AdvanceHeads
    <2>2. /\ Len(observations'[l]) = Len(observations[l]) + 1
          /\ observations'[l] # <<>>
          /\ \A i \in 1..Len(observations[l]) : observations'[l][i] = observations[l][i]
          /\ observations'[l][Len(observations[l]) + 1] = row
      <3> HIDE DEF row
      <3> QED  BY <1>1, <2>1
    <2>3. heads'[l] = row.revision /\ MayObserve(l)
      BY <1>3 DEF AdvanceHeads
    <2> HIDE DEF row
    <2>4. Appends(l, row)
      BY <2>2, <2>3 DEF MayObserve, Appends
    <2> QED  BY <1>3, <2>4 DEF row
  <1> QED  BY <1>2, <1>3

(***************************************************************************)
(* Heads and their history                                                 *)
(***************************************************************************)

\* The history invariant is inductive: it needs HeadIsTip (a retired line has no
\* head and is never observed again) to show that a write replaces the tip.
HistoryInv == HeadIsTip /\ NoLostUpdate /\ RecordedMonotone

LEMMA HistoryInit == Init => HistoryInv
  BY DEF Init, HistoryInv, HeadIsTip, NoLostUpdate, RecordedMonotone

LEMMA HistoryStep == TypeOK /\ HistoryInv /\ [Next]_vars => HistoryInv'
  <1> SUFFICES ASSUME TypeOK, HistoryInv, [Next]_vars PROVE HistoryInv'
    OBVIOUS
  <1>0. \A l \in Line : Len(observations[l]) \in Nat /\ observations[l] \in Seq(Observation)
    BY DEF TypeOK
  <1>1. CASE Movement
    <2>1. PICK S \in SUBSET Line : \E revision \in [S -> Revs'], basis \in [S -> Expectable] :
                 Moves(S, revision, basis)
      BY <1>1 DEF Movement
    <2>2. PICK revision \in [S -> Revs'], basis \in [S -> Expectable] : Moves(S, revision, basis)
      BY <2>1
    <2>3. AdvanceHeads(S, revision, basis) /\ retired' = retired
          /\ \A l \in S : heads[l] = basis[l]
      BY <2>2 DEF Moves, CasHolds
    <2>4. SUFFICES ASSUME NEW l \in Line
                   PROVE  /\ heads'[l] = IF l \in retired' \/ observations'[l] = <<>> THEN None
                                         ELSE observations'[l][Len(observations'[l])].revision
                          /\ \A i \in 1..Len(observations'[l]) :
                                observations'[l][i].basis =
                                   IF i = 1 THEN None ELSE observations'[l][i - 1].revision
                          /\ \A i \in 2..Len(observations'[l]) :
                                observations'[l][i - 1].time <= observations'[l][i].time
      BY DEF HistoryInv, HeadIsTip, NoLostUpdate, RecordedMonotone
    <2>5. CASE l \notin S
      <3>1. observations'[l] = observations[l] /\ heads'[l] = heads[l]
        BY <2>3, <2>5, MovementAppends
      <3> QED  BY <2>3, <3>1 DEF HistoryInv, HeadIsTip, NoLostUpdate, RecordedMonotone
    <2>6. CASE l \in S
      <3> DEFINE n == Len(observations[l])
                 old == observations[l]
                 tip == [revision |-> revision[l], time |-> now, basis |-> basis[l]]
      <3>0. Appends(l, tip)
        BY <2>3, <2>6, MovementAppends
      <3>1. /\ Len(observations'[l]) = n + 1 /\ observations'[l] # <<>>
            /\ \A i \in 1..n : observations'[l][i] = old[i]
            /\ observations'[l][n + 1] = tip
            /\ heads'[l] = revision[l] /\ l \notin retired
            /\ old # <<>> => TipTime(l) <= now
        BY <3>0 DEF Appends
      <3>2. n \in Nat /\ (n = 0 <=> old = <<>>)
        BY <1>0
      <3>3. basis[l] = IF n = 0 THEN None ELSE old[n].revision
        <4>1. basis[l] = heads[l]
          BY <2>3, <2>6
        <4> QED  BY <3>1, <3>2, <4>1 DEF HistoryInv, HeadIsTip
      <3>4. heads'[l] = tip.revision
        BY <3>1
      <3>5. \A i \in 1..(n + 1) :
               observations'[l][i].basis = IF i = 1 THEN None ELSE observations'[l][i - 1].revision
        <4>1. tip.basis = IF n = 0 THEN None ELSE old[n].revision
          BY <3>1, <3>3
        <4>2. \A i \in 1..n : old[i].basis = IF i = 1 THEN None ELSE old[i - 1].revision
          BY DEF HistoryInv, NoLostUpdate
        <4> HIDE DEF n, old, tip
        <4>3. ASSUME NEW i \in 1..n
              PROVE  observations'[l][i].basis =
                        IF i = 1 THEN None ELSE observations'[l][i - 1].revision
          <5>1. observations'[l][i] = old[i] /\ (i # 1 => i - 1 \in 1..n)
            BY <3>1, <3>2
          <5>2. i # 1 => observations'[l][i - 1] = old[i - 1]
            BY <3>1, <5>1
          <5> QED  BY <4>2, <5>1, <5>2
        <4>4. observations'[l][n + 1].basis =
                 IF n + 1 = 1 THEN None ELSE observations'[l][(n + 1) - 1].revision
          <5>1. (n + 1 = 1 <=> n = 0) /\ (n + 1) - 1 = n
            BY <3>2
          <5>2. n # 0 => observations'[l][n] = old[n]
            BY <3>1, <3>2
          <5> QED  BY <3>1, <4>1, <5>1, <5>2
        <4>5. \A i \in 1..(n + 1) : i \in 1..n \/ i = n + 1
          BY <3>2
        <4> QED  BY <4>3, <4>4, <4>5
      <3>6. \A i \in 2..(n + 1) : observations'[l][i - 1].time <= observations'[l][i].time
        <4>1. tip.time = now
          BY <3>1
        <4>2. \A i \in 2..n : old[i - 1].time <= old[i].time
          BY DEF HistoryInv, RecordedMonotone
        <4>3. n # 0 => old[n].time <= now
          BY <3>1, <3>2 DEF TipTime
        <4> HIDE DEF n, old
        <4>4. ASSUME NEW i \in 2..n
              PROVE  observations'[l][i - 1].time <= observations'[l][i].time
          BY <3>1, <3>2, <4>2
        <4>5. n # 0 => observations'[l][n].time <= observations'[l][n + 1].time
          BY <3>1, <3>2, <4>1, <4>3
        <4>6. \A i \in 2..(n + 1) : i \in 2..n \/ (i = n + 1 /\ n # 0 /\ i - 1 = n)
          BY <3>2
        <4> QED  BY <4>4, <4>5, <4>6
      <3> QED  BY <2>3, <3>1, <3>4, <3>5, <3>6
    <2> QED  BY <2>5, <2>6
  <1>2. ASSUME NEW e \in Engine, NEW l \in Line, NEW x \in Expectable, ReleaseBranch(e, l, x)
        PROVE  HistoryInv'
    <2>1. /\ observations' = observations /\ retired' = retired \cup {l}
          /\ heads' = [heads EXCEPT ![l] = None]
      BY <1>2 DEF ReleaseBranch, DropHead
    <2>2. \A y \in Line : heads'[y] = IF y = l THEN None ELSE heads[y]
      BY <2>1 DEF TypeOK
    <2> QED  BY <2>1, <2>2 DEF HistoryInv, HeadIsTip, NoLostUpdate, RecordedMonotone
  <1>3. ASSUME UNCHANGED <<heads, observations, retired>> PROVE HistoryInv'
    BY <1>3 DEF HistoryInv, HeadIsTip, NoLostUpdate, RecordedMonotone
  <1> QED
    BY <1>1, <1>2, <1>3, StepShape DEF CompactRetention, Pinning, History

\* Whatever commits, batches, acceptances and retirements interleave: a line's
\* head is its last observation, each write replaced the head its writer named,
\* and recording times never decrease.
THEOREM HistoryCorrect == Spec => [](HeadIsTip /\ NoLostUpdate /\ RecordedMonotone)
  <1>1. Init => TypeOK /\ HistoryInv
    BY InitTypeOK, HistoryInit
  <1>2. (TypeOK /\ HistoryInv) /\ [Next]_vars => (TypeOK /\ HistoryInv)'
    BY NextTypeOK, HistoryStep
  <1>3. TypeOK /\ HistoryInv => HeadIsTip /\ NoLostUpdate /\ RecordedMonotone
    BY DEF HistoryInv
  <1> QED  BY <1>1, <1>2, <1>3, PTL DEF Spec

(***************************************************************************)
(* Retention                                                               *)
(***************************************************************************)

\* The revisions that load together with everything their required metadata names.
Whole == {r \in Present : revisions[r].content.required \subseteq Present}

\* RootsLoad and DependenciesLoad, one root at a time.
HeadsWhole == \A l \in Line : heads[l] # None => heads[l] \in Whole
PinsLoad == \A p \in Pin : pins[p] \subseteq Present
RecordedWhole ==
    \A l \in Line : \A i \in 1..Len(observations[l]) :
        observations[l][i].time >= policy.floor \/ i \in Boundary(l, policy.floor) =>
            observations[l][i].revision \in Whole
EventsLoad == \A k \in 1..Len(events) : k > policy.replay => events[k].revision \in Present

RetainedLoad == HeadsWhole /\ PinsLoad /\ RecordedWhole /\ EventsLoad

\* Every observation and every event names a row, and its required metadata do too.
Known == {r \in Revs : revisions[r].content.required \subseteq Revs}

ReferencesExist ==
    /\ \A l \in Line : \A i \in 1..Len(observations[l]) : observations[l][i].revision \in Known
    /\ \A k \in 1..Len(events) : events[k].revision \in Revs

RetentionInv == ReferencesExist /\ RetainedLoad

LEMMA RetainedLoadSuffices ==
    ASSUME RetainedLoad
    PROVE  RootsLoad /\ DependenciesLoad
  <1>1. HeadRoots \subseteq Whole
    BY DEF RetainedLoad, HeadsWhole, HeadRoots
  <1>2. RecordedRoots(policy.floor) \subseteq Whole
    BY DEF RetainedLoad, RecordedWhole, RecordedRoots, Boundary
  <1>3. PinRoots \subseteq Present
    BY DEF RetainedLoad, PinsLoad, PinRoots
  <1>4. EventRoots(policy.replay) \subseteq Present
    BY DEF RetainedLoad, EventsLoad, EventRoots
  <1> QED  BY <1>1, <1>2, <1>3, <1>4 DEF RootsLoad, DependenciesLoad, Roots, Whole

LEMMA RetentionInit == Init => RetentionInv
  BY DEF Init, RetentionInv, ReferencesExist, RetainedLoad, HeadsWhole, PinsLoad,
         RecordedWhole, EventsLoad

\* Moving heads keeps whatever was retained and adds only rows that load.
LEMMA RetentionMovement ==
    ASSUME TypeOK, HeadIsTip, RetentionInv, TableGrows, Movement
    PROVE  RetentionInv'
  <1>1. PICK S \in SUBSET Line : \E revision \in [S -> Revs'], basis \in [S -> Expectable] :
               Moves(S, revision, basis)
    BY DEF Movement
  <1>2. PICK revision \in [S -> Revs'], basis \in [S -> Expectable] : Moves(S, revision, basis)
    BY <1>1
  <1> DEFINE tip(l) == [revision |-> revision[l], time |-> now, basis |-> basis[l]]
  <1>3. /\ AdvanceHeads(S, revision, basis)
        /\ UNCHANGED <<retired, pins, policy, tombstones>>
    BY <1>2 DEF Moves
  <1>4. Revs \subseteq Revs' /\ Present \subseteq Present' /\ Present' \subseteq Revs'
    <2>1. Len(revisions) \in Nat /\ DOMAIN tombstones \subseteq Revs
      BY DEF TypeOK
    <2>2. Len(revisions) <= Len(revisions')
      BY DEF TableGrows
    <2>3. Revs \subseteq Revs'
      BY <2>1, <2>2 DEF Revs
    <2> QED  BY <1>3, <2>3 DEF Present
  <1>5. /\ \A r \in Revs : revisions'[r] = revisions[r]
        /\ Present \subseteq Revs
    BY DEF TableGrows, Present
  <1>6. Whole \subseteq Whole' /\ Known \subseteq Known' /\ Whole' \subseteq Known'
    BY <1>4, <1>5 DEF Whole, Known
  <1>7. \A l \in S : revision[l] \in Whole'
    BY <1>2 DEF Moves, Whole
  <1>8. \A l \in Line : Len(observations[l]) \in Nat
    BY DEF TypeOK
  <1>9. \A l \in Line : /\ l \in S => Appends(l, tip(l))
                        /\ l \notin S => observations'[l] = observations[l] /\ heads'[l] = heads[l]
    BY <1>3, MovementAppends
  <1> HIDE DEF tip
  <1>10. \A l \in S : tip(l).revision = revision[l]
    BY DEF tip
  <1>11. HeadsWhole'
    BY <1>6, <1>7, <1>9, <1>10 DEF RetentionInv, RetainedLoad, HeadsWhole, Appends
  <1>12. PinsLoad'
    BY <1>3, <1>4 DEF RetentionInv, RetainedLoad, PinsLoad
  <1>13. EventsLoad' /\ \A k \in 1..Len(events') : events'[k].revision \in Revs'
    <2>1. \A k \in 1..Len(events') : \/ k \in 1..Len(events) /\ events'[k] = events[k]
                                     \/ events'[k].revision \in Present'
      BY <1>2 DEF Moves, TypeOK
    <2> QED  BY <1>3, <1>4, <2>1
             DEF RetentionInv, RetainedLoad, ReferencesExist, EventsLoad
  <1>14. ASSUME NEW l \in Line
         PROVE  \A i \in 1..Len(observations'[l]) : observations'[l][i].revision \in Known'
    <2>1. \A i \in 1..Len(observations[l]) : observations[l][i].revision \in Known'
      BY <1>6 DEF RetentionInv, ReferencesExist
    <2>2. CASE l \in S
      <3>1. Appends(l, tip(l))
        BY <1>9, <2>2
      <3>2. SUFFICES ASSUME NEW i \in 1..Len(observations'[l])
                    PROVE  observations'[l][i].revision \in Known'
        OBVIOUS
      <3>3. \/ i \in 1..Len(observations[l]) /\ observations'[l][i] = observations[l][i]
            \/ observations'[l][i] = tip(l)
        BY <1>8, <3>1, <3>2 DEF Appends
      <3>4. tip(l).revision \in Known'
        BY <1>6, <1>7, <1>10, <2>2
      <3> QED  BY <2>1, <3>3, <3>4
    <2>3. CASE l \notin S
      BY <1>9, <2>1, <2>3
    <2> QED  BY <2>2, <2>3
  <1>15. ASSUME NEW l \in Line, NEW i \in 1..Len(observations'[l]),
                observations'[l][i].time >= policy.floor \/ i \in Boundary(l, policy.floor)'
         PROVE  observations'[l][i].revision \in Whole'
    <2>1. \A j \in 1..Len(observations[l]) :
             observations[l][j].time >= policy.floor \/ j \in Boundary(l, policy.floor) =>
                observations[l][j].revision \in Whole'
      BY <1>6 DEF RetentionInv, RetainedLoad, RecordedWhole
    <2>2. CASE l \notin S
      BY <1>3, <1>9, <1>15, <2>1, <2>2 DEF Boundary
    <2>3. CASE l \in S
      <3> DEFINE n == Len(observations[l])
      <3>1. Appends(l, tip(l)) /\ n \in Nat
        BY <1>8, <1>9, <2>3
      <3>2. CASE i = n + 1
        BY <1>7, <1>10, <2>3, <3>1, <3>2 DEF Appends
      <3>3. CASE i \in 1..n
        <4>1. observations'[l][i] = observations[l][i]
          BY <3>1, <3>3 DEF Appends
        <4>2. i \in Boundary(l, policy.floor)' => i \in Boundary(l, policy.floor)
          <5>1. heads[l] # None
            <6>1. observations[l] # <<>> /\ l \notin retired
              BY <3>1, <3>3 DEF Appends
            <6>2. heads[l] = observations[l][n].revision /\ n \in 1..n
              BY <3>1, <3>3, <6>1 DEF HeadIsTip
            <6>3. observations[l][n].revision \in Known /\ Known \subseteq Revs
              BY <6>2 DEF RetentionInv, ReferencesExist, Known
            <6> QED  BY <6>2, <6>3 DEF Revs, TypeOK
          <5>2. /\ Len(observations'[l]) = n + 1
                /\ \A j \in 1..n : observations'[l][j] = observations[l][j]
            BY <3>1 DEF Appends
          <5> HIDE DEF n
          <5> QED  BY <1>3, <3>1, <3>3, <5>1, <5>2 DEF Boundary, n
        <4> QED  BY <1>15, <2>1, <3>3, <4>1, <4>2
      <3> QED  BY <3>1, <3>2, <3>3 DEF Appends
    <2> QED  BY <2>2, <2>3
  <1>16. RecordedWhole'
    BY <1>3, <1>15 DEF RecordedWhole
  <1> QED  BY <1>11, <1>12, <1>13, <1>14, <1>16 DEF RetentionInv, RetainedLoad, ReferencesExist

\* Retiring a branch only removes roots.
LEMMA RetentionRelease ==
    ASSUME TypeOK, RetentionInv, NEW e \in Engine, NEW l \in Line, NEW x \in Expectable,
           ReleaseBranch(e, l, x)
    PROVE  RetentionInv'
  <1>1. UNCHANGED <<revisions, observations, events, pins, policy, tombstones>>
    BY DEF ReleaseBranch
  <1>2. \A y \in Line : heads'[y] # None => heads'[y] = heads[y]
    BY DEF ReleaseBranch, DropHead, TypeOK
  <1>3. Revs' = Revs /\ Present' = Present /\ Whole' = Whole /\ Known' = Known
    BY <1>1 DEF Revs, Present, Whole, Known
  <1>4. \A y \in Line : Boundary(y, policy.floor)' \subseteq Boundary(y, policy.floor)
    BY <1>1, <1>2 DEF Boundary
  <1>5. RecordedWhole'
    BY <1>1, <1>3, <1>4 DEF RetentionInv, RetainedLoad, RecordedWhole
  <1> QED  BY <1>1, <1>2, <1>3, <1>5
           DEF RetentionInv, RetainedLoad, ReferencesExist, HeadsWhole, PinsLoad, EventsLoad

\* Receiving a row, pinning rows that load and releasing a pin erase nothing.
LEMMA RetentionPinning ==
    ASSUME TypeOK, RetentionInv, TableGrows, Pinning
    PROVE  RetentionInv'
  <1>1. UNCHANGED <<heads, observations, events, policy, tombstones>>
    BY DEF Pinning, History
  <1>2. Revs \subseteq Revs' /\ \A r \in Revs : revisions'[r] = revisions[r]
    BY DEF TableGrows, Revs, TypeOK
  <1>3. Present \subseteq Present' /\ Present \subseteq Revs
    BY <1>1, <1>2 DEF Present
  <1>4. Whole \subseteq Whole' /\ Known \subseteq Known'
    BY <1>2, <1>3 DEF Whole, Known
  <1>5. \A y \in Line : Boundary(y, policy.floor)' = Boundary(y, policy.floor)
    BY <1>1 DEF Boundary
  <1>6. RecordedWhole'
    BY <1>1, <1>4, <1>5 DEF RetentionInv, RetainedLoad, RecordedWhole
  <1>7. PinsLoad'
    BY <1>3 DEF Pinning, RetentionInv, RetainedLoad, PinsLoad
  <1> QED  BY <1>1, <1>2, <1>3, <1>4, <1>6, <1>7
           DEF RetentionInv, RetainedLoad, ReferencesExist, HeadsWhole, EventsLoad

\* Compaction erases nothing the closure of the new roots contains.
LEMMA RetentionCompaction ==
    ASSUME TypeOK, RetentionInv, NEW e \in Engine, CompactRetention(e)
    PROVE  RetentionInv'
  <1> DEFINE R == Roots(plan.floor, plan.replay)
             C == Closure(R)
  <1>1. /\ UNCHANGED <<revisions, heads, observations, events, pins>>
        /\ policy'.floor = plan.floor /\ policy'.replay = plan.replay
        /\ DOMAIN tombstones' = DOMAIN tombstones \cup plan.collect
    BY DEF CompactRetention
  <1>2. C \subseteq Present /\ plan.collect \cap C = {}
    BY DEF CompactRetention, PlanCurrent, Plannable, Plan
  <1>3. Revs' = Revs /\ Known' = Known /\ C \subseteq Present'
    BY <1>1, <1>2 DEF Revs, Known, Present
  <1>4. \A r \in R \cap Known : r \in Whole'
    <2>1. \A r \in R \cap Known : r \in C /\ revisions[r].content.required \subseteq C
      <3>1. R \cap Revs \subseteq C /\ Closed(C)
        BY ClosureContains, ClosureIsClosed
      <3> QED  BY <3>1 DEF Closed, Needs, Known
    <2> QED  BY <1>1, <1>3, <2>1 DEF Whole
  <1>5. R \cap Revs \subseteq Present'
    BY <1>3, ClosureContains
  <1> HIDE DEF C
  <1>6. HeadsWhole'
    <2>1. \A l \in Line : heads[l] # None => heads[l] \in R /\ heads[l] \in Known
      BY DEF Roots, HeadRoots, RetentionInv, RetainedLoad, HeadsWhole, Whole, Known, Present
    <2> QED  BY <1>1, <1>4, <2>1 DEF HeadsWhole
  <1>7. PinsLoad'
    <2>1. \A p \in Pin : pins[p] \subseteq R \cap Revs
      BY DEF Roots, PinRoots, TypeOK
    <2> QED  BY <1>1, <1>5, <2>1 DEF PinsLoad
  <1>8. EventsLoad'
    <2>1. \A k \in 1..Len(events) : k > plan.replay => events[k].revision \in R \cap Revs
      BY DEF Roots, EventRoots, RetentionInv, ReferencesExist
    <2> QED  BY <1>1, <1>5, <2>1 DEF EventsLoad
  <1>9. RecordedWhole'
    <2>1. ASSUME NEW l \in Line, NEW i \in 1..Len(observations[l]),
                 observations[l][i].time >= plan.floor \/ i \in Boundary(l, plan.floor)
          PROVE  observations[l][i].revision \in R \cap Known
      BY <2>1 DEF Roots, RecordedRoots, RetentionInv, ReferencesExist
    <2>2. \A l \in Line : Boundary(l, policy.floor)' = Boundary(l, plan.floor)
      BY <1>1 DEF Boundary
    <2> HIDE DEF R
    <2> QED  BY <1>1, <1>4, <2>1, <2>2 DEF RecordedWhole
  <1> QED  BY <1>1, <1>3, <1>6, <1>7, <1>8, <1>9
           DEF RetentionInv, RetainedLoad, ReferencesExist

LEMMA RetentionStep ==
    TypeOK /\ HistoryInv /\ RetentionInv /\ [Next]_vars => RetentionInv'
  BY StepShape, RetentionMovement, RetentionRelease, RetentionCompaction, RetentionPinning
     DEF HistoryInv

\* No compaction, however old its preview, ever erases an active head, a pinned
\* revision, retained history, an event still to be replayed, or the required
\* metadata of a retained revision.
THEOREM RetentionSafe == Spec => [](RootsLoad /\ DependenciesLoad)
  <1> DEFINE I == TypeOK /\ HistoryInv /\ RetentionInv
  <1>1. Init => I
    BY InitTypeOK, HistoryInit, RetentionInit
  <1>2. I /\ [Next]_vars => I'
    BY NextTypeOK, HistoryStep, RetentionStep
  <1>3. I => RootsLoad /\ DependenciesLoad
    BY RetainedLoadSuffices DEF RetentionInv
  <1> QED  BY <1>1, <1>2, <1>3, PTL DEF Spec

(***************************************************************************)
(* Single tables: anchors of erased payloads, logical batches, and the     *)
(* journal of head movements.                                              *)
(***************************************************************************)

\* The head of a line is its last observation, whatever order commits, batches,
\* acceptances and retirements take (advance_head, release_branch).
THEOREM HeadAlwaysTip == Spec => []HeadIsTip
  BY HistoryCorrect, PTL

\* Recording time never moves backwards within a line, although the host clock may
\* and a reopened engine remembers no sample (append_observation).
THEOREM TimeNeverBackwards == Spec => []RecordedMonotone
  BY HistoryCorrect, PTL

\* The payload of every head and of every retained observation finds the revisions its
\* required metadata names (retention_plan, compact_retention_boundary).
THEOREM DependenciesAlwaysLoad == Spec => []DependenciesLoad
  BY RetentionSafe, PTL

(***************************************************************************)
(* Retirement                                                              *)
(***************************************************************************)

\* A movement touches no retired line: it needs an observation, which is refused there.
LEMMA RetiredStep ==
    TypeOK /\ HistoryInv /\ [Next]_vars =>
        \A l \in retired : l \in retired' /\ heads'[l] = None /\ observations'[l] = observations[l]
  <1> SUFFICES ASSUME TypeOK, HistoryInv, [Next]_vars, NEW l \in retired
               PROVE  l \in retired' /\ heads'[l] = None /\ observations'[l] = observations[l]
    OBVIOUS
  <1>1. l \in Line /\ heads[l] = None
    BY DEF TypeOK, HistoryInv, HeadIsTip
  <1>2. ASSUME NEW S \in SUBSET Line, NEW revision, NEW basis, Moves(S, revision, basis)
        PROVE  l \in retired' /\ heads'[l] = None /\ observations'[l] = observations[l]
    <2>1. AdvanceHeads(S, revision, basis) /\ retired' = retired
      BY <1>2 DEF Moves
    <2>2. l \notin S
      BY <1>1, <2>1, MovementAppends DEF Appends
    <2> QED  BY <1>1, <2>1, <2>2, MovementAppends
  <1>3. ASSUME NEW e \in Engine, NEW y \in Line, NEW x \in Expectable, ReleaseBranch(e, y, x)
        PROVE  l \in retired' /\ heads'[l] = None /\ observations'[l] = observations[l]
    <2>1. /\ observations' = observations /\ retired' = retired \cup {y}
          /\ heads' = [heads EXCEPT ![y] = None]
      BY <1>3 DEF ReleaseBranch, DropHead
    <2> QED  BY <1>1, <2>1 DEF TypeOK
  <1>4. ASSUME UNCHANGED <<heads, observations, retired>>
        PROVE  l \in retired' /\ heads'[l] = None /\ observations'[l] = observations[l]
    BY <1>1, <1>4
  <1> QED
    BY <1>2, <1>3, <1>4, StepShape DEF Movement, CompactRetention, Pinning, History

\* A retired branch identity is never reused (release_branch, append_observation).
THEOREM NeverReused == Spec => RetiredForGood
  <1> DEFINE I == TypeOK /\ HistoryInv
             A == \A l \in retired : l \in retired' /\ heads'[l] = None
                                     /\ observations'[l] = observations[l]
  <1>1. Init => I
    BY InitTypeOK, HistoryInit
  <1>2. I /\ [Next]_vars => I'
    BY NextTypeOK, HistoryStep
  <1>3. I /\ [Next]_vars => [A]_vars
    BY RetiredStep
  <1> HIDE DEF I
  <1>4. Spec => [][A]_vars
    BY <1>1, <1>2, <1>3, PTL DEF Spec
  <1> QED  BY <1>4 DEF RetiredForGood

(***************************************************************************)
(* Anchors                                                                 *)
(***************************************************************************)

\* A step that erases nothing keeps every anchor: rows and the policy do not change.
LEMMA AnchorsKept ==
    ASSUME TypeOK, AnchorsValid, TableGrows, UNCHANGED <<policy, tombstones>>
    PROVE  AnchorsValid'
  <1>1. \A r \in DOMAIN tombstones : revisions'[r] = revisions[r]
    BY DEF TypeOK, TableGrows
  <1> QED  BY <1>1 DEF AnchorsValid

\* What a compaction erases was recorded before the new floor, which is not ahead of the
\* clock that stamps the anchor.
LEMMA AnchorsOfCompaction ==
    ASSUME TypeOK, AnchorsValid, NEW e \in Engine, CompactRetention(e)
    PROVE  AnchorsValid'
  <1>1. /\ revisions' = revisions
        /\ policy'.floor = plan.floor /\ policy'.generation = plan.generation + 1
        /\ tombstones' = [r \in DOMAIN tombstones \cup plan.collect |->
              IF r \in plan.collect THEN [erased |-> now, generation |-> plan.generation + 1]
              ELSE tombstones[r]]
    BY DEF CompactRetention
  <1>2. PlanCurrent
    BY DEF CompactRetention
  <1>3. /\ plan.generation = policy.generation
        /\ policy.floor <= plan.floor /\ plan.floor <= now
    BY <1>2 DEF PlanCurrent, Plan, Plannable, FrontiersAdvance
  <1>4. \A r \in plan.collect : r \in Revs /\ revisions[r].time < plan.floor
    BY <1>2 DEF PlanCurrent, Plan, Collectable
  <1>5. /\ policy.generation \in Nat /\ policy.floor \in Nat /\ now \in Nat
        /\ plan.floor \in Nat /\ plan \in [generation : Nat, floor : 0..MaxTime, replay : Nat,
                               retained : SUBSET Revs, collect : SUBSET Revs]
        /\ \A r \in Revs : revisions[r].time \in Nat
    <2>1. plan \in [generation : Nat, floor : 0..MaxTime, replay : Nat,
                               retained : SUBSET Revs, collect : SUBSET Revs]
      BY DEF TypeOK, CompactRetention
    <2>2. \A r \in Revs : revisions[r] \in RevisionRow
      BY DEF TypeOK, Revs
    <2>3. \A r \in Revs : revisions[r].time \in Nat
      BY <2>2 DEF RevisionRow
    <2> QED  BY <2>1, <2>3 DEF TypeOK
  <1>6. ASSUME NEW r \in plan.collect
        PROVE  /\ revisions'[r].time < policy'.floor
               /\ revisions'[r].time <= tombstones'[r].erased
               /\ tombstones'[r].generation \in 1..policy'.generation
    <2>1. tombstones'[r].erased = now /\ tombstones'[r].generation = plan.generation + 1
      BY <1>1
    <2>2. revisions[r].time < plan.floor /\ revisions[r].time \in Nat
      BY <1>4, <1>5
    <2> QED  BY <1>1, <1>3, <1>5, <2>1, <2>2
  <1>7. ASSUME NEW r \in DOMAIN tombstones, r \notin plan.collect
        PROVE  /\ revisions'[r].time < policy'.floor
               /\ revisions'[r].time <= tombstones'[r].erased
               /\ tombstones'[r].generation \in 1..policy'.generation
    <2>1. tombstones'[r] = tombstones[r]
      BY <1>1, <1>7
    <2>2. /\ revisions[r].time < policy.floor /\ revisions[r].time <= tombstones[r].erased
          /\ tombstones[r].generation \in 1..policy.generation
      BY DEF AnchorsValid
    <2>3. revisions[r].time \in Nat
      BY <1>5 DEF TypeOK
    <2> QED  BY <1>1, <1>3, <1>5, <2>1, <2>2, <2>3
  <1>8. DOMAIN tombstones' = DOMAIN tombstones \cup plan.collect
    BY <1>1
  <1> QED  BY <1>6, <1>7, <1>8 DEF AnchorsValid

\* Every erased payload has an anchor that load() accepts: recorded before the floor,
\* erased no earlier than it was recorded, in a generation that has been.
THEOREM AnchorsAlwaysValid == Spec => []AnchorsValid
  <1> DEFINE I == TypeOK /\ AnchorsValid
  <1>1. Init => I
    BY InitTypeOK DEF Init, AnchorsValid
  <1>2. I /\ [Next]_vars => I'
    <2> SUFFICES ASSUME I, [Next]_vars PROVE AnchorsValid'
      BY NextTypeOK
    <2>1. TableGrows
      BY StepShape
    <2>2. Movement => UNCHANGED <<policy, tombstones>>
      BY DEF Movement, Moves
    <2>3. \A e \in Engine, l \in Line, x \in Expectable :
             ReleaseBranch(e, l, x) => UNCHANGED <<policy, tombstones>>
      BY DEF ReleaseBranch
    <2>4. Pinning => UNCHANGED <<policy, tombstones>>
      BY DEF Pinning
    <2> QED  BY <2>1, <2>2, <2>3, <2>4, StepShape, AnchorsKept, AnchorsOfCompaction
  <1>3. I => AnchorsValid
    OBVIOUS
  <1> QED  BY <1>1, <1>2, <1>3, PTL DEF Spec

(***************************************************************************)
(* Logical batches                                                         *)
(***************************************************************************)

\* The rows a manifest names are rows of that batch, recorded at one time; a compaction
\* therefore finds all of them collectable or none.
Manifested ==
    \A b \in Batch : \A r \in manifests[b] :
        /\ revisions[r].batch = b
        /\ \A s \in manifests[b] : revisions[s].time = revisions[r].time

BatchInv == Manifested /\ BatchErasedWhole

\* What commit_batch appends: one row per member, in the order of the members.
LEMMA BatchRows ==
    ASSUME TypeOK, NEW e \in Engine, NEW b \in Batch, NEW order \in Orders,
           NEW expected \in [Members(order) -> Expectable],
           NEW content \in [Members(order) -> Payloads(1..(Len(revisions) + Len(order)))],
           CommitBatch(e, b, order, expected, content)
    PROVE  /\ Len(revisions') = Len(revisions) + Len(order)
           /\ \A i \in 1..Len(order) :
                 revisions'[Len(revisions) + i] =
                    [line |-> order[i], parent |-> expected[order[i]],
                     content |-> content[order[i]], batch |-> b, time |-> now]
  <1> DEFINE k == Len(order)
             rows == [i \in 1..k |->
                        [line |-> order[i], parent |-> expected[order[i]],
                         content |-> content[order[i]], batch |-> b, time |-> now]]
             T == {rows[i] : i \in 1..k}
  <1>1. k \in Nat \ {0}
    BY OrderIsSequence
  <1>2. \E U : revisions \in Seq(U)
    BY DEF TypeOK
  <1>3. revisions' = revisions \o rows
    BY DEF CommitBatch
  <1>4. \A i \in 1..k : rows[i] = [line |-> order[i], parent |-> expected[order[i]],
                         content |-> content[order[i]], batch |-> b, time |-> now]
    OBVIOUS
  <1>5. rows \in [1..k -> T]
    OBVIOUS
  <1> HIDE DEF rows, k, T
  <1>6. rows \in Seq(T) /\ Len(rows) = k
    BY <1>1, <1>5, SegmentIsSequence
  <1>7. /\ Len(revisions') = Len(revisions) + k
        /\ \A i \in 1..k : revisions'[Len(revisions) + i] = rows[i]
    <2>1. PICK U : revisions \in Seq(U)
      BY <1>2
    <2>2. Len(revisions \o rows) = Len(revisions) + k
      BY <1>1, <1>6, <2>1
    <2>3. \A i \in 1..k : (revisions \o rows)[Len(revisions) + i] = rows[i]
      BY <1>1, <1>6, <2>1
    <2> QED  BY <1>3, <2>2, <2>3
  <1> QED  BY <1>4, <1>7 DEF k

\* Only a batch and a capsule change a manifest.
LEMMA ManifestsKept ==
    ASSUME TypeOK, [Next]_vars
    PROVE  \/ manifests' = manifests
           \/ \E e \in Engine, b \in Batch, order \in Orders :
              \E expected \in [Members(order) -> Expectable],
                 content \in [Members(order) -> Payloads(1..(Len(revisions) + Len(order)))] :
                   CommitBatch(e, b, order, expected, content)
           \/ \E e \in Engine, k \in Room :
              \E rows \in [1..k -> Incoming(Len(revisions) + k)] : Receive(e, rows)
  BY DEF Next, vars, ClockMoves, Sample, Reopen, Commit, Accept, RetainSnapshots,
         ReleaseRetentionRoot, ReleaseBranch, PlanRetention, CompactRetention

\* Rows that are added, and steps that erase nothing, leave the batches as they were.
LEMMA BatchKept ==
    ASSUME TypeOK, BatchInv, TableGrows, UNCHANGED <<manifests, tombstones>>
    PROVE  BatchInv'
  <1>1. \A b \in Batch : \A r \in manifests[b] : r \in Revs /\ revisions'[r] = revisions[r]
    BY DEF TypeOK, TableGrows
  <1>2. Revs \subseteq Revs'
    BY DEF TypeOK, TableGrows, Revs
  <1>3. \A b \in Batch : \A r \in manifests[b] : r \in Present' <=> r \in Present
    BY <1>1, <1>2 DEF Present
  <1>4. Manifested'
    BY <1>1 DEF BatchInv, Manifested
  <1>5. BatchErasedWhole'
    BY <1>3 DEF BatchInv, BatchErasedWhole
  <1> QED  BY <1>4, <1>5 DEF BatchInv

\* The manifest of a new batch names exactly the rows it appends, none of them erased.
LEMMA BatchAdded ==
    ASSUME TypeOK, BatchInv, TableGrows, NEW e \in Engine, NEW b \in Batch, NEW order \in Orders,
           NEW expected \in [Members(order) -> Expectable],
           NEW content \in [Members(order) -> Payloads(1..(Len(revisions) + Len(order)))],
           CommitBatch(e, b, order, expected, content)
    PROVE  BatchInv'
  <1> DEFINE n == Len(revisions)
             k == Len(order)
  <1>1. n \in Nat /\ k \in Nat
    BY OrderIsSequence DEF TypeOK
  <1>2. /\ manifests' = [manifests EXCEPT ![b] = MemberIds(n, k)]
        /\ tombstones' = tombstones
    BY DEF CommitBatch
  <1>3. /\ Len(revisions') = n + k
        /\ \A i \in 1..k : revisions'[n + i].batch = b /\ revisions'[n + i].time = now
    <2>1. /\ Len(revisions') = Len(revisions) + Len(order)
          /\ \A i \in 1..Len(order) :
                 revisions'[Len(revisions) + i] =
                    [line |-> order[i], parent |-> expected[order[i]],
                     content |-> content[order[i]], batch |-> b, time |-> now]
      BY BatchRows
    <2>2. ASSUME NEW i \in 1..Len(order)
          PROVE  /\ revisions'[Len(revisions) + i].batch = b
                 /\ revisions'[Len(revisions) + i].time = now
      <3>1. revisions'[Len(revisions) + i] =
               [line |-> order[i], parent |-> expected[order[i]],
                content |-> content[order[i]], batch |-> b, time |-> now]
        BY <2>1
      <3> QED  BY <3>1
    <2> QED  BY <2>1, <2>2
  <1>4. manifests'[b] = MemberIds(n, k) /\ \A c \in Batch \ {b} : manifests'[c] = manifests[c]
    BY <1>2 DEF TypeOK
  <1>5. \A r \in MemberIds(n, k) : \E i \in 1..k : r = n + i
    <2> HIDE DEF n, k
    <2> SUFFICES ASSUME NEW r \in MemberIds(n, k) PROVE \E i \in 1..k : r = n + i
      OBVIOUS
    <2>1. r - n \in 1..k /\ r = n + (r - n)
      BY <1>1 DEF MemberIds
    <2> QED  BY <2>1
  <1> HIDE DEF k
  <1>6. \A r \in MemberIds(n, k) : revisions'[r].batch = b /\ revisions'[r].time = now
    BY <1>3, <1>5
  <1>7. DOMAIN tombstones \subseteq Revs
    BY DEF TypeOK
  <1>8. MemberIds(n, k) \subseteq Present'
    BY <1>1, <1>2, <1>3, <1>7 DEF Present, Revs, MemberIds
  <1>9. \A c \in Batch : \A r \in manifests[c] : r \in Revs /\ revisions'[r] = revisions[r]
    BY DEF TypeOK, TableGrows
  <1>10. Revs \subseteq Revs'
    BY DEF TypeOK, TableGrows, Revs
  <1>11. \A c \in Batch : \A r \in manifests[c] : r \in Present' <=> r \in Present
    BY <1>2, <1>9, <1>10 DEF Present
  <1> HIDE DEF n
  <1>12. ASSUME NEW c \in Batch
         PROVE  /\ \A r \in manifests'[c] :
                      /\ revisions'[r].batch = c
                      /\ \A s \in manifests'[c] : revisions'[s].time = revisions'[r].time
                /\ manifests'[c] \subseteq Present' \/ manifests'[c] \cap Present' = {}
    <2>1. CASE c = b
      BY <1>4, <1>6, <1>8, <2>1
    <2>2. CASE c # b
      <3>1. manifests'[c] = manifests[c]
        BY <1>4, <2>2
      <3>2. \A r \in manifests[c] :
                /\ revisions[r].batch = c
                /\ \A s \in manifests[c] : revisions[s].time = revisions[r].time
        BY DEF BatchInv, Manifested
      <3>3. manifests[c] \subseteq Present \/ manifests[c] \cap Present = {}
        BY DEF BatchInv, BatchErasedWhole
      <3> QED  BY <1>9, <1>11, <3>1, <3>2, <3>3
    <2> QED  BY <2>1, <2>2
  <1> QED  BY <1>12 DEF BatchInv, Manifested, BatchErasedWhole

\* The manifest a capsule brings names exactly the rows it adds for that batch, which the
\* store did not have; they share the capsule's recording time and none is erased.
LEMMA BatchReceived ==
    ASSUME TypeOK, BatchInv, NEW e \in Engine, NEW k \in Room,
           NEW rows \in [1..k -> Incoming(Len(revisions) + k)], Receive(e, rows)
    PROVE  BatchInv'
  <1> DEFINE n == Len(revisions)
  <1>1. n \in Nat /\ k \in Nat
    BY DEF TypeOK, Room
  <1>2. /\ TableGrows
        /\ Len(revisions') = n + k
        /\ \A i \in 1..k : revisions'[n + i] = rows[i]
    BY ReceivedRows
  <1>3. /\ tombstones' = tombstones
        /\ \A b \in Batch : manifests'[b] = manifests[b] \cup ManifestOf(b, rows, n)
        /\ \A i \in 1..k : rows[i].batch \in Batch => manifests[rows[i].batch] = {}
    BY BoundsAssumption DEF Receive, Lacking
  <1>4. \A i \in 1..k : rows[i].time = now
    BY DEF Incoming
  <1>5. DOMAIN rows = 1..k
    OBVIOUS
  <1>6. DOMAIN tombstones \subseteq Revs
    BY DEF TypeOK
  <1>7. Revs = 1..n /\ Revs' = 1..(n + k)
    BY <1>2 DEF Revs
  <1>8. \A c \in Batch : \A r \in manifests[c] : r \in Revs /\ revisions'[r] = revisions[r]
    BY <1>2 DEF TypeOK, TableGrows
  <1> HIDE DEF n
  <1>9. \A i \in 1..k : n + i \in Revs' /\ n + i \notin Revs
    BY <1>1, <1>7
  <1>10. Revs \subseteq Revs'
    BY <1>1, <1>7, SegmentGrows
  <1>11. \A c \in Batch : \A r \in manifests[c] : r \in Present' <=> r \in Present
    BY <1>3, <1>8, <1>10 DEF Present
  <1>12. ASSUME NEW c \in Batch
         PROVE  /\ \A r \in manifests'[c] :
                      /\ revisions'[r].batch = c
                      /\ \A s \in manifests'[c] : revisions'[s].time = revisions'[r].time
                /\ manifests'[c] \subseteq Present' \/ manifests'[c] \cap Present' = {}
    <2>1. CASE ManifestOf(c, rows, n) = {}
      <3>1. manifests'[c] = manifests[c]
        BY <1>3, <2>1
      <3>2. \A r \in manifests[c] :
                /\ revisions[r].batch = c
                /\ \A s \in manifests[c] : revisions[s].time = revisions[r].time
        BY DEF BatchInv, Manifested
      <3>3. manifests[c] \subseteq Present \/ manifests[c] \cap Present = {}
        BY DEF BatchInv, BatchErasedWhole
      <3> QED  BY <1>8, <1>11, <3>1, <3>2, <3>3
    <2>2. CASE ManifestOf(c, rows, n) # {}
      <3>1. PICK i \in 1..k : rows[i].batch = c
        BY <1>5, <2>2 DEF ManifestOf
      <3>2. manifests'[c] = ManifestOf(c, rows, n)
        BY <1>3, <3>1
      <3>3. \A r \in manifests'[c] : \E j \in 1..k : r = n + j /\ rows[j].batch = c
        BY <1>5, <3>2 DEF ManifestOf
      <3>4. \A r \in manifests'[c] :
               revisions'[r].batch = c /\ revisions'[r].time = now /\ r \in Present'
        BY <1>2, <1>3, <1>4, <1>6, <1>9, <3>3 DEF Present
      <3> QED  BY <3>4
    <2> QED  BY <2>1, <2>2
  <1> QED  BY <1>12 DEF BatchInv, Manifested, BatchErasedWhole

\* A compaction that keeps one member keeps them all, since the closure follows manifests;
\* one that keeps none finds all of them before the floor, or none.
LEMMA BatchCompacted ==
    ASSUME TypeOK, BatchInv, NEW e \in Engine, CompactRetention(e)
    PROVE  BatchInv'
  <1> DEFINE C == Closure(Roots(plan.floor, plan.replay))
  <1>1. /\ UNCHANGED <<revisions, manifests>>
        /\ DOMAIN tombstones' = DOMAIN tombstones \cup plan.collect
    BY DEF CompactRetention
  <1>2. Manifested'
    BY <1>1 DEF BatchInv, Manifested
  <1>3. plan.collect = {r \in Revs \ C : r \in Present /\ revisions[r].time < plan.floor}
    BY DEF CompactRetention, PlanCurrent, Plan, Collectable
  <1>4. Closed(C)
    BY ClosureIsClosed
  <1> HIDE DEF C
  <1>5. Present' = Present \ plan.collect
    BY <1>1 DEF Present, Revs
  <1>6. ASSUME NEW b \in Batch
        PROVE  manifests[b] \subseteq Present' \/ manifests[b] \cap Present' = {}
    <2>1. CASE manifests[b] \cap Present = {}
      BY <1>5, <2>1
    <2>2. CASE manifests[b] \subseteq Present /\ \E r \in manifests[b] : r \in C
      <3>1. PICK r \in manifests[b] : r \in C
        BY <2>2
      <3>2. manifests[b] \subseteq Revs
        BY DEF TypeOK
      <3>3. Fellows(r) = manifests[b]
        BY BoundsAssumption DEF BatchInv, Manifested, Fellows
      <3>4. manifests[b] \subseteq C
        BY <1>4, <3>1, <3>2, <3>3 DEF Closed, Needs
      <3> QED  BY <1>3, <1>5, <2>2, <3>4
    <2>3. CASE manifests[b] \subseteq Present /\ \A r \in manifests[b] : r \notin C
      <3>1. \A r \in manifests[b] : r \in plan.collect <=> revisions[r].time < plan.floor
        BY <1>3, <2>3 DEF Present
      <3>2. \A r, s \in manifests[b] : revisions[s].time = revisions[r].time
        BY DEF BatchInv, Manifested
      <3> QED  BY <1>5, <2>3, <3>1, <3>2
    <2>4. manifests[b] \subseteq Present \/ manifests[b] \cap Present = {}
      BY DEF BatchInv, BatchErasedWhole
    <2> QED  BY <2>1, <2>2, <2>3, <2>4
  <1> QED  BY <1>1, <1>2, <1>6 DEF BatchInv, BatchErasedWhole

\* The payloads of a logical batch are erased together or not at all, whatever floor and
\* roots a compaction works with (retention_plan, snapshot_manifests).
THEOREM BatchesErasedWhole == Spec => []BatchErasedWhole
  <1> DEFINE I == TypeOK /\ BatchInv
  <1>1. Init => I
    BY InitTypeOK DEF Init, BatchInv, Manifested, BatchErasedWhole
  <1>2. I /\ [Next]_vars => I'
    <2> SUFFICES ASSUME I, [Next]_vars PROVE BatchInv'
      BY NextTypeOK
    <2>1. TableGrows
      BY StepShape
    <2>2. CASE manifests' # manifests
      BY <2>1, <2>2, ManifestsKept, BatchAdded, BatchReceived
    <2>3. CASE manifests' = manifests
      <3>1. Movement => tombstones' = tombstones
        BY DEF Movement, Moves
      <3>2. \A e \in Engine, l \in Line, x \in Expectable :
               ReleaseBranch(e, l, x) => tombstones' = tombstones
        BY DEF ReleaseBranch
      <3>3. Pinning => tombstones' = tombstones
        BY DEF Pinning
      <3> QED  BY <2>1, <2>3, <3>1, <3>2, <3>3, StepShape, BatchKept, BatchCompacted
    <2> QED  BY <2>2, <2>3
  <1>3. I => BatchErasedWhole
    BY DEF BatchInv
  <1> QED  BY <1>1, <1>2, <1>3, PTL DEF Spec

(***************************************************************************)
(* The journal                                                             *)
(***************************************************************************)

\* The journal after the step holds an event of this line and revision.
ToldOf(l, r) == \E k \in 1..Len(events') : events'[k] = [revision |-> r, line |-> l]

\* The tip of l, before the step, has the payload of the revision r after it.
SamePayload(l, r) ==
    /\ observations[l] # <<>>
    /\ revisions'[r].content =
          revisions'[observations[l][Len(observations[l])].revision].content

JournalGrows == Len(events) <= Len(events') /\ \A k \in 1..Len(events) : events'[k] = events[k]

\* The step moves the heads of S to the revisions named, and journals each of these
\* movements unless it keeps the payload.
Announces(S, revision) ==
    /\ \E basis : AdvanceHeads(S, revision, basis)
    /\ \A l \in S : ToldOf(l, revision[l]) \/ SamePayload(l, revision[l])

\* The k-th of the events a sequence of them appends.
LEMMA JournalAppends ==
    ASSUME TypeOK, NEW added, NEW c \in Nat, NEW T, added \in Seq(T), Len(added) = c,
           events' = events \o added
    PROVE  /\ JournalGrows
           /\ \A v \in 1..c : \E k \in 1..Len(events') : events'[k] = added[v]
  <1>1. PICK U : events \in Seq(U)
    BY DEF TypeOK
  <1>2. /\ Len(events \o added) = Len(events) + c
        /\ \A v \in 1..Len(events) : (events \o added)[v] = events[v]
        /\ \A v \in 1..c : (events \o added)[Len(events) + v] = added[v]
    <2>1. Len(events \o added) = Len(events) + c
      <3>1. events \in Seq(U \cup T) /\ added \in Seq(U \cup T)
        BY <1>1
      <3> QED  BY <3>1, ConcatProperties
    <2>2. \A v \in 1..Len(events) : (events \o added)[v] = events[v]
      BY <1>1
    <2>3. \A v \in 1..c : (events \o added)[Len(events) + v] = added[v]
      BY <1>1
    <2> QED  BY <2>1, <2>2, <2>3
  <1>3. Len(events) \in Nat
    BY <1>1
  <1>4. JournalGrows
    BY <1>2, <1>3 DEF JournalGrows
  <1>5. ASSUME NEW v \in 1..c
        PROVE  \E k \in 1..Len(events') : events'[k] = added[v]
    <2>1. Len(events) + v \in 1..Len(events')
      BY <1>2, <1>3
    <2> QED  BY <1>2, <2>1
  <1> QED  BY <1>4, <1>5

\* A head movement of one line appends its event.
LEMMA JournalOne ==
    ASSUME TypeOK, NEW l, NEW r, Journal(l, r)
    PROVE  JournalGrows /\ ToldOf(l, r)
  <1>1. PICK U : events \in Seq(U)
    BY DEF TypeOK
  <1>2. events' = Append(events, [revision |-> r, line |-> l])
    BY DEF Journal
  <1>3. /\ Len(events') = Len(events) + 1 /\ Len(events) \in Nat
        /\ \A k \in 1..Len(events) : events'[k] = events[k]
        /\ events'[Len(events) + 1] = [revision |-> r, line |-> l]
    BY <1>1, <1>2
  <1> QED  BY <1>3 DEF JournalGrows, ToldOf

\* An increasing enumeration of a finite set of numbers reaches each of them.
LEMMA EnumerationIsOnto ==
    ASSUME NEW S, IsFiniteSet(S), S \subseteq Nat, NEW f \in [1..Cardinality(S) -> S],
           \A v, w \in 1..Cardinality(S) : v < w => f[v] < f[w]
    PROVE  \A s \in S : \E v \in 1..Cardinality(S) : f[v] = s
  <1> DEFINE c == Cardinality(S)
             D == 1..c
  <1>1. c \in Nat
    BY FS_CardinalityType
  <1>2. IsFiniteSet(D) /\ Cardinality(D) = c
    <2>1. 1 \in Int /\ c \in Int
      BY <1>1
    <2> HIDE DEF c
    <2> QED  BY <1>1, <2>1, FS_Interval
  <1>3. \A v, w \in D : f[v] = f[w] => v = w
    <2> SUFFICES ASSUME NEW v \in D, NEW w \in D, f[v] = f[w] PROVE v = w
      OBVIOUS
    <2>1. f[v] \in Nat /\ f[w] \in Nat
      OBVIOUS
    <2>2. ~(v < w) /\ ~(w < v)
      BY <2>1
    <2> HIDE DEF c
    <2> QED  BY <1>1, <2>2
  <1>4. f \in Injection(D, S)
    <2> HIDE DEF c
    <2> QED  BY <1>3 DEF Injection, IsInjective, c
  <1>5. f \in Surjection(D, S)
    <2> HIDE DEF D
    <2> QED  BY <1>2, <1>4, FS_Injection
  <1> QED  BY <1>5 DEF Surjection

\* Every member of a batch has its event, unless its payload is the one its expected head had.
LEMMA BatchAnnounces ==
    ASSUME TypeOK, NEW e \in Engine, NEW b \in Batch, NEW order \in Orders,
           NEW expected \in [Members(order) -> Expectable],
           NEW content \in [Members(order) -> Payloads(1..(Len(revisions) + Len(order)))],
           CommitBatch(e, b, order, expected, content)
    PROVE  /\ JournalGrows
           /\ \A i \in 1..Len(order) :
                 \/ ToldOf(order[i], Len(revisions) + i)
                 \/ BatchUnchanged(expected[order[i]], content[order[i]])
  <1> DEFINE k == Len(order)
             n == Len(revisions)
             changed == {i \in 1..k : ~BatchUnchanged(expected[order[i]], content[order[i]])}
             c == Cardinality(changed)
  <1>1. PICK nth \in [1..Cardinality(changed) -> changed] :
           /\ \A v, w \in DOMAIN nth : v < w => nth[v] < nth[w]
           /\ events' = events \o [v \in DOMAIN nth |->
                 [revision |-> n + nth[v], line |-> order[nth[v]]]]
    BY DEF CommitBatch
  <1> DEFINE added == [v \in 1..c |-> [revision |-> n + nth[v], line |-> order[nth[v]]]]
             T == {added[v] : v \in 1..c}
  <1>2. k \in Nat
    BY OrderIsSequence
  <1>3. IsFiniteSet(changed) /\ changed \subseteq 1..k /\ c \in Nat
    <2> HIDE DEF k
    <2>1. 1 \in Int /\ k \in Int
      BY <1>2
    <2>2. IsFiniteSet(1..k)
      BY <2>1, FS_Interval
    <2>3. changed \in SUBSET (1..k)
      OBVIOUS
    <2> HIDE DEF changed
    <2> QED  BY <2>2, <2>3, FS_Subset, FS_CardinalityType
  <1>4. DOMAIN nth = 1..c /\ events' = events \o added
    BY <1>1
  <1>5. added \in [1..c -> T] /\ \A v \in 1..c :
           added[v] = [revision |-> n + nth[v], line |-> order[nth[v]]]
    OBVIOUS
  <1>6. \A i \in 1..k : i \in changed \/ BatchUnchanged(expected[order[i]], content[order[i]])
    OBVIOUS
  <1>7. \A i \in changed : \E v \in 1..c : nth[v] = i
    <2>1. \A v, w \in 1..c : v < w => nth[v] < nth[w]
      BY <1>1, <1>4
    <2>2. changed \subseteq Nat /\ nth \in [1..Cardinality(changed) -> changed]
      <3>1. nth \in [1..Cardinality(changed) -> changed]
        BY <1>1
      <3> HIDE DEF changed, k
      <3> QED  BY <1>2, <1>3, <3>1
    <2> HIDE DEF changed
    <2> QED  BY <1>3, <2>1, <2>2, EnumerationIsOnto
  <1> HIDE DEF added, T, c, changed, k, n
  <1>8. added \in Seq(T) /\ Len(added) = c
    BY <1>3, <1>5, SegmentIsSequence
  <1>9. /\ JournalGrows
        /\ \A v \in 1..c : \E j \in 1..Len(events') : events'[j] = added[v]
    BY <1>3, <1>4, <1>8, JournalAppends
  <1>10. ASSUME NEW i \in changed
         PROVE  ToldOf(order[i], n + i)
    <2>1. PICK v \in 1..c : nth[v] = i
      BY <1>7
    <2>2. added[v] = [revision |-> n + i, line |-> order[i]]
      BY <1>5, <2>1
    <2> QED  BY <1>9, <2>2 DEF ToldOf
  <1> QED  BY <1>6, <1>9, <1>10 DEF k, n

\* What a step announces, each kind of movement of heads.
LEMMA JournalStep ==
    ASSUME TypeOK, HistoryInv, RetentionInv, [Next]_vars
    PROVE  /\ JournalGrows
           /\ \/ observations' = observations
              \/ \E S \in SUBSET Line : \E revision : Announces(S, revision)
  <1>0. Len(events) \in Nat
    BY DEF TypeOK
  <1>1. events' = events => JournalGrows
    BY <1>0 DEF JournalGrows
  <1>2. ASSUME NEW e \in Engine, NEW l \in Line, NEW expected \in Expectable,
               NEW content \in Payloads(Revs), Commit(e, l, expected, content)
        PROVE  JournalGrows /\ \E S \in SUBSET Line : \E revision : Announces(S, revision)
    <2> DEFINE new == Len(revisions) + 1
    <2>1. /\ AdvanceHeads({l}, [x \in {l} |-> new], [x \in {l} |-> expected])
          /\ Journal(l, new)
      BY <1>2 DEF Commit
    <2>2. JournalGrows /\ ToldOf(l, new)
      BY <2>1, JournalOne
    <2>3. Announces({l}, [x \in {l} |-> new])
      <3> HIDE DEF new
      <3> QED  BY <2>1, <2>2 DEF Announces
    <2> QED  BY <2>2, <2>3
  <1>3. ASSUME NEW e \in Engine, NEW l \in Line, NEW r \in Revs,
               NEW expected \in Expectable, Accept(e, l, r, expected)
        PROVE  JournalGrows /\ \E S \in SUBSET Line : \E revision : Announces(S, revision)
    <2>1. /\ AdvanceHeads({l}, [x \in {l} |-> r], [x \in {l} |-> expected])
          /\ Journal(l, r)
      BY <1>3 DEF Accept
    <2>2. JournalGrows /\ ToldOf(l, r)
      BY <2>1, JournalOne
    <2>3. Announces({l}, [x \in {l} |-> r])
      BY <2>1, <2>2 DEF Announces
    <2> QED  BY <2>2, <2>3
  <1>4. ASSUME NEW e \in Engine, NEW b \in Batch, NEW order \in Orders,
               NEW expected \in [Members(order) -> Expectable],
               NEW content \in [Members(order) -> Payloads(1..(Len(revisions) + Len(order)))],
               CommitBatch(e, b, order, expected, content)
        PROVE  JournalGrows /\ \E S \in SUBSET Line : \E revision : Announces(S, revision)
    <2> DEFINE k == Len(order)
               n == Len(revisions)
               position == [l \in Members(order) |-> CHOOSE i \in 1..k : order[i] = l]
               target == [l \in Members(order) |-> n + position[l]]
    <2>1. AdvanceHeads(Members(order), target, expected)
      BY <1>4 DEF CommitBatch
    <2>2. Members(order) = {order[i] : i \in 1..k} /\ Members(order) \subseteq Line
      BY OrderIsSequence
    <2>3. \A l \in Members(order) :
             position[l] \in 1..k /\ order[position[l]] = l /\ target[l] = n + position[l]
      BY <2>2
    <2>4. /\ JournalGrows
          /\ \A i \in 1..k : \/ ToldOf(order[i], n + i)
                             \/ BatchUnchanged(expected[order[i]], content[order[i]])
      BY <1>4, BatchAnnounces
    <2>5. \A i \in 1..k : revisions'[n + i].content = content[order[i]]
      <3> SUFFICES ASSUME NEW i \in 1..k PROVE revisions'[n + i].content = content[order[i]]
        OBVIOUS
      <3>1. revisions'[n + i] = [line |-> order[i], parent |-> expected[order[i]],
                     content |-> content[order[i]], batch |-> b, time |-> now]
        BY <1>4, BatchRows
      <3> QED  BY <3>1
    <2>6. ASSUME NEW l \in Members(order), BatchUnchanged(expected[l], content[l])
          PROVE  SamePayload(l, target[l])
      <3> HIDE DEF k, n, position, target
      <3>1. /\ expected[l] # None /\ revisions[expected[l]].content = content[l]
            /\ heads[l] = expected[l]
        BY <1>4, <2>6 DEF BatchUnchanged, CommitBatch, CasHolds
      <3>2. /\ observations[l] # <<>>
            /\ observations[l][Len(observations[l])].revision = heads[l]
        BY <2>2, <3>1 DEF HistoryInv, HeadIsTip
      <3>3. heads[l] \in Revs
        BY <2>2, <3>1 DEF TypeOK
      <3>4. TableGrows
        BY StepShape
      <3>5. revisions'[heads[l]].content = content[l]
        BY <3>1, <3>3, <3>4 DEF TableGrows
      <3>6. revisions'[target[l]].content = content[l]
        BY <2>3, <2>5
      <3> QED  BY <3>2, <3>5, <3>6 DEF SamePayload
    <2>7. Announces(Members(order), target)
      <3> HIDE DEF k, n, position, target
      <3>1. \A l \in Members(order) : ToldOf(l, target[l]) \/ SamePayload(l, target[l])
        BY <2>3, <2>4, <2>6
      <3> QED  BY <2>1, <3>1 DEF Announces
    <2> HIDE DEF target
    <2> QED  BY <2>2, <2>4, <2>7
  <1>5. CASE ~(\/ \E e \in Engine, l \in Line, x \in Expectable, content \in Payloads(Revs) :
                     Commit(e, l, x, content)
               \/ \E e \in Engine, l \in Line, r \in Revs, x \in Expectable : Accept(e, l, r, x)
               \/ \E e \in Engine, b \in Batch, order \in Orders :
                  \E x \in [Members(order) -> Expectable],
                     content \in [Members(order) -> Payloads(1..(Len(revisions) + Len(order)))] :
                        CommitBatch(e, b, order, x, content))
    <2>1. UNCHANGED <<events, observations>>
      BY <1>5 DEF Next, vars, ClockMoves, Sample, Reopen, Receive, RetainSnapshots,
           ReleaseRetentionRoot, ReleaseBranch, PlanRetention, CompactRetention
    <2> QED  BY <1>1, <2>1
  <1> QED  BY <1>2, <1>3, <1>4, <1>5

\* The i-th observation of l changed nothing, or the journal tells of it.
LEMMA JournalInductive ==
    TypeOK /\ HistoryInv /\ RetentionInv /\ EveryChangeHasAnEvent /\ [Next]_vars =>
        EveryChangeHasAnEvent'
  <1> SUFFICES ASSUME TypeOK, HistoryInv, RetentionInv, EveryChangeHasAnEvent, [Next]_vars,
                      NEW l \in Line, NEW i \in 1..Len(observations'[l]),
                      \/ i = 1
                      \/ revisions'[observations'[l][i].revision].content #
                            revisions'[observations'[l][i - 1].revision].content
               PROVE  ToldOf(l, observations'[l][i].revision)
    BY DEF EveryChangeHasAnEvent, ToldOf
  <1> DEFINE old == observations[l]
             n == Len(old)
  <1>1. TableGrows /\ JournalGrows
    BY StepShape, JournalStep
  <1>2. n \in Nat /\ Len(events) \in Nat /\ \A j \in 1..n : old[j].revision \in Revs
    BY DEF TypeOK, RetentionInv, ReferencesExist, Known
  <1>3. ASSUME i \in 1..n, observations'[l][i] = old[i],
               i # 1 => observations'[l][i - 1] = old[i - 1]
        PROVE  ToldOf(l, observations'[l][i].revision)
    <2>1. i # 1 => i - 1 \in 1..n
      BY <1>2, <1>3
    <2>2. \/ i = 1
          \/ revisions[old[i].revision].content # revisions[old[i - 1].revision].content
      <3>1. revisions'[old[i].revision] = revisions[old[i].revision]
        BY <1>1, <1>2, <1>3 DEF TableGrows
      <3>2. i # 1 => revisions'[old[i - 1].revision] = revisions[old[i - 1].revision]
        BY <1>1, <1>2, <2>1 DEF TableGrows
      <3> QED  BY <1>3, <3>1, <3>2
    <2>3. \E k \in 1..Len(events) : events[k] = [revision |-> old[i].revision, line |-> l]
      BY <1>3, <2>2 DEF EveryChangeHasAnEvent
    <2>4. PICK k \in 1..Len(events) : events[k] = [revision |-> old[i].revision, line |-> l]
      BY <2>3
    <2>5. k \in 1..Len(events') /\ events'[k] = events[k]
      <3>1. Len(events') \in Nat
        BY NextTypeOK DEF TypeOK
      <3> QED  BY <1>1, <1>2, <2>4, <3>1 DEF JournalGrows
    <2> QED  BY <1>3, <2>4, <2>5 DEF ToldOf
  <1>4. CASE observations' = observations
    BY <1>3, <1>4
  <1>5. ASSUME NEW S \in SUBSET Line, NEW revision, Announces(S, revision)
        PROVE  ToldOf(l, observations'[l][i].revision)
    <2>1. PICK basis : AdvanceHeads(S, revision, basis)
      BY <1>5 DEF Announces
    <2>2. CASE l \notin S
      <3>1. observations'[l] = old
        BY <2>1, <2>2, MovementAppends
      <3> QED  BY <1>3, <3>1
    <2>3. CASE l \in S
      <3> DEFINE row == [revision |-> revision[l], time |-> now, basis |-> basis[l]]
      <3>1. Appends(l, row)
        BY <2>1, <2>3, MovementAppends
      <3>2. row.revision = revision[l]
        OBVIOUS
      <3> HIDE DEF row
      <3>3. /\ Len(observations'[l]) = n + 1
            /\ \A j \in 1..n : observations'[l][j] = old[j]
            /\ observations'[l][n + 1] = row
        BY <3>1 DEF Appends
      <3> HIDE DEF n, old
      <3>4. CASE i \in 1..n
        <4>1. i # 1 => i - 1 \in 1..n
          BY <1>2, <3>4
        <4> QED  BY <1>3, <3>3, <3>4, <4>1
      <3>5. CASE i = n + 1
        <4>1. observations'[l][i].revision = revision[l]
          BY <3>2, <3>3, <3>5
        <4>2. ~SamePayload(l, revision[l])
          <5>1. i = 1 => old = <<>>
            BY <1>2, <3>5 DEF n, old, TypeOK
          <5>2. i # 1 => n \in 1..n /\ i - 1 = n
            BY <1>2, <3>5
          <5>3. i # 1 => observations'[l][i - 1] = old[n]
            BY <3>3, <5>2
          <5> QED  BY <4>1, <5>1, <5>3 DEF SamePayload, n, old
        <4> QED  BY <1>5, <2>3, <4>1, <4>2 DEF Announces
      <3> QED  BY <1>2, <3>3, <3>4, <3>5
    <2> QED  BY <2>2, <2>3
  <1> QED  BY <1>4, <1>5, JournalStep

\* A subscriber is told of every change: whenever a line's payload differs from the one before
\* it, the journal holds an event of that line and revision, although a batch writes rows
\* for members it does not announce (commit, commit_batch, accept_revision).
THEOREM EveryChangeTold == Spec => []EveryChangeHasAnEvent
  <1> DEFINE I == TypeOK /\ HistoryInv /\ RetentionInv /\ EveryChangeHasAnEvent
  <1>1. Init => I
    BY InitTypeOK, HistoryInit, RetentionInit DEF Init, EveryChangeHasAnEvent
  <1>2. I /\ [Next]_vars => I'
    BY NextTypeOK, HistoryStep, RetentionStep, JournalInductive
  <1>3. I => EveryChangeHasAnEvent
    OBVIOUS
  <1> QED  BY <1>1, <1>2, <1>3, PTL DEF Spec
=============================================================================
