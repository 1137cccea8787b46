------------------------ MODULE ViewSchedule_proofs -------------------------
(***************************************************************************)
(* Theorems of ViewSchedule: no notice is lost, and a view certified as    *)
(* current is what a recomputation gives, for any lines, links and views.  *)
(***************************************************************************)
EXTENDS ViewSchedule, SequenceTheorems, FiniteSetTheorems, TLAPS

(***************************************************************************)
(* Queues: what the operations on a sequence do to the set of its elements *)
(* and that each keeps a queue without repetition.                         *)
(***************************************************************************)

\* The end of a queue takes one more element (enqueue_view).
LEMMA AppendToQueue ==
    ASSUME NEW S, NEW s \in Seq(S), NEW x \in S
    PROVE  /\ Append(s, x) \in Seq(S)
           /\ ToSet(Append(s, x)) = ToSet(s) \cup {x}
           /\ IsInjective(s) /\ x \notin ToSet(s) => IsInjective(Append(s, x))
<1> DEFINE t == Append(s, x)
<1>1. /\ Len(s) \in Nat /\ DOMAIN s = 1..Len(s) /\ DOMAIN t = 1..Len(s) + 1
      /\ t \in Seq(S) /\ t[Len(s) + 1] = x /\ \A i \in 1..Len(s) : t[i] = s[i]
  OBVIOUS
<1> HIDE DEF t
<1>2. ToSet(t) \subseteq ToSet(s) \cup {x}
  BY <1>1 DEF ToSet
<1>3. ToSet(s) \subseteq ToSet(t) /\ x \in ToSet(t)
  BY <1>1 DEF ToSet
<1>4. ASSUME IsInjective(s), x \notin ToSet(s) PROVE IsInjective(t)
  <2>1. \A i \in 1..Len(s) : s[i] # x
    BY <1>1, <1>4 DEF ToSet
  <2> QED BY <1>1, <1>4, <2>1 DEF IsInjective
<1> QED BY <1>1, <1>2, <1>3, <1>4 DEF t

\* The first element of a queue leaves it (drain_view_work_atomic).
LEMMA TailOfQueue ==
    ASSUME NEW S, NEW s \in Seq(S), s # <<>>
    PROVE  /\ Tail(s) \in Seq(S) /\ Head(s) \in ToSet(s)
           /\ ToSet(Tail(s)) \subseteq ToSet(s)
           /\ ToSet(s) \subseteq ToSet(Tail(s)) \cup {Head(s)}
           /\ IsInjective(s) => IsInjective(Tail(s))
<1> DEFINE t == Tail(s)
<1>1. /\ Len(s) \in Nat \ {0} /\ DOMAIN s = 1..Len(s) /\ DOMAIN t = 1..Len(s) - 1
      /\ t \in Seq(S) /\ Head(s) = s[1] /\ \A i \in 1..Len(s) - 1 : t[i] = s[i + 1]
  OBVIOUS
<1> HIDE DEF t
<1>2. ToSet(t) \subseteq ToSet(s) /\ Head(s) \in ToSet(s)
  BY <1>1 DEF ToSet
<1>3. ASSUME NEW i \in DOMAIN s PROVE s[i] \in ToSet(t) \cup {Head(s)}
  <2>1. CASE i = 1
    BY <1>1, <2>1
  <2>2. CASE i # 1
    <3>1. i - 1 \in DOMAIN t /\ t[i - 1] = s[i]
      BY <1>1, <2>2
    <3> QED BY <3>1 DEF ToSet
  <2> QED BY <2>1, <2>2
<1>4. ASSUME IsInjective(s) PROVE IsInjective(t)
  <2> SUFFICES ASSUME NEW i \in DOMAIN t, NEW j \in DOMAIN t, t[i] = t[j] PROVE i = j
    BY DEF IsInjective
  <2>1. i + 1 \in DOMAIN s /\ j + 1 \in DOMAIN s /\ s[i + 1] = s[j + 1]
    BY <1>1
  <2>2. i + 1 = j + 1
    BY <1>4, <2>1 DEF IsInjective
  <2> QED BY <1>1, <2>2
<1> QED BY <1>1, <1>2, <1>3, <1>4 DEF t, ToSet

\* A queue takes the elements of another that has none in common with it (scan_view_work_inner).
LEMMA JoinQueues ==
    ASSUME NEW S, NEW s \in Seq(S), NEW t \in Seq(S)
    PROVE  /\ s \o t \in Seq(S)
           /\ ToSet(s \o t) = ToSet(s) \cup ToSet(t)
           /\ IsInjective(s) /\ IsInjective(t) /\ ToSet(s) \cap ToSet(t) = {} => IsInjective(s \o t)
<1> DEFINE u == s \o t
<1>1. /\ Len(s) \in Nat /\ Len(t) \in Nat /\ u \in Seq(S)
      /\ DOMAIN s = 1..Len(s) /\ DOMAIN t = 1..Len(t) /\ DOMAIN u = 1..Len(s) + Len(t)
      /\ \A i \in 1..Len(s) : u[i] = s[i]
      /\ \A i \in 1..Len(t) : u[Len(s) + i] = t[i]
  OBVIOUS
<1> HIDE DEF u
<1>2. ASSUME NEW i \in DOMAIN u
      PROVE  \/ i \in DOMAIN s /\ u[i] = s[i]
             \/ i - Len(s) \in DOMAIN t /\ u[i] = t[i - Len(s)]
  <2>1. CASE i <= Len(s)
    BY <1>1, <2>1
  <2>2. CASE i > Len(s)
    <3>1. i - Len(s) \in 1..Len(t) /\ Len(s) + (i - Len(s)) = i
      BY <1>1, <2>2
    <3> QED BY <1>1, <3>1
  <2> QED BY <1>1, <2>1, <2>2
<1>3. ToSet(u) \subseteq ToSet(s) \cup ToSet(t)
  BY <1>2 DEF ToSet
<1>4. ToSet(s) \subseteq ToSet(u)
  BY <1>1 DEF ToSet
<1>5. ToSet(t) \subseteq ToSet(u)
  <2> SUFFICES ASSUME NEW i \in DOMAIN t PROVE t[i] \in ToSet(u)
    BY DEF ToSet
  <2>1. Len(s) + i \in DOMAIN u /\ u[Len(s) + i] = t[i]
    BY <1>1
  <2> QED BY <2>1 DEF ToSet
<1>6. ASSUME IsInjective(s), IsInjective(t), ToSet(s) \cap ToSet(t) = {} PROVE IsInjective(u)
  <2> SUFFICES ASSUME NEW i \in DOMAIN u, NEW j \in DOMAIN u, u[i] = u[j] PROVE i = j
    BY DEF IsInjective
  <2>1. CASE i \in DOMAIN s /\ u[i] = s[i] /\ j \in DOMAIN s /\ u[j] = s[j]
    BY <1>6, <2>1 DEF IsInjective
  <2>2. CASE /\ i - Len(s) \in DOMAIN t /\ u[i] = t[i - Len(s)]
             /\ j - Len(s) \in DOMAIN t /\ u[j] = t[j - Len(s)]
    <3>1. i - Len(s) = j - Len(s)
      BY <1>6, <2>2 DEF IsInjective
    <3> QED BY <1>1, <3>1
  <2>3. CASE i \in DOMAIN s /\ u[i] = s[i] /\ j - Len(s) \in DOMAIN t /\ u[j] = t[j - Len(s)]
    BY <1>6, <2>3 DEF ToSet
  <2>4. CASE j \in DOMAIN s /\ u[j] = s[j] /\ i - Len(s) \in DOMAIN t /\ u[i] = t[i - Len(s)]
    BY <1>6, <2>4 DEF ToSet
  <2> QED BY <1>2, <2>1, <2>2, <2>3, <2>4
<1> QED BY <1>1, <1>3, <1>4, <1>5, <1>6 DEF u

\* An element of a queue moves to its end (rotate_failed_view).
LEMMA RotateQueue ==
    ASSUME NEW S, NEW s \in Seq(S), NEW i \in 1..Len(s)
    PROVE  LET t == Append(RemoveAt(s, i), s[i])
           IN  t \in Seq(S) /\ ToSet(t) = ToSet(s) /\ (IsInjective(s) => IsInjective(t))
<1> DEFINE front == SubSeq(s, 1, i - 1)
           back == SubSeq(s, i + 1, Len(s))
           rest == front \o back
           t == Append(rest, s[i])
<1>1. PICK n \in Nat, p \in Int : /\ n = Len(s) /\ DOMAIN s = 1..n /\ p = i /\ 1 <= p /\ p <= n
                                 /\ \A j \in 1..n : s[j] \in S
  OBVIOUS
<1>2. /\ front \in Seq(S) /\ Len(front) = p - 1 /\ \A j \in 1..p - 1 : front[j] = s[j]
  BY <1>1, SubSeqProperties
<1>3. /\ back \in Seq(S) /\ Len(back) = n - p /\ \A j \in 1..n - p : back[j] = s[p + j]
  BY <1>1, SubSeqProperties
<1> HIDE DEF front, back
<1>4. /\ rest \in Seq(S) /\ Len(rest) = n - 1
      /\ \A j \in Int : 1 <= j /\ j < p => rest[j] = s[j]
      /\ \A j \in Int : p <= j /\ j < n => rest[j] = s[j + 1]
  <2>0. /\ rest \in Seq(S) /\ Len(rest) = Len(front) + Len(back)
        /\ \A j \in 1..Len(front) + Len(back) :
              rest[j] = IF j <= Len(front) THEN front[j] ELSE back[j - Len(front)]
    BY <1>2, <1>3, ConcatProperties
  <2>1. /\ rest \in Seq(S) /\ Len(rest) = (p - 1) + (n - p)
        /\ \A j \in 1..(p - 1) + (n - p) : rest[j] = IF j <= p - 1 THEN front[j] ELSE back[j - (p - 1)]
    <3> HIDE DEF rest
    <3> QED BY <1>2, <1>3, <2>0
  <2>2. (p - 1) + (n - p) = n - 1
    BY <1>1
  <2> HIDE DEF rest
  <2>3. ASSUME NEW j \in Int, 1 <= j, j < p PROVE rest[j] = s[j]
    <3>1. j \in 1..(p - 1) + (n - p) /\ j \in 1..p - 1 /\ j <= p - 1
      BY <1>1, <2>3
    <3> QED BY <1>2, <2>1, <3>1
  <2>4. ASSUME NEW j \in Int, p <= j, j < n PROVE rest[j] = s[j + 1]
    <3>1. j \in 1..(p - 1) + (n - p) /\ ~(j <= p - 1)
      BY <1>1, <2>4
    <3>2. j - (p - 1) \in 1..n - p /\ p + (j - (p - 1)) = j + 1
      BY <1>1, <2>4
    <3> QED BY <1>3, <2>1, <3>1, <3>2
  <2> QED BY <2>1, <2>2, <2>3, <2>4
<1> HIDE DEF rest
<1>5. /\ t \in Seq(S) /\ DOMAIN t = 1..n /\ t[n] = s[p]
      /\ \A j \in Int : 1 <= j /\ j < p => t[j] = s[j]
      /\ \A j \in Int : p <= j /\ j < n => t[j] = s[j + 1]
  <2>1. /\ t \in Seq(S) /\ Len(t) = Len(rest) + 1 /\ t[Len(rest) + 1] = s[i]
        /\ \A j \in 1..Len(rest) : t[j] = rest[j]
    BY <1>1, <1>4, AppendProperties
  <2>2. Len(rest) + 1 = n
    BY <1>1, <1>4
  <2>3. DOMAIN t = 1..n
    BY <2>1, <2>2
  <2> HIDE DEF t
  <2>4. ASSUME NEW j \in Int, 1 <= j, j < n PROVE t[j] = rest[j]
    BY <1>1, <1>4, <2>1, <2>4
  <2>5. ASSUME NEW j \in Int, 1 <= j, j < p PROVE t[j] = s[j]
    BY <1>1, <1>4, <2>4, <2>5
  <2>6. ASSUME NEW j \in Int, p <= j, j < n PROVE t[j] = s[j + 1]
    BY <1>1, <1>4, <2>4, <2>6
  <2> QED BY <1>1, <2>1, <2>2, <2>3, <2>5, <2>6
<1> HIDE DEF t
<1>6. ASSUME NEW j \in 1..n
      PROVE  \E m \in 1..n : /\ t[j] = s[m]
                             /\ \/ (j < p /\ m = j)
                                \/ (p <= j /\ j < n /\ m = j + 1)
                                \/ (j = n /\ m = p)
  <2>1. CASE j < p
    <3>1. t[j] = s[j]
      BY <1>5, <2>1
    <3> QED BY <2>1, <3>1
  <2>2. CASE p <= j /\ j < n
    <3>1. j + 1 \in 1..n
      BY <1>1, <2>2
    <3>2. t[j] = s[j + 1]
      BY <1>1, <1>5, <2>2
    <3> QED BY <2>2, <3>1, <3>2
  <2>3. CASE j = n
    <3>1. p \in 1..n
      BY <1>1
    <3> QED BY <1>5, <2>3, <3>1
  <2> QED BY <1>1, <2>1, <2>2, <2>3
<1>7. ToSet(t) \subseteq ToSet(s)
  <2> SUFFICES ASSUME NEW j \in 1..n PROVE t[j] \in ToSet(s)
    BY <1>5 DEF ToSet
  <2>1. \A k \in 1..n : s[k] \in ToSet(s)
    BY <1>1 DEF ToSet
  <2> QED BY <1>1, <1>6, <2>1
<1>8. ASSUME NEW k \in 1..n PROVE s[k] \in ToSet(t)
  <2>1. \A j \in 1..n : t[j] \in ToSet(t)
    BY <1>5 DEF ToSet
  <2>2. CASE k < p
    BY <1>1, <1>5, <2>1, <2>2
  <2>3. CASE k = p
    BY <1>1, <1>5, <2>1, <2>3
  <2>4. CASE k > p
    <3>1. k - 1 \in Int /\ p <= k - 1 /\ k - 1 < n /\ (k - 1) + 1 = k /\ k - 1 \in 1..n
      BY <1>1, <2>4
    <3>2. t[k - 1] = s[k]
      BY <1>5, <3>1
    <3> QED BY <2>1, <3>1, <3>2
  <2> QED BY <1>1, <2>2, <2>3, <2>4
<1>9. ASSUME IsInjective(s) PROVE IsInjective(t)
  <2> SUFFICES ASSUME NEW j \in 1..n, NEW k \in 1..n, t[j] = t[k] PROVE j = k
    BY <1>5 DEF IsInjective
  <2>1. \A a, b \in 1..n : s[a] = s[b] => a = b
    BY <1>1, <1>9 DEF IsInjective
  <2>2. PICK m \in 1..n : /\ t[j] = s[m]
                          /\ \/ (j < p /\ m = j)
                             \/ (p <= j /\ j < n /\ m = j + 1)
                             \/ (j = n /\ m = p)
    BY <1>6
  <2>3. PICK l \in 1..n : /\ t[k] = s[l]
                          /\ \/ (k < p /\ l = k)
                             \/ (p <= k /\ k < n /\ l = k + 1)
                             \/ (k = n /\ l = p)
    BY <1>6
  <2>4. m = l
    BY <2>1, <2>2, <2>3
  <2> QED BY <1>1, <2>2, <2>3, <2>4
<1>10. ToSet(t) = ToSet(s)
  BY <1>1, <1>7, <1>8 DEF ToSet
<1> QED BY <1>5, <1>9, <1>10 DEF t, rest, front, back, RemoveAt

(***************************************************************************)
(* Arithmetic of ticks, and the order in which a fan-out notifies.         *)
(***************************************************************************)

\* The later of two ticks is one of them and not before either (drain_view_work_atomic).
LEMMA LaterTick ==
    ASSUME NEW a \in Nat, NEW b \in Nat
    PROVE  Max({a, b}) \in {a, b} /\ Max({a, b}) >= a /\ Max({a, b}) >= b
BY DEF Max

\* The views a fan-out reaches come before those it does not (scan_view_work_inner).
LEMMA FanOutIsOrdered ==
    ASSUME NEW V \in SUBSET Nat, IsFiniteSet(V), NEW n \in Nat,
           NEW v \in V \ FirstOf(V, n), NEW last \in FirstOf(V, n)
    PROVE  v > last
<1> SUFFICES ASSUME ~(v > last) PROVE FALSE
  OBVIOUS
<1> DEFINE below(u) == {w \in V : w < u}
<1>1. last \in V /\ Cardinality(below(last)) < n /\ ~(Cardinality(below(v)) < n)
  BY DEF FirstOf
<1>2. below(v) \subseteq below(last) /\ below(last) \subseteq V
  <2>1. PICK a \in Nat, b \in Nat : a = v /\ b = last /\ a <= b
    BY <1>1
  <2>2. \A w \in V : w \in Nat /\ (w < a => w < b)
    BY <2>1
  <2> QED BY <2>1, <2>2
<1>3. IsFiniteSet(below(last))
  BY <1>2, FS_Subset
<1>4. Cardinality(below(v)) <= Cardinality(below(last)) /\ IsFiniteSet(below(v))
  BY <1>2, <1>3, FS_Subset
<1>5. Cardinality(below(v)) \in Nat /\ Cardinality(below(last)) \in Nat
  BY <1>3, <1>4, FS_CardinalityType
<1> QED BY <1>1, <1>4, <1>5

(***************************************************************************)
(* What an evaluation reads.  At is ComputeView under given heads.         *)
(***************************************************************************)

Heads == [Line -> Revision \cup {None}]
LinkedAt(h, L) == UNION {Links[l][h[l]] : l \in {k \in L : h[k] # None}}
ReadAt(h, v) == Source[v] \cup LinkedAt(h, Source[v])
DependAt(h, v) == ReadAt(h, v) \cup LinkedAt(h, ReadAt(h, v))
At(h, v, tick) ==
    [tick |-> tick, reads |-> [l \in ReadAt(h, v) |-> h[l]],
     dependencies |-> [l \in DependAt(h, v) |-> h[l]]]

\* An evaluation is determined by the heads of the store (compute_view_with_sources).
LEMMA ComputeIsAt ==
    ASSUME NEW v, NEW tick PROVE ComputeView(v, tick) = At(heads, v, tick)
BY DEF ComputeView, At, ReadAt, DependAt, LinkedAt, Linked, HeadsOf

\* Live links lead to lines of the store (query_refs).
LEMMA LinksAreLines ==
    ASSUME NEW h \in Heads, NEW v \in View
    PROVE  Source[v] \subseteq ReadAt(h, v) /\ ReadAt(h, v) \subseteq DependAt(h, v) /\ DependAt(h, v) \subseteq Line
<1>1. ASSUME NEW L \in SUBSET Line PROVE LinkedAt(h, L) \subseteq Line
  <2> SUFFICES ASSUME NEW l \in L, h[l] # None PROVE Links[l][h[l]] \subseteq Line
    BY DEF LinkedAt
  <2>1. l \in Line /\ h[l] \in Revision
    BY DEF Heads
  <2> QED BY <2>1, ViewsAssumption
<1>2. Source[v] \in SUBSET Line
  BY ViewsAssumption
<1>3. ReadAt(h, v) \in SUBSET Line
  BY <1>1, <1>2 DEF ReadAt
<1> QED BY <1>1, <1>3 DEF ReadAt, DependAt

\* Heads that agree on what an evaluation read give the same evaluation (compute_view_with_sources).
LEMMA SameHeads ==
    ASSUME NEW h, NEW g, NEW v, \A l \in ReadAt(h, v) : h[l] = g[l]
    PROVE  ReadAt(h, v) = ReadAt(g, v) /\ DependAt(h, v) = DependAt(g, v)
<1>1. ASSUME NEW L \in SUBSET ReadAt(h, v) PROVE LinkedAt(h, L) = LinkedAt(g, L)
  <2>1. {k \in L : h[k] # None} = {k \in L : g[k] # None} /\ \A k \in L : h[k] = g[k]
    OBVIOUS
  <2> QED BY <2>1 DEF LinkedAt
<1>2. Source[v] \in SUBSET ReadAt(h, v)
  BY DEF ReadAt
<1>3. ReadAt(h, v) = ReadAt(g, v)
  BY <1>1, <1>2 DEF ReadAt
<1> QED BY <1>1, <1>3 DEF DependAt

(***************************************************************************)
(* The parts of TypeOK, and what the safety theorems rest on: a view is    *)
(* what an evaluation gave under some heads, and the journal names stored  *)
(* revisions.                                                              *)
(***************************************************************************)

StoreOK ==
    /\ stored \in [Line -> SUBSET Revision]
    /\ heads \in Heads /\ \A l \in Line : heads[l] \in stored[l] \cup {None}
    /\ events \in Seq([line : Line, revision : Revision])
    /\ epoch \in 0..MaxEpoch

LiveRow(v) ==
    /\ live[v].tick \in 0..MaxTick /\ (v \notin Ticking => live[v].tick = 0)
    /\ DOMAIN live[v].reads \subseteq DOMAIN live[v].dependencies
    /\ {l \in Line : <<v, l>> \in subscribed} = DOMAIN live[v].dependencies

LiveOK ==
    /\ enrolled \subseteq DOMAIN live /\ DOMAIN live \subseteq View
    /\ \A v \in DOMAIN live : LiveRow(v)
    /\ \A v \in View \ DOMAIN live, l \in Line : <<v, l>> \notin subscribed

OwnerOK ==
    IF owner = None
    THEN Scheduled = {}
    ELSE /\ owner \in [sequence : 0..Len(events), page : View \cup {0}, epoch : 0..epoch]
         /\ owner.page # 0 => owner.sequence # 0

QueueOK ==
    /\ Scheduled \subseteq enrolled /\ requested \in [Scheduled -> 0..MaxTick]
    /\ \A v \in Scheduled \ Ticking : requested[v] = 0
    /\ IsInjective(pending) /\ ToSet(pending) \subseteq Scheduled /\ pending \in Seq(View)
    /\ failures \subseteq Scheduled

DerivedRow(v) ==
    \E h \in Heads : live[v] = At(h, v, live[v].tick) /\ \A l \in Source[v] : h[l] # None

Derived == \A v \in DOMAIN live : DerivedRow(v)
Stored == \A i \in DOMAIN events : events[i].revision \in stored[events[i].line]

IInv == StoreOK /\ LiveOK /\ OwnerOK /\ QueueOK /\ Derived /\ Stored

\* The invariant has the types of all tables among its parts.
LEMMA InvariantIsTyped == IInv => TypeOK
BY DEF IInv, StoreOK, LiveRow, LiveOK, OwnerOK, QueueOK, TypeOK, Heads

\* What a view depends on are lines of the store, those its sources are among (register_view_inner).
LEMMA RowOfView ==
    ASSUME NEW v \in View, NEW tick \in 0..MaxTick, v \notin Ticking => tick = 0,
           heads \in Heads, Computable(v)
    PROVE  /\ ComputeView(v, tick) = At(heads, v, tick)
           /\ ComputeView(v, tick).tick = tick
           /\ DOMAIN ComputeView(v, tick).reads = ReadAt(heads, v)
           /\ DOMAIN ComputeView(v, tick).dependencies = DependAt(heads, v)
           /\ \A l \in DependAt(heads, v) : ComputeView(v, tick).dependencies[l] = heads[l]
           /\ ReadAt(heads, v) \subseteq DependAt(heads, v) /\ DependAt(heads, v) \subseteq Line
           /\ \A l \in Source[v] : heads[l] # None
BY ComputeIsAt, LinksAreLines DEF At, Computable

\* After a refresh the views of V are as evaluated under the heads of the store and subscribed to
\* what they depend on; the others are as before (refresh_view_work_inner, record_view_change).
LEMMA RefreshEffect ==
    ASSUME LiveOK, Derived, heads \in Heads, NEW V \in SUBSET (DOMAIN live), NEW tick,
           \A v \in V : tick[v] \in 0..MaxTick /\ (v \notin Ticking => tick[v] = 0),
           RefreshAll(V, tick)
    PROVE  /\ LiveOK' /\ Derived' /\ DOMAIN live' = DOMAIN live /\ enrolled' = enrolled
           /\ \A v \in DOMAIN live \ V : live'[v] = live[v]
           /\ \A v \in DOMAIN live \ V : {l \in Line : <<v, l>> \in subscribed'} = {l \in Line : <<v, l>> \in subscribed}
           /\ \A v \in V : live'[v].tick = tick[v]
           /\ \A v \in V : \A l \in DOMAIN live'[v].dependencies : live'[v].dependencies[l] = heads[l]
<1> DEFINE new == [v \in DOMAIN live |-> IF v \in V THEN ComputeView(v, tick[v]) ELSE live[v]]
           changed == {v \in V : new[v].reads # live[v].reads \/ new[v].tick # live[v].tick}
<1>1. /\ live' = new /\ enrolled' = enrolled /\ \A v \in V : Computable(v)
      /\ subscribed' = {s \in subscribed : s[1] \notin changed}
                       \cup UNION {Subscriptions(v, new[v]) : v \in changed}
  BY DEF RefreshAll
<1>2. DOMAIN live' = DOMAIN live /\ \A v \in DOMAIN live : live'[v] = new[v]
  BY <1>1
<1>3. \A v \in V : new[v] = ComputeView(v, tick[v])
  OBVIOUS
<1>4. \A v \in DOMAIN live \ V : new[v] = live[v]
  OBVIOUS
<1> HIDE DEF new
<1>5. ASSUME NEW v \in V
      PROVE  /\ new[v] = At(heads, v, tick[v]) /\ new[v].tick = tick[v]
             /\ DOMAIN new[v].reads = ReadAt(heads, v) /\ DOMAIN new[v].dependencies = DependAt(heads, v)
             /\ \A l \in DependAt(heads, v) : new[v].dependencies[l] = heads[l]
             /\ ReadAt(heads, v) \subseteq DependAt(heads, v) /\ DependAt(heads, v) \subseteq Line
             /\ \A l \in Source[v] : heads[l] # None
  <2>1. v \in View /\ Computable(v)
    BY <1>1 DEF LiveOK
  <2> QED BY <1>3, <2>1, RowOfView
<1>6. ASSUME NEW v \in changed PROVE {l \in Line : <<v, l>> \in subscribed'} = DOMAIN new[v].dependencies
  <2>1. DOMAIN new[v].dependencies \subseteq Line
    BY <1>5
  <2>2. \A l \in Line : <<v, l>> \in subscribed' <=> l \in DOMAIN new[v].dependencies
    BY <1>1 DEF Subscriptions
  <2> QED BY <2>1, <2>2
<1>7. ASSUME NEW v \in DOMAIN live \ changed
      PROVE  {l \in Line : <<v, l>> \in subscribed'} = {l \in Line : <<v, l>> \in subscribed}
  BY <1>1 DEF Subscriptions
<1>8. ASSUME NEW v \in V \ changed PROVE DOMAIN new[v].dependencies = DOMAIN live[v].dependencies
  <2>1. PICK h \in Heads : live[v] = At(h, v, live[v].tick)
    BY DEF Derived, DerivedRow
  <2>2. At(heads, v, tick[v]).reads = At(h, v, live[v].tick).reads
    BY <1>5, <2>1
  <2>3. [l \in ReadAt(heads, v) |-> heads[l]] = [l \in ReadAt(h, v) |-> h[l]]
    BY <2>2 DEF At
  <2>4. \A l \in ReadAt(h, v) : h[l] = heads[l]
    BY <2>3
  <2>5. DependAt(h, v) = DependAt(heads, v)
    BY <2>4, SameHeads
  <2>6. DOMAIN live[v].dependencies = DependAt(h, v)
    BY <2>1 DEF At
  <2> QED BY <1>5, <2>5, <2>6
<1>9. ASSUME NEW v \in DOMAIN live PROVE LiveRow(v)'
  <2>1. CASE v \in changed
    BY <1>2, <1>5, <1>6, <2>1 DEF LiveRow
  <2>2. CASE v \in V \ changed
    <3>1. {l \in Line : <<v, l>> \in subscribed'} = DOMAIN new[v].dependencies
      BY <1>7, <1>8, <2>2 DEF LiveOK, LiveRow
    <3> QED BY <1>2, <1>5, <2>2, <3>1 DEF LiveRow
  <2>3. CASE v \notin V
    BY <1>2, <1>4, <1>7, <2>3 DEF LiveOK, LiveRow
  <2> QED BY <2>1, <2>2, <2>3
<1>10. ASSUME NEW v \in DOMAIN live PROVE DerivedRow(v)'
  <2>1. CASE v \in V
    BY <1>2, <1>5, <2>1 DEF DerivedRow
  <2>2. CASE v \notin V
    BY <1>2, <1>4, <2>2 DEF Derived, DerivedRow
  <2> QED BY <2>1, <2>2
<1>11. ASSUME NEW v \in View \ DOMAIN live, NEW l \in Line PROVE <<v, l>> \notin subscribed'
  <2>1. changed \subseteq DOMAIN live
    OBVIOUS
  <2> HIDE DEF changed
  <2> QED BY <1>1, <2>1 DEF Subscriptions, LiveOK
<1>12. LiveOK'
  BY <1>1, <1>2, <1>9, <1>11 DEF LiveOK
<1> QED BY <1>1, <1>2, <1>4, <1>5, <1>7, <1>10, <1>12 DEF Derived

(***************************************************************************)
(* The invariant under the steps of the store.                             *)
(***************************************************************************)

\* A change is told by one more row (commit_storage_inner).
LEMMA JournalGrows ==
    ASSUME events \in Seq([line : Line, revision : Revision]), NEW l \in Line, NEW r \in Revision, Journal(l, r)
    PROVE  /\ events' \in Seq([line : Line, revision : Revision])
           /\ Len(events) \in Nat /\ Len(events') = Len(events) + 1
           /\ DOMAIN events = 1..Len(events) /\ DOMAIN events' = 1..Len(events) + 1
           /\ \A i \in DOMAIN events : events'[i] = events[i] /\ events[i].line \in Line
           /\ events'[Len(events) + 1] = [line |-> l, revision |-> r]
<1>1. [line |-> l, revision |-> r] \in [line : Line, revision : Revision]
  OBVIOUS
<1>2. /\ Len(events) \in Nat /\ DOMAIN events = 1..Len(events)
      /\ \A i \in DOMAIN events : events[i] \in [line : Line, revision : Revision]
  <2> DEFINE Row == [line : Line, revision : Revision]
  <2>1. events \in Seq(Row)
    OBVIOUS
  <2> HIDE DEF Row
  <2>2. Len(events) \in Nat /\ DOMAIN events = 1..Len(events) /\ \A i \in DOMAIN events : events[i] \in Row
    BY <2>1
  <2> QED BY <2>2 DEF Row
<1>3. \A i \in DOMAIN events : events[i].line \in Line
  BY <1>2
<1> QED BY <1>1, <1>2, <1>3 DEF Journal

\* What lies above the store stays well formed as the journal and the policy move on.
LEMMA AboveTheStore ==
    ASSUME IInv, UNCHANGED <<views, queue>>, StoreOK', Stored',
           Len(events) \in Nat, Len(events') \in Nat, Len(events') >= Len(events),
           epoch' \in Nat, epoch' >= epoch
    PROVE  IInv'
<1>1. LiveOK' /\ Derived' /\ QueueOK'
  BY DEF IInv, views, queue, LiveOK, LiveRow, Derived, DerivedRow, QueueOK, Scheduled
<1>2. OwnerOK'
  <2>1. epoch \in Nat /\ 0..epoch \subseteq 0..epoch' /\ 0..Len(events) \subseteq 0..Len(events')
    BY ViewsAssumption DEF IInv, StoreOK
  <2>2. owner' = owner /\ Scheduled' = Scheduled
    BY DEF queue, Scheduled
  <2>3. CASE owner = None
    BY <2>2, <2>3 DEF IInv, OwnerOK
  <2>4. CASE owner # None
    <3>1. owner \in [sequence : 0..Len(events'), page : View \cup {0}, epoch : 0..epoch']
      BY <2>1, <2>4 DEF IInv, OwnerOK
    <3> QED BY <2>2, <2>4, <3>1 DEF IInv, OwnerOK
  <2> QED BY <2>3, <2>4
<1> QED BY <1>1, <1>2 DEF IInv

\* A revision becomes the head of l and is told; k, if any, repeats its head (commit_batch).
LEMMA HeadMoves ==
    ASSUME IInv, UNCHANGED <<epoch, views, queue>>, NEW l \in Line, NEW r \in Revision, Journal(l, r),
           stored' \in [Line -> SUBSET Revision], heads' \in Heads,
           \A k \in Line : stored[k] \subseteq stored'[k] /\ heads'[k] \in stored'[k] \cup {None},
           r \in stored'[l]
    PROVE  IInv'
<1>1. /\ events' \in Seq([line : Line, revision : Revision])
      /\ Len(events) \in Nat /\ Len(events') = Len(events) + 1
      /\ DOMAIN events = 1..Len(events) /\ DOMAIN events' = 1..Len(events) + 1
      /\ \A i \in DOMAIN events : events'[i] = events[i] /\ events[i].line \in Line
      /\ events'[Len(events) + 1] = [line |-> l, revision |-> r]
  BY JournalGrows DEF IInv, StoreOK
<1>2. StoreOK'
  BY <1>1 DEF IInv, StoreOK
<1>3. Stored'
  <2> SUFFICES ASSUME NEW i \in 1..Len(events) + 1 PROVE events'[i].revision \in stored'[events'[i].line]
    BY <1>1 DEF Stored
  <2>1. CASE i \in DOMAIN events
    BY <1>1, <2>1 DEF IInv, Stored
  <2>2. CASE i = Len(events) + 1
    BY <1>1, <2>2
  <2> QED BY <1>1, <2>1, <2>2
<1>4. epoch' \in Nat /\ epoch' >= epoch
  BY ViewsAssumption DEF IInv, StoreOK
<1>5. Len(events') \in Nat /\ Len(events') >= Len(events) /\ UNCHANGED <<views, queue>>
  BY <1>1
<1> QED BY <1>1, <1>2, <1>3, <1>4, <1>5, AboveTheStore

LEMMA StoreInv == ASSUME IInv, Store PROVE IInv'
<1>1. ASSUME NEW l \in Line, NEW k \in Line, NEW r \in Revision, NEW s \in Revision, CommitBatch(l, r, k, s)
      PROVE  IInv'
  <2>1. /\ UNCHANGED <<epoch, views, queue>> /\ Journal(l, r) /\ l # k
        /\ stored' = [stored EXCEPT ![l] = @ \cup {r}, ![k] = @ \cup {s}]
        /\ heads' = [heads EXCEPT ![l] = r, ![k] = s]
    BY <1>1 DEF CommitBatch
  <2>2. stored' \in [Line -> SUBSET Revision] /\ heads' \in Heads
    BY <2>1 DEF IInv, StoreOK, Heads
  <2>3. \A m \in Line : stored[m] \subseteq stored'[m] /\ heads'[m] \in stored'[m] \cup {None}
    BY <2>1 DEF IInv, StoreOK, Heads
  <2>4. r \in stored'[l]
    BY <2>1 DEF IInv, StoreOK
  <2> QED BY <2>1, <2>2, <2>3, <2>4, HeadMoves
<1>2. ASSUME NEW l \in Line, NEW r \in Revision, Commit(l, r) PROVE IInv'
  <2>1. /\ UNCHANGED <<epoch, views, queue>> /\ Journal(l, r)
        /\ stored' = [stored EXCEPT ![l] = @ \cup {r}] /\ heads' = [heads EXCEPT ![l] = r]
    BY <1>2 DEF Commit
  <2>2. stored' \in [Line -> SUBSET Revision] /\ heads' \in Heads
    BY <2>1 DEF IInv, StoreOK, Heads
  <2>3. \A m \in Line : stored[m] \subseteq stored'[m] /\ heads'[m] \in stored'[m] \cup {None}
    BY <2>1 DEF IInv, StoreOK, Heads
  <2>4. r \in stored'[l]
    BY <2>1 DEF IInv, StoreOK
  <2> QED BY <2>1, <2>2, <2>3, <2>4, HeadMoves
<1>3. ASSUME NEW l \in Line, NEW r \in Revision, Accept(l, r) PROVE IInv'
  <2>1. /\ UNCHANGED <<stored, epoch, views, queue>> /\ Journal(l, r) /\ r \in stored[l]
        /\ heads' = [heads EXCEPT ![l] = r]
    BY <1>3 DEF Accept
  <2>2. stored' \in [Line -> SUBSET Revision] /\ heads' \in Heads
    BY <2>1 DEF IInv, StoreOK, Heads
  <2>3. \A m \in Line : stored[m] \subseteq stored'[m] /\ heads'[m] \in stored'[m] \cup {None}
    BY <2>1 DEF IInv, StoreOK, Heads
  <2>4. r \in stored'[l] /\ UNCHANGED <<epoch, views, queue>>
    BY <2>1
  <2> QED BY <2>1, <2>2, <2>3, <2>4, HeadMoves
<1>4. ASSUME NEW l \in Line, ReleaseBranch(l) PROVE IInv'
  <2>1. /\ UNCHANGED <<stored, events, epoch, views, queue>> /\ heads' = [heads EXCEPT ![l] = None]
    BY <1>4 DEF ReleaseBranch
  <2>2. StoreOK' /\ Stored'
    BY <2>1 DEF IInv, StoreOK, Stored, Heads
  <2>3. /\ Len(events) \in Nat /\ Len(events') \in Nat /\ Len(events') >= Len(events)
        /\ epoch' \in Nat /\ epoch' >= epoch /\ UNCHANGED <<views, queue>>
    BY <2>1, ViewsAssumption DEF IInv, StoreOK
  <2> QED BY <2>2, <2>3, AboveTheStore
<1>5. ASSUME CompactRetention PROVE IInv'
  <2>1. UNCHANGED <<stored, heads, events, views, queue>> /\ epoch < MaxEpoch /\ epoch' = epoch + 1
    BY <1>5 DEF CompactRetention
  <2>2. epoch \in Nat /\ MaxEpoch \in Nat /\ epoch' \in 0..MaxEpoch /\ epoch' >= epoch
    BY <2>1, ViewsAssumption DEF IInv, StoreOK
  <2>3. StoreOK' /\ Stored'
    BY <2>1, <2>2 DEF IInv, StoreOK, Stored
  <2>4. Len(events) \in Nat /\ Len(events') \in Nat /\ Len(events') >= Len(events) /\ UNCHANGED <<views, queue>>
    BY <2>1 DEF IInv, StoreOK
  <2> QED BY <2>2, <2>3, <2>4, AboveTheStore
<1> QED BY <1>1, <1>2, <1>3, <1>4, <1>5 DEF Store

(***************************************************************************)
(* The invariant under the steps of the views and of the schedule.         *)
(***************************************************************************)

\* The tick a drain computes answers every request (drain_view_work_atomic).
LEMMA DueTick ==
    ASSUME IInv, NEW v \in Scheduled
    PROVE  /\ v \in DOMAIN live /\ v \in View
           /\ Due(v) \in 0..MaxTick /\ (v \notin Ticking => Due(v) = 0)
           /\ Due(v) >= requested[v] /\ Due(v) >= live[v].tick
<1>1. /\ v \in DOMAIN live /\ v \in View /\ MaxTick \in Nat
      /\ requested[v] \in 0..MaxTick /\ live[v].tick \in 0..MaxTick
      /\ v \notin Ticking => requested[v] = 0 /\ live[v].tick = 0
  BY ViewsAssumption DEF IInv, LiveOK, LiveRow, QueueOK
<1>2. /\ Max({requested[v], live[v].tick}) \in {requested[v], live[v].tick}
      /\ Max({requested[v], live[v].tick}) >= requested[v]
      /\ Max({requested[v], live[v].tick}) >= live[v].tick
  BY <1>1, LaterTick
<1> QED BY <1>1, <1>2 DEF Due

\* A fan-out appends the views it notifies, each once (scan_view_work_inner).
LEMMA ArrivalsInOrder ==
    ASSUME NEW V \in SUBSET View, NEW arrivals \in InOrder(V)
    PROVE  arrivals \in Seq(View) /\ ToSet(arrivals) = V /\ IsInjective(arrivals)
<1>1. IsFiniteSet(V)
  BY ViewsAssumption, FS_Subset
<1>2. Cardinality(V) \in Nat
  BY <1>1, FS_CardinalityType
<1>3. /\ arrivals \in [1..Cardinality(V) -> V] /\ IsInjective(arrivals)
      /\ \A t \in V : \E i \in 1..Cardinality(V) : arrivals[i] = t
  BY DEF InOrder, Bijection, Injection, Surjection
<1>4. arrivals \in Seq(V)
  BY <1>2, <1>3
<1>5. ToSet(arrivals) = V
  BY <1>3 DEF ToSet
<1> QED BY <1>3, <1>4, <1>5, SeqMonotonic

\* A refresh leaves the queue alone (refresh_view_work_inner).
LEMMA RefreshInv ==
    ASSUME IInv, NEW v \in View, NEW tick \in Ticks(v), RefreshView(v, tick) PROVE IInv'
<1>1. v \in DOMAIN live /\ RefreshAll({v}, [w \in {v} |-> tick]) /\ UNCHANGED <<store, queue>>
  BY DEF RefreshView
<1>2. tick \in 0..MaxTick /\ (v \notin Ticking => tick = 0)
  BY ViewsAssumption DEF Ticks
<1>3. LiveOK' /\ Derived' /\ enrolled' = enrolled
  <2>1. \A u \in {v} : [w \in {v} |-> tick][u] \in 0..MaxTick /\ (u \notin Ticking => [w \in {v} |-> tick][u] = 0)
    BY <1>2
  <2>2. {v} \in SUBSET DOMAIN live /\ LiveOK /\ Derived /\ heads \in Heads
    BY <1>1 DEF IInv, StoreOK
  <2> HIDE DEF RefreshView
  <2> QED BY <1>1, <2>1, <2>2, RefreshEffect
<1> QED BY <1>1, <1>3 DEF IInv, store, queue, StoreOK, Stored, OwnerOK, QueueOK, Scheduled

\* A new view is subscribed to what it depends on (register_view_inner).
LEMMA RegisterInv ==
    ASSUME IInv, NEW v \in View, NEW tick \in Ticks(v), RegisterView(v, tick) PROVE IInv'
<1> DEFINE view == ComputeView(v, tick)
<1>1. /\ v \notin DOMAIN live /\ Computable(v) /\ UNCHANGED <<store, enrolled, queue>>
      /\ live' = Insert(live, v, view) /\ subscribed' = subscribed \cup Subscriptions(v, view)
  BY DEF RegisterView
<1>2. tick \in 0..MaxTick /\ (v \notin Ticking => tick = 0) /\ heads \in Heads
  BY ViewsAssumption DEF Ticks, IInv, StoreOK
<1>3. /\ view = At(heads, v, tick) /\ view.tick = tick
      /\ DOMAIN view.reads = ReadAt(heads, v) /\ DOMAIN view.dependencies = DependAt(heads, v)
      /\ ReadAt(heads, v) \subseteq DependAt(heads, v) /\ DependAt(heads, v) \subseteq Line
      /\ \A l \in Source[v] : heads[l] # None
  BY <1>1, <1>2, RowOfView
<1>4. /\ DOMAIN live' = DOMAIN live \cup {v} /\ live'[v] = view /\ \A u \in DOMAIN live : live'[u] = live[u]
  BY <1>1 DEF Insert
<1> HIDE DEF view
<1>5. \A l \in Line : <<v, l>> \in subscribed' <=> l \in DOMAIN view.dependencies
  BY <1>1 DEF Subscriptions, IInv, LiveOK
<1>6. \A u, l : u # v => (<<u, l>> \in subscribed' <=> <<u, l>> \in subscribed)
  BY <1>1 DEF Subscriptions
<1>7. LiveOK'
  <2>1. LiveRow(v)'
    <3>1. {l \in Line : <<v, l>> \in subscribed'} = DOMAIN view.dependencies
      BY <1>3, <1>5
    <3> QED BY <1>2, <1>3, <1>4, <3>1 DEF LiveRow
  <2>2. ASSUME NEW u \in DOMAIN live PROVE LiveRow(u)'
    <3>1. {l \in Line : <<u, l>> \in subscribed'} = {l \in Line : <<u, l>> \in subscribed}
      BY <1>1, <1>6
    <3> QED BY <1>4, <3>1 DEF IInv, LiveOK, LiveRow
  <2>3. \A u \in View \ DOMAIN live', l \in Line : <<u, l>> \notin subscribed'
    BY <1>4, <1>6 DEF IInv, LiveOK
  <2> QED BY <1>1, <1>4, <2>1, <2>2, <2>3 DEF IInv, LiveOK
<1>8. Derived'
  <2>1. DerivedRow(v)'
    BY <1>2, <1>3, <1>4 DEF DerivedRow
  <2>2. ASSUME NEW u \in DOMAIN live PROVE DerivedRow(u)'
    BY <1>4 DEF IInv, Derived, DerivedRow
  <2> QED BY <1>4, <2>1, <2>2 DEF Derived
<1> QED BY <1>1, <1>7, <1>8 DEF IInv, store, queue, StoreOK, Stored, OwnerOK, QueueOK, Scheduled

LEMMA EnrollInv == ASSUME IInv, NEW v \in View, EnrollIncrementalView(v) PROVE IInv'
<1>1. v \in DOMAIN live /\ enrolled' = enrolled \cup {v} /\ UNCHANGED <<store, live, subscribed, queue>>
  BY DEF EnrollIncrementalView
<1>2. LiveOK' /\ Derived'
  BY <1>1 DEF IInv, LiveOK, LiveRow, Derived, DerivedRow
<1>3. QueueOK'
  BY <1>1 DEF IInv, QueueOK, queue, Scheduled
<1> QED BY <1>1, <1>2, <1>3 DEF IInv, store, queue, StoreOK, Stored, OwnerOK, Scheduled

\* A queue takes a view once (enqueue_view).
LEMMA EnqueueOnce ==
    ASSUME pending \in Seq(View), IsInjective(pending), NEW v \in View
    PROVE  /\ Enqueue(pending, v) \in Seq(View) /\ IsInjective(Enqueue(pending, v))
           /\ ToSet(Enqueue(pending, v)) = ToSet(pending) \cup {v}
<1>1. CASE v \in ToSet(pending)
  BY <1>1 DEF Enqueue
<1>2. CASE v \notin ToSet(pending)
  BY <1>2, AppendToQueue DEF Enqueue
<1> QED BY <1>1, <1>2

LEMMA EnableInv == ASSUME IInv, NEW v \in View, EnableViewSchedule(v) PROVE IInv'
<1>1. /\ v \in enrolled /\ v \notin Scheduled /\ UNCHANGED <<store, views, failures>>
      /\ owner' = IF owner # None THEN owner ELSE [sequence |-> Len(events), page |-> 0, epoch |-> epoch]
      /\ requested' = Insert(requested, v, live[v].tick) /\ pending' = Enqueue(pending, v)
  BY DEF EnableViewSchedule
<1>2. /\ pending' \in Seq(View) /\ IsInjective(pending') /\ ToSet(pending') = ToSet(pending) \cup {v}
  BY <1>1, EnqueueOnce DEF IInv, QueueOK
<1>3. /\ live[v].tick \in 0..MaxTick /\ (v \notin Ticking => live[v].tick = 0)
  BY <1>1 DEF IInv, LiveOK, LiveRow
<1>4. /\ DOMAIN requested' = Scheduled \cup {v} /\ requested'[v] = live[v].tick
      /\ \A u \in Scheduled : requested'[u] = requested[u]
      /\ requested' \in [Scheduled \cup {v} -> 0..MaxTick]
  BY <1>1, <1>3 DEF Insert, Scheduled, IInv, QueueOK
<1>5. QueueOK'
  BY <1>1, <1>2, <1>3, <1>4 DEF IInv, QueueOK, Scheduled, views
<1>6. OwnerOK'
  <2>1. Len(events) \in Nat /\ epoch \in Nat
    BY ViewsAssumption DEF IInv, StoreOK
  <2>2. [sequence |-> Len(events), page |-> 0, epoch |-> epoch] # None
    BY <2>1, ViewsAssumption
  <2>3. CASE owner = None
    BY <1>1, <2>1, <2>2, <2>3 DEF OwnerOK, store
  <2>4. CASE owner # None
    BY <1>1, <2>4 DEF IInv, OwnerOK, store
  <2> QED BY <2>3, <2>4
<1> QED BY <1>1, <1>5, <1>6
        DEF IInv, store, views, StoreOK, Stored, LiveOK, LiveRow, Derived, DerivedRow

LEMMA RequestInv == ASSUME IInv, NEW v \in View, NEW tick \in Ticks(v), RequestViewTick(v, tick) PROVE IInv'
<1>1. /\ v \in Scheduled /\ v \in Ticking /\ UNCHANGED <<store, views, owner, failures>>
      /\ requested' = [requested EXCEPT ![v] = tick] /\ pending' = Enqueue(pending, v)
  BY DEF RequestViewTick
<1>2. /\ pending' \in Seq(View) /\ IsInjective(pending') /\ ToSet(pending') = ToSet(pending) \cup {v}
  BY <1>1, EnqueueOnce DEF IInv, QueueOK
<1>3. tick \in 0..MaxTick
  BY <1>1 DEF Ticks
<1>4. Scheduled' = Scheduled /\ requested' \in [Scheduled -> 0..MaxTick]
  BY <1>1, <1>3 DEF Scheduled, IInv, QueueOK
<1>5. QueueOK'
  BY <1>1, <1>2, <1>4 DEF IInv, QueueOK, Scheduled, views
<1> QED BY <1>1, <1>4, <1>5
        DEF IInv, store, views, StoreOK, Stored, LiveOK, LiveRow, Derived, DerivedRow, OwnerOK

\* What a scan does to the queue and to the cursor, of which the event is a row of the journal
\* (scan_view_work_inner).
LEMMA ScanEffect ==
    ASSUME IInv, NEW n \in 1..MaxNotices, ScanViewWork(n)
    PROVE  /\ UNCHANGED <<store, views, requested, failures>> /\ owner # None
           /\ Len(events) \in Nat /\ Event \in 1..Len(events) /\ owner.page \in Nat /\ owner.sequence \in Nat
           /\ Event = IF owner.page # 0 THEN owner.sequence ELSE owner.sequence + 1
           /\ pending' \in Seq(View) /\ IsInjective(pending')
           /\ ToSet(pending') = ToSet(pending) \cup FirstOf(Subscribers, n)
           /\ \/ FirstOf(Subscribers, n) = Subscribers /\ owner' = [sequence |-> Event, page |-> 0, epoch |-> owner.epoch]
              \/ \E last \in FirstOf(Subscribers, n) : owner' = [sequence |-> Event, page |-> last, epoch |-> owner.epoch]
<1>1. /\ owner # None /\ Event <= Len(events) /\ UNCHANGED <<store, views, requested, failures>>
      /\ \E arrivals \in InOrder(FirstOf(Subscribers, n) \ ToSet(pending)) : pending' = pending \o arrivals
      /\ \/ FirstOf(Subscribers, n) = Subscribers /\ owner' = [sequence |-> Event, page |-> 0, epoch |-> owner.epoch]
         \/ \E last \in FirstOf(Subscribers, n) : owner' = [sequence |-> Event, page |-> last, epoch |-> owner.epoch]
  BY DEF ScanViewWork
<1>2. Len(events) \in Nat
  BY DEF IInv, StoreOK
<1>3. /\ owner.sequence \in 0..Len(events) /\ owner.page \in View \cup {0} /\ (owner.page # 0 => owner.sequence # 0)
  BY <1>1 DEF IInv, OwnerOK
<1>4. Event \in 1..Len(events) /\ owner.page \in Nat /\ owner.sequence \in Nat
  <2>1. owner.page \in Nat /\ owner.sequence \in Nat
    <3>1. View \cup {0} \subseteq Nat /\ 0..Len(events) \subseteq Nat
      BY <1>2, ViewsAssumption
    <3> QED BY <1>3, <3>1
  <2>2. Event \in Nat /\ Event >= 1
    <3>1. CASE owner.page # 0
      BY <1>3, <2>1, <3>1 DEF Event
    <3>2. CASE owner.page = 0
      BY <2>1, <3>2 DEF Event
    <3> QED BY <3>1, <3>2
  <2> QED BY <1>1, <1>2, <2>1, <2>2
<1>5. FirstOf(Subscribers, n) \ ToSet(pending) \in SUBSET View
  BY DEF FirstOf, Subscribers, IInv, QueueOK, LiveOK
<1>6. /\ pending' \in Seq(View) /\ IsInjective(pending')
      /\ ToSet(pending') = ToSet(pending) \cup FirstOf(Subscribers, n)
  <2>1. PICK arrivals \in InOrder(FirstOf(Subscribers, n) \ ToSet(pending)) : pending' = pending \o arrivals
    BY <1>1
  <2>2. /\ arrivals \in Seq(View) /\ IsInjective(arrivals)
        /\ ToSet(arrivals) = FirstOf(Subscribers, n) \ ToSet(pending)
    BY <1>5, ArrivalsInOrder
  <2>3. pending \in Seq(View) /\ IsInjective(pending) /\ ToSet(pending) \cap ToSet(arrivals) = {}
    BY <2>2 DEF IInv, QueueOK
  <2>4. /\ pending' \in Seq(View) /\ IsInjective(pending')
        /\ ToSet(pending') = ToSet(pending) \cup ToSet(arrivals)
    BY <2>1, <2>2, <2>3, JoinQueues
  <2> QED BY <2>2, <2>4
<1> QED BY <1>1, <1>2, <1>4, <1>6 DEF Event

LEMMA ScanInv == ASSUME IInv, NEW n \in 1..MaxNotices, ScanViewWork(n) PROVE IInv'
<1>1. /\ UNCHANGED <<store, views, requested, failures>> /\ owner # None
      /\ Len(events) \in Nat /\ Event \in 1..Len(events)
      /\ pending' \in Seq(View) /\ IsInjective(pending')
      /\ ToSet(pending') = ToSet(pending) \cup FirstOf(Subscribers, n)
      /\ \/ owner' = [sequence |-> Event, page |-> 0, epoch |-> owner.epoch]
         \/ \E last \in FirstOf(Subscribers, n) : owner' = [sequence |-> Event, page |-> last, epoch |-> owner.epoch]
  BY ScanEffect
<1>2. FirstOf(Subscribers, n) \subseteq Scheduled /\ Scheduled \subseteq View
  BY DEF FirstOf, Subscribers, IInv, QueueOK, LiveOK
<1>3. owner \in [sequence : 0..Len(events), page : View \cup {0}, epoch : 0..epoch]
  BY <1>1 DEF IInv, OwnerOK
<1>4. PICK page \in View \cup {0} : owner' = [sequence |-> Event, page |-> page, epoch |-> owner.epoch]
  BY <1>1, <1>2
<1>5. /\ Event \in 0..Len(events) /\ Event # 0 /\ owner.epoch \in 0..epoch
  BY <1>1, <1>3, <1>4
<1>6. owner' \in [sequence : 0..Len(events), page : View \cup {0}, epoch : 0..epoch] /\ owner'.sequence # 0
  BY <1>4, <1>5
<1>7. owner' # None
  <2>1. epoch \in Nat /\ 0..epoch \subseteq Nat /\ 0..Len(events) \subseteq Nat /\ View \cup {0} \subseteq Nat
    BY <1>1, ViewsAssumption DEF IInv, StoreOK
  <2>2. owner' \in [sequence : Nat, page : Nat, epoch : Nat]
    BY <1>6, <2>1
  <2> QED BY <2>2, ViewsAssumption
<1>8. OwnerOK'
  BY <1>1, <1>6, <1>7 DEF OwnerOK, store
<1>9. QueueOK'
  BY <1>1, <1>2 DEF IInv, QueueOK, Scheduled, views
<1> QED BY <1>1, <1>8, <1>9
        DEF IInv, store, views, StoreOK, Stored, LiveOK, LiveRow, Derived, DerivedRow

\* What a drain does: its view is as evaluated at the tick asked for, and leaves the queue
\* (drain_view_work_atomic).
LEMMA DrainEffect ==
    ASSUME IInv, NEW v \in View, DrainViewWork(v)
    PROVE  /\ UNCHANGED <<store, owner, failures, enrolled>> /\ LiveOK' /\ Derived' /\ DOMAIN live' = DOMAIN live
           /\ v \in Scheduled /\ v \in DOMAIN live
           /\ requested' = [requested EXCEPT ![v] = Due(v)] /\ Scheduled' = Scheduled
           /\ live'[v].tick = Due(v)
           /\ \A l \in DOMAIN live'[v].dependencies : live'[v].dependencies[l] = heads[l]
           /\ \A u \in DOMAIN live \ {v} : /\ live'[u] = live[u]
                                          /\ {l \in Line : <<u, l>> \in subscribed'} = {l \in Line : <<u, l>> \in subscribed}
           /\ pending' \in Seq(View) /\ IsInjective(pending')
           /\ ToSet(pending') \subseteq ToSet(pending) /\ ToSet(pending) \subseteq ToSet(pending') \cup {v}
<1>1. /\ pending # <<>> /\ v = Head(pending) /\ pending' = Tail(pending)
      /\ RefreshAll({v}, [w \in {v} |-> Due(w)]) /\ requested' = [requested EXCEPT ![v] = Due(v)]
      /\ UNCHANGED <<store, owner, failures>>
  BY DEF DrainViewWork
<1>2. /\ pending' \in Seq(View) /\ IsInjective(pending') /\ v \in ToSet(pending)
      /\ ToSet(pending') \subseteq ToSet(pending) /\ ToSet(pending) \subseteq ToSet(pending') \cup {v}
  BY <1>1, TailOfQueue DEF IInv, QueueOK
<1>3. v \in Scheduled /\ v \in DOMAIN live /\ Due(v) \in 0..MaxTick /\ (v \notin Ticking => Due(v) = 0)
  BY <1>2, DueTick DEF IInv, QueueOK
<1>4. Scheduled' = Scheduled
  BY <1>1 DEF Scheduled
<1>5. /\ LiveOK /\ Derived /\ heads \in Heads /\ {v} \in SUBSET DOMAIN live
      /\ \A u \in {v} : [w \in {v} |-> Due(w)][u] \in 0..MaxTick /\ (u \notin Ticking => [w \in {v} |-> Due(w)][u] = 0)
  BY <1>3 DEF IInv, StoreOK
<1> DEFINE tick == [w \in {v} |-> Due(w)]
<1>6. tick[v] = Due(v)
  OBVIOUS
<1>7. /\ LiveOK' /\ Derived' /\ DOMAIN live' = DOMAIN live /\ enrolled' = enrolled
      /\ \A u \in DOMAIN live \ {v} : live'[u] = live[u]
      /\ \A u \in DOMAIN live \ {v} : {l \in Line : <<u, l>> \in subscribed'} = {l \in Line : <<u, l>> \in subscribed}
      /\ \A u \in {v} : live'[u].tick = tick[u]
      /\ \A u \in {v} : \A l \in DOMAIN live'[u].dependencies : live'[u].dependencies[l] = heads[l]
  <2> HIDE DEF tick
  <2>1. /\ RefreshAll({v}, tick)
        /\ \A u \in {v} : tick[u] \in 0..MaxTick /\ (u \notin Ticking => tick[u] = 0)
    BY <1>1, <1>5 DEF tick
  <2> QED BY <1>5, <2>1, RefreshEffect
<1> QED BY <1>1, <1>2, <1>3, <1>4, <1>6, <1>7

LEMMA DrainInv == ASSUME IInv, NEW v \in View, DrainViewWork(v) PROVE IInv'
<1>1. /\ UNCHANGED <<store, owner, failures, enrolled>> /\ LiveOK' /\ Derived'
      /\ v \in Scheduled /\ requested' = [requested EXCEPT ![v] = Due(v)] /\ Scheduled' = Scheduled
      /\ pending' \in Seq(View) /\ IsInjective(pending') /\ ToSet(pending') \subseteq ToSet(pending)
  BY DrainEffect
<1>2. Due(v) \in 0..MaxTick /\ (v \notin Ticking => Due(v) = 0)
  BY <1>1, DueTick
<1>3. requested' \in [Scheduled -> 0..MaxTick] /\ \A u \in Scheduled \ Ticking : requested'[u] = 0
  BY <1>1, <1>2 DEF IInv, QueueOK, Scheduled
<1>4. QueueOK'
  BY <1>1, <1>3 DEF IInv, QueueOK
<1> QED BY <1>1, <1>4 DEF IInv, store, StoreOK, Stored, OwnerOK

LEMMA FailureInv ==
    ASSUME IInv, FailDrain \/ Crash \/ \E v \in View : RotateFailedView(v)
    PROVE  IInv' /\ UNCHANGED <<store, views, owner, requested>> /\ ToSet(pending') = ToSet(pending)
<1>1. CASE FailDrain
  <2>1. /\ pending # <<>> /\ failures' = failures \cup {Head(pending)}
        /\ UNCHANGED <<store, views, owner, requested, pending>>
    BY <1>1 DEF FailDrain
  <2>2. failures' \subseteq Scheduled
    BY <2>1, TailOfQueue DEF IInv, QueueOK
  <2> QED BY <2>1, <2>2 DEF IInv, store, views, StoreOK, Stored, LiveOK, LiveRow, Derived, DerivedRow, OwnerOK, QueueOK, Scheduled
<1>2. CASE Crash
  BY <1>2 DEF Crash, IInv, store, views, StoreOK, Stored, LiveOK, LiveRow, Derived, DerivedRow, OwnerOK, QueueOK, Scheduled
<1>3. ASSUME NEW v \in View, RotateFailedView(v)
      PROVE  IInv' /\ UNCHANGED <<store, views, owner, requested>> /\ ToSet(pending') = ToSet(pending)
  <2>1. /\ failures' = failures \ {v} /\ UNCHANGED <<store, views, owner, requested>>
        /\ \/ pending' = pending
           \/ \E i \in DOMAIN pending : pending[i] = v /\ pending' = Append(RemoveAt(pending, i), v)
    BY <1>3 DEF RotateFailedView
  <2>2. pending' \in Seq(View) /\ IsInjective(pending') /\ ToSet(pending') = ToSet(pending)
    <3>1. CASE pending' = pending
      BY <3>1 DEF IInv, QueueOK
    <3>2. ASSUME NEW i \in DOMAIN pending, pending[i] = v, pending' = Append(RemoveAt(pending, i), v)
          PROVE  pending' \in Seq(View) /\ IsInjective(pending') /\ ToSet(pending') = ToSet(pending)
      <4>1. i \in 1..Len(pending) /\ pending \in Seq(View) /\ IsInjective(pending)
        BY DEF IInv, QueueOK
      <4> QED BY <3>2, <4>1, RotateQueue
    <3> QED BY <2>1, <3>1, <3>2
  <2> QED BY <2>1, <2>2 DEF IInv, store, views, StoreOK, Stored, LiveOK, LiveRow, Derived, DerivedRow, OwnerOK, QueueOK, Scheduled
<1> QED BY <1>1, <1>2, <1>3 DEF FailDrain, Crash

\* What a rebuild does: all scheduled views are as evaluated at the ticks asked for
\* (rebase_view_schedule_boundary).
LEMMA RebaseEffect ==
    ASSUME IInv, RebaseViewSchedule
    PROVE  /\ UNCHANGED <<store, failures, enrolled>> /\ LiveOK' /\ Derived' /\ Scheduled' = Scheduled
           /\ requested' = [v \in Scheduled |-> Due(v)] /\ pending' = <<>>
           /\ owner' = [sequence |-> Len(events), page |-> 0, epoch |-> epoch]
           /\ \A v \in Scheduled : live'[v].tick = Due(v)
           /\ \A v \in Scheduled : \A l \in DOMAIN live'[v].dependencies : live'[v].dependencies[l] = heads[l]
<1> DEFINE tick == [v \in Scheduled |-> Due(v)]
<1>1. /\ RefreshAll(Scheduled, tick) /\ requested' = [v \in Scheduled |-> Due(v)]
      /\ pending' = <<>> /\ owner' = [sequence |-> Len(events), page |-> 0, epoch |-> epoch]
      /\ UNCHANGED <<store, failures>>
  BY DEF RebaseViewSchedule
<1>2. Scheduled' = Scheduled
  BY <1>1 DEF Scheduled
<1>3. \A v \in Scheduled : tick[v] = Due(v)
  OBVIOUS
<1> HIDE DEF tick
<1>4. /\ LiveOK /\ Derived /\ heads \in Heads /\ Scheduled \in SUBSET DOMAIN live
      /\ \A v \in Scheduled : tick[v] \in 0..MaxTick /\ (v \notin Ticking => tick[v] = 0)
  BY <1>3, DueTick DEF IInv, StoreOK
<1>5. /\ LiveOK' /\ Derived' /\ enrolled' = enrolled
      /\ \A v \in Scheduled : live'[v].tick = tick[v]
      /\ \A v \in Scheduled : \A l \in DOMAIN live'[v].dependencies : live'[v].dependencies[l] = heads[l]
  BY <1>1, <1>4, RefreshEffect
<1> QED BY <1>1, <1>2, <1>3, <1>5

LEMMA RebaseInv == ASSUME IInv, RebaseViewSchedule PROVE IInv'
<1>1. /\ UNCHANGED <<store, failures, enrolled>> /\ LiveOK' /\ Derived' /\ Scheduled' = Scheduled
      /\ requested' = [v \in Scheduled |-> Due(v)] /\ pending' = <<>>
      /\ owner' = [sequence |-> Len(events), page |-> 0, epoch |-> epoch]
  BY RebaseEffect
<1>2. requested' \in [Scheduled -> 0..MaxTick] /\ \A u \in Scheduled \ Ticking : requested'[u] = 0
  BY <1>1, DueTick
<1>3. pending' \in Seq(View) /\ IsInjective(pending') /\ ToSet(pending') = {}
  BY <1>1 DEF IsInjective, ToSet
<1>4. QueueOK'
  BY <1>1, <1>2, <1>3 DEF IInv, QueueOK
<1>5. OwnerOK'
  <2>1. Len(events) \in Nat /\ epoch \in Nat
    BY ViewsAssumption DEF IInv, StoreOK
  <2>2. [sequence |-> Len(events), page |-> 0, epoch |-> epoch] # None
    BY <2>1, ViewsAssumption
  <2> QED BY <1>1, <2>1, <2>2 DEF OwnerOK, store
<1> QED BY <1>1, <1>4, <1>5 DEF IInv, store, StoreOK, Stored

LEMMA IInvInit == Init => IInv
<1> SUFFICES ASSUME Init PROVE IInv
  OBVIOUS
<1>1. /\ events = Prior /\ epoch = 0 /\ live = <<>> /\ subscribed = {} /\ enrolled = {}
      /\ owner = None /\ requested = <<>> /\ pending = <<>> /\ failures = {}
      /\ stored = [l \in Line |-> {e.revision : e \in {d \in ToSet(Prior) : d.line = l}}]
      /\ heads = [l \in Line |->
            IF LastOf(l) = {} THEN None ELSE Prior[CHOOSE i \in LastOf(l) : TRUE].revision]
  BY DEF Init
<1>2. /\ DOMAIN live = {} /\ DOMAIN requested = {} /\ ToSet(pending) = {} /\ IsInjective(pending)
      /\ requested \in [{} -> 0..MaxTick] /\ pending \in Seq(View)
  BY <1>1 DEF ToSet, IsInjective
<1>3. \A i \in DOMAIN Prior : Prior[i].line \in Line /\ Prior[i].revision \in Revision
  <2> DEFINE Row == [line : Line, revision : Revision]
  <2>1. Prior \in Seq(Row)
    BY ViewsAssumption
  <2>2. \A e \in Row : e.line \in Line /\ e.revision \in Revision
    OBVIOUS
  <2> HIDE DEF Row
  <2>3. \A i \in DOMAIN Prior : Prior[i] \in Row
    BY <2>1
  <2> QED BY <2>2, <2>3
<1>4. ASSUME NEW l \in Line
      PROVE  /\ stored[l] \subseteq Revision
             /\ \A i \in DOMAIN Prior : Prior[i].line = l => Prior[i].revision \in stored[l]
  BY <1>1, <1>3 DEF ToSet
<1>5. ASSUME NEW l \in Line PROVE heads[l] \in stored[l] \cup {None}
  <2>1. CASE LastOf(l) = {}
    BY <1>1, <2>1
  <2>2. CASE LastOf(l) # {}
    <3>1. (CHOOSE i \in LastOf(l) : TRUE) \in LastOf(l)
      BY <2>2
    <3>2. heads[l] = Prior[CHOOSE i \in LastOf(l) : TRUE].revision
      BY <1>1, <2>2
    <3> QED BY <1>4, <3>1, <3>2 DEF LastOf
  <2> QED BY <2>1, <2>2
<1>6. stored \in [Line -> SUBSET Revision]
  <2>1. DOMAIN stored = Line /\ stored = [l \in Line |-> stored[l]]
    BY <1>1
  <2> QED BY <1>4, <2>1
<1>7. heads \in Heads
  <2>1. \A l \in Line : heads[l] \in Revision \cup {None}
    BY <1>4, <1>5
  <2>2. heads = [l \in Line |-> heads[l]]
    BY <1>1
  <2> QED BY <2>1, <2>2 DEF Heads
<1>8. StoreOK /\ Stored
  <2>1. 0 \in 0..MaxEpoch
    BY ViewsAssumption
  <2> QED BY <1>1, <1>3, <1>4, <1>5, <1>6, <1>7, <2>1, ViewsAssumption DEF StoreOK, Stored
<1>9. LiveOK /\ Derived /\ OwnerOK /\ QueueOK
  BY <1>1, <1>2 DEF LiveOK, Derived, OwnerOK, QueueOK, Scheduled
<1> QED BY <1>8, <1>9 DEF IInv

LEMMA IInvStep == IInv /\ [Next]_vars => IInv'
<1> SUFFICES ASSUME IInv, [Next]_vars PROVE IInv'
  OBVIOUS
<1>1. CASE Store
  BY <1>1, StoreInv
<1>2. CASE Requests
  <2>1. PICK v \in View :
          \/ EnrollIncrementalView(v) \/ EnableViewSchedule(v)
          \/ \E tick \in Ticks(v) : RegisterView(v, tick) \/ RefreshView(v, tick) \/ RequestViewTick(v, tick)
    BY <1>2 DEF Requests
  <2> QED BY <2>1, EnrollInv, EnableInv, RegisterInv, RefreshInv, RequestInv
<1>3. CASE Scan
  BY <1>3, ScanInv DEF Scan
<1>4. CASE \E v \in View : DrainViewWork(v)
  BY <1>4, DrainInv
<1>5. CASE FailDrain \/ Crash \/ \E v \in View : RotateFailedView(v)
  BY <1>5, FailureInv
<1>6. CASE RebaseViewSchedule
  BY <1>6, RebaseInv
<1>7. CASE UNCHANGED vars
  BY <1>7 DEF vars, store, views, queue, IInv, StoreOK, Stored, LiveOK, LiveRow, Derived, DerivedRow,
              OwnerOK, QueueOK, Scheduled
<1> QED BY <1>1, <1>2, <1>3, <1>4, <1>5, <1>6, <1>7 DEF Next, Drain

LEMMA Inductive == Spec => []IInv
<1> QED BY IInvInit, IInvStep, PTL DEF Spec

\* The tables keep their types: a queue holds a view once, cursors lie within the journal, and
\* subscriptions are those of the last evaluation (record_view_change, enqueue_view).
THEOREM ViewsTyped == Spec => []TypeOK
<1> QED BY Inductive, InvariantIsTyped, PTL

(***************************************************************************)
(* No notice is lost.                                                      *)
(***************************************************************************)

\* A head that has moved and was told of lies ahead of the scan as long as the view above it is
\* not queued; a change of the store keeps it so (commit_storage_inner, scan_view_work_inner).
LEMMA NoticesBelow ==
    ASSUME IInv, NoNoticeLost, UNCHANGED <<views, queue>>,
           DOMAIN events \subseteq DOMAIN events', \A i \in DOMAIN events : events'[i] = events[i],
           \A k \in Line : \/ ~Told(k)'
                           \/ heads'[k] = heads[k] /\ (Told(k)' => Told(k))
                           \/ \E i \in DOMAIN events' : events'[i].line = k /\ i > Len(events)
    PROVE  NoNoticeLost'
<1>1. /\ live' = live /\ subscribed' = subscribed /\ owner' = owner /\ requested' = requested
      /\ pending' = pending /\ Scheduled' = Scheduled
  BY DEF views, queue, Scheduled
<1> SUFFICES ASSUME NEW v \in Scheduled, v \notin ToSet(pending), NEW l \in Moved(v)', Told(l)'
             PROVE  <<v, l>> \in subscribed /\ Ahead(v, l)'
  BY <1>1 DEF NoNoticeLost
<1>2. l \in DOMAIN live[v].dependencies /\ heads'[l] # live[v].dependencies[l]
  BY <1>1 DEF Moved
<1>3. v \in DOMAIN live /\ l \in Line /\ <<v, l>> \in subscribed
  BY <1>2 DEF IInv, QueueOK, LiveOK, LiveRow
<1>4. CASE heads'[l] = heads[l] /\ Told(l)
  <2>1. l \in Moved(v)
    BY <1>2, <1>4 DEF Moved
  <2>2. Ahead(v, l)
    BY <1>4, <2>1 DEF NoNoticeLost
  <2> QED BY <1>1, <1>3, <2>2 DEF Ahead
<1>5. CASE \E i \in DOMAIN events' : events'[i].line = l /\ i > Len(events)
  <2>1. PICK i \in DOMAIN events' : events'[i].line = l /\ i > Len(events)
    BY <1>5
  <2>2. owner # None /\ owner.sequence \in 0..Len(events) /\ Len(events) \in Nat
    BY DEF IInv, OwnerOK, StoreOK
  <2>3. i > owner.sequence
    BY <2>1, <2>2
  <2> QED BY <1>1, <1>3, <2>1, <2>3 DEF Ahead
<1> QED BY <1>3, <1>4, <1>5

LEMMA StoreNotices == ASSUME IInv, NoNoticeLost, Store PROVE NoNoticeLost'
<1>1. ASSUME NEW l \in Line, NEW r \in Revision, Journal(l, r)
      PROVE  /\ DOMAIN events \subseteq DOMAIN events' /\ \A i \in DOMAIN events : events'[i] = events[i]
             /\ \E i \in DOMAIN events' : events'[i].line = l /\ i > Len(events)
             /\ \A k \in Line \ {l} : heads'[k] = heads[k] => (Told(k)' => Told(k))
             /\ \A k \in Line \ {l} : Told(k)' => \E i \in DOMAIN events : events[i] = [line |-> k, revision |-> heads'[k]]
  <2>1. /\ Len(events) \in Nat /\ DOMAIN events = 1..Len(events) /\ DOMAIN events' = 1..Len(events) + 1
        /\ \A i \in DOMAIN events : events'[i] = events[i]
        /\ events'[Len(events) + 1] = [line |-> l, revision |-> r]
    BY <1>1, JournalGrows DEF IInv, StoreOK
  <2>2. Len(events) + 1 \in DOMAIN events' /\ Len(events) + 1 > Len(events) /\ DOMAIN events \subseteq DOMAIN events'
    BY <2>1
  <2>3. ASSUME NEW k \in Line \ {l}, Told(k)'
        PROVE  \E i \in DOMAIN events : /\ events[i] = [line |-> k, revision |-> heads'[k]]
                                       /\ \A j \in DOMAIN events : j > i => events[j].line # k
    <3>1. PICK i \in DOMAIN events' : /\ events'[i] = [line |-> k, revision |-> heads'[k]]
                                      /\ \A j \in DOMAIN events' : j > i => events'[j].line # k
      BY <2>3 DEF Told
    <3>2. i # Len(events) + 1
      BY <2>1, <3>1
    <3>3. i \in DOMAIN events
      BY <2>1, <3>1, <3>2
    <3> QED BY <2>1, <2>2, <3>1, <3>3
  <2> QED BY <2>1, <2>2, <2>3 DEF Told
<1>2. ASSUME NEW l \in Line, NEW k \in Line, NEW r \in Revision, NEW s \in Revision, CommitBatch(l, r, k, s)
      PROVE  NoNoticeLost'
  <2>1. /\ UNCHANGED <<views, queue>> /\ Journal(l, r) /\ l # k /\ s \notin stored[k]
        /\ heads' = [heads EXCEPT ![l] = r, ![k] = s]
    BY <1>2 DEF CommitBatch
  <2>2. \A m \in Line : (m # l /\ m # k => heads'[m] = heads[m]) /\ heads'[k] = s
    BY <2>1 DEF IInv, StoreOK, Heads
  <2>3. ~Told(k)'
    <3> SUFFICES ASSUME Told(k)' PROVE FALSE
      OBVIOUS
    <3>1. \E i \in DOMAIN events : events[i] = [line |-> k, revision |-> heads'[k]]
      BY <1>1, <2>1
    <3>2. PICK i \in DOMAIN events : events[i] = [line |-> k, revision |-> s]
      BY <2>2, <3>1
    <3>3. events[i].revision \in stored[events[i].line]
      BY DEF IInv, Stored
    <3> QED BY <2>1, <3>2, <3>3
  <2>4. /\ DOMAIN events \subseteq DOMAIN events' /\ \A i \in DOMAIN events : events'[i] = events[i]
        /\ \E i \in DOMAIN events' : events'[i].line = l /\ i > Len(events)
        /\ \A m \in Line \ {l} : heads'[m] = heads[m] => (Told(m)' => Told(m))
    BY <1>1, <2>1
  <2>5. ASSUME NEW m \in Line
        PROVE  \/ ~Told(m)'
               \/ heads'[m] = heads[m] /\ (Told(m)' => Told(m))
               \/ \E i \in DOMAIN events' : events'[i].line = m /\ i > Len(events)
    <3>1. CASE m = l
      BY <2>4, <3>1
    <3>2. CASE m = k
      BY <2>3, <3>2
    <3>3. CASE m # l /\ m # k
      BY <2>2, <2>4, <3>3
    <3> QED BY <3>1, <3>2, <3>3
  <2> QED BY <2>1, <2>4, <2>5, NoticesBelow
<1>3. ASSUME NEW l \in Line, NEW r \in Revision, Commit(l, r) \/ Accept(l, r) PROVE NoNoticeLost'
  <2>1. UNCHANGED <<views, queue>> /\ Journal(l, r) /\ heads' = [heads EXCEPT ![l] = r]
    BY <1>3 DEF Commit, Accept
  <2>2. \A m \in Line \ {l} : heads'[m] = heads[m]
    BY <2>1 DEF IInv, StoreOK, Heads
  <2> QED BY <1>1, <2>1, <2>2, NoticesBelow
<1>4. ASSUME NEW l \in Line, ReleaseBranch(l) PROVE NoNoticeLost'
  <2>1. UNCHANGED <<events, views, queue>> /\ heads' = [heads EXCEPT ![l] = None]
    BY <1>4 DEF ReleaseBranch
  <2>2. heads'[l] = None /\ \A m \in Line \ {l} : heads'[m] = heads[m]
    BY <2>1 DEF IInv, StoreOK, Heads
  <2>3. \A i \in DOMAIN events : events[i].revision # None
    <3>1. \A i \in DOMAIN events : events[i].line \in Line /\ events[i].revision \in Revision
      <4> DEFINE Row == [line : Line, revision : Revision]
      <4>1. events \in Seq(Row)
        BY DEF IInv, StoreOK
      <4>2. \A e \in Row : e.line \in Line /\ e.revision \in Revision
        OBVIOUS
      <4> HIDE DEF Row
      <4>3. \A i \in DOMAIN events : events[i] \in Row
        BY <4>1
      <4> QED BY <4>2, <4>3
    <3> QED BY <3>1, ViewsAssumption
  <2>4. ~Told(l)'
    BY <2>1, <2>2, <2>3 DEF Told
  <2>5. \A m \in Line \ {l} : heads'[m] = heads[m] /\ (Told(m)' => Told(m))
    BY <2>1, <2>2 DEF Told
  <2>6. \A k \in Line : ~Told(k)' \/ (heads'[k] = heads[k] /\ (Told(k)' => Told(k)))
    BY <2>4, <2>5
  <2>7. UNCHANGED <<views, queue>> /\ events' = events
    BY <2>1
  <2> QED BY <2>6, <2>7, NoticesBelow
<1>5. ASSUME CompactRetention PROVE NoNoticeLost'
  <2>1. UNCHANGED <<heads, events, views, queue>>
    BY <1>5 DEF CompactRetention
  <2>2. \A k \in Line : heads'[k] = heads[k] /\ (Told(k)' => Told(k))
    BY <2>1 DEF Told
  <2>3. UNCHANGED <<views, queue>> /\ events' = events
    BY <2>1
  <2> QED BY <2>2, <2>3, NoticesBelow
<1> QED BY <1>2, <1>3, <1>4, <1>5 DEF Store

\* Of a view evaluated under the heads of the store nothing has moved (refresh_view_work_inner).
LEMMA NothingMoved ==
    ASSUME NEW v, heads' = heads, \A l \in DOMAIN live'[v].dependencies : live'[v].dependencies[l] = heads[l]
    PROVE  Moved(v)' = {}
BY DEF Moved

\* The place of a view that a step does not touch (scan_view_work_inner).
LEMMA OthersKept ==
    ASSUME IInv, IInv', NoNoticeLost, UNCHANGED store, owner' = owner,
           NEW v \in Scheduled, v \notin ToSet(pending),
           live'[v] = live[v], requested'[v] = requested[v], v \in DOMAIN live', v \in Scheduled'
    PROVE  /\ requested'[v] <= live'[v].tick
           /\ \A l \in Moved(v)' : Told(l)' => <<v, l>> \in subscribed' /\ Ahead(v, l)'
<1>1. /\ requested[v] <= live[v].tick
      /\ \A l \in Moved(v) : Told(l) => Ahead(v, l)
  BY DEF NoNoticeLost
<1>2. heads' = heads /\ events' = events
  BY DEF store
<1>3. \A l : Told(l)' => Told(l)
  BY <1>2 DEF Told
<1>4. \A l : Ahead(v, l) => Ahead(v, l)'
  BY <1>2 DEF Ahead
<1>5. Moved(v)' = Moved(v)
  BY <1>2 DEF Moved
<1>6. \A l \in Moved(v)' : <<v, l>> \in subscribed'
  BY DEF Moved, IInv, LiveOK, LiveRow
<1> QED BY <1>1, <1>3, <1>4, <1>5, <1>6

\* A scan passes an event only when all subscribers with a place behind the cursor are queued
\* (scan_view_work_inner).
LEMMA ScanNotices == ASSUME IInv, NoNoticeLost, NEW n \in 1..MaxNotices, ScanViewWork(n) PROVE NoNoticeLost'
<1>1. /\ UNCHANGED <<store, views, requested, failures>> /\ owner # None
      /\ Len(events) \in Nat /\ Event \in 1..Len(events) /\ owner.page \in Nat /\ owner.sequence \in Nat
      /\ Event = IF owner.page # 0 THEN owner.sequence ELSE owner.sequence + 1
      /\ ToSet(pending') = ToSet(pending) \cup FirstOf(Subscribers, n)
      /\ \/ /\ FirstOf(Subscribers, n) = Subscribers
            /\ owner' = [sequence |-> Event, page |-> 0, epoch |-> owner.epoch]
         \/ \E last \in FirstOf(Subscribers, n) : owner' = [sequence |-> Event, page |-> last, epoch |-> owner.epoch]
  BY ScanEffect
<1>2. /\ heads' = heads /\ events' = events /\ live' = live /\ subscribed' = subscribed
      /\ Scheduled' = Scheduled /\ requested' = requested
  BY <1>1 DEF store, views, Scheduled
<1>3. ASSUME NEW v \in Scheduled, v \notin ToSet(pending), v \notin FirstOf(Subscribers, n),
             NEW l, <<v, l>> \in subscribed, Ahead(v, l)
      PROVE  Ahead(v, l)'
  <2>1. PICK i \in DOMAIN events : /\ events[i].line = l
                                   /\ i > owner.sequence \/ (i = owner.sequence /\ owner.page # 0 /\ v > owner.page)
    BY <1>3 DEF Ahead
  <2>2. i \in Nat /\ v \in Nat /\ v > 0
    <3>1. v \in View
      BY DEF IInv, LiveOK, QueueOK
    <3>2. DOMAIN events = 1..Len(events)
      BY DEF IInv, StoreOK
    <3> QED BY <1>1, <3>1, <3>2, ViewsAssumption
  <2>3. CASE i > Event
    BY <1>1, <1>2, <2>1, <2>3 DEF Ahead
  <2>4. CASE ~(i > Event)
    <3>1. i = Event /\ v > owner.page
      <4>1. CASE owner.page # 0
        BY <1>1, <2>1, <2>2, <2>4, <4>1
      <4>2. CASE owner.page = 0
        BY <1>1, <2>1, <2>2, <2>4, <4>2
      <4> QED BY <4>1, <4>2
    <3>2. v \in Subscribers
      BY <1>3, <2>1, <3>1 DEF Subscribers
    <3>3. PICK last \in FirstOf(Subscribers, n) : owner' = [sequence |-> Event, page |-> last, epoch |-> owner.epoch]
      BY <1>1, <1>3, <3>2
    <3>4. Subscribers \in SUBSET Nat /\ IsFiniteSet(Subscribers) /\ Subscribers \subseteq View
      <4>1. Subscribers \subseteq View
        BY DEF Subscribers, IInv, QueueOK, LiveOK
      <4> QED BY <4>1, ViewsAssumption, FS_Subset
    <3>5. n \in Nat
      BY ViewsAssumption
    <3>6. v > last
      BY <1>3, <3>2, <3>4, <3>5, FanOutIsOrdered
    <3>7. last # 0
      BY <3>4, ViewsAssumption DEF FirstOf
    <3>8. owner'.sequence = Event /\ owner'.page = last
      BY <3>3
    <3> QED BY <1>2, <2>1, <3>1, <3>6, <3>7, <3>8 DEF Ahead
  <2> QED BY <2>3, <2>4
<1>4. \A l : Told(l)' => Told(l)
  BY <1>2 DEF Told
<1>5. \A v : Moved(v)' = Moved(v)
  BY <1>2 DEF Moved
<1>6. ASSUME NEW v \in Scheduled, v \notin ToSet(pending), v \notin FirstOf(Subscribers, n)
      PROVE  /\ requested[v] <= live[v].tick
             /\ \A l \in Moved(v) : Told(l)' => <<v, l>> \in subscribed /\ Ahead(v, l)'
  BY <1>3, <1>4, <1>6 DEF NoNoticeLost
<1> QED BY <1>1, <1>2, <1>5, <1>6 DEF NoNoticeLost

LEMMA NoticesStep == IInv /\ NoNoticeLost /\ [Next]_vars => NoNoticeLost'
<1> SUFFICES ASSUME IInv, NoNoticeLost, [Next]_vars PROVE NoNoticeLost'
  OBVIOUS
<1>0. IInv'
  BY IInvStep
<1>1. CASE Store
  BY <1>1, StoreNotices
<1>2. CASE Scan
  BY <1>2, ScanNotices DEF Scan
<1>3. ASSUME NEW v \in View, NEW tick \in Ticks(v), RegisterView(v, tick) PROVE NoNoticeLost'
  <2>1. /\ UNCHANGED <<store, queue>> /\ v \notin DOMAIN live
        /\ DOMAIN live' = DOMAIN live \cup {v} /\ \A u \in DOMAIN live : live'[u] = live[u]
    BY <1>3 DEF RegisterView, Insert
  <2>2. \A u \in Scheduled : u \in DOMAIN live /\ live'[u] = live[u] /\ u \in DOMAIN live'
    BY <2>1 DEF IInv, QueueOK, LiveOK
  <2>3. UNCHANGED store /\ owner' = owner /\ requested' = requested /\ pending' = pending /\ Scheduled' = Scheduled
    BY <2>1 DEF queue, Scheduled
  <2> QED BY <1>0, <2>2, <2>3, OthersKept DEF NoNoticeLost
<1>4. ASSUME NEW v \in View, NEW tick \in Ticks(v), RefreshView(v, tick) PROVE NoNoticeLost'
  <2>1. /\ v \in DOMAIN live /\ RefreshAll({v}, [w \in {v} |-> tick]) /\ UNCHANGED <<store, queue>> /\ tick >= live[v].tick
    BY <1>4 DEF RefreshView
  <2> DEFINE ticks == [w \in {v} |-> tick]
  <2>2. tick \in 0..MaxTick /\ (v \notin Ticking => tick = 0) /\ ticks[v] = tick
    BY ViewsAssumption DEF Ticks
  <2>3. RefreshAll({v}, ticks)
    BY <2>1
  <2> HIDE DEF ticks
  <2>4. /\ DOMAIN live' = DOMAIN live /\ \A u \in DOMAIN live \ {v} : live'[u] = live[u]
        /\ live'[v].tick = tick /\ \A l \in DOMAIN live'[v].dependencies : live'[v].dependencies[l] = heads[l]
    <3>1. LiveOK /\ Derived /\ heads \in Heads /\ {v} \in SUBSET DOMAIN live
      BY <2>1 DEF IInv, StoreOK
    <3>2. \A u \in {v} : ticks[u] \in 0..MaxTick /\ (u \notin Ticking => ticks[u] = 0)
      BY <2>2
    <3> QED BY <2>2, <2>3, <3>1, <3>2, RefreshEffect
  <2>5. /\ UNCHANGED store /\ owner' = owner /\ requested' = requested /\ pending' = pending
        /\ Scheduled' = Scheduled /\ heads' = heads
    BY <2>1 DEF queue, Scheduled, store
  <2>6. Moved(v)' = {}
    BY <2>4, <2>5, NothingMoved
  <2>7. ASSUME NEW u \in Scheduled, u \notin ToSet(pending)
        PROVE  /\ requested'[u] <= live'[u].tick
               /\ \A l \in Moved(u)' : Told(l)' => <<u, l>> \in subscribed' /\ Ahead(u, l)'
    <3>0. u \in DOMAIN live
      BY DEF IInv, QueueOK, LiveOK
    <3>1. CASE u = v
      <4>1. requested[v] <= live[v].tick
        BY <2>7, <3>1 DEF NoNoticeLost
      <4>2. requested[v] \in Nat /\ live[v].tick \in Nat /\ tick \in Nat
        BY <2>2, <3>0, <3>1, ViewsAssumption DEF IInv, QueueOK, LiveOK, LiveRow
      <4>3. requested'[v] <= live'[v].tick
        BY <2>1, <2>4, <2>5, <4>1, <4>2
      <4> QED BY <2>6, <3>1, <4>3
    <3>2. CASE u # v
      BY <1>0, <2>4, <2>5, <2>7, <3>0, <3>2, OthersKept
    <3> QED BY <3>1, <3>2
  <2> QED BY <2>5, <2>7 DEF NoNoticeLost
<1>5. ASSUME NEW v \in View, EnrollIncrementalView(v) PROVE NoNoticeLost'
  <2>1. UNCHANGED <<store, live, subscribed, queue>>
    BY <1>5 DEF EnrollIncrementalView
  <2> QED BY <2>1 DEF store, queue, NoNoticeLost, Scheduled, Moved, Told, Ahead
<1>6. ASSUME NEW v \in View, EnableViewSchedule(v) PROVE NoNoticeLost'
  <2>1. /\ v \in View /\ UNCHANGED <<store, views>> /\ owner' = IF owner # None THEN owner ELSE owner'
        /\ requested' = Insert(requested, v, live[v].tick) /\ pending' = Enqueue(pending, v)
    BY <1>6 DEF EnableViewSchedule
  <2>2. ToSet(pending') = ToSet(pending) \cup {v}
    BY <2>1, EnqueueOnce DEF IInv, QueueOK
  <2>3. Scheduled' = Scheduled \cup {v} /\ \A u \in Scheduled : u # v => requested'[u] = requested[u]
    BY <2>1 DEF Insert, Scheduled
  <2>4. \A u \in Scheduled : owner # None /\ u \in DOMAIN live /\ live' = live
    BY <2>1 DEF IInv, OwnerOK, QueueOK, LiveOK, views
  <2>5. ASSUME NEW u \in Scheduled', u \notin ToSet(pending')
        PROVE  /\ requested'[u] <= live'[u].tick
               /\ \A l \in Moved(u)' : Told(l)' => <<u, l>> \in subscribed' /\ Ahead(u, l)'
    <3>1. u # v /\ u \in Scheduled /\ u \notin ToSet(pending) /\ requested'[u] = requested[u]
      BY <2>2, <2>3, <2>5
    <3>2. owner' = owner /\ live'[u] = live[u] /\ u \in DOMAIN live'
      BY <2>1, <2>4, <3>1
    <3> QED BY <1>0, <2>1, <3>1, <3>2, OthersKept
  <2> QED BY <2>5 DEF NoNoticeLost
<1>7. ASSUME NEW v \in View, NEW tick \in Ticks(v), RequestViewTick(v, tick) PROVE NoNoticeLost'
  <2>1. /\ v \in View /\ UNCHANGED <<store, views, owner>>
        /\ requested' = [requested EXCEPT ![v] = tick] /\ pending' = Enqueue(pending, v)
    BY <1>7 DEF RequestViewTick
  <2>2. ToSet(pending') = ToSet(pending) \cup {v}
    BY <2>1, EnqueueOnce DEF IInv, QueueOK
  <2>3. Scheduled' = Scheduled /\ \A u \in Scheduled : u # v => requested'[u] = requested[u]
    BY <2>1 DEF Scheduled, IInv, QueueOK
  <2>5. ASSUME NEW u \in Scheduled', u \notin ToSet(pending')
        PROVE  /\ requested'[u] <= live'[u].tick
               /\ \A l \in Moved(u)' : Told(l)' => <<u, l>> \in subscribed' /\ Ahead(u, l)'
    <3>1. u # v /\ u \in Scheduled /\ u \notin ToSet(pending) /\ requested'[u] = requested[u]
      BY <2>2, <2>3, <2>5
    <3>2. owner' = owner /\ live'[u] = live[u] /\ u \in DOMAIN live'
      BY <2>1, <3>1 DEF views, IInv, QueueOK, LiveOK
    <3> QED BY <1>0, <2>1, <3>1, <3>2, OthersKept
  <2> QED BY <2>5 DEF NoNoticeLost
<1>8. ASSUME NEW v \in View, DrainViewWork(v) PROVE NoNoticeLost'
  <2>1. /\ UNCHANGED <<store, owner>> /\ DOMAIN live' = DOMAIN live /\ v \in Scheduled /\ v \in DOMAIN live
        /\ requested' = [requested EXCEPT ![v] = Due(v)] /\ Scheduled' = Scheduled
        /\ live'[v].tick = Due(v)
        /\ \A l \in DOMAIN live'[v].dependencies : live'[v].dependencies[l] = heads[l]
        /\ \A u \in DOMAIN live \ {v} : live'[u] = live[u]
        /\ ToSet(pending) \subseteq ToSet(pending') \cup {v}
    BY <1>8, DrainEffect
  <2>2. heads' = heads /\ Moved(v)' = {}
    BY <2>1, NothingMoved DEF store
  <2>3. Due(v) \in Nat /\ requested'[v] = Due(v) /\ \A u \in Scheduled : u # v => requested'[u] = requested[u]
    BY <2>1, DueTick, ViewsAssumption DEF Scheduled, IInv, QueueOK
  <2>4. ASSUME NEW u \in Scheduled, u \notin ToSet(pending')
        PROVE  /\ requested'[u] <= live'[u].tick
               /\ \A l \in Moved(u)' : Told(l)' => <<u, l>> \in subscribed' /\ Ahead(u, l)'
    <3>1. CASE u = v
      BY <2>1, <2>2, <2>3, <3>1
    <3>2. CASE u # v
      <4>1. u \in DOMAIN live /\ u \notin ToSet(pending) /\ u \in Scheduled'
        BY <2>1, <2>4, <3>2 DEF IInv, QueueOK, LiveOK
      <4>2. live'[u] = live[u] /\ requested'[u] = requested[u] /\ u \in DOMAIN live' /\ owner' = owner /\ UNCHANGED store
        BY <2>1, <2>3, <3>2, <4>1
      <4> QED BY <1>0, <4>1, <4>2, OthersKept
    <3> QED BY <3>1, <3>2
  <2> QED BY <2>1, <2>4 DEF NoNoticeLost
<1>9. CASE FailDrain \/ Crash \/ \E v \in View : RotateFailedView(v)
  <2>1. UNCHANGED <<store, views, owner, requested>> /\ ToSet(pending') = ToSet(pending)
    BY <1>9, FailureInv
  <2> QED BY <2>1 DEF store, views, NoNoticeLost, Scheduled, Moved, Told, Ahead
<1>10. CASE RebaseViewSchedule
  <2>1. /\ UNCHANGED store /\ Scheduled' = Scheduled /\ requested' = [v \in Scheduled |-> Due(v)]
        /\ \A v \in Scheduled : live'[v].tick = Due(v)
        /\ \A v \in Scheduled : \A l \in DOMAIN live'[v].dependencies : live'[v].dependencies[l] = heads[l]
    BY <1>10, RebaseEffect
  <2>2. \A v \in Scheduled : Moved(v)' = {}
    BY <2>1, NothingMoved DEF store
  <2>3. \A v \in Scheduled : Due(v) \in Nat /\ requested'[v] = Due(v)
    BY <2>1, DueTick, ViewsAssumption
  <2> QED BY <2>1, <2>2, <2>3 DEF NoNoticeLost
<1>11. CASE UNCHANGED vars
  BY <1>11 DEF vars, store, views, queue, NoNoticeLost, Scheduled, Moved, Told, Ahead
<1>12. CASE Requests
  <2>1. PICK v \in View :
          \/ EnrollIncrementalView(v) \/ EnableViewSchedule(v)
          \/ \E tick \in Ticks(v) : RegisterView(v, tick) \/ RefreshView(v, tick) \/ RequestViewTick(v, tick)
    BY <1>12 DEF Requests
  <2> QED BY <1>3, <1>4, <1>5, <1>6, <1>7, <2>1
<1> QED BY <1>1, <1>2, <1>8, <1>9, <1>10, <1>11, <1>12 DEF Next, Drain

LEMMA NoticesInit == Init => NoNoticeLost
<1> SUFFICES ASSUME Init PROVE Scheduled = {}
  BY DEF NoNoticeLost
<1> QED BY DEF Init, Scheduled

\* However scans are paged and interleaved with registrations, refreshes, failures and rebuilds, a
\* scheduled view that is not queued has processed every tick asked of it, and a journalled change
\* of a line it depends on lies ahead of the scan (scan_view_work, enable_view_schedule).
THEOREM NothingUnnoticed == Spec => []NoNoticeLost
<1>1. IInv /\ NoNoticeLost /\ [Next]_vars => NoNoticeLost'
  BY NoticesStep
<1> QED BY <1>1, NoticesInit, Inductive, PTL DEF Spec

(***************************************************************************)
(* What is certified as current is what a recomputation gives.             *)
(***************************************************************************)

\* A view whose recorded dependencies have not moved is what its evaluation would give now: all
\* that the evaluation read is among them (view_current, compute_view_with_sources).
LEMMA UnmovedIsRecomputed ==
    ASSUME IInv, NEW v \in DOMAIN live, Unmoved(v)
    PROVE  /\ Computable(v) /\ live[v] = ComputeView(v, live[v].tick)
           /\ ComputeView(v, 0).reads = live[v].reads
<1>1. PICK h \in Heads : live[v] = At(h, v, live[v].tick) /\ \A l \in Source[v] : h[l] # None
  BY DEF IInv, Derived, DerivedRow
<1>2. DOMAIN live[v].dependencies = DependAt(h, v) /\ \A l \in DependAt(h, v) : live[v].dependencies[l] = h[l]
  BY <1>1 DEF At
<1>3. \A l \in DependAt(h, v) : heads[l] = h[l]
  BY <1>2 DEF Unmoved
<1>4. v \in View
  BY DEF IInv, LiveOK
<1>5. Source[v] \subseteq ReadAt(h, v) /\ ReadAt(h, v) \subseteq DependAt(h, v)
  BY <1>4, LinksAreLines
<1>6. ReadAt(h, v) = ReadAt(heads, v) /\ DependAt(h, v) = DependAt(heads, v)
  BY <1>3, <1>5, SameHeads
<1>7. At(heads, v, live[v].tick) = At(h, v, live[v].tick)
  BY <1>3, <1>5, <1>6 DEF At
<1>8. At(heads, v, 0).reads = At(heads, v, live[v].tick).reads
  BY DEF At
<1>9. Computable(v)
  BY <1>1, <1>3, <1>5 DEF Computable
<1> QED BY <1>1, <1>7, <1>8, <1>9, ComputeIsAt

\* A stored result that read_view calls current is complete, is what a full recomputation gives,
\* live metadata links included, and answers every tick asked for (view_current).
THEOREM CertifiedIsRecomputed == Spec => []CurrentIsRecomputed
<1>1. IInv /\ NoNoticeLost => CurrentIsRecomputed
  <2> SUFFICES ASSUME IInv, NoNoticeLost, NEW v \in DOMAIN live, ViewCurrent(v)
               PROVE  /\ Computable(v) /\ Rebuildable(v)
                      /\ live[v] = ComputeView(v, live[v].tick)
                      /\ v \in Scheduled => requested[v] <= live[v].tick
    BY DEF CurrentIsRecomputed
  <2>1. Complete(live[v].reads) /\ PendingTickSatisfied(v) /\ Unmoved(v)
    BY DEF ViewCurrent
  <2>2. /\ Computable(v) /\ live[v] = ComputeView(v, live[v].tick) /\ ComputeView(v, 0).reads = live[v].reads
    BY <2>1, UnmovedIsRecomputed
  <2>3. Rebuildable(v)
    BY <2>1, <2>2 DEF Rebuildable
  <2>4. v \in Scheduled => requested[v] <= live[v].tick
    BY <2>1 DEF PendingTickSatisfied, NoNoticeLost
  <2> QED BY <2>2, <2>3, <2>4
<1> QED BY <1>1, Inductive, NothingUnnoticed, PTL

=============================================================================
