---------------------- MODULE RecordedRegister_proofs -----------------------
(***************************************************************************)
(* RevisionStore implements RecordedRegister: what its tables of heads and *)
(* observations show to a reader of the past is a register whose past is   *)
(* stable, for every value of the constants.                               *)
(***************************************************************************)
EXTENDS RevisionStore_proofs

\* The rows of a line are in the order of their recorded times.  RecordedMonotone
\* says so of neighbours; the selection by time needs it of any two rows.
Ordered ==
    \A l \in Line : \A i, j \in 1..Len(observations[l]) :
        i <= j => observations[l][i].time <= observations[l][j].time

LEMMA RowTypes ==
    ASSUME TypeOK, NEW l \in Line
    PROVE  /\ Len(observations[l]) \in Nat
           /\ \A i \in 1..Len(observations[l]) :
                 /\ observations[l][i].time \in 0..MaxTime
                 /\ observations[l][i].time \in Int
           /\ observations[l] # <<>> => Len(observations[l]) > 0
  <1> USE BoundsAssumption
  <1>1. observations[l] \in Seq(Observation)
    BY TableFacts
  <1>2. \A i \in 1..Len(observations[l]) : observations[l][i] \in Observation
    BY <1>1
  <1>3. Len(observations[l]) \in Nat /\ (observations[l] # <<>> => Len(observations[l]) > 0)
    BY <1>1
  <1>4. \A i \in 1..Len(observations[l]) : observations[l][i].time \in 0..MaxTime
    BY <1>2 DEF Observation
  <1> QED  BY <1>3, <1>4

\* Whatever the line held before, an appended row is not earlier than any row.
LEMMA AppendIsLast ==
    ASSUME TypeOK, Ordered, NEW l \in Line, NEW row, row.time = now, Appends(l, row)
    PROVE  \A i \in 1..Len(observations[l]) : observations[l][i].time <= now
  <1> DEFINE n == Len(observations[l])
  <1> SUFFICES ASSUME NEW i \in 1..n PROVE observations[l][i].time <= now
    OBVIOUS
  <1>1. n \in Nat /\ n \in 1..n
    BY RowTypes
  <1>2. observations[l][i].time <= observations[l][n].time
    <2>1. i <= n
      BY <1>1
    <2> QED  BY <1>1, <2>1 DEF Ordered
  <1>3. observations[l][n].time <= now
    <2>1. observations[l] # <<>>
      BY <1>1
    <2> QED  BY <2>1 DEF Appends, TipTime
  <1>4. observations[l][i].time \in Int /\ observations[l][n].time \in Int /\ now \in Int
    BY <1>1, RowTypes, TableFacts
  <1> HIDE DEF n
  <1> QED  BY <1>2, <1>3, <1>4

\* Every step keeps the rows of a line, and appends at most one, of this time.
LEMMA RowsStep ==
    ASSUME TypeOK, [Next]_vars, NEW l \in Line
    PROVE  \/ observations'[l] = observations[l]
           \/ \E row : row.time = now /\ Appends(l, row)
  <1>1. CASE Movement
    <2>1. PICK S \in SUBSET Line : \E revision \in [S -> Revs'], basis \in [S -> Expectable] :
                 Moves(S, revision, basis)
      BY <1>1 DEF Movement
    <2>2. PICK revision \in [S -> Revs'], basis \in [S -> Expectable] : Moves(S, revision, basis)
      BY <2>1
    <2>3. AdvanceHeads(S, revision, basis)
      BY <2>2 DEF Moves
    <2> DEFINE row == [revision |-> revision[l], time |-> now, basis |-> basis[l]]
    <2>4. /\ l \notin S => observations'[l] = observations[l]
          /\ l \in S => Appends(l, row)
      BY <2>3, MovementAppends
    <2>5. row.time = now
      OBVIOUS
    <2> HIDE DEF row
    <2> QED  BY <2>4, <2>5
  <1>2. CASE \E e \in Engine, x \in Line, y \in Expectable : ReleaseBranch(e, x, y)
    BY <1>2 DEF ReleaseBranch
  <1>3. CASE \E e \in Engine : CompactRetention(e)
    BY <1>3 DEF CompactRetention
  <1>4. CASE Pinning
    BY <1>4 DEF Pinning, History
  <1> QED  BY <1>1, <1>2, <1>3, <1>4, StepShape

LEMMA OrderedStep == TypeOK /\ Ordered /\ [Next]_vars => Ordered'
  <1> SUFFICES ASSUME TypeOK, Ordered, [Next]_vars, NEW l \in Line,
                      NEW i \in 1..Len(observations'[l]), NEW j \in 1..Len(observations'[l]),
                      i <= j
               PROVE  observations'[l][i].time <= observations'[l][j].time
    BY DEF Ordered
  <1>1. CASE observations'[l] = observations[l]
    BY <1>1 DEF Ordered
  <1>2. ASSUME NEW row, row.time = now, Appends(l, row)
        PROVE  observations'[l][i].time <= observations'[l][j].time
    <2> DEFINE n == Len(observations[l])
    <2>1. /\ n \in Nat /\ Len(observations'[l]) = n + 1
          /\ \A k \in 1..n : observations'[l][k] = observations[l][k]
          /\ observations'[l][n + 1].time = now
      BY <1>2, RowTypes DEF Appends
    <2>2. now \in Int /\ \A k \in 1..n : observations[l][k].time <= now
      BY <1>2, AppendIsLast, TableFacts
    <2>3. \A k, m \in 1..n : k <= m => observations[l][k].time <= observations[l][m].time
      BY DEF Ordered
    <2> HIDE DEF n
    <2>4. i \in 1..(n + 1) /\ j \in 1..(n + 1)
      BY <2>1
    <2>5. CASE j = n + 1
      <3>1. i = n + 1 \/ i \in 1..n
        BY <2>1, <2>4
      <3> QED  BY <2>1, <2>2, <2>5, <3>1
    <2>6. CASE j # n + 1
      <3>1. i \in 1..n /\ j \in 1..n
        BY <2>1, <2>4, <2>6
      <3> QED  BY <2>1, <2>3, <3>1
    <2> QED  BY <2>5, <2>6
  <1> QED  BY <1>1, <1>2, RowsStep

(***************************************************************************)
(* What an appended row does to the past                                   *)
(***************************************************************************)

LEMMA AsOfUnchanged ==
    ASSUME NEW l \in Line, NEW cut, observations'[l] = observations[l]
    PROVE  AsOf(l, cut)' = AsOf(l, cut)
  BY DEF AsOf, LatestAtOrBefore

\* An appended row answers every cut from its time on, and no earlier one.
LEMMA AsOfAppended ==
    ASSUME TypeOK, Ordered, NEW l \in Line, NEW row, row.time = now, Appends(l, row),
           NEW cut \in 0..MaxTime
    PROVE  AsOf(l, cut)' = IF now <= cut THEN row.revision ELSE AsOf(l, cut)
  <1> DEFINE n == Len(observations[l])
             rows == observations[l]
             more == observations'[l]
             L == LatestAtOrBefore(l, cut)
             M == LatestAtOrBefore(l, cut)'
  <1>1. /\ n \in Nat /\ Len(more) = n + 1 /\ more[n + 1] = row
        /\ \A k \in 1..n : more[k] = rows[k]
    BY RowTypes DEF Appends
  <1>2. now \in Int /\ cut \in Int /\ \A k \in 1..n : rows[k].time \in Int /\ rows[k].time <= now
    <2>1. now \in Int /\ cut \in Int
      BY TableFacts, BoundsAssumption
    <2>2. \A k \in 1..n : rows[k].time \in Int
      BY RowTypes
    <2>3. \A k \in 1..n : rows[k].time <= now
      BY AppendIsLast
    <2> QED  BY <2>1, <2>2, <2>3
  <1>3. /\ M = {i \in 1..Len(more) :
                   /\ more[i].time <= cut
                   /\ \A j \in 1..Len(more) : more[j].time <= cut =>
                         more[j].time < more[i].time \/ (more[j].time = more[i].time /\ j <= i)}
        /\ L = {i \in 1..n :
                   /\ rows[i].time <= cut
                   /\ \A j \in 1..n : rows[j].time <= cut =>
                         rows[j].time < rows[i].time \/ (rows[j].time = rows[i].time /\ j <= i)}
    BY DEF LatestAtOrBefore
  <1>4. AsOf(l, cut) = IF L = {} THEN None ELSE rows[CHOOSE i \in L : TRUE].revision
    BY DEF AsOf
  <1>5. AsOf(l, cut)' = IF M = {} THEN None ELSE more[CHOOSE i \in M : TRUE].revision
    BY DEF AsOf
  <1> HIDE DEF n, rows, more, L, M
  <1>6. 1..Len(more) = 1..n \cup {n + 1}
    BY <1>1
  <1>7. CASE now <= cut
    <2>1. n + 1 \in M
      <3>1. \A j \in 1..n : more[j].time < now \/ (more[j].time = now /\ j <= n + 1)
        BY <1>1, <1>2
      <3> QED  BY <1>1, <1>2, <1>3, <1>6, <1>7, <3>1
    <2>2. ASSUME NEW i \in 1..n PROVE i \notin M
      <3>1. more[i].time <= now /\ more[i].time \in Int /\ ~(n + 1 <= i)
        BY <1>1, <1>2
      <3>2. ~(now < more[i].time)
        BY <1>2, <3>1
      <3> QED  BY <1>1, <1>3, <1>6, <1>7, <3>1, <3>2
    <2>3. M = {n + 1}
      BY <1>3, <1>6, <2>1, <2>2
    <2> QED  BY <1>1, <1>5, <1>7, <2>3
  <1>8. CASE ~(now <= cut)
    <2>1. n + 1 \notin M
      BY <1>1, <1>3, <1>8
    <2>2. ASSUME NEW i \in 1..n PROVE i \in M <=> i \in L
      BY <1>1, <1>3, <1>6, <1>8
    <2>3. M = L
      BY <1>3, <1>6, <2>1, <2>2
    <2>4. L # {} => (CHOOSE i \in L : TRUE) \in 1..n
      BY <1>3
    <2> QED  BY <1>1, <1>4, <1>5, <1>8, <2>3, <2>4
  <1> QED  BY <1>7, <1>8

\* The invariant both theorems stand on.
RegisterInv == TypeOK /\ HistoryInv /\ Ordered

LEMMA RegisterInvariant == Spec => []RegisterInv
  <1>1. Init => RegisterInv
    BY InitTypeOK, HistoryInit DEF Init, Ordered, RegisterInv
  <1>2. RegisterInv /\ [Next]_vars => RegisterInv'
    BY NextTypeOK, HistoryStep, OrderedStep DEF RegisterInv
  <1> QED  BY <1>1, <1>2, PTL DEF Spec

\* What a line was known to be before its last row never changes.
THEOREM PastIsStable == Spec => AsOfStable
  <1>1. ASSUME RegisterInv, [Next]_vars, NEW l \in Line, NEW cut \in 0..MaxTime,
               observations[l] # <<>>, cut < TipTime(l)
        PROVE  AsOf(l, cut)' = AsOf(l, cut)
    <2>1. TypeOK /\ Ordered
      BY <1>1 DEF RegisterInv
    <2>2. ASSUME NEW row, row.time = now, Appends(l, row)
          PROVE  AsOf(l, cut)' = AsOf(l, cut)
      <3>1. TipTime(l) <= now
        BY <1>1, <2>2 DEF Appends
      <3>2. now \in Int /\ cut \in Int
        BY <2>1, TableFacts, BoundsAssumption
      <3>3. TipTime(l) \in Int
        <4>1. Len(observations[l]) \in 1..Len(observations[l])
          BY <1>1, <2>1, RowTypes
        <4> QED  BY <2>1, <4>1, RowTypes DEF TipTime
      <3>4. ~(now <= cut)
        BY <1>1, <3>1, <3>2, <3>3
      <3> QED  BY <2>1, <2>2, <3>4, AsOfAppended
    <2> QED  BY <1>1, <2>1, <2>2, AsOfUnchanged, RowsStep
  <1>2. RegisterInv /\ [Next]_vars =>
           [\A l \in Line, cut \in 0..MaxTime :
              observations[l] # <<>> /\ cut < TipTime(l) => AsOf(l, cut)' = AsOf(l, cut)]_vars
    BY <1>1
  <1> QED  BY <1>2, RegisterInvariant, PTL DEF Spec, AsOfStable

(***************************************************************************)
(* The retained window                                                     *)
(***************************************************************************)

\* The row a cut selects is the boundary of the floor, or at or behind the floor.
LEMMA SelectedIsRoot ==
    ASSUME TypeOK, Ordered, NEW l \in Line, heads[l] # None, NEW cut \in 0..MaxTime,
           policy.floor <= cut, NEW i \in LatestAtOrBefore(l, cut)
    PROVE  observations[l][i].revision \in RecordedRoots(policy.floor)
  <1> DEFINE n == Len(observations[l])
             rows == observations[l]
  <1>1. /\ n \in Nat /\ i \in 1..n /\ rows[i].time <= cut
        /\ \A j \in 1..n : rows[j].time <= cut =>
              rows[j].time < rows[i].time \/ (rows[j].time = rows[i].time /\ j <= i)
    BY RowTypes DEF LatestAtOrBefore
  <1>2. \A j \in 1..n : rows[j].time \in Int
    BY RowTypes
  <1>3. \A j, k \in 1..n : j <= k => rows[j].time <= rows[k].time
    BY DEF Ordered
  <1>4. policy.floor \in Int /\ cut \in Int
    <2>1. policy.floor \in 0..MaxTime
      BY DEF TypeOK
    <2> QED  BY <2>1, BoundsAssumption
  <1>5. i \in {j \in 1..n : rows[j].time >= policy.floor} \cup Boundary(l, policy.floor)
    <2>1. CASE rows[i].time >= policy.floor
      BY <1>1, <2>1
    <2>2. CASE ~(rows[i].time >= policy.floor)
      <3>1. rows[i].time <= policy.floor
        BY <1>1, <1>2, <1>4, <2>2
      <3>2. ASSUME NEW j \in 1..n, rows[j].time <= policy.floor PROVE j <= i
        <4> HIDE DEF n, rows
        <4>1. rows[j].time <= cut
          BY <1>2, <1>4, <3>2
        <4>2. rows[j].time < rows[i].time \/ j <= i
          BY <1>1, <4>1
        <4>3. rows[j].time < rows[i].time => ~(i <= j)
          BY <1>1, <1>2, <1>3
        <4> QED  BY <1>1, <4>2, <4>3
      <3> QED  BY <1>1, <3>1, <3>2 DEF Boundary
    <2> QED  BY <2>1, <2>2
  <1> DEFINE Kept(x) == {observations[x][k].revision :
               k \in {j \in 1..Len(observations[x]) : observations[x][j].time >= policy.floor}
                        \cup Boundary(x, policy.floor)}
  <1>6. observations[l][i].revision \in Kept(l)
    BY <1>5
  <1>7. RecordedRoots(policy.floor) = UNION {Kept(x) : x \in Line}
    BY DEF RecordedRoots
  <1> HIDE DEF Kept
  <1> QED  BY <1>6, <1>7

\* Every cut inside the retained window of a live line is readable, and the row
\* after the selected one lies behind the cut.
THEOREM WindowIsServed == Spec => []AsOfServed
  <1>1. ASSUME RegisterInv, RootsLoad PROVE AsOfServed
    <2> SUFFICES ASSUME NEW l \in Line, NEW cut \in 0..MaxTime,
                        heads[l] # None, policy.floor <= cut
                 PROVE  AsOf(l, cut) \in {None} \cup Present /\ SuccessorAfterCut(l, cut)
      BY DEF AsOfServed
    <2>0. TypeOK /\ Ordered
      BY <1>1 DEF RegisterInv
    <2>1. ASSUME NEW i \in LatestAtOrBefore(l, cut)
          PROVE  observations[l][i].revision \in Present
      BY <1>1, <2>0, <2>1, SelectedIsRoot DEF RootsLoad, Roots
    <2>2. AsOf(l, cut) \in {None} \cup Present
      BY <2>1 DEF AsOf
    <2>3. ASSUME NEW i \in LatestAtOrBefore(l, cut), i < Len(observations[l])
          PROVE  observations[l][i + 1].time > cut
      <3> DEFINE n == Len(observations[l])
      <3>1. n \in Nat /\ i \in 1..n
        BY <2>0, RowTypes DEF LatestAtOrBefore
      <3>2. i + 1 \in 1..n /\ ~(i + 1 <= i) /\ i <= i + 1
        BY <2>3, <3>1
      <3>3. observations[l][i].time <= observations[l][i + 1].time
        BY <2>0, <3>1, <3>2 DEF Ordered
      <3>4. observations[l][i].time \in Int /\ observations[l][i + 1].time \in Int
        BY <2>0, <3>1, <3>2, RowTypes
      <3>5. observations[l][i + 1].time <= cut =>
               observations[l][i + 1].time < observations[l][i].time
        BY <3>2 DEF LatestAtOrBefore
      <3>6. cut \in Int
        BY BoundsAssumption
      <3> HIDE DEF n
      <3> QED  BY <3>3, <3>4, <3>5, <3>6
    <2> QED  BY <2>2, <2>3 DEF SuccessorAfterCut
  <1> QED  BY <1>1, RegisterInvariant, RetentionSafe, PTL

(***************************************************************************)
(* Refinement                                                              *)
(***************************************************************************)

\* A movement of heads is a write at the time of the transaction.
LEMMA MovementIsWrite ==
    ASSUME RegisterInv, TypeOK', Movement
    PROVE  Register!Next
  <1>1. TypeOK /\ HistoryInv /\ Ordered
    BY DEF RegisterInv
  <1>2. PICK S \in SUBSET Line : \E revision \in [S -> Revs'], basis \in [S -> Expectable] :
               Moves(S, revision, basis)
    BY DEF Movement
  <1>3. PICK revision \in [S -> Revs'], basis \in [S -> Expectable] : Moves(S, revision, basis)
    BY <1>2
  <1>4. AdvanceHeads(S, revision, basis) /\ retired' = retired
    BY <1>3 DEF Moves
  <1> DEFINE row(l) == [revision |-> revision[l], time |-> now, basis |-> basis[l]]
  <1>5. \A l \in S : Appends(l, row(l)) /\ row(l).time = now /\ row(l).revision = revision[l]
    BY <1>1, <1>4, MovementAppends
  <1>6. \A l \in Line \ S : observations'[l] = observations[l]
    BY <1>1, <1>4, MovementAppends
  <1> HIDE DEF row
  <1>7. S \cap retired = {}
    BY <1>5 DEF Appends
  <1>8. \A l \in S : (IF observations[l] = <<>> THEN 0 ELSE TipTime(l)) <= now
    <2>1. now \in 0..MaxTime
      BY <1>1, TableFacts
    <2> QED  BY <1>5, <2>1, BoundsAssumption DEF Appends
  <1>9. heads' = [l \in Line |-> IF l \in S THEN revision[l] ELSE heads[l]]
    BY <1>4 DEF AdvanceHeads
  <1>10. [l \in Line |-> [c \in 0..MaxTime |-> AsOf(l, c)']] =
           [l \in Line |-> [c \in 0..MaxTime |->
              IF l \in S /\ now <= c THEN revision[l]
              ELSE [x \in Line |-> [y \in 0..MaxTime |-> AsOf(x, y)]][l][c]]]
    <2>1. ASSUME NEW l \in S, NEW c \in 0..MaxTime
          PROVE  AsOf(l, c)' = IF now <= c THEN revision[l] ELSE AsOf(l, c)
      BY <1>1, <1>5, AsOfAppended
    <2>2. ASSUME NEW l \in Line \ S, NEW c \in 0..MaxTime
          PROVE  AsOf(l, c)' = AsOf(l, c)
      BY <1>6, AsOfUnchanged
    <2> QED  BY <2>1, <2>2
  <1>11. [l \in Line |-> IF observations'[l] = <<>> THEN 0 ELSE TipTime(l)'] =
           [l \in Line |-> IF l \in S THEN now
              ELSE [x \in Line |-> IF observations[x] = <<>> THEN 0 ELSE TipTime(x)][l]]
    <2>1. ASSUME NEW l \in S PROVE observations'[l] # <<>> /\ TipTime(l)' = now
      <3>1. /\ Len(observations'[l]) = Len(observations[l]) + 1 /\ observations'[l] # <<>>
            /\ observations'[l][Len(observations[l]) + 1] = row(l) /\ row(l).time = now
        BY <1>5 DEF Appends
      <3>2. TipTime(l)' = observations'[l][Len(observations'[l])].time
        BY DEF TipTime
      <3> QED  BY <3>1, <3>2
    <2>2. ASSUME NEW l \in Line \ S PROVE TipTime(l)' = TipTime(l) /\ observations'[l] = observations[l]
      BY <1>6 DEF TipTime
    <2> QED  BY <2>1, <2>2
  <1>12. revision \in [S -> 1..MaxRevisions]
    <2>1. revisions' \in Seq(RevisionRow) /\ Len(revisions') <= MaxRevisions
      BY DEF TypeOK
    <2>2. Len(revisions') \in Nat
      BY <2>1
    <2>3. Revs' \subseteq 1..MaxRevisions
      BY <2>1, <2>2, BoundsAssumption DEF Revs
    <2> QED  BY <2>3
  <1>13. now \in 0..MaxTime
    BY <1>1, TableFacts
  <1>14. PICK t \in 0..MaxTime : t = now
    BY <1>13
  <1>15. Register!Write(S, revision, t)
    BY <1>4, <1>7, <1>8, <1>9, <1>10, <1>11, <1>14 DEF Register!Write
  <1> QED  BY <1>12, <1>15 DEF Register!Next

\* Every step of the store is a step of the register, or is not seen by its readers.
LEMMA StepRefines ==
    ASSUME RegisterInv, TypeOK', [Next]_vars
    PROVE  [Register!Next]_(Register!register)
  <1>1. TypeOK /\ HeadIsTip
    BY DEF RegisterInv, HistoryInv
  <1>2. ASSUME UNCHANGED <<heads, observations, retired>>
        PROVE  UNCHANGED Register!register
    BY <1>2 DEF Register!register, AsOf, LatestAtOrBefore, TipTime
  <1>3. ASSUME NEW e \in Engine, NEW l \in Line, NEW x \in Expectable, ReleaseBranch(e, l, x)
        PROVE  Register!Next
    <2>1. heads[l] # None /\ retired' = retired \cup {l} /\ observations' = observations
          /\ heads' = [heads EXCEPT ![l] = None]
      BY <1>3 DEF ReleaseBranch, DropHead
    <2>2. l \notin retired
      BY <1>1, <2>1 DEF HeadIsTip
    <2>3. Register!Retire(l)
      BY <2>1, <2>2 DEF Register!Retire, AsOf, LatestAtOrBefore, TipTime
    <2> QED  BY <2>3 DEF Register!Next
  <1>4. CASE \E e \in Engine : CompactRetention(e)
    BY <1>2, <1>4 DEF CompactRetention
  <1>5. CASE Pinning
    BY <1>2, <1>5 DEF Pinning, History
  <1> QED  BY <1>1, <1>3, <1>4, <1>5, StepShape, MovementIsWrite

\* The store implements the recorded register.
THEOREM Implementation == Spec => ImplementsRegister
  <1>1. Init => Register!Init
    <2> SUFFICES ASSUME Init PROVE Register!Init
      OBVIOUS
    <2>1. heads = [l \in Line |-> None] /\ observations = [l \in Line |-> <<>>] /\ retired = {}
      BY DEF Init
    <2>2. \A l \in Line, c \in 0..MaxTime : AsOf(l, c) = None
      BY <2>1 DEF AsOf, LatestAtOrBefore
    <2> QED  BY <2>1, <2>2 DEF Register!Init
  <1>2. RegisterInv /\ RegisterInv' /\ [Next]_vars => [Register!Next]_(Register!register)
    BY StepRefines DEF RegisterInv
  <1> QED  BY <1>1, <1>2, RegisterInvariant, PTL DEF Spec, ImplementsRegister, Register!Spec

=============================================================================
