--------------------------- MODULE Registry_proofs ---------------------------
(***************************************************************************)
(* What the operators of Registry compute, and what every change of a batch*)
(* preserves, for every value of the constants.                            *)
(*                                                                         *)
(* Registry has no specification of its own: Facts takes its steps, and    *)
(* Facts_proofs states the theorems.  A set reached along edges is used    *)
(* through two facts only: it is closed (ReachClosed) and it is the least  *)
(* closed set (ReachLeast).                                                *)
(***************************************************************************)
EXTENDS Registry, FiniteSetTheorems, SequenceTheorems, WellFoundedInduction, TLAPS

(***************************************************************************)
(* Recursive functions                                                     *)
(***************************************************************************)

\* The least number of a set, in place of induction.
LEMMA LeastNat ==
    ASSUME NEW T \in SUBSET Nat, T # {}
    PROVE  \E x \in T : \A y \in T : x <= y
  <1> DEFINE R == OpToRel(<, Nat)
  <1>1. IsWellFoundedOn(R, Nat)
    BY NatLessThanWellFounded
  <1>2. ASSUME NEW x \in T, NEW y \in T, y < x PROVE <<y, x>> \in R
    <2> DEFINE p == <<y, x>>
    <2>1. p \in Nat \X Nat /\ p[1] < p[2]
      BY <1>2
    <2> HIDE DEF p
    <2>2. p \in R
      BY <2>1 DEF OpToRel
    <2> QED  BY <2>2 DEF p
  <1> HIDE DEF R
  <1>3. PICK x \in T : \A y \in T : ~ (<<y, x>> \in R)
    BY <1>1, WFMin
  <1>4. \A y \in T : ~ (y < x)
    BY <1>2, <1>3
  <1> QED  BY <1>3, <1>4

\* A set of numbers that holds 0 and the successor of each of its members below N is all of 0..N.
LEMMA UpTo ==
    ASSUME NEW N \in Nat, NEW G, 0 \in G, \A n \in 1..N : n - 1 \in G => n \in G
    PROVE  0..N \subseteq G
  <1> DEFINE T == {n \in 0..N : n \notin G}
  <1> SUFFICES ASSUME T # {} PROVE FALSE
    OBVIOUS
  <1>1. PICK x \in T : \A y \in T : x <= y
    <2>1. T \in SUBSET Nat
      OBVIOUS
    <2> HIDE DEF T
    <2> QED  BY <2>1, LeastNat
  <1>2. x \in 1..N /\ x - 1 \in 0..N /\ x \notin G
    OBVIOUS
  <1>3. x - 1 \notin T
    <2>1. ~ (x <= x - 1)
      BY <1>2
    <2> HIDE DEF T
    <2> QED  BY <1>1, <2>1
  <1> QED  BY <1>2, <1>3

\* f holds the values in D of the recursion that starts with a and steps by F.
Iterated(f, D, a, N, F) ==
    /\ f \in [0..N -> D] /\ f[0] = a
    /\ \A n \in 1..N : f[n] = F[n][f[n - 1]]

LEMMA Iterates ==
    ASSUME NEW D, NEW a \in D, NEW N \in Nat, NEW F \in [1..N -> [D -> D]]
    PROVE  \E f : Iterated(f, D, a, N, F)
  <1> DEFINE Good(n, f) == f[0] = a /\ \A k \in 1..n : f[k] = F[k][f[k - 1]]
             G == {n \in 0..N : \E f \in [0..n -> D] : Good(n, f)}
  <1>1. 0 \in G
    <2> DEFINE f == [k \in 0..0 |-> a]
    <2>1. f \in [0..0 -> D] /\ Good(0, f)
      OBVIOUS
    <2> HIDE DEF f, Good
    <2> QED  BY <2>1
  <1>2. ASSUME NEW n \in 1..N, n - 1 \in G PROVE n \in G
    <2>1. PICK f \in [0..(n - 1) -> D] : Good(n - 1, f)
      BY <1>2
    <2> DEFINE g == [k \in 0..n |-> IF k = n THEN F[n][f[n - 1]] ELSE f[k]]
    <2>2. \A k \in 0..n : k = n \/ k \in 0..(n - 1)
      OBVIOUS
    <2>3. F[n] \in [D -> D] /\ f[n - 1] \in D
      BY <2>1
    <2>4. g \in [0..n -> D]
      BY <2>2, <2>3
    <2>5. g[0] = a
      BY <2>1
    <2>6. ASSUME NEW k \in 1..n PROVE g[k] = F[k][g[k - 1]]
      <3>1. k - 1 \in 0..n /\ k - 1 # n /\ g[k - 1] = f[k - 1]
        OBVIOUS
      <3>2. CASE k = n
        BY <3>1, <3>2
      <3>3. CASE k # n
        <4>1. k \in 1..(n - 1) /\ g[k] = f[k]
          BY <3>3
        <4>2. f[k] = F[k][f[k - 1]]
          BY <2>1, <4>1
        <4> HIDE DEF g
        <4> QED  BY <3>1, <4>1, <4>2
      <3> QED  BY <3>2, <3>3
    <2>7. Good(n, g)
      <3> HIDE DEF g
      <3> QED  BY <2>5, <2>6
    <2> HIDE DEF g, Good
    <2> QED  BY <2>4, <2>7
  <1>3. N \in G
    <2> HIDE DEF G
    <2>1. 0..N \subseteq G
      BY <1>1, <1>2, UpTo
    <2> QED  BY <2>1
  <1> QED  BY <1>3 DEF Iterated

(***************************************************************************)
(* Reach                                                                   *)
(***************************************************************************)

Succ(E, S) == {e[2] : e \in {x \in E : x[1] \in S}}
Edges(E) == \A e \in E : e[2] \in Principal
Size == Cardinality(Principal)

LEMMA SizeType == Size \in Nat
  BY RegistryAssumption, FS_CardinalityType DEF Size

LEMMA ReachSteps ==
    ASSUME NEW E, Edges(E), NEW p
    PROVE  \E f \in [0..Size -> SUBSET Principal] :
              /\ f[0] = {}
              /\ \A n \in 1..Size : f[n] = Succ(E, {p} \cup f[n - 1])
              /\ Reach(E, p) = f[Size]
  <1> DEFINE N == Size
             step(f, n) == IF n = 0 THEN {} ELSE Succ(E, {p} \cup f[n - 1])
             eq(f) == f = [n \in 0..N |-> step(f, n)]
             reached == CHOOSE f : eq(f)
             D == SUBSET Principal
             F == [n \in 1..N |-> [S \in D |-> Succ(E, {p} \cup S)]]
  <1>1. Reach(E, p) = reached[N]
    BY DEF Reach, Succ, Size
  <1>2. N \in Nat
    BY SizeType
  <1>3. \A S : Succ(E, S) \in D
    BY DEF Succ, Edges
  <1>4. F \in [1..N -> [D -> D]] /\ {} \in D
    BY <1>3
  <1>5. PICK g : g \in [0..N -> D] /\ g[0] = {} /\ \A n \in 1..N : g[n] = F[n][g[n - 1]]
    <2> HIDE DEF F, D, N
    <2>1. \E g : Iterated(g, D, {}, N, F)
      BY <1>2, <1>4, Iterates
    <2> QED  BY <2>1 DEF Iterated
  <1>6. \A n \in 1..N : n - 1 \in 0..N /\ g[n - 1] \in D
    BY <1>2, <1>5
  <1>7. \A n \in 0..N : g[n] = step(g, n)
    <2> SUFFICES ASSUME NEW n \in 0..N PROVE g[n] = step(g, n)
      OBVIOUS
    <2>1. CASE n = 0
      BY <1>5, <2>1
    <2>2. CASE n # 0
      <3>1. n \in 1..N
        BY <1>2, <2>2
      <3> QED  BY <1>5, <1>6, <2>2, <3>1
    <2> QED  BY <2>1, <2>2
  <1>8. eq(g)
    <2> HIDE DEF step, D, F
    <2> QED  BY <1>5, <1>7
  <1>9. eq(reached)
    <2> HIDE DEF eq
    <2> QED  BY <1>8
  <1> HIDE DEF reached, N
  <1>10. \A n \in 0..N : reached[n] = step(reached, n)
    <2> HIDE DEF step
    <2> QED  BY <1>9
  <1>11. reached \in [0..N -> D]
    <2>1. \A n \in 0..N : step(reached, n) \in D
      BY <1>3
    <2> HIDE DEF step, D
    <2> QED  BY <1>9, <2>1
  <1>12. reached[0] = {} /\ \A n \in 1..N : reached[n] = Succ(E, {p} \cup reached[n - 1])
    <2>1. 0 \in 0..N /\ \A n \in 1..N : n \in 0..N /\ n # 0
      BY <1>2
    <2> QED  BY <1>10, <2>1
  <1> QED  BY <1>1, <1>11, <1>12 DEF N

\* What is reached lies in every set that holds the successors of p and of its own members.
LEMMA ReachLeast ==
    ASSUME NEW E, Edges(E), NEW p, NEW S, Succ(E, {p} \cup S) \subseteq S
    PROVE  Reach(E, p) \subseteq S
  <1>1. PICK f \in [0..Size -> SUBSET Principal] :
           /\ f[0] = {}
           /\ \A n \in 1..Size : f[n] = Succ(E, {p} \cup f[n - 1])
           /\ Reach(E, p) = f[Size]
    BY ReachSteps
  <1> DEFINE G == {n \in 0..Size : f[n] \subseteq S}
  <1>2. 0 \in G
    BY <1>1, SizeType
  <1>3. ASSUME NEW n \in 1..Size, n - 1 \in G PROVE n \in G
    <2>1. f[n - 1] \subseteq S /\ f[n] = Succ(E, {p} \cup f[n - 1])
      BY <1>1, <1>3
    <2>2. Succ(E, {p} \cup f[n - 1]) \subseteq Succ(E, {p} \cup S)
      BY <2>1 DEF Succ
    <2>3. n \in 0..Size
      BY SizeType
    <2> QED  BY <2>1, <2>2, <2>3
  <1>4. Size \in G
    <2> HIDE DEF G
    <2> QED  BY <1>2, <1>3, SizeType, UpTo
  <1> QED  BY <1>1, <1>4

\* What is reached holds the successors of p and of its own members: as many steps as there
\* are principals reach everything, for each adds one that was not there or the last did.
LEMMA ReachClosed ==
    ASSUME NEW E, Edges(E), NEW p
    PROVE  /\ Succ(E, {p} \cup Reach(E, p)) \subseteq Reach(E, p)
           /\ Reach(E, p) \subseteq Principal
  <1>1. PICK f \in [0..Size -> SUBSET Principal] :
           /\ f[0] = {}
           /\ \A n \in 1..Size : f[n] = Succ(E, {p} \cup f[n - 1])
           /\ Reach(E, p) = f[Size]
    BY ReachSteps
  <1>2. Size \in Nat
    BY SizeType
  <1>3. \A n \in 0..Size : f[n] \in SUBSET Principal
    BY <1>1
  <1> DEFINE More(S) == Succ(E, {p} \cup S)
             M == {n \in 0..Size : f[n] \subseteq More(f[n])}
             G == {n \in 0..Size : More(f[n]) = f[n] \/ n <= Cardinality(f[n])}
  <1>4. \A S, T : S \subseteq T => More(S) \subseteq More(T)
    BY DEF Succ
  <1>5. \A n \in 1..Size : n - 1 \in 0..Size /\ n \in 0..Size /\ f[n] = More(f[n - 1])
    BY <1>1, <1>2
  <1> HIDE DEF More
  <1>6. \A n \in 0..Size : n \in M
    <2>1. 0 \in M
      BY <1>1, <1>2
    <2>2. ASSUME NEW n \in 1..Size, n - 1 \in M PROVE n \in M
      <3>1. f[n - 1] \subseteq More(f[n - 1]) /\ f[n] = More(f[n - 1])
        BY <1>5, <2>2
      <3>2. More(f[n - 1]) \subseteq More(f[n])
        BY <1>4, <3>1
      <3> QED  BY <1>5, <3>1, <3>2
    <2> HIDE DEF M
    <2> QED  BY <1>2, <2>1, <2>2, UpTo
  <1>7. \A n \in 0..Size : IsFiniteSet(f[n]) /\ Cardinality(f[n]) \in Nat
    BY <1>3, RegistryAssumption, FS_Subset, FS_CardinalityType
  <1>8. Size \in G
    <2>1. 0 \in G
      BY <1>1, <1>2, <1>7
    <2>2. ASSUME NEW n \in 1..Size, n - 1 \in G PROVE n \in G
      <3> DEFINE old == f[n - 1]
                 new == f[n]
      <3>1. /\ new = More(old) /\ n \in Nat /\ n \in 0..Size
            /\ (More(old) = old \/ n - 1 <= Cardinality(old))
        BY <1>2, <1>5, <2>2
      <3>2. old \subseteq new
        BY <1>5, <1>6, <3>1
      <3>3. CASE old = new
        BY <3>1, <3>3
      <3>4. CASE old # new
        <4>1. IsFiniteSet(new) /\ Cardinality(new) \in Nat /\ Cardinality(old) \in Nat
          BY <1>5, <1>7
        <4>2. Cardinality(old) <= Cardinality(new) /\ Cardinality(new) # Cardinality(old)
          BY <3>2, <3>4, <4>1, FS_Subset
        <4>3. n - 1 <= Cardinality(old)
          BY <3>1, <3>4
        <4> HIDE DEF old, new
        <4>4. n <= Cardinality(new)
          BY <3>1, <4>1, <4>2, <4>3
        <4> QED  BY <3>1, <4>4 DEF new
      <3> QED  BY <3>3, <3>4
    <2> HIDE DEF G
    <2> QED  BY <1>2, <2>1, <2>2, UpTo
  <1>9. Reach(E, p) \in SUBSET Principal
    BY <1>1, <1>2, <1>3
  <1>10. CASE More(f[Size]) = f[Size]
    BY <1>1, <1>9, <1>10 DEF More
  <1>11. CASE Size <= Cardinality(f[Size])
    <2>1. Cardinality(f[Size]) <= Size /\ Cardinality(f[Size]) \in Nat
      BY <1>1, <1>7, <1>9, <1>2, RegistryAssumption, FS_Subset DEF Size
    <2>2. f[Size] = Principal
      BY <1>1, <1>2, <1>9, <1>11, <2>1, RegistryAssumption, FS_Subset DEF Size
    <2>3. Succ(E, {p} \cup Principal) \subseteq Principal
      BY DEF Succ, Edges
    <2> QED  BY <1>1, <2>2, <2>3
  <1> QED  BY <1>8, <1>10, <1>11

LEMMA ReachGrows ==
    ASSUME NEW E, NEW F, Edges(F), E \subseteq F, NEW p
    PROVE  Reach(E, p) \subseteq Reach(F, p)
  <1>1. Succ(F, {p} \cup Reach(F, p)) \subseteq Reach(F, p)
    BY ReachClosed
  <1>2. Succ(E, {p} \cup Reach(F, p)) \subseteq Succ(F, {p} \cup Reach(F, p))
    BY DEF Succ
  <1>3. Edges(E)
    BY DEF Edges
  <1> QED  BY <1>1, <1>2, <1>3, ReachLeast

LEMMA ReachNothing == \A p : Reach({}, p) = {}
  <1> TAKE p
  <1>1. Edges({}) /\ Succ({}, {p} \cup {}) \subseteq {}
    BY DEF Edges, Succ
  <1> QED  BY <1>1, ReachLeast

(***************************************************************************)
(* Height                                                                  *)
(***************************************************************************)

Taller(s, T) == {g \in Groups(s) : \E e \in s.members : e[1] = g /\ e[2] \in T}

LEMMA HeightSteps ==
    ASSUME NEW s, NEW n \in Nat \ {0}
    PROVE  \E f \in [1..n -> SUBSET Groups(s)] :
              /\ f[1] = Groups(s)
              /\ \A k \in 2..n : f[k] = Taller(s, f[k - 1])
              /\ Height(s, n) = f[n]
  <1> DEFINE step(f, k) == IF k = 1 THEN Groups(s) ELSE Taller(s, f[k - 1])
             eq(f) == f = [k \in 1..n |-> step(f, k)]
             tall == CHOOSE f : eq(f)
             D == SUBSET Groups(s)
             m == n - 1
             F == [k \in 1..m |-> [T \in D |-> Taller(s, T)]]
  <1>1. Height(s, n) = tall[n]
    BY DEF Height, Taller
  <1>2. \A T : Taller(s, T) \in D
    BY DEF Taller
  <1>3. F \in [1..m -> [D -> D]] /\ Groups(s) \in D /\ m \in Nat
    BY <1>2
  <1>4. PICK g : g \in [0..m -> D] /\ g[0] = Groups(s) /\ \A k \in 1..m : g[k] = F[k][g[k - 1]]
    <2> HIDE DEF F, D, m
    <2>1. \E g : Iterated(g, D, Groups(s), m, F)
      BY <1>3, Iterates
    <2> QED  BY <2>1 DEF Iterated
  <1> DEFINE h == [k \in 1..n |-> g[k - 1]]
  <1>5. \A k \in 1..n : k - 1 \in 0..(n - 1) /\ (k # 1 => k - 1 \in 1..(n - 1) /\ k - 1 \in 1..n)
    OBVIOUS
  <1>6. \A k \in 1..n : h[k] = step(h, k)
    <2> SUFFICES ASSUME NEW k \in 1..n PROVE h[k] = step(h, k)
      OBVIOUS
    <2>1. CASE k = 1
      BY <1>4, <2>1
    <2>2. CASE k # 1
      <3>1. k - 1 \in 1..(n - 1) /\ k - 1 \in 1..n /\ (k - 1) - 1 \in 0..(n - 1)
        BY <1>5, <2>2
      <3>2. g[k - 1] = F[k - 1][g[(k - 1) - 1]] /\ g[(k - 1) - 1] \in D
        BY <1>4, <3>1
      <3>3. g[k - 1] = Taller(s, g[(k - 1) - 1])
        BY <3>1, <3>2
      <3>4. h[k - 1] = g[(k - 1) - 1] /\ h[k] = g[k - 1]
        BY <3>1
      <3> HIDE DEF h, F
      <3> QED  BY <2>2, <3>3, <3>4
    <2> QED  BY <2>1, <2>2
  <1>7. eq(h)
    <2> HIDE DEF step
    <2> QED  BY <1>6
  <1>8. eq(tall)
    <2> HIDE DEF eq, h
    <2> QED  BY <1>7
  <1> HIDE DEF tall
  <1>9. \A k \in 1..n : tall[k] = step(tall, k)
    <2> HIDE DEF step
    <2> QED  BY <1>8
  <1>10. tall \in [1..n -> D]
    <2>1. \A k \in 1..n : step(tall, k) \in D
      BY <1>2
    <2> HIDE DEF step, D
    <2> QED  BY <1>8, <2>1
  <1>11. tall[1] = Groups(s) /\ \A k \in 2..n : tall[k] = Taller(s, tall[k - 1])
    <2>1. 1 \in 1..n /\ \A k \in 2..n : k \in 1..n /\ k # 1
      OBVIOUS
    <2> QED  BY <1>9, <2>1
  <1> QED  BY <1>1, <1>10, <1>11

\* The groups of t with n groups above them are those of s, or lie in a set X that the edges
\* of t that are not of s start from and that holds what leads to it.
LEMMA HeightGrows ==
    ASSUME NEW s, NEW t, NEW n \in Nat \ {0}, NEW X,
           Groups(t) \subseteq Groups(s) \cup X,
           \A e \in t.members : e[1] \in X \/ (e \in s.members /\ e[2] \notin X)
    PROVE  Height(t, n) \subseteq Height(s, n) \cup X
  <1>1. PICK f \in [1..n -> SUBSET Groups(s)] :
           /\ f[1] = Groups(s)
           /\ \A k \in 2..n : f[k] = Taller(s, f[k - 1])
           /\ Height(s, n) = f[n]
    BY HeightSteps
  <1>2. PICK h \in [1..n -> SUBSET Groups(t)] :
           /\ h[1] = Groups(t)
           /\ \A k \in 2..n : h[k] = Taller(t, h[k - 1])
           /\ Height(t, n) = h[n]
    BY HeightSteps
  <1> DEFINE G == {k \in 0..(n - 1) : h[k + 1] \subseteq f[k + 1] \cup X}
  <1>3. 0 \in G
    BY <1>1, <1>2
  <1>4. ASSUME NEW k \in 1..(n - 1), k - 1 \in G PROVE k \in G
    <2>1. h[k] \subseteq f[k] \cup X
      BY <1>4
    <2>2. k + 1 \in 2..n /\ (k + 1) - 1 = k
      OBVIOUS
    <2>3. f[k + 1] = Taller(s, f[k]) /\ h[k + 1] = Taller(t, h[k])
      BY <1>1, <1>2, <2>2
    <2>4. Taller(t, h[k]) \subseteq Taller(s, f[k]) \cup X
      BY <2>1 DEF Taller
    <2> QED  BY <2>3, <2>4
  <1>5. n - 1 \in G
    <2> HIDE DEF G
    <2>1. n - 1 \in Nat /\ n - 1 \in 0..(n - 1)
      OBVIOUS
    <2>2. 0..(n - 1) \subseteq G
      BY <1>3, <1>4, <2>1, UpTo
    <2> QED  BY <2>1, <2>2
  <1> QED  BY <1>1, <1>2, <1>5

\* With more than one group on it, a chain starts at a group that is a member of another.
LEMMA HeightIsBelow ==
    ASSUME NEW s, NEW n \in Nat \ {0}, NEW x \in Height(s, n)
    PROVE  /\ x \in Groups(s)
           /\ n # 1 => \E e \in s.members : e[1] = x /\ e[2] \in Groups(s)
  <1>1. PICK f \in [1..n -> SUBSET Groups(s)] :
           /\ f[1] = Groups(s)
           /\ \A k \in 2..n : f[k] = Taller(s, f[k - 1])
           /\ Height(s, n) = f[n]
    BY HeightSteps
  <1>2. CASE n = 1
    BY <1>1, <1>2
  <1>3. CASE n # 1
    <2>1. n \in 2..n /\ n - 1 \in 1..n
      BY <1>3
    <2>2. x \in Taller(s, f[n - 1]) /\ f[n - 1] \subseteq Groups(s)
      BY <1>1, <2>1
    <2> QED  BY <2>2 DEF Taller
  <1> QED  BY <1>2, <1>3

(***************************************************************************)
(* The shape of the registry                                               *)
(***************************************************************************)

\* Memberships hold registered principals in groups, no chain of them returns to its start,
\* and none has more than MAX_GROUP_DEPTH groups on it.
WellNested(s) ==
    /\ \A e \in s.members : e[1] \in Registered(s) /\ e[2] \in Groups(s)
    /\ \A p \in Principal : p \notin Ancestors(s, p)
    /\ Height(s, MAX_GROUP_DEPTH + 1) = {}

\* Agents are owned by registered users and agents and nobody else is owned; no chain of
\* owners returns to its start, and none is longer than MAX_OWNERSHIP_CHAIN.
Owned(s) ==
    \A a \in Principal :
        /\ IF s.kind[a] = "agent" THEN s.owner[a] \in Registered(s) \ Groups(s)
           ELSE s.owner[a] = NoOwner
        /\ a \notin Chain(s, a) /\ Cardinality(Chain(s, a)) <= MAX_OWNERSHIP_CHAIN

Sound(s) == s \in State /\ WellNested(s) /\ Owned(s)

LEMMA DepthType == MAX_GROUP_DEPTH + 1 \in Nat \ {0} /\ MAX_GROUP_DEPTH + 1 # 1
  BY RegistryAssumption

LEMMA MemberEdges ==
    ASSUME NEW s \in State
    PROVE  /\ Edges(s.members) /\ Edges({<<e[2], e[1]>> : e \in s.members})
           /\ \A e \in s.members : e = <<e[1], e[2]>> /\ e[1] \in Principal /\ e[2] \in Principal
  BY DEF State, Edges

OwnerEdges(s) == {<<a, s.owner[a]>> : a \in {q \in Principal : s.owner[q] # NoOwner}}

LEMMA OwnerEdgesType ==
    ASSUME NEW s \in State
    PROVE  /\ Edges(OwnerEdges(s)) /\ \A p : Chain(s, p) = Reach(OwnerEdges(s), p)
           /\ \A p : Chain(s, p) \subseteq Principal /\ IsFiniteSet(Chain(s, p))
                   /\ Cardinality(Chain(s, p)) \in Nat
  <1>1. Edges(OwnerEdges(s)) /\ \A p : Chain(s, p) = Reach(OwnerEdges(s), p)
    BY DEF State, Edges, OwnerEdges, Chain
  <1>2. \A p : Chain(s, p) \subseteq Principal
    BY <1>1, ReachClosed
  <1>3. \A p : IsFiniteSet(Chain(s, p)) /\ Cardinality(Chain(s, p)) \in Nat
    BY <1>2, RegistryAssumption, FS_Subset, FS_CardinalityType
  <1> QED  BY <1>1, <1>2, <1>3

LEMMA SameOwners ==
    ASSUME NEW s \in State, NEW t \in State, Owned(s), t.owner = s.owner,
           \A p \in Principal : t.kind[p] = "agent" <=> s.kind[p] = "agent",
           Registered(s) \ Groups(s) \subseteq Registered(t) \ Groups(t)
    PROVE  Owned(t)
  <1>1. \A p : Chain(t, p) = Chain(s, p)
    BY DEF Chain
  <1> QED  BY <1>1 DEF Owned

\* The owner comes first in the chain of an agent, and its own chain is the rest.
LEMMA ChainLink ==
    ASSUME NEW s \in State, Owned(s), NEW a \in Principal, s.kind[a] = "agent",
           NEW o, o = s.owner[a]
    PROVE  /\ o \in Principal /\ o \in Chain(s, a) /\ Chain(s, o) \subseteq Chain(s, a)
           /\ Cardinality(Chain(s, o)) < Cardinality(Chain(s, a))
  <1>1. o \in Principal /\ o # NoOwner /\ o \notin Chain(s, o)
    BY RegistryAssumption DEF Owned, Registered
  <1>2. <<a, o>> \in OwnerEdges(s)
    BY <1>1 DEF OwnerEdges
  <1>3. Succ(OwnerEdges(s), {a} \cup Chain(s, a)) \subseteq Chain(s, a)
    BY OwnerEdgesType, ReachClosed
  <1>4. o \in Chain(s, a)
    <2> DEFINE e == <<a, o>>
    <2>1. e \in OwnerEdges(s) /\ e[1] = a /\ e[2] = o
      BY <1>2
    <2> HIDE DEF e
    <2>2. o \in Succ(OwnerEdges(s), {a} \cup Chain(s, a))
      BY <2>1 DEF Succ
    <2> QED  BY <1>3, <2>2
  <1>5. Succ(OwnerEdges(s), {o} \cup Chain(s, a)) \subseteq Chain(s, a)
    BY <1>3, <1>4 DEF Succ
  <1>6. Chain(s, o) \subseteq Chain(s, a)
    BY <1>5, OwnerEdgesType, ReachLeast
  <1>7. Chain(s, o) # Chain(s, a)
    BY <1>1, <1>4
  <1>8. /\ IsFiniteSet(Chain(s, a))
        /\ Cardinality(Chain(s, a)) \in Nat /\ Cardinality(Chain(s, o)) \in Nat
    BY OwnerEdgesType
  <1>9. /\ Cardinality(Chain(s, o)) <= Cardinality(Chain(s, a))
        /\ Cardinality(Chain(s, o)) # Cardinality(Chain(s, a))
    BY <1>6, <1>7, <1>8, FS_Subset
  <1> QED  BY <1>1, <1>4, <1>6, <1>8, <1>9

\* Whom a chain leads to is registered.
LEMMA ChainIsRegistered ==
    ASSUME NEW s \in State, Owned(s), NEW p
    PROVE  Chain(s, p) \subseteq Registered(s)
  <1>1. Succ(OwnerEdges(s), {p} \cup Registered(s)) \subseteq Registered(s)
    <2>1. \A a \in Principal : s.owner[a] # NoOwner => s.owner[a] \in Registered(s)
      BY DEF Owned
    <2> QED  BY <2>1 DEF Succ, OwnerEdges
  <1> QED  BY <1>1, OwnerEdgesType, ReachLeast

\* A new agent lengthens no chain but its own, which is its owner's and one more.
LEMMA NewAgentIsOwned ==
    ASSUME NEW s \in State, NEW t \in State, Owned(s),
           NEW x \in Principal \ Registered(s), NEW o \in Registered(s) \ Groups(s),
           Cardinality(Chain(s, o)) < MAX_OWNERSHIP_CHAIN,
           t.kind[x] = "agent", t.owner[x] = o,
           \A p \in Principal : p # x => t.kind[p] = s.kind[p] /\ t.owner[p] = s.owner[p]
    PROVE  Owned(t)
  <1> DEFINE E == OwnerEdges(s)
             F == OwnerEdges(t)
  <1>1. o \in Principal /\ o # x /\ o # NoOwner
    BY RegistryAssumption DEF Registered
  <1>2. \A p \in Principal : s.owner[p] # x
    BY RegistryAssumption DEF Owned
  <1>3. s.owner[x] = NoOwner
    BY DEF Owned, Registered
  <1>4. \A e \in F : (e[1] = x /\ e[2] = o) \/ (e[1] # x /\ e \in E)
    BY DEF OwnerEdges
  <1>5. E \subseteq F
    BY <1>3 DEF OwnerEdges
  <1>6. \A p : x \notin Chain(s, p)
    BY ChainIsRegistered
  <1>7. Edges(E) /\ Edges(F)
    BY OwnerEdgesType
  <1> HIDE DEF E, F
  <1>8. ASSUME NEW p, p # x PROVE Chain(t, p) = Chain(s, p)
    <2>1. Succ(E, {p} \cup Chain(s, p)) \subseteq Chain(s, p)
      BY <1>7, OwnerEdgesType, ReachClosed DEF E
    <2>2. Succ(F, {p} \cup Chain(s, p)) \subseteq Succ(E, {p} \cup Chain(s, p))
      BY <1>4, <1>6, <1>8 DEF Succ
    <2>3. Reach(F, p) \subseteq Chain(s, p)
      BY <1>7, <2>1, <2>2, ReachLeast
    <2>4. Reach(E, p) \subseteq Reach(F, p)
      BY <1>5, <1>7, ReachGrows
    <2> QED  BY <2>3, <2>4, OwnerEdgesType DEF E, F
  <1>9. Chain(t, x) \subseteq {o} \cup Chain(s, o)
    <2> DEFINE S == {o} \cup Chain(s, o)
    <2>1. Succ(E, S) \subseteq S
      BY <1>7, OwnerEdgesType, ReachClosed DEF E
    <2>2. x \notin S
      BY <1>1, <1>6
    <2> HIDE DEF S
    <2>3. o \in S
      BY DEF S
    <2>4. Succ(F, {x} \cup S) \subseteq S
      BY <1>4, <2>1, <2>2, <2>3 DEF Succ
    <2>5. Reach(F, x) \subseteq S
      BY <1>7, <2>4, ReachLeast
    <2> QED  BY <2>5, OwnerEdgesType DEF F, S
  <1>10. Cardinality(Chain(t, x)) <= MAX_OWNERSHIP_CHAIN
    <2>1. /\ IsFiniteSet(Chain(s, o)) /\ Cardinality(Chain(s, o)) \in Nat
          /\ Cardinality(Chain(t, x)) \in Nat
      BY OwnerEdgesType
    <2>2. /\ IsFiniteSet(Chain(s, o) \cup {o})
          /\ Cardinality(Chain(s, o) \cup {o}) <= Cardinality(Chain(s, o)) + 1
      <3> DEFINE S == Chain(s, o)
      <3>1. IsFiniteSet(S) /\ Cardinality(S) \in Nat
        BY <2>1
      <3> HIDE DEF S
      <3>2. /\ IsFiniteSet(S \cup {o})
            /\ Cardinality(S \cup {o}) = IF o \in S THEN Cardinality(S) ELSE Cardinality(S) + 1
        BY <3>1, FS_AddElement
      <3>3. Cardinality(S \cup {o}) <= Cardinality(S) + 1
        BY <3>1, <3>2
      <3> QED  BY <3>2, <3>3 DEF S
    <2>3. Chain(t, x) \subseteq Chain(s, o) \cup {o}
      BY <1>9
    <2>4. /\ Cardinality(Chain(t, x)) <= Cardinality(Chain(s, o) \cup {o})
          /\ Cardinality(Chain(s, o) \cup {o}) \in Nat
      BY <2>2, <2>3, FS_Subset, FS_CardinalityType
    <2> QED  BY <2>1, <2>2, <2>4, RegistryAssumption
  <1>11. x \notin Chain(t, x)
    BY <1>1, <1>6, <1>9
  <1>12. Registered(s) \ Groups(s) \subseteq Registered(t) \ Groups(t)
    BY DEF Registered, Groups
  <1>13. ASSUME NEW a \in Principal
         PROVE  IF t.kind[a] = "agent" THEN t.owner[a] \in Registered(t) \ Groups(t)
                ELSE t.owner[a] = NoOwner
    BY <1>12 DEF Owned
  <1>14. ASSUME NEW a \in Principal
         PROVE  a \notin Chain(t, a) /\ Cardinality(Chain(t, a)) <= MAX_OWNERSHIP_CHAIN
    BY <1>8, <1>10, <1>11 DEF Owned
  <1> QED  BY <1>13, <1>14 DEF Owned

\* A registry with the same memberships and no more groups stays well nested.
LEMMA SameNesting ==
    ASSUME NEW s \in State, NEW t \in State, WellNested(s), t.members \subseteq s.members,
           Groups(t) = Groups(s), Registered(s) \subseteq Registered(t)
    PROVE  WellNested(t)
  <1>1. \A p : Ancestors(t, p) \subseteq Ancestors(s, p)
    BY MemberEdges, ReachGrows DEF Ancestors
  <1>2. Height(t, MAX_GROUP_DEPTH + 1) \subseteq Height(s, MAX_GROUP_DEPTH + 1) \cup {}
    BY HeightGrows, DepthType
  <1> QED  BY <1>1, <1>2 DEF WellNested

\* A principal that is new has no memberships, so a group no chain leads through.
LEMMA NewPrincipalNests ==
    ASSUME NEW s \in State, NEW t \in State, WellNested(s), t.members = s.members,
           NEW x \in Principal \ Registered(s),
           \A p \in Principal : p # x => t.kind[p] = s.kind[p]
    PROVE  WellNested(t)
  <1>1. \A e \in s.members : e[1] # x /\ e[2] # x /\ e[1] \in Principal /\ e[2] \in Principal
    <2>1. Groups(s) \subseteq Registered(s)
      BY DEF Groups, Registered
    <2> QED  BY <2>1, MemberEdges DEF WellNested
  <1>2. Registered(s) \subseteq Registered(t) /\ Groups(s) \subseteq Groups(t)
        /\ Groups(t) \subseteq Groups(s) \cup {x}
    BY DEF Registered, Groups
  <1>3. Height(t, MAX_GROUP_DEPTH + 1) \subseteq Height(s, MAX_GROUP_DEPTH + 1) \cup {x}
    BY <1>1, <1>2, HeightGrows, DepthType
  <1>4. x \notin Height(t, MAX_GROUP_DEPTH + 1)
    BY <1>1, HeightIsBelow, DepthType
  <1> QED  BY <1>1, <1>2, <1>3, <1>4 DEF WellNested, Ancestors

LEMMA AddedMember ==
    ASSUME NEW s \in State, NEW g \in Principal, NEW m \in Principal
    PROVE  /\ AddMember(s, g, m) \in State
           /\ AddMember(s, g, m) = [s EXCEPT !.members = s.members \cup {<<m, g>>}]
           /\ AddMember(s, g, m).members = s.members \cup {<<m, g>>}
  <1> DEFINE M == s.members \cup {<<m, g>>}
  <1>1. M \in SUBSET (Principal \X Principal)
    BY DEF State
  <1>2. AddMember(s, g, m) = [s EXCEPT !.members = M]
    BY DEF AddMember
  <1> HIDE DEF M
  <1>3. [s EXCEPT !.members = M] \in State /\ [s EXCEPT !.members = M].members = M
    BY <1>1 DEF State
  <1> QED  BY <1>2, <1>3 DEF M

\* A membership of m in g closes no cycle unless g is m or lies below it.
LEMMA MemberClosesNoCycle ==
    ASSUME NEW s \in State, NEW g \in Principal, NEW m \in Principal,
           m # g, m \notin Ancestors(s, g),
           NEW x \in Principal, x \notin Ancestors(s, x)
    PROVE  x \notin Ancestors(AddMember(s, g, m), x)
  <1> DEFINE E == s.members
             F == E \cup {<<m, g>>}
             T == {g} \cup Reach(E, g)
  <1>1. Edges(E) /\ Edges(F) /\ AddMember(s, g, m).members = F
    BY MemberEdges DEF AddMember, Edges, State
  <1>2. m \notin T /\ g \in T /\ Succ(E, T) \subseteq T
    BY <1>1, ReachClosed DEF Ancestors
  <1>3. CASE x \in T
    <2> DEFINE S == Reach(E, x)
    <2>1. Succ(E, {x} \cup T) \subseteq T
      BY <1>2, <1>3 DEF Succ
    <2>2. S \subseteq T
      BY <1>1, <2>1, ReachLeast
    <2>3. Succ(F, {x} \cup S) \subseteq Succ(E, {x} \cup S)
      BY <1>2, <1>3, <2>2 DEF Succ
    <2>4. Succ(E, {x} \cup S) \subseteq S
      BY <1>1, ReachClosed
    <2>5. Reach(F, x) \subseteq S
      <3> HIDE DEF S, F
      <3> QED  BY <1>1, <2>3, <2>4, ReachLeast
    <2> QED  BY <1>1, <2>5 DEF Ancestors
  <1>4. CASE x \notin T
    <2> DEFINE S == Reach(E, x) \cup T
    <2>1. Succ(E, {x} \cup Reach(E, x)) \subseteq Reach(E, x)
      BY <1>1, ReachClosed
    <2>2. Succ(F, {x} \cup S) \subseteq S
      BY <1>2, <2>1 DEF Succ
    <2>3. Reach(F, x) \subseteq S
      <3> HIDE DEF S, F
      <3> QED  BY <1>1, <2>2, ReachLeast
    <2> QED  BY <1>1, <1>4, <2>3 DEF Ancestors
  <1> QED  BY <1>3, <1>4

\* A membership that fits keeps the nesting: a chain that it makes too long starts below the
\* member it adds, where the depth is checked.
LEMMA MemberNests ==
    ASSUME NEW s \in State, NEW g \in Principal, NEW m \in Principal,
           WellNested(s), MemberFits(s, g, m)
    PROVE  WellNested(AddMember(s, g, m))
  <1> DEFINE t == AddMember(s, g, m)
  <1>1. /\ t \in State /\ t.members = s.members \cup {<<m, g>>}
        /\ Groups(t) = Groups(s) /\ Registered(t) = Registered(s)
    <2>1. t \in State /\ t.members = s.members \cup {<<m, g>>}
      BY AddedMember
    <2>2. t.kind = s.kind
      BY AddedMember DEF State
    <2> HIDE DEF t
    <2> QED  BY <2>1, <2>2 DEF Groups, Registered
  <1>2. g \in Groups(s) /\ m \in Registered(s)
    BY DEF MemberFits, Groups
  <1>3. CASE <<m, g>> \in s.members
    <2> HIDE DEF t
    <2>1. t.members = s.members
      BY <1>1, <1>3
    <2> QED  BY <1>1, <2>1, SameNesting DEF t
  <1>4. CASE <<m, g>> \notin s.members
    <2> DEFINE X == Below(s, m)
               B == {<<e[2], e[1]>> : e \in s.members}
    <2>1. /\ m # g /\ m \notin Ancestors(s, g)
          /\ \A p \in X : ~TooDeep(t, p)
      BY <1>4 DEF MemberFits
    <2>2. \A p \in Principal : p \notin Ancestors(t, p)
      BY <2>1, MemberClosesNoCycle DEF WellNested
    <2>3. \A e \in s.members : e[2] \in X => e[1] \in X
      <3> SUFFICES ASSUME NEW e \in s.members, e[2] \in X PROVE e[1] \in X
        OBVIOUS
      <3>1. Succ(B, {m} \cup Reach(B, m)) \subseteq Reach(B, m) /\ X = {m} \cup Reach(B, m)
        BY MemberEdges, ReachClosed DEF Below
      <3> DEFINE b == <<e[2], e[1]>>
      <3>2. b \in B /\ b[1] = e[2] /\ b[2] = e[1]
        OBVIOUS
      <3> HIDE DEF b, B, X
      <3> QED  BY <3>1, <3>2 DEF Succ
    <2>4. \A e \in t.members : e[1] \in X \/ (e \in s.members /\ e[2] \notin X)
      <3>1. m \in X
        BY DEF Below
      <3> HIDE DEF X, t
      <3> QED  BY <1>1, <2>3, <3>1
    <2> HIDE DEF X, t
    <2>5. Height(t, MAX_GROUP_DEPTH + 1) \subseteq Height(s, MAX_GROUP_DEPTH + 1) \cup X
      BY <1>1, <2>4, HeightGrows, DepthType
    <2>6. ASSUME NEW x \in Height(t, MAX_GROUP_DEPTH + 1) PROVE FALSE
      <3>1. x \in X /\ x \in Groups(t)
        BY <2>5, <2>6, HeightIsBelow, DepthType DEF WellNested
      <3>2. TooDeep(t, x)
        BY <2>6, <3>1 DEF TooDeep
      <3> QED  BY <2>1, <3>1, <3>2
    <2>7. \A e \in t.members : e[1] \in Registered(t) /\ e[2] \in Groups(t)
      BY <1>1, <1>2 DEF WellNested
    <2> QED  BY <2>2, <2>6, <2>7 DEF WellNested, t
  <1> QED  BY <1>3, <1>4

(***************************************************************************)
(* One change                                                              *)
(***************************************************************************)

LEMMA ChangeFields ==
    ASSUME NEW c \in RegistryChange
    PROVE  /\ c.change \in {"add_principal", "add_agent", "set_delegation", "set_status",
                            "add_member", "remove_member", "set_group_administrators", "grant",
                            "revoke", "protect_branch", "unprotect_branch",
                            "grant_branch_write", "revoke_branch_write"}
           /\ c.change = "add_principal" => c.id \in Principal /\ c.kind \in Kind \ {"unregistered"}
           /\ c.change = "add_agent" =>
                 c.id \in Principal /\ c.owner \in Principal /\ c.delegation \in Delegation
           /\ c.change = "set_delegation" => c.id \in Principal /\ c.delegation \in Delegation
           /\ c.change = "set_status" => c.id \in Principal /\ c.status \in Status
           /\ c.change \in {"add_member", "remove_member"} => c.id \in Principal /\ c.group \in Principal
           /\ c.change = "set_group_administrators" =>
                 c.group \in Principal /\ c.administrators \subseteq Principal
           /\ c.change = "grant" =>
                 c.graph \in Graph /\ c.id \in Principal /\ c.permission \in 1..Administer
           /\ c.change = "revoke" => c.graph \in Graph /\ c.id \in Principal
           /\ c.change \in {"protect_branch", "unprotect_branch"} =>
                 c.graph \in Graph /\ c.branch \in Branch
           /\ c.change \in {"grant_branch_write", "revoke_branch_write"} =>
                 c.graph \in Graph /\ c.branch \in Branch /\ c.id \in Principal
  BY DEF RegistryChange

LEMMA ChangedTypes ==
    ASSUME NEW s \in State, NEW c \in RegistryChange
    PROVE  Changed(s, c) \in State
  <1>1. CASE c.change = "add_principal"
    BY <1>1, ChangeFields DEF Changed, State
  <1>2. CASE c.change = "add_agent"
    BY <1>2, ChangeFields DEF Changed, State, Kind
  <1>3. CASE c.change = "set_delegation"
    BY <1>3, ChangeFields DEF Changed, State
  <1>4. CASE c.change = "set_status"
    BY <1>4, ChangeFields DEF Changed, State
  <1>5. CASE c.change = "add_member"
    BY <1>5, ChangeFields, AddedMember DEF Changed
  <1>6. CASE c.change = "remove_member"
    BY <1>6, ChangeFields DEF Changed, State, RemoveMember
  <1>7. CASE c.change = "set_group_administrators"
    BY <1>7, ChangeFields DEF Changed, State
  <1>8. ASSUME NEW level \in Level, Changed(s, c) = [s EXCEPT !.grants[c.graph][c.id] = level]
        PROVE  Changed(s, c) \in State
    <2>1. s.grants \in [Graph -> [Principal -> Level]]
      BY DEF State
    <2>2. [s.grants EXCEPT ![c.graph][c.id] = level] \in [Graph -> [Principal -> Level]]
      BY <2>1
    <2>3. Changed(s, c) = [s EXCEPT !.grants = [s.grants EXCEPT ![c.graph][c.id] = level]]
      BY <1>8
    <2> QED  BY <2>2, <2>3 DEF State
  <1>9. CASE c.change \in {"grant", "revoke"}
    <2>1. CASE c.change = "grant"
      <3>1. c.permission \in Level /\ Changed(s, c) = [s EXCEPT !.grants[c.graph][c.id] = c.permission]
        BY <2>1, ChangeFields DEF Changed, Level, Administer
      <3> QED  BY <1>8, <3>1
    <2>2. CASE c.change = "revoke"
      <3>1. 0 \in Level /\ Changed(s, c) = [s EXCEPT !.grants[c.graph][c.id] = 0]
        BY <2>2, ChangeFields DEF Changed, Level, Administer
      <3> QED  BY <1>8, <3>1
    <2> QED  BY <1>9, <2>1, <2>2
  <1>10. CASE c.change = "protect_branch"
    BY <1>10, ChangeFields DEF Changed, State
  <1>11. CASE c.change = "unprotect_branch"
    BY <1>11, ChangeFields DEF Changed, State
  <1>12. CASE c.change = "grant_branch_write"
    <2> DEFINE W == s.writers \cup {<<c.graph, c.branch, c.id>>}
    <2>1. W \in SUBSET (Graph \X Branch \X Principal)
      <3>1. s.writers \in SUBSET (Graph \X Branch \X Principal)
        BY DEF State
      <3>2. <<c.graph, c.branch, c.id>> \in Graph \X Branch \X Principal
        BY <1>12, ChangeFields
      <3> QED  BY <3>1, <3>2
    <2>2. Changed(s, c) = [s EXCEPT !.writers = W]
      BY <1>12 DEF Changed
    <2> HIDE DEF W
    <2> QED  BY <2>1, <2>2 DEF State
  <1>13. CASE c.change = "revoke_branch_write"
    BY <1>13, ChangeFields DEF Changed, State
  <1> QED
    BY <1>1, <1>2, <1>3, <1>4, <1>5, <1>6, <1>7, <1>9, <1>10, <1>11, <1>12, <1>13, ChangeFields

\* What the permission to make a change has checked of it.
LEMMA PermittedFacts ==
    ASSUME NEW s, NEW h, NEW c, NEW now, Permitted(s, h, c, now)
    PROVE  /\ c.change = "add_principal" => c.kind # "agent" /\ c.id \notin Registered(s)
           /\ c.change = "add_agent" => /\ c.id \notin Registered(s)
                                        /\ c.owner \in Registered(s) \ Groups(s)
                                        /\ Cardinality(Chain(s, c.owner)) < MAX_OWNERSHIP_CHAIN
           /\ c.change = "add_member" => MemberFits(s, c.group, c.id)
  BY DEF Permitted, OnPrincipal, OnGroup, OnGraph, ChainFits

LEMMA ChangedSound ==
    ASSUME NEW s, Sound(s), NEW h, NEW c \in RegistryChange, NEW now, Permitted(s, h, c, now)
    PROVE  Sound(Changed(s, c))
  <1> DEFINE t == Changed(s, c)
  <1>1. s \in State /\ WellNested(s) /\ Owned(s) /\ t \in State
    BY ChangedTypes DEF Sound
  <1>2. CASE c.change = "add_principal"
    <2>1. c.id \in Principal \ Registered(s) /\ c.kind # "agent"
      BY <1>2, ChangeFields, PermittedFacts
    <2>2. t = [s EXCEPT !.kind[c.id] = c.kind]
      BY <1>2 DEF Changed
    <2>3. /\ t.members = s.members /\ t.owner = s.owner /\ t.kind[c.id] = c.kind
          /\ \A p \in Principal : p # c.id => t.kind[p] = s.kind[p]
      BY <1>1, <2>1, <2>2 DEF State
    <2> HIDE DEF t
    <2>4. WellNested(t)
      BY <1>1, <2>1, <2>3, NewPrincipalNests
    <2>5. \A p \in Principal : t.kind[p] = "agent" <=> s.kind[p] = "agent"
      BY <2>1, <2>3 DEF Registered
    <2>6. Registered(s) \ Groups(s) \subseteq Registered(t) \ Groups(t)
      BY <2>1, <2>3 DEF Registered, Groups
    <2>7. Owned(t)
      BY <1>1, <2>3, <2>5, <2>6, SameOwners DEF t
    <2> QED  BY <1>1, <2>4, <2>7 DEF Sound, t
  <1>3. CASE c.change = "add_agent"
    <2>1. /\ c.id \in Principal \ Registered(s) /\ c.owner \in Registered(s) \ Groups(s)
          /\ Cardinality(Chain(s, c.owner)) < MAX_OWNERSHIP_CHAIN
      BY <1>3, ChangeFields, PermittedFacts
    <2>2. t = [s EXCEPT !.kind[c.id] = "agent", !.owner[c.id] = c.owner,
                        !.delegation[c.id] = c.delegation]
      BY <1>3 DEF Changed
    <2>3. /\ t.members = s.members /\ t.owner[c.id] = c.owner /\ t.kind[c.id] = "agent"
          /\ \A p \in Principal : p # c.id => t.kind[p] = s.kind[p] /\ t.owner[p] = s.owner[p]
      BY <1>1, <2>1, <2>2 DEF State
    <2> HIDE DEF t
    <2>4. WellNested(t)
      BY <1>1, <2>1, <2>3, NewPrincipalNests
    <2>5. Owned(t)
      BY <1>1, <2>1, <2>3, NewAgentIsOwned DEF t
    <2> QED  BY <1>1, <2>4, <2>5 DEF Sound, t
  <1>4. CASE c.change = "add_member"
    <2>1. c.id \in Principal /\ c.group \in Principal /\ MemberFits(s, c.group, c.id)
      BY <1>4, ChangeFields, PermittedFacts
    <2>2. t = AddMember(s, c.group, c.id)
      BY <1>4 DEF Changed
    <2>3. WellNested(t)
      BY <1>1, <2>1, <2>2, MemberNests
    <2>4. t.kind = s.kind /\ t.owner = s.owner
      BY <1>1, <2>2 DEF AddMember, State
    <2> HIDE DEF t
    <2>5. Owned(t)
      BY <1>1, <2>4, SameOwners DEF Registered, Groups, t
    <2> QED  BY <1>1, <2>3, <2>5 DEF Sound, t
  <1>5. CASE c.change \notin {"add_principal", "add_agent", "add_member"}
    <2>1. t.kind = s.kind /\ t.owner = s.owner /\ t.members \subseteq s.members
      <3>1. CASE c.change \in {"set_delegation", "set_status", "set_group_administrators"}
        BY <1>1, <3>1 DEF Changed, State
      <3>2. CASE c.change = "remove_member"
        BY <1>1, <3>2 DEF Changed, RemoveMember, State
      <3>3. CASE c.change \in {"grant", "revoke"}
        BY <1>1, <3>3 DEF Changed, State
      <3>4. CASE c.change \in {"protect_branch", "unprotect_branch"}
        BY <1>1, <3>4 DEF Changed, State
      <3>5. CASE c.change \in {"grant_branch_write", "revoke_branch_write"}
        BY <1>1, <3>5 DEF Changed, State
      <3> QED  BY <1>5, <3>1, <3>2, <3>3, <3>4, <3>5, ChangeFields
    <2> HIDE DEF t
    <2>2. Groups(t) = Groups(s) /\ Registered(t) = Registered(s)
      BY <2>1 DEF Groups, Registered
    <2>3. WellNested(t)
      BY <1>1, <2>1, <2>2, SameNesting
    <2>4. Owned(t)
      BY <1>1, <2>1, <2>2, SameOwners DEF t
    <2> QED  BY <1>1, <2>3, <2>4 DEF Sound, t
  <1> QED  BY <1>2, <1>3, <1>4, <1>5

(***************************************************************************)
(* A batch                                                                 *)
(***************************************************************************)

Step(U, h, c, now) == {Changed(t, c) : t \in {u \in U : Permitted(u, h, c, now)}}

Stages(f, s, h, batch, now, N) ==
    /\ f \in [0..N -> SUBSET State] /\ f[0] = {s}
    /\ \A n \in 1..N : f[n] = Step(f[n - 1], h, batch[n], now)
    /\ Applied(s, h, batch, now) = f[N]

LEMMA AppliedSteps ==
    ASSUME NEW s \in State, NEW h, NEW now, NEW batch,
           NEW N \in Nat, N = Len(batch), \A n \in 1..N : batch[n] \in RegistryChange
    PROVE  \E f : Stages(f, s, h, batch, now, N)
  <1> DEFINE step(f, n) == IF n = 0 THEN {s} ELSE Step(f[n - 1], h, batch[n], now)
             eq(f) == f = [n \in 0..N |-> step(f, n)]
             after == CHOOSE f : eq(f)
             D == SUBSET State
             F == [n \in 1..N |-> [U \in D |-> Step(U, h, batch[n], now)]]
  <1>1. Applied(s, h, batch, now) = after[N]
    BY DEF Applied, Step
  <1>2. \A n \in 1..N : n \in 0..N /\ n - 1 \in 0..N /\ n # 0
    OBVIOUS
  <1>3. \A U \in D, n \in 1..N : Step(U, h, batch[n], now) \in D
    BY ChangedTypes DEF Step
  <1>4. F \in [1..N -> [D -> D]] /\ {s} \in D
    BY <1>3
  <1>5. PICK g : g \in [0..N -> D] /\ g[0] = {s} /\ \A n \in 1..N : g[n] = F[n][g[n - 1]]
    <2> HIDE DEF F, D
    <2>1. \E g : Iterated(g, D, {s}, N, F)
      BY <1>4, Iterates
    <2> QED  BY <2>1 DEF Iterated
  <1>6. \A n \in 1..N : n - 1 \in 0..N /\ g[n - 1] \in D
    BY <1>2, <1>5
  <1>7. \A n \in 0..N : g[n] = step(g, n)
    <2> SUFFICES ASSUME NEW n \in 0..N PROVE g[n] = step(g, n)
      OBVIOUS
    <2>1. CASE n = 0
      BY <1>5, <2>1
    <2>2. CASE n # 0
      <3>1. n \in 1..N
        BY <1>2, <2>2
      <3> QED  BY <1>5, <1>6, <2>2, <3>1
    <2> QED  BY <2>1, <2>2
  <1>8. eq(g)
    <2> HIDE DEF step, D, F
    <2> QED  BY <1>5, <1>7
  <1>9. eq(after)
    <2> HIDE DEF eq
    <2> QED  BY <1>8
  <1> HIDE DEF after
  <1>10. \A n \in 0..N : after[n] = step(after, n)
    <2> HIDE DEF step
    <2> QED  BY <1>9
  <1>11. after[0] = {s} /\ \A n \in 1..N : after[n] = Step(after[n - 1], h, batch[n], now)
    <2>1. 0 \in 0..N /\ \A n \in 1..N : n \in 0..N /\ n # 0
      BY <1>2
    <2> QED  BY <1>10, <2>1
  <1>12. \A n \in 0..N : after[n] \in D
    <2> DEFINE G == {n \in 0..N : after[n] \in D}
    <2>1. 0 \in G
      BY <1>2, <1>4, <1>11
    <2>2. ASSUME NEW n \in 1..N, n - 1 \in G PROVE n \in G
      <3>1. n \in 0..N
        BY <1>2
      <3> HIDE DEF D
      <3>2. after[n - 1] \in D
        BY <2>2
      <3> QED  BY <1>3, <1>11, <3>1, <3>2
    <2> HIDE DEF G
    <2>3. 0..N \subseteq G
      BY <1>2, <2>1, <2>2, UpTo
    <2> QED  BY <2>3 DEF G
  <1>13. after \in [0..N -> D]
    <2> HIDE DEF step, D
    <2>1. after = [n \in 0..N |-> after[n]]
      BY <1>9
    <2> QED  BY <1>12, <2>1
  <1> QED  BY <1>1, <1>11, <1>13 DEF Stages

\* What every permitted change of a batch preserves, the batch preserves.
LEMMA AppliedStays ==
    ASSUME NEW s \in State, NEW h, NEW now, NEW batch,
           NEW N \in Nat, N = Len(batch), \A n \in 1..N : batch[n] \in RegistryChange,
           NEW G, s \in G,
           \A u \in G, n \in 1..N :
              Permitted(u, h, batch[n], now) => Changed(u, batch[n]) \in G
    PROVE  Applied(s, h, batch, now) \subseteq G
  <1>1. PICK f : /\ f \in [0..N -> SUBSET State] /\ f[0] = {s}
                 /\ \A n \in 1..N : f[n] = Step(f[n - 1], h, batch[n], now)
                 /\ Applied(s, h, batch, now) = f[N]
    <2>1. \E f : Stages(f, s, h, batch, now, N)
      BY AppliedSteps
    <2> QED  BY <2>1 DEF Stages
  <1> DEFINE H == {n \in 0..N : f[n] \subseteq G}
  <1>2. 0 \in H
    BY <1>1
  <1>3. ASSUME NEW n \in 1..N, n - 1 \in H PROVE n \in H
    <2>1. f[n - 1] \subseteq G /\ f[n] = Step(f[n - 1], h, batch[n], now) /\ n \in 0..N
      BY <1>1, <1>3
    <2>2. Step(f[n - 1], h, batch[n], now) \subseteq G
      BY <2>1 DEF Step
    <2> QED  BY <2>1, <2>2
  <1>4. N \in H
    <2> HIDE DEF H
    <2>1. N \in Nat
      OBVIOUS
    <2>2. 0..N \subseteq H
      BY <1>2, <1>3, <2>1, UpTo
    <2> QED  BY <2>1, <2>2
  <1> QED  BY <1>1, <1>4

LEMMA AppliedSound ==
    ASSUME NEW s, Sound(s), NEW h, NEW now, NEW batch,
           NEW N \in Nat, N = Len(batch), \A n \in 1..N : batch[n] \in RegistryChange
    PROVE  \A t \in Applied(s, h, batch, now) : Sound(t)
  <1> DEFINE G == {u \in State : Sound(u)}
  <1>1. s \in State /\ s \in G
    BY DEF Sound
  <1>2. \A u \in G, n \in 1..N :
           Permitted(u, h, batch[n], now) => Changed(u, batch[n]) \in G
    BY ChangedSound DEF Sound
  <1>3. Applied(s, h, batch, now) \subseteq G
    <2> HIDE DEF G
    <2> QED  BY <1>1, <1>2, AppliedStays
  <1> QED  BY <1>3

(***************************************************************************)
(* Enabling                                                                *)
(***************************************************************************)

\* The registry enable_registry leaves: the host alone, in the administrators.
Enabled(h) == AddMember([Unregistered EXCEPT !.kind[ADMINISTRATORS] = "group", !.kind[h] = "user"],
                        ADMINISTRATORS, h)

\* Without agents there are no chains.
LEMMA UnownedIsOwned ==
    ASSUME NEW s \in State, \A p \in Principal : s.owner[p] = NoOwner /\ s.kind[p] # "agent"
    PROVE  Owned(s)
  <1>1. OwnerEdges(s) = {}
    BY DEF OwnerEdges
  <1>2. \A p : Chain(s, p) = {}
    BY <1>1, OwnerEdgesType, ReachNothing
  <1>3. Cardinality({}) = 0 /\ 0 <= MAX_OWNERSHIP_CHAIN
    BY FS_EmptySet, RegistryAssumption
  <1> QED  BY <1>2, <1>3 DEF Owned

LEMMA UnregisteredSound == Sound(Unregistered)
  <1>1. NoDelegation \in Delegation
    BY RegistryAssumption DEF NoDelegation, Delegation, Never
  <1>2. Unregistered \in State
    BY <1>1 DEF Unregistered, State, Kind, Status, Level, Administer
  <1>3. Groups(Unregistered) = {} /\ Unregistered.members = {}
    BY DEF Unregistered, Groups
  <1>4. \A p : Ancestors(Unregistered, p) = {}
    BY <1>3, ReachNothing DEF Ancestors
  <1>5. Height(Unregistered, MAX_GROUP_DEPTH + 1) = {}
    BY <1>3, HeightIsBelow, DepthType
  <1>6. Owned(Unregistered)
    <2>1. /\ \A p \in Principal : Unregistered.owner[p] = NoOwner /\ Unregistered.kind[p] # "agent"
      BY DEF Unregistered
    <2> QED  BY <1>2, <2>1, UnownedIsOwned
  <1> QED  BY <1>2, <1>3, <1>4, <1>5, <1>6 DEF Sound, WellNested

LEMMA EnabledSound ==
    ASSUME NEW h \in Principal, h # ADMINISTRATORS
    PROVE  Sound(Enabled(h))
  <1> DEFINE A == ADMINISTRATORS
             s == [Unregistered EXCEPT !.kind[A] = "group", !.kind[h] = "user"]
             t == Enabled(h)
  <1>1. A \in Principal /\ Unregistered \in State
    BY UnregisteredSound, RegistryAssumption DEF Sound
  <1>2. /\ s \in State /\ s.members = {} /\ s.kind[A] = "group" /\ s.kind[h] = "user"
        /\ \A p \in Principal : p \notin {A, h} => s.kind[p] = "unregistered"
    BY <1>1 DEF State, Unregistered, Kind
  <1>3. t \in State /\ t.members = {<<h, A>>} /\ t.kind = s.kind /\ t.owner = s.owner
    <2> HIDE DEF s
    <2>1. t = AddMember(s, A, h)
      BY DEF Enabled, s
    <2> HIDE DEF t
    <2> HIDE DEF A
    <2>2. t \in State /\ t.members = s.members \cup {<<h, A>>}
          /\ t = [s EXCEPT !.members = s.members \cup {<<h, A>>}]
      <3>1. A \in Principal /\ s \in State
        BY <1>1, <1>2
      <3> QED  BY <2>1, <3>1, AddedMember
    <2>3. t.kind = s.kind /\ t.owner = s.owner
      BY <1>2, <2>2 DEF State
    <2>4. t.members = {<<h, A>>}
      BY <1>2, <2>2
    <2> QED  BY <2>2, <2>3, <2>4
  <1> HIDE DEF s, t
  <1>4. Owned(t)
    <2>1. \A p \in Principal : s.owner[p] = NoOwner
      BY <1>1 DEF s, Unregistered
    <2>2. \A p \in Principal : s.kind[p] # "agent"
      BY <1>2
    <2> QED  BY <1>3, <2>1, <2>2, UnownedIsOwned
  <1>5. Groups(t) = {A} /\ Registered(t) = {A, h}
    BY <1>1, <1>2, <1>3 DEF Groups, Registered
  <1>6. \A p \in Principal : p \notin Ancestors(t, p)
    <2> SUFFICES ASSUME NEW p \in Principal PROVE p \notin Ancestors(t, p)
      OBVIOUS
    <2>1. Edges(t.members)
      BY <1>3, MemberEdges
    <2>2. CASE p = h
      <3>1. Succ(t.members, {p} \cup {A}) \subseteq {A}
        BY <1>3 DEF Succ
      <3>2. Reach(t.members, p) \subseteq {A}
        BY <2>1, <3>1, ReachLeast
      <3> QED  BY <2>2, <3>2 DEF Ancestors
    <2>3. CASE p # h
      <3>1. Succ(t.members, {p} \cup {}) \subseteq {}
        BY <1>3, <2>3 DEF Succ
      <3>2. Reach(t.members, p) \subseteq {}
        BY <2>1, <3>1, ReachLeast
      <3> QED  BY <3>2 DEF Ancestors
    <2> QED  BY <2>2, <2>3
  <1>7. Height(t, MAX_GROUP_DEPTH + 1) = {}
    <2> SUFFICES ASSUME NEW x \in Height(t, MAX_GROUP_DEPTH + 1) PROVE FALSE
      OBVIOUS
    <2>1. x = A /\ \E e \in t.members : e[1] = x
      BY <1>5, HeightIsBelow, DepthType
    <2> QED  BY <1>3, <2>1
  <1>8. WellNested(t)
    BY <1>3, <1>5, <1>6, <1>7 DEF WellNested
  <1> QED  BY <1>3, <1>4, <1>8 DEF Sound, t

(***************************************************************************)
(* Resolution                                                              *)
(***************************************************************************)

LEMMA MaxLevel ==
    ASSUME NEW S \in SUBSET Level, S # {}
    PROVE  Max(S) \in S /\ \A y \in S : Max(S) >= y
  <1> DEFINE top(x) == x \in S /\ \A y \in S : x >= y
  <1>1. \E x : top(x)
    <2>1. \A y \in S : y \in {0, 1, 2, 3, 4}
      BY DEF Level, Administer
    <2>2. CASE 4 \in S
      <3>1. top(4)
        BY <2>1, <2>2
      <3> QED  BY <3>1
    <2>3. CASE 4 \notin S /\ 3 \in S
      <3>1. top(3)
        BY <2>1, <2>3
      <3> QED  BY <3>1
    <2>4. CASE 4 \notin S /\ 3 \notin S /\ 2 \in S
      <3>1. top(2)
        BY <2>1, <2>4
      <3> QED  BY <3>1
    <2>5. CASE 4 \notin S /\ 3 \notin S /\ 2 \notin S /\ 1 \in S
      <3>1. top(1)
        BY <2>1, <2>5
      <3> QED  BY <3>1
    <2>6. CASE 4 \notin S /\ 3 \notin S /\ 2 \notin S /\ 1 \notin S
      <3>1. top(0)
        BY <2>1, <2>6
      <3> QED  BY <3>1
    <2> QED  BY <2>2, <2>3, <2>4, <2>5, <2>6
  <1> QED  BY <1>1 DEF Max

\* The highest of more levels is no lower.
LEMMA MaxGrows ==
    ASSUME NEW S \in SUBSET Level, NEW T \in SUBSET Level, S # {}, S \subseteq T
    PROVE  Max(S) <= Max(T)
  <1>1. Max(S) \in S /\ T # {} /\ \A y \in T : Max(T) >= y
    BY MaxLevel
  <1>2. Max(S) \in T
    BY <1>1
  <1>3. Max(T) \in T
    BY <1>1, MaxLevel
  <1> QED  BY <1>1, <1>2, <1>3 DEF Level

LEMMA LeastOfTwo ==
    ASSUME NEW a \in Nat, NEW b \in Nat
    PROVE  Min({a, b}) = IF a <= b THEN a ELSE b
  <1> DEFINE least(x) == x \in {a, b} /\ \A y \in {a, b} : x <= y
  <1>1. \A x : least(x) <=> x = (IF a <= b THEN a ELSE b)
    OBVIOUS
  <1>2. Min({a, b}) = CHOOSE x : least(x)
    BY DEF Min
  <1> QED  BY <1>1, <1>2

LEMMA LeastOfThree ==
    ASSUME NEW a \in Nat, NEW b \in Nat, NEW c \in Nat
    PROVE  /\ Min({a, b, c}) \in {a, b, c}
           /\ Min({a, b, c}) <= a /\ Min({a, b, c}) <= b /\ Min({a, b, c}) <= c
  <1> DEFINE least(x) == x \in {a, b, c} /\ \A y \in {a, b, c} : x <= y
  <1>1. \E x : least(x)
    <2>1. CASE a <= b /\ a <= c
      BY <2>1
    <2>2. CASE b <= a /\ b <= c
      BY <2>2
    <2>3. CASE c <= a /\ c <= b
      BY <2>3
    <2> QED  BY <2>1, <2>2, <2>3
  <1>2. Min({a, b, c}) = CHOOSE x : least(x)
    BY DEF Min
  <1>3. least(Min({a, b, c}))
    BY <1>1, <1>2
  <1> QED  BY <1>3

\* What resolution gives: a principal's clauses, permissions and branches.
Clause == [principals : SUBSET Principal, groups : SUBSET Principal]
Spot == Graph \X (Branch \cup {AnyBranch})
Resolved ==
    [actor : {"nobody", "user", "agent"}, clauses : SUBSET Clause, own : Clause,
     subjects : SUBSET Principal, administrator : BOOLEAN, expires : 0..Never,
     may_delegate : BOOLEAN, permission : [Graph -> Level], plain : SUBSET Spot]

\* The parts of a user, and of an agent of `owner'.
Subjects(s, p) == {p} \cup Closure(s, p)
Held(s, p, g) == IF ADMINISTRATORS \in Subjects(s, p) THEN Administer
                 ELSE Max({s.grants[g][x] : x \in Subjects(s, p)})
MayWrite(s, p, at) ==
    IF at \in s.protected
    THEN Held(s, p, at[1]) >= Read /\ \E w \in Subjects(s, p) : <<at[1], at[2], w>> \in s.writers
    ELSE Held(s, p, at[1]) >= Write
Lent(d, held) == IF d.owner_all THEN held ELSE held \cap d.identities
Local(s, p, owner) ==
    [principals |-> Identity(s, p).principals \cup Lent(s.delegation[p], owner.own.principals),
     groups |-> Identity(s, p).groups \cup Lent(s.delegation[p], owner.own.groups)]
Cap(d, g) == Max({0} \cup {sc.permission : sc \in {x \in d.scopes : x.graph = g}})

LEMMA NobodyFields ==
    /\ Nobody \in Resolved
    /\ Nobody.actor = "nobody" /\ Nobody.clauses = {NoClause} /\ Nobody.own = NoClause
    /\ Nobody.administrator = FALSE /\ Nobody.plain = {}
    /\ \A g \in Graph : Nobody.permission[g] = 0
    /\ NoClause \in Clause /\ NoClause.principals = {} /\ NoClause.groups = {}
  <1>1. 0 \in Level /\ Never \in 0..Never
    BY RegistryAssumption DEF Level, Administer, Never
  <1> QED  BY <1>1 DEF Nobody, Resolved, NoClause, Clause

LEMMA IdentityFields ==
    ASSUME NEW s \in State, NEW p \in Principal
    PROVE  /\ Identity(s, p) \in Clause
           /\ Identity(s, p).principals = {p} \cup AgentsOf(s, p)
           /\ Identity(s, p).groups = Closure(s, p)
           /\ Subjects(s, p) \in SUBSET Principal
  <1>1. Edges({e \in s.members : e[2] \in ActiveGroups(s)})
    BY MemberEdges DEF Edges
  <1>2. Edges({<<s.owner[a], a>> : a \in {q \in Active(s) : s.kind[q] = "agent"}})
    BY DEF Edges, Active, Registered
  <1>3. Closure(s, p) \subseteq Principal
    BY <1>1, ReachClosed DEF Closure
  <1>4. AgentsOf(s, p) \subseteq Principal
    BY <1>2, ReachClosed DEF AgentsOf
  <1> QED  BY <1>3, <1>4 DEF Identity, Clause, Subjects

LEMMA HeldIsLevel ==
    ASSUME NEW s \in State, NEW p \in Principal, NEW g \in Graph
    PROVE  /\ Held(s, p, g) \in Level
           /\ {s.grants[g][x] : x \in Subjects(s, p)} \in (SUBSET Level) \ {{}}
  <1>1. Subjects(s, p) \in SUBSET Principal /\ p \in Subjects(s, p)
    BY IdentityFields DEF Subjects
  <1>2. \A x \in Principal : s.grants[g][x] \in Level
    BY DEF State
  <1>3. {s.grants[g][x] : x \in Subjects(s, p)} \in (SUBSET Level) \ {{}}
    BY <1>1, <1>2
  <1>4. Administer \in Level
    BY DEF Level, Administer
  <1> QED  BY <1>3, <1>4, MaxLevel DEF Held

LEMMA UserFields ==
    ASSUME NEW s \in State, NEW p \in Principal, NEW r, r = ResolveUser(s, p)
    PROVE  /\ r \in Resolved
           /\ r.actor = "user" /\ r.own = Identity(s, p) /\ r.clauses = {r.own}
           /\ r.administrator <=> ADMINISTRATORS \in Subjects(s, p)
           /\ \A g \in Graph : r.permission[g] = Held(s, p, g)
           /\ \A at : at \in r.plain <=> at \in Spot /\ MayWrite(s, p, at)
  <1> DEFINE held == [g \in Graph |-> Held(s, p, g)]
             admin == ADMINISTRATORS \in Subjects(s, p)
             subjects == Subjects(s, p)
             plain == {at \in Spot : MayWrite(s, p, at)}
             own == Identity(s, p)
  <1>1. Subjects(s, p) = {p} \cup own.groups
    BY IdentityFields DEF Subjects
  <1>2. \A at \in Spot : /\ at[1] \in Graph /\ held[at[1]] = Held(s, p, at[1])
    BY DEF Spot
  <1>3. held = [g \in Graph |-> IF admin THEN Administer ELSE Max({s.grants[g][x] : x \in subjects})]
    BY DEF Held
  <1>4. plain = {at \in Spot : IF at \in s.protected
                               THEN /\ held[at[1]] >= Read
                                    /\ \E w \in subjects : <<at[1], at[2], w>> \in s.writers
                               ELSE held[at[1]] >= Write}
    BY <1>2 DEF MayWrite
  <1> DEFINE made == [Nobody EXCEPT !.actor = "user", !.clauses = {own}, !.own = own,
                                    !.subjects = subjects, !.administrator = admin,
                                    !.permission = held, !.plain = plain]
  <1>5. r = made
    <2> HIDE DEF held, plain
    <2> QED  BY <1>1, <1>3, <1>4 DEF ResolveUser, Spot
  <1>6. held \in [Graph -> Level] /\ \A g \in Graph : held[g] = Held(s, p, g)
    BY HeldIsLevel
  <1>7. own \in Clause /\ subjects \in SUBSET Principal /\ admin \in BOOLEAN
    BY IdentityFields
  <1>8. plain \in SUBSET Spot /\ \A at : at \in plain <=> at \in Spot /\ MayWrite(s, p, at)
    OBVIOUS
  <1> HIDE DEF held, admin, subjects, plain, own
  <1>9. /\ made.actor = "user" /\ made.clauses = {own} /\ made.own = own
        /\ made.administrator = admin /\ made.permission = held /\ made.plain = plain
    BY NobodyFields DEF Resolved
  <1>10. made \in Resolved
    BY <1>6, <1>7, <1>8, NobodyFields DEF Resolved
  <1> HIDE DEF made
  <1> QED  BY <1>5, <1>6, <1>8, <1>9, <1>10 DEF own, admin

LEMMA CapIsLevel ==
    ASSUME NEW d \in Delegation, NEW g
    PROVE  Cap(d, g) \in Level
  <1>1. {0} \cup {sc.permission : sc \in {x \in d.scopes : x.graph = g}} \in SUBSET Level
    BY DEF Delegation, Scope, Level, Administer
  <1> QED  BY <1>1, MaxLevel DEF Cap

\* A delegation lets its agent write at a spot.
Lets(d, at) ==
    \E sc \in d.scopes : /\ sc.graph = at[1] /\ sc.permission >= Write
                         /\ sc.branches = {} \/ at[2] \in sc.branches
AgentOf(r, s, p, owner) ==
    /\ r.actor = "agent" /\ r.own = Local(s, p, owner)
    /\ r.clauses = owner.clauses \cup {r.own} /\ r.administrator = FALSE
    /\ \A g \in Graph :
          r.permission[g] = Min({owner.permission[g], Write, Cap(s.delegation[p], g)})
    /\ r.expires = Min({owner.expires, s.delegation[p].expires})
    /\ \A at : at \in r.plain <=> at \in owner.plain /\ Lets(s.delegation[p], at)

LEMMA AgentFields ==
    ASSUME NEW s \in State, NEW p \in Principal, NEW owner \in Resolved, owner.actor # "nobody",
           NEW r, r = ResolveAgent(s, p, owner)
    PROVE  r \in Resolved /\ AgentOf(r, s, p, owner)
  <1> DEFINE d == s.delegation[p]
             own == Local(s, p, owner)
             held == [g \in Graph |-> Min({owner.permission[g], Write, Cap(d, g)})]
             expires == Min({owner.expires, d.expires})
             plain == {at \in owner.plain : Lets(d, at)}
             made == [Nobody EXCEPT
                        !.actor = "agent", !.clauses = owner.clauses \cup {own}, !.own = own,
                        !.expires = expires, !.may_delegate = d.may_delegate,
                        !.permission = held, !.plain = plain]
  <1>1. r = made
    BY DEF ResolveAgent, Local, Lent, Cap, Lets
  <1>2. d \in Delegation
    BY DEF State
  <1>3. own \in Clause
    BY IdentityFields DEF Local, Lent, Clause, Resolved
  <1>4. held \in [Graph -> Level]
    <2> SUFFICES ASSUME NEW g \in Graph PROVE Min({owner.permission[g], Write, Cap(d, g)}) \in Level
      OBVIOUS
    <2>1. owner.permission[g] \in Level /\ Cap(d, g) \in Level /\ Write \in Level
      BY <1>2, CapIsLevel DEF Resolved, Level, Administer, Write
    <2>2. \A x \in Level : x \in Nat
      BY DEF Level, Administer
    <2>3. Min({owner.permission[g], Write, Cap(d, g)}) \in {owner.permission[g], Write, Cap(d, g)}
      BY <2>1, <2>2, LeastOfThree
    <2> QED  BY <2>1, <2>3
  <1>5. expires \in 0..Never /\ d.may_delegate \in BOOLEAN
    <2>1. owner.expires \in 0..Never /\ d.expires \in 0..Never /\ Never \in Nat
      BY <1>2, RegistryAssumption DEF Resolved, Delegation, Never
    <2>2. expires \in {owner.expires, d.expires}
      BY <2>1, LeastOfTwo
    <2>3. d.may_delegate \in BOOLEAN
      BY <1>2 DEF Delegation
    <2> QED  BY <2>1, <2>2, <2>3
  <1>6. plain \in SUBSET Spot
    BY DEF Resolved
  <1>7. owner.clauses \cup {own} \in SUBSET Clause
    BY <1>3 DEF Resolved
  <1>8. \A g \in Graph : held[g] = Min({owner.permission[g], Write, Cap(d, g)})
    OBVIOUS
  <1>9. \A at : at \in plain <=> at \in owner.plain /\ Lets(d, at)
    OBVIOUS
  <1> HIDE DEF own, held, expires, plain
  <1>10. made \in Resolved
    BY <1>3, <1>4, <1>5, <1>6, <1>7, NobodyFields DEF Resolved
  <1>11. /\ made.actor = "agent" /\ made.clauses = owner.clauses \cup {own} /\ made.own = own
         /\ made.administrator = FALSE /\ made.permission = held /\ made.plain = plain
         /\ made.expires = expires
    BY NobodyFields DEF Resolved
  <1> HIDE DEF made
  <1>12. r \in Resolved /\ r.actor = "agent" /\ r.own = own /\ r.clauses = owner.clauses \cup {own}
         /\ r.administrator = FALSE /\ r.permission = held /\ r.plain = plain
         /\ r.expires = expires
    BY <1>1, <1>10, <1>11
  <1>13. own = Local(s, p, owner) /\ expires = Min({owner.expires, d.expires})
    BY DEF own, expires
  <1> HIDE DEF d
  <1>14. \A g \in Graph :
                 r.permission[g] = Min({owner.permission[g], Write, Cap(d, g)})
    BY <1>8, <1>12
  <1> QED  BY <1>9, <1>12, <1>13, <1>14 DEF d, AgentOf

(***************************************************************************)
(* Along the chain of owners                                               *)
(***************************************************************************)

LEMMA OneIsResolved ==
    ASSUME NEW s, Sound(s), NEW p \in Principal, NEW owner,
           s.kind[p] = "agent" => owner \in Resolved
    PROVE  ResolveOne(s, p, owner) \in Resolved
  <1>1. s \in State /\ s.kind[p] \in Kind
    BY DEF Sound, State
  <1>2. CASE p \notin Active(s) \/ s.kind[p] = "group"
    BY <1>2, NobodyFields DEF ResolveOne
  <1>3. CASE p \in Active(s) /\ s.kind[p] = "user"
    BY <1>1, <1>3, UserFields DEF ResolveOne
  <1>4. CASE p \in Active(s) /\ s.kind[p] = "agent"
    <2>1. ResolveOne(s, p, owner) = ResolveAgent(s, p, owner) /\ owner \in Resolved
      BY <1>4 DEF ResolveOne
    <2>2. CASE owner.actor = "nobody"
      BY <2>1, <2>2, NobodyFields DEF ResolveAgent
    <2>3. CASE owner.actor # "nobody"
      BY <1>1, <2>1, <2>3, AgentFields
    <2> QED  BY <2>2, <2>3
  <1>5. p \in Active(s) => s.kind[p] # "unregistered"
    BY DEF Active, Registered
  <1> QED  BY <1>1, <1>2, <1>3, <1>4, <1>5 DEF Kind

\* What everyone resolves to when owners resolve as W says.
Round(s, W) == [q \in Principal |-> ResolveOne(s, q, W[s.owner[q]])]
Innermost(s) == [q \in Principal |-> ResolveOne(s, q, Nobody)]
Everyone == [Principal -> Resolved]

Rounds(f, s) ==
    /\ f \in [0..MAX_OWNERSHIP_CHAIN -> Everyone]
    /\ f[0] = Innermost(s)
    /\ \A n \in 1..MAX_OWNERSHIP_CHAIN : f[n] = Round(s, f[n - 1])
    /\ \A p \in Principal : Resolve(s, p) = f[MAX_OWNERSHIP_CHAIN][p]

LEMMA RoundTypes ==
    ASSUME NEW s, Sound(s)
    PROVE  Innermost(s) \in Everyone /\ \A W \in Everyone : Round(s, W) \in Everyone
  <1>1. Innermost(s) \in Everyone
    BY NobodyFields, OneIsResolved DEF Innermost, Everyone
  <1>2. ASSUME NEW W \in Everyone, NEW q \in Principal
        PROVE  ResolveOne(s, q, W[s.owner[q]]) \in Resolved
    <2>1. s.kind[q] = "agent" => W[s.owner[q]] \in Resolved
      BY DEF Sound, Owned, Registered, Everyone
    <2> QED  BY <2>1, OneIsResolved
  <1> QED  BY <1>1, <1>2 DEF Round, Everyone

LEMMA ResolveRounds ==
    ASSUME NEW s, Sound(s)
    PROVE  \E f : Rounds(f, s)
  <1> DEFINE N == MAX_OWNERSHIP_CHAIN
             step(f, n) == [q \in Principal |->
                              ResolveOne(s, q, IF n = 0 THEN Nobody ELSE f[n - 1][s.owner[q]])]
             eq(f) == f = [n \in 0..N |-> step(f, n)]
             who == CHOOSE f : eq(f)
             F == [n \in 1..N |-> [W \in Everyone |-> Round(s, W)]]
  <1>1. N \in Nat /\ \A n \in 1..N : n \in 0..N /\ n - 1 \in 0..N /\ n # 0
    BY RegistryAssumption
  <1>2. \A p : Resolve(s, p) = who[N][p]
    BY DEF Resolve
  <1>3. \A f : step(f, 0) = Innermost(s) /\ \A n \in 1..N : step(f, n) = Round(s, f[n - 1])
    BY <1>1 DEF Innermost, Round
  <1>4. F \in [1..N -> [Everyone -> Everyone]] /\ Innermost(s) \in Everyone
    BY RoundTypes
  <1>5. PICK g : /\ g \in [0..N -> Everyone] /\ g[0] = Innermost(s)
                 /\ \A n \in 1..N : g[n] = F[n][g[n - 1]]
    <2> HIDE DEF F, N
    <2>1. \E g : Iterated(g, Everyone, Innermost(s), N, F)
      BY <1>1, <1>4, Iterates
    <2> QED  BY <2>1 DEF Iterated
  <1>6. \A n \in 1..N : g[n] = Round(s, g[n - 1])
    BY <1>1, <1>5
  <1> HIDE DEF step, F
  <1>7. \A n \in 0..N : g[n] = step(g, n)
    <2> SUFFICES ASSUME NEW n \in 0..N PROVE g[n] = step(g, n)
      OBVIOUS
    <2>1. n = 0 \/ n \in 1..N
      BY <1>1
    <2> QED  BY <1>3, <1>5, <1>6, <2>1
  <1>8. eq(g)
    <2> HIDE DEF N
    <2> QED  BY <1>5, <1>7
  <1>9. eq(who)
    <2> HIDE DEF eq
    <2> QED  BY <1>8
  <1> HIDE DEF who
  <1>10. \A n \in 0..N : who[n] = step(who, n)
    BY <1>9
  <1>11. who[0] = Innermost(s) /\ \A n \in 1..N : who[n] = Round(s, who[n - 1])
    <2>1. 0 \in 0..N
      BY <1>1
    <2> HIDE DEF N
    <2> QED  BY <1>1, <1>3, <1>10, <2>1
  <1>12. \A n \in 0..N : who[n] \in Everyone
    <2> DEFINE G == {n \in 0..N : who[n] \in Everyone}
    <2>1. 0 \in G
      BY <1>1, <1>4, <1>11
    <2>2. ASSUME NEW n \in 1..N, n - 1 \in G PROVE n \in G
      BY <1>1, <1>11, <2>2, RoundTypes
    <2> HIDE DEF G
    <2>3. 0..N \subseteq G
      BY <1>1, <2>1, <2>2, UpTo
    <2> QED  BY <2>3 DEF G
  <1>13. who \in [0..N -> Everyone]
    <2>1. who = [n \in 0..N |-> who[n]]
      BY <1>9
    <2> HIDE DEF N
    <2> QED  BY <1>12, <2>1
  <1> QED  BY <1>2, <1>11, <1>13 DEF Rounds

LEMMA EveryoneIsResolved ==
    ASSUME NEW s, Sound(s), NEW p \in Principal
    PROVE  Resolve(s, p) \in Resolved
  <1>1. PICK f : Rounds(f, s)
    BY ResolveRounds
  <1>2. f[MAX_OWNERSHIP_CHAIN] \in Everyone
    BY <1>1, RegistryAssumption DEF Rounds
  <1> QED  BY <1>1, <1>2 DEF Rounds, Everyone

LEMMA OnlyAgentsDepend ==
    ASSUME NEW s, Sound(s), NEW p \in Principal, s.kind[p] # "agent", NEW o, NEW r
    PROVE  ResolveOne(s, p, o) = ResolveOne(s, p, r)
  <1>1. s.kind[p] \in Kind
    BY DEF Sound, State
  <1>2. p \in Active(s) => s.kind[p] # "unregistered"
    BY DEF Active, Registered
  <1> QED  BY <1>1, <1>2 DEF ResolveOne, Kind

\* Once as many rounds have passed as a chain has owners, its first agent does not change.
LEMMA DepthIsIgnored ==
    ASSUME NEW s, Sound(s), NEW p \in Principal, s.kind[p] = "agent"
    PROVE  Resolve(s, p) = ResolveOne(s, p, Resolve(s, s.owner[p]))
  <1> DEFINE N == MAX_OWNERSHIP_CHAIN
             K == N - 1
             Links(q) == Cardinality(Chain(s, q))
             Settled(f, n, q) == f[n + 1][q] = f[n][q]
  <1>1. /\ N \in Nat /\ K \in Nat /\ K + 1 = N /\ N \in 1..N /\ K \in 0..K
        /\ \A n \in 0..K : n \in 0..N /\ n + 1 \in 1..N /\ (n + 1) - 1 = n
    BY RegistryAssumption
  <1>2. PICK f : /\ f[0] = Innermost(s)
                 /\ \A n \in 1..N : f[n] = Round(s, f[n - 1])
                 /\ \A x \in Principal : Resolve(s, x) = f[N][x]
    BY ResolveRounds DEF Rounds
  <1>3. \A n \in 1..N : \A q \in Principal : f[n][q] = ResolveOne(s, q, f[n - 1][s.owner[q]])
    BY <1>2 DEF Round
  <1>4. ASSUME NEW q \in Principal, s.kind[q] = "agent"
        PROVE  /\ s.owner[q] \in Principal /\ Links(s.owner[q]) < Links(q)
               /\ Links(q) \in Nat /\ Links(s.owner[q]) \in Nat
    BY <1>4, ChainLink, OwnerEdgesType DEF Sound
  <1>5. \A q \in Principal : Links(q) \in Nat
    BY OwnerEdgesType DEF Sound
  <1>6. Links(p) <= N
    BY DEF Sound, Owned
  <1> HIDE DEF Links
  <1> DEFINE G == {n \in 0..K : \A q \in Principal : Links(q) <= n => Settled(f, n, q)}
  <1>7. 0 \in G
    <2> SUFFICES ASSUME NEW q \in Principal, Links(q) <= 0 PROVE Settled(f, 0, q)
      BY <1>1
    <2>1. s.kind[q] # "agent"
      BY <1>4
    <2>2. 1 \in 1..N /\ 0 + 1 = 1 /\ 1 - 1 = 0
      BY <1>1
    <2>3. f[0 + 1][q] = ResolveOne(s, q, f[0][s.owner[q]])
      BY <1>3, <2>2
    <2>4. f[0][q] = ResolveOne(s, q, Nobody)
      BY <1>2 DEF Innermost
    <2> QED  BY <2>1, <2>3, <2>4, OnlyAgentsDepend
  <1>8. ASSUME NEW n \in 1..K, n - 1 \in G PROVE n \in G
    <2>1. /\ n \in 0..K /\ n \in 1..N /\ n + 1 \in 1..N /\ (n + 1) - 1 = n /\ (n - 1) + 1 = n
          /\ n - 1 \in Nat
      BY <1>1
    <2> SUFFICES ASSUME NEW q \in Principal, Links(q) <= n PROVE Settled(f, n, q)
      BY <2>1
    <2>2. /\ f[n + 1][q] = ResolveOne(s, q, f[n][s.owner[q]])
          /\ f[n][q] = ResolveOne(s, q, f[n - 1][s.owner[q]])
      BY <1>3, <2>1
    <2>3. CASE s.kind[q] # "agent"
      BY <2>2, <2>3, OnlyAgentsDepend
    <2>4. CASE s.kind[q] = "agent"
      <3>1. s.owner[q] \in Principal /\ Links(s.owner[q]) <= n - 1
        BY <1>4, <2>4
      <3>2. Settled(f, n - 1, s.owner[q])
        BY <1>8, <3>1
      <3>3. f[n][s.owner[q]] = f[n - 1][s.owner[q]]
        BY <2>1, <3>2
      <3> QED  BY <2>2, <3>3
    <2> QED  BY <2>3, <2>4
  <1>9. K \in G
    <2> HIDE DEF G, K
    <2>1. 0..K \subseteq G
      BY <1>1, <1>7, <1>8, UpTo
    <2> QED  BY <1>1, <2>1
  <1>10. s.owner[p] \in Principal /\ Links(s.owner[p]) <= K
    BY <1>1, <1>4, <1>6
  <1>11. Settled(f, K, s.owner[p])
    BY <1>9, <1>10
  <1>12. f[N][s.owner[p]] = f[N - 1][s.owner[p]]
    BY <1>1, <1>11
  <1>13. f[N][p] = ResolveOne(s, p, f[N - 1][s.owner[p]])
    BY <1>1, <1>3
  <1> HIDE DEF N
  <1> QED  BY <1>2, <1>10, <1>12, <1>13

\* Whoever resolves to r is an agent that may do and read nothing the one above it may not.
Inside(r, o) ==
    \/ r = Nobody
    \/ /\ r.actor = "agent" /\ o.actor # "nobody" /\ r.expires <= o.expires
       /\ \A g \in Graph : r.permission[g] <= o.permission[g] /\ r.permission[g] <= Write
       /\ r.plain \subseteq o.plain /\ o.clauses \subseteq r.clauses

LEMMA InsideOwner ==
    ASSUME NEW s, Sound(s), NEW p \in Principal, s.kind[p] = "agent"
    PROVE  s.owner[p] \in Principal /\ Inside(Resolve(s, p), Resolve(s, s.owner[p]))
  <1>1. s \in State /\ s.owner[p] \in Principal
    BY DEF Sound, Owned, Registered
  <1>2. PICK o : o = Resolve(s, s.owner[p])
    OBVIOUS
  <1>3. PICK r : r = Resolve(s, p)
    OBVIOUS
  <1>4. o \in Resolved
    BY <1>1, <1>2, EveryoneIsResolved
  <1>5. r = ResolveOne(s, p, o)
    BY <1>2, <1>3, DepthIsIgnored
  <1>6. CASE p \notin Active(s) \/ o.actor = "nobody"
    <2>1. r = Nobody
      BY <1>5, <1>6 DEF ResolveOne, ResolveAgent
    <2> QED  BY <1>1, <1>2, <1>3, <2>1 DEF Inside
  <1>7. CASE p \in Active(s) /\ o.actor # "nobody"
    <2>1. r = ResolveAgent(s, p, o)
      BY <1>5, <1>7 DEF ResolveOne
    <2>2. AgentOf(r, s, p, o) /\ s.delegation[p] \in Delegation
      BY <1>1, <1>4, <1>7, <2>1, AgentFields DEF State
    <2>3. r.expires <= o.expires
      <3>1. o.expires \in Nat /\ s.delegation[p].expires \in Nat
        BY <1>4, <2>2, RegistryAssumption DEF Resolved, Delegation, Never
      <3>2. r.expires = Min({o.expires, s.delegation[p].expires})
        BY <2>2 DEF AgentOf
      <3>3. Min({o.expires, s.delegation[p].expires}) =
                IF o.expires <= s.delegation[p].expires THEN o.expires ELSE s.delegation[p].expires
        BY <3>1, LeastOfTwo
      <3> QED  BY <3>1, <3>2, <3>3
    <2>4. ASSUME NEW g \in Graph
          PROVE  r.permission[g] <= o.permission[g] /\ r.permission[g] <= Write
      <3>1. o.permission[g] \in Nat /\ Write \in Nat /\ Cap(s.delegation[p], g) \in Nat
        BY <1>4, <2>2, CapIsLevel DEF Resolved, Level, Administer, Write
      <3>2. r.permission[g] = Min({o.permission[g], Write, Cap(s.delegation[p], g)})
        BY <2>2 DEF AgentOf
      <3> QED  BY <3>1, <3>2, LeastOfThree
    <2>5. r.actor = "agent" /\ o.clauses \subseteq r.clauses /\ r.plain \subseteq o.plain
      BY <2>2 DEF AgentOf
    <2> QED  BY <1>1, <1>2, <1>3, <1>7, <2>3, <2>4, <2>5 DEF Inside
  <1> QED  BY <1>6, <1>7

LEMMA InsideFurther ==
    ASSUME NEW r \in Resolved, NEW o \in Resolved, NEW q \in Resolved, Inside(r, o), Inside(o, q)
    PROVE  Inside(r, q)
  <1>1. r.expires \in Nat /\ o.expires \in Nat /\ q.expires \in Nat
    BY RegistryAssumption DEF Resolved, Never
  <1>2. \A g \in Graph : r.permission[g] \in Nat /\ o.permission[g] \in Nat /\ q.permission[g] \in Nat
    BY DEF Resolved, Level, Administer
  <1>3. CASE r = Nobody
    BY <1>3 DEF Inside
  <1>4. CASE r # Nobody
    <2>1. o # Nobody
      BY <1>4, NobodyFields DEF Inside
    <2>2. r.expires <= o.expires /\ o.expires <= q.expires
      BY <1>4, <2>1 DEF Inside
    <2>3. r.expires <= q.expires
      BY <1>1, <2>2
    <2>4. ASSUME NEW g \in Graph
          PROVE  r.permission[g] <= q.permission[g] /\ r.permission[g] <= Write
      BY <1>2, <1>4, <2>1 DEF Inside
    <2> QED  BY <1>4, <2>1, <2>3, <2>4 DEF Inside
  <1> QED  BY <1>3, <1>4

\* The whole chain lies above an agent.
LEMMA InsideChain ==
    ASSUME NEW s, Sound(s), NEW p \in Principal, NEW owner \in Chain(s, p)
    PROVE  owner \in Principal /\ Inside(Resolve(s, p), Resolve(s, owner))
  <1> DEFINE S == {o \in Principal : Inside(Resolve(s, p), Resolve(s, o))}
  <1>1. s \in State
    BY DEF Sound
  <1>2. ASSUME NEW a \in {p} \cup S, a \in Principal, s.owner[a] # NoOwner
        PROVE  s.owner[a] \in S
    <2>1. s.kind[a] = "agent"
      BY <1>2 DEF Sound, Owned
    <2>2. s.owner[a] \in Principal /\ Inside(Resolve(s, a), Resolve(s, s.owner[a]))
      BY <1>2, <2>1, InsideOwner
    <2>3. CASE a = p
      BY <2>2, <2>3
    <2>4. CASE a \in S
      <3>1. /\ Resolve(s, p) \in Resolved /\ Resolve(s, a) \in Resolved
            /\ Resolve(s, s.owner[a]) \in Resolved
        BY <1>2, <2>2, EveryoneIsResolved
      <3>2. Inside(Resolve(s, p), Resolve(s, a))
        BY <2>4
      <3> QED  BY <2>2, <3>1, <3>2, InsideFurther
    <2> QED  BY <2>3, <2>4
  <1> HIDE DEF S
  <1>3. Succ(OwnerEdges(s), {p} \cup S) \subseteq S
    <2> SUFFICES ASSUME NEW a \in Principal, s.owner[a] # NoOwner, a \in {p} \cup S
                 PROVE  s.owner[a] \in S
      BY DEF Succ, OwnerEdges
    <2> QED  BY <1>2
  <1>4. Chain(s, p) \subseteq S
    BY <1>1, <1>3, OwnerEdgesType, ReachLeast
  <1> QED  BY <1>4 DEF S

LEMMA NobodyIsWithin ==
    ASSUME NEW o \in Resolved
    PROVE  Within(Nobody, o)
  <1>1. \A g \in Graph : Nobody.permission[g] = 0 /\ o.permission[g] \in Nat
    BY NobodyFields DEF Resolved, Level, Administer
  <1>2. \A g \in Graph, b \in Branch \cup {AnyBranch} : ~CanWrite(Nobody, g, b)
    BY NobodyFields DEF CanWrite
  <1>3. ASSUME NEW readers, NEW groups, RecordAdmits(readers, groups, Nobody.clauses)
        PROVE  readers = {} /\ groups = {}
    BY <1>3, NobodyFields DEF RecordAdmits
  <1>4. ASSUME NEW readers, NEW groups, RecordAdmits(readers, groups, Nobody.clauses)
        PROVE  RecordAdmits(readers, groups, o.clauses)
    <2>1. readers = {} /\ groups = {}
      BY <1>3, <1>4
    <2> QED  BY <2>1 DEF RecordAdmits
  <1>5. Nobody.actor = "nobody"
    BY NobodyFields
  <1> HIDE DEF Nobody
  <1> QED  BY <1>1, <1>2, <1>4, <1>5 DEF Within

\* What lies inside stays within at every moment, for it expires no later.
LEMMA InsideIsWithin ==
    ASSUME NEW s, NEW p, NEW q, NEW now \in Time,
           NEW r \in Resolved, r = Resolve(s, p), NEW o \in Resolved, o = Resolve(s, q), Inside(r, o)
    PROVE  Within(Effective(s, p, now), Effective(s, q, now))
  <1>1. now \in Nat /\ r.expires \in Nat /\ o.expires \in Nat
    BY RegistryAssumption DEF Time, Resolved, Never
  <1>2. /\ Effective(s, p, now) = IF now >= r.expires THEN Nobody ELSE r
        /\ Effective(s, q, now) = IF now >= o.expires THEN Nobody ELSE o
    BY DEF Effective
  <1>3. Effective(s, q, now) \in Resolved
    BY <1>2, NobodyFields
  <1>4. CASE r = Nobody \/ now >= r.expires
    <2>1. Effective(s, p, now) = Nobody
      BY <1>2, <1>4
    <2> QED  BY <1>3, <2>1, NobodyIsWithin
  <1>5. CASE r # Nobody /\ ~(now >= r.expires)
    <2>1. /\ r.actor = "agent" /\ o.actor # "nobody" /\ r.expires <= o.expires
          /\ \A g \in Graph : r.permission[g] <= o.permission[g] /\ r.permission[g] <= Write
          /\ r.plain \subseteq o.plain /\ o.clauses \subseteq r.clauses
      BY <1>5 DEF Inside
    <2>2. Effective(s, p, now) = r /\ Effective(s, q, now) = o
      BY <1>1, <1>2, <1>5, <2>1
    <2>3. \A g \in Graph, b \in Branch \cup {AnyBranch} : CanWrite(r, g, b) => CanWrite(o, g, b)
      BY <2>1 DEF CanWrite
    <2>4. \A readers, groups : RecordAdmits(readers, groups, r.clauses) =>
                                   RecordAdmits(readers, groups, o.clauses)
      BY <2>1 DEF RecordAdmits
    <2> QED  BY <2>1, <2>2, <2>3, <2>4 DEF Within
  <1> QED  BY <1>4, <1>5

(***************************************************************************)
(* What additive changes leave everyone                                    *)
(***************************************************************************)

\* t holds all s does: whoever is registered in s is the same in t, and no grant, membership
\* or writer of a branch that is protected still is gone.
Enlarged(s, t) ==
    /\ \A p \in Registered(s) : /\ t.kind[p] = s.kind[p] /\ t.status[p] = s.status[p]
                                /\ t.owner[p] = s.owner[p] /\ t.delegation[p] = s.delegation[p]
    /\ s.members \subseteq t.members /\ t.grants = s.grants /\ t.protected \subseteq s.protected
    /\ \A w \in s.writers : w \in t.writers \/ <<w[1], w[2]>> \notin t.protected

Unprotected(s, t, at) == at \in s.protected /\ at \notin t.protected

\* Whoever resolves to `new' in t can do and read what `old' could in s.
Covered(s, t, old, new) ==
    /\ old.actor # "nobody" => new.actor = old.actor
    /\ old.own.principals \subseteq new.own.principals /\ old.own.groups \subseteq new.own.groups
    /\ \A c \in new.clauses : \E d \in old.clauses :
          d.principals \subseteq c.principals /\ d.groups \subseteq c.groups
    /\ old.administrator => new.administrator
    /\ \A g \in Graph : old.permission[g] <= new.permission[g]
    /\ \A at \in old.plain : at \in new.plain \/ Unprotected(s, t, at)

LEMMA NobodyIsCovered ==
    ASSUME NEW s, NEW t, NEW new \in Resolved
    PROVE  Covered(s, t, Nobody, new)
  <1>1. \A g \in Graph : new.permission[g] \in Level
    BY DEF Resolved
  <1>2. \A g \in Graph : Nobody.permission[g] <= new.permission[g]
    BY <1>1, NobodyFields DEF Level
  <1> QED  BY <1>2, NobodyFields DEF Covered

LEMMA StaysActive ==
    ASSUME NEW s \in State, NEW t \in State, Enlarged(s, t), NEW p \in Active(s)
    PROVE  /\ p \in Active(t) /\ p \in Principal /\ t.kind[p] = s.kind[p] /\ t.owner[p] = s.owner[p]
           /\ t.delegation[p] = s.delegation[p]
  BY DEF Active, Registered, Enlarged

LEMMA IdentityGrows ==
    ASSUME NEW s \in State, NEW t \in State, Enlarged(s, t), NEW p \in Principal
    PROVE  /\ AgentsOf(s, p) \subseteq AgentsOf(t, p) /\ Closure(s, p) \subseteq Closure(t, p)
           /\ Identity(s, p).principals \subseteq Identity(t, p).principals
           /\ Identity(s, p).groups \subseteq Identity(t, p).groups
           /\ Subjects(s, p) \subseteq Subjects(t, p)
  <1> DEFINE Owners(u) == {<<u.owner[a], a>> : a \in {q \in Active(u) : u.kind[q] = "agent"}}
             Groupings(u) == {e \in u.members : e[2] \in ActiveGroups(u)}
  <1>1. Owners(s) \subseteq Owners(t)
    BY StaysActive
  <1>2. Edges(Owners(t))
    BY DEF Edges, Active, Registered
  <1>3. AgentsOf(s, p) \subseteq AgentsOf(t, p)
    <2> HIDE DEF Owners
    <2>1. Reach(Owners(s), p) \subseteq Reach(Owners(t), p)
      BY <1>1, <1>2, ReachGrows
    <2> QED  BY <2>1 DEF AgentsOf, Owners
  <1>4. Groupings(s) \subseteq Groupings(t)
    BY StaysActive DEF ActiveGroups, Groups, Enlarged
  <1>5. Edges(Groupings(t))
    BY MemberEdges DEF Edges
  <1>6. Closure(s, p) \subseteq Closure(t, p)
    <2> HIDE DEF Groupings
    <2>1. Reach(Groupings(s), p) \subseteq Reach(Groupings(t), p)
      BY <1>4, <1>5, ReachGrows
    <2> QED  BY <2>1 DEF Closure, Groupings
  <1> QED  BY <1>3, <1>6, IdentityFields DEF Subjects

LEMMA HeldGrows ==
    ASSUME NEW s \in State, NEW t \in State, Enlarged(s, t), NEW p \in Principal, NEW g \in Graph
    PROVE  Held(s, p, g) <= Held(t, p, g)
  <1> DEFINE S == {s.grants[g][x] : x \in Subjects(s, p)}
             T == {t.grants[g][x] : x \in Subjects(t, p)}
  <1>1. Subjects(s, p) \subseteq Subjects(t, p) /\ t.grants = s.grants
    BY IdentityGrows DEF Enlarged
  <1>2. S \subseteq T
    BY <1>1
  <1>3. S \in (SUBSET Level) \ {{}} /\ T \in (SUBSET Level) \ {{}}
    BY HeldIsLevel
  <1> HIDE DEF S, T
  <1>4. Max(S) <= Max(T) /\ Max(S) \in Level /\ Max(T) \in Level
    BY <1>2, <1>3, MaxGrows, MaxLevel
  <1>5. \A n \in Level : n \in 0..Administer /\ n <= Administer
    BY DEF Level, Administer
  <1>6. Held(s, p, g) = IF ADMINISTRATORS \in Subjects(s, p) THEN Administer ELSE Max(S)
    BY DEF Held, S
  <1>7. Held(t, p, g) = IF ADMINISTRATORS \in Subjects(t, p) THEN Administer ELSE Max(T)
    BY DEF Held, T
  <1> QED  BY <1>1, <1>4, <1>5, <1>6, <1>7 DEF Administer

LEMMA UserGrows ==
    ASSUME NEW s \in State, NEW t \in State, Enlarged(s, t), NEW p \in Principal
    PROVE  Covered(s, t, ResolveUser(s, p), ResolveUser(t, p))
  <1> DEFINE old == ResolveUser(s, p)
             new == ResolveUser(t, p)
  <1>1. /\ old.actor = "user" /\ old.own = Identity(s, p) /\ old.clauses = {old.own}
        /\ old.administrator <=> ADMINISTRATORS \in Subjects(s, p)
        /\ \A g \in Graph : old.permission[g] = Held(s, p, g)
        /\ \A at : at \in old.plain <=> at \in Spot /\ MayWrite(s, p, at)
    BY UserFields
  <1>2. /\ new.actor = "user" /\ new.own = Identity(t, p) /\ new.clauses = {new.own}
        /\ new.administrator <=> ADMINISTRATORS \in Subjects(t, p)
        /\ \A g \in Graph : new.permission[g] = Held(t, p, g)
        /\ \A at : at \in new.plain <=> at \in Spot /\ MayWrite(t, p, at)
    BY UserFields
  <1> HIDE DEF old, new
  <1>3. old.own.principals \subseteq new.own.principals /\ old.own.groups \subseteq new.own.groups
        /\ Subjects(s, p) \subseteq Subjects(t, p)
    BY <1>1, <1>2, IdentityGrows
  <1>4. \A g \in Graph : old.permission[g] <= new.permission[g]
    BY <1>1, <1>2, HeldGrows
  <1>5. ASSUME NEW at \in Spot, MayWrite(s, p, at) PROVE MayWrite(t, p, at) \/ Unprotected(s, t, at)
    <2>1. at[1] \in Graph /\ Held(s, p, at[1]) <= Held(t, p, at[1])
      BY HeldGrows DEF Spot
    <2>2. Held(s, p, at[1]) \in Level /\ Held(t, p, at[1]) \in Level
      BY <2>1, HeldIsLevel
    <2>3. \A n : n \in {Read, Write} /\ Held(s, p, at[1]) >= n => Held(t, p, at[1]) >= n
      BY <2>1, <2>2 DEF Level, Administer, Read, Write
    <2>4. CASE at \in t.protected
      <3>1. at \in s.protected
        BY <2>4 DEF Enlarged
      <3>2. PICK w \in Subjects(s, p) : <<at[1], at[2], w>> \in s.writers
        BY <1>5, <3>1 DEF MayWrite
      <3>3. <<at[1], at[2]>> = at
        BY DEF Spot
      <3>4. <<at[1], at[2], w>> \in t.writers
        <4> DEFINE x == <<at[1], at[2], w>>
        <4>1. x \in s.writers /\ <<x[1], x[2]>> = at
          BY <3>2, <3>3
        <4> HIDE DEF x
        <4>2. x \in t.writers
          BY <2>4, <4>1 DEF Enlarged
        <4> QED  BY <4>2 DEF x
      <3>5. w \in Subjects(t, p)
        BY <1>3, <3>2
      <3>6. Held(t, p, at[1]) >= Read
        BY <1>5, <2>3, <3>1 DEF MayWrite
      <3> QED  BY <2>4, <3>4, <3>5, <3>6 DEF MayWrite
    <2>5. CASE at \notin t.protected /\ at \notin s.protected
      BY <1>5, <2>3, <2>5 DEF MayWrite
    <2> QED  BY <2>4, <2>5 DEF Unprotected
  <1>6. \A at \in old.plain : at \in new.plain \/ Unprotected(s, t, at)
    BY <1>1, <1>2, <1>5
  <1>7. old.administrator => new.administrator
    BY <1>1, <1>2, <1>3
  <1> QED  BY <1>1, <1>2, <1>3, <1>4, <1>6, <1>7 DEF Covered, old, new

LEMMA AgentGrows ==
    ASSUME NEW s \in State, NEW t \in State, Enlarged(s, t), NEW p \in Principal,
           t.delegation[p] = s.delegation[p],
           NEW o \in Resolved, NEW q \in Resolved, Covered(s, t, o, q)
    PROVE  Covered(s, t, ResolveAgent(s, p, o), ResolveAgent(t, p, q))
  <1> DEFINE old == ResolveAgent(s, p, o)
             new == ResolveAgent(t, p, q)
             d == s.delegation[p]
  <1>1. CASE o.actor = "nobody"
    <2>1. old = Nobody
      BY <1>1 DEF ResolveAgent
    <2>2. new \in Resolved
      <3>1. CASE q.actor = "nobody"
        BY <3>1, NobodyFields DEF ResolveAgent
      <3>2. CASE q.actor # "nobody"
        BY <3>2, AgentFields
      <3> QED  BY <3>1, <3>2
    <2> HIDE DEF old, new
    <2>3. Covered(s, t, old, new)
      BY <2>1, <2>2, NobodyIsCovered
    <2> QED  BY <2>3 DEF old, new
  <1>2. CASE o.actor # "nobody"
    <2>1. q.actor # "nobody"
      BY <1>2 DEF Covered
    <2>2. AgentOf(old, s, p, o)
      BY <1>2, AgentFields
    <2>3. AgentOf(new, t, p, q)
      BY <2>1, AgentFields
    <2> HIDE DEF old, new
    <2>4. /\ old.actor = "agent" /\ old.own = Local(s, p, o)
          /\ old.clauses = o.clauses \cup {old.own} /\ old.administrator = FALSE
          /\ \A g \in Graph : old.permission[g] = Min({o.permission[g], Write, Cap(d, g)})
          /\ \A at : at \in old.plain <=> at \in o.plain /\ Lets(d, at)
      BY <2>2 DEF AgentOf
    <2>5. /\ new.actor = "agent" /\ new.own = Local(t, p, q)
          /\ new.clauses = q.clauses \cup {new.own}
          /\ \A g \in Graph : new.permission[g] = Min({q.permission[g], Write, Cap(d, g)})
          /\ \A at : at \in new.plain <=> at \in q.plain /\ Lets(d, at)
      BY <2>3 DEF AgentOf
    <2>6. d \in Delegation
      BY DEF State
    <2> HIDE DEF d
    <2>7. old.own.principals \subseteq new.own.principals /\ old.own.groups \subseteq new.own.groups
      <3>1. \A A, B : A \subseteq B => Lent(d, A) \subseteq Lent(d, B)
        BY DEF Lent
      <3>2. o.own.principals \subseteq q.own.principals /\ o.own.groups \subseteq q.own.groups
        BY DEF Covered
      <3>3. /\ Lent(d, o.own.principals) \subseteq Lent(d, q.own.principals)
            /\ Lent(d, o.own.groups) \subseteq Lent(d, q.own.groups)
        BY <3>1, <3>2
      <3>4. /\ old.own.principals = Identity(s, p).principals \cup Lent(d, o.own.principals)
            /\ old.own.groups = Identity(s, p).groups \cup Lent(d, o.own.groups)
        BY <2>4 DEF Local, d
      <3>5. /\ new.own.principals = Identity(t, p).principals \cup Lent(d, q.own.principals)
            /\ new.own.groups = Identity(t, p).groups \cup Lent(d, q.own.groups)
        BY <2>5 DEF Local, d
      <3> QED  BY <3>3, <3>4, <3>5, IdentityGrows
    <2>8. \A c \in new.clauses : \E e \in old.clauses :
             e.principals \subseteq c.principals /\ e.groups \subseteq c.groups
      <3>1. \A c \in q.clauses : \E e \in o.clauses :
               e.principals \subseteq c.principals /\ e.groups \subseteq c.groups
        BY DEF Covered
      <3> QED  BY <2>4, <2>5, <2>7, <3>1
    <2>9. ASSUME NEW g \in Graph PROVE old.permission[g] <= new.permission[g]
      <3>1. o.permission[g] \in Level /\ q.permission[g] \in Level /\ Cap(d, g) \in Level
            /\ Write \in Level /\ o.permission[g] <= q.permission[g]
        BY <2>6, CapIsLevel DEF Covered, Resolved, Level, Administer, Write
      <3> DEFINE a == Min({o.permission[g], Write, Cap(d, g)})
                 b == Min({q.permission[g], Write, Cap(d, g)})
      <3>2. \A x \in Level : x \in Nat
        BY DEF Level, Administer
      <3>3. a \in {o.permission[g], Write, Cap(d, g)}
            /\ a <= o.permission[g] /\ a <= Write /\ a <= Cap(d, g)
        BY <3>1, <3>2, LeastOfThree
      <3>4. b \in {q.permission[g], Write, Cap(d, g)}
        BY <3>1, <3>2, LeastOfThree
      <3> HIDE DEF a, b
      <3>5. a <= b
        BY <3>1, <3>2, <3>3, <3>4
      <3> QED  BY <2>4, <2>5, <3>5 DEF a, b
    <2>10. \A at \in old.plain : at \in new.plain \/ Unprotected(s, t, at)
      <3>1. \A at \in o.plain : at \in q.plain \/ Unprotected(s, t, at)
        BY DEF Covered
      <3> QED  BY <2>4, <2>5, <3>1
    <2>11. Covered(s, t, old, new)
      BY <2>4, <2>5, <2>7, <2>8, <2>9, <2>10 DEF Covered
    <2> QED  BY <2>11 DEF old, new
  <1> QED  BY <1>1, <1>2

\* Round by round, everyone is covered.
LEMMA EveryoneIsCovered ==
    ASSUME NEW s, NEW t, Sound(s), Sound(t), Enlarged(s, t), NEW p \in Principal
    PROVE  /\ Resolve(s, p) \in Resolved /\ Resolve(t, p) \in Resolved
           /\ Covered(s, t, Resolve(s, p), Resolve(t, p))
  <1> DEFINE N == MAX_OWNERSHIP_CHAIN
  <1>1. N \in Nat /\ \A n \in 1..N : n \in 0..N /\ n - 1 \in 0..N
    BY RegistryAssumption
  <1>2. PICK f : /\ f \in [0..N -> Everyone] /\ f[0] = Innermost(s)
                 /\ \A n \in 1..N : f[n] = Round(s, f[n - 1])
                 /\ \A x \in Principal : Resolve(s, x) = f[N][x]
    BY ResolveRounds DEF Rounds
  <1>3. PICK h : /\ h \in [0..N -> Everyone] /\ h[0] = Innermost(t)
                 /\ \A n \in 1..N : h[n] = Round(t, h[n - 1])
                 /\ \A x \in Principal : Resolve(t, x) = h[N][x]
    BY ResolveRounds DEF Rounds
  <1>4. s \in State /\ t \in State
    BY DEF Sound
  <1>5. ASSUME NEW q \in Principal, NEW o, NEW r, s.kind[q] = "agent" => o \in Resolved /\ r \in Resolved,
               s.kind[q] = "agent" => Covered(s, t, o, r),
               ResolveOne(t, q, r) \in Resolved
        PROVE  Covered(s, t, ResolveOne(s, q, o), ResolveOne(t, q, r))
    <2>1. CASE q \notin Active(s) \/ s.kind[q] = "group"
      <3>1. ResolveOne(s, q, o) = Nobody
        BY <2>1 DEF ResolveOne
      <3> QED  BY <1>5, <3>1, NobodyIsCovered
    <2>2. CASE q \in Active(s) /\ s.kind[q] = "user"
      <3>1. ResolveOne(s, q, o) = ResolveUser(s, q) /\ ResolveOne(t, q, r) = ResolveUser(t, q)
        BY <1>4, <2>2, StaysActive DEF ResolveOne
      <3> QED  BY <1>4, <3>1, UserGrows
    <2>3. CASE q \in Active(s) /\ s.kind[q] = "agent"
      <3>1. ResolveOne(s, q, o) = ResolveAgent(s, q, o) /\ ResolveOne(t, q, r) = ResolveAgent(t, q, r)
        BY <1>4, <2>3, StaysActive DEF ResolveOne
      <3>2. t.delegation[q] = s.delegation[q]
        BY <1>4, <2>3, StaysActive
      <3> QED  BY <1>4, <1>5, <2>3, <3>1, <3>2, AgentGrows
    <2>4. q \in Active(s) => s.kind[q] \in Kind \ {"unregistered"}
      BY <1>4 DEF Active, Registered, State
    <2> QED  BY <2>1, <2>2, <2>3, <2>4 DEF Kind
  <1> DEFINE G == {n \in 0..N : \A q \in Principal : Covered(s, t, f[n][q], h[n][q])}
  <1>6. 0 \in G
    <2>1. \A q \in Principal : /\ f[0][q] = ResolveOne(s, q, Nobody)
                               /\ h[0][q] = ResolveOne(t, q, Nobody)
      BY <1>2, <1>3 DEF Innermost
    <2>2. \A q \in Principal : ResolveOne(t, q, Nobody) \in Resolved
      BY NobodyFields, OneIsResolved
    <2>3. Covered(s, t, Nobody, Nobody) /\ Nobody \in Resolved
      BY NobodyFields, NobodyIsCovered
    <2>4. \A q \in Principal : Covered(s, t, f[0][q], h[0][q])
      BY <1>5, <2>1, <2>2, <2>3
    <2> QED  BY <1>1, <2>4
  <1>7. ASSUME NEW n \in 1..N, n - 1 \in G PROVE n \in G
    <2> DEFINE W == f[n - 1]
               V == h[n - 1]
    <2>1. W \in Everyone /\ V \in Everyone /\ n \in 0..N
      BY <1>1, <1>2, <1>3
    <2>2. \A q \in Principal : Covered(s, t, W[q], V[q])
      BY <1>7
    <2>3. f[n] = Round(s, W) /\ h[n] = Round(t, V)
      BY <1>2, <1>3
    <2> HIDE DEF W, V
    <2>4. ASSUME NEW q \in Principal PROVE Covered(s, t, f[n][q], h[n][q])
      <3>1. f[n][q] = ResolveOne(s, q, W[s.owner[q]]) /\ h[n][q] = ResolveOne(t, q, V[t.owner[q]])
        BY <2>3 DEF Round
      <3>2. ResolveOne(t, q, V[t.owner[q]]) \in Resolved
        BY <2>1, <2>3, <3>1, RoundTypes DEF Everyone
      <3>3. s.kind[q] = "agent" => s.owner[q] \in Principal /\ t.owner[q] = s.owner[q]
        BY DEF Sound, Owned, Enlarged, Registered
      <3>4. s.kind[q] = "agent" => /\ W[s.owner[q]] \in Resolved /\ V[t.owner[q]] \in Resolved
                                   /\ Covered(s, t, W[s.owner[q]], V[t.owner[q]])
        BY <2>1, <2>2, <3>3 DEF Everyone
      <3> QED  BY <1>5, <3>1, <3>2, <3>4
    <2> QED  BY <2>1, <2>4
  <1>8. N \in G
    <2> HIDE DEF G
    <2>1. 0..N \subseteq G
      BY <1>1, <1>6, <1>7, UpTo
    <2> QED  BY <1>1, <2>1
  <1>9. f[N] \in Everyone /\ h[N] \in Everyone
    BY <1>1, <1>2, <1>3
  <1>10. Covered(s, t, f[N][p], h[N][p])
    BY <1>8
  <1>11. f[N][p] \in Resolved /\ h[N][p] \in Resolved
    BY <1>9 DEF Everyone
  <1>12. Resolve(s, p) = f[N][p] /\ Resolve(t, p) = h[N][p]
    BY <1>2, <1>3
  <1> QED  BY <1>10, <1>11, <1>12

\* Covered principals lose nothing.
LEMMA EnlargedLosesNothing ==
    ASSUME NEW s, NEW t, Sound(s), Sound(t), Enlarged(s, t), NEW p \in Principal
    PROVE  ~Loses(s, t, p)
  <1> DEFINE old == Resolve(s, p)
             new == Resolve(t, p)
  <1>1. old \in Resolved /\ new \in Resolved /\ Covered(s, t, old, new)
    BY EveryoneIsCovered
  <1> HIDE DEF old, new
  <1>2. ~(old.administrator /\ ~new.administrator)
    BY <1>1 DEF Covered
  <1>3. ASSUME NEW g \in Graph
        PROVE  /\ ~(new.permission[g] < old.permission[g])
               /\ old.permission[g] = Administer => new.permission[g] = Administer
    <2>1. old.permission[g] \in Level /\ new.permission[g] \in Level
      BY <1>1 DEF Resolved
    <2>2. old.permission[g] <= new.permission[g]
      BY <1>1 DEF Covered
    <2> QED  BY <2>1, <2>2 DEF Level, Administer
  <1>4. ASSUME NEW g \in Graph, NEW b \in Branch \cup {AnyBranch}, CanWrite(old, g, b)
        PROVE  CanWrite(new, g, b) \/ (<<g, b>> \in s.protected /\ <<g, b>> \notin t.protected)
    <2>1. CASE <<g, b>> \in old.plain
      <3>1. <<g, b>> \in new.plain \/ Unprotected(s, t, <<g, b>>)
        BY <1>1, <2>1 DEF Covered
      <3> QED  BY <3>1 DEF Unprotected, CanWrite
    <2>2. CASE old.actor = "user" /\ old.permission[g] = Administer
      <3>1. new.actor = "user"
        BY <1>1, <2>2 DEF Covered
      <3> QED  BY <1>3, <2>2, <3>1 DEF CanWrite
    <2> QED  BY <1>4, <2>1, <2>2 DEF CanWrite
  <1>5. ASSUME NEW reader, NEW group, RecordAdmits({reader}, {group}, old.clauses)
        PROVE  RecordAdmits({reader}, {group}, new.clauses)
    <2>1. \A d \in old.clauses : {reader} \cap d.principals # {} \/ {group} \cap d.groups # {}
      BY <1>5 DEF RecordAdmits
    <2>2. \A c \in new.clauses : \E d \in old.clauses :
             d.principals \subseteq c.principals /\ d.groups \subseteq c.groups
      BY <1>1 DEF Covered
    <2>3. \A c \in new.clauses : {reader} \cap c.principals # {} \/ {group} \cap c.groups # {}
      BY <2>1, <2>2
    <2> QED  BY <2>3 DEF RecordAdmits
  <1> QED  BY <1>2, <1>3, <1>4, <1>5 DEF Loses, old, new

LEMMA AdditiveEnlarges ==
    ASSUME NEW s \in State, NEW u \in State, Enlarged(s, u),
           NEW c \in RegistryChange, Additive(c), NEW h, NEW now, Permitted(u, h, c, now)
    PROVE  Enlarged(s, Changed(u, c))
  <1> DEFINE t == Changed(u, c)
  <1>1. ASSUME t.members = u.members, t.grants = u.grants, t.protected = u.protected,
               t.writers = u.writers, t.status = u.status,
               \A p \in Principal \ {c.id} : /\ t.kind[p] = u.kind[p] /\ t.owner[p] = u.owner[p]
                                             /\ t.delegation[p] = u.delegation[p],
               c.id \notin Registered(u)
        PROVE  Enlarged(s, t)
    <2> HIDE DEF t
    <2>1. \A p \in Registered(s) : p \in Principal \ {c.id}
      BY <1>1 DEF Registered, Enlarged
    <2> QED  BY <1>1, <2>1 DEF Enlarged
  <1>2. ASSUME t.kind = u.kind, t.status = u.status, t.owner = u.owner, t.delegation = u.delegation,
               u.members \subseteq t.members, t.grants = u.grants, t.protected \subseteq u.protected,
               \A w \in u.writers : w \in t.writers \/ <<w[1], w[2]>> \notin t.protected
        PROVE  Enlarged(s, t)
    <2> HIDE DEF t
    <2>1. \A w \in s.writers : w \in t.writers \/ <<w[1], w[2]>> \notin t.protected
      BY <1>2 DEF Enlarged
    <2> QED  BY <1>2, <2>1 DEF Enlarged
  <1>3. CASE c.change = "add_principal"
    <2>1. c.id \in Principal /\ c.id \notin Registered(u)
      BY <1>3, ChangeFields, PermittedFacts
    <2>2. t = [u EXCEPT !.kind[c.id] = c.kind]
      BY <1>3 DEF Changed
    <2> QED  BY <1>1, <2>1, <2>2 DEF State
  <1>4. CASE c.change = "add_agent"
    <2>1. c.id \in Principal /\ c.id \notin Registered(u)
      BY <1>4, ChangeFields, PermittedFacts
    <2>2. t = [u EXCEPT !.kind[c.id] = "agent", !.owner[c.id] = c.owner,
                        !.delegation[c.id] = c.delegation]
      BY <1>4 DEF Changed
    <2> QED  BY <1>1, <2>1, <2>2 DEF State
  <1>5. CASE c.change = "add_member"
    BY <1>2, <1>5 DEF Changed, AddMember, State
  <1>6. CASE c.change = "grant_branch_write"
    BY <1>2, <1>6 DEF Changed, State
  <1>7. CASE c.change = "unprotect_branch"
    <2> DEFINE spot == <<c.graph, c.branch>>
               left == {w \in u.writers : <<w[1], w[2]>> # spot}
    <2>1. t = [u EXCEPT !.protected = @ \ {spot}, !.writers = left]
      BY <1>7 DEF Changed
    <2>2. \A w \in u.writers : w \in left \/ <<w[1], w[2]>> = spot
      OBVIOUS
    <2> HIDE DEF t, left, spot
    <2>3. t.protected = u.protected \ {spot} /\ t.writers = left /\ t.grants = u.grants
          /\ t.members = u.members /\ t.kind = u.kind /\ t.status = u.status
          /\ t.owner = u.owner /\ t.delegation = u.delegation
      BY <2>1 DEF State
    <2>4. \A w \in u.writers : w \in t.writers \/ <<w[1], w[2]>> \notin t.protected
      BY <2>2, <2>3
    <2> QED  BY <1>2, <2>3, <2>4 DEF t
  <1> QED  BY <1>3, <1>4, <1>5, <1>6, <1>7 DEF Additive

LEMMA EnlargedItself == \A s \in State : Enlarged(s, s)
  BY DEF Enlarged

LEMMA AdditiveBatch ==
    ASSUME NEW s, Sound(s), NEW h, NEW now, NEW batch,
           NEW N \in Nat, N = Len(batch),
           \A n \in 1..N : batch[n] \in RegistryChange /\ Additive(batch[n])
    PROVE  \A t \in Applied(s, h, batch, now) : Enlarged(s, t)
  <1> DEFINE G == {u \in State : Enlarged(s, u)}
  <1>1. s \in State /\ s \in G
    BY EnlargedItself DEF Sound
  <1>2. ASSUME NEW u \in G, NEW n \in 1..N, Permitted(u, h, batch[n], now)
        PROVE  Changed(u, batch[n]) \in G
    <2>1. batch[n] \in RegistryChange /\ Additive(batch[n])
      OBVIOUS
    <2>2. Changed(u, batch[n]) \in State
      BY <2>1, ChangedTypes
    <2>3. Enlarged(s, Changed(u, batch[n]))
      BY <1>1, <1>2, <2>1, AdditiveEnlarges
    <2> QED  BY <2>2, <2>3
  <1>3. Applied(s, h, batch, now) \subseteq G
    <2> HIDE DEF G
    <2> QED  BY <1>1, <1>2, AppliedStays
  <1> QED  BY <1>3

\* Before the registry is enabled nobody holds anything of it.
LEMMA EnabledEnlarges ==
    ASSUME NEW h \in Principal, h # ADMINISTRATORS
    PROVE  Enlarged(Unregistered, Enabled(h))
  <1>1. Registered(Unregistered) = {}
    BY DEF Registered, Unregistered
  <1>2. /\ Unregistered.members = {} /\ Unregistered.protected = {} /\ Unregistered.writers = {}
        /\ Enabled(h).grants = Unregistered.grants /\ Enabled(h).protected = {}
    BY DEF Enabled, AddMember, Unregistered
  <1> QED  BY <1>1, <1>2 DEF Enlarged
=============================================================================
