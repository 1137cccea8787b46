---------------------------- MODULE Facts_proofs ----------------------------
(***************************************************************************)
(* Theorems of Facts for every value of its constants.                     *)
(*                                                                         *)
(* In the first part the registry is opaque: who may write, and what a     *)
(* writer knows, is whatever it says.  What a revision holds is read off   *)
(* the lines, so the invariant says how far versions reach on a line       *)
(* (Layout) and that a checkpoint holds what the line answers (Cached).    *)
(* The second part is about the registry, whose steps are steps of Facts:  *)
(* its invariant is that it is Sound (Registry_proofs).                    *)
(***************************************************************************)
EXTENDS Facts, Registry_proofs

Last(m) ==
    /\ m = 0 \/ \E r \in DOMAIN revisions : revisions[r].line = m
    /\ \A r \in DOMAIN revisions : revisions[r].line <= m

Layout ==
    /\ \E m \in 0..Len(revisions) : Last(m)
    /\ \A r \in DOMAIN revisions :
          /\ revisions[r].seq <= Len(revisions)
          /\ revisions[r].kind = "fact" => revisions[r].line # 0
    /\ \A v \in versions : \E r \in DOMAIN revisions :
          /\ revisions[r].line = v.line
          /\ v.from <= revisions[r].seq /\ v.until <= revisions[r].seq

GraphOf(V) == {f \in FactsOf(V) : IsGraph(f)}
Cached == \A c \in checkpoints : c.answer = GraphOf(Seen(c.revision))

Placed == FactsTypeOK /\ Layout
FactsInv == Placed /\ Cached /\ ReferencesResolve

Revision == [kind : {"fact", "snapshot"}, branch : Branch, parent : 0..MaxRevisions,
             put : SUBSET Fact, drop : SUBSET Keys(Fact),
             line : 0..MaxRevisions, seq : 0..MaxRevisions, writer : Principal]
VersionOf(R) == [line : 1..MaxRevisions, from : 0..MaxRevisions, until : 0..MaxRevisions,
                 fact : Fact, by : 1..Len(R), writer : Principal]

(***************************************************************************)
(* What the tables hold                                                    *)
(***************************************************************************)

LEMMA TableTypes ==
    ASSUME FactsTypeOK
    PROVE  /\ revisions \in Seq(Revision) /\ Len(revisions) \in Nat
           /\ DOMAIN revisions = 1..Len(revisions)
           /\ \A r \in DOMAIN revisions : revisions[r] \in Revision
           /\ versions \subseteq VersionOf(revisions)
           /\ heads \in [Branch -> 0..Len(revisions)]
  <1>1. revisions \in Seq(Revision)
    BY DEF FactsTypeOK, Revision
  <1>2. DOMAIN revisions = 1..Len(revisions) /\ Len(revisions) \in Nat
    BY <1>1
  <1>3. {0} \cup DOMAIN revisions = 0..Len(revisions)
    BY <1>2
  <1> QED  BY <1>1, <1>2, <1>3 DEF FactsTypeOK, VersionOf

\* Lines is the last line any revision is on.
LEMMA LinesIsLast ==
    ASSUME Placed
    PROVE  Lines \in 0..Len(revisions) /\ Last(Lines)
  <1> DEFINE used == {0} \cup {revisions[r].line : r \in DOMAIN revisions}
  <1>1. PICK m \in 0..Len(revisions) : Last(m)
    BY DEF Placed, Layout
  <1>2. Len(revisions) \in Nat /\ \A r \in DOMAIN revisions : revisions[r].line \in Nat
    BY TableTypes, FactsAssumption DEF Placed, Revision
  <1>3. m \in used /\ \A x \in used : m >= x /\ x \in Nat
    BY <1>1, <1>2 DEF Last
  <1>4. Lines = m
    <2>1. Lines \in used /\ \A x \in used : Lines >= x
      BY <1>3 DEF Lines, Max
    <2> QED  BY <1>3, <2>1
  <1> QED  BY <1>1, <1>4

LEMMA InitPlaced == Init => FactsInv
  <1> SUFFICES ASSUME Init PROVE FactsInv
    OBVIOUS
  <1>1. revisions = <<>> /\ DOMAIN revisions = {} /\ Len(revisions) = 0 /\ versions = {} /\ checkpoints = {}
    BY DEF Init
  <1>2. FactsTypeOK
    BY <1>1 DEF Init, FactsTypeOK
  <1>3. Layout
    BY <1>1 DEF Layout, Last
  <1> QED  BY <1>1, <1>2, <1>3 DEF FactsInv, Placed, Cached, ReferencesResolve

(***************************************************************************)
(* What a revision holds                                                   *)
(***************************************************************************)

Sight(v) == [fact |-> v.fact, by |-> v.by, writer |-> v.writer]
Record == [fact : Fact, by : 1..Len(revisions), writer : Principal]
Stamped(F, r, h) == {[fact |-> f, by |-> r, writer |-> h] : f \in F}
Untouched(V, put, drop) == {v \in V : v.fact.key \notin Keys(put) \cup drop}
SnapshotOf(h, b, F) ==
    [kind |-> "snapshot", branch |-> b, parent |-> heads[b], put |-> F,
     drop |-> {}, line |-> 0, seq |-> 0, writer |-> h]

LEMMA StampedFacts ==
    ASSUME NEW F, NEW r, NEW h
    PROVE  FactsOf(Stamped(F, r, h)) = F
  <1> DEFINE w(f) == [fact |-> f, by |-> r, writer |-> h]
  <1>1. \A f : w(f).fact = f
    OBVIOUS
  <1>2. Stamped(F, r, h) = {w(f) : f \in F}
    BY DEF Stamped
  <1> HIDE DEF w
  <1>3. FactsOf(Stamped(F, r, h)) = {w(f).fact : f \in F}
    BY <1>2 DEF FactsOf
  <1>4. {w(f).fact : f \in F} = F
    BY <1>1
  <1> QED  BY <1>3, <1>4

LEMMA SeenFact ==
    ASSUME Placed, NEW r \in DOMAIN revisions, revisions[r].kind = "fact"
    PROVE  /\ Seen(r) = {Sight(v) : v \in Live(r)}
           /\ Recorded(r) = Seen(r) /\ Seen(r) \subseteq Record
  <1>1. r # 0 /\ revisions[r].kind # "snapshot"
    BY TableTypes DEF Placed
  <1>2. Seen(r) = {Sight(v) : v \in Live(r)}
    BY <1>1 DEF Seen, Sight
  <1>3. Live(r) \subseteq VersionOf(revisions)
    BY TableTypes DEF Live, Placed
  <1>4. \A v \in Live(r) : Sight(v) \in Record
    BY <1>3 DEF Sight, Record, VersionOf
  <1>5. Seen(r) \subseteq Record
    BY <1>2, <1>4
  <1>6. \A w \in Seen(r) : [w EXCEPT !.by = IF @ = 0 THEN r ELSE @] = w
    <2> SUFFICES ASSUME NEW w \in Seen(r)
                 PROVE  [w EXCEPT !.by = IF @ = 0 THEN r ELSE @] = w
      OBVIOUS
    <2>1. w \in [fact : Fact, by : 1..Len(revisions), writer : Principal]
      BY <1>5 DEF Record
    <2>2. w.by # 0
      BY <2>1
    <2>3. [w EXCEPT !.by = IF @ = 0 THEN r ELSE @] = [w EXCEPT !.by = w.by]
      BY <2>2
    <2> QED  BY <2>1, <2>3
  <1> QED  BY <1>2, <1>5, <1>6 DEF Recorded

LEMMA SeenSnapshot ==
    ASSUME Placed, NEW r \in DOMAIN revisions, revisions[r].kind = "snapshot"
    PROVE  /\ Seen(r) = {[fact |-> f, by |-> 0, writer |-> revisions[r].writer] : f \in revisions[r].put}
           /\ Recorded(r) = {[fact |-> f, by |-> r, writer |-> revisions[r].writer] : f \in revisions[r].put}
           /\ Recorded(r) \subseteq Record
  <1> DEFINE w(f) == [fact |-> f, by |-> 0, writer |-> revisions[r].writer]
             base(v) == [v EXCEPT !.by = IF @ = 0 THEN r ELSE @]
  <1>1. r # 0 /\ r \in 1..Len(revisions)
    BY TableTypes DEF Placed
  <1>2. Seen(r) = {w(f) : f \in revisions[r].put}
    BY <1>1 DEF Seen
  <1>3. \A f : base(w(f)) = [fact |-> f, by |-> r, writer |-> revisions[r].writer]
    OBVIOUS
  <1>4. Recorded(r) = {[fact |-> f, by |-> r, writer |-> revisions[r].writer] : f \in revisions[r].put}
    <2>1. Recorded(r) = {base(v) : v \in Seen(r)}
      BY DEF Recorded
    <2> HIDE DEF w, base
    <2>2. Recorded(r) = {base(w(f)) : f \in revisions[r].put}
      BY <1>2, <2>1
    <2> QED  BY <2>2, <1>3
  <1>5. revisions[r].put \subseteq Fact /\ revisions[r].writer \in Principal
    BY TableTypes DEF Placed, Revision
  <1> QED  BY <1>1, <1>2, <1>4, <1>5 DEF Record

\* A base is recorded with the types of the table, and holds what the revision does.
LEMMA RecordedTypes ==
    ASSUME Placed, NEW r \in 0..Len(revisions)
    PROVE  /\ Recorded(r) \subseteq Record
           /\ FactsOf(Recorded(r)) = FactsOf(Seen(r))
           /\ FactsOf(Seen(r)) \subseteq Fact
  <1>1. CASE r = 0
    BY <1>1 DEF Recorded, Seen, FactsOf
  <1>2. CASE r # 0
    <2>1. r \in DOMAIN revisions /\ revisions[r].kind \in {"fact", "snapshot"}
      <3>1. r \in DOMAIN revisions
        BY <1>2, TableTypes DEF Placed
      <3> QED  BY <3>1, TableTypes DEF Placed, Revision
    <2>2. CASE revisions[r].kind = "fact"
      BY <2>1, <2>2, SeenFact DEF FactsOf, Record
    <2>3. CASE revisions[r].kind = "snapshot"
      <3>1. revisions[r].put \subseteq Fact
        BY <2>1, TableTypes DEF Placed, Revision
      <3>2. ASSUME NEW n
            PROVE  FactsOf({[fact |-> f, by |-> n, writer |-> revisions[r].writer] :
                               f \in revisions[r].put}) = revisions[r].put
        <4> DEFINE w(f) == [fact |-> f, by |-> n, writer |-> revisions[r].writer]
        <4>1. \A f : w(f).fact = f
          OBVIOUS
        <4> HIDE DEF w
        <4>2. FactsOf({w(f) : f \in revisions[r].put}) = {w(f).fact : f \in revisions[r].put}
          BY DEF FactsOf
        <4>3. {w(f).fact : f \in revisions[r].put} = revisions[r].put
          BY <4>1
        <4> QED  BY <4>2, <4>3 DEF w
      <3>3. FactsOf(Seen(r)) = revisions[r].put /\ FactsOf(Recorded(r)) = revisions[r].put
        BY <2>1, <2>3, <3>2, SeenSnapshot
      <3> QED  BY <2>1, <2>3, <3>1, <3>3, SeenSnapshot
    <2> QED  BY <2>1, <2>2, <2>3
  <1> QED  BY <1>1, <1>2

(***************************************************************************)
(* What a fact write appends                                               *)
(***************************************************************************)

\* A write goes to a line behind everything on it, where what is open is what its parent
\* recorded: the parent's own line, or a new one that starts with a copy.
Behind(line, seq, base, parent) ==
    /\ line \in 1..(Lines + 1) /\ seq \in 1..(Len(revisions) + 1)
    /\ \A r \in DOMAIN revisions : revisions[r].line = line => revisions[r].seq < seq
    /\ base \subseteq VersionOf(revisions)
    /\ \A v \in base : v.line = line /\ v.from = 0 /\ v.until = 0
    /\ base # {} => \A r \in DOMAIN revisions : revisions[r].line # line
    /\ {Sight(v) : v \in {w \in versions \cup base : w.line = line /\ w.until = 0}} = Recorded(parent)

Entry(h, b, put, drop, line, seq) ==
    [kind |-> "fact", branch |-> b, parent |-> heads[b], put |-> put, drop |-> drop,
     line |-> line, seq |-> seq, writer |-> h]
Touches(v, line, put, drop) ==
    v.line = line /\ v.until = 0 /\ v.fact.key \in Keys(put) \cup drop
Closing(v, line, seq, put, drop) ==
    [v EXCEPT !.until = IF Touches(v, line, put, drop) THEN seq ELSE @]
Opened(h, line, seq, f) ==
    [line |-> line, from |-> seq, until |-> 0, fact |-> f,
     by |-> Len(revisions) + 1, writer |-> h]

AppendsAt(h, b, put, drop, line, seq, base) ==
    /\ Len(revisions) < MaxRevisions
    /\ revisions' = Append(revisions, Entry(h, b, put, drop, line, seq))
    /\ heads' = [heads EXCEPT ![b] = Len(revisions) + 1]
    /\ versions' = {Closing(v, line, seq, put, drop) : v \in versions \cup base}
                   \cup {Opened(h, line, seq, f) : f \in put}
    /\ checkpoints' = checkpoints

\* The tip of a line has everything open on it, and nothing else.
LEMMA TipIsOpen ==
    ASSUME Placed, NEW p \in DOMAIN revisions, revisions[p].kind = "fact", IsTip(p)
    PROVE  Behind(revisions[p].line, revisions[p].seq + 1, {}, p)
  <1> DEFINE line == revisions[p].line
             seq == revisions[p].seq
  <1>1. line \in 1..Lines /\ seq \in 0..Len(revisions)
    <2>1. line # 0 /\ line <= Lines /\ Lines \in Nat /\ seq <= Len(revisions)
      BY LinesIsLast, TableTypes DEF Placed, Layout, Last
    <2>2. line \in Nat /\ seq \in Nat
      BY TableTypes, FactsAssumption DEF Placed, Revision
    <2> QED  BY <2>1, <2>2, TableTypes DEF Placed
  <1>2. \A r \in DOMAIN revisions : revisions[r].line = line => revisions[r].seq <= seq
    BY DEF IsTip
  <1>3. \A r \in DOMAIN revisions : revisions[r].seq \in Nat
    BY TableTypes, FactsAssumption DEF Placed, Revision
  <1>4. Live(p) = {w \in versions \cup {} : w.line = line /\ w.until = 0}
    <2> SUFFICES ASSUME NEW v \in versions, v.line = line
                 PROVE  (v.from <= seq /\ (v.until = 0 \/ v.until > seq)) <=> v.until = 0
      BY DEF Live
    <2>1. v.from \in Nat /\ v.until \in Nat
      BY TableTypes, FactsAssumption DEF Placed, VersionOf
    <2>2. PICK r \in DOMAIN revisions :
             revisions[r].line = v.line /\ v.from <= revisions[r].seq /\ v.until <= revisions[r].seq
      BY DEF Placed, Layout
    <2> QED  BY <1>1, <1>2, <1>3, <2>1, <2>2
  <1>5. Recorded(p) = {Sight(v) : v \in Live(p)}
    BY SeenFact
  <1>6. \A r \in DOMAIN revisions : revisions[r].line = line => revisions[r].seq < seq + 1
    BY <1>1, <1>2, <1>3
  <1>7. line \in 1..(Lines + 1) /\ seq + 1 \in 1..(Len(revisions) + 1)
    BY <1>1, LinesIsLast, TableTypes DEF Placed
  <1> QED  BY <1>4, <1>5, <1>6, <1>7 DEF Behind

\* A new line starts with what its parent recorded.
LEMMA NewLineIsOpen ==
    ASSUME Placed, NEW p \in 0..Len(revisions), NEW base,
           Len(revisions) < MaxRevisions,
           base = {[line |-> Lines + 1, from |-> 0, until |-> 0,
                    fact |-> v.fact, by |-> v.by, writer |-> v.writer] : v \in Recorded(p)}
    PROVE  Behind(Lines + 1, 1, base, p)
  <1> DEFINE line == Lines + 1
             start(v) == [line |-> line, from |-> 0, until |-> 0,
                          fact |-> v.fact, by |-> v.by, writer |-> v.writer]
  <1>1. Lines \in Nat /\ line \in 1..MaxRevisions /\ Len(revisions) \in Nat
    BY LinesIsLast, TableTypes, FactsAssumption DEF Placed
  <1>2. \A r \in DOMAIN revisions : revisions[r].line # line
    <2>1. \A r \in DOMAIN revisions : revisions[r].line <= Lines /\ revisions[r].line \in Nat
      BY LinesIsLast, TableTypes, FactsAssumption DEF Placed, Last, Revision
    <2> QED  BY <1>1, <2>1
  <1>3. base \subseteq VersionOf(revisions)
    BY <1>1, RecordedTypes, FactsAssumption DEF VersionOf, Record
  <1>4. \A v \in versions : v.line # line
    BY <1>2 DEF Placed, Layout
  <1>5. {w \in versions \cup base : w.line = line /\ w.until = 0} = base
    BY <1>4
  <1>6. {Sight(v) : v \in base} = Recorded(p)
    <2>1. \A v \in Recorded(p) : Sight(start(v)) = v
      BY RecordedTypes DEF Record, Sight
    <2>2. base = {start(v) : v \in Recorded(p)}
      OBVIOUS
    <2> HIDE DEF start
    <2>3. {Sight(v) : v \in base} = {Sight(start(v)) : v \in Recorded(p)}
      BY <2>2
    <2> QED  BY <2>1, <2>3
  <1> QED  BY <1>1, <1>2, <1>3, <1>5, <1>6 DEF Behind

LEMMA AppendIsBehind ==
    ASSUME Placed, NEW h \in Principal, NEW b \in Branch, NEW put, NEW drop,
           AppendFacts(h, b, put, drop)
    PROVE  \E line, seq, base : /\ Behind(line, seq, base, heads[b])
                                /\ AppendsAt(h, b, put, drop, line, seq, base)
  <1> DEFINE parent == heads[b]
             continues == parent # 0 /\ revisions[parent].kind = "fact" /\ IsTip(parent)
             line == IF continues THEN revisions[parent].line ELSE Lines + 1
             seq == IF continues THEN revisions[parent].seq + 1 ELSE 1
             base == IF continues THEN {}
                     ELSE {[line |-> line, from |-> 0, until |-> 0,
                            fact |-> v.fact, by |-> v.by, writer |-> v.writer] : v \in Recorded(parent)}
  <1>1. parent \in 0..Len(revisions) /\ (parent # 0 => parent \in DOMAIN revisions)
    BY TableTypes DEF Placed
  <1>2. Len(revisions) < MaxRevisions
    BY DEF AppendFacts, NewRevision
  <1>3. Behind(line, seq, base, parent)
    BY <1>1, <1>2, TipIsOpen, NewLineIsOpen
  <1>4. revisions' = Append(revisions, Entry(h, b, put, drop, line, seq))
    BY DEF AppendFacts, NewRevision, Entry
  <1>5. Len(revisions') = Len(revisions) + 1
    BY <1>4, TableTypes DEF Placed
  <1>6. heads' = [heads EXCEPT ![b] = Len(revisions) + 1]
    BY <1>5 DEF AppendFacts, NewRevision
  <1>7. versions' = {Closing(v, line, seq, put, drop) : v \in versions \cup base}
                   \cup {Opened(h, line, seq, f) : f \in put}
    BY <1>5 DEF AppendFacts, Closing, Touches, Opened
  <1>8. checkpoints' = checkpoints
    BY DEF AppendFacts
  <1> HIDE DEF line, seq, base
  <1> QED  BY <1>2, <1>3, <1>4, <1>6, <1>7, <1>8 DEF AppendsAt

LEMMA ClosingFields ==
    ASSUME NEW v \in VersionOf(revisions), NEW line, NEW seq, NEW put, NEW drop
    PROVE  LET c == Closing(v, line, seq, put, drop) IN
           /\ c = [line |-> v.line, from |-> v.from, until |-> c.until,
                   fact |-> v.fact, by |-> v.by, writer |-> v.writer]
           /\ c.line = v.line /\ c.from = v.from /\ c.fact = v.fact
           /\ c.until = IF Touches(v, line, put, drop) THEN seq ELSE v.until
           /\ Sight(c) = Sight(v)
  BY DEF VersionOf, Closing, Sight

\* The table after the write.
LEMMA AppendedTable ==
    ASSUME Placed, NEW h, NEW b \in Branch, NEW put, NEW drop, NEW line, NEW seq, NEW base,
           AppendsAt(h, b, put, drop, line, seq, base)
    PROVE  LET n == Len(revisions) + 1 IN
           /\ Len(revisions') = n /\ DOMAIN revisions' = 1..n
           /\ DOMAIN revisions \subseteq 1..n /\ n \notin DOMAIN revisions /\ n # 0
           /\ 1..n = DOMAIN revisions \cup {n}
           /\ \A r \in DOMAIN revisions : revisions'[r] = revisions[r]
           /\ revisions'[n] = Entry(h, b, put, drop, line, seq)
  <1>1. revisions \in Seq(Revision) /\ Len(revisions) \in Nat /\ DOMAIN revisions = 1..Len(revisions)
    BY TableTypes DEF Placed
  <1>2. revisions' = Append(revisions, Entry(h, b, put, drop, line, seq))
    BY DEF AppendsAt
  <1> HIDE DEF Entry
  <1> QED  BY <1>1, <1>2

\* Versions behind a revision's sequence number do not concern it.
LEMMA OlderSeeTheSame ==
    ASSUME Placed, NEW h, NEW b \in Branch, NEW put, NEW drop, NEW line, NEW seq, NEW base,
           Behind(line, seq, base, heads[b]), AppendsAt(h, b, put, drop, line, seq, base),
           NEW r \in DOMAIN revisions
    PROVE  Seen(r)' = Seen(r) /\ Recorded(r)' = Recorded(r)
  <1>1. revisions'[r] = revisions[r] /\ r # 0
    BY AppendedTable, TableTypes DEF Placed
  <1>2. ASSUME revisions[r].kind # "snapshot"
        PROVE  {Sight(v) : v \in Live(r)'} = {Sight(v) : v \in Live(r)}
    <2> DEFINE s == revisions[r].seq
               closed(v) == Closing(v, line, seq, put, drop)
               In(v) == v.line = revisions[r].line /\ v.from <= s /\ (v.until = 0 \/ v.until > s)
    <2>1. Live(r) = {v \in versions : In(v)} /\ Live(r)' = {v \in versions' : In(v)}
      BY <1>1 DEF Live
    <2>2. revisions[r].line = line => s < seq
      BY DEF Behind
    <2>3. s \in Nat /\ seq \in Nat /\ seq # 0
      <3>1. seq \in 1..(Len(revisions) + 1)
        BY DEF Behind
      <3>2. revisions[r] \in Revision /\ Len(revisions) \in Nat
        BY TableTypes DEF Placed
      <3>3. revisions[r].seq \in Nat
        BY <3>2, FactsAssumption DEF Revision
      <3> QED  BY <3>1, <3>2, <3>3
    <2>4. \A v \in base : v.line # revisions[r].line
      BY DEF Behind
    <2>5. \A v \in versions \cup base : v \in VersionOf(revisions)
      BY TableTypes DEF Placed, Behind
    <2>6. \A v \in versions \cup base :
             /\ closed(v).line = v.line /\ closed(v).from = v.from /\ Sight(closed(v)) = Sight(v)
             /\ closed(v).until = IF Touches(v, line, put, drop) THEN seq ELSE v.until
      BY <2>5, ClosingFields
    <2>7. \A f : Opened(h, line, seq, f).line = line /\ Opened(h, line, seq, f).from = seq
      BY DEF Opened
    <2>8. versions' = {closed(v) : v \in versions \cup base} \cup {Opened(h, line, seq, f) : f \in put}
      BY DEF AppendsAt
    <2> HIDE DEF closed, s
    <2>9. \A f : ~In(Opened(h, line, seq, f))
      BY <2>2, <2>3, <2>7
    <2>10. \A v \in versions : In(closed(v)) <=> In(v)
      <3> SUFFICES ASSUME NEW v \in versions PROVE In(closed(v)) <=> In(v)
        OBVIOUS
      <3>1. CASE Touches(v, line, put, drop)
        <4>1. closed(v).until = seq /\ v.until = 0 /\ v.line = line
          BY <2>6, <3>1 DEF Touches
        <4> QED  BY <4>1, <2>2, <2>3, <2>6
      <3>2. CASE ~Touches(v, line, put, drop)
        BY <3>2, <2>6
      <3> QED  BY <3>1, <3>2
    <2>11. \A v \in base : ~In(closed(v))
      BY <2>4, <2>6
    <2> HIDE DEF In
    <2>12. {v \in versions' : In(v)} = {closed(v) : v \in {w \in versions : In(w)}}
      BY <2>8, <2>9, <2>10, <2>11
    <2>13. {Sight(closed(v)) : v \in {w \in versions : In(w)}} = {Sight(v) : v \in {w \in versions : In(w)}}
      BY <2>6
    <2> QED  BY <2>1, <2>12, <2>13
  <1>3. Seen(r)' = Seen(r)
    <2>1. CASE revisions[r].kind = "snapshot"
      BY <1>1, <2>1 DEF Seen
    <2>2. CASE revisions[r].kind # "snapshot"
      <3>1. revisions[r].kind = "fact"
        BY <2>2, TableTypes DEF Placed, Revision
      <3>2. Seen(r) = {Sight(v) : v \in Live(r)}
        BY <3>1, SeenFact
      <3>3. Seen(r)' = {Sight(v) : v \in Live(r)'}
        BY <1>1, <3>1 DEF Seen, Sight
      <3> QED  BY <1>2, <2>2, <3>2, <3>3
    <2> QED  BY <2>1, <2>2
  <1> QED  BY <1>3 DEF Recorded

\* The new revision holds what its parent recorded, but for the keys the write touched.
LEMMA NewestSees ==
    ASSUME Placed, NEW h \in Principal, NEW b \in Branch, NEW put \in SUBSET Fact, NEW drop,
           NEW line, NEW seq, NEW base, NEW n, n = Len(revisions) + 1,
           Behind(line, seq, base, heads[b]), AppendsAt(h, b, put, drop, line, seq, base)
    PROVE  /\ Seen(n)' = Untouched(Recorded(heads[b]), put, drop) \cup Stamped(put, n, h)
           /\ Recorded(n)' = Seen(n)'
  <1> DEFINE closed(v) == Closing(v, line, seq, put, drop)
             opened(f) == Opened(h, line, seq, f)
             all == versions \cup base
             Open(v) == v.line = line /\ v.until = 0
             touched == Keys(put) \cup drop
             In(v) == v.line = line /\ v.from <= seq /\ (v.until = 0 \/ v.until > seq)
  <1>1. revisions'[n].kind = "fact" /\ revisions'[n].line = line /\ revisions'[n].seq = seq /\ n # 0
    <2>1. revisions'[n] = Entry(h, b, put, drop, line, seq) /\ n # 0
      BY AppendedTable
    <2> QED  BY <2>1 DEF Entry
  <1>2. Live(n)' = {v \in versions' : In(v)}
    BY <1>1 DEF Live
  <1>3. versions' = {closed(v) : v \in all} \cup {opened(f) : f \in put}
    BY DEF AppendsAt
  <1>4. seq \in Nat /\ seq # 0 /\ n \in Nat
    BY TableTypes DEF Placed, Behind
  <1>5. \A f : /\ opened(f).line = line /\ opened(f).from = seq /\ opened(f).until = 0
               /\ Sight(opened(f)) = [fact |-> f, by |-> n, writer |-> h]
    BY DEF Opened, Sight
  <1>6. \A v \in all : v \in VersionOf(revisions)
    BY TableTypes DEF Placed, Behind
  <1>7. \A v \in all :
           /\ closed(v).line = v.line /\ closed(v).from = v.from /\ Sight(closed(v)) = Sight(v)
           /\ closed(v).until = IF Touches(v, line, put, drop) THEN seq ELSE v.until
    BY <1>6, ClosingFields
  <1>8. \A v \in all : v.line = line => v.from <= seq /\ v.until < seq /\ v.until \in Nat
    <2>1. CASE base = {}
      <3> SUFFICES ASSUME NEW v \in versions, v.line = line
                   PROVE  v.from <= seq /\ v.until < seq /\ v.until \in Nat
        BY <2>1
      <3>1. PICK r \in DOMAIN revisions :
               revisions[r].line = v.line /\ v.from <= revisions[r].seq /\ v.until <= revisions[r].seq
        BY DEF Placed, Layout
      <3>2. revisions[r].seq \in Nat /\ v.from \in Nat /\ v.until \in Nat
        <4>1. v \in VersionOf(revisions) /\ revisions[r] \in Revision
          BY <1>6, TableTypes DEF Placed
        <4> QED  BY <4>1, FactsAssumption DEF VersionOf, Revision
      <3> QED  BY <3>1, <3>2, <1>4 DEF Behind
    <2>2. CASE base # {}
      <3>1. \A v \in versions : v.line # line
        BY <2>2 DEF Behind, Placed, Layout
      <3> QED  BY <3>1, <1>4 DEF Behind
    <2> QED  BY <2>1, <2>2
  <1> HIDE DEF closed, opened
  <1>9. \A v \in all : In(closed(v)) <=> Open(v) /\ v.fact.key \notin touched
    <2> SUFFICES ASSUME NEW v \in all, v.line = line
                 PROVE  In(closed(v)) <=> v.until = 0 /\ v.fact.key \notin touched
      BY <1>7
    <2>1. CASE Touches(v, line, put, drop)
      <3>1. closed(v).until = seq /\ v.fact.key \in touched
        BY <1>7, <2>1 DEF Touches
      <3> QED  BY <3>1, <1>4
    <2>2. CASE ~Touches(v, line, put, drop)
      <3>1. closed(v).until = v.until /\ closed(v).line = line /\ closed(v).from = v.from
        BY <1>7, <2>2
      <3>2. v.until = 0 => v.fact.key \notin touched
        BY <2>2 DEF Touches
      <3> QED  BY <3>1, <3>2, <1>4, <1>8
    <2> QED  BY <2>1, <2>2
  <1>10. \A f : In(opened(f))
    BY <1>4, <1>5
  <1>11. Live(n)' = {closed(v) : v \in {w \in all : Open(w) /\ w.fact.key \notin touched}}
                    \cup {opened(f) : f \in put}
    <2> HIDE DEF In, Open, touched, all
    <2> QED  BY <1>2, <1>3, <1>9, <1>10
  <1>12. {Sight(v) : v \in {w \in all : Open(w) /\ w.fact.key \notin touched}}
            = {v \in Recorded(heads[b]) : v.fact.key \notin touched}
    <2>1. {Sight(v) : v \in {w \in all : Open(w)}} = Recorded(heads[b])
      BY DEF Behind
    <2>2. \A v : Sight(v).fact = v.fact
      BY DEF Sight
    <2> HIDE DEF Open, touched, all
    <2> QED  BY <2>1, <2>2
  <1>13. Seen(n)' = {Sight(v) : v \in Live(n)'}
    BY <1>1 DEF Seen, Sight
  <1>14. Seen(n)' = {v \in Recorded(heads[b]) : v.fact.key \notin touched}
                    \cup {[fact |-> f, by |-> n, writer |-> h] : f \in put}
    <2>1. {Sight(closed(v)) : v \in {w \in all : Open(w) /\ w.fact.key \notin touched}}
             = {Sight(v) : v \in {w \in all : Open(w) /\ w.fact.key \notin touched}}
      BY <1>7
    <2>2. {Sight(opened(f)) : f \in put} = {[fact |-> f, by |-> n, writer |-> h] : f \in put}
      BY <1>5
    <2>3. Seen(n)' = {Sight(closed(v)) : v \in {w \in all : Open(w) /\ w.fact.key \notin touched}}
                    \cup {Sight(opened(f)) : f \in put}
      <3> HIDE DEF Open, touched, all
      <3> QED  BY <1>11, <1>13
    <2> HIDE DEF Open, touched, all
    <2> QED  BY <2>1, <2>2, <2>3, <1>12
  <1>15. Recorded(n)' = Seen(n)'
    <2>1. heads[b] \in 0..Len(revisions)
      BY TableTypes DEF Placed
    <2>2. Seen(n)' \subseteq [fact : Fact, by : 1..n, writer : Principal]
      <3>1. Recorded(heads[b]) \subseteq Record
        BY <2>1, RecordedTypes
      <3>2. \A v \in Record : v \in [fact : Fact, by : 1..n, writer : Principal]
        BY TableTypes DEF Record, Placed
      <3>3. n \in 1..n
        BY <1>1, <1>4
      <3> QED  BY <1>14, <3>1, <3>2, <3>3
    <2> DEFINE based(w) == [w EXCEPT !.by = IF @ = 0 THEN n ELSE @]
    <2>3. \A w \in Seen(n)' : based(w) = w
      <3> SUFFICES ASSUME NEW w \in Seen(n)'
                   PROVE  based(w) = w
        OBVIOUS
      <3>1. w \in [fact : Fact, by : 1..n, writer : Principal] /\ w.by # 0
        BY <2>2
      <3>2. [w EXCEPT !.by = IF @ = 0 THEN n ELSE @] = [w EXCEPT !.by = w.by]
        BY <3>1
      <3> QED  BY <3>1, <3>2
    <2>4. Recorded(n)' = {based(w) : w \in Seen(n)'}
      BY DEF Recorded
    <2>5. \A x : x \in Recorded(n)' <=> x \in Seen(n)'
      <3> HIDE DEF based
      <3> QED  BY <2>3, <2>4
    <2> QED  BY <2>5, SetExtensionality
  <1> QED  BY <1>14, <1>15 DEF Untouched, Stamped

LEMMA AppendKeepsPlaced ==
    ASSUME Placed, demand' = demand,
           NEW h \in Principal, NEW b \in Branch, NEW put \in SUBSET Fact,
           NEW drop \in SUBSET Keys(Fact), NEW line, NEW seq, NEW base,
           Behind(line, seq, base, heads[b]), AppendsAt(h, b, put, drop, line, seq, base)
    PROVE  Placed'
  <1> DEFINE entry == Entry(h, b, put, drop, line, seq)
             closed(v) == Closing(v, line, seq, put, drop)
             opened(f) == Opened(h, line, seq, f)
             last == Lines
  <1>1. PICK n : n = Len(revisions) + 1
    OBVIOUS
  <1>2. Len(revisions) \in Nat /\ n \in Nat /\ n \in 1..MaxRevisions /\ MaxRevisions \in Nat
        /\ Len(revisions) \in 0..MaxRevisions
    BY <1>1, TableTypes, FactsAssumption DEF Placed, AppendsAt
  <1>3. last \in 0..Len(revisions) /\ Last(last) /\ line \in 1..(last + 1) /\ seq \in 1..n
    BY <1>1, LinesIsLast DEF Behind
  <1>4. line \in 1..MaxRevisions /\ seq \in 1..MaxRevisions
    BY <1>1, <1>2, <1>3
  <1>5. heads[b] \in 0..MaxRevisions
    BY <1>2, TableTypes DEF Placed
  <1>6. entry \in Revision
    BY <1>4, <1>5 DEF Entry, Revision
  <1>7. /\ Len(revisions') = n /\ DOMAIN revisions' = 1..n /\ 1..n = DOMAIN revisions \cup {n}
        /\ \A r \in DOMAIN revisions : revisions'[r] = revisions[r]
        /\ revisions'[n] = entry
    BY <1>1, AppendedTable
  <1>8. entry.line = line /\ entry.seq = seq /\ entry.kind = "fact"
    BY DEF Entry
  <1>9. \A v \in versions \cup base : v \in VersionOf(revisions)
    BY TableTypes DEF Placed, Behind
  <1>10. \A v \in versions \cup base :
           /\ closed(v) = [line |-> v.line, from |-> v.from, until |-> closed(v).until,
                           fact |-> v.fact, by |-> v.by, writer |-> v.writer]
           /\ closed(v).line = v.line /\ closed(v).from = v.from
           /\ closed(v).until = IF Touches(v, line, put, drop) THEN seq ELSE v.until
    BY <1>9, ClosingFields
  <1>11. versions' = {closed(v) : v \in versions \cup base} \cup {opened(f) : f \in put}
    BY DEF AppendsAt
  <1> HIDE DEF closed, entry
  <1>12. revisions' \in Seq(Revision)
    <2>1. revisions' = Append(revisions, entry) /\ revisions \in Seq(Revision)
      BY TableTypes DEF AppendsAt, entry, Placed
    <2> QED  BY <1>6, <2>1
  <1>13. versions' \subseteq [line : 1..MaxRevisions, from : 0..MaxRevisions, until : 0..MaxRevisions,
                              fact : Fact, by : 1..n, writer : Principal]
    <2>1. \A f \in put : opened(f) \in [line : 1..MaxRevisions, from : 0..MaxRevisions,
                              until : 0..MaxRevisions, fact : Fact, by : 1..n, writer : Principal]
      BY <1>1, <1>2, <1>4 DEF Opened
    <2>2. ASSUME NEW v \in versions \cup base
          PROVE  closed(v) \in [line : 1..MaxRevisions, from : 0..MaxRevisions,
                              until : 0..MaxRevisions, fact : Fact, by : 1..n, writer : Principal]
      <3>1. v \in VersionOf(revisions)
        BY <1>9
      <3>2. v.by \in 1..n /\ v.line \in 1..MaxRevisions /\ v.from \in 0..MaxRevisions
            /\ v.until \in 0..MaxRevisions /\ v.fact \in Fact /\ v.writer \in Principal
        BY <3>1, <1>1, <1>2 DEF VersionOf
      <3>3. closed(v).until \in 0..MaxRevisions
        BY <1>4, <1>10, <3>2
      <3> QED  BY <1>10, <3>2, <3>3
    <2> QED  BY <1>11, <2>1, <2>2
  <1>14. FactsTypeOK'
    <2>1. heads' \in [Branch -> {0} \cup DOMAIN revisions']
      <3>1. heads \in [Branch -> 0..Len(revisions)] /\ heads' = [heads EXCEPT ![b] = n]
        BY <1>1, TableTypes DEF Placed, AppendsAt
      <3>2. 0..Len(revisions) \subseteq {0} \cup 1..n /\ n \in 1..n
        BY <1>1, <1>2
      <3> QED  BY <1>7, <3>1, <3>2
    <2>2. checkpoints' \subseteq [revision : DOMAIN revisions', answer : SUBSET Fact]
      BY <1>7 DEF AppendsAt, Placed, FactsTypeOK
    <2>3. demand' \in Demands
      BY DEF Placed, FactsTypeOK
    <2> QED  BY <1>7, <1>12, <1>13, <2>1, <2>2, <2>3 DEF FactsTypeOK, Revision
  <1>15. \A r \in DOMAIN revisions :
            /\ revisions[r].line \in Nat /\ revisions[r].seq \in Nat
            /\ revisions[r].seq <= Len(revisions) /\ revisions[r].line <= last
            /\ revisions[r].kind = "fact" => revisions[r].line # 0
            /\ revisions[r].line = line => revisions[r].seq < seq
    <2>1. \A r \in DOMAIN revisions : revisions[r].line \in Nat /\ revisions[r].seq \in Nat
      BY <1>2, TableTypes DEF Placed, Revision
    <2> QED  BY <1>3, <2>1 DEF Placed, Layout, Last, Behind
  <1>16. \E m \in 0..Len(revisions') : Last(m)'
    <2>1. CASE line <= last
      <3>1. last # 0 /\ \E r \in DOMAIN revisions : revisions[r].line = last
        BY <2>1, <1>3 DEF Last
      <3>2. \E m \in 0..n : /\ \E r \in DOMAIN revisions' : revisions'[r].line = m
                             /\ \A x \in DOMAIN revisions' : revisions'[x].line <= m
        <4>1. last \in 0..n
          BY <1>1, <1>2, <1>3
        <4>2. \E r \in DOMAIN revisions' : revisions'[r].line = last
          BY <1>7, <3>1
        <4>3. \A r \in DOMAIN revisions' : revisions'[r].line <= last
          BY <1>7, <1>8, <1>15, <2>1
        <4> QED  BY <4>1, <4>2, <4>3
      <3> QED  BY <1>7, <3>2 DEF Last
    <2>2. CASE line = last + 1
      <3>1. line \in 0..n
        BY <1>1, <1>2, <1>3, <2>2
      <3>2. \A r \in DOMAIN revisions' : revisions'[r].line <= line
        BY <1>3, <1>7, <1>8, <1>15, <2>2
      <3>3. n \in DOMAIN revisions' /\ revisions'[n].line = line
        BY <1>7, <1>8
      <3> QED  BY <1>7, <3>1, <3>2, <3>3 DEF Last
    <2> QED  BY <1>3, <2>1, <2>2
  <1>17. \A r \in DOMAIN revisions' :
            /\ revisions'[r].seq <= Len(revisions')
            /\ revisions'[r].kind = "fact" => revisions'[r].line # 0
    BY <1>1, <1>2, <1>3, <1>7, <1>8, <1>15
  <1>18. ASSUME NEW v \in versions'
         PROVE  \E r \in DOMAIN revisions' : /\ revisions'[r].line = v.line
                                             /\ v.from <= revisions'[r].seq /\ v.until <= revisions'[r].seq
    <2>1. n \in DOMAIN revisions' /\ revisions'[n].line = line /\ revisions'[n].seq = seq
      BY <1>7, <1>8
    <2>2. CASE \E f \in put : v = opened(f)
      <3>1. v.line = line /\ v.from = seq /\ v.until = 0
        BY <2>2 DEF Opened
      <3> QED  BY <2>1, <3>1, <1>3
    <2>3. CASE \E w \in base : v = closed(w)
      <3>1. PICK w \in base : v = closed(w)
        BY <2>3
      <3>2. w.line = line /\ w.from = 0 /\ w.until = 0
        BY DEF Behind
      <3>3. v.line = line /\ v.from = 0 /\ v.until \in {0, seq}
        BY <1>10, <3>1, <3>2
      <3> QED  BY <2>1, <3>3, <1>3
    <2>4. CASE \E w \in versions : v = closed(w)
      <3>1. PICK w \in versions : v = closed(w)
        BY <2>4
      <3>2. PICK r \in DOMAIN revisions :
               revisions[r].line = w.line /\ w.from <= revisions[r].seq /\ w.until <= revisions[r].seq
        BY DEF Placed, Layout
      <3>3. w.from \in Nat /\ w.until \in Nat
        BY <1>9, FactsAssumption DEF VersionOf
      <3>4. CASE Touches(w, line, put, drop)
        <4>1. v.line = line /\ v.from = w.from /\ v.until = seq /\ revisions[r].line = line
          BY <1>10, <3>1, <3>2, <3>4 DEF Touches
        <4> QED  BY <1>3, <1>15, <2>1, <3>2, <3>3, <4>1
      <3>5. CASE ~Touches(w, line, put, drop)
        <4>1. v.line = w.line /\ v.from = w.from /\ v.until = w.until
          BY <1>10, <3>1, <3>5
        <4> QED  BY <1>7, <3>2, <4>1
      <3> QED  BY <3>4, <3>5
    <2> QED  BY <1>11, <2>2, <2>3, <2>4
  <1>19. Layout'
    BY <1>16, <1>17, <1>18 DEF Layout
  <1> QED  BY <1>14, <1>19 DEF Placed

(***************************************************************************)
(* What the rules of a write rule out                                      *)
(***************************************************************************)

LEMMA NoneFail ==
    ASSUME NEW checks, Failing(checks) = {}, NEW name, NEW fails, <<name, fails>> \in checks
    PROVE  ~fails
  <1>1. \A x \in checks : ~x[2]
    BY DEF Failing
  <1>2. <<name, fails>>[2] = fails
    OBVIOUS
  <1> QED  BY <1>1, <1>2

LEMMA ChangeRules ==
    ASSUME NEW view, NEW V, NEW c, ChangeFaults(view, V, c) = {}
    PROVE  LET all == At(V, c.fact.key)
               now == all \cap Known(view, V)
           IN  /\ ~(c.op = "assert" /\ all # now)
               /\ ~(c.op = "assert" /\ \E v \in now : v.fact # c.fact)
               /\ ~(c.op # "assert" /\ now = {})
               /\ ~(c.op = "correct" /\ \E v \in now : ~SameIdentity(v.fact, c.fact))
  <1> DEFINE all == At(V, c.fact.key)
             now == all \cap Known(view, V)
             checks == {
            <<"occupied", c.op = "assert" /\ all # now>>,
            <<"kind", \E v \in now : v.fact.kind # c.fact.kind>>,
            <<"already live", c.op = "assert" /\ \E v \in now : v.fact # c.fact>>,
            <<"expectation", c.op # "assert" /\ ~Expected(now, c)>>,
            <<"not live", c.op # "assert" /\ now = {}>>,
            <<"identity", c.op = "correct" /\ \E v \in now : ~SameIdentity(v.fact, c.fact)>>,
            <<"widened", /\ c.op = "correct" /\ ~c.widen_readers
                         /\ \E v \in now : Widens(v.fact, c.fact)>>,
            <<"immutable", c.op = "retract" /\ c.fact.kind = "space">>}
  <1>1. Failing(checks) = {}
    BY DEF ChangeFaults
  <1>2. /\ <<"occupied", c.op = "assert" /\ all # now>> \in checks
        /\ <<"already live", c.op = "assert" /\ \E v \in now : v.fact # c.fact>> \in checks
        /\ <<"not live", c.op # "assert" /\ now = {}>> \in checks
        /\ <<"identity", c.op = "correct" /\ \E v \in now : ~SameIdentity(v.fact, c.fact)>> \in checks
    OBVIOUS
  <1> HIDE DEF all, now, checks
  <1>3. ~(c.op = "assert" /\ all # now)
    BY <1>1, <1>2, NoneFail
  <1>4. ~(c.op = "assert" /\ \E v \in now : v.fact # c.fact)
    BY <1>1, <1>2, NoneFail
  <1>5. ~(c.op # "assert" /\ now = {})
    BY <1>1, <1>2, NoneFail
  <1>6. ~(c.op = "correct" /\ \E v \in now : ~SameIdentity(v.fact, c.fact))
    BY <1>1, <1>2, NoneFail
  <1> QED  BY <1>3, <1>4, <1>5, <1>6 DEF all, now

LEMMA WriteRules ==
    ASSUME NEW view, NEW V, NEW changes, WriteFaults(view, V, changes) = {}
    PROVE  LET put == Put(view, V, changes)
               drop == Drop(changes)
           IN  /\ \A c \in changes : ChangeFaults(view, V, c) = {}
               /\ \A c, d \in changes : c.fact.key = d.fact.key => c = d
               /\ ~Dependent(view, V, put, drop)
               /\ ~Dangling(view, V, put, drop)
  <1> DEFINE put == Put(view, V, changes)
             drop == Drop(changes)
             twice == \E c, d \in changes : c # d /\ c.fact.key = d.fact.key
             checks == {<<"twice", twice>>, <<"dependent", Dependent(view, V, put, drop)>>,
                        <<"dangling", Dangling(view, V, put, drop)>>}
             each == UNION {ChangeFaults(view, V, c) : c \in changes}
             own == Failing(checks)
  <1>1. own = {} /\ each = {}
    <2>1. WriteFaults(view, V, changes) = each \cup own
      BY DEF WriteFaults
    <2> HIDE DEF each, own
    <2> QED  BY <2>1
  <1>2. /\ <<"twice", twice>> \in checks
        /\ <<"dependent", Dependent(view, V, put, drop)>> \in checks
        /\ <<"dangling", Dangling(view, V, put, drop)>> \in checks
    OBVIOUS
  <1> HIDE DEF put, drop, twice, checks
  <1>3. Failing(checks) = {}
    BY <1>1
  <1>4. \A c \in changes : ChangeFaults(view, V, c) = {}
    <2>1. each = {}
      BY <1>1
    <2> SUFFICES ASSUME NEW c \in changes, NEW x \in ChangeFaults(view, V, c) PROVE FALSE
      OBVIOUS
    <2>2. x \in UNION {ChangeFaults(view, V, d) : d \in changes}
      OBVIOUS
    <2> QED  BY <2>1, <2>2
  <1>5. ~twice
    BY <1>2, <1>3, NoneFail
  <1>6. ~Dependent(view, V, put, drop)
    BY <1>2, <1>3, NoneFail
  <1>7. ~Dangling(view, V, put, drop)
    BY <1>2, <1>3, NoneFail
  <1> QED  BY <1>4, <1>5, <1>6, <1>7 DEF put, drop, twice

\* A key that is written or dropped belongs to a known record, or to none.
LEMMA TouchedIsKnown ==
    ASSUME NEW view, NEW V, NEW changes \in SUBSET Change, WriteFaults(view, V, changes) = {},
           Closed(FactsOf(V)), NEW n \in FactsOf(V)
    PROVE  LET put == Put(view, V, changes)
               drop == Drop(changes)
           IN  /\ n.key \in drop => n \in FactsOf(Known(view, V))
               /\ \A f \in put : f.key = n.key => SameIdentity(n, f)
  <1> DEFINE put == Put(view, V, changes)
             drop == Drop(changes)
             known == Known(view, V)
             now(c) == At(V, c.fact.key) \cap known
  <1>1. \A v \in V : v.fact.key = n.key => v.fact = n
    <2>1. \A v \in V : v.fact \in FactsOf(V)
      BY DEF FactsOf
    <2> QED  BY <2>1 DEF Closed
  <1>2. \A c \in changes : c.fact.key = n.key => \A v \in now(c) : v.fact = n
    BY <1>1 DEF At
  <1>3. \A c \in changes : c.op # "assert" => now(c) # {}
    BY WriteRules, ChangeRules
  <1>4. n.key \in drop => n \in FactsOf(known)
    <2> SUFFICES ASSUME NEW c \in changes, c.op = "retract", c.fact.key = n.key
                 PROVE  n \in FactsOf(known)
      BY DEF Drop
    <2>1. PICK v \in now(c) : TRUE
      BY <1>3
    <2> QED  BY <1>2, <2>1 DEF FactsOf
  <1>5. ASSUME NEW f \in put, f.key = n.key
        PROVE  SameIdentity(n, f)
    <2>1. PICK c \in changes : c.op # "retract" /\ c.fact \notin FactsOf(known) /\ f = c.fact
      BY DEF Put
    <2>2. CASE c.op = "correct"
      <3>1. PICK v \in now(c) : v.fact = n
        BY <1>2, <1>3, <1>5, <2>1, <2>2
      <3>2. SameIdentity(v.fact, c.fact)
        BY <2>1, <2>2, <3>1, WriteRules, ChangeRules
      <3> QED  BY <2>1, <3>1, <3>2
    <2>3. CASE c.op = "assert"
      <3>1. At(V, c.fact.key) = now(c) /\ \A v \in now(c) : v.fact = c.fact
        BY <2>3, WriteRules, ChangeRules
      <3>2. PICK v \in V : v.fact = n
        BY DEF FactsOf
      <3>3. v \in now(c) /\ v \in known
        BY <1>5, <2>1, <3>1, <3>2 DEF At
      <3> QED  BY <2>1, <3>1, <3>3 DEF FactsOf
    <2>4. c.op \in {"assert", "correct"}
      BY <2>1 DEF Change
    <2> QED  BY <2>2, <2>3, <2>4
  <1> QED  BY <1>4, <1>5

\* The rules leave a closed graph closed, whatever its writer does not see.
LEMMA WriteKeepsClosed ==
    ASSUME NEW view, NEW V, NEW changes \in SUBSET Change, WriteFaults(view, V, changes) = {},
           Closed(FactsOf(V))
    PROVE  LET put == Put(view, V, changes)
               drop == Drop(changes)
           IN  Closed(Kept(V, put, drop) \cup put)
  <1> DEFINE put == Put(view, V, changes)
             drop == Drop(changes)
             after == Kept(V, put, drop) \cup put
             known == Known(view, V)
  <1>1. \A c, d \in changes : c.fact.key = d.fact.key => c = d
    BY WriteRules
  <1>2. \A f \in put : \E c \in changes : f = c.fact /\ c.op # "retract"
    BY DEF Put
  <1>3. \A f \in put : f.key \notin drop
    BY <1>1, <1>2 DEF Drop
  <1>4. \A f \in Kept(V, put, drop) : f \in FactsOf(V) /\ f.key \notin Keys(put) /\ f.key \notin drop
    BY DEF Kept
  <1>5. \A f \in FactsOf(V) : f.key \notin Keys(put) /\ f.key \notin drop => f \in after
    BY DEF Kept
  <1>6. ~Dependent(view, V, put, drop) /\ ~Dangling(view, V, put, drop)
    BY WriteRules
  <1>7. Kept(Resolvable(view, V), put, drop) \subseteq Kept(V, put, drop)
    BY DEF Kept, Resolvable, Known, FactsOf
  <1>8. \A n \in FactsOf(V) : /\ n.key \in drop => n \in FactsOf(known)
                              /\ \A f \in put : f.key = n.key => SameIdentity(n, f)
    BY TouchedIsKnown
  <1> HIDE DEF put, drop
  <1>9. ASSUME NEW f \in after, NEW g \in after, g.key = f.key
        PROVE  g = f
    <2>1. CASE f \in put /\ g \in put
      BY <1>1, <1>2, <1>9, <2>1
    <2>2. CASE f \notin put /\ g \notin put
      <3>1. f \in FactsOf(V) /\ g \in FactsOf(V)
        BY <1>4, <2>2
      <3> QED  BY <1>9, <3>1 DEF Closed
    <2>3. ASSUME NEW x \in put, NEW y \in Kept(V, put, drop), x.key = y.key PROVE FALSE
      BY <1>4, <2>3 DEF Keys
    <2> QED  BY <1>9, <2>1, <2>2, <2>3
  <1>10. ASSUME NEW f \in put
         PROVE  /\ f.refs \subseteq Keys(after)
                /\ f.host # NoEntity => HasEntity(after, f.host)
    <2> DEFINE resolved == Kept(Resolvable(view, V), put, drop) \cup put
    <2>1. f.refs \subseteq Keys(resolved) /\ (f.host # NoEntity => HasEntity(resolved, f.host))
      BY <1>6 DEF Dangling
    <2>2. resolved \subseteq after
      BY <1>7
    <2> QED  BY <2>1, <2>2 DEF Keys, HasEntity
  <1>11. ASSUME NEW f \in Kept(V, put, drop), NEW k \in f.refs
         PROVE  k \in Keys(after)
    <2>1. f \in FactsOf(V) /\ f \in after
      BY <1>4
    <2>2. PICK n \in FactsOf(V) : n.key = k
      BY <2>1 DEF Closed, Keys
    <2>3. CASE k \in Keys(put)
      BY <2>3 DEF Keys
    <2>4. CASE k \in drop
      <3>1. n \in FactsOf(known) /\ n.key \in drop /\ n.key \in f.refs
        BY <1>8, <2>2, <2>4
      <3>2. f.key \in Keys(FactsOf(V))
        BY <2>1 DEF Keys
      <3>3. Dependent(view, V, put, drop)
        BY <2>1, <3>1, <3>2 DEF Dependent
      <3> QED  BY <1>6, <3>3
    <2>5. CASE k \notin Keys(put) /\ k \notin drop
      BY <1>5, <2>2, <2>5 DEF Keys
    <2> QED  BY <2>3, <2>4, <2>5
  <1>12. ASSUME NEW f \in Kept(V, put, drop), f.host # NoEntity, ~HasEntity(after, f.host)
         PROVE  FALSE
    <2>1. f \in FactsOf(V) /\ f \in after
      BY <1>4
    <2>2. PICK n \in FactsOf(V) : n.kind = "node" /\ n.entity = f.host
      BY <1>12, <2>1 DEF Closed, HasEntity
    <2>3. n \notin after
      BY <1>12, <2>2 DEF HasEntity
    <2>4. CASE n.key \in Keys(put)
      <3>1. PICK g \in put : g.key = n.key
        BY <2>4 DEF Keys
      <3>2. g.kind = "node" /\ g.entity = f.host
        BY <1>8, <2>2, <3>1 DEF SameIdentity
      <3> QED  BY <1>12, <3>2 DEF HasEntity
    <2>5. CASE n.key \in drop
      <3>1. n \in FactsOf(known) /\ f.key \in Keys(FactsOf(V))
        BY <1>8, <2>1, <2>5 DEF Keys
      <3>2. Dependent(view, V, put, drop)
        BY <1>12, <2>1, <2>2, <2>5, <3>1 DEF Dependent
      <3> QED  BY <1>6, <3>2
    <2> QED  BY <1>5, <2>3, <2>4, <2>5
  <1> HIDE DEF after
  <1>13. \A f \in after : f \in put \/ f \in Kept(V, put, drop)
    BY DEF after
  <1>14. Closed(after)
    BY <1>9, <1>10, <1>11, <1>12, <1>13 DEF Closed
  <1> QED  BY <1>14 DEF after, put, drop

(***************************************************************************)
(* The invariant is kept by every step                                     *)
(***************************************************************************)

LEMMA LoadIsGraph ==
    ASSUME Cached, NEW r
    PROVE  Load(r) = GraphOf(Seen(r))
  <1>1. CASE Checkpoint(r) = {}
    BY <1>1 DEF Load, GraphOf
  <1>2. CASE Checkpoint(r) # {}
    <2> DEFINE c == CHOOSE c \in Checkpoint(r) : TRUE
    <2>1. c \in Checkpoint(r)
      BY <1>2
    <2>2. c \in checkpoints /\ c.revision = r
      BY <2>1 DEF Checkpoint
    <2> HIDE DEF c
    <2>3. c.answer = GraphOf(Seen(r))
      BY <2>2 DEF Cached
    <2>4. Load(r) = c.answer
      BY <1>2 DEF Load, c
    <2> QED  BY <2>3, <2>4
  <1> QED  BY <1>1, <1>2

LEMMA UnchangedSeen ==
    ASSUME revisions' = revisions, versions' = versions, NEW r
    PROVE  Seen(r)' = Seen(r) /\ Recorded(r)' = Recorded(r)
  BY DEF Seen, Recorded, Live

\* A snapshot holds its own records, under numbers of no line.
LEMMA SnapshotSees ==
    ASSUME Placed, NEW h \in Principal, NEW b \in Branch, NEW F \in SUBSET Fact,
           NEW n, n = Len(revisions) + 1,
           NewRevision("snapshot", h, b, F, {}, 0, 0), versions' = versions
    PROVE  /\ \A r \in DOMAIN revisions : Seen(r)' = Seen(r) /\ Recorded(r)' = Recorded(r)
           /\ Seen(n)' = Stamped(F, 0, h) /\ Recorded(n)' = Stamped(F, n, h)
           /\ Len(revisions') = n /\ DOMAIN revisions' = DOMAIN revisions \cup {n}
           /\ \A r \in DOMAIN revisions : revisions'[r] = revisions[r]
           /\ revisions'[n] = SnapshotOf(h, b, F)
  <1> DEFINE entry == SnapshotOf(h, b, F)
             w(f) == [fact |-> f, by |-> 0, writer |-> h]
             based(v) == [v EXCEPT !.by = IF @ = 0 THEN n ELSE @]
  <1>1. revisions \in Seq(Revision) /\ Len(revisions) \in Nat /\ DOMAIN revisions = 1..Len(revisions)
    BY TableTypes DEF Placed
  <1>2. revisions' = Append(revisions, entry)
    BY DEF NewRevision, SnapshotOf
  <1>3. entry.kind = "snapshot" /\ entry.put = F /\ entry.writer = h
    BY DEF SnapshotOf
  <1> HIDE DEF entry
  <1>4. /\ Len(revisions') = n /\ DOMAIN revisions' = DOMAIN revisions \cup {n} /\ n # 0
        /\ \A r \in DOMAIN revisions : revisions'[r] = revisions[r]
        /\ revisions'[n] = entry
    BY <1>1, <1>2
  <1>5. ASSUME NEW r \in DOMAIN revisions
        PROVE  Seen(r)' = Seen(r) /\ Recorded(r)' = Recorded(r)
    <2>1. revisions'[r] = revisions[r]
      BY <1>4
    <2>2. Live(r)' = Live(r)
      BY <2>1 DEF Live
    <2>3. Seen(r)' = Seen(r)
      BY <2>1, <2>2 DEF Seen
    <2> QED  BY <2>3 DEF Recorded
  <1>6. Seen(n)' = {w(f) : f \in F}
    BY <1>3, <1>4 DEF Seen
  <1>7. Recorded(n)' = {[fact |-> f, by |-> n, writer |-> h] : f \in F}
    <2>1. Recorded(n)' = {based(v) : v \in Seen(n)'}
      BY DEF Recorded
    <2>2. \A f : based(w(f)) = [fact |-> f, by |-> n, writer |-> h]
      OBVIOUS
    <2> HIDE DEF w, based
    <2>3. Recorded(n)' = {based(w(f)) : f \in F}
      BY <1>6, <2>1
    <2> QED  BY <2>2, <2>3
  <1> QED  BY <1>4, <1>5, <1>6, <1>7 DEF entry, Stamped

LEMMA SnapshotKeepsPlaced ==
    ASSUME Placed, demand' = demand,
           NEW h \in Principal, NEW b \in Branch, NEW F \in SUBSET Fact,
           NewRevision("snapshot", h, b, F, {}, 0, 0), UNCHANGED <<versions, checkpoints>>
    PROVE  Placed'
  <1> DEFINE entry == SnapshotOf(h, b, F)
  <1>1. PICK n : n = Len(revisions) + 1
    OBVIOUS
  <1>2. Len(revisions) \in Nat /\ n \in 1..MaxRevisions /\ MaxRevisions \in Nat
    BY <1>1, TableTypes, FactsAssumption DEF Placed, NewRevision
  <1>3. /\ Len(revisions') = n /\ DOMAIN revisions' = DOMAIN revisions \cup {n}
        /\ \A r \in DOMAIN revisions : revisions'[r] = revisions[r]
        /\ revisions'[n] = entry
    <2>1. versions' = versions
      OBVIOUS
    <2> QED  BY <1>1, <2>1, SnapshotSees
  <1>4. entry.line = 0 /\ entry.seq = 0 /\ entry.kind = "snapshot"
    BY DEF SnapshotOf
  <1>5. entry \in Revision
    <2>1. heads[b] \in 0..MaxRevisions
      BY <1>1, <1>2, TableTypes DEF Placed
    <2> QED  BY <1>2, <2>1 DEF Revision, SnapshotOf
  <1>6. revisions' = Append(revisions, entry)
    BY DEF NewRevision, SnapshotOf
  <1> HIDE DEF entry
  <1>7. revisions' \in Seq(Revision)
    BY <1>5, <1>6, TableTypes DEF Placed
  <1>8. FactsTypeOK'
    <2>1. heads' \in [Branch -> {0} \cup DOMAIN revisions']
      <3>1. heads' = [heads EXCEPT ![b] = n]
        BY <1>3 DEF NewRevision
      <3> QED  BY <1>3, <3>1 DEF Placed, FactsTypeOK
    <2>2. checkpoints' \subseteq [revision : DOMAIN revisions', answer : SUBSET Fact]
      BY <1>3 DEF Placed, FactsTypeOK
    <2>3. versions' \subseteq [line : 1..MaxRevisions, from : 0..MaxRevisions, until : 0..MaxRevisions,
                              fact : Fact, by : DOMAIN revisions', writer : Principal]
      BY <1>3 DEF Placed, FactsTypeOK
    <2>4. demand' \in Demands
      BY DEF Placed, FactsTypeOK
    <2> QED  BY <1>7, <2>1, <2>2, <2>3, <2>4 DEF FactsTypeOK, Revision
  <1>9. Layout'
    <2>1. \E m \in 0..Len(revisions') : Last(m)'
      <3>1. PICK m \in 0..Len(revisions) : Last(m)
        BY DEF Placed, Layout
      <3>2. m \in 0..n
        BY <1>1, <1>2
      <3>3. m = 0 \/ \E r \in DOMAIN revisions' : revisions'[r].line = m
        BY <1>3, <3>1 DEF Last
      <3>4. \A r \in DOMAIN revisions' : revisions'[r].line <= m
        BY <1>3, <1>4, <3>1, <3>2 DEF Last
      <3> QED  BY <1>3, <3>2, <3>3, <3>4 DEF Last
    <2>2. \A r \in DOMAIN revisions' : /\ revisions'[r].seq <= Len(revisions')
                                       /\ revisions'[r].kind = "fact" => revisions'[r].line # 0
      <3>1. \A r \in DOMAIN revisions : revisions[r].seq \in Nat
        BY <1>2, TableTypes DEF Placed, Revision
      <3> QED  BY <1>1, <1>2, <1>3, <1>4, <3>1 DEF Placed, Layout
    <2>3. \A v \in versions' : \E r \in DOMAIN revisions' :
             /\ revisions'[r].line = v.line
             /\ v.from <= revisions'[r].seq /\ v.until <= revisions'[r].seq
      <3>1. \A v \in versions : \E r \in DOMAIN revisions :
               /\ revisions[r].line = v.line
               /\ v.from <= revisions[r].seq /\ v.until <= revisions[r].seq
        BY DEF Placed, Layout
      <3> QED  BY <1>3, <3>1
    <2> QED  BY <2>1, <2>2, <2>3 DEF Layout
  <1> QED  BY <1>8, <1>9 DEF Placed

\* What the facts of a write request are.
LEMMA WritePuts ==
    ASSUME NEW view, NEW V, NEW changes \in SUBSET Change
    PROVE  Put(view, V, changes) \in SUBSET Fact /\ Drop(changes) \in SUBSET Keys(Fact)
  BY DEF Put, Drop, Change, Keys

\* A fact write appends to some line, and leaves a closed graph.
LEMMA WriteAppends ==
    ASSUME FactsInv, NEW h \in Principal, NEW b \in Branch, NEW changes \in SUBSET Change, NEW now,
           WriteFacts(h, b, changes, now)
    PROVE  \E put \in SUBSET Fact, drop \in SUBSET Keys(Fact) :
              /\ AppendFacts(h, b, put, drop)
              /\ Closed(Kept(Seen(heads[b]), put, drop) \cup put)
  <1> DEFINE view == View(h, now)
             V == Seen(heads[b])
             put == Put(view, V, changes)
             drop == Drop(changes)
  <1>1. put \in SUBSET Fact /\ drop \in SUBSET Keys(Fact)
    BY WritePuts
  <1>2. WriteFaults(view, V, changes) = {} /\ AppendFacts(h, b, put, drop)
    BY DEF WriteFacts
  <1>3. Closed(FactsOf(V))
    <2>1. CASE heads[b] = 0
      BY <2>1 DEF Seen, FactsOf, Closed
    <2>2. CASE heads[b] # 0
      <3>1. heads[b] \in DOMAIN revisions
        BY <2>2, TableTypes DEF FactsInv, Placed
      <3> QED  BY <3>1 DEF FactsInv, ReferencesResolve
    <2> QED  BY <2>1, <2>2
  <1> HIDE DEF view, V
  <1>4. Closed(Kept(V, put, drop) \cup put)
    BY <1>2, <1>3, WriteKeepsClosed
  <1> HIDE DEF put, drop
  <1> QED  BY <1>1, <1>2, <1>4 DEF V

\* Reconciliation writes changes like any other.
LEMMA ReconciledAreChanges ==
    ASSUME NEW view, NEW V, NEW F \in SUBSET Fact
    PROVE  Reconciled(view, V, F) \in SUBSET Change
  <1> DEFINE change(f) == [op |-> IF At(Known(view, V), f.key) = {} THEN "assert" ELSE "correct",
                           fact |-> f, expected |-> {}, widen_readers |-> FALSE]
  <1>1. \A f \in F : change(f) \in Change
    BY DEF Change
  <1>2. Reconciled(view, V, F) = {change(f) : f \in F \ FactsOf(Known(view, V))}
    BY DEF Reconciled
  <1> HIDE DEF change
  <1> QED  BY <1>1, <1>2

\* The facts of the new revision are the ones kept and the ones put.
LEMMA NewestFacts ==
    ASSUME Placed, NEW h \in Principal, NEW b \in Branch, NEW put \in SUBSET Fact, NEW drop,
           NEW line, NEW seq, NEW base, NEW n, n = Len(revisions) + 1,
           Behind(line, seq, base, heads[b]), AppendsAt(h, b, put, drop, line, seq, base)
    PROVE  FactsOf(Seen(n)') = Kept(Seen(heads[b]), put, drop) \cup put
  <1> DEFINE old == Untouched(Recorded(heads[b]), put, drop)
             new == Stamped(put, n, h)
  <1>1. Seen(n)' = old \cup new
    BY NewestSees
  <1>2. heads[b] \in 0..Len(revisions)
    BY TableTypes DEF Placed
  <1>3. FactsOf(Recorded(heads[b])) = FactsOf(Seen(heads[b]))
    BY <1>2, RecordedTypes
  <1>4. FactsOf(old) = Kept(Recorded(heads[b]), put, drop)
    BY DEF FactsOf, Untouched, Kept
  <1>5. FactsOf(new) = put
    BY StampedFacts
  <1> HIDE DEF old, new
  <1>6. FactsOf(Seen(n)') = FactsOf(old) \cup FactsOf(new)
    BY <1>1 DEF FactsOf
  <1>7. Kept(Recorded(heads[b]), put, drop) = Kept(Seen(heads[b]), put, drop)
    BY <1>3 DEF Kept
  <1> QED  BY <1>4, <1>5, <1>6, <1>7

LEMMA AppendKeepsInv ==
    ASSUME FactsInv, demand' = demand,
           NEW h \in Principal, NEW b \in Branch, NEW put \in SUBSET Fact,
           NEW drop \in SUBSET Keys(Fact), AppendFacts(h, b, put, drop),
           Closed(Kept(Seen(heads[b]), put, drop) \cup put)
    PROVE  FactsInv'
  <1>1. Placed /\ Cached /\ ReferencesResolve
    BY DEF FactsInv
  <1>2. PICK line, seq, base : /\ Behind(line, seq, base, heads[b])
                               /\ AppendsAt(h, b, put, drop, line, seq, base)
    BY <1>1, AppendIsBehind
  <1>3. PICK n : n = Len(revisions) + 1
    OBVIOUS
  <1>4. DOMAIN revisions' = DOMAIN revisions \cup {n}
    BY <1>1, <1>2, <1>3, AppendedTable
  <1>5. \A r \in DOMAIN revisions : Seen(r)' = Seen(r)
    BY <1>1, <1>2, OlderSeeTheSame
  <1>6. FactsOf(Seen(n)') = Kept(Seen(heads[b]), put, drop) \cup put
    BY <1>1, <1>2, <1>3, NewestFacts
  <1>7. Placed'
    BY <1>1, <1>2, AppendKeepsPlaced
  <1>8. Cached'
    <2>1. checkpoints' = checkpoints
      BY <1>2 DEF AppendsAt
    <2>2. \A c \in checkpoints : c.revision \in DOMAIN revisions
      BY <1>1 DEF Placed, FactsTypeOK
    <2>3. \A c \in checkpoints : GraphOf(Seen(c.revision)') = GraphOf(Seen(c.revision))
      BY <1>5, <2>2
    <2> QED  BY <1>1, <2>1, <2>3 DEF Cached, GraphOf, FactsOf
  <1>9. ReferencesResolve'
    <2>1. Closed(FactsOf(Seen(n)'))
      BY <1>6
    <2>2. \A r \in DOMAIN revisions : Closed(FactsOf(Seen(r)'))
      BY <1>1, <1>5 DEF ReferencesResolve
    <2>3. \A r \in DOMAIN revisions' : Closed(FactsOf(Seen(r)'))
      BY <1>4, <2>1, <2>2
    <2> QED  BY <2>3 DEF ReferencesResolve, Closed, FactsOf, Keys, HasEntity
  <1> QED  BY <1>7, <1>8, <1>9 DEF FactsInv

LEMMA SnapshotKeepsInv ==
    ASSUME FactsInv, demand' = demand,
           NEW h \in Principal, NEW b \in Branch, NEW F \in SUBSET Fact, Closed(F),
           NewRevision("snapshot", h, b, F, {}, 0, 0), UNCHANGED <<versions, checkpoints>>
    PROVE  FactsInv'
  <1>1. Placed /\ Cached /\ ReferencesResolve
    BY DEF FactsInv
  <1>2. versions' = versions /\ checkpoints' = checkpoints
    OBVIOUS
  <1>3. PICK n : n = Len(revisions) + 1
    OBVIOUS
  <1>4. /\ \A r \in DOMAIN revisions : Seen(r)' = Seen(r)
        /\ Seen(n)' = Stamped(F, 0, h)
        /\ DOMAIN revisions' = DOMAIN revisions \cup {n}
    BY <1>1, <1>2, <1>3, SnapshotSees
  <1>5. Placed'
    BY <1>1, SnapshotKeepsPlaced
  <1>6. Cached'
    <2>1. \A c \in checkpoints : c.revision \in DOMAIN revisions
      BY <1>1 DEF Placed, FactsTypeOK
    <2>2. \A c \in checkpoints : GraphOf(Seen(c.revision)') = GraphOf(Seen(c.revision))
      BY <1>4, <2>1
    <2> QED  BY <1>1, <1>2, <2>2 DEF Cached, GraphOf, FactsOf
  <1>7. FactsOf(Stamped(F, 0, h)) = F
    BY StampedFacts
  <1>8. ReferencesResolve'
    <2>1. Closed(FactsOf(Seen(n)'))
      BY <1>4, <1>7
    <2>2. \A r \in DOMAIN revisions : Closed(FactsOf(Seen(r)'))
      BY <1>1, <1>4 DEF ReferencesResolve
    <2>3. \A r \in DOMAIN revisions' : Closed(FactsOf(Seen(r)'))
      BY <1>4, <2>1, <2>2
    <2> QED  BY <2>3 DEF ReferencesResolve, Closed, FactsOf, Keys, HasEntity
  <1> QED  BY <1>5, <1>6, <1>8 DEF FactsInv

\* Steps that record no revision and write no version leave every answer as it was.
LEMMA CacheKeepsInv ==
    ASSUME FactsInv, demand' = demand, revisions' = revisions, versions' = versions,
           heads' \in [Branch -> {0} \cup DOMAIN revisions],
           \A c \in checkpoints' : \/ c \in checkpoints
                                   \/ \E r \in DOMAIN revisions :
                                         c = [revision |-> r, answer |-> Load(r)]
    PROVE  FactsInv'
  <1>1. \A r : Seen(r)' = Seen(r)
    BY UnchangedSeen
  <1>2. \A r \in DOMAIN revisions : Load(r) = GraphOf(Seen(r)) /\ Load(r) \subseteq Fact
    <2> SUFFICES ASSUME NEW r \in DOMAIN revisions
                 PROVE  Load(r) = GraphOf(Seen(r)) /\ Load(r) \subseteq Fact
      OBVIOUS
    <2>1. Load(r) = GraphOf(Seen(r))
      BY LoadIsGraph DEF FactsInv
    <2>2. r \in 0..Len(revisions)
      BY TableTypes DEF FactsInv, Placed
    <2>3. FactsOf(Seen(r)) \subseteq Fact
      BY <2>2, RecordedTypes DEF FactsInv
    <2> QED  BY <2>1, <2>3 DEF GraphOf
  <1>3. Cached'
    <2>1. \A c \in checkpoints' : c.answer = GraphOf(Seen(c.revision))
      BY <1>2 DEF FactsInv, Cached
    <2> QED  BY <1>1, <2>1 DEF Cached, GraphOf, FactsOf
  <1>4. Placed'
    <2>1. checkpoints' \subseteq [revision : DOMAIN revisions, answer : SUBSET Fact]
      BY <1>2 DEF FactsInv, Placed, FactsTypeOK
    <2> QED  BY <2>1 DEF FactsInv, Placed, FactsTypeOK, Layout, Last
  <1>5. ReferencesResolve'
    <2>1. \A r \in DOMAIN revisions' : Closed(FactsOf(Seen(r)'))
      BY <1>1 DEF FactsInv, ReferencesResolve
    <2> QED  BY <2>1 DEF ReferencesResolve, Closed, FactsOf, Keys, HasEntity
  <1> QED  BY <1>3, <1>4, <1>5 DEF FactsInv

LEMMA DemandTypes ==
    ASSUME FactsInv
    PROVE  /\ \A q \in demand.writes : q.host \in Principal /\ q.changes \in SUBSET Change
           /\ \A q \in demand.imports \cup demand.commits : q.host \in Principal /\ q.facts \in SUBSET Fact
  BY FactsAssumption DEF FactsInv, Placed, FactsTypeOK

\* What a step can be: the revision it records, or none.
Writes(b) ==
    \E h \in Principal, put \in SUBSET Fact, drop \in SUBSET Keys(Fact) :
        /\ AppendFacts(h, b, put, drop)
        /\ Closed(Kept(Seen(heads[b]), put, drop) \cup put)
Commits(b) ==
    \E h \in Principal, F \in SUBSET Fact :
        /\ Closed(F) /\ NewRevision("snapshot", h, b, F, {}, 0, 0)
        /\ UNCHANGED <<versions, checkpoints>>
Accepts(b) ==
    \E r \in DOMAIN revisions :
        /\ heads' = [heads EXCEPT ![b] = r]
        /\ UNCHANGED <<revisions, versions, checkpoints>>
Caches ==
    /\ UNCHANGED <<revisions, versions, heads>>
    /\ \A c \in checkpoints' : \/ c \in checkpoints
                               \/ \E r \in DOMAIN revisions :
                                     c = [revision |-> r, answer |-> Load(r)]

LEMMA StepShape ==
    ASSUME FactsInv, [Next]_vars
    PROVE  /\ demand' = demand
           /\ (\E b \in Branch : Writes(b) \/ Commits(b) \/ Accepts(b)) \/ Caches
  <1>1. CASE UNCHANGED vars
    BY <1>1 DEF vars, facts, Caches
  <1>2. CASE RegistryNext /\ UNCHANGED demand
    BY <1>2 DEF RegistryNext, facts, Caches
  <1>3. ASSUME demand' = demand, NEW now, NEW b \in Branch, NEW q \in demand.writes,
               WriteFacts(q.host, b, q.changes, now)
        PROVE  Writes(b)
    BY <1>3, DemandTypes, WriteAppends DEF Writes
  <1>4. ASSUME demand' = demand, NEW now, NEW b \in Branch, NEW q \in demand.imports,
               Import(q.host, b, q.facts, now)
        PROVE  Writes(b)
    <2> DEFINE changes == Reconciled(View(q.host, now), Seen(heads[b]), q.facts)
    <2>1. q.host \in Principal /\ q.facts \in SUBSET Fact
      BY DemandTypes
    <2>2. changes \in SUBSET Change
      BY <2>1, ReconciledAreChanges
    <2>3. WriteFacts(q.host, b, changes, now)
      BY <1>4 DEF Import
    <2> HIDE DEF changes
    <2> QED  BY <2>1, <2>2, <2>3, WriteAppends DEF Writes
  <1>5. ASSUME demand' = demand, NEW now, NEW b \in Branch, NEW q \in demand.commits,
               CommitSnapshot(q.host, b, q.facts, now)
        PROVE  Commits(b)
    BY <1>5, DemandTypes DEF CommitSnapshot, Commits
  <1>6. ASSUME demand' = demand, NEW now, NEW b \in Branch, NEW h, NEW r \in DOMAIN revisions,
               AcceptRevision(h, b, r, now)
        PROVE  Accepts(b)
    BY <1>6 DEF AcceptRevision, Accepts
  <1>7. ASSUME demand' = demand, NEW now, NEW h, NEW r \in DOMAIN revisions,
               CheckpointFactRevision(h, r, now) \/ DropFactCheckpoint(h, r, now)
        PROVE  Caches
    BY <1>7 DEF CheckpointFactRevision, DropFactCheckpoint, Caches
  <1>8. CASE FactsNext /\ UNCHANGED demand
    <2>1. demand' = demand
      BY <1>8
    <2>2. PICK now \in demand.times :
          \/ \E b \in Branch :
                \/ \E q \in demand.writes : WriteFacts(q.host, b, q.changes, now)
                \/ \E q \in demand.imports : Import(q.host, b, q.facts, now)
                \/ \E q \in demand.commits : CommitSnapshot(q.host, b, q.facts, now)
                \/ \E h \in demand.owners, r \in DOMAIN revisions : AcceptRevision(h, b, r, now)
          \/ \E h \in demand.cachers, r \in DOMAIN revisions :
                CheckpointFactRevision(h, r, now) \/ DropFactCheckpoint(h, r, now)
      BY <1>8 DEF FactsNext
    <2> QED  BY <2>1, <2>2, <1>3, <1>4, <1>5, <1>6, <1>7
  <1> QED  BY <1>1, <1>2, <1>8 DEF Next, vars

LEMMA StepKeepsInv == FactsInv /\ [Next]_vars => FactsInv'
  <1> SUFFICES ASSUME FactsInv, [Next]_vars PROVE FactsInv'
    OBVIOUS
  <1>1. demand' = demand
    BY StepShape
  <1>2. ASSUME NEW b \in Branch, Writes(b) PROVE FactsInv'
    BY <1>1, <1>2, AppendKeepsInv DEF Writes
  <1>3. ASSUME NEW b \in Branch, Commits(b) PROVE FactsInv'
    BY <1>1, <1>3, SnapshotKeepsInv DEF Commits
  <1>4. heads \in [Branch -> {0} \cup DOMAIN revisions]
    BY DEF FactsInv, Placed, FactsTypeOK
  <1>5. ASSUME NEW b \in Branch, Accepts(b) PROVE FactsInv'
    <2>1. heads' \in [Branch -> {0} \cup DOMAIN revisions]
      BY <1>4, <1>5 DEF Accepts
    <2>2. revisions' = revisions /\ versions' = versions /\ checkpoints' = checkpoints
      BY <1>5 DEF Accepts
    <2> QED  BY <1>1, <2>1, <2>2, CacheKeepsInv
  <1>6. CASE Caches
    <2>1. revisions' = revisions /\ versions' = versions /\ heads' = heads
      BY <1>6 DEF Caches
    <2> QED  BY <1>1, <1>4, <1>6, <2>1, CacheKeepsInv DEF Caches
  <1> QED  BY <1>2, <1>3, <1>5, <1>6, StepShape

\* Every table of the fact store keeps its type, whatever the registry lets a host do:
\* heads, parents, versions and checkpoints refer to revisions there are, and requests hold
\* records in circulation (facts.rs and fact_store.rs).
THEOREM FactsTyped == Spec => []FactsTypeOK
  <1>1. FactsInv => FactsTypeOK
    BY DEF FactsInv, Placed
  <1> QED  BY <1>1, InitPlaced, StepKeepsInv, PTL DEF Spec

\* In every revision a key is one record's and the records a live record refers to are
\* live, hidden ones included, whoever wrote it and whatever they saw (facts.rs
\* append_facts_with).
THEOREM ReferencesHold == Spec => []ReferencesResolve
  <1>1. FactsInv => ReferencesResolve
    BY DEF FactsInv
  <1> QED  BY <1>1, InitPlaced, StepKeepsInv, PTL DEF Spec

(***************************************************************************)
(* Hidden records                                                          *)
(***************************************************************************)

\* What is known is known of the known: an edge's readable endpoints are all it needs.
LEMMA KnownOfKnown ==
    ASSUME NEW view, NEW V
    PROVE  Known(view, Known(view, V)) = Known(view, V)
  <1>1. Known(view, V) \subseteq V
    BY DEF Known
  <1>2. \A v \in Known(view, V) : WriterKnows(view, Known(view, V), v)
    BY <1>1 DEF Known, WriterKnows, WriterReads
  <1> HIDE DEF WriterKnows
  <1> QED  BY <1>2 DEF Known

\* A check is a pair of its name and whether it fails.
LEMMA CheckFields ==
    ASSUME NEW name, NEW fails \in BOOLEAN
    PROVE  <<name, fails>>[1] = name /\ <<name, fails>>[2] = fails
  OBVIOUS

LEMMA EightChecks ==
    ASSUME NEW a \in BOOLEAN, NEW b \in BOOLEAN, NEW c \in BOOLEAN, NEW d \in BOOLEAN,
           NEW e \in BOOLEAN, NEW f \in BOOLEAN, NEW g \in BOOLEAN, NEW h \in BOOLEAN,
           a, ~b, ~c, ~d, ~e, ~f, ~g, ~h
    PROVE  Failing({<<"occupied", a>>, <<"kind", b>>, <<"already live", c>>, <<"expectation", d>>,
                    <<"not live", e>>, <<"identity", f>>, <<"widened", g>>, <<"immutable", h>>})
              = {"occupied"}
  <1> DEFINE A == <<"occupied", a>>
             B == <<"kind", b>>
             C == <<"already live", c>>
             D == <<"expectation", d>>
             E == <<"not live", e>>
             F == <<"identity", f>>
             G == <<"widened", g>>
             H == <<"immutable", h>>
  <1>1. A[1] = "occupied" /\ A[2]
    BY CheckFields
  <1>2. ~B[2] /\ ~C[2] /\ ~D[2] /\ ~E[2] /\ ~F[2] /\ ~G[2] /\ ~H[2]
    BY CheckFields
  <1> HIDE DEF A, B, C, D, E, F, G, H
  <1>3. Failing({A, B, C, D, E, F, G, H}) = {"occupied"}
    BY <1>1, <1>2 DEF Failing
  <1> QED  BY <1>3 DEF A, B, C, D, E, F, G, H

LEMMA ThreeChecks ==
    ASSUME NEW a \in BOOLEAN, NEW b \in BOOLEAN, NEW c \in BOOLEAN, NEW n
    PROVE  n \in Failing({<<"twice", a>>, <<"dependent", b>>, <<"dangling", c>>})
              <=> (n = "twice" /\ a) \/ (n = "dependent" /\ b) \/ (n = "dangling" /\ c)
  <1> DEFINE A == <<"twice", a>>
             B == <<"dependent", b>>
             C == <<"dangling", c>>
  <1>1. /\ A[1] = "twice" /\ A[2] = a
        /\ B[1] = "dependent" /\ B[2] = b
        /\ C[1] = "dangling" /\ C[2] = c
    BY CheckFields
  <1> HIDE DEF A, B, C
  <1>2. n \in Failing({A, B, C}) <=> (n = A[1] /\ A[2]) \/ (n = B[1] /\ B[2]) \/ (n = C[1] /\ C[2])
    BY DEF Failing
  <1>3. n \in Failing({A, B, C}) <=> (n = "twice" /\ a) \/ (n = "dependent" /\ b) \/ (n = "dangling" /\ c)
    BY <1>1, <1>2
  <1> QED  BY <1>3 DEF A, B, C

\* Asserting a hidden key has the one answer.
LEMMA HiddenKeyIsOccupied ==
    ASSUME NEW view, view.registry, NEW V, Closed(FactsOf(V)), NEW c, c.op = "assert",
           At(V \ Known(view, V), c.fact.key) # {}
    PROVE  ChangeFaults(view, V, c) = {"occupied"}
  <1> DEFINE all == At(V, c.fact.key)
             now == all \cap Known(view, V)
             occupied == c.op = "assert" /\ all # now
             kind == \E v \in now : v.fact.kind # c.fact.kind
             live == c.op = "assert" /\ \E v \in now : v.fact # c.fact
             unexpected == c.op # "assert" /\ ~Expected(now, c)
             dead == c.op # "assert" /\ now = {}
             identity == c.op = "correct" /\ \E v \in now : ~SameIdentity(v.fact, c.fact)
             widened == /\ c.op = "correct" /\ ~c.widen_readers
                        /\ \E v \in now : Widens(v.fact, c.fact)
             immutable == c.op = "retract" /\ c.fact.kind = "space"
  <1>1. PICK h \in V \ Known(view, V) : h.fact.key = c.fact.key
    BY DEF At
  <1>2. \A v \in all : v.fact = h.fact
    <2>1. \A v \in V : v.fact \in FactsOf(V)
      BY DEF FactsOf
    <2> QED  BY <1>1, <2>1 DEF At, Closed
  <1>3. \A v \in all : v \notin Known(view, V)
    BY <1>1, <1>2 DEF Known, WriterKnows, WriterReads
  <1>4. now = {} /\ h \in all
    BY <1>1, <1>3 DEF At
  <1>5. ChangeFaults(view, V, c) =
           Failing({<<"occupied", occupied>>, <<"kind", kind>>, <<"already live", live>>,
                    <<"expectation", unexpected>>, <<"not live", dead>>, <<"identity", identity>>,
                    <<"widened", widened>>, <<"immutable", immutable>>})
    BY DEF ChangeFaults
  <1>6. all # now
    BY <1>4
  <1> HIDE DEF all, now
  <1>7. occupied /\ ~kind /\ ~live /\ ~unexpected /\ ~dead /\ ~identity /\ ~widened /\ ~immutable
    BY <1>4, <1>6
  <1>8. /\ occupied \in BOOLEAN /\ kind \in BOOLEAN /\ live \in BOOLEAN /\ unexpected \in BOOLEAN
        /\ dead \in BOOLEAN /\ identity \in BOOLEAN /\ widened \in BOOLEAN /\ immutable \in BOOLEAN
    OBVIOUS
  <1> HIDE DEF occupied, kind, live, unexpected, dead, identity, widened, immutable
  <1> QED  BY <1>5, <1>7, <1>8, EightChecks

\* What is hidden changes nothing else.
LEMMA HiddenChangesNothing ==
    ASSUME NEW view, view.registry, NEW V, NEW changes,
           \A c \in changes : c.op = "assert" => At(V \ Known(view, V), c.fact.key) = {},
           Drop(changes) \cap Keys(FactsOf(Known(view, V))) = {}
    PROVE  /\ WriteFaults(view, V, changes) = WriteFaults(view, Known(view, V), changes)
           /\ Put(view, V, changes) = Put(view, Known(view, V), changes)
  <1> DEFINE known == Known(view, V)
             put == Put(view, V, changes)
             drop == Drop(changes)
  <1>1. Known(view, known) = known /\ known \subseteq V
    BY KnownOfKnown DEF Known
  <1>2. Put(view, known, changes) = put
    BY <1>1 DEF Put
  <1>3. ASSUME NEW c \in changes
        PROVE  ChangeFaults(view, V, c) = ChangeFaults(view, known, c)
    <2> DEFINE all == At(V, c.fact.key)
               now == all \cap known
    <2>1. At(known, c.fact.key) = now /\ now \cap known = now
      BY <1>1 DEF At
    <2>2. c.op = "assert" => all = now
      BY <1>1 DEF At
    <2>3. (c.op = "assert" /\ all # now) <=> (c.op = "assert" /\ now # now)
      BY <2>2
    <2> HIDE DEF known
    <2>4. ChangeFaults(view, V, c) = Failing({
            <<"occupied", c.op = "assert" /\ all # now>>,
            <<"kind", \E v \in now : v.fact.kind # c.fact.kind>>,
            <<"already live", c.op = "assert" /\ \E v \in now : v.fact # c.fact>>,
            <<"expectation", c.op # "assert" /\ ~Expected(now, c)>>,
            <<"not live", c.op # "assert" /\ now = {}>>,
            <<"identity", c.op = "correct" /\ \E v \in now : ~SameIdentity(v.fact, c.fact)>>,
            <<"widened", /\ c.op = "correct" /\ ~c.widen_readers
                         /\ \E v \in now : Widens(v.fact, c.fact)>>,
            <<"immutable", c.op = "retract" /\ c.fact.kind = "space">>})
      BY DEF ChangeFaults, known
    <2>5. ChangeFaults(view, known, c) = Failing({
            <<"occupied", c.op = "assert" /\ now # now>>,
            <<"kind", \E v \in now : v.fact.kind # c.fact.kind>>,
            <<"already live", c.op = "assert" /\ \E v \in now : v.fact # c.fact>>,
            <<"expectation", c.op # "assert" /\ ~Expected(now, c)>>,
            <<"not live", c.op # "assert" /\ now = {}>>,
            <<"identity", c.op = "correct" /\ \E v \in now : ~SameIdentity(v.fact, c.fact)>>,
            <<"widened", /\ c.op = "correct" /\ ~c.widen_readers
                         /\ \E v \in now : Widens(v.fact, c.fact)>>,
            <<"immutable", c.op = "retract" /\ c.fact.kind = "space">>})
      BY <1>1, <2>1 DEF ChangeFaults
    <2> HIDE DEF now, all
    <2> QED  BY <2>3, <2>4, <2>5
  <1>4. Resolvable(view, V) = known /\ Resolvable(view, known) = known
    BY <1>1 DEF Resolvable
  <1>5. Dangling(view, V, put, drop) <=> Dangling(view, known, put, drop)
    <2> HIDE DEF known, put, drop
    <2> QED  BY <1>4 DEF Dangling
  <1>6. ~Dependent(view, V, put, drop) /\ ~Dependent(view, known, put, drop)
    <2>1. \A t \in FactsOf(known) : t.key \notin drop
      BY DEF Keys
    <2> HIDE DEF known, put, drop
    <2> QED  BY <1>1, <2>1 DEF Dependent, known
  <1>7. {ChangeFaults(view, V, c) : c \in changes} = {ChangeFaults(view, known, c) : c \in changes}
    BY <1>3
  <1> DEFINE twice == \E c, d \in changes : c # d /\ c.fact.key = d.fact.key
             rest(U) == Failing({<<"twice", twice>>,
                                 <<"dependent", Dependent(view, U, put, drop)>>,
                                 <<"dangling", Dangling(view, U, put, drop)>>})
             each(U) == {ChangeFaults(view, U, c) : c \in changes}
  <1>8. WriteFaults(view, V, changes) = (UNION each(V)) \cup rest(V)
    BY DEF WriteFaults
  <1>9. WriteFaults(view, known, changes) = (UNION each(known)) \cup rest(known)
    BY <1>2 DEF WriteFaults
  <1>10. rest(V) = rest(known)
    <2> DEFINE cut(U) == Dependent(view, U, put, drop)
               loose(U) == Dangling(view, U, put, drop)
    <2>1. twice \in BOOLEAN /\ \A U : cut(U) \in BOOLEAN /\ loose(U) \in BOOLEAN
      BY DEF Dependent, Dangling
    <2>2. ~cut(V) /\ ~cut(known) /\ (loose(V) <=> loose(known))
      BY <1>5, <1>6
    <2>3. \A U : rest(U) = Failing({<<"twice", twice>>, <<"dependent", cut(U)>>, <<"dangling", loose(U)>>})
      OBVIOUS
    <2> HIDE DEF known, twice, cut, loose, rest
    <2>4. \A n : n \in rest(V) <=> n \in rest(known)
      BY <2>1, <2>2, <2>3, ThreeChecks
    <2>5. rest(V) \subseteq rest(known) /\ rest(known) \subseteq rest(V)
      BY <2>4
    <2> QED  BY <2>5
  <1> HIDE DEF known, put, drop, twice, rest
  <1>11. each(V) = each(known)
    BY <1>7
  <1> HIDE DEF each
  <1> QED  BY <1>2, <1>8, <1>9, <1>10, <1>11 DEF known, put

\* Between a writer and the records it cannot read stands one refusal, that of a key they
\* hold; nothing else of them decides a write that retracts nothing it knows.
THEOREM HiddenStaysAbsent == Spec => []HiddenIsAbsent
  <1>1. ASSUME FactsInv PROVE HiddenIsAbsent
    <2> SUFFICES ASSUME registryHead # 0,
                        NEW q \in demand.writes, NEW b \in Branch, NEW now \in demand.times
                 PROVE  LET view == View(q.host, now)
                            V == Seen(heads[b])
                            known == Known(view, V)
                            taken == {c \in q.changes : c.op = "assert" /\ At(V \ known, c.fact.key) # {}}
                        IN  /\ \A c \in taken : ChangeFaults(view, V, c) = {"occupied"}
                            /\ taken = {} /\ Drop(q.changes) \cap Keys(FactsOf(known)) = {} =>
                                  /\ WriteFaults(view, V, q.changes) = WriteFaults(view, known, q.changes)
                                  /\ Put(view, V, q.changes) = Put(view, known, q.changes)
      BY DEF HiddenIsAbsent
    <2> DEFINE view == View(q.host, now)
               V == Seen(heads[b])
    <2>1. view.registry
      BY DEF View
    <2>2. Closed(FactsOf(V))
      <3>1. CASE heads[b] = 0
        BY <3>1 DEF Seen, FactsOf, Closed
      <3>2. CASE heads[b] # 0
        <4>1. heads[b] \in DOMAIN revisions
          BY <3>2, <1>1, TableTypes DEF FactsInv, Placed
        <4> QED  BY <1>1, <4>1 DEF FactsInv, ReferencesResolve
      <3> QED  BY <3>1, <3>2
    <2> HIDE DEF view, V
    <2>3. \A c \in q.changes : c.op = "assert" /\ At(V \ Known(view, V), c.fact.key) # {} =>
             ChangeFaults(view, V, c) = {"occupied"}
      BY <2>1, <2>2, HiddenKeyIsOccupied
    <2>4. (\A c \in q.changes : c.op = "assert" => At(V \ Known(view, V), c.fact.key) = {})
          /\ Drop(q.changes) \cap Keys(FactsOf(Known(view, V))) = {} =>
             /\ WriteFaults(view, V, q.changes) = WriteFaults(view, Known(view, V), q.changes)
             /\ Put(view, V, q.changes) = Put(view, Known(view, V), q.changes)
      BY <2>1, HiddenChangesNothing
    <2> QED  BY <2>3, <2>4 DEF view, V
  <1> QED  BY <1>1, InitPlaced, StepKeepsInv, PTL DEF Spec

(***************************************************************************)
(* The fact store implements the history of its revisions                  *)
(***************************************************************************)

LogEntry(R, r) == [kind |-> R[r].kind, parent |-> R[r].parent, writer |-> R[r].writer,
                   put |-> R[r].put, drop |-> R[r].drop]
Log == [r \in DOMAIN revisions |-> LogEntry(revisions, r)]
Records == [r \in DOMAIN revisions |-> Recorded(r)]
Answers == [r \in DOMAIN revisions |-> Load(r)]

\* A function one longer is the sequence with its last value appended.
LEMMA OneLonger ==
    ASSUME NEW n \in Nat, NEW f, NEW g,
           f = [i \in 1..n |-> f[i]], g = [i \in 1..(n + 1) |-> g[i]],
           \A i \in 1..n : g[i] = f[i]
    PROVE  Len(f) = n /\ Len(g) = n + 1 /\ g = Append(f, g[n + 1])
  <1> DEFINE S == {g[i] : i \in 1..(n + 1)}
  <1>1. /\ \A i \in 1..(n + 1) : g[i] \in S
        /\ \A i \in 1..n : f[i] \in S
        /\ n + 1 \in 1..(n + 1) /\ n + 1 \in Nat
    <2>1. \A i \in 1..(n + 1) : g[i] \in S
      OBVIOUS
    <2>2. \A i \in 1..n : i \in 1..(n + 1)
      OBVIOUS
    <2>3. \A i \in 1..n : f[i] = g[i]
      OBVIOUS
    <2> HIDE DEF S
    <2> QED  BY <2>1, <2>2, <2>3
  <1> HIDE DEF S
  <1>2. f \in [1..n -> S] /\ g \in [1..(n + 1) -> S]
    BY <1>1
  <1>3. f \in Seq(S) /\ g \in Seq(S)
    BY <1>1, <1>2, SeqDef
  <1>4. Len(f) = n /\ Len(g) = n + 1
    BY <1>1, <1>2, <1>3, LenProperties
  <1>5. /\ Append(f, g[n + 1]) \in Seq(S) /\ Len(Append(f, g[n + 1])) = n + 1
        /\ \A i \in 1..(n + 1) : Append(f, g[n + 1])[i] = g[i]
    BY <1>1, <1>3, <1>4, AppendProperties
  <1> QED  BY <1>3, <1>4, <1>5, SeqEqual

LEMMA HistoryStarts == Init => History!Init
  <1> SUFFICES ASSUME Init PROVE History!Init
    OBVIOUS
  <1>1. DOMAIN revisions = {}
    BY DEF Init
  <1>2. Log = <<>> /\ Records = <<>> /\ Answers = <<>>
    BY <1>1 DEF Log, Records, Answers
  <1> QED  BY <1>2 DEF History!Init, Init, Log, LogEntry, Records, Answers

LEMMA HistoryMoves ==
    ASSUME NEW b \in Branch, NEW r \in DOMAIN revisions, heads' = [heads EXCEPT ![b] = r],
           Log' = Log, Records' = Records, Answers' = Answers
    PROVE  History!Next
  <1>1. History!Move(b, r)
    BY DEF History!Move, Log, LogEntry, Records, Answers
  <1>2. r \in DOMAIN Log
    BY DEF Log
  <1> QED  BY <1>1, <1>2 DEF History!Next, Log, LogEntry

\* What a table with one revision more says of the history.
Longer(b, n) ==
    /\ heads' = [heads EXCEPT ![b] = n]
    /\ checkpoints' = checkpoints
    /\ Len(revisions') = n /\ DOMAIN revisions' = DOMAIN revisions \cup {n}
    /\ \A r \in DOMAIN revisions : /\ revisions'[r] = revisions[r]
                                   /\ Seen(r)' = Seen(r) /\ Recorded(r)' = Recorded(r)
    /\ revisions'[n].parent = heads[b]
    /\ FactsOf(Seen(n)') = FactsOf(Recorded(n)')
    /\ Recorded(n)' = (IF revisions'[n].kind = "snapshot" THEN {}
                       ELSE Untouched(Recorded(heads[b]), revisions'[n].put, revisions'[n].drop))
                      \cup Stamped(revisions'[n].put, n, revisions'[n].writer)

LEMMA WritesAreLonger ==
    ASSUME FactsInv, NEW b \in Branch, Writes(b), NEW n, n = Len(revisions) + 1
    PROVE  Longer(b, n)
  <1>1. Placed
    BY DEF FactsInv
  <1>2. PICK h \in Principal, put \in SUBSET Fact, drop \in SUBSET Keys(Fact) :
           AppendFacts(h, b, put, drop)
    BY DEF Writes
  <1>3. PICK line, seq, base : /\ Behind(line, seq, base, heads[b])
                               /\ AppendsAt(h, b, put, drop, line, seq, base)
    BY <1>1, <1>2, AppendIsBehind
  <1>4. /\ Len(revisions') = n /\ DOMAIN revisions' = DOMAIN revisions \cup {n}
        /\ \A r \in DOMAIN revisions : revisions'[r] = revisions[r]
        /\ revisions'[n] = Entry(h, b, put, drop, line, seq)
    BY <1>1, <1>3, AppendedTable
  <1>5. /\ revisions'[n].parent = heads[b] /\ revisions'[n].kind # "snapshot"
        /\ revisions'[n].put = put /\ revisions'[n].drop = drop /\ revisions'[n].writer = h
    BY <1>4 DEF Entry
  <1>6. \A r \in DOMAIN revisions : Seen(r)' = Seen(r) /\ Recorded(r)' = Recorded(r)
    BY <1>1, <1>3, OlderSeeTheSame
  <1>7. /\ Seen(n)' = Untouched(Recorded(heads[b]), put, drop) \cup Stamped(put, n, h)
        /\ Recorded(n)' = Seen(n)'
    BY <1>1, <1>3, NewestSees
  <1>8. heads' = [heads EXCEPT ![b] = n] /\ checkpoints' = checkpoints
    BY <1>3 DEF AppendsAt
  <1> QED  BY <1>4, <1>5, <1>6, <1>7, <1>8 DEF Longer

LEMMA CommitsAreLonger ==
    ASSUME FactsInv, NEW b \in Branch, Commits(b), NEW n, n = Len(revisions) + 1
    PROVE  Longer(b, n)
  <1>1. Placed
    BY DEF FactsInv
  <1>2. PICK h \in Principal, F \in SUBSET Fact :
           NewRevision("snapshot", h, b, F, {}, 0, 0) /\ UNCHANGED <<versions, checkpoints>>
    BY DEF Commits
  <1>3. versions' = versions /\ checkpoints' = checkpoints
    BY <1>2
  <1>4. /\ \A r \in DOMAIN revisions : Seen(r)' = Seen(r) /\ Recorded(r)' = Recorded(r)
        /\ Seen(n)' = Stamped(F, 0, h) /\ Recorded(n)' = Stamped(F, n, h)
        /\ Len(revisions') = n /\ DOMAIN revisions' = DOMAIN revisions \cup {n}
        /\ \A r \in DOMAIN revisions : revisions'[r] = revisions[r]
        /\ revisions'[n] = SnapshotOf(h, b, F)
    BY <1>1, <1>2, <1>3, SnapshotSees
  <1>5. /\ revisions'[n].parent = heads[b] /\ revisions'[n].kind = "snapshot"
        /\ revisions'[n].put = F /\ revisions'[n].writer = h
    BY <1>4 DEF SnapshotOf
  <1>6. heads' = [heads EXCEPT ![b] = n]
    BY <1>2, <1>4 DEF NewRevision
  <1>7. FactsOf(Seen(n)') = FactsOf(Recorded(n)')
    BY <1>4, StampedFacts
  <1> QED  BY <1>3, <1>4, <1>5, <1>6, <1>7 DEF Longer

\* A revision more is one recorded, and older answers stay.
LEMMA HistoryRecords ==
    ASSUME FactsInv, NEW b \in Branch, NEW n, n = Len(revisions) + 1, Longer(b, n)
    PROVE  History!Next
  <1> DEFINE entry == LogEntry(revisions', n)
             old == IF entry.kind = "snapshot" THEN {}
                    ELSE Untouched(Recorded(heads[b]), entry.put, entry.drop)
             made == old \cup Stamped(entry.put, n, entry.writer)
  <1>1. /\ Len(revisions) \in Nat /\ DOMAIN revisions = 1..Len(revisions) /\ n \in Nat
        /\ 1..n = DOMAIN revisions \cup {n} /\ n \notin DOMAIN revisions
        /\ DOMAIN revisions' = 1..n
    BY TableTypes DEF FactsInv, Placed, Longer
  <1>2. entry.parent = heads[b] /\ made = Recorded(n)'
    BY DEF Longer, LogEntry
  <1>3. ASSUME NEW r \in DOMAIN revisions PROVE Load(r)' = Load(r)
    <2>1. Seen(r)' = Seen(r) /\ Checkpoint(r)' = Checkpoint(r)
      BY DEF Longer, Checkpoint
    <2> QED  BY <2>1 DEF Load, FactsOf
  <1>4. Load(n)' = {f \in FactsOf(made) : IsGraph(f)}
    <2>1. \A c \in checkpoints : c.revision \in DOMAIN revisions
      BY DEF FactsInv, Placed, FactsTypeOK
    <2>2. Checkpoint(n)' = {}
      BY <1>1, <2>1 DEF Checkpoint, Longer
    <2>3. Load(n)' = {f \in FactsOf(Seen(n)') : IsGraph(f)}
      BY <2>2 DEF Load, FactsOf
    <2> QED  BY <1>2, <2>3 DEF Longer
  <1>5. Log' = Append(Log, entry) /\ Len(Log) = n - 1 /\ Len(Log') = n /\ Log'[n] = entry
    <2>1. Log = [r \in 1..(n - 1) |-> Log[r]] /\ Log' = [r \in 1..n |-> Log'[r]]
      BY <1>1 DEF Log
    <2>2. \A r \in 1..(n - 1) : Log'[r] = Log[r]
      BY <1>1 DEF Log, LogEntry, Longer
    <2>3. Log'[n] = entry
      BY <1>1 DEF Log, LogEntry
    <2>4. n - 1 \in Nat /\ (n - 1) + 1 = n
      BY <1>1
    <2> HIDE DEF entry
    <2> QED  BY <2>1, <2>2, <2>3, <2>4, OneLonger
  <1>6. Records' = Append(Records, made)
    <2>1. Records = [r \in 1..(n - 1) |-> Records[r]] /\ Records' = [r \in 1..n |-> Records'[r]]
      BY <1>1 DEF Records
    <2>2. \A r \in 1..(n - 1) : Records'[r] = Records[r]
      BY <1>1 DEF Records, Longer
    <2>3. Records'[n] = made
      BY <1>1, <1>2 DEF Records
    <2>4. n - 1 \in Nat /\ (n - 1) + 1 = n
      BY <1>1
    <2> HIDE DEF made
    <2> QED  BY <2>1, <2>2, <2>3, <2>4, OneLonger
  <1>7. Answers' = Append(Answers, {f \in FactsOf(made) : IsGraph(f)})
    <2>1. Answers = [r \in 1..(n - 1) |-> Answers[r]] /\ Answers' = [r \in 1..n |-> Answers'[r]]
      BY <1>1 DEF Answers
    <2>2. \A r \in 1..(n - 1) : Answers'[r] = Answers[r]
      BY <1>1, <1>3 DEF Answers
    <2>3. Answers'[n] = {f \in FactsOf(made) : IsGraph(f)}
      BY <1>1, <1>4 DEF Answers
    <2>4. n - 1 \in Nat /\ (n - 1) + 1 = n
      BY <1>1
    <2> HIDE DEF made
    <2> QED  BY <2>1, <2>2, <2>3, <2>4, OneLonger
  <1>8. History!Made(entry, n) = made
    <2>1. History!Before(heads[b]) = Recorded(heads[b])
      <3>1. CASE heads[b] = 0
        BY <3>1 DEF History!Before, Recorded, Seen
      <3>2. CASE heads[b] # 0
        <4>1. heads[b] \in DOMAIN revisions
          BY <3>2, <1>1, TableTypes DEF FactsInv, Placed
        <4> QED  BY <3>2, <4>1 DEF History!Before
      <3> QED  BY <3>1, <3>2
    <2> HIDE DEF entry
    <2> QED  BY <1>2, <2>1 DEF History!Made, Untouched, Stamped, Keys
  <1>9. History!Record(b)
    <2>1. {f \in FactsOf(made) : IsGraph(f)} = {v.fact : v \in {w \in made : IsGraph(w.fact)}}
      BY DEF FactsOf
    <2> HIDE DEF entry, made
    <2>2. Len(Log) + 1 = n
      BY <1>1, <1>5
    <2> QED  BY <1>2, <1>5, <1>6, <1>7, <1>8, <2>1, <2>2
             DEF History!Record, Log, LogEntry, Records, Answers, Longer
  <1> QED  BY <1>9 DEF History!Next

\* What is cached is what was answered.
LEMMA HistoryStutters ==
    ASSUME FactsInv, FactsInv', revisions' = revisions, versions' = versions
    PROVE  Log' = Log /\ Records' = Records /\ Answers' = Answers
  <1>1. \A r : Seen(r)' = Seen(r) /\ Recorded(r)' = Recorded(r)
    BY UnchangedSeen
  <1>2. ASSUME NEW r PROVE Load(r)' = Load(r)
    <2>1. Load(r) = GraphOf(Seen(r))
      BY LoadIsGraph DEF FactsInv
    <2>2. Cached'
      BY DEF FactsInv
    <2>3. \A c \in checkpoints' : c.answer = GraphOf(Seen(c.revision)')
      BY <2>2 DEF Cached, GraphOf, FactsOf
    <2>4. CASE Checkpoint(r)' = {}
      BY <1>1, <2>1, <2>4 DEF Load, GraphOf, FactsOf
    <2>5. CASE Checkpoint(r)' # {}
      <3> DEFINE c == CHOOSE c \in Checkpoint(r)' : TRUE
      <3>1. c \in Checkpoint(r)'
        BY <2>5
      <3>2. c \in checkpoints' /\ c.revision = r
        BY <3>1 DEF Checkpoint
      <3>3. Load(r)' = c.answer
        BY <2>5 DEF Load
      <3> HIDE DEF c
      <3> QED  BY <1>1, <2>1, <2>3, <3>2, <3>3
    <2> QED  BY <2>4, <2>5
  <1> QED  BY <1>1, <1>2 DEF Log, LogEntry, Records, Answers

LEMMA HistoryStep ==
    ASSUME FactsInv, FactsInv', [Next]_vars
    PROVE  [History!Next]_History!vars
  <1>1. PICK n : n = Len(revisions) + 1
    OBVIOUS
  <1>2. ASSUME NEW b \in Branch, Writes(b) \/ Commits(b) PROVE History!Next
    <2>1. Longer(b, n)
      BY <1>1, <1>2, WritesAreLonger, CommitsAreLonger
    <2> QED  BY <1>1, <2>1, HistoryRecords
  <1>3. ASSUME NEW b \in Branch, Accepts(b) PROVE History!Next
    <2>1. PICK r \in DOMAIN revisions : heads' = [heads EXCEPT ![b] = r]
      BY <1>3 DEF Accepts
    <2>2. revisions' = revisions /\ versions' = versions
      BY <1>3 DEF Accepts
    <2> QED  BY <2>1, <2>2, HistoryStutters, HistoryMoves
  <1>4. CASE Caches
    <2>1. revisions' = revisions /\ versions' = versions /\ heads' = heads
      BY <1>4 DEF Caches
    <2>2. Log' = Log /\ Records' = Records /\ Answers' = Answers
      BY <2>1, HistoryStutters
    <2> QED  BY <2>1, <2>2 DEF History!vars, Log, LogEntry, Records, Answers
  <1> QED  BY <1>2, <1>3, <1>4, StepShape

\* The fact store implements the history: however versions are laid out on lines, branches
\* fork and rejoin and answers are cached, each revision keeps its parent's records but the
\* ones it changed, and answers with them for good (facts.rs append_facts_with and
\* load_fact_revision, fact_store append and live).
THEOREM HistoryImplemented == Spec => ImplementsHistory
  <1>1. FactsInv /\ FactsInv' /\ [Next]_vars => [History!Next]_History!vars
    BY HistoryStep
  <1> QED
    BY <1>1, HistoryStarts, InitPlaced, StepKeepsInv, PTL DEF Spec, ImplementsHistory, History!Spec

(***************************************************************************)
(* The registry                                                            *)
(***************************************************************************)

RegistryInv ==
    /\ Sound(registry)
    /\ registryHead \in Nat /\ epoch \in 0..registryHead
    /\ registryHead = 0 => registry = Unregistered

\* A write some host may ask for: an enabling, or a batch of changes.
Enables == \E h \in Principal : EnableRegistry(h)
Applies ==
    \E h \in Principal : \E now, batch :
        /\ Len(batch) \in Nat
        /\ \A n \in 1..Len(batch) : batch[n] \in RegistryChange
        /\ DOMAIN batch = 1..Len(batch)
        /\ ApplyRegistry(h, batch, now)

LEMMA RegistryStep ==
    ASSUME FactsTypeOK, [Next]_vars
    PROVE  Enables \/ Applies \/ UNCHANGED authority
  <1>1. /\ demand.enable \subseteq Principal
        /\ \A q \in demand.batches : q.host \in Principal /\ q.batch \in Seq(RegistryChange)
    BY FactsAssumption DEF FactsTypeOK
  <1>2. ASSUME NEW q \in demand.batches, NEW now, ApplyRegistry(q.host, q.batch, now)
        PROVE  Applies
    <2>1. q.host \in Principal /\ q.batch \in Seq(RegistryChange)
      BY <1>1
    <2>2. /\ Len(q.batch) \in Nat /\ DOMAIN q.batch = 1..Len(q.batch)
          /\ \A n \in 1..Len(q.batch) : q.batch[n] \in RegistryChange
      BY <2>1
    <2> QED  BY <1>2, <2>1, <2>2 DEF Applies
  <1>3. CASE RegistryNext
    BY <1>1, <1>2, <1>3 DEF RegistryNext, Enables
  <1>4. CASE FactsNext \/ UNCHANGED vars
    BY <1>4 DEF FactsNext, vars
  <1> QED  BY <1>3, <1>4 DEF Next

LEMMA RegistryStarts == Init => RegistryInv
  BY UnregisteredSound DEF Init, RegistryInit, RegistryInv

LEMMA WriteKeepsRegistry ==
    ASSUME RegistryInv, NEW s, Sound(s), NEW reducing, RegistryWrite(s, reducing),
           registryHead # 0 \/ s # registry
    PROVE  RegistryInv'
  <1>1. registry' = s /\ Sound(registry')
    BY DEF RegistryWrite
  <1>2. registryHead' \in Nat \ {0} /\ registryHead' \in {registryHead, registryHead + 1}
    BY DEF RegistryWrite, RegistryInv
  <1>3. epoch' \in {epoch, registryHead'}
    BY DEF RegistryWrite
  <1>4. registryHead \in Nat /\ epoch \in 0..registryHead
    BY DEF RegistryInv
  <1>5. epoch' \in 0..registryHead'
    BY <1>2, <1>3, <1>4
  <1> QED  BY <1>1, <1>2, <1>5 DEF RegistryInv

LEMMA StepKeepsRegistry == FactsTypeOK /\ RegistryInv /\ [Next]_vars => RegistryInv'
  <1> SUFFICES ASSUME FactsTypeOK, RegistryInv, [Next]_vars PROVE RegistryInv'
    OBVIOUS
  <1>1. CASE UNCHANGED authority
    BY <1>1 DEF authority, RegistryInv
  <1>2. CASE Enables
    <2>1. PICK h \in Principal : EnableRegistry(h)
      BY <1>2 DEF Enables
    <2>2. h # ADMINISTRATORS /\ registryHead = 0 /\ RegistryWrite(Enabled(h), FALSE)
      BY <2>1 DEF EnableRegistry, Enabled
    <2>3. Sound(Enabled(h)) /\ registry = Unregistered
      BY <2>2, EnabledSound DEF RegistryInv
    <2>4. Enabled(h).members # Unregistered.members
      BY DEF Enabled, AddMember, Unregistered
    <2> QED  BY <2>2, <2>3, <2>4, WriteKeepsRegistry
  <1>3. CASE Applies
    <2>1. PICK h, now, batch :
              /\ Len(batch) \in Nat
              /\ \A n \in 1..Len(batch) : batch[n] \in RegistryChange
              /\ ApplyRegistry(h, batch, now)
      BY <1>3 DEF Applies
    <2>2. PICK s \in Applied(registry, h, batch, now) :
              RegistryWrite(s, \E n \in DOMAIN batch : ~Additive(batch[n]))
      BY <2>1 DEF ApplyRegistry
    <2>3. Sound(s)
      BY <2>1, AppliedSound DEF RegistryInv
    <2>4. registryHead # 0
      BY <2>1 DEF ApplyRegistry
    <2> QED  BY <2>2, <2>3, <2>4, WriteKeepsRegistry
  <1> QED  BY <1>1, <1>2, <1>3, RegistryStep

LEMMA RegistryHolds == Spec => [](FactsTypeOK /\ RegistryInv)
  <1>1. FactsInv => FactsTypeOK
    BY DEF FactsInv, Placed
  <1> QED  BY <1>1, InitPlaced, StepKeepsInv, RegistryStarts, StepKeepsRegistry, PTL DEF Spec

\* Every table of the store keeps its type: the registry's record too, and its epoch is
\* a revision it has reached (registry.rs, facts.rs and fact_store.rs).
THEOREM StoreTyped == Spec => []TypeOK
  <1>1. FactsTypeOK /\ RegistryInv => TypeOK
    BY DEF TypeOK, RegistryTypeOK, RegistryInv, Sound
  <1> QED  BY <1>1, RegistryHolds, PTL

\* Groups never form a cycle and no chain of them is deeper than MAX_GROUP_DEPTH, whatever
\* batches of changes a registry takes and whoever sends them (registry.rs add_member).
THEOREM NestingHolds == Spec => []NestingBounded
  <1>1. RegistryInv => NestingBounded
    BY DEF RegistryInv, Sound, WellNested, NestingBounded, TooDeep, Groups
  <1> QED  BY <1>1, RegistryHolds, PTL

\* A write of the registry that reduces nobody keeps everyone what they hold.
LEMMA WriteLosesNothing ==
    ASSUME RegistryInv, NEW s, Sound(s), Enlarged(registry, s), registry' = s, NEW p \in Principal
    PROVE  ~Loses(registry, registry', p)
  <1>1. ~Loses(registry, s, p)
    BY EnlargedLosesNothing DEF RegistryInv
  <1> QED  BY <1>1

LEMMA LossIsReducing ==
    ASSUME FactsTypeOK, RegistryInv, [Next]_vars, NEW p \in Principal, Loses(registry, registry', p)
    PROVE  epoch' = registryHead' /\ epoch' # epoch
  <1>1. registry \in State /\ Sound(registry)
    BY DEF RegistryInv, Sound
  <1>2. registry' # registry
    BY <1>1, EnlargedItself, WriteLosesNothing
  <1>3. CASE Enables
    <2>1. PICK h \in Principal : EnableRegistry(h)
      BY <1>3 DEF Enables
    <2>2. h # ADMINISTRATORS /\ registryHead = 0 /\ registry' = Enabled(h)
      BY <2>1 DEF EnableRegistry, Enabled, RegistryWrite
    <2>3. Sound(Enabled(h)) /\ Enlarged(Unregistered, Enabled(h)) /\ registry = Unregistered
      BY <2>2, EnabledSound, EnabledEnlarges DEF RegistryInv
    <2> QED  BY <2>2, <2>3, WriteLosesNothing
  <1>4. CASE Applies
    <2>1. PICK h, now, batch :
              /\ Len(batch) \in Nat
              /\ \A n \in 1..Len(batch) : batch[n] \in RegistryChange
              /\ DOMAIN batch = 1..Len(batch)
              /\ ApplyRegistry(h, batch, now)
      BY <1>4 DEF Applies
    <2>2. PICK s \in Applied(registry, h, batch, now) :
              RegistryWrite(s, \E n \in DOMAIN batch : ~Additive(batch[n]))
      BY <2>1 DEF ApplyRegistry
    <2>3. Sound(s) /\ registry' = s
      BY <1>1, <2>1, <2>2, AppliedSound DEF RegistryWrite
    <2>4. CASE \A n \in 1..Len(batch) : Additive(batch[n])
      <3>1. Enlarged(registry, s)
        BY <1>1, <2>1, <2>2, <2>4, AdditiveBatch
      <3> QED  BY <2>3, <3>1, WriteLosesNothing
    <2>5. CASE \E n \in DOMAIN batch : ~Additive(batch[n])
      <3>1. registryHead' = registryHead + 1 /\ epoch' = registryHead'
        BY <1>2, <2>2, <2>3, <2>5 DEF RegistryWrite
      <3> QED  BY <3>1 DEF RegistryInv
    <2> QED  BY <2>1, <2>4, <2>5
  <1>5. CASE UNCHANGED authority
    BY <1>2, <1>5 DEF authority
  <1> QED  BY <1>3, <1>4, <1>5, RegistryStep

\* No principal loses a permission, a branch or the sight of a record without the admission
\* epoch moving to the registry revision that took it: whatever batch of changes the code
\* calls additive leaves everyone, agents of any depth included, what they held
\* (registry.rs additive and resolve, ADR-0007 section 5).
THEOREM LossAdvancesEpoch == Spec => AuthorityLossAdvancesEpoch
  <1>1. FactsTypeOK /\ RegistryInv /\ [Next]_vars =>
            [(\E p \in Principal : Loses(registry, registry', p)) =>
                 epoch' = registryHead' /\ epoch' # epoch]_authority
    BY LossIsReducing
  <1> QED  BY <1>1, RegistryHolds, PTL DEF Spec, AuthorityLossAdvancesEpoch

\* How deep in a chain of owners a principal is resolved makes no difference, whatever agents
\* are added and suspended: no chain is longer than the rounds of resolution (registry.rs
\* resolve_at keeps a result under the principal alone, whatever depth it was computed at).
THEOREM DepthMakesNoDifference == Spec => []ResolutionIgnoresDepth
  <1>1. RegistryInv => ResolutionIgnoresDepth
    BY DepthIsIgnored DEF RegistryInv, ResolutionIgnoresDepth
  <1> QED  BY <1>1, RegistryHolds, PTL

\* No agent may ever do or read what one of its owners, up to the user at the end of the
\* chain, may not at that moment: an owner's loss is its agents' at once, for nothing of what
\* they hold is stored with them (ADR-0007 sections 2 and 3; registry.rs compute, effective).
THEOREM AgentsAreWithinOwners == Spec => []AgentsStayWithinOwners
  <1>1. ASSUME RegistryInv, NEW p \in Principal, NEW now \in Time, NEW owner \in Chain(registry, p)
        PROVE  Within(Effective(registry, p, now), Effective(registry, owner, now))
    <2>1. Sound(registry)
      BY <1>1 DEF RegistryInv
    <2>2. owner \in Principal /\ Inside(Resolve(registry, p), Resolve(registry, owner))
      BY <2>1, InsideChain
    <2>3. Resolve(registry, p) \in Resolved /\ Resolve(registry, owner) \in Resolved
      BY <2>1, <2>2, EveryoneIsResolved
    <2> QED  BY <2>2, <2>3, InsideIsWithin
  <1>2. RegistryInv => AgentsStayWithinOwners
    BY <1>1 DEF AgentsStayWithinOwners
  <1> QED  BY <1>2, RegistryHolds, PTL
=============================================================================
