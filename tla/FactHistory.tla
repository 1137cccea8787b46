---------------------------- MODULE FactHistory ----------------------------
(***************************************************************************)
(* What the fact store of weave-engine promises: every revision of a graph *)
(* keeps the records live in it, each with the revision and the principal  *)
(* that recorded it, and answers with them for good.  A write makes a      *)
(* revision from its parent by the records it puts and the keys it drops;  *)
(* a snapshot makes one from nothing but its own records.  However the     *)
(* versions are laid out in lines, and whatever is cached, nothing else of *)
(* the parent changes and no older revision does.                          *)
(***************************************************************************)
EXTENDS Naturals, Sequences

CONSTANTS
    Branch,
    IsGraph(_)      \* the records ordinary reads return: embeddings are not among them

VARIABLES
    log,            \* what made each revision: its parent, writer, and the change
    records,        \* the records live at each revision, as [fact, by, writer]
    answers,        \* what each revision answers
    heads           \* the revision each branch points to; 0 is none

vars == <<log, records, answers, heads>>

Init ==
    /\ log = <<>> /\ records = <<>> /\ answers = <<>>
    /\ heads = [b \in Branch |-> 0]

Before(r) == IF r = 0 THEN {} ELSE records[r]

Made(entry, r) ==
    LET touched == entry.drop \cup {f.key : f \in entry.put}
        kept == IF entry.kind = "snapshot" THEN {}
                ELSE {v \in Before(entry.parent) : v.fact.key \notin touched}
    IN  kept \cup {[fact |-> f, by |-> r, writer |-> entry.writer] : f \in entry.put}

\* A branch moves on to a revision made from its head.
Record(b) ==
    LET r == Len(log) + 1
        entry == log'[r]
        made == Made(entry, r)
    IN  /\ Len(log') = r
        /\ log' = Append(log, entry)
        /\ entry.parent = heads[b]
        /\ records' = Append(records, made)
        /\ answers' = Append(answers, {v.fact : v \in {w \in made : IsGraph(w.fact)}})
        /\ heads' = [heads EXCEPT ![b] = r]

\* A branch is pointed at a revision that exists already.
Move(b, r) ==
    /\ heads' = [heads EXCEPT ![b] = r]
    /\ UNCHANGED <<log, records, answers>>

Next == \E b \in Branch : Record(b) \/ \E r \in DOMAIN log : Move(b, r)

Spec == Init /\ [][Next]_vars
=============================================================================
