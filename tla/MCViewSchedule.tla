--------------------------- MODULE MCViewSchedule ---------------------------
(* Two lines, of which one may come to link to the other, and two views.    *)
EXTENDS ViewSchedule, TLC
CONSTANTS a, b, r1, r2
Lines == {a, b}
Revisions == {r1, r2}
LinksOf == a :> (r1 :> {} @@ r2 :> {b}) @@ b :> [r \in Revisions |-> {}]
First == <<[line |-> a, revision |-> r1], [line |-> b, revision |-> r1]>>
Sources == 1 :> {a} @@ 2 :> {b}
=============================================================================
