-------------------------- MODULE RecordedRegister --------------------------
(***************************************************************************)
(* What the recorded history of weave-engine promises its readers: each    *)
(* line is a register whose past stays readable.  A write takes effect at  *)
(* the recorded time of the writer and from then on; what the register was *)
(* known to hold at an earlier time never changes.  Several lines may be   *)
(* written at once, at the same time.  A retired register holds nothing,   *)
(* is never written again, and keeps its past.                             *)
(*                                                                         *)
(* RevisionStore implements this specification: its Register instance      *)
(* reads `known' off the rows of head_observations.                        *)
(***************************************************************************)
EXTENDS Naturals

CONSTANTS
    Line,       \* the registers: (graph, branch) pairs
    Value,      \* what they may hold: revisions
    Nothing,    \* an empty register
    Time        \* recorded times

VARIABLES
    current,    \* the value of each register
    known,      \* what each register was known to hold, at every time
    stamp,      \* the time of its last write
    retired     \* registers taken out of use

register == <<current, known, stamp, retired>>

Init ==
    /\ current = [l \in Line |-> Nothing]
    /\ known = [l \in Line |-> [t \in Time |-> Nothing]]
    /\ stamp = [l \in Line |-> 0]
    /\ retired = {}

\* One transaction writes the registers of S, not before the last write of any.
Write(S, value, t) ==
    /\ S \cap retired = {}
    /\ \A l \in S : stamp[l] <= t
    /\ current' = [l \in Line |-> IF l \in S THEN value[l] ELSE current[l]]
    /\ known' = [l \in Line |-> [c \in Time |->
                    IF l \in S /\ t <= c THEN value[l] ELSE known[l][c]]]
    /\ stamp' = [l \in Line |-> IF l \in S THEN t ELSE stamp[l]]
    /\ UNCHANGED retired

Retire(l) ==
    /\ l \notin retired
    /\ retired' = retired \cup {l}
    /\ current' = [current EXCEPT ![l] = Nothing]
    /\ UNCHANGED <<known, stamp>>

Next ==
    \/ \E S \in SUBSET Line, t \in Time : \E value \in [S -> Value] : Write(S, value, t)
    \/ \E l \in Line : Retire(l)

Spec == Init /\ [][Next]_register
=============================================================================
