--------------------------- MODULE MCRevisionStore --------------------------
(* Small instances of RevisionStore for TLC: symmetry over identifiers that *)
(* the store only compares for equality.                                    *)
EXTENDS RevisionStore, TLC

Identifiers ==
    Permutations(Graph) \cup Permutations(Branch) \cup Permutations(Engine) \cup Permutations(Body)
=============================================================================
