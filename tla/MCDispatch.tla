----------------------------- MODULE MCDispatch -----------------------------
(* Small instances of Dispatch for TLC: the manifests of the adapters.      *)
EXTENDS Dispatch, TLC

CONSTANTS a1, a2, l1, k1

Pure(from, to, attempts, backlog) ==
    [subscriptions |-> from, outputs |-> to, projection |-> FALSE, effects |-> {},
     attempts |-> attempts, backlog |-> backlog]

\* A projection of one line.
ProjectionManifest == a1 :> [Pure({l1}, {}, 1, 9) EXCEPT !.projection = TRUE]

\* Handlers that write to the line they read: a1 requests external effects, a2 is a
\* graph handler whose deliveries its owner may cancel.
HandlerManifest ==
    a1 :> [Pure({l1}, {l1}, 2, 2) EXCEPT !.effects = Key] @@ a2 :> Pure({l1}, {l1}, 2, 2)

Identities == Permutations(Lease)
=============================================================================
