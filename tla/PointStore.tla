----------------------------- MODULE PointStore -----------------------------
(***************************************************************************)
(* What the handlers take the vector store for: a set of points to which   *)
(* an upsert adds all points of a document at once, and from which a       *)
(* deletion removes all points of a document of one tenant, and no other.  *)
(* Module Stores is built on it; VectorIndex says which adapter keeps it.  *)
(***************************************************************************)
EXTENDS Naturals

CONSTANTS Tenants, Docs, MaxChunks

VARIABLE points

PointsOf(t, d, n) == {[doc |-> d, n |-> i, tenant |-> t] : i \in 1..n}

Init == points = {}

Add(t, d, n) == points' = points \cup PointsOf(t, d, n)

Remove(t, d) == points' = {p \in points : ~(p.tenant = t /\ p.doc = d)}

Next ==
    \E t \in Tenants, d \in Docs :
        \/ Remove(t, d)
        \/ \E n \in 1..MaxChunks : Add(t, d, n)

Spec == Init /\ [][Next]_points
=============================================================================
