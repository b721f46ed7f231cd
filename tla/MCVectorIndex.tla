--------------------------- MODULE MCVectorIndex ----------------------------
(* VectorIndex on a small instance: two tenants with a document each.      *)
EXTENDS VectorIndex

CONSTANTS t1, t2, d1, d2

MCTenants == {t1, t2}
MCDocs    == {d1, d2}
MCOwner   == [d \in MCDocs |-> IF d = d1 THEN t1 ELSE t2]
=============================================================================
