------------------------- MODULE MCDocumentService --------------------------
(* DocumentService on a small instance.                                    *)
EXTENDS DocumentServiceInvariant, TLC

Symmetry == Permutations(Processes) \cup Permutations(Tenants) \cup Permutations(Files)
=============================================================================
