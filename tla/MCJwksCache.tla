---------------------------- MODULE MCJwksCache -----------------------------
(* JwksCache on a small instance.                                          *)
EXTENDS JwksCache, TLC

Symmetry == Permutations(Coroutines) \cup Permutations(Kids)
=============================================================================
