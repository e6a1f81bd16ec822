----------------------------- MODULE MCRetrieval -----------------------------
(* Instance of Retrieval for TLC.                                          *)
EXTENDS Retrieval, TLC

Symmetry == Permutations(Docs) \cup Permutations(Parts) \cup Permutations(Users)

=============================================================================
