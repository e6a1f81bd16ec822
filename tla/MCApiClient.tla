------------------------------ MODULE MCApiClient ------------------------------
(* Instances of ApiClient for TLC.                                         *)
EXTENDS ApiClient, TLC

Budget(db, loss) == [kind \in FaultKinds |-> IF kind = "db" THEN db ELSE loss]

OneLoss == Budget(0, 1)

Symmetry == Permutations(Tokens) \cup Permutations(Calls) \cup Permutations(Requests)

=============================================================================
