------------------------------ MODULE MCSessions ------------------------------
(* Instances of Sessions for TLC.                                          *)
EXTENDS Sessions, TLC

Budget(db, loss) == [kind \in FaultKinds |-> IF kind = "db" THEN db ELSE loss]

NoFaults == Budget(0, 0)
OneOfEach == Budget(1, 1)

Symmetry == Permutations(Tokens) \cup Permutations(Calls)

=============================================================================
