----------------------------- MODULE MCIngestion -----------------------------
(* Instances of Ingestion for TLC: the fault budgets.                      *)
EXTENDS Ingestion, TLC

Budget(worker, api, timeout, db, redis) ==
  [kind \in FaultKinds |->
     CASE kind = "worker" -> worker [] kind = "api" -> api
       [] kind = "timeout" -> timeout [] kind = "db" -> db
       [] kind = "redis" -> redis]

NoFaults == Budget(0, 0, 0, 0, 0)
AllFaults == Budget(1, 1, 1, 1, 1)

=============================================================================
