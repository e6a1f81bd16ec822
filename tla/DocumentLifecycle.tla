-------------------------- MODULE DocumentLifecycle --------------------------
(***************************************************************************)
(* What the document API promises a client that polls a document and       *)
(* searches it (status and chunks as backend/app/models/document.py and    *)
(* backend/app/rag/ingest.py keep them), with every queue, transaction and *)
(* fault hidden.  A document is claimed before it is indexed, becomes      *)
(* searchable in the step that makes it ready, stays searchable until it   *)
(* is removed, never goes back to pending and never comes back once gone.  *)
(***************************************************************************)
CONSTANT Docs

VARIABLES
  status,   \* what GET /api/documents/{id} reports; "none" is 404
  indexed,  \* documents with chunks to retrieve
  removed   \* documents that were deleted

vars == <<status, indexed, removed>>

TypeOK ==
  /\ status \in [Docs -> {"none", "pending", "processing", "ready", "failed"}]
  /\ indexed \subseteq Docs
  /\ removed \subseteq Docs

Init ==
  /\ status = [d \in Docs |-> "none"]
  /\ indexed = {}
  /\ removed = {}

Become(d, s) == status' = [status EXCEPT ![d] = s]

Submit(d) ==
  /\ status[d] = "none"
  /\ d \notin removed
  /\ Become(d, "pending")
  /\ UNCHANGED <<indexed, removed>>

\* Also a second attempt at a document that already has an outcome.
Claim(d) ==
  /\ status[d] \in {"pending", "ready", "failed"}
  /\ Become(d, "processing")
  /\ UNCHANGED <<indexed, removed>>

Publish(d) ==
  /\ status[d] \in {"processing", "ready", "failed"}
  /\ Become(d, "ready")
  /\ indexed' = indexed \cup {d}
  /\ UNCHANGED removed

Fail(d) ==
  /\ status[d] \in {"processing", "ready"}
  /\ Become(d, "failed")
  /\ UNCHANGED <<indexed, removed>>

Remove(d) ==
  /\ status[d] # "none"
  /\ Become(d, "none")
  /\ indexed' = indexed \ {d}
  /\ removed' = removed \cup {d}

Next == \E d \in Docs :
  Submit(d) \/ Claim(d) \/ Publish(d) \/ Fail(d) \/ Remove(d)

Spec == Init /\ [][Next]_vars

=============================================================================
