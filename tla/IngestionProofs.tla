--------------------------- MODULE IngestionProofs ---------------------------
(* Type correctness of Ingestion, its index invariant, the proof that it     *)
(* implements DocumentLifecycle, and what it promises about the job queue    *)
(* and the blob store, for every value of the constants.                     *)
EXTENDS Ingestion, FiniteSetTheorems, TLAPS

-----------------------------------------------------------------------------
(* Type correctness.                                                       *)

LEMMA RowShapes ==
  /\ NoRow \in Row /\ Pending \in Row /\ Published \in Row /\ MarkedFailed \in Row
  /\ \A was \in Row : Claimed(was) \in Row
BY DEF NoRow, Pending, Published, MarkedFailed, Claimed, Row, Status

LEMMA RunShapes ==
  /\ IdleRun \in Run
  /\ \A d \in Docs : NewRun(d) \in Run
BY ConstantsAssumption
DEF IdleRun, NewRun, Run, PC, Executing, PastClaim, NoRow, Row, Status

\* A step of a run changes that run only, which stays well formed and keeps
\* its document.
LEMMA MoveEffect ==
  ASSUME TypeOK, NEW r \in Runs, NEW label \in PC,
         NEW seen \in SUBSET Batch, NEW loaded \in Row,
         Move(r, label, seen, loaded)
  PROVE  /\ run' \in [Runs -> Run]
         /\ run'[r].pc = label
         /\ run'[r].seen = seen
         /\ run'[r].loaded = loaded
         /\ \A q \in Runs : run'[q].doc = run[q].doc
         /\ \A q \in Runs \ {r} : run'[q] = run[q]
<1> DEFINE new == [run[r] EXCEPT !.pc = label, !.seen = seen, !.loaded = loaded]
<1>1. run \in [Runs -> Run] /\ run[r] \in Run
  BY DEF TypeOK
<1>2. /\ new \in Run  /\ new.pc = label  /\ new.seen = seen
      /\ new.loaded = loaded  /\ new.doc = run[r].doc
  BY <1>1 DEF Run
<1>3. run' = [run EXCEPT ![r] = new]
  BY <1>1 DEF Move
<1> HIDE DEF new
<1> QED BY <1>1, <1>2, <1>3

LEMMA GotoEffect ==
  ASSUME TypeOK, NEW r \in Runs, NEW label \in PC, Goto(r, label)
  PROVE  /\ run' \in [Runs -> Run]
         /\ run'[r].pc = label
         /\ run'[r].seen = run[r].seen
         /\ run'[r].loaded = run[r].loaded
         /\ \A q \in Runs : run'[q].doc = run[q].doc
         /\ \A q \in Runs \ {r} : run'[q] = run[q]
<1>1. run[r].seen \in SUBSET Batch /\ run[r].loaded \in Row
  BY DEF TypeOK, Run
<1> QED BY <1>1, MoveEffect DEF Goto

LEMMA LeaveEffect ==
  ASSUME TypeOK, NEW r \in Runs, NEW label \in PC, Leave(r, label)
  PROVE  /\ run' \in [Runs -> Run]
         /\ run'[r].pc = label
         /\ run'[r].seen = {}
         /\ run'[r].loaded = NoRow
         /\ \A q \in Runs : run'[q].doc = run[q].doc
         /\ \A q \in Runs \ {r} : run'[q] = run[q]
BY MoveEffect, RowShapes DEF Leave

LEMMA EnqueueType ==
  ASSUME TypeOK, NEW d \in Docs, Enqueue(d)
  PROVE  run' \in [Runs -> Run]
BY RunShapes DEF TypeOK, Enqueue

LEMMA SpendType ==
  ASSUME TypeOK, NEW kind \in FaultKinds, Spend(kind)
  PROVE  faults' \in [FaultKinds -> Nat]
BY DEF TypeOK, Spend

LEMMA FlushType ==
  ASSUME NEW now \in Row, NEW loaded \in Row, NEW new \in Row
  PROVE  OrmFlush(now, loaded, new) \in Row
BY DEF OrmFlush, Row

\* A run that is not idle works on a document.
HasDoc == \A r \in Runs : run[r].pc # "idle" => run[r].doc \in Docs

Typed == TypeOK /\ HasDoc

\* However a run moves, it keeps its type and its document.
LEMMA MoveTyped ==
  ASSUME Typed, NEW r \in Runs, NEW label \in PC, run[r].pc # "idle",
         \/ Goto(r, label)
         \/ Leave(r, label)
         \/ \E seen \in SUBSET Batch, loaded \in Row : Move(r, label, seen, loaded)
  PROVE  run' \in [Runs -> Run] /\ HasDoc'
<1>1. /\ run' \in [Runs -> Run]
      /\ \A q \in Runs : run'[q].doc = run[q].doc
      /\ \A q \in Runs \ {r} : run'[q] = run[q]
  BY MoveEffect, GotoEffect, LeaveEffect DEF Typed
<1> QED BY <1>1 DEF Typed, HasDoc

LEMMA DocStepTyped == 
  ASSUME Typed, NEW d \in Docs, DocStep(d)
  PROVE  Typed'
<1> USE DEF Typed, TypeOK, UploadPhase
<1>1. CASE UploadFlush(d)
  BY <1>1 DEF UploadFlush, HasDoc
<1>2. CASE UploadPut(d)
  BY <1>2 DEF UploadPut, HasDoc
<1>3. CASE UploadEnqueue(d)
  <2>1. CASE Enqueue(d) /\ UNCHANGED faults
    <3>1. run' \in [Runs -> Run]
      BY <2>1, EnqueueType
    <3>2. HasDoc'
      BY <2>1 DEF Enqueue, HasDoc, NewRun, IdleRun
    <3> QED BY <1>3, <2>1, <3>1, <3>2 DEF UploadEnqueue
  <2>2. CASE Spend("redis") /\ UNCHANGED run
    BY <1>3, <2>2, SpendType DEF UploadEnqueue, HasDoc, FaultKinds
  <2> QED BY <1>3, <2>1, <2>2 DEF UploadEnqueue
<1>4. CASE UploadCommit(d)
  BY <1>4, RowShapes DEF UploadCommit, HasDoc
<1>5. CASE UploadAbort(d)
  BY <1>5, SpendType DEF UploadAbort, HasDoc, FaultKinds
<1>6. CASE DeleteUnlink(d)
  BY <1>6 DEF DeleteUnlink, HasDoc
<1>7. CASE DeleteCommit(d)
  BY <1>7, RowShapes DEF DeleteCommit, HasDoc
<1>8. CASE DeleteDeadlock(d)
  <2>1. CASE UNCHANGED run
    BY <1>8, <2>1 DEF DeleteDeadlock, HasDoc
  <2>2. ASSUME NEW r \in Runs, LocksChunks(r, d), Leave(r, "fail")
        PROVE  run' \in [Runs -> Run] /\ HasDoc'
    BY <2>2, MoveTyped DEF LocksChunks, PC, Executing, PastClaim
  <2> QED BY <1>8, <2>1, <2>2 DEF DeleteDeadlock
<1>9. CASE DeleteAbort(d)
  BY <1>9, SpendType DEF DeleteAbort, HasDoc, FaultKinds
<1>10. CASE Age(d)
  BY <1>10 DEF Age, HasDoc
<1>11. CASE SweepEnqueue(d)
  <2>1. run' \in [Runs -> Run]
    BY <1>11, EnqueueType DEF SweepEnqueue
  <2>2. HasDoc'
    BY <1>11 DEF SweepEnqueue, Enqueue, HasDoc, NewRun, IdleRun
  <2> QED BY <1>11, <2>1, <2>2 DEF SweepEnqueue
<1> QED
  BY <1>1, <1>2, <1>3, <1>4, <1>5, <1>6, <1>7, <1>8, <1>9, <1>10, <1>11
  DEF DocStep, UploadStep

LEMMA RunStepTyped ==
  ASSUME Typed, NEW r \in Runs, RunStep(r)
  PROVE  Typed'
<1> USE DEF Typed
<1>a. /\ row \in [Docs -> Row]  /\ run \in [Runs -> Run]
      /\ run[r] \in Run  /\ run[r].pc # "idle" => run[r].doc \in Docs
  BY DEF TypeOK, HasDoc
<1>b. {"idle", "queued"} \cup Executing \subseteq PC
  BY DEF PC
<1>1. CASE Start(r)
  <2>1. run' \in [Runs -> Run]
    <3>1. CASE run[r].tries = MaxTries
      BY <1>1, <1>a, <3>1, RunShapes DEF Start
    <3>2. CASE run[r].tries # MaxTries
      <4> DEFINE opened == [run[r] EXCEPT !.pc = "open", !.tries = run[r].tries + 1]
      <4>1. opened \in Run
        <5>1. run[r].tries + 1 \in Nat /\ "open" \in PC
          BY <1>a DEF Run, PC, Executing
        <5> QED BY <1>a, <5>1 DEF Run
      <4>2. run' = [run EXCEPT ![r] = opened]
        BY <1>1, <1>a, <3>2 DEF Start
      <4> HIDE DEF opened
      <4> QED BY <1>a, <4>1, <4>2
    <3> QED BY <3>1, <3>2
  <2>2. HasDoc'
    BY <1>1, <1>a DEF Start, HasDoc, IdleRun
  <2> QED BY <1>1, <2>1, <2>2 DEF Start, TypeOK
<1>2. CASE OpenBlob(r)
  <2>1. run' \in [Runs -> Run] /\ HasDoc'
    BY <1>2, MoveTyped DEF OpenBlob, PC, Executing
  <2> QED BY <1>2, <2>1 DEF OpenBlob, TypeOK
<1>3. CASE ClaimSelect(r)
  <2>1. CASE Exists(run[r].doc)
    <3>1. run' \in [Runs -> Run] /\ HasDoc'
      BY <1>3, <1>a, <2>1, MoveTyped DEF ClaimSelect, PC, Executing
    <3> QED BY <1>3, <3>1 DEF ClaimSelect, TypeOK
  <2>2. CASE ~Exists(run[r].doc)
    <3>1. run' \in [Runs -> Run] /\ HasDoc'
      BY <1>3, <2>2, MoveTyped DEF ClaimSelect, PC, Executing
    <3> QED BY <1>3, <3>1 DEF ClaimSelect, TypeOK
  <2> QED BY <2>1, <2>2
<1>4. CASE ClaimCommit(r)
  <2>1. run' \in [Runs -> Run] /\ HasDoc'
    BY <1>4, MoveTyped DEF ClaimCommit, PC, Executing, PastClaim
  <2>2. OrmFlush(row[run[r].doc], run[r].loaded, Claimed(run[r].loaded)) \in Row
    BY <1>4, <1>a, FlushType, RowShapes DEF ClaimCommit, Run
  <2>3. row' \in [Docs -> Row]
    BY <1>4, <1>a, <2>2 DEF ClaimCommit
  <2> QED BY <1>4, <2>1, <2>3 DEF ClaimCommit, TypeOK
<1>5. CASE Work(r)
  <2>1. run' \in [Runs -> Run] /\ HasDoc'
    BY <1>5, MoveTyped DEF Work, PC, Executing, PastClaim
  <2> QED BY <1>5, <2>1 DEF Work, TypeOK
<1>6. CASE ReplaceDelete(r)
  <2>1. PriorChunks(r) \in SUBSET Batch
    BY <1>6, <1>a DEF ReplaceDelete, PriorChunks, TypeOK
  <2>2. run' \in [Runs -> Run] /\ HasDoc'
    BY <1>6, <2>1, MoveTyped, RowShapes DEF ReplaceDelete, PC, Executing, PastClaim
  <2> QED BY <1>6, <2>2 DEF ReplaceDelete, TypeOK
<1>7. CASE ReplaceLock(r)
  <2>1. run' \in [Runs -> Run] /\ HasDoc'
    BY <1>7, MoveTyped DEF ReplaceLock, PC, Executing, PastClaim
  <2> QED BY <1>7, <2>1 DEF ReplaceLock, TypeOK
<1>8. CASE ReplaceReload(r)
  <2>1. run[r].seen \in SUBSET Batch /\ row[run[r].doc] \in Row
    BY <1>8, <1>a DEF ReplaceReload, Run
  <2>2. run' \in [Runs -> Run] /\ HasDoc'
    BY <1>8, <2>1, MoveTyped DEF ReplaceReload, PC, Executing, PastClaim
  <2> QED BY <1>8, <2>2 DEF ReplaceReload, TypeOK
<1>9. CASE ReplaceCommit(r)
  <2>1. run' \in [Runs -> Run] /\ HasDoc'
    BY <1>9, MoveTyped DEF ReplaceCommit, PC, Executing, PastClaim
  <2>2. OrmFlush(row[run[r].doc], run[r].loaded, Published) \in Row
    BY <1>9, <1>a, FlushType, RowShapes DEF ReplaceCommit, Run
  <2>3. row' \in [Docs -> Row]
    BY <1>9, <1>a, <2>2 DEF ReplaceCommit
  <2>4. Replaced(chunks[run[r].doc], run[r].seen, {MyBatch(r)}) \in SUBSET Batch
    BY <1>9, <1>a DEF ReplaceCommit, Replaced, MyBatch, Batch, TypeOK, Run
  <2>5. chunks' \in [Docs -> SUBSET Batch]
    BY <1>9, <2>4 DEF ReplaceCommit, TypeOK
  <2> QED BY <1>9, <2>1, <2>3, <2>5 DEF ReplaceCommit, TypeOK
<1>10. CASE FailSelect(r)
  <2>1. CASE Exists(run[r].doc)
    <3>1. run' \in [Runs -> Run] /\ HasDoc'
      BY <1>10, <1>a, <2>1, MoveTyped DEF FailSelect, PC, Executing, PastClaim
    <3> QED BY <1>10, <3>1 DEF FailSelect, TypeOK
  <2>2. CASE ~Exists(run[r].doc)
    <3>1. run' \in [Runs -> Run] /\ HasDoc'
      BY <1>10, <2>2, MoveTyped DEF FailSelect, PC, Executing
    <3> QED BY <1>10, <3>1 DEF FailSelect, TypeOK
  <2> QED BY <2>1, <2>2
<1>11. CASE FailCommit(r)
  <2>1. run' \in [Runs -> Run] /\ HasDoc'
    BY <1>11, MoveTyped DEF FailCommit, PC, Executing
  <2>2. OrmFlush(row[run[r].doc], run[r].loaded, MarkedFailed) \in Row
    BY <1>11, <1>a, FlushType, RowShapes DEF FailCommit, Run
  <2>3. row' \in [Docs -> Row]
    BY <1>11, <1>a, <2>2 DEF FailCommit
  <2> QED BY <1>11, <2>1, <2>3 DEF FailCommit, TypeOK
<1>12. CASE Finish(r)
  BY <1>12, <1>a, RunShapes DEF Finish, TypeOK, HasDoc, IdleRun
<1> QED
  BY <1>1, <1>2, <1>3, <1>4, <1>5, <1>6, <1>7, <1>8, <1>9, <1>10, <1>11, <1>12
  DEF RunStep

LEMMA FaultTyped ==
  ASSUME Typed, NEW r \in Runs, RunFault(r)
  PROVE  Typed'
<1> USE DEF Typed
<1>1. CASE DbFault(r)
  <2>1. run' \in [Runs -> Run] /\ HasDoc'
    BY <1>1, MoveTyped DEF DbFault, PC, Executing, PastClaim
  <2>2. faults' \in [FaultKinds -> Nat]
    BY <1>1, SpendType DEF DbFault, FaultKinds
  <2> QED BY <1>1, <2>1, <2>2 DEF DbFault, TypeOK
<1>2. CASE WorkerCrash(r)
  <2>1. run' \in [Runs -> Run] /\ HasDoc'
    BY <1>2, MoveTyped DEF WorkerCrash, PC, Executing, PastClaim
  <2>2. faults' \in [FaultKinds -> Nat]
    BY <1>2, SpendType DEF WorkerCrash, FaultKinds
  <2> QED BY <1>2, <2>1, <2>2 DEF WorkerCrash, TypeOK
<1>3. CASE JobTimeout(r)
  <2>1. run' \in [Runs -> Run] /\ HasDoc'
    BY <1>3, RunShapes DEF JobTimeout, TypeOK, HasDoc, IdleRun
  <2>2. faults' \in [FaultKinds -> Nat]
    BY <1>3, SpendType DEF JobTimeout, FaultKinds
  <2> QED BY <1>3, <2>1, <2>2 DEF JobTimeout, TypeOK
<1> QED BY <1>1, <1>2, <1>3 DEF RunFault

LEMMA SystemTyped ==
  ASSUME Typed, ApiCrash \/ SweepRead \/ SweepFails
  PROVE  Typed'
<1> USE DEF Typed
<1>1. CASE ApiCrash
  <2>1. faults' \in [FaultKinds -> Nat]
    BY <1>1, SpendType DEF ApiCrash, FaultKinds
  <2>2. run' \in [Runs -> Run] /\ HasDoc'
    BY <1>1, RunShapes DEF ApiCrash, TypeOK, HasDoc, IdleRun
  <2>3. upload' \in [Docs -> UploadPhase]
    BY <1>1 DEF ApiCrash, TypeOK, UploadPhase
  <2> QED BY <1>1, <2>1, <2>2, <2>3 DEF ApiCrash, TypeOK
<1>2. CASE SweepRead
  BY <1>2 DEF SweepRead, Stranded, TypeOK, HasDoc
<1>3. CASE SweepFails
  BY <1>3, SpendType DEF SweepFails, TypeOK, HasDoc, FaultKinds
<1> QED BY <1>1, <1>2, <1>3

LEMMA TypedInductive ==
  /\ Init => Typed
  /\ Typed /\ [Next]_vars => Typed'
<1>1. Init => Typed
  BY RunShapes, RowShapes
  DEF Init, Typed, TypeOK, HasDoc, UploadPhase, IdleRun
<1>2. Typed /\ UNCHANGED vars => Typed'
  BY DEF Typed, TypeOK, HasDoc, vars
<1> QED BY <1>1, <1>2, DocStepTyped, RunStepTyped, FaultTyped, SystemTyped DEF Next

\* Every variable of a run of the system stays in its domain, and only an idle
\* run is without a document.
THEOREM TypeCorrect == Spec => []TypeOK
<1>1. Typed => TypeOK
  BY DEF Typed
<1> QED BY <1>1, TypedInductive, PTL DEF Spec

-----------------------------------------------------------------------------
(* The index invariant.  What a client sees (the three properties of the   *)
(* model) is not inductive: it depends on what the runs in flight have     *)
(* read and on the upload being over before any run gets past its claim.   *)

UploadFirst == \A d \in Docs : upload[d] # "done" => row[d].status = "none"

\* A run about to commit its claim read an existing row, and if it did not read
\* pending the document is not pending any more.
ClaimKnows ==
  \A r \in Runs : run[r].pc = "claiming" =>
    /\ upload[run[r].doc] = "done"
    /\ run[r].loaded.status # "none"
    /\ run[r].loaded.status # "pending" => row[run[r].doc].status # "pending"

PastClaimUploaded ==
  \A r \in Runs : run[r].pc \in PastClaim => upload[run[r].doc] = "done"

\* A run that reloaded a ready row will not write the status again; as long as
\* the document exists it keeps its chunks.
CommitKnows ==
  \A r \in Runs :
    /\ run[r].pc = "commit"
    /\ run[r].loaded.status = "ready"
    /\ Exists(run[r].doc)
    => chunks[run[r].doc] # {}

IndexInv ==
  /\ Typed
  /\ ReadyIsIndexed
  /\ IndexedHasRow
  /\ PendingUntouched
  /\ UploadFirst
  /\ ClaimKnows
  /\ PastClaimUploaded
  /\ CommitKnows

-----------------------------------------------------------------------------
(* Most steps change nothing a client sees and take no run into a state of *)
(* which the invariant says anything new.                                  *)

Unnoticed(q) ==
  \/ run'[q] = run[q]
  \/ run'[q].pc \notin PastClaim \cup {"claiming"}
  \/ /\ run[q].pc \in PastClaim
     /\ run'[q].pc \in PastClaim \ {"commit"}
     /\ run'[q].doc = run[q].doc

Quiet ==
  /\ UNCHANGED <<row, chunks>>
  /\ \A d \in Docs : upload'[d] = "done" <=> upload[d] = "done"
  /\ \A q \in Runs : Unnoticed(q)

LEMMA QuietPreserves ==
  ASSUME IndexInv, Typed', Quiet
  PROVE  IndexInv'
<1>0. \A q \in Runs : run[q].pc \in PastClaim \cup {"claiming"} => run[q].doc \in Docs
  BY DEF IndexInv, Typed, HasDoc, PastClaim
<1>1. ReadyIsIndexed' /\ IndexedHasRow' /\ UploadFirst'
  BY DEF IndexInv, Quiet, ReadyIsIndexed, IndexedHasRow, Exists, UploadFirst
<1>2. PendingUntouched'
  BY DEF IndexInv, Quiet, Unnoticed, PendingUntouched
<1>3. ClaimKnows'
  BY <1>0 DEF IndexInv, Quiet, Unnoticed, ClaimKnows, PastClaim
<1>4. PastClaimUploaded'
  BY <1>0 DEF IndexInv, Quiet, Unnoticed, PastClaimUploaded
<1>5. CommitKnows'
  BY DEF IndexInv, Quiet, Unnoticed, CommitKnows, PastClaim, Exists
<1> QED BY <1>1, <1>2, <1>3, <1>4, <1>5 DEF IndexInv

\* The only requests that are not quiet are their commits.
LEMMA DocStepQuiet ==
  ASSUME IndexInv, NEW d \in Docs, DocStep(d)
  PROVE  Quiet \/ UploadCommit(d) \/ DeleteCommit(d)
<1>1. TypeOK
  BY DEF IndexInv, Typed
<1>2. CASE UploadFlush(d) \/ UploadPut(d) \/ UploadAbort(d)
  BY <1>1, <1>2 DEF UploadFlush, UploadPut, UploadAbort, TypeOK, Quiet, Unnoticed
<1>3. ASSUME Enqueue(d)  PROVE \A q \in Runs : Unnoticed(q)
  BY <1>1, <1>3 DEF Enqueue, NewRun, IdleRun, TypeOK, Unnoticed, PastClaim
<1>4. CASE UploadEnqueue(d)
  <2>1. \A q \in Runs : Unnoticed(q)
    BY <1>3, <1>4 DEF UploadEnqueue, Unnoticed
  <2> QED BY <1>1, <1>4, <2>1 DEF UploadEnqueue, TypeOK, Quiet
<1>5. CASE DeleteUnlink(d) \/ DeleteAbort(d) \/ Age(d)
  BY <1>5 DEF DeleteUnlink, DeleteAbort, Age, Quiet, Unnoticed
<1>6. CASE DeleteDeadlock(d)
  <2>1. CASE UNCHANGED run
    BY <1>6, <2>1 DEF DeleteDeadlock, Quiet, Unnoticed
  <2>2. ASSUME NEW r \in Runs, LocksChunks(r, d), Leave(r, "fail")
        PROVE  \A q \in Runs : Unnoticed(q)
    BY <1>1, <2>2, LeaveEffect
    DEF LocksChunks, Unnoticed, PC, Executing, PastClaim
  <2> QED BY <1>6, <2>1, <2>2 DEF DeleteDeadlock, Quiet
<1>7. CASE SweepEnqueue(d)
  BY <1>3, <1>7 DEF SweepEnqueue, Quiet
<1> QED BY <1>2, <1>4, <1>5, <1>6, <1>7 DEF DocStep, UploadStep

\* Of a run, the steps that take note of the row or commit.
Loud(r) ==
  \/ ClaimSelect(r) /\ Exists(run[r].doc)
  \/ ClaimCommit(r) \/ ReplaceReload(r) \/ ReplaceCommit(r) \/ FailCommit(r)

LEMMA RunStepQuiet ==
  ASSUME IndexInv, NEW r \in Runs, RunStep(r) \/ RunFault(r)
  PROVE  Quiet \/ Loud(r)
<1>1. TypeOK
  BY DEF IndexInv, Typed
<1>2. ASSUME NEW label \in PC, Goto(r, label) \/ Leave(r, label),
             \/ label \notin PastClaim \cup {"claiming"}
             \/ run[r].pc \in PastClaim /\ label \in PastClaim \ {"commit"}
      PROVE  \A q \in Runs : Unnoticed(q)
  <2>1. /\ run'[r].pc = label
        /\ \A q \in Runs : run'[q].doc = run[q].doc
        /\ \A q \in Runs \ {r} : run'[q] = run[q]
    BY <1>1, <1>2, GotoEffect, LeaveEffect
  <2> QED BY <1>2, <2>1 DEF Unnoticed
<1>3. ASSUME run' = [run EXCEPT ![r] = IdleRun]
      PROVE  \A q \in Runs : Unnoticed(q)
  BY <1>1, <1>3 DEF Unnoticed, TypeOK, IdleRun, PastClaim
<1>4. CASE Start(r)
  <2>1. /\ run'[r].pc \in {"idle", "open"}
        /\ \A q \in Runs \ {r} : run'[q] = run[q]
    BY <1>1, <1>4 DEF Start, TypeOK, Run, IdleRun
  <2>2. \A q \in Runs : Unnoticed(q)
    BY <2>1 DEF Unnoticed, PastClaim
  <2> QED BY <1>4, <2>2 DEF Start, Quiet
<1>5. CASE OpenBlob(r)
  <2>1. \A q \in Runs : Unnoticed(q)
    BY <1>2, <1>5 DEF OpenBlob, PC, Executing, PastClaim
  <2> QED BY <1>5, <2>1 DEF OpenBlob, Quiet
<1>6. CASE ClaimSelect(r)
  <2>1. CASE Exists(run[r].doc)
    BY <1>6, <2>1 DEF Loud
  <2>2. CASE ~Exists(run[r].doc)
    <3>1. \A q \in Runs : Unnoticed(q)
      BY <1>2, <1>6, <2>2 DEF ClaimSelect, PC, Executing, PastClaim
    <3> QED BY <1>6, <3>1 DEF ClaimSelect, Quiet
  <2> QED BY <2>1, <2>2
<1>7. CASE Work(r)
  <2>1. \A q \in Runs : Unnoticed(q)
    BY <1>2, <1>7 DEF Work, PC, Executing, PastClaim
  <2> QED BY <1>7, <2>1 DEF Work, Quiet
<1>8. CASE ReplaceDelete(r)
  <2>1. run[r].doc \in Docs
    BY <1>8 DEF ReplaceDelete, IndexInv, Typed, HasDoc
  <2>2. PriorChunks(r) \in SUBSET Batch /\ NoRow \in Row /\ "locking" \in PC
    BY <1>1, <2>1, RowShapes DEF PriorChunks, TypeOK, PC, Executing, PastClaim
  <2>3. /\ run'[r].pc = "locking"
        /\ \A q \in Runs : run'[q].doc = run[q].doc
        /\ \A q \in Runs \ {r} : run'[q] = run[q]
    BY <1>1, <1>8, <2>2, MoveEffect DEF ReplaceDelete
  <2> QED BY <1>8, <2>3 DEF ReplaceDelete, Quiet, Unnoticed, PastClaim
<1>9. CASE ReplaceLock(r)
  <2>1. \A q \in Runs : Unnoticed(q)
    BY <1>2, <1>9 DEF ReplaceLock, PC, Executing, PastClaim
  <2> QED BY <1>9, <2>1 DEF ReplaceLock, Quiet
<1>10. CASE FailSelect(r)
  <2>1. CASE Exists(run[r].doc)
    <3>1. run[r].doc \in Docs
      BY <1>10 DEF FailSelect, IndexInv, Typed, HasDoc
    <3>2. row[run[r].doc] \in Row /\ {} \in SUBSET Batch /\ "failing" \in PC
      BY <1>1, <3>1 DEF TypeOK, PC, Executing, PastClaim
    <3>3. /\ run'[r].pc = "failing"
          /\ \A q \in Runs : run'[q].doc = run[q].doc
          /\ \A q \in Runs \ {r} : run'[q] = run[q]
      BY <1>1, <1>10, <2>1, <3>2, MoveEffect DEF FailSelect
    <3> QED BY <1>10, <3>3 DEF FailSelect, Quiet, Unnoticed, PastClaim
  <2>2. CASE ~Exists(run[r].doc)
    <3>1. \A q \in Runs : Unnoticed(q)
      BY <1>2, <1>10, <2>2 DEF FailSelect, PC, Executing, PastClaim
    <3> QED BY <1>10, <3>1 DEF FailSelect, Quiet
  <2> QED BY <2>1, <2>2
<1>11. CASE Finish(r)
  BY <1>3, <1>11 DEF Finish, Quiet
<1>12. CASE DbFault(r)
  <2>1. \A q \in Runs : Unnoticed(q)
    BY <1>2, <1>12 DEF DbFault, PC, Executing, PastClaim
  <2> QED BY <1>12, <2>1 DEF DbFault, Quiet
<1>13. CASE WorkerCrash(r)
  <2>1. \A q \in Runs : Unnoticed(q)
    BY <1>2, <1>13 DEF WorkerCrash, PC, Executing, PastClaim
  <2> QED BY <1>13, <2>1 DEF WorkerCrash, Quiet
<1>14. CASE JobTimeout(r)
  BY <1>3, <1>14 DEF JobTimeout, Quiet
<1> QED
  BY <1>4, <1>5, <1>6, <1>7, <1>8, <1>9, <1>10, <1>11, <1>12, <1>13, <1>14
  DEF RunStep, RunFault, Loud

LEMMA SystemQuiet ==
  ASSUME IndexInv, ApiCrash \/ SweepRead \/ SweepFails \/ UNCHANGED vars
  PROVE  Quiet
<1>1. CASE ApiCrash
  <2>1. \A q \in Runs : Unnoticed(q)
    BY <1>1 DEF ApiCrash, IdleRun, Unnoticed, PastClaim
  <2>2. \A d \in Docs : upload'[d] = "done" <=> upload[d] = "done"
    BY <1>1 DEF ApiCrash
  <2> QED BY <1>1, <2>1, <2>2 DEF ApiCrash, Quiet
<1>2. CASE SweepRead \/ SweepFails \/ UNCHANGED vars
  BY <1>2 DEF SweepRead, SweepFails, vars, Quiet, Unnoticed
<1> QED BY <1>1, <1>2

-----------------------------------------------------------------------------
(* The steps that are not quiet keep the index invariant.                  *)

LEMMA UploadCommitIndex ==
  ASSUME IndexInv, Typed', NEW d \in Docs, UploadCommit(d)
  PROVE  IndexInv'
<1>1. /\ upload[d] = "handed"  /\ upload'[d] = "done"
      /\ row'[d].status = "pending"
      /\ \A e \in Docs \ {d} : row'[e] = row[e] /\ upload'[e] = upload[e]
      /\ UNCHANGED <<run, chunks>>
  BY DEF UploadCommit, IndexInv, Typed, TypeOK, Pending
<1>2. ~Exists(d) /\ chunks[d] = {}
  BY <1>1 DEF IndexInv, UploadFirst, IndexedHasRow, Exists
<1>3. \A r \in Runs : run[r].doc = d => run[r].pc \notin PastClaim \cup {"claiming"}
  BY <1>1 DEF IndexInv, PastClaimUploaded, ClaimKnows
<1>4. \A r \in Runs : run[r].pc \in PastClaim \cup {"claiming"} => run[r].doc \in Docs
  BY DEF IndexInv, Typed, HasDoc, PastClaim
<1>5. ReadyIsIndexed' /\ IndexedHasRow' /\ UploadFirst' /\ PendingUntouched'
  BY <1>1, <1>2, <1>3
  DEF IndexInv, ReadyIsIndexed, IndexedHasRow, Exists, UploadFirst, PendingUntouched
<1>6. ClaimKnows' /\ PastClaimUploaded' /\ CommitKnows'
  BY <1>1, <1>3, <1>4
  DEF IndexInv, ClaimKnows, PastClaimUploaded, CommitKnows, Exists, PastClaim
<1> QED BY <1>5, <1>6 DEF IndexInv

LEMMA DeleteCommitIndex ==
  ASSUME IndexInv, Typed', NEW d \in Docs, DeleteCommit(d)
  PROVE  IndexInv'
<1>1. /\ chunks'[d] = {}  /\ row'[d].status = "none"
      /\ \A e \in Docs \ {d} : row'[e] = row[e] /\ chunks'[e] = chunks[e]
      /\ UNCHANGED <<run, upload>>
  BY DEF DeleteCommit, IndexInv, Typed, TypeOK, NoRow
<1>2. \A r \in Runs : run[r].pc \in PastClaim \cup {"claiming"} => run[r].doc \in Docs
  BY DEF IndexInv, Typed, HasDoc, PastClaim
<1>3. ReadyIsIndexed' /\ IndexedHasRow' /\ UploadFirst' /\ PendingUntouched'
  BY <1>1
  DEF IndexInv, ReadyIsIndexed, IndexedHasRow, Exists, UploadFirst, PendingUntouched
<1>4. ClaimKnows' /\ PastClaimUploaded'
  BY <1>1, <1>2 DEF IndexInv, ClaimKnows, PastClaimUploaded
<1>5. CommitKnows'
  BY <1>1, <1>2 DEF IndexInv, CommitKnows, Exists, PastClaim
<1> QED BY <1>3, <1>4, <1>5 DEF IndexInv

\* The run reads the row: what it knows then is what the row says now.
LEMMA ClaimSelectIndex ==
  ASSUME IndexInv, Typed', NEW r \in Runs, ClaimSelect(r), Exists(run[r].doc)
  PROVE  IndexInv'
<1> DEFINE d == run[r].doc
<1>1. TypeOK /\ d \in Docs
  BY DEF IndexInv, Typed, ClaimSelect, HasDoc
<1>2. row[d] \in Row /\ {} \in SUBSET Batch /\ "claiming" \in PC
  BY <1>1 DEF TypeOK, PC, Executing
<1>3. /\ run'[r].pc = "claiming" /\ run'[r].loaded = row[d] /\ run'[r].doc = d
      /\ \A q \in Runs \ {r} : run'[q] = run[q]
      /\ UNCHANGED <<row, chunks, upload>>
  BY <1>1, <1>2, MoveEffect DEF ClaimSelect
<1>4. upload[d] = "done" /\ row[d].status # "none"
  BY <1>1 DEF IndexInv, UploadFirst, Exists
<1>5. ReadyIsIndexed' /\ IndexedHasRow' /\ UploadFirst' /\ PendingUntouched'
  BY <1>3 DEF IndexInv, ReadyIsIndexed, IndexedHasRow, Exists, UploadFirst,
              PendingUntouched, PastClaim
<1>6. ClaimKnows' /\ PastClaimUploaded' /\ CommitKnows'
  BY <1>3, <1>4 DEF IndexInv, ClaimKnows, PastClaimUploaded, CommitKnows, Exists, PastClaim
<1> QED BY <1>5, <1>6 DEF IndexInv

LEMMA ReplaceReloadIndex ==
  ASSUME IndexInv, Typed', NEW r \in Runs, ReplaceReload(r)
  PROVE  IndexInv'
<1> DEFINE d == run[r].doc
<1>1. TypeOK /\ d \in Docs /\ run[r].pc = "reload"
  BY DEF IndexInv, Typed, ReplaceReload, HasDoc
<1>2. row[d] \in Row /\ run[r].seen \in SUBSET Batch /\ "commit" \in PC
  BY <1>1 DEF TypeOK, Run, PC, Executing, PastClaim
<1>3. /\ run'[r].pc = "commit" /\ run'[r].loaded = row[d] /\ run'[r].doc = d
      /\ \A q \in Runs \ {r} : run'[q] = run[q]
      /\ UNCHANGED <<row, chunks, upload>>
  <2>1. Move(r, "commit", run[r].seen, row[d]) /\ UNCHANGED <<row, chunks, upload>>
    BY DEF ReplaceReload
  <2> QED BY <1>1, <1>2, <2>1, MoveEffect
<1>4. ReadyIsIndexed' /\ IndexedHasRow' /\ UploadFirst' /\ PendingUntouched'
  BY <1>1, <1>3 DEF IndexInv, ReadyIsIndexed, IndexedHasRow, Exists, UploadFirst,
                    PendingUntouched, PastClaim
<1>5. ClaimKnows' /\ PastClaimUploaded'
  BY <1>1, <1>3 DEF IndexInv, ClaimKnows, PastClaimUploaded, PastClaim
<1>6. CommitKnows'
  BY <1>1, <1>3 DEF IndexInv, CommitKnows, Exists, ReadyIsIndexed
<1> QED BY <1>4, <1>5, <1>6 DEF IndexInv

\* The claim never leaves a document pending.
LEMMA ClaimCommitRow ==
  ASSUME IndexInv, NEW r \in Runs, ClaimCommit(r)
  PROVE  LET d == run[r].doc IN
         /\ d \in Docs
         /\ upload[d] = "done"
         /\ \A e \in Docs \ {d} : row'[e] = row[e]
         /\ \/ run'[r].pc = "exit" /\ row' = row
            \/ /\ run'[r].pc = "work"
               /\ \/ row'[d].status = row[d].status /\ row[d].status # "pending"
                  \/ row'[d].status = "processing" /\ Exists(d)
         /\ \A q \in Runs : run'[q].doc = run[q].doc
         /\ \A q \in Runs \ {r} : run'[q] = run[q]
         /\ UNCHANGED <<chunks, upload>>
<1> DEFINE d == run[r].doc
           was == run[r].loaded
<1>1. /\ TypeOK /\ d \in Docs /\ run[r].pc = "claiming"
      /\ row \in [Docs -> Row] /\ was \in Row
      /\ "exit" \in PC /\ "work" \in PC
  BY DEF ClaimCommit, IndexInv, Typed, TypeOK, HasDoc, Run, PC, Executing, PastClaim
<1>2. upload[d] = "done" /\ (was.status # "pending" => row[d].status # "pending")
  BY <1>1 DEF IndexInv, ClaimKnows
<1>3. \A q \in Runs : run'[q].doc = run[q].doc /\ (q # r => run'[q] = run[q])
  BY <1>1, LeaveEffect DEF ClaimCommit
<1>4. CASE Claimed(was) # was /\ ~Exists(d)
  BY <1>1, <1>2, <1>3, <1>4, LeaveEffect DEF ClaimCommit
<1>5. CASE ~(Claimed(was) # was /\ ~Exists(d))
  <2>1. /\ row' = [row EXCEPT ![d] = OrmFlush(row[d], was, Claimed(was))]
        /\ Leave(r, "work") /\ UNCHANGED <<chunks, upload>>
    BY <1>5 DEF ClaimCommit
  <2>2. run'[r].pc = "work"
    BY <1>1, <2>1, LeaveEffect
  <2>3. /\ row'[d].status = OrmFlush(row[d], was, Claimed(was)).status
        /\ \A e \in Docs \ {d} : row'[e] = row[e]
    BY <1>1, <2>1
  <2>4. CASE was.status = "processing"
    <3>1. row'[d].status = row[d].status
      BY <1>1, <2>3, <2>4 DEF OrmFlush, Claimed, Row
    <3> QED BY <1>1, <1>2, <1>3, <2>1, <2>2, <2>3, <2>4, <3>1
  <2>5. CASE was.status # "processing"
    <3>1. row'[d].status = "processing" /\ Claimed(was) # was
      BY <1>1, <2>3, <2>5 DEF OrmFlush, Claimed, Row
    <3> QED BY <1>1, <1>2, <1>3, <1>5, <2>1, <2>2, <2>3, <3>1
  <2> QED BY <2>4, <2>5
<1> QED BY <1>4, <1>5

LEMMA ClaimCommitIndex ==
  ASSUME IndexInv, Typed', NEW r \in Runs, ClaimCommit(r)
  PROVE  IndexInv'
<1> DEFINE d == run[r].doc
<1>1. /\ d \in Docs /\ upload[d] = "done"
      /\ \A e \in Docs \ {d} : row'[e] = row[e]
      /\ \/ run'[r].pc = "exit" /\ row' = row
         \/ /\ run'[r].pc = "work"
            /\ \/ row'[d].status = row[d].status /\ row[d].status # "pending"
               \/ row'[d].status = "processing" /\ Exists(d)
      /\ \A q \in Runs : run'[q].doc = run[q].doc
      /\ \A q \in Runs \ {r} : run'[q] = run[q]
      /\ UNCHANGED <<chunks, upload>>
  BY ClaimCommitRow
<1>2. \A q \in Runs : run[q].pc \in PastClaim \cup {"claiming"} => run[q].doc \in Docs
  BY DEF IndexInv, Typed, HasDoc, PastClaim
<1>3. \A e \in Docs : row'[e].status = row[e].status \/ row'[e].status = "processing"
  BY <1>1
<1>4. ReadyIsIndexed' /\ IndexedHasRow' /\ UploadFirst'
  BY <1>1, <1>3 DEF IndexInv, ReadyIsIndexed, IndexedHasRow, Exists, UploadFirst
<1>5. PendingUntouched'
  BY <1>1, <1>3 DEF IndexInv, PendingUntouched, PastClaim
<1>6. ClaimKnows' /\ PastClaimUploaded'
  BY <1>1, <1>2, <1>3 DEF IndexInv, ClaimKnows, PastClaimUploaded, PastClaim
<1>7. CommitKnows'
  <2>1. \A e \in Docs : row'[e].status # "none" => row[e].status # "none"
    BY <1>1 DEF Exists
  <2> QED BY <1>1, <1>2, <2>1 DEF IndexInv, CommitKnows, Exists, PastClaim
<1> QED BY <1>4, <1>5, <1>6, <1>7 DEF IndexInv

\* The publishing transaction either adds its chunks to a document that exists,
\* which is then ready or keeps its status and has chunks already, or fails.
LEMMA ReplaceCommitRow ==
  ASSUME IndexInv, NEW r \in Runs, ReplaceCommit(r)
  PROVE  LET d == run[r].doc IN
         /\ d \in Docs
         /\ row[d].status # "pending"
         /\ \/ run'[r].pc = "fail" /\ UNCHANGED <<row, chunks>>
            \/ /\ run'[r].pc = "exit" /\ Exists(d)
               /\ chunks'[d] # {}
               /\ \/ row'[d].status = "ready"
                  \/ row'[d].status = row[d].status /\ chunks[d] # {}
         /\ \A e \in Docs \ {d} : row'[e] = row[e] /\ chunks'[e] = chunks[e]
         /\ \A q \in Runs : run'[q].doc = run[q].doc
         /\ \A q \in Runs \ {r} : run'[q] = run[q]
         /\ UNCHANGED upload
<1> DEFINE d == run[r].doc
           was == run[r].loaded
<1>1. /\ TypeOK /\ d \in Docs /\ run[r].pc = "commit"
      /\ row \in [Docs -> Row] /\ chunks \in [Docs -> SUBSET Batch]
      /\ "exit" \in PC /\ "fail" \in PC
  BY DEF ReplaceCommit, IndexInv, Typed, TypeOK, HasDoc, PC, Executing, PastClaim
<1>2. row[d].status # "pending" /\ (Exists(d) /\ was.status = "ready" => chunks[d] # {})
  BY <1>1 DEF IndexInv, PendingUntouched, CommitKnows, PastClaim
<1>3. \A q \in Runs : run'[q].doc = run[q].doc /\ (q # r => run'[q] = run[q])
  BY <1>1, LeaveEffect DEF ReplaceCommit
<1>4. CASE Exists(d)
  <2>1. /\ Leave(r, "exit")
        /\ chunks' = [chunks EXCEPT ![d] = Replaced(chunks[d], run[r].seen, {MyBatch(r)})]
        /\ row' = [row EXCEPT ![d] = OrmFlush(row[d], was, Published)]
        /\ UNCHANGED upload
    BY <1>4 DEF ReplaceCommit, CanInsert
  <2>2. run'[r].pc = "exit"
    BY <1>1, <2>1, LeaveEffect
  <2>3. chunks'[d] # {} /\ row'[d].status = OrmFlush(row[d], was, Published).status
    BY <1>1, <2>1 DEF Replaced
  <2>4. \/ row'[d].status = "ready"
        \/ row'[d].status = row[d].status /\ chunks[d] # {}
    BY <1>2, <1>4, <2>3 DEF OrmFlush, Published
  <2>5. \A e \in Docs \ {d} : row'[e] = row[e] /\ chunks'[e] = chunks[e]
    BY <1>1, <2>1
  <2> QED BY <1>1, <1>2, <1>3, <1>4, <2>1, <2>2, <2>3, <2>4, <2>5
<1>5. CASE ~Exists(d)
  <2>1. Leave(r, "fail") /\ UNCHANGED <<row, chunks, upload>>
    BY <1>5 DEF ReplaceCommit, CanInsert
  <2> QED BY <1>1, <1>2, <1>3, <2>1, LeaveEffect
<1> QED BY <1>4, <1>5

LEMMA ReplaceCommitIndex ==
  ASSUME IndexInv, Typed', NEW r \in Runs, ReplaceCommit(r)
  PROVE  IndexInv'
<1> DEFINE d == run[r].doc
<1>1. /\ d \in Docs /\ row[d].status # "pending"
      /\ \/ run'[r].pc = "fail" /\ UNCHANGED <<row, chunks>>
         \/ /\ run'[r].pc = "exit" /\ Exists(d) /\ chunks'[d] # {}
            /\ \/ row'[d].status = "ready"
               \/ row'[d].status = row[d].status /\ chunks[d] # {}
      /\ \A e \in Docs \ {d} : row'[e] = row[e] /\ chunks'[e] = chunks[e]
      /\ \A q \in Runs : run'[q].doc = run[q].doc
      /\ \A q \in Runs \ {r} : run'[q] = run[q]
      /\ UNCHANGED upload
  BY ReplaceCommitRow
<1>2. \A q \in Runs : run[q].pc \in PastClaim \cup {"claiming"} => run[q].doc \in Docs
  BY DEF IndexInv, Typed, HasDoc, PastClaim
<1>3. run[r].pc = "commit"
  BY DEF ReplaceCommit
<1>4. ReadyIsIndexed' /\ IndexedHasRow' /\ UploadFirst'
  BY <1>1 DEF IndexInv, ReadyIsIndexed, IndexedHasRow, Exists, UploadFirst
<1>5. PendingUntouched'
  BY <1>1, <1>3 DEF IndexInv, PendingUntouched, PastClaim
<1>6. ClaimKnows' /\ PastClaimUploaded'
  BY <1>1, <1>2, <1>3 DEF IndexInv, ClaimKnows, PastClaimUploaded, PastClaim
<1>7. CommitKnows'
  <2>1. \A e \in Docs : /\ row'[e].status # "none" => row[e].status # "none"
                        /\ chunks[e] # {} => chunks'[e] # {}
    BY <1>1 DEF Exists
  <2> QED BY <1>1, <1>2, <2>1 DEF IndexInv, CommitKnows, Exists, PastClaim
<1> QED BY <1>4, <1>5, <1>6, <1>7 DEF IndexInv

LEMMA FailCommitRow ==
  ASSUME IndexInv, NEW r \in Runs, FailCommit(r)
  PROVE  LET d == run[r].doc IN
         /\ d \in Docs
         /\ row[d].status # "pending"
         /\ \/ row'[d].status = row[d].status
            \/ row'[d].status = "failed" /\ Exists(d)
         /\ \A e \in Docs \ {d} : row'[e] = row[e]
         /\ run'[r].pc = "exit"
         /\ \A q \in Runs : run'[q].doc = run[q].doc
         /\ \A q \in Runs \ {r} : run'[q] = run[q]
         /\ UNCHANGED <<chunks, upload>>
<1> DEFINE d == run[r].doc
<1>1. /\ TypeOK /\ d \in Docs /\ run[r].pc = "failing"
      /\ row \in [Docs -> Row] /\ "exit" \in PC
  BY DEF FailCommit, IndexInv, Typed, TypeOK, HasDoc, PC, Executing
<1>2. row[d].status # "pending"
  BY <1>1 DEF IndexInv, PendingUntouched, PastClaim
<1>3. Leave(r, "exit") /\ UNCHANGED <<chunks, upload>>
  BY DEF FailCommit
<1>4. /\ row'[d].status = row[d].status \/ (row'[d].status = "failed" /\ Exists(d))
      /\ \A e \in Docs \ {d} : row'[e] = row[e]
  BY <1>1 DEF FailCommit, OrmFlush, MarkedFailed
<1> QED BY <1>1, <1>2, <1>3, <1>4, LeaveEffect

LEMMA FailCommitIndex ==
  ASSUME IndexInv, Typed', NEW r \in Runs, FailCommit(r)
  PROVE  IndexInv'
<1> DEFINE d == run[r].doc
<1>1. /\ d \in Docs /\ row[d].status # "pending"
      /\ row'[d].status = row[d].status \/ (row'[d].status = "failed" /\ Exists(d))
      /\ \A e \in Docs \ {d} : row'[e] = row[e]
      /\ run'[r].pc = "exit"
      /\ \A q \in Runs : run'[q].doc = run[q].doc
      /\ \A q \in Runs \ {r} : run'[q] = run[q]
      /\ UNCHANGED <<chunks, upload>>
  BY FailCommitRow
<1>2. \A q \in Runs : run[q].pc \in PastClaim \cup {"claiming"} => run[q].doc \in Docs
  BY DEF IndexInv, Typed, HasDoc, PastClaim
<1>3. ReadyIsIndexed' /\ IndexedHasRow' /\ UploadFirst'
  BY <1>1 DEF IndexInv, ReadyIsIndexed, IndexedHasRow, Exists, UploadFirst
<1>4. PendingUntouched'
  BY <1>1 DEF IndexInv, PendingUntouched, PastClaim
<1>5. ClaimKnows' /\ PastClaimUploaded'
  BY <1>1, <1>2 DEF IndexInv, ClaimKnows, PastClaimUploaded, PastClaim
<1>6. CommitKnows'
  <2>1. \A e \in Docs : row'[e].status # "none" => row[e].status # "none"
    BY <1>1 DEF Exists
  <2> QED BY <1>1, <1>2, <2>1 DEF IndexInv, CommitKnows, Exists, PastClaim
<1> QED BY <1>3, <1>4, <1>5, <1>6 DEF IndexInv

-----------------------------------------------------------------------------
(* The invariant and what follows from it.                                 *)

\* Every step is quiet or one of the steps treated above.
LEMMA StepCases ==
  ASSUME IndexInv, [Next]_vars
  PROVE  \/ Quiet
         \/ \E d \in Docs : UploadCommit(d) \/ DeleteCommit(d)
         \/ \E r \in Runs : Loud(r)
BY DocStepQuiet, RunStepQuiet, SystemQuiet DEF Next

LEMMA IndexInductive ==
  /\ Init => IndexInv
  /\ IndexInv /\ [Next]_vars => IndexInv'
<1>1. Init => IndexInv
  <2>1. Init => Typed
    BY TypedInductive
  <2> QED BY <2>1
          DEF Init, IndexInv, ReadyIsIndexed, IndexedHasRow, PendingUntouched,
              UploadFirst, ClaimKnows, PastClaimUploaded, CommitKnows, NoRow, IdleRun,
              PastClaim, Exists
<1>2. ASSUME IndexInv, [Next]_vars  PROVE IndexInv'
  <2>1. Typed'
    BY <1>2, TypedInductive DEF IndexInv
  <2> QED BY <1>2, <2>1, StepCases, QuietPreserves, UploadCommitIndex,
             DeleteCommitIndex, ClaimSelectIndex, ClaimCommitIndex, ReplaceReloadIndex,
             ReplaceCommitIndex, FailCommitIndex DEF Loud
<1> QED BY <1>1, <1>2

\* For any number of documents, jobs, retries and faults: a ready document has
\* chunks, chunks have a document, and a pending document is untouched.
THEOREM IndexCorrect == Spec => [](ReadyIsIndexed /\ IndexedHasRow /\ PendingUntouched)
<1>1. IndexInv => ReadyIsIndexed /\ IndexedHasRow /\ PendingUntouched
  BY DEF IndexInv
<1> QED BY <1>1, IndexInductive, PTL DEF Spec

\* Whatever re-drives the pending documents (tasks.py:59) loses no work: none of
\* them has chunks, and nobody has got past the claim of one.
THEOREM PendingLeftAlone == Spec => []PendingUntouched
<1>1. IndexInv => PendingUntouched
  BY DEF IndexInv
<1> QED BY <1>1, IndexInductive, PTL DEF Spec

-----------------------------------------------------------------------------
(* Ingestion implements DocumentLifecycle.                                 *)

Statuses == [d \in Docs |-> row[d].status]
Indexed  == {d \in Docs : chunks[d] # {}}
Removed  == {d \in Docs : upload[d] = "done" /\ ~Exists(d)}

\* A step that gives one document a status changes the mapped status like so.
LEMMA BecomeStatus ==
  ASSUME NEW d \in Docs, NEW s, row'[d].status = s,
         \A e \in Docs \ {d} : row'[e] = row[e]
  PROVE  Statuses' = [Statuses EXCEPT ![d] = s]
BY DEF Statuses

LEMMA LifecycleStep ==
  ASSUME IndexInv, [Next]_vars
  PROVE  [Lifecycle!Next]_(Lifecycle!vars)
<1> USE DEF Lifecycle!Next, Lifecycle!vars, Lifecycle!Become
<1>1. CASE Quiet
  <2>1. UNCHANGED <<Statuses, Indexed, Removed>>
    BY <1>1 DEF Quiet, Statuses, Indexed, Removed, Exists
  <2> QED BY <2>1 DEF Statuses, Indexed, Removed
<1>2. ASSUME NEW d \in Docs, UploadCommit(d)
      PROVE  Lifecycle!Submit(d)
  <2>1. /\ upload[d] = "handed" /\ upload' = [upload EXCEPT ![d] = "done"]
        /\ row'[d].status = "pending" /\ UNCHANGED chunks
        /\ \A e \in Docs \ {d} : row'[e] = row[e]
    BY <1>2 DEF UploadCommit, IndexInv, Typed, TypeOK, Pending
  <2>2. row[d].status = "none"
    BY <2>1 DEF IndexInv, UploadFirst
  <2>3. Statuses' = [Statuses EXCEPT ![d] = "pending"]
    BY <2>1, BecomeStatus
  <2>4. Statuses[d] = "none" /\ d \notin Removed /\ Removed' = Removed /\ Indexed' = Indexed
    BY <2>1, <2>2 DEF Statuses, Removed, Indexed, Exists, IndexInv, Typed, TypeOK
  <2> QED BY <2>3, <2>4 DEF Lifecycle!Submit, Statuses, Removed, Indexed
<1>3. ASSUME NEW d \in Docs, DeleteCommit(d)
      PROVE  Lifecycle!Remove(d) \/ UNCHANGED <<Statuses, Indexed, Removed>>
  <2>1. /\ row'[d].status = "none" /\ chunks'[d] = {} /\ UNCHANGED upload
        /\ \A e \in Docs \ {d} : row'[e] = row[e] /\ chunks'[e] = chunks[e]
    BY <1>3 DEF DeleteCommit, IndexInv, Typed, TypeOK, NoRow
  <2>2. Statuses' = [Statuses EXCEPT ![d] = "none"]
    BY <2>1, BecomeStatus
  <2>3. Indexed' = Indexed \ {d}
    BY <2>1 DEF Indexed
  <2>4. CASE Exists(d)
    <3>1. Statuses[d] # "none" /\ upload[d] = "done"
      BY <2>4 DEF Statuses, Exists, IndexInv, UploadFirst
    <3>2. Removed' = Removed \cup {d}
      BY <2>1, <3>1 DEF Removed, Exists
    <3> QED BY <2>2, <2>3, <3>1, <3>2 DEF Lifecycle!Remove, Statuses, Removed, Indexed
  <2>5. CASE ~Exists(d)
    <3>1. UNCHANGED <<Statuses, Indexed, Removed>>
      BY <2>1, <2>5 DEF Statuses, Indexed, Removed, Exists, IndexInv, IndexedHasRow
    <3> QED BY <3>1
  <2> QED BY <2>4, <2>5
<1>4. ASSUME NEW r \in Runs, ClaimSelect(r) \/ ReplaceReload(r)
      PROVE  UNCHANGED <<Statuses, Indexed, Removed>>
  BY <1>4 DEF ClaimSelect, ReplaceReload, Statuses, Indexed, Removed, Exists
<1>5. ASSUME NEW r \in Runs, ClaimCommit(r), NEW d \in Docs, d = run[r].doc
      PROVE  Lifecycle!Claim(d) \/ UNCHANGED <<Statuses, Indexed, Removed>>
  <2>1. /\ d \in Docs
        /\ \A e \in Docs \ {d} : row'[e] = row[e]
        /\ \/ row'[d].status = row[d].status
           \/ row'[d].status = "processing" /\ Exists(d)
        /\ UNCHANGED <<chunks, upload>>
    BY <1>5, ClaimCommitRow
  <2>2. CASE row'[d].status = row[d].status
    BY <2>1, <2>2 DEF Statuses, Indexed, Removed, Exists
  <2>3. CASE row'[d].status = "processing" /\ Exists(d) /\ row[d].status # "processing"
    <3>1. Statuses' = [Statuses EXCEPT ![d] = "processing"]
      BY <2>1, <2>3, BecomeStatus
    <3>2. Statuses[d] \in {"pending", "ready", "failed"}
      BY <2>1, <2>3 DEF Statuses, Exists, IndexInv, Typed, TypeOK, Row, Status
    <3>3. Indexed' = Indexed /\ Removed' = Removed
      BY <2>1, <2>3 DEF Indexed, Removed, Exists
    <3> QED BY <2>1, <3>1, <3>2, <3>3 DEF Lifecycle!Claim, Statuses, Indexed, Removed
  <2> QED BY <2>1, <2>2, <2>3
<1>6. ASSUME NEW r \in Runs, ReplaceCommit(r), NEW d \in Docs, d = run[r].doc
      PROVE  Lifecycle!Publish(d) \/ UNCHANGED <<Statuses, Indexed, Removed>>
  <2>1. /\ d \in Docs /\ row[d].status # "pending" /\ UNCHANGED upload
        /\ \A e \in Docs \ {d} : row'[e] = row[e] /\ chunks'[e] = chunks[e]
        /\ \/ UNCHANGED <<row, chunks>>
           \/ /\ Exists(d) /\ chunks'[d] # {}
              /\ \/ row'[d].status = "ready"
                 \/ row'[d].status = row[d].status /\ chunks[d] # {}
    BY <1>6, ReplaceCommitRow
  <2>2. CASE UNCHANGED <<row, chunks>>
    BY <2>1, <2>2 DEF Statuses, Indexed, Removed, Exists
  <2>3. CASE chunks'[d] # {} /\ row'[d].status = row[d].status /\ chunks[d] # {}
    BY <2>1, <2>3 DEF Statuses, Indexed, Removed, Exists
  <2>4. CASE Exists(d) /\ chunks'[d] # {} /\ row'[d].status = "ready"
    <3>1. Statuses' = [Statuses EXCEPT ![d] = "ready"]
      BY <2>1, <2>4, BecomeStatus
    <3>2. Statuses[d] \in {"processing", "ready", "failed"}
      BY <2>1, <2>4 DEF Statuses, Exists, IndexInv, Typed, TypeOK, Row, Status
    <3>3. Indexed' = Indexed \cup {d} /\ Removed' = Removed
      BY <2>1, <2>4 DEF Indexed, Removed, Exists
    <3> QED BY <2>1, <3>1, <3>2, <3>3 DEF Lifecycle!Publish, Statuses, Indexed, Removed
  <2> QED BY <2>1, <2>2, <2>3, <2>4
<1>7. ASSUME NEW r \in Runs, FailCommit(r), NEW d \in Docs, d = run[r].doc
      PROVE  Lifecycle!Fail(d) \/ UNCHANGED <<Statuses, Indexed, Removed>>
  <2>1. /\ d \in Docs /\ row[d].status # "pending"
        /\ \/ row'[d].status = row[d].status
           \/ row'[d].status = "failed" /\ Exists(d)
        /\ \A e \in Docs \ {d} : row'[e] = row[e]
        /\ UNCHANGED <<chunks, upload>>
    BY <1>7, FailCommitRow
  <2>2. CASE row'[d].status = row[d].status
    BY <2>1, <2>2 DEF Statuses, Indexed, Removed, Exists
  <2>3. CASE row'[d].status = "failed" /\ Exists(d) /\ row[d].status # "failed"
    <3>1. Statuses' = [Statuses EXCEPT ![d] = "failed"]
      BY <2>1, <2>3, BecomeStatus
    <3>2. Statuses[d] \in {"processing", "ready"}
      BY <2>1, <2>3 DEF Statuses, Exists, IndexInv, Typed, TypeOK, Row, Status
    <3>3. Indexed' = Indexed /\ Removed' = Removed
      BY <2>1, <2>3 DEF Indexed, Removed, Exists
    <3> QED BY <2>1, <3>1, <3>2, <3>3 DEF Lifecycle!Fail, Statuses, Indexed, Removed
  <2> QED BY <2>1, <2>2, <2>3
<1>8. \A r \in Runs : run[r].pc # "idle" => run[r].doc \in Docs
  BY DEF IndexInv, Typed, HasDoc
<1>9. ASSUME UNCHANGED <<Statuses, Indexed, Removed>>
      PROVE  UNCHANGED Lifecycle!vars
  BY <1>9 DEF Statuses, Indexed, Removed
<1>10. ASSUME NEW r \in Runs, Loud(r)
       PROVE  \/ UNCHANGED <<Statuses, Indexed, Removed>>
              \/ \E d \in Docs : Lifecycle!Claim(d) \/ Lifecycle!Publish(d) \/ Lifecycle!Fail(d)
  <2>1. PICK d \in Docs : d = run[r].doc
    BY <1>8, <1>10 DEF Loud, ClaimSelect, ClaimCommit, ReplaceReload, ReplaceCommit, FailCommit
  <2>2. CASE ClaimSelect(r) \/ ReplaceReload(r)
    BY <1>4, <2>2
  <2>3. CASE ClaimCommit(r)
    <3>1. Lifecycle!Claim(d) \/ UNCHANGED <<Statuses, Indexed, Removed>>
      BY <1>5, <2>1, <2>3
    <3> QED BY <3>1
  <2>4. CASE ReplaceCommit(r)
    <3>1. Lifecycle!Publish(d) \/ UNCHANGED <<Statuses, Indexed, Removed>>
      BY <1>6, <2>1, <2>4
    <3> QED BY <3>1
  <2>5. CASE FailCommit(r)
    <3>1. Lifecycle!Fail(d) \/ UNCHANGED <<Statuses, Indexed, Removed>>
      BY <1>7, <2>1, <2>5
    <3> QED BY <3>1
  <2> QED BY <1>10, <2>2, <2>3, <2>4, <2>5 DEF Loud
<1> QED BY <1>1, <1>2, <1>3, <1>9, <1>10, StepCases

\* Whatever the queue, the workers and the database do, a client only ever sees
\* the behaviour DocumentLifecycle promises.
THEOREM IngestionImplementsLifecycle == Spec => LifecycleSpec
<1>1. Init => Lifecycle!Init
  BY DEF Init, Lifecycle!Init, NoRow, Exists
<1> QED BY <1>1, LifecycleStep, IndexInductive, PTL DEF Spec, LifecycleSpec, Lifecycle!Spec

-----------------------------------------------------------------------------
(* One job per document.                                                   *)

\* Where a run holds the batches that its DELETE found.
Replacing == {"locking", "reload", "commit"}

SweptIsStale == sweep \subseteq stale

\* A job is handed to the queue once, by the upload.
HandedOnce ==
  \A d \in Docs \ stale : upload[d] \in {"new", "flushed", "stored"} =>
    \A r \in Runs : run[r].doc # d

OneRun ==
  \A d \in Docs \ stale : \A r, q \in Runs :
    run[r].doc = d /\ run[q].doc = d => r = q

\* The only run of a document deletes every batch there is.
SeesAll ==
  \A d \in Docs \ stale : \A r \in Runs :
    run[r].doc = d /\ run[r].pc \in Replacing => chunks[d] \subseteq run[r].seen

OneBatchAtMost == \A d \in Docs \ stale : \E b : chunks[d] \subseteq {b}

JobInv == Typed /\ SweptIsStale /\ HandedOnce /\ OneRun /\ SeesAll /\ OneBatchAtMost

\* What a step does to the runs unless it enqueues one: at most r moves, it keeps
\* its document or gives it up, and it holds what its DELETE found until the end.
Moved(r) ==
  /\ \A q \in Runs \ {r} : run'[q] = run[q]
  /\ run'[r].doc \in {run[r].doc, NoDoc}
  /\ run'[r].pc \in Replacing =>
       \/ run'[r].seen = chunks[run[r].doc]
       \/ run[r].pc \in Replacing /\ run'[r].seen = run[r].seen

LEMMA GoneMoved ==
  ASSUME TypeOK, NEW r \in Runs, run' = [run EXCEPT ![r] = IdleRun]
  PROVE  Moved(r)
BY DEF TypeOK, Moved, IdleRun, Replacing

LEMMA MovedOn ==
  ASSUME TypeOK, NEW r \in Runs, NEW label \in PC, NEW seen \in SUBSET Batch,
         NEW loaded \in Row, Move(r, label, seen, loaded),
         \/ label \notin Replacing
         \/ seen = chunks[run[r].doc]
         \/ run[r].pc \in Replacing /\ seen = run[r].seen
  PROVE  Moved(r)
<1>1. /\ run'[r].pc = label /\ run'[r].seen = seen /\ run'[r].doc = run[r].doc
      /\ \A q \in Runs \ {r} : run'[q] = run[q]
  BY MoveEffect
<1> QED BY <1>1 DEF Moved

LEMMA LeftMoved ==
  ASSUME TypeOK, NEW r \in Runs, NEW label \in PC \ Replacing,
         Goto(r, label) \/ Leave(r, label)
  PROVE  Moved(r)
BY GotoEffect, LeaveEffect DEF Moved

LEMMA RunMoved ==
  ASSUME Typed, NEW r \in Runs, RunStep(r) \/ RunFault(r)
  PROVE  Moved(r)
<1>0. /\ TypeOK /\ run \in [Runs -> Run] /\ run[r] \in Run
      /\ run[r].pc # "idle" => run[r].doc \in Docs /\ row[run[r].doc] \in Row
  BY DEF Typed, TypeOK, HasDoc
<1>a. {"queued", "claim", "claiming", "exit", "work", "replace", "fail", "failing"}
        \subseteq PC \ Replacing
  BY DEF PC, Executing, PastClaim, Replacing
<1>b. Replacing \subseteq PC
  BY DEF PC, Executing, PastClaim, Replacing
<1>1. CASE Start(r)
  BY <1>0, <1>1 DEF Start, Moved, IdleRun, Replacing
<1>2. CASE OpenBlob(r) \/ ClaimCommit(r) \/ Work(r) \/ FailCommit(r) \/ ReplaceCommit(r)
  BY <1>0, <1>a, <1>2, LeftMoved DEF OpenBlob, ClaimCommit, Work, FailCommit, ReplaceCommit
<1>3. CASE ClaimSelect(r)
  <2>1. CASE Exists(run[r].doc)
    <3>1. Move(r, "claiming", {}, row[run[r].doc]) /\ row[run[r].doc] \in Row
      BY <1>0, <1>3, <2>1 DEF ClaimSelect
    <3> QED BY <1>0, <1>a, <3>1, MovedOn
  <2>2. CASE ~Exists(run[r].doc)
    BY <1>0, <1>a, <1>3, <2>2, LeftMoved DEF ClaimSelect
  <2> QED BY <2>1, <2>2
<1>4. CASE ReplaceDelete(r)
  <2>1. Move(r, "locking", chunks[run[r].doc], NoRow) /\ chunks[run[r].doc] \in SUBSET Batch
    BY <1>0, <1>4 DEF ReplaceDelete, PriorChunks, TypeOK
  <2>2. "locking" \in PC /\ NoRow \in Row
    BY <1>b, RowShapes DEF Replacing
  <2> QED BY <1>0, <2>1, <2>2, MovedOn
<1>5. CASE ReplaceLock(r)
  <2>1. run[r].pc \in Replacing /\ Goto(r, "reload")
    BY <1>5 DEF ReplaceLock, Replacing
  <2> QED BY <1>0, <1>b, <2>1, GotoEffect DEF Moved, Replacing
<1>6. CASE ReplaceReload(r)
  <2>1. /\ run[r].pc \in Replacing /\ Move(r, "commit", run[r].seen, row[run[r].doc])
        /\ run[r].seen \in SUBSET Batch /\ row[run[r].doc] \in Row
    BY <1>0, <1>6 DEF ReplaceReload, Replacing, Run
  <2>2. "commit" \in PC
    BY <1>b DEF Replacing
  <2> QED BY <1>0, <2>1, <2>2, MovedOn
<1>7. CASE FailSelect(r)
  <2>1. CASE Exists(run[r].doc)
    <3>1. Move(r, "failing", {}, row[run[r].doc]) /\ row[run[r].doc] \in Row
      BY <1>0, <1>7, <2>1 DEF FailSelect
    <3> QED BY <1>0, <1>a, <3>1, MovedOn
  <2>2. CASE ~Exists(run[r].doc)
    BY <1>0, <1>a, <1>7, <2>2, LeftMoved DEF FailSelect
  <2> QED BY <2>1, <2>2
<1>8. CASE DbFault(r) \/ WorkerCrash(r)
  BY <1>0, <1>a, <1>8, LeftMoved DEF DbFault, WorkerCrash
<1>9. CASE Finish(r) \/ JobTimeout(r)
  BY <1>0, <1>9, GoneMoved DEF Finish, JobTimeout
<1> QED
  BY <1>1, <1>2, <1>3, <1>4, <1>5, <1>6, <1>7, <1>8, <1>9 DEF RunStep, RunFault

\* A step that moves a run and publishes nothing.
LEMMA MovedJob ==
  ASSUME JobInv, Typed', NEW r \in Runs, Moved(r),
         UNCHANGED <<chunks, upload, stale, sweep>>
  PROVE  JobInv'
<1>1. \A d \in Docs : \A q \in Runs : run'[q].doc = d => run[q].doc = d
  BY ConstantsAssumption DEF Moved
<1>2. SweptIsStale' /\ HandedOnce' /\ OneRun' /\ OneBatchAtMost'
  BY <1>1 DEF JobInv, SweptIsStale, HandedOnce, OneRun, OneBatchAtMost
<1>3. SeesAll'
  <2> SUFFICES ASSUME NEW d \in Docs \ stale, NEW q \in Runs,
                      run'[q].doc = d, run'[q].pc \in Replacing
               PROVE  chunks[d] \subseteq run'[q].seen
    BY DEF SeesAll
  <2>1. run[q].doc = d
    BY <1>1
  <2>2. CASE q # r
    BY <2>1, <2>2 DEF Moved, JobInv, SeesAll
  <2>3. CASE q = r
    BY <2>1, <2>3 DEF Moved, JobInv, SeesAll
  <2> QED BY <2>2, <2>3
<1> QED BY <1>2, <1>3 DEF JobInv

\* The second transaction of the only run leaves its own batch.
LEMMA PublishJob ==
  ASSUME JobInv, Typed', NEW r \in Runs, ReplaceCommit(r)
  PROVE  JobInv'
<1>1. Moved(r) /\ UNCHANGED <<upload, stale, sweep>>
  BY RunMoved DEF JobInv, RunStep, ReplaceCommit
<1>2. CASE UNCHANGED chunks
  BY <1>1, <1>2, MovedJob
<1>3. CASE /\ Leave(r, "exit")
           /\ chunks' = [chunks EXCEPT ![run[r].doc] =
                           Replaced(chunks[run[r].doc], run[r].seen, {MyBatch(r)})]
  <2>0. TypeOK /\ run[r].doc \in Docs /\ run[r].pc = "commit"
    BY DEF ReplaceCommit, JobInv, Typed, HasDoc
  <2>1. \A d \in Docs : \A q \in Runs : run'[q].doc = d => run[q].doc = d
    BY <1>1, ConstantsAssumption DEF Moved
  <2>2. /\ \A d \in Docs \ {run[r].doc} : chunks'[d] = chunks[d]
        /\ run[r].doc \notin stale => chunks'[run[r].doc] \subseteq {MyBatch(r)}
    BY <1>3, <2>0 DEF TypeOK, Replaced, JobInv, SeesAll, Replacing
  <2>3. SweptIsStale' /\ HandedOnce' /\ OneRun'
    BY <1>1, <2>1 DEF JobInv, SweptIsStale, HandedOnce, OneRun
  <2>4. OneBatchAtMost'
    BY <1>1, <2>2 DEF JobInv, OneBatchAtMost
  <2>5. SeesAll'
    <3> SUFFICES ASSUME NEW d \in Docs \ stale, NEW q \in Runs,
                        run'[q].doc = d, run'[q].pc \in Replacing
                 PROVE  chunks'[d] \subseteq run'[q].seen
      BY <1>1 DEF SeesAll
    <3>1. q # r
      BY <1>3, <2>0, LeaveEffect DEF Replacing, PC, Executing
    <3>2. run[q] = run'[q] /\ run[q].doc = d
      BY <1>1, <2>1, <3>1 DEF Moved
    <3>3. run[r].doc # d
      BY <3>1, <3>2 DEF JobInv, OneRun
    <3> QED BY <2>2, <3>2, <3>3 DEF JobInv, SeesAll
  <2> QED BY <2>3, <2>4, <2>5 DEF JobInv
<1> QED BY <1>2, <1>3 DEF ReplaceCommit

\* A new job for a document that has none, or that the sweep selected.
LEMMA EnqueueJob ==
  ASSUME JobInv, Typed', NEW d \in Docs, Enqueue(d),
         \/ d \in stale
         \/ upload[d] = "stored" /\ upload' = [upload EXCEPT ![d] = "handed"],
         \A e \in Docs \ {d} : upload'[e] = upload[e],
         UNCHANGED <<chunks, stale>>, sweep' \subseteq sweep
  PROVE  JobInv'
<1>1. PICK r \in Runs : Free(r) /\ run' = [run EXCEPT ![r] = NewRun(d)]
  BY DEF Enqueue
<1>2. /\ \A q \in Runs \ {r} : run'[q] = run[q]
      /\ run'[r].doc = d /\ run'[r].pc \notin Replacing
  BY <1>1 DEF NewRun, IdleRun, Replacing, JobInv, Typed, TypeOK
<1>3. SweptIsStale' /\ OneBatchAtMost'
  BY DEF JobInv, SweptIsStale, OneBatchAtMost
<1>4. SeesAll'
  BY <1>2 DEF JobInv, SeesAll
<1>5. d \notin stale => \A q \in Runs : run[q].doc # d
  BY DEF JobInv, HandedOnce
<1>6. OneRun'
  BY <1>2, <1>5 DEF JobInv, OneRun
<1>7. HandedOnce'
  <2>1. d \notin stale => upload'[d] = "handed"
    BY DEF JobInv, Typed, TypeOK
  <2> QED BY <1>2, <2>1 DEF JobInv, HandedOnce
<1> QED BY <1>3, <1>4, <1>6, <1>7 DEF JobInv

\* A step that moves no run, adds no chunks and takes no upload back.
LEMMA StillJob ==
  ASSUME JobInv, Typed', UNCHANGED run,
         \A d \in Docs : chunks'[d] \subseteq chunks[d],
         \A d \in Docs : upload'[d] \in {"new", "flushed", "stored"} =>
           upload[d] \in {"new", "flushed", "stored"},
         stale \subseteq stale', sweep' \subseteq stale'
  PROVE  JobInv'
<1>1. SweptIsStale' /\ HandedOnce' /\ OneRun'
  BY DEF JobInv, SweptIsStale, HandedOnce, OneRun
<1>2. SeesAll' /\ OneBatchAtMost'
  BY DEF JobInv, SeesAll, OneBatchAtMost
<1> QED BY <1>1, <1>2 DEF JobInv

LEMMA DocStepJob ==
  ASSUME JobInv, Typed', NEW d \in Docs, DocStep(d)
  PROVE  JobInv'
<1>0. TypeOK /\ sweep \subseteq stale
  BY DEF JobInv, Typed, SweptIsStale
<1>1. CASE UploadFlush(d) \/ UploadPut(d) \/ UploadCommit(d) \/ UploadAbort(d)
  BY <1>0, <1>1, StillJob
  DEF UploadFlush, UploadPut, UploadCommit, UploadAbort, TypeOK
<1>2. CASE UploadEnqueue(d)
  <2>1. CASE Enqueue(d)
    BY <1>0, <1>2, <2>1, EnqueueJob DEF UploadEnqueue, TypeOK
  <2>2. CASE UNCHANGED run
    BY <1>0, <1>2, <2>2, StillJob DEF UploadEnqueue, TypeOK
  <2> QED BY <1>2, <2>1, <2>2 DEF UploadEnqueue
<1>3. CASE DeleteUnlink(d) \/ DeleteAbort(d) \/ Age(d)
  BY <1>0, <1>3, StillJob DEF DeleteUnlink, DeleteAbort, Age
<1>4. CASE DeleteCommit(d)
  BY <1>0, <1>4, StillJob DEF DeleteCommit, TypeOK
<1>5. CASE DeleteDeadlock(d)
  <2>1. CASE UNCHANGED run
    BY <1>0, <1>5, <2>1, StillJob DEF DeleteDeadlock
  <2>2. ASSUME NEW r \in Runs, Leave(r, "fail")  PROVE JobInv'
    <3>1. Moved(r)
      BY <1>0, <2>2, LeftMoved DEF PC, Executing, PastClaim, Replacing
    <3> QED BY <1>5, <3>1, MovedJob DEF DeleteDeadlock
  <2> QED BY <1>5, <2>1, <2>2 DEF DeleteDeadlock
<1>6. CASE SweepEnqueue(d)
  BY <1>0, <1>6, EnqueueJob DEF SweepEnqueue
<1> QED BY <1>1, <1>2, <1>3, <1>4, <1>5, <1>6 DEF DocStep, UploadStep

LEMMA JobInductive ==
  /\ Init => JobInv
  /\ JobInv /\ [Next]_vars => JobInv'
<1>1. Init => JobInv
  <2> SUFFICES ASSUME Init PROVE JobInv
    OBVIOUS
  <2>1. Typed
    BY TypedInductive
  <2>2. SweptIsStale /\ HandedOnce /\ OneRun /\ SeesAll /\ OneBatchAtMost
    BY ConstantsAssumption
    DEF Init, SweptIsStale, HandedOnce, OneRun, SeesAll, OneBatchAtMost, IdleRun
  <2> QED BY <2>1, <2>2 DEF JobInv
<1>2. ASSUME JobInv, [Next]_vars  PROVE JobInv'
  <2>0. Typed' /\ TypeOK /\ sweep \subseteq stale
    BY <1>2, TypedInductive DEF JobInv, Typed, SweptIsStale
  <2>1. ASSUME NEW r \in Runs, RunStep(r) \/ RunFault(r)  PROVE JobInv'
    <3>1. CASE ReplaceCommit(r)
      BY <1>2, <2>0, <3>1, PublishJob
    <3>2. CASE ~ReplaceCommit(r)
      <4>1. UNCHANGED <<chunks, upload, stale, sweep>>
        BY <2>1, <3>2
        DEF RunStep, RunFault, Start, OpenBlob, ClaimSelect, ClaimCommit, Work,
            ReplaceDelete, ReplaceLock, ReplaceReload, FailSelect, FailCommit,
            Finish, DbFault, WorkerCrash, JobTimeout
      <4>2. Moved(r)
        BY <1>2, <2>1, RunMoved DEF JobInv
      <4> QED BY <1>2, <2>0, <4>1, <4>2, MovedJob
    <3> QED BY <3>1, <3>2
  <2>2. CASE SweepRead \/ SweepFails \/ UNCHANGED vars
    BY <1>2, <2>0, <2>2, StillJob DEF SweepRead, SweepFails, Stranded, vars
  <2>3. CASE ApiCrash
    <3>1. \A d \in Docs : upload'[d] \in {"new", "flushed", "stored"} => upload[d] = "new"
      BY <2>0, <2>3 DEF ApiCrash, TypeOK
    <3>2. CASE UNCHANGED run
      BY <1>2, <2>0, <2>3, <3>1, <3>2, StillJob DEF ApiCrash
    <3>3. CASE run' = [r \in Runs |-> IdleRun]
      <4>1. \A r \in Runs : run'[r].doc \notin Docs
        BY <3>3, ConstantsAssumption DEF IdleRun
      <4>2. SweptIsStale' /\ HandedOnce' /\ OneRun' /\ SeesAll' /\ OneBatchAtMost'
        BY <1>2, <2>3, <4>1
        DEF ApiCrash, JobInv, SweptIsStale, HandedOnce, OneRun, SeesAll, OneBatchAtMost
      <4> QED BY <2>0, <4>2 DEF JobInv
    <3> QED BY <2>3, <3>2, <3>3 DEF ApiCrash
  <2> QED BY <1>2, <2>0, <2>1, <2>2, <2>3, DocStepJob DEF Next
<1> QED BY <1>1, <1>2

\* However often a crash makes ARQ deliver the job again, the chunks of a document
\* that the sweep never selected are those of one execution: ingest_document
\* replaces what it finds (ingest.py:89), and nobody else is adding to it.
THEOREM ReplacedNotDuplicated == Spec => []SingleBatchUnswept
<1>1. JobInv => SingleBatchUnswept
  <2> SUFFICES ASSUME JobInv, NEW d \in Docs, d \notin stale
               PROVE  Cardinality(chunks[d]) <= 1
    BY DEF SingleBatchUnswept, Unswept
  <2>1. PICK b : chunks[d] \subseteq {b}
    BY DEF JobInv, OneBatchAtMost
  <2>2. CASE chunks[d] = {}
    BY <2>2, FS_EmptySet
  <2>3. CASE chunks[d] = {b}
    <3>1. Cardinality({b}) = 1
      BY FS_Singleton
    <3> QED BY <2>3, <3>1
  <2> QED BY <2>1, <2>2, <2>3
<1> QED BY <1>1, JobInductive, PTL DEF Spec

-----------------------------------------------------------------------------
(* The bytes of a pending document.                                        *)

\* No commit of a request failed and the API process did not die.
Served == faults["db"] = 0 /\ faults["api"] = 0

BytesFirst ==
  Served => \A d \in Docs : upload[d] \in {"stored", "handed"} => d \in blobs

BytesInv == IndexInv /\ BytesFirst /\ PendingHasBytes

\* Only the commit of an upload makes a document pending.
LEMMA NoneBecomesPending ==
  ASSUME IndexInv, [Next]_vars, NEW d \in Docs, row'[d].status = "pending",
         ~UploadCommit(d)
  PROVE  row[d].status = "pending"
<1>0. row \in [Docs -> Row]
  BY DEF IndexInv, Typed, TypeOK
<1>1. CASE Quiet
  BY <1>1 DEF Quiet
<1>2. ASSUME NEW e \in Docs, UploadCommit(e) \/ DeleteCommit(e)
      PROVE  row[d].status = "pending"
  BY <1>0, <1>2 DEF UploadCommit, DeleteCommit, NoRow
<1>3. ASSUME NEW r \in Runs, Loud(r)
      PROVE  row[d].status = "pending"
  <2>1. CASE ClaimSelect(r) \/ ReplaceReload(r)
    BY <2>1 DEF ClaimSelect, ReplaceReload
  <2>2. CASE ClaimCommit(r)
    BY <2>2, ClaimCommitRow
  <2>3. CASE ReplaceCommit(r)
    BY <2>3, ReplaceCommitRow
  <2>4. CASE FailCommit(r)
    BY <2>4, FailCommitRow
  <2> QED BY <1>3, <2>1, <2>2, <2>3, <2>4 DEF Loud
<1> QED BY <1>1, <1>2, <1>3, StepCases

\* Runs and the sweep do not touch what BytesInv speaks of.
LEMMA RunKeepsBytes ==
  ASSUME NEW r \in Runs, RunStep(r) \/ RunFault(r)
  PROVE  UNCHANGED <<blobs, upload, deletion>>
BY DEF RunStep, RunFault, Start, OpenBlob, ClaimSelect, ClaimCommit, Work,
       ReplaceDelete, ReplaceLock, ReplaceReload, ReplaceCommit, FailSelect,
       FailCommit, Finish, DbFault, WorkerCrash, JobTimeout

\* Faults do not come undone, and the two that Served excludes are counted.
LEMMA FaultsCounted ==
  ASSUME TypeOK, TypeOK', [Next]_vars, Served'
  PROVE  /\ Served
         /\ ~ApiCrash
         /\ \A d \in Docs : ~UploadAbort(d) /\ ~DeleteAbort(d)
<1>1. faults \in [FaultKinds -> Nat] /\ faults'["db"] = 0 /\ faults'["api"] = 0
  BY DEF TypeOK, Served
<1>2. ASSUME NEW kind \in FaultKinds, Spend(kind)
      PROVE  kind \notin {"db", "api"} /\ Served
  BY <1>1, <1>2 DEF Spend, Served, FaultKinds
<1>3. ~ApiCrash /\ \A d \in Docs : ~UploadAbort(d) /\ ~DeleteAbort(d)
  BY <1>2 DEF ApiCrash, UploadAbort, DeleteAbort, FaultKinds
<1>4. UNCHANGED faults => Served
  BY DEF Served
<1>5. ASSUME NEW d \in Docs, DocStep(d)  PROVE Served
  BY <1>2, <1>4, <1>5
  DEF DocStep, UploadStep, UploadFlush, UploadPut, UploadEnqueue, UploadCommit,
      UploadAbort, DeleteUnlink, DeleteCommit, DeleteDeadlock, DeleteAbort, Age,
      SweepEnqueue, FaultKinds
<1>6. ASSUME NEW r \in Runs, RunStep(r) \/ RunFault(r)  PROVE Served
  BY <1>2, <1>4, <1>6
  DEF RunStep, RunFault, Start, OpenBlob, ClaimSelect, ClaimCommit, Work,
      ReplaceDelete, ReplaceLock, ReplaceReload, ReplaceCommit, FailSelect,
      FailCommit, Finish, DbFault, WorkerCrash, JobTimeout, FaultKinds
<1>7. ApiCrash \/ SweepRead \/ SweepFails \/ UNCHANGED vars => Served
  BY <1>2, <1>4 DEF ApiCrash, SweepRead, SweepFails, vars, FaultKinds
<1> QED BY <1>3, <1>5, <1>6, <1>7 DEF Next

LEMMA DocStepBytes ==
  ASSUME BytesInv, Served, NEW d \in Docs, DocStep(d), ~UploadAbort(d), ~DeleteAbort(d)
  PROVE  /\ \A e \in Docs : upload'[e] \in {"stored", "handed"} => e \in blobs'
         /\ UploadCommit(d) => d \in blobs'
         /\ \A e \in Docs : row[e].status = "pending" /\ row'[e].status = "pending" =>
              e \in blobs' \cup deletion'
<1>0. /\ upload \in [Docs -> UploadPhase] /\ row \in [Docs -> Row]
      /\ \A e \in Docs : upload[e] \in {"stored", "handed"} => e \in blobs
      /\ \A e \in Docs : row[e].status = "pending" => e \in blobs \cup deletion
  BY DEF BytesInv, BytesFirst, PendingHasBytes, Served, IndexInv, Typed, TypeOK
<1>1. CASE UploadFlush(d) \/ UploadPut(d) \/ UploadEnqueue(d) \/ UploadCommit(d)
  BY <1>0, <1>1 DEF UploadFlush, UploadPut, UploadEnqueue, UploadCommit
<1>2. CASE DeleteUnlink(d)
  <2>1. upload[d] \notin {"stored", "handed"}
    BY <1>2 DEF DeleteUnlink, Exists, BytesInv, IndexInv, UploadFirst
  <2> QED BY <1>0, <1>2, <2>1 DEF DeleteUnlink, UploadCommit
<1>3. CASE DeleteCommit(d)
  <2>1. row'[d].status = "none"
    BY <1>0, <1>3 DEF DeleteCommit, NoRow
  <2> QED BY <1>0, <1>3, <2>1 DEF DeleteCommit, UploadCommit
<1>4. CASE DeleteDeadlock(d)
  \* A document with chunks to lock is not pending.
  <2>1. row[d].status # "pending"
    BY <1>4 DEF DeleteDeadlock, LocksChunks, BytesInv, IndexInv, PendingUntouched
  <2>2. UNCHANGED <<row, blobs, upload>> /\ deletion \ {d} \subseteq deletion'
    BY <1>4 DEF DeleteDeadlock
  <2>3. ~UploadCommit(d)
    BY <1>0, <2>2 DEF UploadCommit
  <2> QED BY <1>0, <2>1, <2>2, <2>3
<1>5. CASE Age(d) \/ SweepEnqueue(d)
  BY <1>0, <1>5 DEF Age, SweepEnqueue, UploadCommit
<1> QED BY <1>1, <1>2, <1>3, <1>4, <1>5 DEF DocStep, UploadStep

LEMMA BytesInductive ==
  /\ Init => BytesInv
  /\ BytesInv /\ [Next]_vars => BytesInv'
<1>1. Init => BytesInv
  <2>1. Init => IndexInv
    BY IndexInductive
  <2> QED BY <2>1 DEF Init, BytesInv, BytesFirst, PendingHasBytes, NoRow
<1>2. ASSUME BytesInv, [Next]_vars  PROVE BytesInv'
  <2>1. IndexInv'
    BY <1>2, IndexInductive DEF BytesInv
  <2>2. ASSUME Served'
        PROVE  \A d \in Docs :
                 /\ upload'[d] \in {"stored", "handed"} => d \in blobs'
                 /\ row'[d].status = "pending" => d \in blobs' \cup deletion'
    <3>1. Served /\ ~ApiCrash /\ \A d \in Docs : ~UploadAbort(d) /\ ~DeleteAbort(d)
      BY <1>2, <2>1, <2>2, FaultsCounted DEF BytesInv, IndexInv, Typed
    <3>2. \A d \in Docs : row'[d].status = "pending" /\ ~UploadCommit(d) =>
                            row[d].status = "pending"
      BY <1>2, NoneBecomesPending DEF BytesInv
    <3>3. CASE \E d \in Docs : DocStep(d)
      <4>1. PICK d \in Docs : DocStep(d)
        BY <3>3
      <4>2. \A e \in Docs \ {d} : UploadCommit(e) =>
              row[e].status = "pending" \/ row'[e].status # "pending" \/ e \in blobs'
        BY <1>2, <3>1 DEF UploadCommit, BytesInv, BytesFirst
      <4> QED BY <1>2, <3>1, <3>2, <4>1, <4>2, DocStepBytes
    <3>4. CASE UNCHANGED <<blobs, upload, deletion>>
      <4>1. \A d \in Docs : ~UploadCommit(d)
        BY <1>2, <3>4 DEF UploadCommit, BytesInv, IndexInv, Typed, TypeOK
      <4> QED BY <1>2, <3>1, <3>2, <3>4, <4>1
              DEF BytesInv, BytesFirst, PendingHasBytes, Served
    <3>5. SweepRead \/ SweepFails \/ UNCHANGED vars => UNCHANGED <<blobs, upload, deletion>>
      BY DEF SweepRead, SweepFails, vars
    <3> QED BY <1>2, <3>1, <3>3, <3>4, <3>5, RunKeepsBytes DEF Next
  <2> QED BY <2>1, <2>2 DEF BytesInv, BytesFirst, PendingHasBytes, Served
<1> QED BY <1>1, <1>2

\* upload_document stores the bytes before the row commits (documents.py:67), and
\* only its deletion takes them away: as long as no commit fails and the API
\* process lives, every run that a pending document gets finds them.
THEOREM BytesAwaitTheirRun == Spec => []PendingHasBytes
<1>1. BytesInv => PendingHasBytes
  BY DEF BytesInv
<1> QED BY <1>1, BytesInductive, PTL DEF Spec

-----------------------------------------------------------------------------
(* A document in processing has a run that will settle it.                 *)

\* ARQ has a try left for every job the worker's deaths hand back to it; without
\* Redis nothing hands a task back, so the API process must live.
FewCrashes == IF RedisEnabled THEN faults["worker"] < MaxTries ELSE faults["api"] = 0

Calm == Undisturbed /\ FewCrashes

\* Only the death of a worker costs a job a try.
TriesCounted ==
  \A r \in Runs :
    /\ run[r].pc = "queued" => RedisEnabled /\ run[r].tries <= faults["worker"]
    /\ run[r].pc \in Executing /\ RedisEnabled => run[r].tries <= faults["worker"] + 1

\* Run q will commit a status for d: it did not read the one it is to write.
Attends(q, d) ==
  /\ run[q].doc = d
  /\ run[q].pc \in PC \ {"idle", "exit"}
  /\ run[q].pc = "commit" => run[q].loaded.status # "ready"
  /\ run[q].pc = "failing" => run[q].loaded.status # "failed"

Attended ==
  Calm => \A d \in blobs : row[d].status = "processing" => \E q \in Runs : Attends(q, d)

AttendInv == IndexInv /\ TriesCounted /\ Attended

LEMMA FaultsGrow ==
  ASSUME TypeOK, [Next]_vars
  PROVE  UNCHANGED faults \/ \E kind \in FaultKinds : Spend(kind)
<1>1. ASSUME NEW d \in Docs, DocStep(d)
      PROVE  UNCHANGED faults \/ \E kind \in FaultKinds : Spend(kind)
  BY <1>1
  DEF DocStep, UploadStep, UploadFlush, UploadPut, UploadEnqueue, UploadCommit,
      UploadAbort, DeleteUnlink, DeleteCommit, DeleteDeadlock, DeleteAbort, Age,
      SweepEnqueue, FaultKinds
<1>2. ASSUME NEW r \in Runs, RunStep(r) \/ RunFault(r)
      PROVE  UNCHANGED faults \/ \E kind \in FaultKinds : Spend(kind)
  BY <1>2
  DEF RunStep, RunFault, Start, OpenBlob, ClaimSelect, ClaimCommit, Work,
      ReplaceDelete, ReplaceLock, ReplaceReload, ReplaceCommit, FailSelect,
      FailCommit, Finish, DbFault, WorkerCrash, JobTimeout, FaultKinds
<1>3. ApiCrash \/ SweepRead \/ SweepFails \/ UNCHANGED vars =>
        UNCHANGED faults \/ \E kind \in FaultKinds : Spend(kind)
  BY DEF ApiCrash, SweepRead, SweepFails, vars, FaultKinds
<1> QED BY <1>1, <1>2, <1>3 DEF Next

\* Faults are never forgotten.
LEMMA FaultsMonotone ==
  ASSUME TypeOK, [Next]_vars
  PROVE  \A kind \in FaultKinds : faults[kind] <= faults'[kind]
<1>1. faults \in [FaultKinds -> Nat]
  BY DEF TypeOK
<1>2. ASSUME NEW kind \in FaultKinds, Spend(kind)
      PROVE  \A k \in FaultKinds : faults[k] <= faults'[k]
  BY <1>1, <1>2 DEF Spend
<1> QED BY <1>1, <1>2, FaultsGrow

LEMMA CalmBefore ==
  ASSUME TypeOK, TypeOK', [Next]_vars, Calm'
  PROVE  /\ Calm
         /\ ApiCrash => RedisEnabled
         /\ \A r \in Runs : ~DbFault(r) /\ ~JobTimeout(r)
<1>1. /\ faults \in [FaultKinds -> Nat] /\ faults' \in [FaultKinds -> Nat]
      /\ MaxTries \in Nat
      /\ {"worker", "api", "timeout", "db"} \subseteq FaultKinds
  BY ConstantsAssumption DEF TypeOK, FaultKinds
<1>2. \A kind \in FaultKinds : faults[kind] <= faults'[kind]
  BY FaultsMonotone
<1>3. Calm
  BY <1>1, <1>2 DEF Calm, Undisturbed, FewCrashes
<1>4. \A kind \in FaultKinds : Spend(kind) => faults'[kind] # 0
  BY <1>1 DEF Spend
<1> QED BY <1>1, <1>3, <1>4
        DEF Calm, Undisturbed, FewCrashes, ApiCrash, DbFault, JobTimeout

-----------------------------------------------------------------------------

\* What a run's own step does to its label and its count of tries.
LEMMA RunTries ==
  ASSUME Typed, NEW r \in Runs, RunStep(r) \/ DbFault(r)
  PROVE  /\ \A q \in Runs \ {r} : run'[q] = run[q]
         /\ \/ run'[r].pc = "idle"
            \/ /\ run'[r].pc \in Executing
               /\ run'[r].tries = run[r].tries
               /\ run[r].pc \in Executing
            \/ /\ Start(r) /\ run'[r].pc = "open"
               /\ run'[r].tries = run[r].tries + 1
<1>0. run \in [Runs -> Run] /\ run[r] \in Run
  BY DEF Typed, TypeOK
<1>1. ASSUME NEW label \in Executing, NEW seen, NEW loaded, run[r].pc \in Executing,
             Move(r, label, seen, loaded)
      PROVE  /\ \A q \in Runs \ {r} : run'[q] = run[q]
             /\ run'[r].pc = label
             /\ run'[r].tries = run[r].tries
  <2> DEFINE new == [run[r] EXCEPT !.pc = label, !.seen = seen, !.loaded = loaded]
  <2>1. new.pc = label /\ new.tries = run[r].tries
    BY <1>0 DEF Run
  <2>2. run' = [run EXCEPT ![r] = new]
    BY <1>0, <1>1 DEF Move
  <2> HIDE DEF new
  <2>3. run'[r] = new /\ \A q \in Runs \ {r} : run'[q] = run[q]
    BY <1>0, <2>2
  <2> QED BY <2>1, <2>3
<1>2. {"claim", "claiming", "exit", "work", "replace", "locking", "reload", "commit",
       "fail", "failing"} \subseteq Executing
  BY DEF Executing, PastClaim
<1>3. CASE Start(r)
  <2>1. CASE run[r].tries = MaxTries
    <3>1. run' = [run EXCEPT ![r] = IdleRun] /\ IdleRun.pc = "idle"
      BY <1>3, <2>1 DEF Start, IdleRun
    <3> QED BY <1>0, <3>1
  <2>2. CASE run[r].tries # MaxTries
    <3> DEFINE new == [run[r] EXCEPT !.pc = "open", !.tries = run[r].tries + 1]
    <3>1. new.pc = "open" /\ new.tries = run[r].tries + 1
      BY <1>0 DEF Run
    <3>2. run' = [run EXCEPT ![r] = new]
      BY <1>0, <1>3, <2>2 DEF Start
    <3> HIDE DEF new
    <3>3. run'[r] = new /\ \A q \in Runs \ {r} : run'[q] = run[q]
      BY <1>0, <3>2
    <3> QED BY <1>3, <3>1, <3>3
  <2> QED BY <2>1, <2>2
<1>4. CASE Finish(r)
  <2>1. run' = [run EXCEPT ![r] = IdleRun] /\ IdleRun.pc = "idle"
    BY <1>4 DEF Finish, IdleRun
  <2> QED BY <1>0, <2>1
<1>5. CASE (RunStep(r) /\ ~Start(r) /\ ~Finish(r)) \/ DbFault(r)
  <2>1. /\ run[r].pc \in Executing
        /\ \E label \in Executing : \E seen, loaded : Move(r, label, seen, loaded)
    BY <1>2, <1>5
    DEF RunStep, OpenBlob, ClaimSelect, ClaimCommit, Work, ReplaceDelete, ReplaceLock,
        ReplaceReload, ReplaceCommit, FailSelect, FailCommit, DbFault, Goto, Leave,
        Executing
  <2> QED BY <1>1, <2>1
<1> QED BY <1>3, <1>4, <1>5

LEMMA TriesInductive ==
  ASSUME Typed, Typed', TriesCounted, [Next]_vars
  PROVE  TriesCounted'
<1>0. /\ TypeOK /\ run \in [Runs -> Run] /\ run' \in [Runs -> Run]
      /\ faults["worker"] \in Nat /\ faults'["worker"] \in Nat
      /\ faults["worker"] <= faults'["worker"]
      /\ \A r \in Runs : run[r].tries \in Nat
  BY FaultsMonotone DEF Typed, TypeOK, FaultKinds, Run
<1>1. ASSUME NEW r \in Runs, \A q \in Runs \ {r} : run'[q] = run[q],
             /\ run'[r].pc = "queued" => RedisEnabled /\ run'[r].tries <= faults'["worker"]
             /\ run'[r].pc \in Executing /\ RedisEnabled => run'[r].tries <= faults'["worker"] + 1
      PROVE  TriesCounted'
  BY <1>0, <1>1 DEF TriesCounted
<1>2. CASE UNCHANGED run
  BY <1>0, <1>2 DEF TriesCounted
<1>a. "queued" \notin Executing /\ "idle" \notin Executing \cup {"queued"}
      /\ "exit" \in Executing
  BY DEF Executing, PastClaim
<1>3. ASSUME NEW r \in Runs, RunStep(r) \/ DbFault(r)
      PROVE  TriesCounted'
  <2>1. CASE Start(r)
    <3>1. RedisEnabled /\ run[r].tries <= faults["worker"]
      BY <2>1 DEF Start, TriesCounted
    <3>2. /\ \A q \in Runs \ {r} : run'[q] = run[q]
          /\ run'[r].pc # "queued"
          /\ run'[r].pc \in Executing => run'[r].tries \in {run[r].tries, run[r].tries + 1}
      BY <1>a, <1>3, RunTries
    <3> QED BY <1>0, <1>1, <3>1, <3>2
  <2>2. CASE ~Start(r)
    BY <1>0, <1>1, <1>a, <1>3, <2>2, RunTries DEF TriesCounted
  <2> QED BY <2>1, <2>2
<1>4. ASSUME NEW r \in Runs, WorkerCrash(r)
      PROVE  TriesCounted'
  <2> DEFINE new == [run[r] EXCEPT !.pc = "queued", !.seen = {}, !.loaded = NoRow]
  <2>1. new.pc = "queued" /\ new.tries = run[r].tries
    BY <1>0 DEF Run
  <2>2. run' = [run EXCEPT ![r] = new]
    BY <1>0, <1>4 DEF WorkerCrash, Leave, Move
  <2>3. faults'["worker"] = faults["worker"] + 1 /\ RedisEnabled /\ run[r].pc \in Executing
    BY <1>0, <1>4 DEF WorkerCrash, Spend, Typed, TypeOK, FaultKinds
  <2> HIDE DEF new
  <2>4. /\ \A q \in Runs \ {r} : run'[q] = run[q]
        /\ run'[r].pc = "queued" /\ run'[r].tries = run[r].tries
    BY <1>0, <2>1, <2>2
  <2>5. run[r].tries <= faults["worker"] + 1
    BY <2>3 DEF TriesCounted
  <2> QED BY <1>0, <1>1, <1>a, <2>3, <2>4, <2>5
<1>5. ASSUME NEW r \in Runs, run' = [run EXCEPT ![r] = IdleRun]
      PROVE  TriesCounted'
  BY <1>0, <1>1, <1>5, <1>a DEF IdleRun
<1>6. ASSUME NEW d \in Docs, Enqueue(d)
      PROVE  TriesCounted'
  <2>1. PICK r \in Runs : run' = [run EXCEPT ![r] = NewRun(d)]
    BY <1>6 DEF Enqueue
  <2>2. /\ NewRun(d).pc = IF RedisEnabled THEN "queued" ELSE "open"
        /\ NewRun(d).tries = IF RedisEnabled THEN 0 ELSE 1
    BY DEF NewRun, IdleRun
  <2> QED BY <1>0, <1>1, <1>a, <2>1, <2>2
<1>7. ASSUME NEW d \in Docs, DocStep(d)
      PROVE  TriesCounted'
  <2>1. CASE UNCHANGED run \/ Enqueue(d)
    BY <1>2, <1>6, <2>1
  <2>2. CASE DeleteDeadlock(d)
    <3>1. ASSUME NEW r \in Runs, LocksChunks(r, d), Leave(r, "fail")
          PROVE  TriesCounted'
      <4> DEFINE new == [run[r] EXCEPT !.pc = "fail", !.seen = {}, !.loaded = NoRow]
      <4>1. new.tries = run[r].tries /\ new.pc = "fail"
        BY <1>0 DEF Run
      <4>2. run' = [run EXCEPT ![r] = new]
        BY <1>0, <3>1 DEF Leave, Move
      <4> HIDE DEF new
      <4>3. /\ \A q \in Runs \ {r} : run'[q] = run[q]
            /\ run'[r].pc = "fail" /\ run'[r].tries = run[r].tries
        BY <1>0, <4>1, <4>2
      <4>4. run[r].pc \in Executing /\ "fail" # "queued"
        BY <3>1 DEF LocksChunks, Executing, PastClaim
      <4>5. RedisEnabled => run[r].tries <= faults["worker"] + 1
        BY <4>4 DEF TriesCounted
      <4> QED BY <1>0, <1>1, <4>3, <4>5
    <3> QED BY <1>2, <2>2, <3>1 DEF DeleteDeadlock
  <2> QED
    BY <1>7, <2>1, <2>2
    DEF DocStep, UploadStep, UploadFlush, UploadPut, UploadEnqueue, UploadCommit,
        UploadAbort, DeleteUnlink, DeleteCommit, DeleteAbort, Age, SweepEnqueue
<1>8. CASE ApiCrash
  <2>1. run' = [r \in Runs |-> IdleRun] => TriesCounted'
    BY <1>0, <1>a DEF TriesCounted, IdleRun
  <2> QED BY <1>2, <1>8, <2>1 DEF ApiCrash
<1>9. CASE SweepRead \/ SweepFails \/ UNCHANGED vars
  BY <1>2, <1>9 DEF SweepRead, SweepFails, vars
<1> QED BY <1>3, <1>4, <1>5, <1>7, <1>8, <1>9 DEF Next, RunFault, JobTimeout

-----------------------------------------------------------------------------

\* A run that attends a document goes on attending it until it settles it.
LEMMA RunAttends ==
  ASSUME IndexInv, TriesCounted, NEW r \in Runs, NEW d \in blobs, Calm,
         RunStep(r) \/ WorkerCrash(r),
         row[d].status = "processing", row'[d].status = "processing", Attends(r, d)
  PROVE  Attends(r, d)'
<1>0. /\ TypeOK /\ d \in Docs /\ run[r].doc = d /\ Exists(d) /\ row[d] \in Row
      /\ run \in [Runs -> Run] /\ run[r] \in Run /\ row \in [Docs -> Row]
  BY DEF IndexInv, Typed, TypeOK, Attends, Exists
<1>a. /\ {"queued", "open", "claim", "claiming", "work", "replace", "locking", "reload",
           "commit", "fail", "failing"} \subseteq PC \ {"idle", "exit"}
      /\ "idle" \in PC /\ "exit" \in PC
  BY DEF PC, Executing, PastClaim
<1>1. ASSUME NEW label \in PC \ {"idle", "exit", "commit", "failing"},
             Goto(r, label) \/ Leave(r, label)
      PROVE  Attends(r, d)'
  BY <1>0, <1>1, GotoEffect, LeaveEffect DEF Attends
<1>2. ASSUME NEW label \in PC \ {"idle", "exit"}, NEW seen \in SUBSET Batch,
             Move(r, label, seen, row[d])
      PROVE  Attends(r, d)'
  BY <1>0, <1>2, MoveEffect DEF Attends
<1>3. CASE Start(r)
  <2>1. run[r].tries # MaxTries
    <3>1. RedisEnabled /\ run[r].tries <= faults["worker"] /\ faults["worker"] < MaxTries
      BY <1>3 DEF Start, TriesCounted, Calm, FewCrashes
    <3>2. run[r].tries \in Nat /\ faults["worker"] \in Nat /\ MaxTries \in Nat
      BY <1>0, ConstantsAssumption DEF Run, TypeOK, FaultKinds
    <3> QED BY <3>1, <3>2
  <2> DEFINE new == [run[r] EXCEPT !.pc = "open", !.tries = run[r].tries + 1]
  <2>2. new.pc = "open" /\ new.doc = run[r].doc
    BY <1>0 DEF Run
  <2>3. run' = [run EXCEPT ![r] = new]
    BY <1>0, <1>3, <2>1 DEF Start
  <2> HIDE DEF new
  <2>4. run'[r] = new
    BY <1>0, <2>3
  <2> QED BY <1>0, <1>a, <2>2, <2>4 DEF Attends
<1>4. CASE OpenBlob(r)
  BY <1>0, <1>1, <1>4, <1>a DEF OpenBlob
<1>5. CASE ClaimSelect(r)
  BY <1>0, <1>2, <1>5, <1>a DEF ClaimSelect
<1>6. CASE ClaimCommit(r)
  BY <1>0, <1>1, <1>6, <1>a DEF ClaimCommit
<1>7. CASE Work(r)
  BY <1>0, <1>1, <1>7, <1>a DEF Work
<1>8. CASE ReplaceDelete(r)
  <2>1. Move(r, "locking", PriorChunks(r), NoRow) /\ PriorChunks(r) \in SUBSET Batch
    BY <1>0, <1>8 DEF ReplaceDelete, PriorChunks, TypeOK
  <2> QED BY <1>0, <1>a, <2>1, MoveEffect, RowShapes DEF Attends
<1>9. CASE ReplaceLock(r)
  BY <1>1, <1>9, <1>a DEF ReplaceLock
<1>10. CASE ReplaceReload(r)
  BY <1>0, <1>2, <1>10, <1>a DEF ReplaceReload, Run
<1>11. CASE ReplaceCommit(r)
  <2>1. run[r].loaded.status # "ready" /\ run[r].pc = "commit"
    BY <1>11 DEF ReplaceCommit, Attends
  <2>2. row'[d].status = "ready"
    BY <1>0, <1>11, <2>1 DEF ReplaceCommit, CanInsert, OrmFlush, Published
  <2> QED BY <2>2
<1>12. CASE FailSelect(r)
  BY <1>0, <1>2, <1>12, <1>a DEF FailSelect
<1>13. CASE FailCommit(r)
  <2>1. run[r].loaded.status # "failed" /\ run[r].pc = "failing"
    BY <1>13 DEF FailCommit, Attends
  <2>2. row'[d].status = "failed"
    BY <1>0, <1>13, <2>1 DEF FailCommit, OrmFlush, MarkedFailed
  <2> QED BY <2>2
<1>14. ~Finish(r)
  BY DEF Finish, Attends
<1>15. CASE WorkerCrash(r)
  BY <1>1, <1>15, <1>a DEF WorkerCrash
<1> QED
  BY <1>3, <1>4, <1>5, <1>6, <1>7, <1>8, <1>9, <1>10, <1>11, <1>12, <1>13, <1>14, <1>15
  DEF RunStep

\* A document enters processing by the claim of a run, which then attends it.
LEMMA ClaimAttends ==
  ASSUME IndexInv, [Next]_vars, NEW d \in Docs,
         row[d].status # "processing", row'[d].status = "processing"
  PROVE  \E q \in Runs : Attends(q, d)'
<1>0. row \in [Docs -> Row]
  BY DEF IndexInv, Typed, TypeOK
<1>1. ~Quiet
  BY DEF Quiet
<1>2. ASSUME NEW e \in Docs, UploadCommit(e) \/ DeleteCommit(e)
      PROVE  FALSE
  BY <1>0, <1>2 DEF UploadCommit, DeleteCommit, NoRow, Pending
<1>3. PICK r \in Runs : Loud(r)
  BY <1>1, <1>2, StepCases
<1>4. ~ClaimSelect(r) /\ ~ReplaceReload(r)
  BY DEF ClaimSelect, ReplaceReload
<1>5. ~ReplaceCommit(r)
  BY ReplaceCommitRow
<1>6. ~FailCommit(r)
  BY FailCommitRow
<1>7. ClaimCommit(r)
  BY <1>3, <1>4, <1>5, <1>6 DEF Loud
<1>8. run'[r].pc = "work" /\ run'[r].doc = d
  BY <1>7, ClaimCommitRow
<1>9. Attends(r, d)'
  BY <1>8 DEF Attends, PC, Executing, PastClaim
<1> QED BY <1>9

LEMMA AttendedStep ==
  ASSUME AttendInv, IndexInv', [Next]_vars
  PROVE  Attended'
<1> SUFFICES ASSUME Calm', NEW d \in blobs', row'[d].status = "processing"
             PROVE  \E q \in Runs : Attends(q, d)'
  BY DEF Attended
<1>0. /\ TypeOK /\ TypeOK' /\ d \in Docs /\ row \in [Docs -> Row]
      /\ run \in [Runs -> Run]
  BY DEF AttendInv, IndexInv, Typed, TypeOK
<1>1. /\ Calm /\ (ApiCrash => RedisEnabled)
      /\ \A r \in Runs : ~DbFault(r) /\ ~JobTimeout(r)
  BY <1>0, CalmBefore
<1>2. CASE row[d].status # "processing"
  BY <1>0, <1>2, ClaimAttends DEF AttendInv
<1>3. CASE row[d].status = "processing"
  <2>1. d \in blobs
    <3>1. upload[d] = "done"
      BY <1>0, <1>3 DEF AttendInv, IndexInv, UploadFirst
    <3>2. ASSUME NEW e \in Docs, DocStep(e)  PROVE d \in blobs
      BY <3>1, <3>2
      DEF DocStep, UploadStep, UploadFlush, UploadPut, UploadEnqueue, UploadCommit,
          UploadAbort, DeleteUnlink, DeleteCommit, DeleteDeadlock, DeleteAbort, Age,
          SweepEnqueue
    <3>3. ApiCrash \/ SweepRead \/ SweepFails \/ UNCHANGED vars => UNCHANGED blobs
      BY DEF ApiCrash, SweepRead, SweepFails, vars
    <3> QED BY <3>2, <3>3, RunKeepsBytes DEF Next
  <2>2. PICK q \in Runs : Attends(q, d)
    BY <1>1, <1>3, <2>1 DEF AttendInv, Attended
  <2>3. run'[q] = run[q] => Attends(q, d)'
    BY <2>2 DEF Attends
  <2>4. ASSUME NEW r \in Runs, RunStep(r) \/ RunFault(r)
        PROVE  Attends(q, d)'
    <3>1. CASE q = r
      <4>1. RunStep(r) \/ WorkerCrash(r)
        BY <1>1, <2>4 DEF RunFault
      <4> QED BY <1>1, <1>3, <2>1, <2>2, <3>1, <4>1, RunAttends DEF AttendInv
    <3>2. CASE q # r
      <4>1. Moved(r)
        BY <2>4, RunMoved DEF AttendInv, IndexInv
      <4> QED BY <2>3, <3>2, <4>1 DEF Moved
    <3> QED BY <3>1, <3>2
  <2>5. ASSUME NEW e \in Docs, Enqueue(e)
        PROVE  run'[q] = run[q]
    BY <1>0, <2>2, <2>5 DEF Enqueue, Free, Attends
  <2>6. ASSUME NEW e \in Docs, DocStep(e)
        PROVE  Attends(q, d)'
    <3>1. CASE UNCHANGED run \/ Enqueue(e)
      BY <2>3, <2>5, <3>1
    <3>2. CASE DeleteDeadlock(e)
      <4>1. ASSUME NEW r \in Runs, Leave(r, "fail")  PROVE Attends(q, d)'
        <5>1. "fail" \in PC \ {"idle", "exit", "commit", "failing"}
          BY DEF PC, Executing, PastClaim
        <5> QED BY <1>0, <2>2, <2>3, <4>1, <5>1, LeaveEffect DEF Attends
      <4> QED BY <2>3, <3>2, <4>1 DEF DeleteDeadlock
    <3> QED
      BY <2>6, <3>1, <3>2
      DEF DocStep, UploadStep, UploadFlush, UploadPut, UploadEnqueue, UploadCommit,
          UploadAbort, DeleteUnlink, DeleteCommit, DeleteAbort, Age, SweepEnqueue
  <2>7. ApiCrash \/ SweepRead \/ SweepFails \/ UNCHANGED vars => run' = run
    BY <1>1 DEF ApiCrash, SweepRead, SweepFails, vars
  <2> QED BY <2>3, <2>4, <2>6, <2>7 DEF Next
<1> QED BY <1>2, <1>3

LEMMA AttendInductive ==
  /\ Init => AttendInv
  /\ AttendInv /\ [Next]_vars => AttendInv'
<1>1. ASSUME Init  PROVE AttendInv
  <2>1. IndexInv
    BY <1>1, IndexInductive
  <2>2. TriesCounted /\ Attended
    BY <1>1 DEF Init, TriesCounted, Attended, IdleRun, Executing, PastClaim
  <2> QED BY <2>1, <2>2 DEF AttendInv
<1>2. ASSUME AttendInv, [Next]_vars  PROVE AttendInv'
  <2>1. IndexInv'
    BY <1>2, IndexInductive DEF AttendInv
  <2>2. TriesCounted'
    BY <1>2, <2>1, TriesInductive DEF AttendInv, IndexInv
  <2> QED BY <1>2, <2>1, <2>2, AttendedStep DEF AttendInv
<1> QED BY <1>1, <1>2

\* ingest_document marks a document as processing before it works on it
\* (ingest.py:60), and stranded documents are looked for among the pending ones
\* only (tasks.py:63): as long as no job is cancelled, no statement raises and ARQ
\* has tries left, no processing document is without a run that will settle it.
THEOREM ProcessingAttended == Spec => [](FewCrashes => ProcessingIsAttended)
<1>1. AttendInv => (FewCrashes => ProcessingIsAttended)
  BY DEF AttendInv, Attended, Calm, ProcessingIsAttended, Attends
<1> QED BY <1>1, AttendInductive, PTL DEF Spec

=============================================================================
