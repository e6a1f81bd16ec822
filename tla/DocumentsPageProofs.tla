-------------------------- MODULE DocumentsPageProofs --------------------------
(* The list of documents in the browser, for any number of documents and    *)
(* people: its types, and that an answered upload is listed.                *)
EXTENDS DocumentsPage, TLAPS

-----------------------------------------------------------------------------
LEMMA AskedType ==
  ASSUME TypeOK
  PROVE  /\ Asked \in [on : BOOLEAN, by : Users \cup {NoUser}, answer : List \cup {NoData}]
         /\ Asked.on = TRUE /\ Asked.answer = NoData
BY DEF TypeOK, Asked

LEMMA IdleType ==
  /\ Idle \in [on : BOOLEAN, by : Users \cup {NoUser}, answer : List \cup {NoData}]
  /\ Idle.on = FALSE
BY DEF Idle

LEMMA ListForType ==
  ASSUME TypeOK, NEW u
  PROVE  ListFor(u) \in List
BY DEF TypeOK, ListFor, List, Status

\* An invalidated list is the same list, and a page that shows it asks for another.
LEMMA InvalidateEffect ==
  ASSUME TypeOK, Invalidate
  PROVE  /\ cache' \in [data : List \cup {NoData}, stale : BOOLEAN, of : Users \cup {NoUser}]
         /\ cache'.data = cache.data /\ cache'.of = cache.of /\ cache'.stale = TRUE
         /\ fetch' = fetch \/ fetch' = Asked
         /\ Watched /\ cache.data # NoData => fetch' = Asked
         /\ ~Watched => fetch' = fetch
<1>1. cache \in [data : List \cup {NoData}, stale : BOOLEAN, of : Users \cup {NoUser}]
  BY DEF TypeOK
<1>2. /\ cache' \in [data : List \cup {NoData}, stale : BOOLEAN, of : Users \cup {NoUser}]
      /\ cache'.data = cache.data /\ cache'.of = cache.of /\ cache'.stale = TRUE
  BY <1>1 DEF Invalidate
<1>3. CASE ~Watched
  BY <1>2, <1>3 DEF Invalidate
<1>4. CASE Watched /\ cache.data = NoData
  BY <1>2, <1>4 DEF Invalidate, Start
<1>5. CASE Watched /\ cache.data # NoData
  BY <1>2, <1>5 DEF Invalidate
<1> QED BY <1>3, <1>4, <1>5

LEMMA PageTypes == Init => TypeOK
<1> SUFFICES ASSUME Init PROVE TypeOK
  OBVIOUS
<1>1. status \in List /\ owner \in [Docs -> Users \cup {NoUser}] /\ call \in [Docs -> CallPC]
  BY DEF Init, List, Status, CallPC
<1>2. cache \in [data : List \cup {NoData}, stale : BOOLEAN, of : Users \cup {NoUser}]
  BY DEF Init
<1>3. fails \in 0 .. MaxFails
  BY PageAssumption DEF Init, PageAssumption
<1> QED BY <1>1, <1>2, <1>3, IdleType DEF Init, TypeOK

LEMMA AnsweredTypes ==
  ASSUME TypeOK, NEW d \in Docs, NEW pc \in CallPC, Answered(d, pc)
  PROVE  TypeOK'
<1>1. /\ cache' \in [data : List \cup {NoData}, stale : BOOLEAN, of : Users \cup {NoUser}]
      /\ fetch' = fetch \/ fetch' = Asked
  BY InvalidateEffect DEF Answered
<1>2. call' \in [Docs -> CallPC] /\ raced' \in BOOLEAN
  BY DEF Answered, To, TypeOK
<1> QED BY <1>1, <1>2, AskedType DEF Answered, TypeOK

LEMMA NextTypes == TypeOK /\ [Next]_vars => TypeOK'
<1> SUFFICES ASSUME TypeOK, [Next]_vars PROVE TypeOK'
  OBVIOUS
<1>1. CASE SignOut \/ UNCHANGED vars
  BY <1>1 DEF SignOut, vars, server, TypeOK
<1>2. CASE Poll \/ \E route \in {"documents", "chat"} : Open(route)
  BY <1>2, AskedType DEF Poll, Open, Start, server, TypeOK
<1>3. CASE Age
  BY <1>3 DEF Age, server, TypeOK
<1>4. CASE Fetching
  <2>1. CASE FetchRead
    <3>1. ListFor(fetch.by) \in List
      BY ListForType
    <3> QED BY <2>1, <3>1 DEF FetchRead, server, TypeOK
  <2>2. CASE FetchDone
    BY <2>2, IdleType DEF FetchDone, server, TypeOK
  <2> QED BY <1>4, <2>1, <2>2 DEF Fetching
<1>5. CASE FetchFails
  BY <1>5, IdleType, PageAssumption DEF FetchFails, server, TypeOK, PageAssumption
<1>6. CASE \E u \in Users : SignIn(u)
  BY <1>6 DEF SignIn, server, TypeOK
<1>7. ASSUME NEW d \in Docs, Upload(d) \/ Delete(d) \/ UploadCommit(d) \/ DeleteCommit(d)
             \/ Ingest(d)
      PROVE  TypeOK'
  <2>1. call' \in [Docs -> CallPC]
    BY <1>7 DEF Upload, Delete, UploadCommit, DeleteCommit, Ingest, To, TypeOK, CallPC
  <2>2. status' \in List
    BY <1>7 DEF Upload, Delete, UploadCommit, DeleteCommit, Ingest, TypeOK, List, Status,
                Active, Outcomes
  <2>3. owner' \in [Docs -> Users \cup {NoUser}]
    BY <1>7 DEF Upload, Delete, UploadCommit, DeleteCommit, Ingest, TypeOK
  <2> QED BY <1>7, <2>1, <2>2, <2>3
          DEF Upload, Delete, UploadCommit, DeleteCommit, Ingest, TypeOK
<1>8. ASSUME NEW d \in Docs, UploadAnswered(d) \/ DeleteAnswered(d)  PROVE TypeOK'
  BY <1>8, AnsweredTypes DEF UploadAnswered, DeleteAnswered, CallPC
<1> QED BY <1>1, <1>2, <1>3, <1>4, <1>5, <1>6, <1>7, <1>8 DEF Next, Responding

\* Every variable of the page stays in its domain.
THEOREM PageTypeCorrect == Spec => []TypeOK
<1>1. Init => TypeOK
  BY PageTypes
<1> QED BY <1>1, NextTypes, PTL DEF Spec

-----------------------------------------------------------------------------
(* An answered upload is listed.                                           *)

\* The request of a document that was answered in time committed its row before.
RowFirst ==
  \A d \in Docs :
    /\ call[d] \in {"committed", "idle"} => status[d] # "none"
    /\ call[d] = "answered" => raced

ReadKnows ==
  \A d \in Docs :
    ~raced /\ call[d] = "idle" /\ fetch.on /\ fetch.answer # NoData /\ fetch.by = owner[d]
      => fetch.answer[d] # "none"

\* A list that misses an upload is being replaced, or will be when it is mounted.
ListKnows ==
  \A d \in Docs :
    ~raced /\ fails = 0 /\ call[d] = "idle" /\ cache.data # NoData /\ cache.of = owner[d]
      => \/ cache.data[d] # "none"
         \/ fetch.on
         \/ cache.stale /\ ~Watched

SomebodyWatches ==
  /\ Watched => user # NoUser
  /\ cache.data = NoData => cache.of = NoUser

PageInv == TypeOK /\ RowFirst /\ ReadKnows /\ ListKnows /\ SomebodyWatches

LEMMA AnsweredInv ==
  ASSUME PageInv, NEW d \in Docs, NEW pc, Answered(d, pc),
         \/ call[d] = "uploading" /\ pc = "answered"
         \/ call[d] = "committed" /\ pc = "idle"
         \/ call[d] = "deleting" /\ pc = "deleted"
  PROVE  RowFirst' /\ ReadKnows' /\ ListKnows' /\ SomebodyWatches'
<1>0. /\ TypeOK /\ call' = [call EXCEPT ![d] = pc]
      /\ call \in [Docs -> CallPC] /\ raced \in BOOLEAN
      /\ raced' = (raced \/ cache.data = NoData \/ pc = "answered" \/ (fetch.on /\ ~Watched))
      /\ UNCHANGED <<status, owner, user, view, fails>>
  BY DEF PageInv, TypeOK, Answered, To
<1>1. /\ cache'.data = cache.data /\ cache'.of = cache.of /\ cache'.stale = TRUE
      /\ fetch' = fetch \/ fetch' = Asked
      /\ Watched /\ cache.data # NoData => fetch' = Asked
      /\ ~Watched => fetch' = fetch
      /\ Asked.on = TRUE /\ Asked.answer = NoData
  BY <1>0, InvalidateEffect, AskedType DEF Answered
<1>2. RowFirst'
  BY <1>0 DEF PageInv, RowFirst
<1>3. SomebodyWatches'
  BY <1>0, <1>1 DEF PageInv, SomebodyWatches, Watched
<1>4. ~raced' => ~raced /\ cache.data # NoData /\ (Watched \/ ~fetch.on)
  BY <1>0
<1>5. ReadKnows'
  BY <1>0, <1>1, <1>4 DEF PageInv, ReadKnows
<1>6. ListKnows'
  BY <1>0, <1>1, <1>4 DEF PageInv, ListKnows, Watched
<1> QED BY <1>2, <1>3, <1>5, <1>6

LEMMA FetchInv ==
  ASSUME PageInv, Fetching \/ FetchFails
  PROVE  RowFirst' /\ ReadKnows' /\ ListKnows' /\ SomebodyWatches'
<1>0. /\ fetch \in [on : BOOLEAN, by : Users \cup {NoUser}, answer : List \cup {NoData}]
      /\ fails \in Nat
  BY PageAssumption DEF PageInv, TypeOK, PageAssumption
<1>1. CASE FetchRead
  <2>1. /\ fetch.on /\ fetch'.on /\ fetch'.answer = ListFor(fetch.by) /\ fetch'.by = fetch.by
        /\ UNCHANGED <<status, owner, call, user, view, cache, fails, raced>>
    BY <1>0, <1>1 DEF FetchRead, server
  <2>2. \A d \in Docs : fetch.by = owner[d] => ListFor(fetch.by)[d] = status[d]
    BY DEF ListFor
  <2> QED BY <2>1, <2>2
          DEF PageInv, RowFirst, ReadKnows, ListKnows, SomebodyWatches, Watched
<1>2. CASE FetchDone
  <2>1. /\ cache'.data = fetch.answer /\ cache'.of = fetch.by
        /\ fetch.on /\ fetch.answer # NoData /\ fetch' = Idle
        /\ UNCHANGED <<status, owner, call, user, view, fails, raced>>
    BY <1>2 DEF FetchDone, server
  <2> QED BY <2>1, IdleType
          DEF PageInv, RowFirst, ReadKnows, ListKnows, SomebodyWatches, Watched
<1>3. CASE FetchFails
  <2>1. fails' # 0 /\ fetch' = Idle /\ UNCHANGED <<status, owner, call, user, view, cache, raced>>
    BY <1>0, <1>3 DEF FetchFails, server
  <2> QED BY <2>1, IdleType
          DEF PageInv, RowFirst, ReadKnows, ListKnows, SomebodyWatches, Watched
<1> QED BY <1>1, <1>2, <1>3 DEF Fetching

LEMMA PeopleInv ==
  ASSUME PageInv, SignOut \/ Poll \/ Age \/ (\E u \in Users : SignIn(u))
                    \/ (\E route \in {"documents", "chat"} : Open(route)) \/ UNCHANGED vars
  PROVE  RowFirst' /\ ReadKnows' /\ ListKnows' /\ SomebodyWatches'
<1>0. /\ TypeOK /\ Asked.on = TRUE /\ Asked.answer = NoData
      /\ cache \in [data : List \cup {NoData}, stale : BOOLEAN, of : Users \cup {NoUser}]
  BY AskedType DEF PageInv, TypeOK
<1>1. CASE SignOut \/ (\E u \in Users : SignIn(u)) \/ UNCHANGED vars
  BY <1>1, PageAssumption
  DEF SignOut, SignIn, vars, server, PageAssumption,
      PageInv, RowFirst, ReadKnows, ListKnows, SomebodyWatches, Watched
<1>2. CASE Poll
  BY <1>0, <1>2
  DEF Poll, Start, server, PageInv, RowFirst, ReadKnows, ListKnows, SomebodyWatches, Watched
<1>3. CASE Age
  <2>1. /\ cache'.data = cache.data /\ cache'.of = cache.of /\ ~cache.stale
        /\ UNCHANGED <<status, owner, call, user, view, fetch, fails, raced>>
    BY <1>0, <1>3 DEF Age, server
  <2> QED BY <2>1 DEF PageInv, RowFirst, ReadKnows, ListKnows, SomebodyWatches, Watched
<1>4. ASSUME NEW route \in {"documents", "chat"}, Open(route)
      PROVE  RowFirst' /\ ReadKnows' /\ ListKnows' /\ SomebodyWatches'
  <2>1. /\ user # NoUser
        /\ fetch' = fetch \/ fetch' = Asked
        /\ cache.stale => fetch'.on
        /\ UNCHANGED <<status, owner, call, user, cache, fails, raced>>
    BY <1>0, <1>4 DEF Open, server
  <2> QED BY <1>0, <2>1
          DEF PageInv, RowFirst, ReadKnows, ListKnows, SomebodyWatches
<1> QED BY <1>1, <1>2, <1>3, <1>4

LEMMA RequestInv ==
  ASSUME PageInv, NEW d \in Docs,
         Upload(d) \/ Delete(d) \/ UploadCommit(d) \/ DeleteCommit(d) \/ Ingest(d)
  PROVE  RowFirst' /\ ReadKnows' /\ ListKnows' /\ SomebodyWatches'
<1>0. status \in [Docs -> Status] /\ call \in [Docs -> CallPC]
      /\ owner \in [Docs -> Users \cup {NoUser}]
  BY DEF PageInv, TypeOK, List
<1>1. /\ UNCHANGED <<user, view, cache, fetch, fails, raced>>
      /\ \A e \in Docs : call'[e] = "idle" => call[e] = "idle" \/ raced
      /\ \A e \in Docs : call'[e] = "idle" => owner'[e] = owner[e]
  BY <1>0 DEF Upload, Delete, UploadCommit, DeleteCommit, Ingest, To,
              PageInv, RowFirst
<1>2. RowFirst'
  BY <1>0, <1>1 DEF Upload, Delete, UploadCommit, DeleteCommit, Ingest, To, Outcomes,
                    PageInv, RowFirst
<1>3. ReadKnows' /\ ListKnows' /\ SomebodyWatches'
  BY <1>1 DEF PageInv, ReadKnows, ListKnows, SomebodyWatches, Watched
<1> QED BY <1>2, <1>3

LEMMA PageInductive ==
  /\ Init => PageInv
  /\ PageInv /\ [Next]_vars => PageInv'
<1>1. Init => PageInv
  <2> SUFFICES ASSUME Init PROVE PageInv
    OBVIOUS
  <2>1. TypeOK
    BY PageTypes
  <2>2. RowFirst /\ ReadKnows /\ ListKnows /\ SomebodyWatches
    BY DEF Init, RowFirst, ReadKnows, ListKnows, SomebodyWatches, Watched, Idle
  <2> QED BY <2>1, <2>2 DEF PageInv
<1>2. ASSUME PageInv, [Next]_vars  PROVE PageInv'
  <2>1. TypeOK'
    BY <1>2, NextTypes DEF PageInv
  <2>2. ASSUME NEW d \in Docs, UploadAnswered(d) \/ DeleteAnswered(d)
        PROVE  RowFirst' /\ ReadKnows' /\ ListKnows' /\ SomebodyWatches'
    BY <1>2, <2>2, AnsweredInv DEF UploadAnswered, DeleteAnswered
  <2>3. RowFirst' /\ ReadKnows' /\ ListKnows' /\ SomebodyWatches'
    BY <1>2, <2>2, FetchInv, PeopleInv, RequestInv DEF Next, Responding
  <2> QED BY <2>1, <2>3 DEF PageInv
<1> QED BY <1>1, <1>2

\* For any number of documents and people: while the list and the request in
\* flight, if there is one, are its owner's, no fetch has failed and no answer came
\* too early, an answered upload is on the list or in what the request brings,
\* because onSuccess invalidates the list (Documents.tsx:35) after the row committed.
THEOREM UploadsAreListed == Spec => []UploadIsListed
<1>1. PageInv => UploadIsListed
  <2> SUFFICES ASSUME PageInv, NEW d \in Docs, call[d] = "idle", user = owner[d],
                      Watched, cache.of = user, fetch.on => fetch.by = user,
                      fails = 0, ~raced
               PROVE  \/ Shown(d) # "none"
                      \/ fetch.on /\ (fetch.answer = NoData \/ fetch.answer[d] # "none")
    BY DEF UploadIsListed
  <2>1. cache.data # NoData
    BY DEF PageInv, SomebodyWatches
  <2>2. cache.data[d] # "none" \/ fetch.on
    BY <2>1 DEF PageInv, ListKnows
  <2>3. fetch.on /\ fetch.answer # NoData => fetch.answer[d] # "none"
    BY DEF PageInv, ReadKnows
  <2> QED BY <2>1, <2>2, <2>3 DEF Shown
<1> QED BY <1>1, PageInductive, PTL DEF Spec
=============================================================================
