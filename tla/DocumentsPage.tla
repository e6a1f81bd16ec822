---------------------------- MODULE DocumentsPage ----------------------------
(***************************************************************************)
(* The list of documents in the browser (frontend/src/routes/              *)
(* Documents.tsx, and the selector of routes/Chat.tsx), which is a cached  *)
(* copy of GET /api/documents: when it is fetched, polled and invalidated  *)
(* while documents are uploaded, ingested and deleted and people sign in   *)
(* and out.  The server is the DocumentLifecycle that Ingestion            *)
(* implements; the cache is TanStack Query, with the options of App.tsx.   *)
(***************************************************************************)
EXTENDS Naturals

CONSTANTS
  Docs,     \* document ids; each is used by one upload
  Users,    \* the people who use this page, one after the other
  NoUser,   \* nobody is signed in
  NoData,   \* the query has never succeeded
  MaxFails  \* how many fetches may fail

ASSUME PageAssumption == NoUser \notin Users /\ MaxFails \in Nat

VARIABLES
  status,  \* the committed rows, as DocumentLifecycle has them
  owner,   \* who uploaded a document
  call,    \* the upload or delete request of a document
  user,    \* who is signed in
  view,    \* the route that is shown
  cache,   \* the query "documents": the list, is it stale, and (history) whose is it?
  fetch,   \* its request in flight
  fails,   \* failed fetches so far
  raced    \* history: an answer came before its row, or met a request that it cannot replace

vars == <<status, owner, call, user, view, cache, fetch, fails, raced>>

server == <<status, owner, call>>

-----------------------------------------------------------------------------
Active == {"pending", "processing"}
Status == {"none", "ready", "failed"} \cup Active

List == [Docs -> Status]
CallPC == {"new", "uploading", "committed", "answered", "idle", "deleting", "deleted"}

Idle == [on |-> FALSE, by |-> NoUser, answer |-> NoData]
Asked == [on |-> TRUE, by |-> user, answer |-> NoData]

\* The caller's own documents; "none" is not listed.
ListFor(u) == [d \in Docs |-> IF owner[d] = u THEN status[d] ELSE "none"]

\* refetchInterval: is anything on the list still being ingested?
\* Mutant: only documents that have been claimed count.
PollsProcessing(list) == list # NoData /\ \E d \in Docs : list[d] = "processing"
Polls(list) == list # NoData /\ \E d \in Docs : list[d] \in Active

Watched == view # "login"

Shown(d) == IF cache.data = NoData THEN "none" ELSE cache.data[d]

\* The query starts a request unless one is in flight.
Start == fetch' = IF fetch.on THEN fetch ELSE Asked

\* invalidateQueries: the list is stale, and if it is shown a new request replaces
\* the one in flight, but not the first one.
\* Mutant: a request in flight is good enough.
InvalidateShared ==
  /\ cache' = [cache EXCEPT !.stale = TRUE]
  /\ IF Watched THEN Start ELSE UNCHANGED fetch
Invalidate ==
  /\ cache' = [cache EXCEPT !.stale = TRUE]
  /\ CASE ~Watched -> UNCHANGED fetch
       [] Watched /\ cache.data = NoData -> Start
       [] OTHER -> fetch' = Asked

-----------------------------------------------------------------------------
Init ==
  /\ status = [d \in Docs |-> "none"]
  /\ owner = [d \in Docs |-> NoUser]
  /\ call = [d \in Docs |-> "new"]
  /\ user = NoUser
  /\ view = "login"
  /\ cache = [data |-> NoData, stale |-> FALSE, of |-> NoUser]
  /\ fetch = Idle
  /\ fails = 0
  /\ raced = FALSE

\* Signing out unmounts the list; nothing empties the cache.
SignOut ==
  /\ user # NoUser
  /\ user' = NoUser
  /\ view' = "login"
  /\ UNCHANGED <<server, cache, fetch, fails, raced>>

SignIn(u) ==
  /\ user = NoUser
  /\ user' = u
  /\ UNCHANGED <<server, view, cache, fetch, fails, raced>>

\* A route is mounted: the list is shown at once and fetched if it is stale.
Open(route) ==
  /\ user # NoUser
  /\ view # route
  /\ view' = route
  /\ IF cache.data = NoData \/ cache.stale THEN fetch' = (IF fetch.on THEN fetch ELSE Asked)
                                            ELSE UNCHANGED fetch
  /\ UNCHANGED <<server, user, cache, fails, raced>>

Poll ==
  /\ view = "documents"
  /\ Polls(cache.data)
  /\ ~fetch.on
  /\ Start
  /\ UNCHANGED <<server, user, view, cache, fails, raced>>

\* staleTime is over.
Age ==
  /\ cache.data # NoData /\ ~cache.stale
  /\ cache' = [cache EXCEPT !.stale = TRUE]
  /\ UNCHANGED <<server, user, view, fetch, fails, raced>>

FetchRead ==
  /\ fetch.on /\ fetch.answer = NoData
  /\ fetch' = [fetch EXCEPT !.answer = ListFor(fetch.by)]
  /\ UNCHANGED <<server, user, view, cache, fails, raced>>

FetchDone ==
  /\ fetch.on /\ fetch.answer # NoData
  /\ cache' = [data |-> fetch.answer, stale |-> FALSE, of |-> fetch.by]
  /\ fetch' = Idle
  /\ UNCHANGED <<server, user, view, fails, raced>>

\* There is no retry; what the query holds is kept.
FetchFails ==
  /\ fetch.on
  /\ fails < MaxFails
  /\ fails' = fails + 1
  /\ fetch' = Idle
  /\ UNCHANGED <<server, user, view, cache, raced>>

-----------------------------------------------------------------------------
(* Uploads and deletes.  The row may commit before or after the answer.    *)
To(d, pc) == call' = [call EXCEPT ![d] = pc]

\* The button is disabled while an upload is pending.
Upload(d) ==
  /\ view = "documents"
  /\ call[d] = "new"
  /\ \A e \in Docs : call[e] # "uploading"
  /\ To(d, "uploading")
  /\ owner' = [owner EXCEPT ![d] = user]
  /\ UNCHANGED <<status, user, view, cache, fetch, fails, raced>>

\* Whose list is invalidated does not matter to onSuccess.
Answered(d, pc) ==
  /\ To(d, pc)
  /\ Invalidate
  /\ raced' = (raced \/ cache.data = NoData \/ pc = "answered" \/ (fetch.on /\ ~Watched))
  /\ UNCHANGED <<status, owner, user, view, fails>>

UploadCommit(d) ==
  /\ call[d] \in {"uploading", "answered"}
  /\ To(d, IF call[d] = "uploading" THEN "committed" ELSE "idle")
  /\ status' = [status EXCEPT ![d] = "pending"]
  /\ UNCHANGED <<owner, user, view, cache, fetch, fails, raced>>

UploadAnswered(d) ==
  \/ call[d] = "uploading" /\ Answered(d, "answered")
  \/ call[d] = "committed" /\ Answered(d, "idle")

Delete(d) ==
  /\ view = "documents"
  /\ owner[d] = user /\ Shown(d) # "none"
  /\ call[d] = "idle"
  /\ To(d, "deleting")
  /\ UNCHANGED <<status, owner, user, view, cache, fetch, fails, raced>>

DeleteCommit(d) ==
  /\ call[d] \in {"deleting", "deleted"}
  /\ status[d] # "none"
  /\ status' = [status EXCEPT ![d] = "none"]
  /\ UNCHANGED <<owner, call, user, view, cache, fetch, fails, raced>>

DeleteAnswered(d) == call[d] = "deleting" /\ Answered(d, "deleted")

\* Mutant: a status the page does not know.
OutcomesUnknown == {"ready", "error"}
Outcomes == {"ready", "failed"}

\* The ingestion: Claim, Publish and Fail of DocumentLifecycle.  A second run claims
\* a document that has an outcome, and one that is late replaces the outcome; a
\* document may as well stay as it is for ever.
Ingest(d) ==
  /\ \/ /\ status[d] \in {"pending"} \cup Outcomes
        /\ status' = [status EXCEPT ![d] = "processing"]
     \/ /\ status[d] \in {"processing"} \cup Outcomes
        /\ \E outcome \in Outcomes : status' = [status EXCEPT ![d] = outcome]
  /\ UNCHANGED <<owner, call, user, view, cache, fetch, fails, raced>>

Responding(d) ==
  UploadCommit(d) \/ UploadAnswered(d) \/ DeleteCommit(d) \/ DeleteAnswered(d)

Fetching == FetchRead \/ FetchDone

Next ==
  \/ SignOut \/ Poll \/ Age \/ Fetching \/ FetchFails
  \/ \E u \in Users : SignIn(u)
  \/ \E route \in {"documents", "chat"} : Open(route)
  \/ \E d \in Docs : Upload(d) \/ Delete(d) \/ Responding(d) \/ Ingest(d)

Spec == Init /\ [][Next]_vars

\* Timers fire and requests end; what people do is not fair, and no document has
\* to be ingested.
FairSpec ==
  /\ Spec
  /\ WF_vars(Poll) /\ WF_vars(Fetching)
  /\ \A d \in Docs : WF_vars(Responding(d))

-----------------------------------------------------------------------------
TypeOK ==
  /\ status \in List
  /\ owner \in [Docs -> Users \cup {NoUser}]
  /\ call \in [Docs -> CallPC]
  /\ user \in Users \cup {NoUser}
  /\ view \in {"login", "documents", "chat"}
  /\ cache \in [data : List \cup {NoData}, stale : BOOLEAN, of : Users \cup {NoUser}]
  /\ fetch \in [on : BOOLEAN, by : Users \cup {NoUser}, answer : List \cup {NoData}]
  /\ fails \in 0 .. MaxFails
  /\ raced \in BOOLEAN

\* "The list is polled while anything is still being ingested" (Documents.tsx:24):
\* a document that is shown as being ingested and is not any more does not stay so
\* on a page that is left open, unless it is ingested again.
OutcomeIsShown ==
  \A d \in Docs :
    view = "documents" /\ Shown(d) \in Active /\ status[d] \notin Active
      ~> view # "documents" \/ Shown(d) \notin Active \/ status[d] \in Active

\* An upload that was answered is on the list its owner looks at, or a request of
\* the owner in flight will put it there.  Excluded are four cases in which nothing
\* may bring it: the list or the request is a former user's, a fetch has failed, the
\* answer came before its row or the first list, or it found a request in flight
\* while no list was shown (the last two are raced).
UploadIsListed ==
  \A d \in Docs :
    /\ call[d] = "idle" /\ user = owner[d] /\ Watched
    /\ cache.of = user /\ (fetch.on => fetch.by = user)
    /\ fails = 0 /\ ~raced
    => \/ Shown(d) # "none"
       \/ fetch.on /\ (fetch.answer = NoData \/ fetch.answer[d] # "none")

\* "Questions search everything listed here" (Documents.tsx:58): a question of the
\* user searches the user's documents, so no other is listed as ready.
ListsTheSearched ==
  \A d \in Docs :
    view = "documents" /\ Shown(d) = "ready" => owner[d] = user
=============================================================================
