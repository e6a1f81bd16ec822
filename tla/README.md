# SafeShield: a TLA+ model of the document assistant

SafeShield answers questions about insurance documents. A user uploads files,
a background job turns each into searchable chunks, and a chat endpoint
retrieves the best chunks for a question and streams an answer with citations.
This directory holds TLA+ modules translated from the code under `src/`, TLC
configurations that check them on small instances, and proofs checked by TLAPS.

- [The system](#the-system)
- [Hard behaviours](#hard-behaviours)
- [Plan](#plan)
- [Ingestion](#ingestion)
- [Sessions](#sessions)
- [The browser's API client](#the-browsers-api-client)
- [Retrieval](#retrieval)
- [From pages to vectors](#from-pages-to-vectors)
- [Streamed answers](#streamed-answers)
- [The documents page](#the-documents-page)
- [The evaluation gate](#the-evaluation-gate)
- [What is proved](#what-is-proved)
- [Where the code and its documents disagree](#where-the-code-and-its-documents-disagree)
- [What is not modelled](#what-is-not-modelled)

## The system

| Component | State | Operations | What makes it correct |
|---|---|---|---|
| **Document ingestion** `api/documents.py`, `rag/ingest.py`, `worker/tasks.py`, `core/storage.py`, `db.py` | `documents` and `chunks` tables, blob store, ARQ queue | upload, delete, ingestion run, failure mark, sweep of stranded documents | the index agrees with the status; chunks never outlive their document; a document is indexed once; an accepted upload settles |
| **Hybrid retrieval** `rag/retrieve.py`, `rag/synthesize.py` | none of its own; reads `chunks` and its indexes | two scoped, ranked candidate lists, reciprocal rank fusion, refusal threshold | nothing outside the scope; what matches in it is found; agreement of both retrievers wins |
| **Sessions** `api/auth.py`, `core/security.py`, `core/deps.py` | `users`, `refresh_tokens` (families), the browser's cookie | register, login, demo login, rotate, logout | one live token per family; logout ends the session; an honest browser is not taken for a replay |
| **Browser API client** `lib/api.ts`, `auth/AuthContext.tsx` | access token, shared refresh promise | request, refresh once, retry once, logout | one refresh in flight per tab; no request after logout with an old token |
| **Extraction** `rag/extract.py` | none; pages in, blocks out | read pages, detect running headers, classify lines, render tables | only furniture is dropped; an unreadable page loses only itself |
| **Chunking** `rag/chunk.py` | heading stack, accumulator | take a heading, a table, a sentence; flush, overlap, fold, hard split | nothing lost, in order, in its section, cited with its page, bounded |
| **Embeddings** `rag/embed.py` | none | embed in batches | each vector belongs to its chunk, or the call fails |
| **Answer streaming** `api/chat.py`, `lib/sse.ts`, `lib/useChatStream.ts`, `routes/Chat.tsx` | event buffer, turns, abort handle | send events, parse, show, stop, ask again | parsing independent of packet boundaries; what ended is shown to its end; one answer at a time; turns settle |
| **Documents page** `routes/Documents.tsx`, `App.tsx` | cached list, request in flight | fetch, poll, invalidate, upload, delete | uploads are listed, outcomes are shown |
| **Evaluation harness** `eval/run_eval.py` | `baseline.json` | score, summarise, save, check, smoke | a regression is reported, and only a regression |
| Rate limit, readiness and configuration, metrics, upload validation, seeding, rendering, deployment | see `PROJECT.json` | | |

Interactions. The API and the worker are separate asyncio processes over one
Postgres database at its default isolation, READ COMMITTED. The API hands a
document to the worker through Redis (ARQ); without Redis it runs the same
coroutine as a background task of its own. Upload and delete write the blob
store directly, outside the database transaction. Retrieval reads the chunks
that ingestion commits. The browser holds a short-lived access token in memory
and a rotating refresh token in a cookie that all its tabs share.

## Hard behaviours

`PROJECT.json` lists them one by one at their source lines. The main groups:

- *Several transactions for one idea.* An upload is a flush, a blob write, an
  enqueue and a commit, in this order and each able to fail. A delete unlinks
  the bytes before its commit. A run commits `processing`, works for minutes,
  then deletes and inserts chunks in a second transaction, and records a
  failure in a third.
- *Several runs of one document.* ARQ delivers again after a worker death, and
  the sweep queues a document that merely waited long. Nothing excludes two
  runs at a time.
- *Failures that only look handled.* `CancelledError` is not an `Exception`;
  missing bytes raise before the code that records failures; a queue error and
  an error inside `_mark_failed` are swallowed.
- *Rotation.* A refresh token is good once, but browsers have several tabs and
  lose responses.
- *Boundaries of sizes.* Overlap, small tails, sentences above the cap, short
  pages and repeated lines meet in the chunker and the extractor.
- *Bytes and callbacks.* The network cuts a stream anywhere, a stop or a failure
  comes between any two events, and a `finally` block resets state that may by
  then belong to a newer question.
- *Copies.* The browser's list of documents is a cache; `baseline.json` is a
  record that runs of different kinds overwrite and compare with.

## Plan

Written, in this order, the most important behaviour first:

1. `DocumentLifecycle`, `Ingestion`, `IngestionProofs`: an upload becomes
   searchable once, or says why not.
2. `Sessions`, `SessionsProofs`: the token table, the calls of a browser in
   flight, lost answers.
3. `ApiClient`, which composes `Sessions` with the pages that use it.
4. `Retrieval`, `RetrievalProofs`: a question against an index that ingestion
   and deletes change meanwhile.
5. `Extract` and `Indexing`: what an ingestion does between its transactions.
6. `ChatStream`: one answer from the generator to the screen.
7. `DocumentsPage`, over the lifecycle of 1.
8. `EvalGate`.

A component that is proved about has its theorems in `<component>Proofs`;
`SessionsProofs` has those about the pages of `ApiClient` as well. `Filters`
has the two operators with which `Extract` and `ChatStream` drop elements of a
sequence, and `DataTheorems` what several proofs need to know of numbers, sets,
recursive functions and filtered sequences.

Left: seeding as a process of its own.

The project has one run per question. Each MC module only
defines the instance of its component.

## Ingestion

`Ingestion` models the life of documents; `DocumentLifecycle` is what a client
may observe of it.

| State | Code |
|---|---|
| `row` | committed `documents.status` and whether `error` is set; status `none` means no row |
| `chunks` | committed `chunks` rows, as the set of batches; one execution of a run inserts one batch `<<run, try>>` |
| `blobs` | keys in the blob store |
| `upload`, `deletion` | how far the request handlers got, including what they flushed and did not commit |
| `run` | ARQ jobs or background tasks: program counter, document, tries used, what its open transaction has read (`seen`: the chunks its DELETE found, `loaded`: the ORM's copy of the row) |
| `stale`, `sweep` | documents older than the threshold; what a sweep selected |
| `faults` | faults so far, per kind |

Every `await` on the database, the store or the queue, and every commit, is a
step boundary. The actions follow the code in order: `UploadFlush`,
`UploadPut`, `UploadEnqueue`, `UploadCommit` (`documents.py:39-139`,
`db.py:22-27`); `DeleteUnlink`, `DeleteCommit`; `Start`, `OpenBlob`
(`tasks.py:31-41`); `ClaimSelect`, `ClaimCommit`, `Work`, `ReplaceDelete`,
`ReplaceLock`, `ReplaceReload`, `ReplaceCommit` (`ingest.py:53-123`);
`FailSelect`, `FailCommit` (`ingest.py:126-153`); `Finish`; `Age`, `SweepRead`,
`SweepEnqueue` (`tasks.py:44-94`).

Behaviour of the libraries, marked external in the map, is modelled from how
the code uses them:

- SQLAlchemy writes only columns that changed since they were loaded
  (`OrmFlush`). A run that reloads `ready` and publishes `ready` therefore
  writes nothing, and a failure committed in between stays.
- A DELETE sees the rows committed when the statement starts and waits for
  other transactions that hold locks on them (`ReplaceDelete`, `ReplaceLock`).
- The cascade of a document's delete and a run holding its chunks wait for each
  other in opposite orders; Postgres aborts either (`DeleteDeadlock`).
- An INSERT of chunks without a document violates the foreign key (`CanInsert`).
- ARQ counts a try when it picks a job up, delivers it again when its worker
  goes away, drops it after `max_tries`, after a timeout and when it raises.

Faults: a worker dies, the API process dies, a job times out, a database call
raises, Redis refuses a job. `MaxFaults` bounds each kind.

### Properties

| Property | Says | Hazard |
|---|---|---|
| `TypeOK` | domains | |
| `ReadyIsIndexed` | a ready document has chunks | late runs replacing them, lost updates |
| `PendingUntouched` | a pending document has no chunks and no run past the claim | sweep on stale selections |
| `SingleBatchUnswept` | chunks of one execution only, unless the sweep had reason to select the document | redelivery after a crash |
| `ProcessingIsAttended` | a processing document with bytes has a run that will settle it, unless a timeout or a database failure struck | crashes between transactions |
| `PendingHasBytes` | a pending document has its bytes or a delete in progress, unless a database failure or the death of the API struck | order of store and row |
| `UploadSettles` | an accepted upload becomes ready, failed or deleted, unless a timeout or a database failure struck | all of them |
| `LifecycleSpec` | the whole protocol implements `DocumentLifecycle` | all of them |

### Runs

All runs leave deadlock unchecked: once every document is used up and idle the
system really stops.

| Run | Bounds | Shows |
|---|---|---|
| `ingest_overlap` | 1 document, 2 runs, 2 tries, every fault once, the document may go stale | all properties of the table survive overlapping runs under every fault |
| `ingest_duplicates` | no fault | violates `SingleBatch` |
| `ingest_in_process_stuck` | no Redis, no fault | violates `UploadSettles` |

Why these bounds are enough: documents interact only through run ids and the
selection of a sweep, so one document with two runs already has every conflict
of two transactions; two runs is the least number that can overlap, and each
execution needs at most one fault to leave each of its windows. One worker death
with two tries is the redelivery case. The index invariants and the lifecycle
are also proved for any number of documents, runs and faults, and for the
deployment without Redis.

Four properties name the faults after which the code promises less, and keep
their promise under all others. `SingleBatchUnswept` excludes documents that
went stale: with the sweep a second run is possible and both insert, as
`ingest_duplicates` shows. A job that its timeout cancels leaves `processing`
behind, because `CancelledError` is not an `Exception`; a database failure is
swallowed by `_mark_failed` and leaves a delete half done (`Undisturbed`). A
delete that is chosen as deadlock victim after it unlinked the bytes leaves a
document that nothing can ingest; `ProcessingIsAttended` and `UploadSettles`
name that case by its missing bytes.

### Fairness

Weak fairness on what a running process does by itself: the remaining steps of
an accepted request (`UploadPut`, `UploadEnqueue`, `UploadCommit`;
`DeleteCommit` or the deadlock detector), every step of a run (asyncio resumes
a ready task, ARQ polls), the clock (`Age`), and the cron sweep. Requests and
faults are not fair: nobody has to upload, nothing has to fail.

## Sessions

`Sessions` models the handlers of `api/auth.py` that read or write
`refresh_tokens`, and the cookie jar of one browser that calls them.

| State | Code |
|---|---|
| `token` | committed rows: family, revoked or not, past `expires_at` or not; a family is named by its first token |
| `cookie` | the browser's `safeshield_refresh` cookie |
| `call` | each request in flight: operation, program counter, the cookie it carries, what its transaction has read (`family`) and flushed (`hits`, `new`), the answer on its way |
| `faults` | database errors and losses so far |

A call is sent with the cookie of that moment (`Send`) and answered later
(`Receive`), when the answer may change the cookie. In between its handler
takes one step per statement: `OpenIssue` or `OpenRefused` (register, login and
demo, `auth.py:90-133, 219-243`); `RefreshSelect`, then `RefreshRotate` or the
revocation of a replay (`auth.py:136-191`); `LogoutSelect` and the revocation
(`auth.py:194-216`); `Revoke` and `RevokeLock` are the UPDATE of a family, which
finds its rows when it starts and then waits for the transactions that wrote
them; `Commit` and `Abort` are `get_db` (`db.py:22-30`). `Lose` drops a request
or its answer, and `Expire` lets a token pass its date.

Users, passwords and user agents are abstracted: opening a session succeeds or
is refused. `is_active` does not change.

`CommitFirst` is a constant because the code does not decide it: FastAPI before
0.118 runs the exit code of a dependency, and with it the commit, before it
sends the answer, later versions after it, and `pyproject.toml` accepts both.
The replay branch commits by itself and is not affected. What is claimed with
`CommitFirst = TRUE` only is `CookieIsKnown` and `RevokeIsComplete`.

| Property | Says | Hazard |
|---|---|---|
| `TypeOK` | domains | |
| `EndedStaysEnded` | a family without a usable token and without a refresh on its way never gets one again | overlapping refreshes, late commits, replays |
| `CookieIsKnown` | the browser's cookie is a row of the table | a failed commit behind a successful answer |
| `OneLive` | at most one usable token per family | replays, rotation |
| `RevokeIsComplete` | when a logout or a replay is answered, its family is dead | a revocation rolled back by the exception after it |

| Run | Bounds | Shows |
|---|---|---|
| `sessions_sequential` | 3 tokens, 1 call, every fault once | the invariants for a browser that makes one call at a time |
| `sessions_race` | 2 calls, no fault | violates `RevokeIsComplete` |

Three tokens let a family rotate twice, or once beside a second family; two
calls are the least that overlap. `OneLive` and `RevokeIsComplete` are false
with overlapping calls, so their run makes one at a time; the module below has
the overlapping calls a page really makes, and checks `EndedStaysEnded` with
them. With `CommitFirst = FALSE` that property is proved and not checked. Deadlock is not checked: a browser may have used
up the tokens of the instance.

## The browser's API client

`ApiClient` extends `Sessions`: it replaces the browser that sends anything at
any time by pages running `lib/api.ts` and `AuthContext.tsx`, over the same
handlers and network.

| State | Code |
|---|---|
| `access` | `accessToken`, by what the server would say of it |
| `user` | `user` and `loading` of `AuthContext` |
| `flight` | `refreshInFlight`, as the call it stands for |
| `dialog` | the sign-in or sign-out that is awaited |
| `req` | requests outside `/api/auth`: sent with which token, replayed or not, or waiting for the refresh |

JavaScript runs to completion, so the arrival of an answer and the microtasks
that follow are one step: `RefreshAnswered` and `RefreshLost` settle the shared
promise and every request that awaits it (`api.ts:55-78, 105-115`),
`DialogAnswered` and `DialogLost` end a sign-in or sign-out (`api.ts:166-201`),
`Unauthorized` is a 401 that starts or joins a refresh, `Load` restores the
session (`AuthContext.tsx:27-46`) and `Me` asks for the user. A page reloads
only when nothing of it is in flight, and awaits one dialog at a time. A
streamed answer is a request like any other here.

| Property | Says | Hazard |
|---|---|---|
| `ClientTypeOK` | domains | |
| `ReuseCostsNothing` | until an answer is lost, a family has one usable token although calls overlap, and when a refresh of the page is taken for a replay its family had none anyway | several requests answered 401 at once |
| `WaitersAreServed` | a request that waits has a refresh in flight | a refresh whose answer is lost |
| `EndedStaysEnded` | as above, with two calls of a page in flight | overlapping refreshes, sign-ins and sign-outs |

| Run | Bounds | Shows |
|---|---|---|
| `client_one_tab` | 1 page, 2 requests, 2 calls, 3 tokens, one loss | the shared refresh keeps an honest page from replaying a token, and no request waits for a settled refresh |

Two requests are the least that can ask for two refreshes; two calls let a
sign-in or sign-out overlap a refresh. `ReuseCostsNothing` is a claim for one
page and ends with the first lost answer: `api.ts:47-53` says no more than
that, a lost answer makes the next refresh a replay by design, and two pages
may send the same cookie.

## Retrieval

`Retrieval` is one question: `GatherContext` checks that the caller may see the
document it names (`chat.py:38-64`), `Retrieve` runs the hybrid statement
(`retrieve.py:69-192`), and `HasUsableContext` decides whether the answer is
refused (`synthesize.py:99-105`). Between the two steps the call awaits the
embedding of the question, and documents are ingested again (`Reindex`) or
deleted (`Delete`).

| State | Code |
|---|---|
| `owner` | `documents.user_id`; no row once deleted |
| `table` | committed rows of `chunks`: document, ingestion, part |
| `request` | the caller, `document_id`, and whether the question is blank |
| `phase`, `result` | how far the call got; the rows returned with their two ranks |

The order of similarity is data: each list is any ranking of what it ranges
over, cut at its limit. The sparse list ranges over the chunks in scope that
share a word with the question (`Matching`; `words` says which texts do): a GIN
index finds all of them, and the filters apply before the ranking. The dense
list ranges over the scope if the planner sorts it. If the planner takes the
HNSW index of migration 0002, which orders as the statement does, the scan ends
after `hnsw.ef_search` entries of the whole table, 40 unless it is set, and
nothing sets it; the WHERE clause filters those, and entries of deleted rows,
which stay until the next vacuum (`index`, `Vacuum`), take places as well
(`Nearest`). So the dense list may be short or empty, and no property promises
anything of its length.

A score is kept as numerator and denominator. The chunk carries a copy of its
document's `user_id`; both are written from the same row and neither changes, so
the model has one. A re-ingestion replaces the chunks its DELETE finds; it finds
none of those that an overlapping run commits later, and then both sets stay, as
in `ingest_duplicates`.

| Property | Says | Hazard |
|---|---|---|
| `TypeOK` | domains; a missing rank counts as none | NULL in the join |
| `InScope` | only visible chunks, only of the document asked about | the document changes between check and search |
| `MatchesAreServed` | of the chunks in scope that share a word with the question, as many as the limits let | a filter behind the LIMIT |
| `BothBeatOne` | a chunk in both lists precedes one in a single list | the fusion formula at low ranks |
| `RefusesOnlyNothing` | refused exactly when nothing was found: the threshold never decides | the threshold against the lowest score |

| Run | Bounds | Shows |
|---|---|---|
| `retrieval` | 2 documents of any owners, 2 chunks each and twice that after overlapping runs, index scans of 3, lists and results of 2 | all properties of the table |

`RRF_K` and the threshold are 60 and 1/100 as shipped, and the other limits keep
their order (40, 30, 6). The scope can be larger than either limit, the chunks
of the other document can fill the index scan and outrank those of a scoped
question. The theorems below hold for all sizes.

## From pages to vectors

`Extract` has the operators of `rag/extract.py`; `Indexing` extends it with the
steps an ingestion takes between its transactions: `Extraction`, then the loop
of `chunk_blocks` with one action per kind of block (`TakeHeading`,
`TakeTable`, `TakeSentence`, `TakeLong` and its pieces `SplitLong`,
`LastFlush`), then `OpenAIEmbeddings.embed` (`EmbedBatch`, `EmbedRaises`,
`Embedded`). In `Ingestion` all of this is the one step `Work`.

A token is the sentence it comes from and its place there, so a chunk's body
says exactly which text it holds. A line of a page carries what the tests of the
code tell apart: its text with digits masked, the depth of its numbering, its
style and size, whether it is furniture or a page marker. Simplifications: a
line holds one sentence and has text, so at least one token; tokens of joined
texts add up; a heading has one token on the instance.

The documents are the constant `Inputs`, any set of sequences of pages
(`InputsAssumption`) over the texts `Shapes` and the digit runs `Digits`; TLC
takes those of `MCIndexing`, the proofs all of them. `InOrder(S)` of `Filters`
lists a finite set of numbers, as `embed` orders the answers of a batch, and
`At(seq, S)` takes a sequence at those places: the filters of the code are
written with them, and `Popped`, what `_HeadingStack` keeps, as the
prefix it keeps. `IndexingAssumption` says of the limits what the values in
`chunk.py:25-28` satisfy, and `ExtractAssumption` that a margin has lines.

| State | Code |
|---|---|
| `pages`, `items` | what pdfplumber reads; the blocks, text as sentences |
| `next`, `rest` | the loops of `chunk_blocks` |
| `stack`, `acc`, `chunks` | `_HeadingStack`, `_Accumulator`, the result |
| `sent`, `vectors` | the batches of `embed` |

| Property | Says | Hazard |
|---|---|---|
| `TypeOK` | domains; levels end at six | deep clause numbers |
| `NothingLost` | every sentence taken is in a chunk or about to be; bodies are in order and repeat nothing | section ends, folded tails, hard splits |
| `BreadcrumbOfText` | a chunk's section is the one its text begins in, against a definition of sections that has no stack | pops of equal and deeper levels |
| `PageOfText` | a chunk that adds text has the page where that text begins, unless a sentence was hard-split | overlap resets the page |
| `BodyBounded` | a body has at most `MAX_TOKENS + OVERLAP_TOKENS` | overlap, sentence and fold together |
| `VectorsMatch` | what is stored pairs each chunk with its own vector | answers out of order or short |
| `MidPageKept` | a line that never appears in a margin is not dropped as a header | the sets of margin lines of short pages |

Run `indexing`: every document of up to four out of seven pages, which have
headers and footers, an unreadable page, nested and repeated headings, tables
above and below the cap, sentences at, around and above every limit. The limits
are scaled down and keep their order. Four pages are the least for which
boilerplate is detected.

## Streamed answers

`ChatStream` is an answer from end to end. Per question, `server` is the
generator of `chat.py` with the bytes on their way, `ask` the call of the hook
with its parse buffer, text buffer and pending frame, and `turn` what the page
shows; `streaming` and `abortRef` are shared by all questions. The generator
sends citations, tokens, then `done` or `error` (`Generate`); `Read` delivers
any number of bytes and handles every record they complete; `ReadEnd` and
`ReadFails` end the stream; `Stop`, `Refused`, `Unauthorized`, `Refreshed` and
`Cut` are what else may happen at any time. A record is three symbols, its line
and two line ends, each of which may be CR NL: enough to be cut in every place
that the parser treats apart. `Lf` and `Split` are the two halves of the loop of
`parseSse`, `HandleAll` the loop of `ask` over what it yields.

JavaScript runs to its next await, so a handler is one step. An abort rejects
the pending fetch or read at once; the refresh of an access token takes no
signal, so a question stopped there ends when the refresh does (`late`).

| Property | Says | Hazard |
|---|---|---|
| `TypeOK` | domains; at most `MaxTokens` tokens | |
| `ShowsAPrefix` | the page shows a beginning of the answer, every token once, in order | packets, CR NL cut in two |
| `EndIsShown` | a response received to its end is shown to its end, with its sources and its error | a pending frame, the last record |
| `RefusalNoticeIsTrue` | the remark that nothing matched is shown for refusals only | order of sources and text |
| `OneUnlessLate` | one question at a time, and the buttons act on it, unless one was stopped during a refresh | `finally` resets shared state |
| `TurnsSettle` | no turn streams forever | every failure |

Run `chat`: two questions, answers of up to two tokens. Two tokens distinguish
order, repetition and loss; a second question is what a late `finally` needs.
Fairness is weak fairness on progress as a whole: a request is answered or
fails, the generator goes on or the client timeout of the provider ends it,
bytes arrive or the read fails. Asking, stopping and frames are not fair.

## The documents page

`DocumentsPage` is the list in the browser as a cached copy. `status` and
`owner` are the server's documents, which move as `DocumentLifecycle` allows
(`Ingest` is its `Claim`, `Publish` and `Fail`, with second runs and late ones);
`call` is the upload or delete of each; `cache` and `fetch` are the query of
TanStack Query with the options of `App.tsx` (no retry, stale after 30 s, no
refetch on focus); `view` and `user` say what is shown to whom. `FetchRead`
takes the answer at the server and `FetchDone` delivers it, so an answer can be
old when it arrives. The row of an upload may commit before or after its answer
(see `CommitFirst` above).

| Property | Says | Hazard |
|---|---|---|
| `TypeOK` | domains | |
| `UploadIsListed` | an answered upload is on the list its owner looks at, or the owner's request in flight brings it, outside the cases below | a list request in flight |
| `OutcomeIsShown` | a page left open that shows a document as being ingested ceases to, once the server does not say so any more or until it says so again | polling stops early |

`UploadIsListed` excludes the cases in which nothing may bring the upload: the
list that is shown, or the request in flight, is another user's (the cache is
shared, see `documents_stale`; a user who comes back to a page on which the next
one's request is pending does not start another); a fetch has failed; the answer
came before the row, before the first list, or while a request was in flight
behind a page without the list (`raced`).

| Run | Bounds | Shows |
|---|---|---|
| `documents_page` | 1 document, 2 users in turn, 2 failed fetches | all properties of the table |
| `documents_stale` | 1 document, 2 users | violates `ListsTheSearched` |

One document suffices for a list request to be in flight when an upload is
answered: the page is opened again after the list has gone stale. What other
documents add, polls in flight, the theorem `UploadsAreListed` covers.
Fair are the timer of the poll and requests; what people
do is not, nor is the ingestion: a document may stay in `processing` for ever
(a timeout, a database failure) or in `pending` (without Redis), and the page
then goes on showing that.

## The evaluation gate

`EvalGate` has one action per way an invocation of `run_eval.py` can go: `Main`
(score, summarise, save or check), `Usage` (refused arguments) and `Raises`.
`baseline` is the file, `run` the last invocation, and `known` remembers, per
metric, the last value that a saving run really took. Shares are integers out of
10000, rounded down, and `Below` compares them exactly. `run_eval.py:337`
compares floats: a share that falls by exactly the tolerance is flagged there when
the difference is rounded away from zero (`0.95 - 1.0 < -0.05` holds,
`0.45 - 0.5 < -0.05` does not), and never here.

| Property | Says | Hazard |
|---|---|---|
| `MissesNothing` | a check that passes is not worse than what was recorded | a save without answers overwrites answer metrics |
| `FailsWithReason` | a check that fails found something worse than was recorded | a check without answers compares zeros |

Run `eval_gate`: one answerable case and one to refuse, all outcomes of both,
any number of invocations. Every metric takes all values that one case can give
it, and a refused case changes only the refusal share.

## What is proved

`IngestionProofs`, for any sets of documents and runs, any number of tries and
any fault budget, assuming only `ConstantsAssumption`:

- `TypeCorrect`: `Spec => []TypeOK`.
- `IndexCorrect`: `Spec => [](ReadyIsIndexed /\ IndexedHasRow /\ PendingUntouched)`.
- `IngestionImplementsLifecycle`: `Spec => LifecycleSpec`.

The three invariants are not inductive. `IndexInv` adds what the code relies on
at each point of a run: an upload that has not committed has no row
(`UploadFirst`); a run between the SELECT and the commit of its claim read the
row of a finished upload, and if it did not read `pending` then the document is
not pending any more (`ClaimKnows`); a run past its claim works for a finished
upload (`PastClaimUploaded`); and a run that reloaded `ready`, which will not
write the status again, finds chunks as long as the document exists
(`CommitKnows`). The argument: `pending` is written once, by the commit of the
upload, and never returns, so a late writer that leaves the status column alone
cannot leave it at `pending`; and the only writer that removes chunks without
removing the row adds its own batch in the same commit.

The proof treats one action at a time. Most actions do not touch the tables
(lemmas `MoveEffect`, `GotoEffect`, `LeaveEffect` say what they do to `run`),
and each remaining action has one lemma for the index and one for the row it
writes. The refinement maps the committed row to `status`, the documents with
chunks to `indexed` and finished uploads without a row to `removed`; a step is
a stutter or one of `Submit`, `Claim`, `Publish`, `Fail`, `Remove`.

- `PendingLeftAlone`: `Spec => []PendingUntouched`, from the same invariant.
- `ReplacedNotDuplicated`: `Spec => []SingleBatchUnswept`. `JobInv` says that a
  document the sweep never selected has at most one run (`OneRun`), none before
  its upload hands it over (`HandedOnce`), and that this run holds every batch
  its DELETE will remove (`SeesAll`); so what it commits is one batch. `Moved`
  sums up what any step does to a run.
- `BytesAwaitTheirRun`: `Spec => []PendingHasBytes`. The upload stores the bytes
  first (`BytesFirst`), only its commit makes a document pending
  (`NoneBecomesPending`), and a DELETE that loses a deadlock was for a document
  with chunks, which by `IndexInv` is not pending.
- `ProcessingAttended`: `Spec => [](FewCrashes => ProcessingIsAttended)`. With
  Redis, fewer workers may die than ARQ has tries; without, the API process must
  live. `TriesCounted` says that the tries a run has used are no more than the
  deaths so far and one, so a run that is delivered again always has one left;
  `Attended`, that a processing document has a run that will still write its
  status (`Attends`: one about to commit `ready` or `failed` that has read
  something else before). A run stops attending only by such a commit, or because
  the row or the bytes are gone. `FewCrashes` speaks of the state and not
  of the whole behaviour, so the theorem says that the promise holds until the
  death that exhausts the tries.

`SessionsProofs`, for any sets of tokens and calls, any fault budget and either
value of `CommitFirst` unless stated:

- `SessionTypes`: `Spec => []TypeOK`.
- `EndedForGood`: `Spec => EndedStaysEnded`.
- `CookieKnown`: with `CommitFirst`, `Spec => []CookieIsKnown`.
- `OneLiveAlone`: if there is one call at a time (`Solo`), `Spec => []OneLive`.
- `RevokeAlone`: with `Solo` and `CommitFirst`, `Spec => []RevokeIsComplete`.

One inductive invariant `Inv` carries all five. It says what a handler knows of
the table at its program counter: the shape of the call (`WellFormed`); that
the rows it selected exist and belong to the family it remembers (`InTable`);
that the name of a family is one of its tokens (`FamilyKnown`); that no two
calls insert the same token and none inserts one that exists (`NewOnce`). Under
`Solo` it adds that a family has one usable token (`Single`) and that a pending
revocation has found all of them (`Thorough`). `EndedStaysEnded` then follows
from one fact about `Commit`, the only step that adds a row: a refresh that
commits was counted as on its way before.

About the pages of `ApiClient`, for any number of tabs, requests and calls:

- `ClientTypeCorrect`: `ClientSpec => []ClientTypeOK`.
- `WaitersServed`: `ClientSpec => []WaitersAreServed`.
- `TabsReviveNothing`: `ClientSpec => EndedStaysEnded`.
- `ReuseIsFree`: with one tab (`OneTab`) and `CommitFirst`,
  `ClientSpec => []ReuseCostsNothing`.

Every step of a page is a step of the server, or leaves it alone, so `Inv` is
kept, and `ClientInv` adds to it the types of the tabs and that a request waits
only while its tab refreshes. `ReuseIsFree` needs `PageInv`, which holds as long
as no answer is lost (`Kept`): the only refresh in flight belongs to the tab
(`Owned`), and the browser's cookie is, in its family, the only usable token
(`CookieKnows`), unless the refresh that replaces it is between its rotation and
its answer (`RefreshKnows`, `OpenKnows`). Families other than the cookie's may be
in any state, so sessions left behind do no harm.

`RetrievalProofs`, for any finite sets of documents and parts, any users and any
positive limits (`RetrievalAssumption`):

- `TypeCorrect`: `Spec => []TypeOK`.
- `AnswersInScope`: `Spec => []InScope`.
- `MatchesServed`: `Spec => []MatchesAreServed`. It is about the full-text list
  only: of the dense list nothing of the kind is true (see *Retrieval* below).
- `BothListsFirst`: if `RETRIEVAL_CANDIDATES < RRF_K + 2`, `Spec => []BothBeatOne`.
- `ThresholdNeverDecides`: if the threshold is at most
  `1 / (RRF_K + RETRIEVAL_CANDIDATES)`, `Spec => []RefusesOnlyNothing`: an answer
  is refused only if the search found nothing at all, whatever it found.

The invariant `RInv` says that what is in the index is of the right shape and
that a result is one of the best selections of the fusion of two lists over
the table as it is (`FromLists`): nothing changes the table after the search, so
the properties become facts about rankings. `DenseShape` and `SparseShape` say
what the two lists are (both by `CutShape`, what a ranking with a limit
returns); `FusedShape` and `FusedCount` say what a fused row is and that there
are no fewer than the full-text list has;
`TwoAboveOne` is the arithmetic of the fusion: with ranks up to `C`, the product
`ab` of the two denominators is at most `(a + b)(K + C) / 2`, which is below
`(a + b)(K + r)` as soon as `C < K + 2`. The shipped values, 30 and 60 and
0.01, satisfy both assumptions; the theorems say how far they may be changed.

`ChatStreamProofs`, for any set of questions and any length of answers:

- `OneAtATime`: `Spec => []OneUnlessLate`. The invariant (`One`) is that, unless
  a question was stopped during a refresh, the only active question is the one
  in `abortRef` and `streaming` says whether there is one. Every call ends by
  resetting both (`Ends`), which is right exactly because the call that ends is
  that one.
- `ChatTyped`: `Spec => []TypeOK`; `NothingOutOfTurn`: `Spec => []ShowsAPrefix`;
  `WholeAnswerShown`: `Spec => []EndIsShown`; `RefusalsOnly`:
  `Spec => []RefusalNoticeIsTrue`. One invariant carries all four.

None of these is inductive: which records a read completes depends on what the
parser kept of the reads before, and that on how the network cut the bytes.
`StreamInv` says it of every question (`Good`). The response is a list of lines
(`LineAt`): the sources, the tokens, the end. A call that reads has handled the
first `c` of them and kept the first `o` symbols of the next, for some `c` and
`o` (`Follows`):

- what is shown and buffered is what `c` lines make of it (`Shows`),
- the parse buffer is what the parser keeps of `o` symbols of a record (`Partial`;
  a CR is there until the NL behind it arrives),
- and the bytes under way are those that come next (`Carries`), up to the last
  line sent unless the connection broke (`Reached`).

Once everything has arrived of a response that was closed, nothing is missing:
`c` is the number of its lines and `o` is 0 (`WasSent`), so all of it is shown.
`Sound` is what remains of this when a call was stopped or has failed.

That a read leads from `c` and `o` to some `d` and `p` is the lemma `ReadsLines`,
by induction over the symbols read. It rests on the parser being a machine that
takes one symbol at a time (`Parsed`): `ParsesOn`, `ParsesCRNL` and
`ParsesBlankLine` say what one more symbol changes in what `Split(Lf(text))`
returns, from what it changes in `Lf` (`LfGrows`, `LfReplaces`) and in `Split`
(`SplitKeeps`, `SplitCuts`). `ParsesPartial` is why the code may keep the
normalised text and parse it again: nothing is known of the original text but
what was left of it. `HandlesLines` folds the events of the read, and
`SendsLine`, `LosesRest` and `ReadsSome` keep the bytes under way in step when
the generator yields, the connection is cut and bytes are taken.

`IndexingProofs`, for documents of any length and any limits that satisfy
`IndexingAssumption`:

- `TypeCorrect`: `Spec => []TypeOK`; `VectorsPaired`: `Spec => []VectorsMatch`.
  `ShapeInv` is inductive for both. It adds to the types that items have text and
  stand on a page (`Block`), that the heading stack has items already taken, and
  that vectors are either fewer than were sent for or in order (`InStep`). That
  `embed` puts the answers of a batch in order is `ResponseIsSorted`: a list whose
  indices are those of the batch, sorted, has each at its place.
- `BodiesBounded`: `Spec => []BodyBounded`. A sentence is added to an overlap or
  to less than `MIN_TOKENS`, a piece of a hard split to an overlap (`AccBounded`),
  and a tail is folded only where it fits (`FlushedBounded`).
- `NoTextLost`: `Spec => []NothingLost`. `OrderInv` says that the words of the
  document up to `next` are in the chunks, the accumulator or the rest of a hard
  split (`Coverage`), that each of these holds them in order and that a rest
  comes after what is accumulated. The delicate part is the small tail that a
  flush folds into the chunk before it: that it repeats nothing there needs that
  an accumulated text below `MIN_TOKENS` shares no word with the chunks, which
  holds because an overlap is at least `MIN_TOKENS` long and a flush at a full
  chunk happens above it (`MinTokens <= TargetTokens`, `MinTokens <= OverlapTokens`).
- `BreadcrumbsTrue`: `Spec => []BreadcrumbOfText`. `SectionInv` says that the
  stack lists the headings on the path to the next item (`OnPath`, defined over
  the items without a stack), that the accumulated text begins in that section
  and that every chunk is cited with the section of its first word.
- `PagesTrue`: `Spec => []PageOfText`. Under the property's own condition, that
  no sentence is hard-split, `PageInv` says that the accumulator is empty or has
  the page of its first word that no chunk holds yet (`BeginsOn`); the overlap
  left by a flush never stays alone, because the sentence that was too much for
  the chunk before is added in the same step.
- `MidPageLinesKept`: `Spec => []MidPageKept`. A line in no margin has a template
  that is not counted (`InnerKept`), the lines kept of a page become as many
  items (`LinesBecomeItems`), and these stand one after the other in the
  concatenation of all pages (`FlattenHolds`).

The chain starts with the operators: `InOrderLists` and `InOrderOnly` say that
`InOrder(S)` exists and is the one increasing list of `S`, `AtIsSeq` what a filter
returns (all in `DataTheorems`), and `FlattenConcatenates` that `FlattenSeq`,
which the community module defines with a recursive function, is the last of the
partial concatenations.

`EvalGateProofs`, for any golden set, any cases, and any order of saves, checks and
failed runs (`EvalAssumption`, `BaselineAssumption`):

- `NothingMissed`: `Spec => []MissesNothing`.
- `FailuresAreReal`: `Spec => []FailsWithReason`.

That the mean of a metric is a number rests on `SumIsNat`, an induction over the
cases. `GateInv` adds to both properties that the baseline holds, of every metric,
what the last save of a run that took it recorded, and 0 before there was one
(`Faithful`).

`DataTheorems` states induction and recursion about sets and functions instead of
predicates: the library's theorems take an operator as a parameter, which the
provers cannot instantiate, but a property of numbers is also a subset of `Nat`.
`LeastNumber` gets the least element of such a set from the library's theorem on
well-founded relations; `NatInduct`, `FiniteSetInduct` and `SubsetRecursion` (a
function on subsets defined by taking one element away is defined everywhere)
and `LoopExists` (so is one that steps through a sequence) follow from it. So
what a fold or a recursive function computes can be proved as long as no
`RECURSIVE` operator is involved.

`DocumentsPageProofs`, for any sets of documents and users:

- `PageTypeCorrect`: `Spec => []TypeOK`.
- `UploadsAreListed`: `Spec => []UploadIsListed`, with the exclusions that the
  property names: no upload or delete was answered before its commit, before the
  first list, or while a request was in flight behind a page without the list; no
  request for the list has failed; the list in the cache, and a request in flight
  if there is one, are this user's. Outside these it promises nothing. A request
  that is answered in time committed its row before (`RowFirst`), so a request for the list that is
  read afterwards has it (`ReadKnows`), and a list that misses it is being
  fetched, or is stale and not shown (`ListKnows`).

Only model-checked: what needs fairness (`UploadSettles`, `TurnsSettle`,
`OutcomeIsShown`), which is beyond the prover. The four properties of the next
section's numbered list are false, so TLC shows how the code violates them.

## Where the code and its documents disagree

1. `ingest_duplicates`. `rag/ingest.py:89` says re-ingestion "replaces prior
   chunks rather than duplicating them". Two runs in flight each delete what
   they see and both insert. The sweep produces the second run without any
   fault, for a document that waits longer than the threshold.
2. `ingest_in_process_stuck`. `rag/ingest.py:48` says a stuck upload never sits
   on `pending` forever. Without Redis the task can look for the row before the
   request commits it; nothing tries again.
3. `sessions_race`. `api/auth.py:200` says a logout revokes the "entire family"
   and "always succeeds". A refresh that commits after the logout's UPDATE has
   found its rows leaves a usable token.
4. `documents_stale`. `routes/Documents.tsx:58` says "Questions search
   everything listed here." The list is cached under a key that does not name
   the user, and a sign-out does not clear it: the next user of the page sees
   the previous one's documents until the list is fetched.

Further ones that the models contain and no run is spent on:

- *Ingestion.* `ops/RUNBOOK.md:485` says a document is marked `failed` after
  ARQ's three tries; a job whose worker dies at every delivery never reaches
  `_mark_failed`, and the document stays in `processing`, which the sweep does
  not select.
- *Sessions.* `tests/test_auth.py:116` says a 401 of the refresh endpoint clears
  the cookie; the handler clears it on the injected response and then raises,
  and FastAPI answers an exception with a new response (`CookieAfter`).
- *Client.* `lib/api.ts:197` says a sign-out drops the local token in any case;
  a refresh in flight puts one back when it is answered (`api.ts:64`).
  `lib/api.ts:106` says that when a refresh fails "the session is genuinely
  gone"; a refresh sent for an earlier session, refused after the user has
  signed in again, drops the page to the login screen (`api.ts:113`).
- *Chunking.* `chunk.py:11` says tables are never split; one above the cap loses
  its end (`chunk.py:173`). `src/README.md:4` promises the page of a citation; the tail
  of a hard split can become the beginning of a chunk that has page 1 whatever
  page it is on (`chunk.py:154, 199`), which `CitedPage` without the condition
  of `PageOfText` shows. A body may exceed `MAX_TOKENS`, because a sentence of
  the maximal length is added to an overlap; `BodyBounded` states the bound that
  holds. The tables of a page come before its text and so carry the section of
  the page before.
- *Retrieval.* `tests/test_retrieval.py:130` says "Scoping must narrow
  the search, not filter its output", and `retrieve.py:75` that the filters are
  not applied to the results. Of the dense list this is not so where the planner
  takes the HNSW index: Postgres reads the `hnsw.ef_search` nearest entries of
  the whole table and applies owner and document to those (`retrieve.py:80`,
  migration 0002:110; no iterative scan is set). The chunks of a small scope are
  not among them when enough others are nearer, and a scoped question that also
  shares no word with its document is then refused.
- *Threshold.* `config.py:95` says that below the threshold "the corpus
  almost certainly does not contain the answer", `synthesize.py:102` that then
  "nothing matched on either retriever"; `tests/test_retrieval.py:238` tries it with a score of a tenth of the
  threshold. No chunk that was found scores below `1 / (60 + 30)`, which is above
  0.01: with the shipped values the threshold never refuses, and since the
  nearest chunks are found however far away they are, a corpus that does not
  contain the answer is not refused by it (`RefusesOnlyNothing`).
- *Streaming.* `useChatStream.ts:18` says the hook "Drives one streamed answer at
  a time". A question stopped while its request waits for a refresh goes on until
  the refresh ends; asked again meanwhile, two calls are active, the first one's
  `finally` block (103-106) takes the Stop button from the second, and a third
  question starts beside it. This is the case that `OneUnlessLate` excludes.
  A response that ends early but cleanly, without `done`, looks complete.
- *Documents page.* An upload that is answered before its row commits, or while
  the first list is still loading, is not on the list until the page is opened
  again or something else refreshes it; a list that failed to load looks empty.
- *Evaluation.* `run_eval.py:322` says only metrics that the run measured are
  compared. A run in which every answerable question is refused judges nothing,
  and its faithfulness counts as zero. A run without answers that saves when
  there is no baseline writes zeros for the answer metrics.

## What is not modelled

Metrics and logs except the label of a retrieved chunk (nothing reads them
back), rendering and forms, the rate limiter's counting (slowapi), readiness
probes and the configuration validator (no state), upload validation (a pure
test), the cloud scripts, and corpus seeding, which calls `ingest_document` for
one document after the other: its effect on a search is `Reindex`.

Of the modelled components: how words become lines and tables (pdfplumber), the
regular expressions of headings and sentences, token counts of real text, the
prompt and the citations' text, `POST /api/chat/sync`, shared documents on the
documents page, and deleting a document whose own upload has not been answered.
Within `Ingestion`: the contents of chunks (module `Indexing` has them), the
text of errors, list and get (reads), and time beyond the staleness threshold.
