------------------------------ MODULE Retrieval ------------------------------
(***************************************************************************)
(* One question against the index: _gather_context of backend/app/api/     *)
(* chat.py, retrieve and its hybrid SQL statement in backend/app/rag/      *)
(* retrieve.py, and the test has_usable_context of rag/synthesize.py.      *)
(*                                                                         *)
(* Similarity is data: both lists are any ranking of what they range over. *)
(* What the code decides is what that is, how the lists are fused, and     *)
(* what is done with the result.  Documents are re-ingested and deleted    *)
(* between the check that the caller may see a document and the search     *)
(* inside it.                                                              *)
(***************************************************************************)
EXTENDS Integers, FiniteSets, Sequences

CONSTANTS
  Docs,        \* document ids
  Parts,       \* the chunks one ingestion makes of a document
  Users,       \* user ids
  Shared,      \* no user: user_id IS NULL, and retrieve(user_id=None)
  Gone,        \* no row in documents
  AllDocs,     \* no document_id: the question is not scoped
  EfSearch,    \* hnsw.ef_search, which nothing sets: 40
  Candidates,  \* settings.RETRIEVAL_CANDIDATES
  TopK,        \* settings.RETRIEVAL_TOP_K
  K,           \* settings.RRF_K
  MinScore     \* settings.MIN_RETRIEVAL_SCORE is 1 / MinScore

ASSUME RetrievalAssumption ==
  /\ IsFiniteSet(Docs) /\ IsFiniteSet(Parts)
  /\ Shared \notin Users
  /\ Gone \notin Users \cup {Shared}
  /\ AllDocs \notin Docs
  /\ {EfSearch, Candidates, TopK, K, MinScore} \subseteq Nat \ {0}

VARIABLES
  owner,    \* documents table: whose each document is
  table,    \* chunks table, committed
  index,    \* ix_chunks_embedding_hnsw: the rows it has entries of
  request,  \* who asks, about which document, and in which words
  phase,    \* how far the request got
  result    \* the chunks returned, each with its two ranks

vars == <<owner, table, index, request, phase, result>>

-----------------------------------------------------------------------------
Callers == Users \cup {Shared}

Chunk == [doc : Docs, batch : {"old", "new"}, part : Parts]

ChunksOf(d, b) == [doc : {d}, batch : {b}, part : Parts]

\* words: the texts that share a word with the question, stop words aside.
Request == [user : Callers, doc : Docs \cup {AllDocs}, blank : BOOLEAN,
            words : SUBSET (Docs \X Parts)]

\* 0 stands for NULL: the chunk is not in that list.
Hit == [chunk : Chunk, dense : Nat, sparse : Nat]

Lower(a, b) == IF a < b THEN a ELSE b

\* The injective sequences of n members of S: ORDER BY any key, LIMIT n.
Rankings(S, n) ==
  {s \in [1 .. n -> S] : \A i, j \in 1 .. n : s[i] = s[j] => i = j}

MaySee(user, d) == owner[d] \in {user, Shared}

\* The WHERE clause of both lists.
\* Mutant: no owner.
AnyOwner(user, d) == {c \in table : d \in {AllDocs, c.doc}}
Scope(user, d) == {c \in table : MaySee(user, c.doc) /\ d \in {AllDocs, c.doc}}

Nearest(n, S) == {N \in SUBSET S : Cardinality(N) = Lower(n, Cardinality(S))}

\* The planner sorts the scope, or it scans the index: that gives the entries
\* nearest to the question, EfSearch of them, and WHERE drops those out of scope
\* and those of rows that are deleted.
Dense(user, d) ==
  LET S == Scope(user, d) IN
  UNION {Rankings(R, Lower(Candidates, Cardinality(R))) :
           R \in {S} \cup {N \cap S : N \in Nearest(EfSearch, index)}}

Matching(user, d) == {c \in Scope(user, d) : <<c.doc, c.part>> \in request.words}

\* Mutant: the document is compared after the LIMIT.
FilteredLate(user, d) ==
  UNION {LET R == {c \in N : d \in {AllDocs, c.doc}} IN Rankings(R, Cardinality(R)) :
           N \in Nearest(Candidates, Matching(user, AllDocs))}
\* A GIN index finds every row with the words; WHERE applies before the ranking.
Sparse(user, d) ==
  LET M == Matching(user, d) IN Rankings(M, Lower(Candidates, Cardinality(M)))

-----------------------------------------------------------------------------
(* Reciprocal rank fusion.  A score is a fraction, kept as numerator and   *)
(* denominator; COALESCE gives 0 for a list the chunk is not in.           *)
Term(rank) == IF rank = 0 THEN 0 ELSE 1

\* Mutant: only the better of the two ranks counts.
BestTerm(h) ==
  LET r == IF h.sparse = 0 \/ (h.dense # 0 /\ h.dense < h.sparse)
           THEN h.dense ELSE h.sparse
  IN  [num |-> 1, den |-> K + r]
Score(h) ==
  [num |-> Term(h.dense) * (K + h.sparse) + Term(h.sparse) * (K + h.dense),
   den |-> (K + h.dense) * (K + h.sparse)]

NotBelow(h, g) == Score(h).num * Score(g).den >= Score(g).num * Score(h).den

\* Mutant: the NULL of a missing rank is a number of its own.
RankOrMinusOne(list, c) ==
  IF \E i \in DOMAIN list : list[i] = c
  THEN CHOOSE i \in DOMAIN list : list[i] = c
  ELSE -1
RankIn(list, c) ==
  IF \E i \in DOMAIN list : list[i] = c
  THEN CHOOSE i \in DOMAIN list : list[i] = c
  ELSE 0

\* The rows the outer SELECT joins: a chunk is in at least one list.
Fused(dense, sparse) ==
  {[chunk |-> c, dense |-> RankIn(dense, c), sparse |-> RankIn(sparse, c)] :
     c \in {dense[i] : i \in DOMAIN dense} \cup {sparse[i] : i \in DOMAIN sparse}}

\* ORDER BY score DESC LIMIT; token_count, which settles ties, is arbitrary.
Best(hits) ==
  {s \in Rankings(hits, Lower(TopK, Cardinality(hits))) :
     \A i \in DOMAIN s :
       /\ \A j \in DOMAIN s : i < j => NotBelow(s[i], s[j])
       /\ \A h \in hits : (\A j \in DOMAIN s : s[j] # h) => NotBelow(s[i], h)}

\* Mutant: a chunk found by one list alone is not enough.
UsableInBoth(hits) == hits # <<>> /\ hits[1].dense # 0 /\ hits[1].sparse # 0
HasUsableContext(hits) ==
  hits # <<>> /\ Score(hits[1]).num * MinScore >= Score(hits[1]).den

\* The label under which observe_retrieval counts a returned chunk.
Source(h) ==
  IF h.dense # 0 /\ h.sparse # 0 THEN "both" ELSE IF h.dense # 0 THEN "dense" ELSE "sparse"

-----------------------------------------------------------------------------
Init ==
  /\ owner \in [Docs -> Callers \cup {Gone}]
  /\ \E indexed \in SUBSET {d \in Docs : owner[d] # Gone} :
       table = UNION {ChunksOf(d, "old") : d \in indexed}
  /\ index = table
  /\ request \in {r \in Request : r.blank => r.words = {}}
  /\ phase = "asked"
  /\ result = <<>>

\* The second transaction of an ingestion, with the first or with new chunks.  Its
\* DELETE does not find chunks that an overlapping run commits after it began, and
\* both stay.  Nothing reads the tables once the search is over.
Reindex(d) ==
  /\ phase \in {"asked", "allowed"}
  /\ owner[d] # Gone
  /\ \E seen \in {{}, ChunksOf(d, "old")} :
       table' = (table \ seen) \cup ChunksOf(d, "new")
  /\ index' = index \cup ChunksOf(d, "new")
  /\ UNCHANGED <<owner, request, phase, result>>

\* The entries of deleted rows stay until the next vacuum.
Vacuum ==
  /\ phase \in {"asked", "allowed"}
  /\ index' = table
  /\ UNCHANGED <<owner, table, request, phase, result>>

\* Deleting the document cascades to its chunks; shared ones cannot be deleted.
Delete(d) ==
  /\ phase \in {"asked", "allowed"}
  /\ owner[d] \in Users
  /\ owner' = [owner EXCEPT ![d] = Gone]
  /\ table' = {c \in table : c.doc # d}
  /\ UNCHANGED <<index, request, phase, result>>

\* A document that is gone and one of somebody else answer 404 alike.  The
\* evaluation calls retrieve itself, without a user and without this check.
GatherContext ==
  LET d == request.doc IN
  /\ phase = "asked"
  /\ phase' = IF d = AllDocs \/ request.user = Shared
                 \/ MaySee(request.user, d)
              THEN "allowed" ELSE "missing"
  /\ UNCHANGED <<owner, table, index, request, result>>

\* One statement, so one snapshot; a question of blanks does not get that far.
Retrieve ==
  /\ phase = "allowed"
  /\ phase' = "found"
  /\ IF request.blank
     THEN result' = <<>>
     ELSE \E dense \in Dense(request.user, request.doc) :
          \E sparse \in Sparse(request.user, request.doc) :
            result' \in Best(Fused(dense, sparse))
  /\ UNCHANGED <<owner, table, index, request>>

Next ==
  \/ \E d \in Docs : Reindex(d) \/ Delete(d)
  \/ Vacuum
  \/ GatherContext
  \/ Retrieve

Spec == Init /\ [][Next]_vars

-----------------------------------------------------------------------------
TypeOK ==
  /\ owner \in [Docs -> Callers \cup {Gone}]
  /\ table \subseteq Chunk /\ index \subseteq Chunk
  /\ request \in Request
  /\ phase \in {"asked", "allowed", "missing", "found"}
  /\ result \in Seq(Hit)

Found == phase = "found" /\ ~request.blank

\* Whatever happened to the documents since the check, an answer is made of
\* chunks the caller may see, and of the document asked about.
InScope ==
  \A i \in DOMAIN result :
    /\ result[i].chunk \in table
    /\ MaySee(request.user, result[i].chunk.doc)
    /\ request.doc \in {AllDocs, result[i].chunk.doc}

\* Scoping a question narrows its lexical search and does not filter what it
\* returns (comment at chat.py:53): a result has as many chunks as the limits let
\* of those in scope that share a word with the question, whatever else matches.
MatchesAreServed ==
  Found => LET held == Cardinality(Matching(request.user, request.doc)) IN
           Len(result) >= Lower(TopK, Lower(Candidates, held))

\* "A document ranked well by both rises above one ranked highly by either
\* alone" (retrieve.py:19): however low in both lists, it comes first.
BothBeatOne ==
  \A i, j \in DOMAIN result :
    Source(result[i]) = "both" /\ Source(result[j]) # "both" => i < j

\* The threshold never decides: with the shipped settings a chunk of the last rank
\* of one list is above it, so has_usable_context refuses when nothing was found
\* and never because what was found is weak.
RefusesOnlyNothing ==
  Found => (HasUsableContext(result) <=> result # <<>>)
=============================================================================
