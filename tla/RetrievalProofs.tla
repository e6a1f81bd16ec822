--------------------------- MODULE RetrievalProofs ---------------------------
(* What Retrieval returns, for every value of the constants: any number of  *)
(* documents, chunks, users and candidates.                                 *)
EXTENDS Retrieval, FiniteSetTheorems, TLAPS

-----------------------------------------------------------------------------
(* The lists.                                                              *)

LEMMA LowerFacts ==
  ASSUME NEW a \in Nat, NEW b \in Nat
  PROVE  /\ Lower(a, b) \in Nat
         /\ Lower(a, b) <= a /\ Lower(a, b) <= b
         /\ Lower(a, b) \in {a, b}
BY DEF Lower

LEMMA RankingShape ==
  ASSUME NEW S, NEW n \in Nat, NEW s \in Rankings(S, n)
  PROVE  /\ s \in [1 .. n -> S] /\ s \in Seq(S)
         /\ DOMAIN s = 1 .. n /\ Len(s) = n
         /\ \A i, j \in 1 .. n : s[i] = s[j] => i = j
BY DEF Rankings

LEMMA ChunkFinite == IsFiniteSet(Chunk)
<1> DEFINE Triples == (Docs \X {"old", "new"}) \X Parts
           f == [t \in Triples |-> [doc |-> t[1][1], batch |-> t[1][2], part |-> t[2]]]
<1>1. IsFiniteSet(Triples)
  <2>1. IsFiniteSet({"old", "new"})
    <3>1. {"old", "new"} = {"old"} \cup {"new"}
      OBVIOUS
    <3>2. IsFiniteSet({"old"})
      BY FS_Singleton
    <3> QED BY <3>1, <3>2, FS_AddElement, Zenon
  <2> QED BY <2>1, RetrievalAssumption, FS_Product
<1>2. f \in Surjection(Triples, Chunk)
  <2>1. f \in [Triples -> Chunk]
    BY DEF Chunk
  <2>2. ASSUME NEW c \in Chunk PROVE \E t \in Triples : f[t] = c
    <3> DEFINE t == <<<<c.doc, c.batch>>, c.part>>
    <3>1. t \in Triples /\ c = [doc |-> c.doc, batch |-> c.batch, part |-> c.part]
      BY DEF Chunk
    <3>2. f[t] = c
      BY <3>1
    <3> QED BY <3>1, <3>2
  <2> QED BY <2>1, <2>2 DEF Surjection
<1> QED BY <1>1, <1>2, FS_Surjection

LEMMA ScopeFinite ==
  ASSUME table \subseteq Chunk, NEW user, NEW d
  PROVE  /\ Scope(user, d) \subseteq table
         /\ IsFiniteSet(Scope(user, d))
         /\ Cardinality(Scope(user, d)) \in Nat
<1>1. Scope(user, d) \subseteq table
  BY DEF Scope
<1>2. IsFiniteSet(Scope(user, d))
  BY <1>1, ChunkFinite, FS_Subset
<1> QED BY <1>1, <1>2, FS_CardinalityType

\* The LIMIT of both lists.
LEMMA CutShape ==
  ASSUME NEW S, NEW R, R \subseteq S, IsFiniteSet(S),
         NEW list \in Rankings(R, Lower(Candidates, Cardinality(R)))
  PROVE  LET n == Lower(Candidates, Cardinality(R)) IN
         n \in Nat /\ n <= Candidates /\ list \in Rankings(S, n)
<1> DEFINE n == Lower(Candidates, Cardinality(R))
<1>1. Cardinality(R) \in Nat
  BY FS_Subset, FS_CardinalityType
<1>2. n \in Nat /\ n <= Candidates
  BY <1>1, LowerFacts, RetrievalAssumption
<1> HIDE DEF n
<1>3. list \in Rankings(S, n)
  <2>1. list \in Rankings(R, n)
    BY DEF n
  <2> QED BY <2>1 DEF Rankings
<1> QED BY <1>2, <1>3 DEF n

\* However much of it the index scan gave, the dense list ranks chunks of the scope.
LEMMA DenseShape ==
  ASSUME table \subseteq Chunk, NEW user, NEW d, NEW list \in Dense(user, d)
  PROVE  \E n \in Nat : n <= Candidates /\ list \in Rankings(Scope(user, d), n)
<1> DEFINE S == Scope(user, d)
<1>1. PICK R \in {S} \cup {N \cap S : N \in Nearest(EfSearch, index)} :
        list \in Rankings(R, Lower(Candidates, Cardinality(R)))
  BY DEF Dense
<1>2. R \subseteq S
  BY <1>1
<1>3. IsFiniteSet(S)
  BY ScopeFinite
<1> HIDE DEF S
<1> QED BY <1>1, <1>2, <1>3, CutShape DEF S

\* The sparse list ranks as many of the matching chunks as it may.
LEMMA SparseShape ==
  ASSUME table \subseteq Chunk, NEW user, NEW d, NEW list \in Sparse(user, d)
  PROVE  LET n == Lower(Candidates, Cardinality(Matching(user, d))) IN
         n \in Nat /\ n <= Candidates /\ list \in Rankings(Scope(user, d), n)
<1>1. Matching(user, d) \subseteq Scope(user, d)
  BY DEF Matching
<1>2. list \in Rankings(Matching(user, d), Lower(Candidates, Cardinality(Matching(user, d))))
  BY DEF Sparse
<1> QED BY <1>1, <1>2, ScopeFinite, CutShape

\* A rank is the place in the list, or 0.
LEMMA RankFacts ==
  ASSUME NEW S, NEW n \in Nat, NEW list \in Rankings(S, n), NEW c
  PROVE  /\ RankIn(list, c) \in 0 .. n
         /\ (\E i \in 1 .. n : list[i] = c) => RankIn(list, c) # 0 /\ list[RankIn(list, c)] = c
BY RankingShape DEF RankIn

\* What the outer SELECT has: a chunk of the scope, in one list at least.
LEMMA FusedShape ==
  ASSUME NEW S, NEW n \in Nat, NEW m \in Nat,
         NEW dense \in Rankings(S, n), NEW sparse \in Rankings(S, m),
         NEW h \in Fused(dense, sparse)
  PROVE  /\ h = [chunk |-> h.chunk, dense |-> h.dense, sparse |-> h.sparse]
         /\ h.chunk \in S /\ h.dense \in 0 .. n /\ h.sparse \in 0 .. m
         /\ h.dense # 0 \/ h.sparse # 0
<1>1. PICK c \in {dense[i] : i \in DOMAIN dense} \cup {sparse[i] : i \in DOMAIN sparse} :
        h = [chunk |-> c, dense |-> RankIn(dense, c), sparse |-> RankIn(sparse, c)]
  BY DEF Fused
<1>2. c \in S /\ ((\E i \in 1 .. n : dense[i] = c) \/ (\E i \in 1 .. m : sparse[i] = c))
  BY <1>1, RankingShape
<1>3. RankIn(dense, c) \in 0 .. n /\ RankIn(sparse, c) \in 0 .. m
  BY RankFacts
<1>4. RankIn(dense, c) # 0 \/ RankIn(sparse, c) # 0
  BY <1>2, RankFacts
<1> QED BY <1>1, <1>2, <1>3, <1>4

\* The fused rows are finitely many, and no fewer than the sparse list has.
LEMMA FusedCount ==
  ASSUME NEW S, IsFiniteSet(S), NEW n \in Nat, NEW m \in Nat,
         NEW dense \in Rankings(S, n), NEW sparse \in Rankings(S, m)
  PROVE  /\ IsFiniteSet(Fused(dense, sparse))
         /\ Cardinality(Fused(dense, sparse)) \in Nat
         /\ m <= Cardinality(Fused(dense, sparse))
<1> DEFINE Row(c) == [chunk |-> c, dense |-> RankIn(dense, c), sparse |-> RankIn(sparse, c)]
           C == {dense[i] : i \in DOMAIN dense} \cup {sparse[i] : i \in DOMAIN sparse}
           f == [c \in C |-> Row(c)]
           g == [i \in 1 .. m |-> Row(sparse[i])]
<1>1. C \subseteq S
  BY RankingShape
<1>2. Fused(dense, sparse) = {Row(c) : c \in C}
  BY DEF Fused
<1>3. f \in Surjection(C, Fused(dense, sparse))
  BY <1>2 DEF Surjection
<1>4. IsFiniteSet(Fused(dense, sparse))
  BY <1>1, <1>3, FS_Subset, FS_Surjection
<1>5. g \in Injection(1 .. m, Fused(dense, sparse))
  <2>1. ASSUME NEW i \in 1 .. m PROVE sparse[i] \in C
    BY RankingShape
  <2>2. g \in [1 .. m -> Fused(dense, sparse)]
    BY <1>2, <2>1
  <2>3. ASSUME NEW i \in 1 .. m, NEW j \in 1 .. m, g[i] = g[j] PROVE i = j
    <3>1. Row(sparse[i]).chunk = Row(sparse[j]).chunk
      BY <2>3
    <3>2. sparse[i] = sparse[j]
      BY <3>1
    <3> QED BY <3>2, RankingShape
  <2> QED BY <2>2, <2>3 DEF Injection, IsInjective
<1>6. Cardinality(1 .. m) = m
  BY FS_Interval
<1> QED BY <1>4, <1>5, <1>6, FS_Injection, FS_CardinalityType

\* The TopK best of the rows.
LEMMA BestShape ==
  ASSUME NEW hits, IsFiniteSet(hits), NEW s \in Best(hits)
  PROVE  LET n == Lower(TopK, Cardinality(hits)) IN
         /\ n \in Nat /\ s \in Rankings(hits, n) /\ Len(s) = n /\ DOMAIN s = 1 .. n
         /\ \A i \in 1 .. n : s[i] \in hits
<1> DEFINE n == Lower(TopK, Cardinality(hits))
<1>1. Cardinality(hits) \in Nat /\ TopK \in Nat
  BY FS_CardinalityType, RetrievalAssumption
<1>2. n \in Nat
  BY <1>1, LowerFacts
<1>3. s \in Rankings(hits, n)
  BY DEF Best
<1> HIDE DEF n
<1>4. s \in [1 .. n -> hits] /\ Len(s) = n /\ DOMAIN s = 1 .. n
  BY <1>2, <1>3, RankingShape
<1> QED BY <1>2, <1>3, <1>4 DEF n

-----------------------------------------------------------------------------
(* The invariant.                                                          *)

\* A result comes from one look at the table, which nothing changes afterwards.
FromLists ==
  Found => \E dense \in Dense(request.user, request.doc) :
           \E sparse \in Sparse(request.user, request.doc) :
             result \in Best(Fused(dense, sparse))

RInv ==
  /\ TypeOK
  /\ ~Found => result = <<>>
  /\ FromLists

\* The rows a result is made of, as the theorems below use them.
LEMMA HitShape ==
  ASSUME table \subseteq Chunk, NEW user, NEW d,
         NEW dense \in Dense(user, d), NEW sparse \in Sparse(user, d),
         NEW s \in Best(Fused(dense, sparse))
  PROVE  /\ \E n \in Nat : DOMAIN s = 1 .. n /\ Len(s) = n
         /\ \A i, j \in DOMAIN s : s[i] = s[j] => i = j
         /\ \A i \in DOMAIN s :
              /\ s[i] \in Fused(dense, sparse)
              /\ s[i] = [chunk |-> s[i].chunk, dense |-> s[i].dense, sparse |-> s[i].sparse]
              /\ s[i].chunk \in Scope(user, d)
              /\ s[i].dense \in 0 .. Candidates /\ s[i].sparse \in 0 .. Candidates
              /\ s[i].dense # 0 \/ s[i].sparse # 0
<1> DEFINE S == Scope(user, d)
           hits == Fused(dense, sparse)
<1>1. PICK n \in Nat : n <= Candidates /\ dense \in Rankings(S, n)
  BY DenseShape
<1>2. PICK m \in Nat : m <= Candidates /\ sparse \in Rankings(S, m)
  <2>1. \E m \in Nat : m <= Candidates /\ sparse \in Rankings(S, m)
    BY SparseShape
  <2> QED BY <2>1
<1>3. IsFiniteSet(S)
  BY ScopeFinite
<1>4. IsFiniteSet(hits)
  BY <1>1, <1>2, <1>3, FusedCount
<1>5. PICK k \in Nat : s \in Rankings(hits, k) /\ DOMAIN s = 1 .. k /\ Len(s) = k
                       /\ \A i \in 1 .. k : s[i] \in hits
  BY <1>4, BestShape
<1>6. \A i, j \in 1 .. k : s[i] = s[j] => i = j
  BY <1>5, RankingShape
<1>7. ASSUME NEW i \in DOMAIN s
      PROVE  /\ s[i] \in hits
             /\ s[i] = [chunk |-> s[i].chunk, dense |-> s[i].dense, sparse |-> s[i].sparse]
             /\ s[i].chunk \in S
             /\ s[i].dense \in 0 .. Candidates /\ s[i].sparse \in 0 .. Candidates
             /\ s[i].dense # 0 \/ s[i].sparse # 0
  <2>1. s[i] \in hits
    BY <1>5, <1>7
  <2> DEFINE h == s[i]
  <2> HIDE DEF h
  <2>2. h \in Fused(dense, sparse)
    BY <2>1 DEF h
  <2>3. /\ h = [chunk |-> h.chunk, dense |-> h.dense, sparse |-> h.sparse]
        /\ h.chunk \in S /\ h.dense \in 0 .. n /\ h.sparse \in 0 .. m
        /\ h.dense # 0 \/ h.sparse # 0
    BY <1>1, <1>2, <2>2, FusedShape
  <2>4. h.dense \in 0 .. Candidates /\ h.sparse \in 0 .. Candidates
    BY <1>1, <1>2, <2>3, RetrievalAssumption
  <2> QED BY <2>1, <2>3, <2>4 DEF h
<1> QED BY <1>5, <1>6, <1>7

LEMMA ResultTyped ==
  ASSUME table \subseteq Chunk, NEW user, NEW d,
         NEW dense \in Dense(user, d), NEW sparse \in Sparse(user, d),
         NEW s \in Best(Fused(dense, sparse))
  PROVE  s \in Seq(Hit)
<1>1. PICK n \in Nat : DOMAIN s = 1 .. n /\ Len(s) = n
  BY HitShape
<1>2. ASSUME NEW i \in 1 .. n PROVE s[i] \in Hit
  <2>1. /\ s[i] = [chunk |-> s[i].chunk, dense |-> s[i].dense, sparse |-> s[i].sparse]
        /\ s[i].chunk \in Scope(user, d)
        /\ s[i].dense \in 0 .. Candidates /\ s[i].sparse \in 0 .. Candidates
    BY <1>1, HitShape
  <2>2. s[i].chunk \in Chunk
    BY <2>1, ScopeFinite
  <2>3. s[i].dense \in Nat /\ s[i].sparse \in Nat
    BY <2>1, RetrievalAssumption
  <2> QED BY <2>1, <2>2, <2>3 DEF Hit
<1>3. s = [i \in 1 .. n |-> s[i]]
  <2>1. \E S, k : s \in [1 .. k -> S]
    BY DEF Best, Rankings
  <2> QED BY <1>1, <2>1
<1>4. s \in [1 .. n -> Hit]
  BY <1>2, <1>3
<1> QED BY <1>4

LEMMA InitRInv == Init => RInv
<1> SUFFICES ASSUME Init PROVE RInv
  OBVIOUS
<1>1. PICK indexed \in SUBSET {d \in Docs : owner[d] # Gone} :
        table = UNION {ChunksOf(d, "old") : d \in indexed}
  BY DEF Init
<1>2. \A c \in table : c \in Chunk /\ c.batch = "old"
  BY <1>1 DEF ChunksOf, Chunk
<1>3. result = <<>> /\ phase = "asked"
  BY DEF Init
<1>4. TypeOK
  BY <1>2, <1>3 DEF Init, TypeOK
<1> QED BY <1>2, <1>3, <1>4 DEF RInv, FromLists, Found

LEMMA NextRInv == RInv /\ [Next]_vars => RInv'
<1> SUFFICES ASSUME RInv, [Next]_vars PROVE RInv'
  OBVIOUS
<1> USE DEF RInv
<1>1. ASSUME NEW d \in Docs, Reindex(d) PROVE RInv'
  <2>1. ChunksOf(d, "new") \subseteq Chunk
    BY DEF ChunksOf, Chunk
  <2>2. table' \subseteq Chunk /\ index' \subseteq Chunk
    BY <1>1, <2>1 DEF Reindex, TypeOK
  <2>3. ~Found' /\ result' = <<>>
    BY <1>1 DEF Reindex, Found
  <2>4. TypeOK'
    BY <1>1, <2>2 DEF Reindex, TypeOK
  <2> QED BY <2>3, <2>4 DEF FromLists
<1>2. ASSUME NEW d \in Docs, Delete(d) PROVE RInv'
  <2>1. table' \subseteq table
    BY <1>2 DEF Delete
  <2>2. ~Found' /\ result' = <<>>
    BY <1>2 DEF Delete, Found
  <2>3. owner' \in [Docs -> Callers \cup {Gone}]
    BY <1>2 DEF Delete, TypeOK
  <2>4. TypeOK'
    BY <1>2, <2>1, <2>3 DEF Delete, TypeOK
  <2> QED BY <2>2, <2>4 DEF FromLists
<1>3. CASE GatherContext
  <2>1. ~Found' /\ result' = <<>> /\ phase' \in {"allowed", "missing"}
    BY <1>3 DEF GatherContext, Found
  <2>2. TypeOK'
    BY <1>3, <2>1 DEF GatherContext, TypeOK
  <2> QED BY <2>1, <2>2 DEF FromLists
<1>4. CASE Retrieve
  <2>1. UNCHANGED <<owner, table, index, request>> /\ phase' = "found"
    BY <1>4 DEF Retrieve
  <2>2. CASE request.blank
    <3>1. ~Found' /\ result' = <<>>
      BY <1>4, <2>1, <2>2 DEF Retrieve, Found
    <3> QED BY <2>1, <3>1 DEF TypeOK, FromLists
  <2>3. CASE ~request.blank
    <3>1. PICK dense \in Dense(request.user, request.doc),
               sparse \in Sparse(request.user, request.doc) :
                 result' \in Best(Fused(dense, sparse))
      BY <1>4, <2>3 DEF Retrieve
    <3>2. result' \in Seq(Hit)
      BY <3>1, ResultTyped DEF TypeOK
    <3>3. Found' /\ TypeOK'
      BY <2>1, <2>3, <3>2 DEF Found, TypeOK
    <3>4. FromLists'
      <4>1. /\ dense \in Dense(request.user, request.doc)'
            /\ sparse \in Sparse(request.user, request.doc)'
        BY <2>1 DEF Dense, Nearest, Sparse, Matching, Scope, MaySee
      <4> QED BY <2>1, <3>1, <4>1 DEF FromLists, Best
    <3> QED BY <2>1, <3>3, <3>4
  <2> QED BY <2>2, <2>3
<1>5. CASE UNCHANGED vars
  <2>1. UNCHANGED <<owner, table, index, request, phase, result>>
    BY <1>5 DEF vars
  <2>2. TypeOK' /\ (Found' <=> Found) /\ (~Found' => result' = <<>>)
    BY <2>1 DEF TypeOK, Found
  <2>3. CASE Found
    <3>1. PICK dense \in Dense(request.user, request.doc),
               sparse \in Sparse(request.user, request.doc) :
                 result \in Best(Fused(dense, sparse))
      BY <2>3 DEF FromLists
    <3>2. /\ dense \in Dense(request.user, request.doc)'
          /\ sparse \in Sparse(request.user, request.doc)'
      BY <2>1 DEF Dense, Nearest, Sparse, Matching, Scope, MaySee
    <3>3. result' \in Best(Fused(dense, sparse))
      BY <2>1, <3>1
    <3> QED BY <2>2, <3>2, <3>3 DEF FromLists
  <2>4. CASE ~Found
    BY <2>2, <2>4 DEF FromLists
  <2> QED BY <2>2, <2>3, <2>4
<1>6. CASE Vacuum
  <2>1. ~Found' /\ result' = <<>>
    BY <1>6 DEF Vacuum, Found
  <2>2. TypeOK'
    BY <1>6 DEF Vacuum, TypeOK
  <2> QED BY <2>1, <2>2 DEF FromLists
<1> QED BY <1>1, <1>2, <1>3, <1>4, <1>5, <1>6 DEF Next

LEMMA RInvInvariant == Spec => []RInv
BY InitRInv, NextRInv, PTL DEF Spec

-----------------------------------------------------------------------------

\* Every variable keeps its type.
THEOREM TypeCorrect == Spec => []TypeOK
<1>1. RInv => TypeOK
  BY DEF RInv
<1> QED BY <1>1, RInvInvariant, PTL

\* An answer is made of chunks of the table that the caller may see and, when
\* the question names a document, of that document: retrieve.py's WHERE clause.
THEOREM AnswersInScope == Spec => []InScope
<1>1. ASSUME RInv PROVE InScope
  <2>1. CASE Found
    <3>1. PICK dense \in Dense(request.user, request.doc),
               sparse \in Sparse(request.user, request.doc) :
                 result \in Best(Fused(dense, sparse))
      BY <1>1, <2>1 DEF RInv, FromLists
    <3>2. \A i \in DOMAIN result : result[i].chunk \in Scope(request.user, request.doc)
      BY <1>1, <3>1, HitShape DEF RInv, TypeOK
    <3> QED BY <3>2 DEF InScope, Scope
  <2>2. CASE ~Found
    BY <1>1, <2>2 DEF RInv, InScope
  <2> QED BY <2>1, <2>2
<1> QED BY <1>1, RInvInvariant, PTL

\* The sparse list alone fills a result.
LEMMA ServedOnce ==
  ASSUME RInv, Found
  PROVE  Len(result) >= Lower(TopK, Lower(Candidates,
           Cardinality(Matching(request.user, request.doc))))
<1> DEFINE S == Scope(request.user, request.doc)
           m == Lower(Candidates, Cardinality(Matching(request.user, request.doc)))
<1>1. PICK dense \in Dense(request.user, request.doc),
           sparse \in Sparse(request.user, request.doc) :
             result \in Best(Fused(dense, sparse))
  BY DEF RInv, FromLists
<1>2. table \subseteq Chunk
  BY DEF RInv, TypeOK
<1>3. PICK n \in Nat : dense \in Rankings(S, n)
  BY <1>2, DenseShape
<1>4. m \in Nat /\ sparse \in Rankings(S, m)
  BY <1>2, SparseShape
<1>5. IsFiniteSet(S)
  BY <1>2, ScopeFinite
<1> DEFINE c == Cardinality(Fused(dense, sparse))
<1>6. IsFiniteSet(Fused(dense, sparse)) /\ c \in Nat /\ m <= c
  <2> HIDE DEF m, S
  <2> QED BY <1>3, <1>4, <1>5, FusedCount
<1>7. Len(result) = Lower(TopK, c)
  BY <1>1, <1>6, BestShape
<1> HIDE DEF m, S, c
<1>8. TopK \in Nat
  BY RetrievalAssumption
<1>9. Lower(TopK, c) >= Lower(TopK, m)
  BY <1>4, <1>6, <1>8 DEF Lower
<1> QED BY <1>7, <1>9 DEF m, S

\* A search returns as many as the two limits let it of the chunks in scope that
\* share a word with the question: the filters of the sparse list come before its
\* LIMIT.  Of the dense list, which an index scan may cut first, nothing is said.
THEOREM MatchesServed == Spec => []MatchesAreServed
<1>1. RInv => MatchesAreServed
  BY ServedOnce DEF MatchesAreServed
<1> QED BY <1>1, RInvInvariant, PTL

-----------------------------------------------------------------------------
(* Arithmetic of the scores.                                               *)

\* The score of a row, by the lists it is in.
LEMMA ScoreShape ==
  ASSUME NEW h, h.dense \in 0 .. Candidates, h.sparse \in 0 .. Candidates,
         h.dense # 0 \/ h.sparse # 0
  PROVE  /\ h.dense \in Nat /\ h.sparse \in Nat
         /\ (h.dense # 0 /\ h.sparse # 0) =>
              /\ Score(h).num = (K + h.sparse) + (K + h.dense)
              /\ Score(h).den = (K + h.dense) * (K + h.sparse)
         /\ ~(h.dense # 0 /\ h.sparse # 0) =>
              \E r \in 1 .. Candidates : Score(h).num = K /\ Score(h).den = (K + r) * K
<1>1. h.dense \in Nat /\ h.sparse \in Nat /\ K \in Nat /\ Candidates \in Nat
  BY RetrievalAssumption
<1> DEFINE dn == h.dense
           sp == h.sparse
<1>2. /\ Score(h).num = Term(dn) * (K + sp) + Term(sp) * (K + dn)
      /\ Score(h).den = (K + dn) * (K + sp)
  BY DEF Score
<1> HIDE DEF dn, sp
<1>3. dn \in 0 .. Candidates /\ sp \in 0 .. Candidates /\ (dn # 0 \/ sp # 0)
  BY DEF dn, sp
<1>4. CASE dn # 0 /\ sp # 0
  <2>1. Term(dn) = 1 /\ Term(sp) = 1
    BY <1>4 DEF Term
  <2>2. Score(h).num = (K + sp) + (K + dn)
    BY <1>1, <1>2, <1>3, <2>1
  <2> QED BY <1>1, <1>2, <1>4, <2>2 DEF dn, sp
<1>5. CASE dn # 0 /\ sp = 0
  <2>1. Term(dn) = 1 /\ Term(sp) = 0
    BY <1>5 DEF Term
  <2>2. Score(h).num = K /\ Score(h).den = (K + dn) * K
    BY <1>1, <1>2, <1>3, <1>5, <2>1
  <2>3. dn \in 1 .. Candidates
    BY <1>1, <1>3, <1>5
  <2> QED BY <1>1, <1>5, <2>2, <2>3 DEF dn, sp
<1>6. CASE dn = 0 /\ sp # 0
  <2>1. Term(dn) = 0 /\ Term(sp) = 1
    BY <1>6 DEF Term
  <2>2. Score(h).num = K /\ Score(h).den = K * (K + sp)
    BY <1>1, <1>2, <1>3, <1>6, <2>1
  <2>3. K * (K + sp) = (K + sp) * K
    BY <1>1, <1>3
  <2>4. sp \in 1 .. Candidates
    BY <1>1, <1>3, <1>6
  <2> QED BY <1>1, <1>6, <2>2, <2>3, <2>4 DEF dn, sp
<1> QED BY <1>3, <1>4, <1>5, <1>6

LEMMA ProductMonotone ==
  ASSUME NEW a \in Nat, NEW b \in Nat, NEW c \in Nat, a <= b
  PROVE  a * c <= b * c /\ c * a <= c * b
OBVIOUS

\* With K >= Candidates - 1, two ranks score more than one, however low they are.
LEMMA TwoAboveOne ==
  ASSUME NEW a \in Nat, NEW b \in Nat, NEW r \in Nat, r >= 1,
         a <= K + Candidates, b <= K + Candidates, a + b > 0, Candidates < K + 2
  PROVE  ~(K * (a * b) >= (a + b) * ((K + r) * K))
<1> DEFINE M == K + Candidates
<1>1. K \in Nat /\ K > 0 /\ Candidates \in Nat /\ M \in Nat
  BY RetrievalAssumption
<1>2. a * b <= a * M /\ a * b <= M * b
  BY <1>1, ProductMonotone
<1>3. 2 * (a * b) <= (a + b) * M
  <2>1. a * M + M * b = (a + b) * M
    BY <1>1
  <2> HIDE DEF M
  <2>2. a * b \in Nat /\ a * M \in Nat /\ M * b \in Nat
    BY <1>1
  <2> QED BY <1>2, <2>1, <2>2
<1>4. (a + b) * M < (a + b) * (2 * (K + r))
  <2>1. M < 2 * (K + r)
    BY <1>1
  <2>2. \A x, y, z \in Nat : y < z /\ x > 0 => x * y < x * z
    OBVIOUS
  <2>3. a + b \in Nat /\ 2 * (K + r) \in Nat
    BY <1>1
  <2> QED BY <1>1, <2>1, <2>2, <2>3
<1>5. (a + b) * (2 * (K + r)) = 2 * ((a + b) * (K + r))
  BY <1>1
<1>6. a * b < (a + b) * (K + r)
  <2>1. a * b \in Nat /\ (a + b) * M \in Nat /\ (a + b) * (K + r) \in Nat
    BY <1>1
  <2> QED BY <1>3, <1>4, <1>5, <2>1
<1>7. K * (a * b) < K * ((a + b) * (K + r))
  <2>1. \A x, y, z \in Nat : y < z /\ x > 0 => x * y < x * z
    OBVIOUS
  <2>2. a * b \in Nat /\ (a + b) * (K + r) \in Nat
    BY <1>1
  <2> QED BY <1>1, <1>6, <2>1, <2>2
<1>8. K * ((a + b) * (K + r)) = (a + b) * ((K + r) * K)
  BY <1>1
<1>9. K * (a * b) \in Nat /\ (a + b) * ((K + r) * K) \in Nat
  BY <1>1
<1> QED BY <1>7, <1>8, <1>9

\* A chunk in both lists comes before one in a single list, for every RRF_K and
\* RETRIEVAL_CANDIDATES below RRF_K + 2 (60 and 30 as shipped).
THEOREM BothListsFirst ==
  ASSUME Candidates < K + 2
  PROVE  Spec => []BothBeatOne
<1>1. ASSUME RInv, Found,
             NEW i \in DOMAIN result, NEW j \in DOMAIN result,
             Source(result[i]) = "both", Source(result[j]) # "both"
      PROVE  i < j
  <2>1. PICK dense \in Dense(request.user, request.doc),
             sparse \in Sparse(request.user, request.doc) :
               result \in Best(Fused(dense, sparse))
    BY <1>1 DEF RInv, FromLists
  <2>2. PICK n \in Nat : DOMAIN result = 1 .. n
    BY <1>1, <2>1, HitShape DEF RInv, TypeOK
  <2> DEFINE h == result[i]
             g == result[j]
  <2>3. \A x \in DOMAIN result :
          /\ result[x].dense \in 0 .. Candidates /\ result[x].sparse \in 0 .. Candidates
          /\ result[x].dense # 0 \/ result[x].sparse # 0
    BY <1>1, <2>1, HitShape DEF RInv, TypeOK
  <2>4. j < i => NotBelow(g, h)
    BY <2>1 DEF Best
  <2>5. h.dense # 0 /\ h.sparse # 0 /\ ~(g.dense # 0 /\ g.sparse # 0)
    BY <1>1 DEF Source
  <2>6. /\ h.dense \in Nat /\ h.sparse \in Nat
        /\ h.dense <= Candidates /\ h.sparse <= Candidates
        /\ Score(h).num = (K + h.sparse) + (K + h.dense)
        /\ Score(h).den = (K + h.dense) * (K + h.sparse)
    BY <2>3, <2>5, ScoreShape, RetrievalAssumption
  <2>7. PICK r \in 1 .. Candidates : Score(g).num = K /\ Score(g).den = (K + r) * K
    BY <2>3, <2>5, ScoreShape
  <2> HIDE DEF h, g
  <2>8. ~NotBelow(g, h)
    <3> DEFINE a == K + h.dense
               b == K + h.sparse
    <3>1. /\ a \in Nat /\ b \in Nat /\ a + b > 0 /\ r \in Nat /\ r >= 1
          /\ a <= K + Candidates /\ b <= K + Candidates
      <4>1. K \in Nat /\ K > 0 /\ Candidates \in Nat
        BY RetrievalAssumption
      <4>2. /\ h.dense \in Nat /\ h.sparse \in Nat
            /\ h.dense <= Candidates /\ h.sparse <= Candidates
        BY <2>6
      <4>3. r \in Nat /\ r >= 1
        BY <2>7, <4>1
      <4> QED BY <4>1, <4>2, <4>3
    <3>2. Score(h).num = a + b /\ Score(h).den = a * b
      <4>1. b + a = a + b
        BY <3>1
      <4> QED BY <2>6, <4>1
    <3> HIDE DEF a, b
    <3>3. ~(K * (a * b) >= (a + b) * ((K + r) * K))
      BY <3>1, TwoAboveOne
    <3> QED BY <2>7, <3>2, <3>3 DEF NotBelow
  <2>9. i # j
    BY <2>5 DEF h, g
  <2> QED BY <2>2, <2>4, <2>8, <2>9
<1>2. RInv => BothBeatOne
  <2>1. ASSUME RInv, ~Found PROVE BothBeatOne
    BY <2>1 DEF RInv, BothBeatOne
  <2>2. ASSUME RInv, Found PROVE BothBeatOne
    BY <1>1, <2>2 DEF BothBeatOne
  <2> QED BY <2>1, <2>2
<1> QED BY <1>2, RInvInvariant, PTL

\* The relevance threshold refuses exactly the questions for which nothing was
\* found, for every threshold of at most 1 / (RRF_K + RETRIEVAL_CANDIDATES): 0.01
\* is below 1 / 90 as shipped, so no score is ever too low for it.
THEOREM ThresholdNeverDecides ==
  ASSUME K + Candidates <= MinScore
  PROVE  Spec => []RefusesOnlyNothing
<1>1. ASSUME RInv, Found
      PROVE  HasUsableContext(result) <=> result # <<>>
  <2>1. PICK dense \in Dense(request.user, request.doc),
             sparse \in Sparse(request.user, request.doc) :
               result \in Best(Fused(dense, sparse))
    BY <1>1 DEF RInv, FromLists
  <2>2. table \subseteq Chunk
    BY <1>1 DEF RInv, TypeOK
  <2>3. PICK n \in Nat : DOMAIN result = 1 .. n /\ Len(result) = n
    BY <2>1, <2>2, HitShape
  <2>4. \A x \in DOMAIN result :
          /\ result[x].dense \in 0 .. Candidates /\ result[x].sparse \in 0 .. Candidates
          /\ result[x].dense # 0 \/ result[x].sparse # 0
    BY <2>1, <2>2, HitShape
  <2>5. CASE result = <<>>
    BY <2>5 DEF HasUsableContext
  <2>6. CASE result # <<>>
    <3>2. 1 \in DOMAIN result
      <4>1. result \in Seq(Hit)
        BY <1>1 DEF RInv, TypeOK
      <4> QED BY <2>3, <2>6, <4>1
    <3> DEFINE h == result[1]
    <3>3. /\ h.dense \in 0 .. Candidates /\ h.sparse \in 0 .. Candidates
          /\ h.dense # 0 \/ h.sparse # 0
      BY <2>4, <3>2
    <3> HIDE DEF h
    <3>4. K \in Nat /\ Candidates \in Nat /\ MinScore \in Nat
      BY RetrievalAssumption
    <3>5. Score(h).num * MinScore >= Score(h).den
      <4>1. CASE h.dense # 0 /\ h.sparse # 0
        <5> DEFINE a == K + h.dense
                   b == K + h.sparse
        <5>1. /\ Score(h).num = b + a /\ Score(h).den = a * b
              /\ a \in Nat /\ b \in Nat /\ a <= MinScore
          BY <3>3, <3>4, <4>1, ScoreShape
        <5> HIDE DEF a, b
        <5>2. a * b <= MinScore * b
          BY <3>4, <5>1, ProductMonotone
        <5>3. MinScore * b <= (b + a) * MinScore
          <6>1. b <= b + a /\ b + a \in Nat
            BY <5>1
          <6>2. b * MinScore <= (b + a) * MinScore
            BY <3>4, <5>1, <6>1, ProductMonotone
          <6>3. b * MinScore = MinScore * b
            BY <3>4, <5>1
          <6> QED BY <6>2, <6>3
        <5>4. a * b \in Nat /\ MinScore * b \in Nat /\ (b + a) * MinScore \in Nat
          BY <3>4, <5>1
        <5> QED BY <5>1, <5>2, <5>3, <5>4
      <4>2. CASE ~(h.dense # 0 /\ h.sparse # 0)
        <5>1. PICK r \in 1 .. Candidates : Score(h).num = K /\ Score(h).den = (K + r) * K
          BY <3>3, <4>2, ScoreShape
        <5>2. K + r \in Nat /\ K + r <= MinScore
          BY <3>4
        <5>3. (K + r) * K <= MinScore * K
          BY <3>4, <5>2, ProductMonotone
        <5>4. MinScore * K = K * MinScore
          BY <3>4
        <5>5. (K + r) * K \in Nat /\ MinScore * K \in Nat
          BY <3>4, <5>2
        <5> QED BY <5>1, <5>3, <5>4, <5>5
      <4> QED BY <4>1, <4>2
    <3> QED BY <2>6, <3>2, <3>5 DEF HasUsableContext, h
  <2> QED BY <2>5, <2>6
<1>2. RInv => RefusesOnlyNothing
  BY <1>1 DEF RefusesOnlyNothing
<1> QED BY <1>2, RInvInvariant, PTL
=============================================================================
