---------------------------- MODULE IndexingProofs ----------------------------
(***************************************************************************)
(* What an ingestion makes of a document of any length, for any limits of  *)
(* chunk.py that satisfy IndexingAssumption and any answers of the         *)
(* embeddings API.  ShapeInv says what the variables hold, OrderInv in     *)
(* which order the words of the document are held, SectionInv under which  *)
(* headings, PageInv with which page.                                      *)
(***************************************************************************)
EXTENDS Indexing, DataTheorems

-----------------------------------------------------------------------------
(* What the extraction yields.                                             *)

\* An item the chunker can rely on: it has text and stands on a page.
Block == {b \in Item : b.size > 0 /\ b.page > 0}

LEMMA LinesAreBlocks ==
  ASSUME NEW lines \in Seq(Line), NEW page \in Nat \ {0}, NEW boilerplate
  PROVE  LinesToItems(lines, page, boilerplate) \in Seq(Block)
<1> DEFINE kept == Kept(lines, boilerplate)
<1>1. kept \in Seq(Line)
  <2>1. DOMAIN lines = 1 .. Len(lines)
    BY LenProperties
  <2>2. {i \in DOMAIN lines : lines[i].shape \notin boilerplate /\ ~lines[i].marker}
          \in SUBSET (1 .. Len(lines))
    BY <2>1
  <2> QED BY <2>2, AtIsSeq DEF Kept
<1>2. PICK body : body = TwiceMedian(At([i \in DOMAIN kept |-> kept[i].size],
                                        {i \in DOMAIN kept : kept[i].size # 0}))
  OBVIOUS
<1>3. LinesToItems(lines, page, boilerplate) =
        [i \in DOMAIN kept |->
           [kind |-> IF HeadingLevel(kept[i], body) > 0 THEN "heading" ELSE "sentence",
            page |-> page, size |-> kept[i].tokens, level |-> HeadingLevel(kept[i], body)]]
  BY <1>2 DEF LinesToItems
<1> HIDE DEF kept
<1>4. Len(kept) \in Nat /\ DOMAIN kept = 1 .. Len(kept)
  BY <1>1, LenProperties
<1>5. ASSUME NEW i \in 1 .. Len(kept)
      PROVE  [kind |-> IF HeadingLevel(kept[i], body) > 0 THEN "heading" ELSE "sentence",
              page |-> page, size |-> kept[i].tokens, level |-> HeadingLevel(kept[i], body)]
               \in Block
  <2>1. PICK line \in Line : line = kept[i]
    BY <1>1, ElementOfSeq
  <2>2. /\ line.furniture \in BOOLEAN /\ line.clause \in 0 .. 7 /\ line.tokens \in Nat \ {0}
        /\ line.style \in Styles
    BY DEF Line
  <2>3. HeadingLevel(line, body) \in 0 .. 6
    BY <2>2 DEF HeadingLevel, Depth, Least
  <2> QED BY <2>1, <2>2, <2>3 DEF Block, Item
<1> QED BY <1>3, <1>4, <1>5

LEMMA TablesAreBlocks ==
  ASSUME NEW tables \in Seq(Nat), NEW page \in Nat \ {0}
  PROVE  TablesToItems(tables, page) \in Seq(Block)
<1> DEFINE S == {i \in DOMAIN tables : tables[i] > 0}
           full == At(tables, S)
<1>1. S \in SUBSET (1 .. Len(tables))
  BY LenProperties
<1>2. /\ full \in Seq(Nat)
      /\ Len(full) \in Nat
      /\ \A k \in 1 .. Len(full) : full[k] > 0
  <2>1. \A i \in S : tables[i] > 0
    OBVIOUS
  <2> HIDE DEF S
  <2>2. /\ full \in Seq(Nat) /\ Len(full) = Cardinality(S) /\ Cardinality(S) \in Nat
        /\ \A k \in 1 .. Cardinality(S) :
             InOrder(S)[k] \in S /\ full[k] = tables[InOrder(S)[k]]
    BY <1>1, AtIsSeq
  <2> HIDE DEF full
  <2> QED BY <2>1, <2>2
<1>3. TablesToItems(tables, page) =
        [i \in DOMAIN full |-> [kind |-> "table", page |-> page, size |-> full[i], level |-> 0]]
  BY DEF TablesToItems
<1> HIDE DEF full, S
<1>4. \A i \in 1 .. Len(full) :
        [kind |-> "table", page |-> page, size |-> full[i], level |-> 0] \in Block
  BY <1>2, ElementOfSeq DEF Block, Item
<1>5. DOMAIN full = 1 .. Len(full)
  BY <1>2, LenProperties
<1> QED BY <1>2, <1>3, <1>4, <1>5

\* The partial concatenations of seqs, of which FlattenSeq takes the last.
Concatenates(f, seqs, n) ==
  \A i \in 1 .. n : f[i] = IF i = 1 THEN seqs[i] ELSE f[i - 1] \o seqs[i]

LEMMA ConcatenationExists ==
  ASSUME NEW V, NEW seqs \in Seq(Seq(V))
  PROVE  \E f \in [1 .. Len(seqs) -> Seq(V)] : Concatenates(f, seqs, Len(seqs))
<1> DEFINE A == {n \in Nat : n <= Len(seqs) =>
                               \E f \in [1 .. n -> Seq(V)] : Concatenates(f, seqs, n)}
<1>1. 0 \in A
  <2>1. [i \in 1 .. 0 |-> <<>>] \in [1 .. 0 -> Seq(V)]
    OBVIOUS
  <2>2. Concatenates([i \in 1 .. 0 |-> <<>>], seqs, 0)
    BY DEF Concatenates
  <2> QED BY <2>1, <2>2
<1>2. ASSUME NEW n \in Nat, n \in A  PROVE n + 1 \in A
  <2> SUFFICES ASSUME n + 1 <= Len(seqs)
               PROVE  \E f \in [1 .. n + 1 -> Seq(V)] : Concatenates(f, seqs, n + 1)
    OBVIOUS
  <2>0. Len(seqs) \in Nat
    BY LenProperties
  <2>1. PICK f \in [1 .. n -> Seq(V)] : Concatenates(f, seqs, n)
    BY <1>2, <2>0
  <2>2. PICK s \in Seq(V) : s = seqs[n + 1]
    BY <2>0, ElementOfSeq
  <2>3. PICK t \in Seq(V) : t = IF n = 0 THEN s ELSE f[n] \o s
    <3>1. n # 0 => f[n] \o s \in Seq(V)
      BY ConcatProperties
    <3> QED BY <3>1
  <2> DEFINE g == [i \in 1 .. n + 1 |-> IF i = n + 1 THEN t ELSE f[i]]
  <2>4. g \in [1 .. n + 1 -> Seq(V)]
    OBVIOUS
  <2>5. /\ \A i \in 1 .. n : g[i] = f[i]
        /\ g[n + 1] = t
    OBVIOUS
  <2> HIDE DEF g
  <2>6. \A i \in 1 .. n + 1 : g[i] = IF i = 1 THEN seqs[i] ELSE g[i - 1] \o seqs[i]
    <3> TAKE i \in 1 .. n + 1
    <3>1. CASE i = n + 1
      <4>1. n # 0 => g[i - 1] = f[n]
        BY <2>5, <3>1
      <4> QED BY <2>2, <2>3, <2>5, <3>1, <4>1
    <3>2. CASE i # n + 1
      <4>1. i \in 1 .. n /\ (i # 1 => i - 1 \in 1 .. n)
        BY <3>2
      <4> QED BY <2>1, <2>5, <4>1 DEF Concatenates
    <3> QED BY <3>1, <3>2
  <2> QED BY <2>4, <2>6 DEF Concatenates
<1> HIDE DEF A
<1>3. Len(seqs) \in Nat /\ Len(seqs) \in A
  BY <1>1, <1>2, NatInduct, LenProperties
<1> QED BY <1>3 DEF A

LEMMA FlattenConcatenates ==
  ASSUME NEW V, NEW seqs \in Seq(Seq(V)), seqs # <<>>
  PROVE  \E f \in [1 .. Len(seqs) -> Seq(V)] :
           Concatenates(f, seqs, Len(seqs)) /\ FlattenSeq(seqs) = f[Len(seqs)]
<1> DEFINE n == Len(seqs)
           Is(f) == f = [i \in 1 .. n |-> IF i = 1 THEN seqs[i] ELSE f[i - 1] \o seqs[i]]
           c == CHOOSE f : Is(f)
<1>1. n \in Nat \ {0}
  BY EmptySeq
<1>2. FlattenSeq(seqs) = c[n]
  BY <1>1 DEF FlattenSeq
<1>3. PICK f \in [1 .. n -> Seq(V)] : Concatenates(f, seqs, n)
  BY ConcatenationExists
<1>4. Is(f)
  BY <1>3 DEF Concatenates
<1>5. Is(c)
  BY <1>4
<1> HIDE DEF c
<1>6. c = f
  <2> DEFINE A == {k \in Nat : k \in 1 .. n => c[k] = f[k]}
  <2>0. /\ \A i \in 1 .. n : c[i] = IF i = 1 THEN seqs[i] ELSE c[i - 1] \o seqs[i]
        /\ \A i \in 1 .. n : f[i] = IF i = 1 THEN seqs[i] ELSE f[i - 1] \o seqs[i]
        /\ DOMAIN c = 1 .. n /\ c = [i \in 1 .. n |-> c[i]]
        /\ f = [i \in 1 .. n |-> f[i]]
    BY <1>4, <1>5
  <2> HIDE DEF Is, n
  <2>1. 0 \in A
    OBVIOUS
  <2>2. ASSUME NEW k \in Nat, k \in A  PROVE k + 1 \in A
    <3> SUFFICES ASSUME k + 1 \in 1 .. n PROVE c[k + 1] = f[k + 1]
      OBVIOUS
    <3>1. CASE k = 0
      <4>1. 1 \in 1 .. n
        BY <1>1
      <4>2. c[1] = seqs[1] /\ f[1] = seqs[1]
        BY <2>0, <4>1
      <4> QED BY <3>1, <4>2
    <3>2. CASE k # 0
      <4>1. k \in 1 .. n /\ c[k] = f[k] /\ (k + 1) - 1 = k /\ k + 1 # 1
        BY <1>1, <2>2, <3>2
      <4>2. c[k + 1] = c[k] \o seqs[k + 1] /\ f[k + 1] = f[k] \o seqs[k + 1]
        BY <2>0, <4>1
      <4> QED BY <4>1, <4>2
    <3> QED BY <3>1, <3>2
  <2> HIDE DEF A
  <2>3. Nat \subseteq A
    BY <2>1, <2>2, NatInduct
  <2>4. \A k \in 1 .. n : c[k] = f[k]
    BY <1>1, <2>3 DEF A
  <2> QED BY <2>0, <2>4
<1> QED BY <1>2, <1>3, <1>6

LEMMA BlocksExtracted ==
  ASSUME NEW doc \in Seq(Page)
  PROVE  ExtractBlocks(doc) \in Seq(Block)
<1>1. PICK boilerplate : boilerplate = DetectBoilerplate(doc)
  OBVIOUS
<1> DEFINE ofPage(p) == TablesToItems(TablesOf(doc[p]), p)
                          \o LinesToItems(LinesOf(doc[p]), p, boilerplate)
           seqs == [p \in DOMAIN doc |-> ofPage(p)]
<1>2. ExtractBlocks(doc) = FlattenSeq(seqs)
  BY <1>1 DEF ExtractBlocks
<1>3. Len(doc) \in Nat /\ DOMAIN doc = 1 .. Len(doc)
  BY LenProperties
<1>4. ASSUME NEW p \in 1 .. Len(doc)  PROVE ofPage(p) \in Seq(Block)
  <2>1. PICK page \in Page : page = doc[p]
    BY ElementOfSeq
  <2>2. TablesOf(page) \in Seq(Nat) /\ LinesOf(page) \in Seq(Line)
    BY DEF Page, TablesOf, LinesOf
  <2>3. p \in Nat \ {0}
    BY <1>3
  <2>4. /\ TablesToItems(TablesOf(page), p) \in Seq(Block)
        /\ LinesToItems(LinesOf(page), p, boilerplate) \in Seq(Block)
    BY <2>2, <2>3, TablesAreBlocks, LinesAreBlocks
  <2> QED BY <2>1, <2>4, ConcatProperties
<1> HIDE DEF ofPage
<1>5. seqs \in Seq(Seq(Block)) /\ Len(seqs) = Len(doc)
  BY <1>3, <1>4
<1> HIDE DEF seqs
<1>6. CASE seqs = <<>>
  BY <1>2, <1>6 DEF FlattenSeq
<1>7. CASE seqs # <<>>
  <2>1. PICK f \in [1 .. Len(seqs) -> Seq(Block)] : FlattenSeq(seqs) = f[Len(seqs)]
    BY <1>5, <1>7, FlattenConcatenates
  <2>2. Len(seqs) \in 1 .. Len(seqs)
    BY <1>5, <1>7, EmptySeq
  <2> QED BY <1>2, <2>1, <2>2
<1> QED BY <1>6, <1>7

-----------------------------------------------------------------------------
(* Texts, cut and put together.                                            *)

LEMMA Limits ==
  /\ TargetTokens \in Nat \ {0} /\ MaxTokens \in Nat /\ MinTokens \in Nat \ {0}
  /\ OverlapTokens \in Nat /\ BatchSize \in Nat \ {0}
  /\ MinTokens <= OverlapTokens /\ MinTokens <= TargetTokens
  /\ TargetTokens + OverlapTokens <= MaxTokens
BY IndexingAssumption

LEMMA TruncateShape ==
  ASSUME NEW S, NEW text \in Seq(S), NEW limit \in Nat
  PROVE  /\ Truncate(text, limit) \in Seq(S)
         /\ Len(Truncate(text, limit)) = Least(limit, Len(text))
         /\ Least(limit, Len(text)) \in Nat /\ Least(limit, Len(text)) <= limit
         /\ Least(limit, Len(text)) <= Len(text)
         /\ \A i \in 1 .. Least(limit, Len(text)) : Truncate(text, limit)[i] = text[i]
<1>0. Len(text) \in Nat
  BY LenProperties
<1>1. PICK n \in Nat : n = Least(limit, Len(text)) /\ n <= Len(text) /\ n <= limit
  BY <1>0 DEF Least
<1>2. /\ SubSeq(text, 0 + 1, n) \in Seq(S)
      /\ Len(SubSeq(text, 0 + 1, n)) = n - 0
      /\ \A i \in 1 .. n - 0 : SubSeq(text, 0 + 1, n)[i] = text[0 + i]
  BY <1>1, SubSeqShape
<1>3. Truncate(text, limit) = SubSeq(text, 1, n)
  BY <1>1 DEF Truncate
<1> QED BY <1>1, <1>2, <1>3

\* How many tokens a tail leaves out.
LeftOut(text, limit) == Most(0, Len(text) - limit)

LEMMA TailShape ==
  ASSUME NEW S, NEW text \in Seq(S), NEW limit \in Nat
  PROVE  /\ LeftOut(text, limit) \in Nat /\ LeftOut(text, limit) <= Len(text)
         /\ Tail_(text, limit) \in Seq(S)
         /\ Len(Tail_(text, limit)) = Len(text) - LeftOut(text, limit)
         /\ \A i \in 1 .. Len(text) - LeftOut(text, limit) :
              Tail_(text, limit)[i] = text[LeftOut(text, limit) + i]
         /\ Len(Tail_(text, limit)) = Least(limit, Len(text))
<1>0. Len(text) \in Nat
  BY LenProperties
<1>1. PICK m \in Nat : m = LeftOut(text, limit) /\ m = Most(0, Len(text) - limit) /\ m <= Len(text)
  BY <1>0 DEF LeftOut, Most
<1>2. /\ SubSeq(text, m + 1, Len(text)) \in Seq(S)
      /\ Len(SubSeq(text, m + 1, Len(text))) = Len(text) - m
      /\ \A i \in 1 .. Len(text) - m : SubSeq(text, m + 1, Len(text))[i] = text[m + i]
  BY <1>0, <1>1, SubSeqShape
<1>3. Most(1, Len(text) - limit + 1) = m + 1
  BY <1>0, <1>1 DEF Most
<1>5. Len(text) - m = Least(limit, Len(text))
  <2>1. \A x, y \in Nat : x - Most(0, x - y) = Least(y, x)
    BY DEF Most, Least
  <2> QED BY <1>0, <1>1, <2>1
<1>4. Tail_(text, limit) = SubSeq(text, m + 1, Len(text))
  BY <1>3 DEF Tail_
<1> QED BY <1>1, <1>2, <1>4, <1>5

LEMMA TokensShape ==
  ASSUME items \in Seq(Item), NEW i \in 1 .. Len(items)
  PROVE  /\ items[i].size \in Nat /\ items[i].page \in Nat
         /\ TokensOf(i) \in Seq(Token) /\ Len(TokensOf(i)) = items[i].size
         /\ \A n \in 1 .. items[i].size : TokensOf(i)[n] = <<i, n>>
<1>1. items[i] \in Item /\ i \in Nat
  BY ElementOfSeq, LenProperties
<1>2. items[i].size \in Nat /\ items[i].page \in Nat
  BY <1>1 DEF Item
<1> DEFINE tokens == TokensOf(i)
           size == items[i].size
<1>3. tokens = [n \in 1 .. size |-> <<i, n>>]
  BY DEF TokensOf
<1>4. size \in Nat /\ \A n \in 1 .. size : <<i, n>> \in Token
  BY <1>1, <1>2 DEF Token
<1> HIDE DEF tokens, size
<1>5. tokens \in Seq(Token) /\ Len(tokens) = size /\ \A n \in 1 .. size : tokens[n] = <<i, n>>
  BY <1>3, <1>4
<1> QED BY <1>2, <1>5 DEF tokens, size

LEMMA EmptyShape == EmptyAcc \in Acc /\ EmptyAcc.text = <<>> /\ Len(EmptyAcc.text) = 0
BY EmptySeq DEF EmptyAcc, Acc

LEMMA AccShape ==
  ASSUME NEW a \in Acc
  PROVE  a.text \in Seq(Token) /\ a.page \in Nat /\ Len(a.text) \in Nat
         /\ DOMAIN a.text = 1 .. Len(a.text)
BY LenProperties DEF Acc

LEMMA AddShape ==
  ASSUME NEW a \in Acc, NEW text \in Seq(Token), NEW page \in Nat
  PROVE  /\ Add(a, text, page) \in Acc
         /\ Add(a, text, page).text = a.text \o text
         /\ Add(a, text, page).page = IF a.page = 0 THEN page ELSE a.page
         /\ Len(Add(a, text, page).text) = Len(a.text) + Len(text)
<1>1. a.text \in Seq(Token) /\ a.page \in Nat
  BY DEF Acc
<1>2. /\ a.text \o text \in Seq(Token)
      /\ Len(a.text \o text) = Len(a.text) + Len(text)
  BY <1>1, ConcatProperties
<1> QED BY <1>1, <1>2 DEF Add, Acc

\* What is kept of a text that was flushed is nothing or its last tokens.
Dropped(a) ==
  IF a.text = <<>> \/ Folds(a.text) THEN Len(a.text) ELSE LeftOut(a.text, OverlapTokens)

LEMMA RemainingShape ==
  ASSUME NEW a \in Acc
  PROVE  /\ Remaining(a) \in Acc /\ Remaining(a).page = 0
         /\ a.text = <<>> \/ Folds(a.text) => Remaining(a) = EmptyAcc
         /\ ~(a.text = <<>> \/ Folds(a.text)) =>
              Len(Remaining(a).text) = Least(OverlapTokens, Len(a.text))
         /\ Dropped(a) \in Nat
         /\ Len(Remaining(a).text) = Len(a.text) - Dropped(a)
         /\ \A i \in 1 .. Len(a.text) - Dropped(a) :
              Remaining(a).text[i] = a.text[Dropped(a) + i]
         /\ Len(Remaining(a).text) <= OverlapTokens
<1>0. a.text \in Seq(Token) /\ Len(a.text) \in Nat /\ OverlapTokens \in Nat
  BY Limits, AccShape
<1>1. CASE a.text = <<>> \/ Folds(a.text)
  <2>1. Remaining(a) = EmptyAcc /\ Dropped(a) = Len(a.text)
    BY <1>1 DEF Remaining, Dropped
  <2>2. /\ Len(a.text) - Len(a.text) = 0
        /\ \A i \in 1 .. 0 : Remaining(a).text[i] = a.text[Len(a.text) + i]
    BY <1>0
  <2>3. Remaining(a).page = 0
    BY <2>1 DEF EmptyAcc
  <2> QED BY <1>0, <1>1, <2>1, <2>2, <2>3, EmptyShape
<1>2. CASE ~(a.text = <<>> \/ Folds(a.text))
  <2> DEFINE text == a.text
  <2>1. Remaining(a) = [text |-> Tail_(text, OverlapTokens), page |-> 0]
        /\ Dropped(a) = LeftOut(text, OverlapTokens)
    BY <1>2 DEF Remaining, Dropped
  <2>2. text \in Seq(Token) /\ text = a.text
    BY <1>0
  <2> HIDE DEF text
  <2>3. /\ LeftOut(text, OverlapTokens) \in Nat
        /\ Tail_(text, OverlapTokens) \in Seq(Token)
        /\ Len(Tail_(text, OverlapTokens)) = Len(text) - LeftOut(text, OverlapTokens)
        /\ \A i \in 1 .. Len(text) - LeftOut(text, OverlapTokens) :
             Tail_(text, OverlapTokens)[i] = text[LeftOut(text, OverlapTokens) + i]
        /\ Len(Tail_(text, OverlapTokens)) = Least(OverlapTokens, Len(text))
    BY <1>0, <2>2, TailShape
  <2>4. /\ Remaining(a) \in Acc /\ Remaining(a).text = Tail_(text, OverlapTokens)
        /\ Remaining(a).page = 0
    BY <2>1, <2>3 DEF Acc
  <2>5. Least(OverlapTokens, Len(text)) <= OverlapTokens
    BY <1>0, <2>2 DEF Least
  <2> QED BY <1>2, <2>1, <2>2, <2>3, <2>4, <2>5
<1> QED BY <1>1, <1>2

\* A chunk that flush adds.
NewChunk(a) == [body |-> a.text, section |-> stack, page |-> Most(1, a.page)]

\* What flush does to the chunks: nothing, a text folded into the last one, or a
\* new one.
LEMMA FlushedShape ==
  ASSUME chunks \in Seq(Chunk), stack \in Seq(Nat), NEW a \in Acc
  PROVE  /\ Flushed(a) \in Seq(Chunk)
         /\ a.text = <<>> => Flushed(a) = chunks
         /\ a.text # <<>> /\ Folds(a.text) =>
              LET n == Len(chunks) IN
              /\ n # 0
              /\ Len(Flushed(a)) = n
              /\ \A k \in 1 .. n - 1 : Flushed(a)[k] = chunks[k]
              /\ Flushed(a)[n] = [chunks[n] EXCEPT !.body = @ \o a.text]
         /\ a.text # <<>> /\ ~Folds(a.text) =>
              /\ Len(Flushed(a)) = Len(chunks) + 1
              /\ \A k \in 1 .. Len(chunks) : Flushed(a)[k] = chunks[k]
              /\ Flushed(a)[Len(chunks) + 1] = NewChunk(a)
<1>0. a.text \in Seq(Token) /\ Len(chunks) \in Nat /\ a.page \in Nat
  BY AccShape, LenProperties
<1>1. CASE a.text = <<>>
  BY <1>1 DEF Flushed
<1>2. CASE a.text # <<>> /\ Folds(a.text)
  <2> DEFINE n == Len(chunks)
             c == [chunks[n] EXCEPT !.body = @ \o a.text]
  <2>1. n \in 1 .. Len(chunks)
    BY <1>0, <1>2, EmptySeq DEF Folds
  <2>2. chunks[n] \in Chunk
    BY <2>1, ElementOfSeq
  <2>3. chunks[n].body \o a.text \in Seq(Token)
    BY <1>0, <2>2, ConcatProperties DEF Chunk
  <2>4. c \in Chunk
    BY <2>2, <2>3 DEF Chunk
  <2>5. Flushed(a) = [chunks EXCEPT ![n] = c]
    BY <1>2, <2>1, <2>2 DEF Flushed
  <2> HIDE DEF c
  <2>6. /\ Flushed(a) \in Seq(Chunk)
        /\ Len(Flushed(a)) = Len(chunks)
        /\ \A k \in 1 .. Len(chunks) : Flushed(a)[k] = IF k = n THEN c ELSE chunks[k]
    BY <2>1, <2>4, <2>5, ExceptSeq
  <2>7. \A k \in 1 .. n - 1 : k \in 1 .. n /\ k # n
    BY <1>0
  <2>8. n # 0 /\ Len(Flushed(a)) = n
    BY <1>0, <2>1, <2>6
  <2>10. Flushed(a)[n] = c
    BY <2>1, <2>6
  <2>9. \A k \in 1 .. n - 1 : Flushed(a)[k] = chunks[k]
    BY <2>6, <2>7
  <2> QED BY <1>2, <2>6, <2>8, <2>9, <2>10 DEF c
<1>3. CASE a.text # <<>> /\ ~Folds(a.text)
  <2>1. NewChunk(a) \in Chunk
    BY <1>0 DEF Chunk, NewChunk, Most
  <2>2. Flushed(a) = Append(chunks, NewChunk(a))
    BY <1>3 DEF Flushed, NewChunk
  <2> QED BY <1>3, <2>1, <2>2, AppendProperties
<1> QED BY <1>1, <1>2, <1>3

-----------------------------------------------------------------------------
(* What the embeddings API answers, put in order.                          *)

LEMMA ResponseIsSorted ==
  ASSUME NEW S \in SUBSET Nat, IsFiniteSet(S), NEW response \in SetToSeqs(S)
  PROVE  ByIndex(response) = InOrder(S)
<1> DEFINE n == Cardinality(S)
<1>1. n \in Nat
  BY FS_CardinalityType
<1>2. response \in [1 .. n -> S] /\ \A i, j \in 1 .. n : i # j => response[i] # response[j]
  BY DEF SetToSeqs
<1>3. IsFiniteSet(1 .. n) /\ Cardinality(1 .. n) = n
  BY <1>1, FS_Interval
<1> HIDE DEF n
<1>4. response \in Injection(1 .. n, S)
  BY <1>2, Fun_IsInj
<1>5. response \in Surjection(1 .. n, S)
  BY <1>3, <1>4, FS_Injection DEF n
<1>6. ToSet(response) = S
  <2>1. DOMAIN response = 1 .. n
    BY <1>2
  <2>2. \A x \in S : \E i \in 1 .. n : response[i] = x
    BY <1>5 DEF Surjection
  <2>3. \A i \in 1 .. n : response[i] \in S
    BY <1>2
  <2> QED BY <2>1, <2>2, <2>3 DEF ToSet
<1> QED BY <1>6 DEF ByIndex

LEMMA IntervalInOrder ==
  ASSUME NEW a \in Nat, NEW b \in Nat, a <= b
  PROVE  InOrder(a + 1 .. b) = [k \in 1 .. b - a |-> a + k]
<1> DEFINE S == a + 1 .. b
           f == [k \in 1 .. b - a |-> a + k]
<1>1. S \in SUBSET Nat /\ b - a \in Nat
  OBVIOUS
<1>2. f \in [1 .. b - a -> S]
  OBVIOUS
<1>3. Increasing(f)
  BY DEF Increasing
<1>4. \A m \in S : \E k \in 1 .. b - a : f[k] = m
  <2> TAKE m \in S
  <2>1. m - a \in 1 .. b - a /\ a + (m - a) = m
    OBVIOUS
  <2> QED BY <2>1
<1> HIDE DEF f, S
<1>5. f = InOrder(S)
  BY <1>1, <1>2, <1>3, <1>4, InOrderOnly
<1> QED BY <1>5 DEF f, S

\* Where a batch ends.
BatchEnd == Least(sent + BatchSize, Len(chunks))

\* The vectors of a batch: those of all its chunks in order, or fewer.
LEMMA BatchShape ==
  ASSUME TypeOK, sent < Len(chunks), NEW response \in Responses
  PROVE  /\ BatchEnd \in Nat /\ sent < BatchEnd /\ BatchEnd <= Len(chunks)
         /\ ByIndex(response) \in Seq(Nat) /\ Len(ByIndex(response)) <= BatchEnd - sent
         /\ Len(ByIndex(response)) = BatchEnd - sent =>
              ByIndex(response) = [k \in 1 .. BatchEnd - sent |-> sent + k]
<1>0. sent \in Nat /\ Len(chunks) \in Nat /\ BatchSize \in Nat \ {0}
  BY LenProperties, Limits DEF TypeOK
<1>1. /\ BatchEnd \in Nat /\ sent < BatchEnd /\ BatchEnd <= Len(chunks)
      /\ BatchEnd - sent \in Nat /\ sent <= BatchEnd
  BY <1>0 DEF BatchEnd, Least
<1>2. Batch = sent + 1 .. BatchEnd
  BY DEF Batch, BatchEnd
<1> DEFINE B == sent + 1 .. BatchEnd
<1>3. /\ IsFiniteSet(B) /\ B \in SUBSET Nat
      /\ Cardinality(B) = BatchEnd - sent
  <2>1. IsFiniteSet(B) /\ Cardinality(B) = IF sent + 1 > BatchEnd THEN 0 ELSE BatchEnd - (sent + 1) + 1
    BY <1>0, <1>1, FS_Interval
  <2>2. ~(sent + 1 > BatchEnd) /\ BatchEnd - (sent + 1) + 1 = BatchEnd - sent
    BY <1>0, <1>1
  <2>3. B \in SUBSET Nat
    BY <1>0, <1>1
  <2> QED BY <2>1, <2>2, <2>3
<1>4. PICK S \in SUBSET Batch : response \in SetToSeqs(S)
  BY DEF Responses
<1>5. S \in SUBSET Nat /\ IsFiniteSet(S) /\ S \in SUBSET B
  <2>1. S \in SUBSET B
    BY <1>2
  <2> HIDE DEF B
  <2>2. IsFiniteSet(S)
    BY <1>3, <2>1, FS_Subset
  <2> QED BY <1>3, <2>1, <2>2
<1> HIDE DEF B
<1>6. ByIndex(response) = InOrder(S)
  BY <1>4, <1>5, ResponseIsSorted
<1>7. /\ Cardinality(S) \in Nat /\ InOrder(S) \in [1 .. Cardinality(S) -> S]
  BY <1>5, InOrderLists
<1>8. Cardinality(S) <= Cardinality(B) /\ (Cardinality(S) = Cardinality(B) => S = B)
  BY <1>3, <1>5, FS_Subset
<1>9. InOrder(S) \in Seq(Nat) /\ Len(InOrder(S)) = Cardinality(S)
  <2>1. InOrder(S) \in [1 .. Cardinality(S) -> Nat]
    BY <1>5, <1>7
  <2> QED BY <1>7, <2>1
<1>10. InOrder(B) = [k \in 1 .. BatchEnd - sent |-> sent + k]
  BY <1>0, <1>1, IntervalInOrder DEF B
<1> QED BY <1>1, <1>3, <1>6, <1>8, <1>9, <1>10

-----------------------------------------------------------------------------
(* The shape of the state, and what the chunker makes of it.               *)

\* Before the extraction nothing is there.
Untouched ==
  /\ items = <<>> /\ next = 1 /\ rest = <<>> /\ stack = <<>>
  /\ acc = EmptyAcc /\ chunks = <<>> /\ sent = 0 /\ vectors = <<>>

\* The sentence that is being cut is the last item taken.
RestTaken ==
  rest # <<>> => /\ phase = "chunk"
                 /\ next - 1 \in 1 .. Len(items)
                 /\ items[next - 1].kind = "sentence"

\* The vectors that came back are fewer than were sent for, or they are in order.
InStep ==
  /\ Len(vectors) <= sent
  /\ Len(vectors) = sent => vectors = [k \in 1 .. sent |-> k]
  /\ phase \in {"extract", "chunk"} => sent = 0

ShapeInv ==
  /\ TypeOK /\ VectorsMatch
  /\ pages \in Seq(Page) /\ items \in Seq(Block)
  /\ next <= Len(items) + 1
  /\ \A m \in DOMAIN stack : stack[m] \in 1 .. next - 1
  /\ phase = "extract" => Untouched
  /\ RestTaken /\ InStep

LEMMA ShapeFacts ==
  ASSUME ShapeInv
  PROVE  /\ items \in Seq(Item) /\ Len(items) \in Nat /\ next \in Nat \ {0}
         /\ rest \in Seq(Token) /\ stack \in Seq(Nat) /\ acc \in Acc
         /\ chunks \in Seq(Chunk) /\ Len(chunks) \in Nat
         /\ Len(stack) \in Nat /\ DOMAIN stack = 1 .. Len(stack)
         /\ DOMAIN chunks = 1 .. Len(chunks) /\ DOMAIN items = 1 .. Len(items)
         /\ sent \in Nat /\ vectors \in Seq(Nat) /\ Len(vectors) \in Nat
BY LenProperties DEF ShapeInv, TypeOK

\* What every step of the chunker leaves alone.
LEMMA ChunkerStep ==
  ASSUME ShapeInv,
         TakeHeading \/ TakeTable \/ TakeSentence \/ TakeLong \/ SplitLong \/ LastFlush
  PROVE  /\ phase = "chunk" /\ phase' \in {"chunk", "embed", "failed"}
         /\ ~LastFlush => phase' = "chunk"
         /\ UNCHANGED <<pages, items, sent, vectors>>
         /\ ~SplitLong => rest = <<>>
         /\ TakeHeading => UNCHANGED rest /\ next \in 1 .. Len(items) /\ items[next].kind = "heading"
         /\ TakeTable => UNCHANGED <<rest, stack>> /\ next \in 1 .. Len(items) /\ items[next].kind = "table"
         /\ TakeSentence => UNCHANGED <<rest, stack>> /\ next \in 1 .. Len(items) /\ items[next].kind = "sentence"
         /\ TakeLong => UNCHANGED stack /\ next \in 1 .. Len(items) /\ items[next].kind = "sentence"
         /\ LastFlush => UNCHANGED <<next, rest, stack>>
         /\ SplitLong => /\ UNCHANGED <<next, stack>> /\ rest # <<>> /\ next - 1 \in 1 .. Len(items)
                         /\ items[next - 1].kind = "sentence"
<1>0. next \in Nat \ {0} /\ RestTaken /\ Len(items) \in Nat
  BY ShapeFacts DEF ShapeInv
<1>1. CASE TakeHeading
  BY <1>0, <1>1 DEF TakeHeading, Taking, TakeTable, TakeSentence, TakeLong, SplitLong, LastFlush
<1>2. CASE TakeTable
  BY <1>0, <1>2 DEF TakeHeading, Taking, TakeTable, TakeSentence, TakeLong, SplitLong, LastFlush
<1>3. CASE TakeSentence
  BY <1>0, <1>3 DEF TakeHeading, Taking, TakeTable, TakeSentence, TakeLong, SplitLong, LastFlush
<1>4. CASE TakeLong
  BY <1>0, <1>4 DEF TakeHeading, Taking, TakeTable, TakeSentence, TakeLong, SplitLong, LastFlush
<1>5. CASE SplitLong
  BY <1>0, <1>5 DEF TakeHeading, Taking, TakeTable, TakeSentence, TakeLong, SplitLong, LastFlush, RestTaken
<1>6. CASE LastFlush
  BY <1>0, <1>6 DEF TakeHeading, Taking, TakeTable, TakeSentence, TakeLong, SplitLong, LastFlush
<1> QED BY <1>1, <1>2, <1>3, <1>4, <1>5, <1>6

\* The piece of a long sentence that is cut off next, and what flush is given.
Piece == Truncate(rest, TargetTokens)
WithPiece == Add(acc, Piece, items[next - 1].page)

LEMMA PieceShape ==
  ASSUME ShapeInv, SplitLong
  PROVE  /\ Piece \in Seq(Token) /\ Len(Piece) = Least(TargetTokens, Len(rest))
         /\ Len(Piece) \in Nat \ {0} /\ Len(Piece) <= Len(rest) /\ Len(rest) \in Nat
         /\ Len(Piece) <= TargetTokens
         /\ \A n \in 1 .. Len(Piece) : Piece[n] = rest[n]
         /\ rest' \in Seq(Token) /\ Len(rest') = Len(rest) - Len(Piece)
         /\ \A n \in 1 .. Len(rest) - Len(Piece) : rest'[n] = rest[Len(Piece) + n]
         /\ WithPiece \in Acc /\ WithPiece.text = acc.text \o Piece
         /\ WithPiece.page = IF acc.page = 0 THEN items[next - 1].page ELSE acc.page
         /\ Len(WithPiece.text) = Len(acc.text) + Len(Piece)
         /\ chunks' = Flushed(WithPiece) /\ acc' = Remaining(WithPiece)
<1>0. rest \in Seq(Token) /\ rest # <<>> /\ Len(rest) \in Nat \ {0} /\ acc \in Acc
  BY ShapeFacts, EmptySeq DEF SplitLong
<1>1. TargetTokens \in Nat \ {0}
  BY Limits
<1>2. /\ Piece \in Seq(Token) /\ Len(Piece) = Least(TargetTokens, Len(rest))
      /\ \A n \in 1 .. Least(TargetTokens, Len(rest)) : Piece[n] = rest[n]
  BY <1>0, <1>1, TruncateShape DEF Piece
<1>3. Len(Piece) \in Nat \ {0} /\ Len(Piece) <= Len(rest) /\ Len(Piece) <= TargetTokens
  BY <1>0, <1>1, <1>2 DEF Least
<1>4. rest' = SubSeq(rest, Len(Piece) + 1, Len(rest))
  BY DEF SplitLong, Piece
<1>5. PICK m \in Nat : m = Len(Piece) /\ m <= Len(rest)
  BY <1>3
<1>6. /\ SubSeq(rest, m + 1, Len(rest)) \in Seq(Token)
      /\ Len(SubSeq(rest, m + 1, Len(rest))) = Len(rest) - m
      /\ \A i \in 1 .. Len(rest) - m : SubSeq(rest, m + 1, Len(rest))[i] = rest[m + i]
  BY <1>0, <1>5, SubSeqShape
<1>7. items[next - 1].page \in Nat
  BY ChunkerStep, ShapeFacts, TokensShape
<1>8. /\ WithPiece \in Acc /\ WithPiece.text = acc.text \o Piece
      /\ WithPiece.page = IF acc.page = 0 THEN items[next - 1].page ELSE acc.page
      /\ Len(WithPiece.text) = Len(acc.text) + Len(Piece)
  BY <1>0, <1>2, <1>7, AddShape DEF WithPiece
<1>9. chunks' = Flushed(WithPiece) /\ acc' = Remaining(WithPiece)
  BY DEF SplitLong, WithPiece, Piece
<1> QED BY <1>0, <1>2, <1>3, <1>4, <1>5, <1>6, <1>8, <1>9

\* How many headings a heading of a level leaves on the stack.
Leaves(n, level) ==
  /\ n \in 0 .. Len(stack)
  /\ n > 0 => items[stack[n]].level < level
  /\ \A m \in (n + 1) .. Len(stack) : items[stack[m]].level >= level

LEMMA PoppedShape ==
  ASSUME ShapeInv, NEW level \in Nat
  PROVE  \E n \in Nat : Leaves(n, level) /\ Popped(stack, level) = SubSeq(stack, 1, n)
<1>0. /\ Len(stack) \in Nat /\ DOMAIN stack = 1 .. Len(stack) /\ items \in Seq(Item)
      /\ Len(items) \in Nat /\ next \in Nat \ {0} /\ next <= Len(items) + 1
  BY ShapeFacts DEF ShapeInv
<1>1. \A m \in 1 .. Len(stack) : items[stack[m]].level \in Nat
  <2> TAKE m \in 1 .. Len(stack)
  <2>1. stack[m] \in 1 .. Len(items)
    BY <1>0 DEF ShapeInv
  <2>2. items[stack[m]] \in Item
    BY <1>0, <2>1, ElementOfSeq
  <2> QED BY <2>2 DEF Item
<1> DEFINE A == {n \in 0 .. Len(stack) : \A m \in (n + 1) .. Len(stack) :
                                          items[stack[m]].level >= level}
<1>2. \E n \in A : \A m \in A : n <= m
  <2>1. A \in SUBSET Nat
    OBVIOUS
  <2>2. Len(stack) \in A
    BY <1>0
  <2> HIDE DEF A
  <2> QED BY <2>1, <2>2, LeastNumber
<1>3. PICK n \in A : \A m \in A : n <= m
  BY <1>2
<1>4. n > 0 => items[stack[n]].level < level
  <2> SUFFICES ASSUME n > 0, ~(items[stack[n]].level < level) PROVE FALSE
    OBVIOUS
  <2>0. n \in Nat /\ n \in 1 .. Len(stack) /\ items[stack[n]].level \in Nat
    BY <1>0, <1>1
  <2>1. items[stack[n]].level >= level
    BY <2>0
  <2>2. \A m \in ((n - 1) + 1) .. Len(stack) : m = n \/ m \in (n + 1) .. Len(stack)
    BY <1>0, <2>0
  <2>3. n - 1 \in A
    BY <1>0, <2>0, <2>1, <2>2
  <2> HIDE DEF A
  <2>4. n <= n - 1
    BY <1>3, <2>3
  <2> QED BY <2>0, <2>4
<1>5. Leaves(n, level)
  BY <1>4 DEF Leaves
<1> HIDE DEF A
<1> DEFINE c == CHOOSE i \in 0 .. Len(stack) :
                  /\ i > 0 => items[stack[i]].level < level
                  /\ \A m \in (i + 1) .. Len(stack) : items[stack[m]].level >= level
<1>6. Leaves(c, level)
  BY <1>5 DEF Leaves
<1>7. Popped(stack, level) = SubSeq(stack, 1, c)
  BY DEF Popped
<1> HIDE DEF c
<1>8. c \in Nat
  BY <1>0, <1>6 DEF Leaves
<1> QED BY <1>6, <1>7, <1>8

\* A heading goes on top of those above it.
LEMMA PushShape ==
  ASSUME ShapeInv, TakeHeading
  PROVE  \E n \in Nat :
           /\ Leaves(n, items[next].level)
           /\ stack' \in Seq(Nat) /\ Len(stack') = n + 1
           /\ \A m \in 1 .. n : stack'[m] = stack[m]
           /\ stack'[n + 1] = next
<1>0. /\ stack \in Seq(Nat) /\ Len(stack) \in Nat /\ items \in Seq(Item)
      /\ next \in Nat \ {0} /\ next \in 1 .. Len(items)
  BY ShapeFacts, ChunkerStep
<1>1. items[next].level \in Nat
  <2>1. items[next] \in Item
    BY <1>0, ElementOfSeq
  <2> QED BY <2>1 DEF Item
<1>2. PICK n \in Nat : /\ Leaves(n, items[next].level)
                       /\ Popped(stack, items[next].level) = SubSeq(stack, 1, n)
  BY <1>1, PoppedShape
<1>3. n <= Len(stack)
  BY <1>0, <1>2 DEF Leaves
<1>4. /\ SubSeq(stack, 0 + 1, n) \in Seq(Nat) /\ Len(SubSeq(stack, 0 + 1, n)) = n - 0
      /\ \A m \in 1 .. n - 0 : SubSeq(stack, 0 + 1, n)[m] = stack[0 + m]
  BY <1>0, <1>3, SubSeqShape
<1> DEFINE kept == SubSeq(stack, 1, n)
<1>5. /\ kept \in Seq(Nat) /\ Len(kept) = n /\ \A m \in 1 .. n : kept[m] = stack[m]
  BY <1>4
<1>6. stack' = Append(kept, next)
  BY <1>2 DEF TakeHeading, Push
<1> HIDE DEF kept
<1>7. /\ stack' \in Seq(Nat) /\ Len(stack') = n + 1
      /\ \A m \in 1 .. n : stack'[m] = stack[m]
      /\ stack'[n + 1] = next
  <2>1. /\ Append(kept, next) \in Seq(Nat) /\ Len(Append(kept, next)) = Len(kept) + 1
        /\ \A m \in 1 .. Len(kept) : Append(kept, next)[m] = kept[m]
        /\ Append(kept, next)[Len(kept) + 1] = next
    BY <1>0, <1>5, AppendProperties
  <2> QED BY <1>5, <1>6, <2>1
<1> QED BY <1>2, <1>7

LEMMA TypesOfChunker ==
  ASSUME ShapeInv,
         TakeHeading \/ TakeTable \/ TakeSentence \/ TakeLong \/ SplitLong \/ LastFlush
  PROVE  /\ next' \in Nat \ {0} /\ rest' \in Seq(Token) /\ stack' \in Seq(Nat)
         /\ acc' \in Acc /\ chunks' \in Seq(Chunk)
         /\ next' <= Len(items) + 1 /\ RestTaken'
         /\ \A m \in DOMAIN stack' : stack'[m] \in 1 .. next' - 1
<1>0. /\ next \in Nat \ {0} /\ rest \in Seq(Token) /\ stack \in Seq(Nat) /\ acc \in Acc
      /\ chunks \in Seq(Chunk) /\ items \in Seq(Item) /\ Len(items) \in Nat
      /\ next <= Len(items) + 1 /\ Len(stack) \in Nat /\ DOMAIN stack = 1 .. Len(stack)
      /\ \A m \in 1 .. Len(stack) : stack[m] \in 1 .. next - 1
  BY ShapeFacts DEF ShapeInv
<1>k. ASSUME UNCHANGED stack, next' \in Nat, next <= next'
      PROVE  \A m \in DOMAIN stack' : stack'[m] \in 1 .. next' - 1
  BY <1>0, <1>k
<1>1. Flushed(acc) \in Seq(Chunk) /\ EmptyAcc \in Acc /\ Remaining(acc) \in Acc
  BY <1>0, FlushedShape, EmptyShape, RemainingShape
<1>2. CASE TakeHeading
  <2>1. next \in 1 .. Len(items) /\ UNCHANGED rest /\ rest = <<>>
    BY <1>2, ChunkerStep DEF TakeHeading, Taking
  <2>2. PICK n \in Nat :
          /\ Leaves(n, items[next].level)
          /\ stack' \in Seq(Nat) /\ Len(stack') = n + 1
          /\ \A m \in 1 .. n : stack'[m] = stack[m]
          /\ stack'[n + 1] = next
    BY <1>2, PushShape
  <2>3. \A m \in DOMAIN stack' : stack'[m] \in 1 .. next' - 1
    <3>1. DOMAIN stack' = 1 .. n + 1 /\ n <= Len(stack) /\ next' = next + 1
      BY <1>0, <1>2, <2>2, LenProperties DEF Leaves, TakeHeading
    <3>2. ASSUME NEW m \in 1 .. n + 1  PROVE stack'[m] \in 1 .. next
      <4>1. CASE m = n + 1
        BY <1>0, <2>2, <4>1
      <4>2. CASE m # n + 1
        <5>1. m \in 1 .. n /\ m \in 1 .. Len(stack)
          BY <1>0, <3>1, <4>2
        <5>2. stack'[m] \in 1 .. next - 1
          BY <1>0, <2>2, <5>1
        <5> QED BY <1>0, <5>2
      <4> QED BY <4>1, <4>2
    <3>3. next' - 1 = next
      BY <1>0, <3>1
    <3> QED BY <3>1, <3>2, <3>3
  <2> QED BY <1>0, <1>1, <1>2, <2>1, <2>2, <2>3 DEF TakeHeading, RestTaken
<1>3. CASE TakeTable
  <2>1. next \in 1 .. Len(items) /\ UNCHANGED <<rest, stack>> /\ rest = <<>>
    BY <1>3, ChunkerStep DEF TakeTable, Taking
  <2>2. items[next].page \in Nat /\ TokensOf(next) \in Seq(Token)
    BY <1>0, <2>1, TokensShape
  <2>3. Truncate(TokensOf(next), MaxTokens) \in Seq(Token)
    BY <2>2, Limits, TruncateShape
  <2>4. PICK c \in Chunk : c = [body |-> Truncate(TokensOf(next), MaxTokens),
                               section |-> stack, page |-> items[next].page]
    BY <1>0, <2>2, <2>3 DEF Chunk
  <2>5. chunks' = Append(Flushed(acc), c) /\ acc' = EmptyAcc /\ next' = next + 1
    BY <1>3, <2>4 DEF TakeTable
  <2>6. Append(Flushed(acc), c) \in Seq(Chunk)
    BY <1>1, AppendProperties
  <2> QED BY <1>0, <1>1, <1>k, <2>1, <2>5, <2>6 DEF RestTaken
<1>4. CASE TakeSentence
  <2>1. /\ next \in 1 .. Len(items) /\ UNCHANGED <<rest, stack>> /\ rest = <<>>
        /\ next' = next + 1
    BY <1>4, ChunkerStep DEF TakeSentence, Taking
  <2>2. items[next].page \in Nat /\ TokensOf(next) \in Seq(Token)
    BY <1>0, <2>1, TokensShape
  <2>3. /\ Add(Remaining(acc), TokensOf(next), items[next].page) \in Acc
        /\ Add(acc, TokensOf(next), items[next].page) \in Acc
    BY <1>0, <1>1, <2>2, AddShape
  <2> QED BY <1>0, <1>1, <1>4, <1>k, <2>1, <2>3 DEF TakeSentence, RestTaken
<1>5. CASE TakeLong
  <2>1. /\ next \in 1 .. Len(items) /\ UNCHANGED stack /\ items[next].kind = "sentence"
        /\ next' = next + 1 /\ UNCHANGED <<phase, items>> /\ phase = "chunk"
        /\ rest' = TokensOf(next)
    BY <1>5, ChunkerStep DEF TakeLong, Taking
  <2>2. TokensOf(next) \in Seq(Token)
    BY <1>0, <2>1, TokensShape
  <2>3. next' - 1 = next /\ next' <= Len(items) + 1 /\ next' \in Nat \ {0}
    BY <1>0, <2>1
  <2>4. RestTaken'
    BY <2>1, <2>3 DEF RestTaken
  <2> QED BY <1>0, <1>1, <1>5, <1>k, <2>1, <2>2, <2>3, <2>4 DEF TakeLong
<1>6. CASE SplitLong
  <2>1. WithPiece \in Acc /\ rest' \in Seq(Token)
        /\ chunks' = Flushed(WithPiece) /\ acc' = Remaining(WithPiece)
    BY <1>6, PieceShape
  <2>2. Flushed(WithPiece) \in Seq(Chunk) /\ Remaining(WithPiece) \in Acc
    BY <1>0, <2>1, FlushedShape, RemainingShape
  <2>3. /\ UNCHANGED <<next, stack, items, phase>> /\ phase = "chunk"
        /\ next - 1 \in 1 .. Len(items) /\ items[next - 1].kind = "sentence"
    BY <1>6, ChunkerStep DEF SplitLong
  <2> QED BY <1>0, <1>k, <2>1, <2>2, <2>3 DEF RestTaken
<1>7. CASE LastFlush
  BY <1>0, <1>1, <1>7, <1>k DEF LastFlush, RestTaken
<1> QED BY <1>2, <1>3, <1>4, <1>5, <1>6, <1>7

LEMMA ShapeInit == Init => ShapeInv
<1> SUFFICES ASSUME Init PROVE ShapeInv
  OBVIOUS
<1>1. Untouched /\ phase = "extract" /\ pages \in Seq(Page)
  BY InputsAssumption DEF Init, Untouched
<1>2. /\ <<>> \in Seq(Block) /\ <<>> \in Seq(Item) /\ <<>> \in Seq(Token) /\ <<>> \in Seq(Nat)
      /\ <<>> \in Seq(Chunk) /\ Len(<<>>) = 0
  OBVIOUS
<1>3. TypeOK
  BY <1>1, <1>2, EmptyShape DEF Untouched, TypeOK
<1>4. RestTaken /\ VectorsMatch
  BY <1>1 DEF Untouched, RestTaken, VectorsMatch
<1>5. InStep
  <2>1. vectors = <<>> /\ sent = 0 /\ Len(vectors) = 0
    BY <1>1 DEF Untouched
  <2>2. <<>> = [k \in 1 .. 0 |-> k]
    OBVIOUS
  <2> QED BY <1>1, <2>1, <2>2 DEF InStep
<1>6. \A m \in DOMAIN stack : stack[m] \in 1 .. next - 1
  BY <1>1 DEF Untouched
<1>7. items \in Seq(Block) /\ next <= Len(items) + 1
  BY <1>1, <1>2 DEF Untouched
<1> QED BY <1>1, <1>3, <1>4, <1>5, <1>6, <1>7 DEF ShapeInv

LEMMA ShapeExtraction == ShapeInv /\ Extraction => ShapeInv'
<1> SUFFICES ASSUME ShapeInv, Extraction PROVE ShapeInv'
  OBVIOUS
<1>1. Untouched /\ TypeOK /\ pages \in Seq(Page) /\ InStep
  BY DEF ShapeInv, Extraction
<1>2. /\ items' = ExtractBlocks(pages) /\ phase' \in {"failed", "chunk"}
      /\ UNCHANGED <<pages, next, rest, stack, acc, chunks, sent, vectors>>
  BY DEF Extraction
<1>3. items' \in Seq(Block)
  BY <1>1, <1>2, BlocksExtracted
<1>4. items' \in Seq(Item) /\ Len(items') \in Nat
  <2>1. Block \subseteq Item
    BY DEF Block
  <2> QED BY <1>3, <2>1, SeqMonotonic, LenProperties
<1>6. TypeOK'
  BY <1>1, <1>2, <1>4 DEF TypeOK
<1>7. RestTaken' /\ VectorsMatch' /\ InStep'
  BY <1>1, <1>2 DEF Untouched, RestTaken, VectorsMatch, InStep
<1>8. /\ \A m \in DOMAIN stack' : stack'[m] \in 1 .. next' - 1
      /\ next' <= Len(items') + 1 /\ phase' # "extract" /\ pages' \in Seq(Page)
  BY <1>1, <1>2, <1>4 DEF Untouched
<1> QED BY <1>3, <1>6, <1>7, <1>8 DEF ShapeInv

LEMMA ShapeChunker ==
  ASSUME ShapeInv,
         TakeHeading \/ TakeTable \/ TakeSentence \/ TakeLong \/ SplitLong \/ LastFlush
  PROVE  ShapeInv'
<1>1. /\ phase = "chunk" /\ phase' \in {"chunk", "embed", "failed"}
      /\ UNCHANGED <<pages, items, sent, vectors>>
  BY ChunkerStep
<1>2. TypeOK /\ pages \in Seq(Page) /\ InStep /\ items \in Seq(Block)
  BY DEF ShapeInv
<1>3. TypeOK'
  BY <1>1, <1>2, TypesOfChunker DEF TypeOK
<1>4. InStep' /\ VectorsMatch'
  BY <1>1, <1>2 DEF InStep, VectorsMatch
<1> QED BY <1>1, <1>2, <1>3, <1>4, TypesOfChunker DEF ShapeInv

LEMMA ShapeEmbedBatch == ShapeInv /\ EmbedBatch => ShapeInv'
<1> SUFFICES ASSUME ShapeInv, EmbedBatch PROVE ShapeInv'
  OBVIOUS
<1>0. /\ phase = "embed" /\ sent < Len(chunks) /\ TypeOK /\ InStep
      /\ sent' = BatchEnd
      /\ UNCHANGED <<pages, phase, items, next, rest, stack, acc, chunks>>
  BY DEF EmbedBatch, ShapeInv, BatchEnd
<1>1. /\ sent \in Nat /\ vectors \in Seq(Nat) /\ Len(vectors) \in Nat /\ Len(chunks) \in Nat
  BY ShapeFacts
<1>2. PICK response \in Responses : vectors' = vectors \o ByIndex(response)
  BY DEF EmbedBatch
<1> DEFINE more == ByIndex(response)
           size == BatchEnd - sent
<1>3. /\ BatchEnd \in Nat /\ sent < BatchEnd /\ BatchEnd <= Len(chunks)
      /\ more \in Seq(Nat) /\ Len(more) <= size
      /\ Len(more) = size => more = [k \in 1 .. size |-> sent + k]
  BY <1>0, BatchShape
<1>4. size \in Nat /\ sent + size = BatchEnd
  BY <1>1, <1>3
<1> HIDE DEF more, size
<1>5. /\ Len(more) \in Nat /\ vectors' \in Seq(Nat) /\ Len(vectors') = Len(vectors) + Len(more)
      /\ \A i \in 1 .. Len(vectors) + Len(more) :
           vectors'[i] = IF i <= Len(vectors) THEN vectors[i] ELSE more[i - Len(vectors)]
  BY <1>1, <1>2, <1>3, ConcatProperties, LenProperties DEF more
<1>6. Len(vectors') <= sent'
  BY <1>0, <1>1, <1>3, <1>4, <1>5 DEF InStep
<1>7. ASSUME Len(vectors') = sent'  PROVE vectors' = [k \in 1 .. sent' |-> k]
  <2>1. Len(vectors) = sent /\ Len(more) = size
    BY <1>0, <1>1, <1>3, <1>4, <1>5, <1>7 DEF InStep
  <2>2. vectors = [k \in 1 .. sent |-> k] /\ more = [k \in 1 .. size |-> sent + k]
    BY <1>0, <1>3, <2>1 DEF InStep
  <2>3. \A i \in 1 .. BatchEnd : vectors'[i] = i
    <3> TAKE i \in 1 .. BatchEnd
    <3>0. i \in 1 .. Len(vectors) + Len(more)
      BY <1>4, <2>1
    <3>1. CASE i <= sent
      <4>1. i \in 1 .. sent
        BY <1>1, <3>1
      <4> QED BY <1>5, <2>1, <2>2, <3>0, <3>1, <4>1
    <3>2. CASE ~(i <= sent)
      <4>1. i - sent \in 1 .. size /\ sent + (i - sent) = i
        BY <1>1, <1>3, <1>4, <3>2
      <4>2. more[i - sent] = i
        BY <2>2, <4>1
      <4> QED BY <1>5, <2>1, <3>0, <3>2, <4>2
    <3> QED BY <3>1, <3>2
  <2>4. DOMAIN vectors' = 1 .. BatchEnd /\ vectors' = [k \in 1 .. BatchEnd |-> vectors'[k]]
    BY <1>0, <1>5, <1>7, LenProperties
  <2>5. vectors' = [k \in 1 .. BatchEnd |-> k]
    BY <2>3, <2>4
  <2> QED BY <1>0, <2>5
<1>8. InStep'
  BY <1>0, <1>6, <1>7 DEF InStep
<1>9. TypeOK'
  BY <1>0, <1>3, <1>5 DEF TypeOK
<1>10. VectorsMatch' /\ RestTaken'
  BY <1>0 DEF VectorsMatch, RestTaken, ShapeInv
<1> QED BY <1>0, <1>8, <1>9, <1>10 DEF ShapeInv

LEMMA ShapeEnd == ShapeInv /\ (EmbedRaises \/ Embedded) => ShapeInv'
<1> SUFFICES ASSUME ShapeInv, EmbedRaises \/ Embedded PROVE ShapeInv'
  OBVIOUS
<1>0. /\ phase = "embed" /\ TypeOK /\ InStep /\ RestTaken /\ phase' \in {"stored", "failed"}
      /\ UNCHANGED <<pages, items, next, rest, stack, acc, chunks, sent, vectors>>
  BY DEF EmbedRaises, Embedded, ShapeInv
<1>1. rest = <<>>
  BY <1>0 DEF RestTaken
<1>2. TypeOK' /\ InStep' /\ RestTaken'
  BY <1>0, <1>1 DEF TypeOK, InStep, RestTaken
<1>3. VectorsMatch'
  <2> SUFFICES ASSUME phase' = "stored" PROVE vectors = [k \in DOMAIN chunks |-> k]
    BY <1>0 DEF VectorsMatch
  <2>1. sent = Len(chunks) /\ Len(vectors) = Len(chunks)
    BY DEF EmbedRaises, Embedded, CountMatches
  <2> QED BY <1>0, <2>1, ShapeFacts DEF InStep
<1> QED BY <1>0, <1>2, <1>3 DEF ShapeInv

LEMMA ShapeNext == ShapeInv /\ [Next]_vars => ShapeInv'
<1> SUFFICES ASSUME ShapeInv, [Next]_vars PROVE ShapeInv'
  OBVIOUS
<1>1. CASE UNCHANGED vars
  BY <1>1 DEF vars, ShapeInv, TypeOK, VectorsMatch, Untouched, RestTaken, InStep
<1>2. CASE Next
  BY <1>2, ShapeExtraction, ShapeChunker, ShapeEmbedBatch, ShapeEnd DEF Next
<1> QED BY <1>1, <1>2

\* The variables keep their types: extraction yields items, and no cut, overlap
\* or folded tail leaves the texts of the document.
THEOREM TypeCorrect == Spec => []TypeOK
<1>1. ShapeInv => TypeOK
  BY DEF ShapeInv
<1> QED BY <1>1, ShapeInit, ShapeNext, PTL DEF Spec

\* However the embeddings API orders a batch, and whichever batch it answers
\* short, what is stored pairs each chunk with the vector made of it
\* (embed.py:95-101), for any number of chunks and any batch size.
THEOREM VectorsPaired == Spec => []VectorsMatch
<1>1. ShapeInv => VectorsMatch
  BY DEF ShapeInv
<1> QED BY <1>1, ShapeInit, ShapeNext, PTL DEF Spec

-----------------------------------------------------------------------------
(* How long a body can get.                                                *)

Limit == MaxTokens + OverlapTokens

\* Between two steps the accumulator may hold a sentence of the maximal length
\* after an overlap, but while a sentence is being cut only an overlap.
AccBounded ==
  /\ Len(acc.text) <= Limit
  /\ rest # <<>> => Len(acc.text) <= OverlapTokens

Bounded(cs) == \A k \in DOMAIN cs : Len(cs[k].body) <= Limit

LEMMA ChunkShape ==
  ASSUME ShapeInv, NEW k \in 1 .. Len(chunks)
  PROVE  /\ chunks[k] \in Chunk /\ chunks[k].body \in Seq(Token)
         /\ chunks[k].section \in Seq(Nat) /\ chunks[k].page \in Nat
         /\ Len(chunks[k].body) \in Nat /\ DOMAIN chunks[k].body = 1 .. Len(chunks[k].body)
<1>1. chunks[k] \in Chunk
  BY ShapeFacts, ElementOfSeq
<1> QED BY <1>1, LenProperties DEF Chunk

\* A tail is folded only into a chunk that stays within MAX_TOKENS.
LEMMA FlushedBounded ==
  ASSUME ShapeInv, BodyBounded, NEW a \in Acc, Len(a.text) <= Limit
  PROVE  Bounded(Flushed(a))
<1>0. /\ chunks \in Seq(Chunk) /\ stack \in Seq(Nat) /\ Len(chunks) \in Nat
      /\ DOMAIN chunks = 1 .. Len(chunks)
  BY ShapeFacts
<1>1. \A k \in 1 .. Len(chunks) : Len(chunks[k].body) <= Limit
  BY <1>0 DEF BodyBounded, Limit
<1>2. DOMAIN Flushed(a) = 1 .. Len(Flushed(a))
  BY <1>0, FlushedShape, LenProperties
<1>3. CASE a.text = <<>>
  BY <1>0, <1>1, <1>3, FlushedShape DEF Bounded
<1>4. CASE a.text # <<>> /\ Folds(a.text)
  <2> DEFINE n == Len(chunks)
  <2>0. /\ n # 0 /\ Len(Flushed(a)) = n
        /\ \A k \in 1 .. n - 1 : Flushed(a)[k] = chunks[k]
        /\ Flushed(a)[n] = [chunks[n] EXCEPT !.body = @ \o a.text]
    BY <1>0, <1>4, FlushedShape
  <2>1. n \in 1 .. Len(chunks) /\ Last(chunks) = chunks[n]
    BY <1>0, <2>0 DEF Last
  <2>2. /\ chunks[n] \in Chunk /\ chunks[n].body \in Seq(Token) /\ Len(chunks[n].body) \in Nat
        /\ Len(chunks[n].section) \in Nat
    BY <2>1, ChunkShape, LenProperties
  <2>3. a.text \in Seq(Token) /\ Len(a.text) \in Nat
    BY AccShape
  <2>4. Flushed(a)[n].body = chunks[n].body \o a.text
    BY <2>0, <2>2 DEF Chunk
  <2>5. Len(chunks[n].body \o a.text) = Len(chunks[n].body) + Len(a.text)
    BY <2>2, <2>3, ConcatProperties
  <2>6. Len(chunks[n].section) + Len(chunks[n].body) + Len(a.text) <= MaxTokens
    BY <1>4, <2>1 DEF Folds, Size
  <2>7. \A x, y, z \in Nat : x + y + z <= MaxTokens => y + z <= Limit
    BY Limits DEF Limit
  <2>8. Len(Flushed(a)[n].body) <= Limit
    <3>1. Len(chunks[n].body) + Len(a.text) <= Limit
      BY <2>2, <2>3, <2>6, <2>7
    <3> QED BY <2>4, <2>5, <3>1
  <2>9. \A k \in 1 .. Len(chunks) : k = Len(chunks) \/ k \in 1 .. Len(chunks) - 1
    <3>1. \A m \in Nat : \A k \in 1 .. m : k = m \/ k \in 1 .. m - 1
      OBVIOUS
    <3> QED BY <1>0, <3>1
  <2> QED BY <1>1, <1>2, <2>0, <2>8, <2>9 DEF Bounded
<1>5. CASE a.text # <<>> /\ ~Folds(a.text)
  <2>1. /\ Len(Flushed(a)) = Len(chunks) + 1
        /\ \A k \in 1 .. Len(chunks) : Flushed(a)[k] = chunks[k]
        /\ Flushed(a)[Len(chunks) + 1] = NewChunk(a)
    BY <1>0, <1>5, FlushedShape
  <2>2. NewChunk(a).body = a.text
    BY DEF NewChunk
  <2>3. \A k \in 1 .. Len(chunks) + 1 : k = Len(chunks) + 1 \/ k \in 1 .. Len(chunks)
    BY <1>0
  <2> QED BY <1>1, <1>2, <2>1, <2>2, <2>3 DEF Bounded
<1> QED BY <1>3, <1>4, <1>5

LEMMA BoundNext ==
  ASSUME ShapeInv, ShapeInv', BodyBounded, AccBounded, [Next]_vars
  PROVE  BodyBounded' /\ AccBounded'
<1>0. /\ acc \in Acc /\ acc.text \in Seq(Token) /\ Len(acc.text) \in Nat /\ Len(acc.text) <= Limit
      /\ next \in Nat \ {0} /\ Len(items) \in Nat /\ items \in Seq(Item)
      /\ Limit \in Nat /\ MaxTokens \in Nat /\ OverlapTokens \in Nat /\ TargetTokens \in Nat
      /\ MaxTokens <= Limit /\ OverlapTokens <= Limit /\ TargetTokens <= MaxTokens
      /\ TargetTokens + OverlapTokens <= Limit
  BY ShapeFacts, AccShape, Limits DEF AccBounded, Limit
<1>a. Bounded(chunks') => BodyBounded'
  BY DEF Bounded, BodyBounded, Limit
<1>b. Bounded(Flushed(acc))
  BY <1>0, FlushedBounded
<1>c. Len(EmptyAcc.text) = 0
  BY EmptyShape
<1>1. CASE TakeHeading \/ TakeLong
  BY <1>0, <1>a, <1>b, <1>c, <1>1 DEF TakeHeading, TakeLong, AccBounded
<1>2. CASE TakeTable
  <2> DEFINE text == Truncate(TokensOf(next), MaxTokens)
             cs == Flushed(acc)
             c == [body |-> text, section |-> stack, page |-> items[next].page]
  <2>1. TokensOf(next) \in Seq(Token)
    BY <1>0, <1>2, ChunkerStep, TokensShape
  <2>2. Len(text) <= Limit
    BY <1>0, <2>1, TruncateShape
  <2>3. chunks' = Append(cs, c) /\ acc' = EmptyAcc
    BY <1>2 DEF TakeTable
  <2>4. cs \in Seq(Chunk) /\ chunks' \in Seq(Chunk)
    BY <1>0, ShapeFacts, FlushedShape DEF ShapeInv, TypeOK
  <2>5. c.body = text /\ Bounded(cs)
    BY <1>b
  <2> HIDE DEF text, cs, c
  <2>6. Bounded(chunks')
    BY <2>2, <2>3, <2>4, <2>5 DEF Bounded
  <2> QED BY <1>0, <1>a, <1>c, <2>3, <2>6 DEF AccBounded
<1>3. CASE TakeSentence
  <2> DEFINE s == items[next]
  <2>1. next \in 1 .. Len(items) /\ rest' = <<>> /\ s.size <= MaxTokens
    BY <1>3, ChunkerStep DEF TakeSentence
  <2>2. /\ s.size \in Nat /\ s.page \in Nat
        /\ TokensOf(next) \in Seq(Token) /\ Len(TokensOf(next)) = s.size
    BY <1>0, <2>1, TokensShape
  <2>3. CASE Full(s.size)
    <3>1. chunks' = Flushed(acc) /\ acc' = Add(Remaining(acc), TokensOf(next), s.page)
      BY <1>3, <2>3 DEF TakeSentence
    <3>2. Remaining(acc) \in Acc /\ Len(Remaining(acc).text) <= OverlapTokens
      BY <1>0, RemainingShape
    <3>3. Len(Remaining(acc).text) \in Nat
      BY <3>2, AccShape
    <3>4. Len(acc'.text) = Len(Remaining(acc).text) + s.size
      BY <2>2, <3>1, <3>2, AddShape
    <3>5. Len(acc'.text) <= Limit
      BY <1>0, <2>1, <2>2, <3>2, <3>3, <3>4 DEF Limit
    <3> QED BY <1>a, <1>b, <2>1, <3>1, <3>5 DEF AccBounded
  <2>4. CASE ~Full(s.size)
    <3>1. UNCHANGED chunks /\ acc' = Add(acc, TokensOf(next), s.page)
      BY <1>3, <2>4 DEF TakeSentence
    <3>2. Len(acc'.text) = Len(acc.text) + s.size
      <4> DEFINE text == TokensOf(next)
                 page == s.page
      <4>1. text \in Seq(Token) /\ page \in Nat /\ Len(text) = s.size
        BY <2>2
      <4>2. acc' = Add(acc, text, page)
        BY <3>1
      <4> HIDE DEF text, page
      <4>3. Len(Add(acc, text, page).text) = Len(acc.text) + Len(text)
        BY <1>0, <4>1, AddShape
      <4> QED BY <4>1, <4>2, <4>3
    <3>3. Len(acc.text) + s.size <= Limit
      <4>1. \/ Len(acc.text) + s.size <= TargetTokens
            \/ Len(acc.text) < MinTokens
        BY <1>0, <2>2, <2>4, Limits DEF Full
      <4>2. MinTokens \in Nat /\ MinTokens <= OverlapTokens
        BY Limits
      <4>3. PICK size \in Nat : size = s.size /\ size <= MaxTokens
        BY <2>1, <2>2
      <4>4. Len(acc.text) + size <= MaxTokens + OverlapTokens
        <5>1. Len(acc.text) \in Nat /\ {TargetTokens, MaxTokens, OverlapTokens} \subseteq Nat
              /\ TargetTokens <= MaxTokens
          BY <1>0, Limits, IndexingAssumption
        <5> QED BY <4>1, <4>2, <4>3, <5>1
      <4> QED BY <4>3, <4>4 DEF Limit
    <3>4. BodyBounded'
      BY <1>0, <3>1 DEF BodyBounded
    <3> QED BY <2>1, <3>2, <3>3, <3>4 DEF AccBounded
  <2> QED BY <2>3, <2>4
<1>4. CASE SplitLong
  <2>1. Len(acc.text) <= OverlapTokens
    BY <1>4 DEF SplitLong, AccBounded
  <2>2. /\ chunks' = Flushed(WithPiece) /\ acc' = Remaining(WithPiece)
        /\ WithPiece \in Acc /\ Len(WithPiece.text) = Len(acc.text) + Len(Piece)
        /\ Len(Piece) \in Nat /\ Len(Piece) <= TargetTokens
    BY <1>4, PieceShape
  <2>3. Len(WithPiece.text) <= Limit
    BY <1>0, <2>1, <2>2
  <2>4. Bounded(Flushed(WithPiece))
    BY <2>2, <2>3, FlushedBounded
  <2>5. Remaining(WithPiece) \in Acc /\ Len(Remaining(WithPiece).text) <= OverlapTokens
    BY <2>2, RemainingShape
  <2>6. Len(Remaining(WithPiece).text) \in Nat
    BY <2>5, AccShape
  <2> QED BY <1>0, <1>a, <2>2, <2>4, <2>5, <2>6 DEF AccBounded
<1>5. CASE LastFlush
  <2>1. Remaining(acc) \in Acc /\ Len(Remaining(acc).text) <= OverlapTokens
    BY <1>0, RemainingShape
  <2>2. Len(Remaining(acc).text) \in Nat
    BY <2>1, AccShape
  <2> QED BY <1>0, <1>a, <1>b, <1>5, <2>1, <2>2 DEF LastFlush, AccBounded
<1>6. ASSUME UNCHANGED <<acc, rest, chunks>>
      PROVE  BodyBounded' /\ AccBounded'
  BY <1>6 DEF BodyBounded, AccBounded
<1>7. CASE Extraction \/ EmbedBatch \/ EmbedRaises \/ Embedded \/ UNCHANGED vars
  BY <1>6, <1>7 DEF Extraction, EmbedBatch, EmbedRaises, Embedded, vars
<1> QED BY <1>1, <1>2, <1>3, <1>4, <1>5, <1>7 DEF Next

\* A body never exceeds MAX_TOKENS by more than an overlap, however sentences,
\* overlaps, tails and pieces of a hard split meet (chunk.py:120).
THEOREM BodiesBounded == Spec => []BodyBounded
<1>1. Init => BodyBounded /\ AccBounded
  BY EmptyShape, Limits DEF Init, BodyBounded, AccBounded, Limit
<1> QED BY <1>1, ShapeInit, ShapeNext, BoundNext, PTL DEF Spec

-----------------------------------------------------------------------------
(* Texts in the order of the document.                                     *)

\* A text in document order; one that precedes another; one of the first i items;
\* one of item i; and one that is part of another, from place m + 1 on.
Ordered(text) == \A m, n \in DOMAIN text : m < n => Precedes(text[m], text[n])
Leads(s, t) == \A m \in DOMAIN s, n \in DOMAIN t : Precedes(s[m], t[n])
UpTo(text, i) == \A m \in DOMAIN text : text[m][1] \in 1 .. i
OfItem(text, i) == \A m \in DOMAIN text : text[m][1] = i
Part(t, s, m) == \A n \in DOMAIN t : m + n \in DOMAIN s /\ t[n] = s[m + n]

LEMMA EmptyText ==
  /\ Ordered(<<>>)
  /\ \A t : Leads(<<>>, t) /\ Leads(t, <<>>)
  /\ \A i : UpTo(<<>>, i) /\ OfItem(<<>>, i)
  /\ ToSet(<<>>) = {}
BY DEF Ordered, Leads, UpTo, OfItem, ToSet

LEMMA OfPart ==
  ASSUME NEW s \in Seq(Token), NEW t \in Seq(Token), NEW m \in Nat, Part(t, s, m)
  PROVE  /\ Ordered(s) => Ordered(t)
         /\ \A i : UpTo(s, i) => UpTo(t, i)
         /\ \A i : OfItem(s, i) => OfItem(t, i)
         /\ \A u : Leads(u, s) => Leads(u, t)
         /\ \A u : Leads(s, u) => Leads(t, u)
         /\ ToSet(t) \subseteq ToSet(s)
<1>1. DOMAIN t = 1 .. Len(t) /\ DOMAIN s = 1 .. Len(s) /\ Len(t) \in Nat /\ Len(s) \in Nat
  BY LenProperties
<1>2. Ordered(s) => Ordered(t)
  <2> SUFFICES ASSUME Ordered(s), NEW i \in DOMAIN t, NEW j \in DOMAIN t, i < j
               PROVE  Precedes(t[i], t[j])
    BY DEF Ordered
  <2>1. /\ m + i \in DOMAIN s /\ t[i] = s[m + i]
        /\ m + j \in DOMAIN s /\ t[j] = s[m + j]
    BY DEF Part
  <2>2. m + i < m + j
    BY <1>1
  <2> QED BY <2>1, <2>2 DEF Ordered
<1>3. /\ \A i : UpTo(s, i) => UpTo(t, i)
      /\ \A i : OfItem(s, i) => OfItem(t, i)
  BY DEF Part, UpTo, OfItem
<1>4. /\ \A u : Leads(u, s) => Leads(u, t)
      /\ \A u : Leads(s, u) => Leads(t, u)
  BY DEF Part, Leads
<1>5. ToSet(t) \subseteq ToSet(s)
  BY DEF Part, ToSet
<1> QED BY <1>2, <1>3, <1>4, <1>5

LEMMA OfConcat ==
  ASSUME NEW s \in Seq(Token), NEW t \in Seq(Token)
  PROVE  /\ s \o t \in Seq(Token)
         /\ Ordered(s) /\ Ordered(t) /\ Leads(s, t) => Ordered(s \o t)
         /\ \A i : UpTo(s, i) /\ UpTo(t, i) => UpTo(s \o t, i)
         /\ \A u : Leads(u, s) /\ Leads(u, t) => Leads(u, s \o t)
         /\ \A u : Leads(s, u) /\ Leads(t, u) => Leads(s \o t, u)
         /\ ToSet(s \o t) = ToSet(s) \cup ToSet(t)
         /\ s # <<>> => s \o t # <<>> /\ (s \o t)[1] = s[1]
         /\ s = <<>> => s \o t = t
<1> DEFINE u == s \o t
<1>1. /\ DOMAIN t = 1 .. Len(t) /\ DOMAIN s = 1 .. Len(s) /\ Len(t) \in Nat /\ Len(s) \in Nat
  BY LenProperties
<1>2. /\ u \in Seq(Token) /\ Len(u) = Len(s) + Len(t)
      /\ \A i \in 1 .. Len(s) + Len(t) : u[i] = IF i <= Len(s) THEN s[i] ELSE t[i - Len(s)]
  BY ConcatProperties
<1> HIDE DEF u
<1>3. DOMAIN u = 1 .. Len(s) + Len(t)
  BY <1>2, LenProperties
<1>4. \A i \in DOMAIN u :
        \/ i \in DOMAIN s /\ u[i] = s[i]
        \/ i > Len(s) /\ i - Len(s) \in DOMAIN t /\ u[i] = t[i - Len(s)]
  BY <1>1, <1>2, <1>3
<1>5. Ordered(s) /\ Ordered(t) /\ Leads(s, t) => Ordered(u)
  <2> SUFFICES ASSUME Ordered(s), Ordered(t), Leads(s, t),
                      NEW i \in DOMAIN u, NEW j \in DOMAIN u, i < j
               PROVE  Precedes(u[i], u[j])
    BY DEF Ordered
  <2>0. i \in Nat /\ j \in Nat
    BY <1>1, <1>3
  <2>1. CASE i \in DOMAIN s /\ u[i] = s[i] /\ j \in DOMAIN s /\ u[j] = s[j]
    BY <2>1 DEF Ordered
  <2>2. CASE i \in DOMAIN s /\ u[i] = s[i] /\ j - Len(s) \in DOMAIN t /\ u[j] = t[j - Len(s)]
    BY <2>2 DEF Leads
  <2>3. CASE /\ i > Len(s) /\ i - Len(s) \in DOMAIN t /\ u[i] = t[i - Len(s)]
             /\ j - Len(s) \in DOMAIN t /\ u[j] = t[j - Len(s)]
    <3>1. i - Len(s) < j - Len(s)
      BY <1>1, <2>0
    <3> QED BY <2>3, <3>1 DEF Ordered
  <2>4. ~(i > Len(s) /\ j \in DOMAIN s)
    BY <1>1, <2>0
  <2> QED BY <1>4, <2>1, <2>2, <2>3, <2>4
<1>6. \A i : UpTo(s, i) /\ UpTo(t, i) => UpTo(u, i)
  BY <1>4 DEF UpTo
<1>7. /\ \A v : Leads(v, s) /\ Leads(v, t) => Leads(v, u)
      /\ \A v : Leads(s, v) /\ Leads(t, v) => Leads(u, v)
  BY <1>4 DEF Leads
<1>8. ToSet(u) = ToSet(s) \cup ToSet(t)
  <2>1. \A i \in DOMAIN s : i \in DOMAIN u /\ u[i] = s[i]
    BY <1>1, <1>2, <1>3
  <2>2. \A i \in DOMAIN t : Len(s) + i \in DOMAIN u /\ u[Len(s) + i] = t[i]
    <3> TAKE i \in DOMAIN t
    <3>1. Len(s) + i \in 1 .. Len(s) + Len(t) /\ ~(Len(s) + i <= Len(s)) /\ (Len(s) + i) - Len(s) = i
      BY <1>1
    <3> QED BY <1>2, <1>3, <3>1
  <2>3. \A x : x \in ToSet(u) => x \in ToSet(s) \cup ToSet(t)
    BY <1>4 DEF ToSet
  <2>4. \A x : x \in ToSet(s) => x \in ToSet(u)
    BY <2>1 DEF ToSet
  <2>5. \A x : x \in ToSet(t) => x \in ToSet(u)
    BY <2>2 DEF ToSet
  <2> QED BY <2>3, <2>4, <2>5
<1>9. s # <<>> => u # <<>> /\ u[1] = s[1]
  <2> SUFFICES ASSUME s # <<>> PROVE u # <<>> /\ u[1] = s[1]
    OBVIOUS
  <2>1. Len(s) # 0
    BY EmptySeq
  <2>2. 1 \in 1 .. Len(s) + Len(t) /\ 1 <= Len(s) /\ Len(u) # 0
    BY <1>1, <1>2, <2>1
  <2>3. u # <<>>
    BY <2>2
  <2> QED BY <1>2, <2>2, <2>3
<1>10. s = <<>> => u = t
  BY ConcatEmptySeq DEF u
<1> QED BY <1>2, <1>5, <1>6, <1>7, <1>8, <1>9, <1>10 DEF u

\* A text of the items so far precedes one of the next.
LEMMA EarlierLeads ==
  ASSUME NEW s, NEW t, NEW i \in Nat, UpTo(s, i - 1), OfItem(t, i)
  PROVE  Leads(s, t)
<1> SUFFICES ASSUME NEW m \in DOMAIN s, NEW n \in DOMAIN t PROVE s[m][1] < t[n][1]
  BY DEF Leads, Precedes
<1>1. s[m][1] \in 1 .. i - 1 /\ t[n][1] = i
  BY DEF UpTo, OfItem
<1> QED BY <1>1

LEMMA TokensInOrder ==
  ASSUME ShapeInv, NEW i \in 1 .. Len(items)
  PROVE  /\ TokensOf(i) \in Seq(Token) /\ Len(TokensOf(i)) = items[i].size
         /\ items[i].size \in Nat
         /\ Ordered(TokensOf(i)) /\ OfItem(TokensOf(i), i) /\ UpTo(TokensOf(i), i)
<1>1. /\ TokensOf(i) \in Seq(Token) /\ Len(TokensOf(i)) = items[i].size
      /\ \A n \in 1 .. items[i].size : TokensOf(i)[n] = <<i, n>>
      /\ items[i].size \in Nat /\ i \in Nat /\ i \in 1 .. i
  BY ShapeFacts, TokensShape
<1>2. DOMAIN TokensOf(i) = 1 .. items[i].size
  BY <1>1, LenProperties
<1>3. OfItem(TokensOf(i), i)
  BY <1>1, <1>2 DEF OfItem
<1>4. Ordered(TokensOf(i))
  BY <1>1, <1>2 DEF Ordered, Precedes
<1> QED BY <1>1, <1>3, <1>4 DEF UpTo, OfItem

\* The texts of the chunks, as a whole.
Reads(cs, i) ==
  \A k \in 1 .. Len(cs) : cs[k].body # <<>> /\ Ordered(cs[k].body) /\ UpTo(cs[k].body, i)
AllLead(cs, t) == \A k \in 1 .. Len(cs) : Leads(cs[k].body, t)
Held(cs) == UNION {ToSet(cs[k].body) : k \in 1 .. Len(cs)}

\* What becomes of the chunks when a is flushed.
Stays(a, k) == k \in 1 .. Len(chunks) /\ Flushed(a)[k] = chunks[k]
Grows(a, k) ==
  /\ k \in 1 .. Len(chunks) /\ a.text # <<>> /\ Folds(a.text)
  /\ Flushed(a)[k].body = chunks[k].body \o a.text
  /\ Flushed(a)[k].section = chunks[k].section /\ Flushed(a)[k].page = chunks[k].page
Comes(a, k) == a.text # <<>> /\ Flushed(a)[k] = NewChunk(a)

LEMMA FlushedEach ==
  ASSUME ShapeInv, NEW a \in Acc
  PROVE  /\ Flushed(a) \in Seq(Chunk) /\ Len(Flushed(a)) \in Nat
         /\ \A k \in 1 .. Len(Flushed(a)) : Stays(a, k) \/ Grows(a, k) \/ Comes(a, k)
         /\ \A k \in 1 .. Len(chunks) :
              k \in 1 .. Len(Flushed(a)) /\ (Stays(a, k) \/ Grows(a, k))
         /\ a.text # <<>> =>
              \E k \in 1 .. Len(Flushed(a)) : Grows(a, k) \/ Comes(a, k)
<1>0. chunks \in Seq(Chunk) /\ stack \in Seq(Nat) /\ Len(chunks) \in Nat
  BY ShapeFacts
<1>1. Flushed(a) \in Seq(Chunk) /\ Len(Flushed(a)) \in Nat
  BY <1>0, FlushedShape, LenProperties
<1>2. CASE a.text = <<>>
  BY <1>0, <1>1, <1>2, FlushedShape DEF Stays
<1>3. CASE a.text # <<>> /\ Folds(a.text)
  <2> DEFINE n == Len(chunks)
  <2>1. /\ n # 0 /\ Len(Flushed(a)) = n
        /\ \A k \in 1 .. n - 1 : Flushed(a)[k] = chunks[k]
        /\ Flushed(a)[n] = [chunks[n] EXCEPT !.body = @ \o a.text]
    BY <1>0, <1>3, FlushedShape
  <2>2. n \in 1 .. Len(chunks)
    BY <1>0, <2>1
  <2>3. chunks[n] \in Chunk
    BY <2>2, ChunkShape
  <2>4. Grows(a, n)
    BY <1>3, <2>1, <2>2, <2>3 DEF Grows, Chunk
  <2>5. \A k \in 1 .. n : k = n \/ k \in 1 .. n - 1
    <3>1. \A m \in Nat : \A k \in 1 .. m : k = m \/ k \in 1 .. m - 1
      OBVIOUS
    <3> QED BY <1>0, <3>1
  <2>6. \A k \in 1 .. n : k = n \/ Stays(a, k)
    BY <2>1, <2>5 DEF Stays
  <2> HIDE DEF n
  <2>7. \A k \in 1 .. n : Stays(a, k) \/ Grows(a, k)
    BY <2>4, <2>6
  <2> QED BY <1>1, <2>1, <2>2, <2>4, <2>7 DEF n
<1>4. CASE a.text # <<>> /\ ~Folds(a.text)
  <2> DEFINE n == Len(chunks)
  <2>1. /\ Len(Flushed(a)) = n + 1
        /\ \A k \in 1 .. n : Flushed(a)[k] = chunks[k]
        /\ Flushed(a)[n + 1] = NewChunk(a)
    BY <1>0, <1>4, FlushedShape
  <2>2. Comes(a, n + 1) /\ \A k \in 1 .. n : Stays(a, k)
    BY <1>4, <2>1 DEF Comes, Stays
  <2>3. n + 1 \in 1 .. n + 1 /\ \A k \in 1 .. n + 1 : k = n + 1 \/ k \in 1 .. n
    BY <1>0
  <2>4. \A k \in 1 .. n : k \in 1 .. n + 1
    BY <1>0
  <2> HIDE DEF n
  <2> QED BY <1>1, <2>1, <2>2, <2>3, <2>4 DEF n
<1> QED BY <1>2, <1>3, <1>4

LEMMA FlushReads ==
  ASSUME ShapeInv, NEW a \in Acc, NEW i, Reads(chunks, i), Ordered(a.text), UpTo(a.text, i),
         Folds(a.text) => AllLead(chunks, a.text)
  PROVE  Reads(Flushed(a), i)
<1> SUFFICES ASSUME NEW k \in 1 .. Len(Flushed(a))
             PROVE  /\ Flushed(a)[k].body # <<>> /\ Ordered(Flushed(a)[k].body)
                    /\ UpTo(Flushed(a)[k].body, i)
  BY DEF Reads
<1>1. CASE Stays(a, k)
  BY <1>1 DEF Stays, Reads
<1>2. CASE Grows(a, k)
  <2> DEFINE s == chunks[k].body
             t == a.text
  <2>1. /\ s \in Seq(Token) /\ t \in Seq(Token) /\ s # <<>> /\ Ordered(s) /\ UpTo(s, i)
        /\ Ordered(t) /\ UpTo(t, i) /\ Leads(s, t) /\ Flushed(a)[k].body = s \o t
    BY <1>2, ChunkShape, AccShape DEF Grows, Reads, AllLead
  <2> HIDE DEF s, t
  <2>2. s \o t # <<>> /\ Ordered(s \o t) /\ UpTo(s \o t, i)
    BY <2>1, OfConcat
  <2> QED BY <2>1, <2>2
<1>3. CASE Comes(a, k)
  BY <1>3 DEF Comes, NewChunk
<1> QED BY <1>1, <1>2, <1>3, FlushedEach

LEMMA FlushLeads ==
  ASSUME ShapeInv, NEW a \in Acc, NEW u, AllLead(chunks, u), Leads(a.text, u)
  PROVE  AllLead(Flushed(a), u)
<1> SUFFICES ASSUME NEW k \in 1 .. Len(Flushed(a)) PROVE Leads(Flushed(a)[k].body, u)
  BY DEF AllLead
<1>1. CASE Stays(a, k)
  BY <1>1 DEF Stays, AllLead
<1>2. CASE Grows(a, k)
  <2> DEFINE s == chunks[k].body
             t == a.text
  <2>1. /\ s \in Seq(Token) /\ t \in Seq(Token) /\ Leads(s, u) /\ Leads(t, u)
        /\ Flushed(a)[k].body = s \o t
    BY <1>2, ChunkShape, AccShape DEF Grows, AllLead
  <2> HIDE DEF s, t
  <2> QED BY <2>1, OfConcat
<1>3. CASE Comes(a, k)
  BY <1>3 DEF Comes, NewChunk
<1> QED BY <1>1, <1>2, <1>3, FlushedEach

LEMMA FlushHolds ==
  ASSUME ShapeInv, NEW a \in Acc
  PROVE  Held(chunks) \cup ToSet(a.text) \subseteq Held(Flushed(a))
<1>0. a.text \in Seq(Token)
  BY AccShape
<1>1. ASSUME NEW k \in 1 .. Len(chunks), NEW x \in ToSet(chunks[k].body)
      PROVE  x \in Held(Flushed(a))
  <2>1. k \in 1 .. Len(Flushed(a)) /\ (Stays(a, k) \/ Grows(a, k))
    BY FlushedEach
  <2>2. CASE Stays(a, k)
    BY <1>1, <2>1, <2>2 DEF Stays, Held
  <2>3. CASE Grows(a, k)
    <3> DEFINE s == chunks[k].body
               t == a.text
    <3>1. s \in Seq(Token) /\ t \in Seq(Token) /\ Flushed(a)[k].body = s \o t /\ x \in ToSet(s)
      BY <1>0, <1>1, <2>3, ChunkShape DEF Grows
    <3> HIDE DEF s, t
    <3>2. x \in ToSet(s \o t)
      BY <3>1, OfConcat
    <3> QED BY <2>1, <3>1, <3>2 DEF Held
  <2> QED BY <2>1, <2>2, <2>3
<1>2. ASSUME NEW x \in ToSet(a.text)  PROVE x \in Held(Flushed(a))
  <2>1. a.text # <<>>
    BY EmptyText
  <2>2. PICK k \in 1 .. Len(Flushed(a)) : Grows(a, k) \/ Comes(a, k)
    BY <2>1, FlushedEach
  <2>3. CASE Grows(a, k)
    <3> DEFINE s == chunks[k].body
               t == a.text
    <3>1. s \in Seq(Token) /\ t \in Seq(Token) /\ Flushed(a)[k].body = s \o t /\ x \in ToSet(t)
      BY <1>0, <2>3, ChunkShape DEF Grows
    <3> HIDE DEF s, t
    <3>2. x \in ToSet(s \o t)
      BY <3>1, OfConcat
    <3> QED BY <3>1, <3>2 DEF Held
  <2>4. CASE Comes(a, k)
    BY <2>4 DEF Comes, NewChunk, Held
  <2> QED BY <2>2, <2>3, <2>4
<1>3. \A x \in Held(chunks) : x \in Held(Flushed(a))
  <2> TAKE x \in Held(chunks)
  <2>1. PICK k \in 1 .. Len(chunks) : x \in ToSet(chunks[k].body)
    BY DEF Held
  <2> QED BY <1>1, <2>1
<1> QED BY <1>2, <1>3

\* Every word of the sentences taken is in a chunk, in the accumulator, or in
\* what is left of the sentence that is being cut.
InHand == Held(chunks) \cup ToSet(acc.text) \cup ToSet(rest)

Coverage ==
  \A i \in 1 .. next - 1 : items[i].kind = "sentence" => ToSet(TokensOf(i)) \subseteq InHand

\* A chunk is closed only by a text of MIN_TOKENS or more, or at the end of its
\* section, so a text below MIN_TOKENS has nothing in common with the chunks.
OrderInv ==
  /\ Reads(chunks, next - 1)
  /\ Ordered(acc.text) /\ UpTo(acc.text, next - 1)
  /\ Ordered(rest) /\ OfItem(rest, next - 1)
  /\ Leads(acc.text, rest) /\ AllLead(chunks, rest)
  /\ phase = "chunk" /\ Len(acc.text) < MinTokens => AllLead(chunks, acc.text)
  /\ rest # <<>> => \/ Len(acc.text) >= MinTokens
                    \/ acc.text = <<>> /\ Len(rest) >= TargetTokens
  /\ Coverage

LEMMA OrderInit == Init => OrderInv
<1> SUFFICES ASSUME Init PROVE OrderInv
  OBVIOUS
<1>1. acc.text = <<>> /\ rest = <<>> /\ chunks = <<>> /\ next = 1 /\ Len(chunks) = 0
  BY EmptyShape, EmptySeq DEF Init
<1>2. Reads(chunks, next - 1) /\ AllLead(chunks, rest) /\ AllLead(chunks, acc.text)
  BY <1>1 DEF Reads, AllLead
<1>3. Coverage
  BY <1>1 DEF Coverage
<1> QED BY <1>1, <1>2, <1>3, EmptyText DEF OrderInv

LEMMA Wider ==
  ASSUME NEW i \in Nat, NEW cs
  PROVE  /\ \A text : UpTo(text, i - 1) => UpTo(text, i)
         /\ Reads(cs, i - 1) => Reads(cs, i)
<1>1. \A n \in 1 .. i - 1 : n \in 1 .. i
  OBVIOUS
<1>2. \A text : UpTo(text, i - 1) => UpTo(text, i)
  BY <1>1 DEF UpTo
<1> QED BY <1>2 DEF Reads

LEMMA CoverMore ==
  ASSUME Coverage, items' = items, next \in Nat, next' \in {next, next + 1},
         InHand \subseteq InHand',
         next' = next + 1 /\ items[next].kind = "sentence" => ToSet(TokensOf(next)) \subseteq InHand'
  PROVE  Coverage'
<1> SUFFICES ASSUME NEW i \in 1 .. next' - 1, items[i].kind = "sentence"
             PROVE  ToSet(TokensOf(i)) \subseteq InHand'
  BY DEF Coverage, TokensOf
<1>1. CASE i = next
  BY <1>1
<1>2. CASE i # next
  <2>1. i \in 1 .. next - 1
    BY <1>2
  <2> QED BY <2>1 DEF Coverage
<1> QED BY <1>1, <1>2

\* What closing the accumulator does, when no sentence is being cut.
LEMMA ClosingOrder ==
  ASSUME ShapeInv, OrderInv, phase = "chunk", rest = <<>>
  PROVE  /\ Reads(Flushed(acc), next - 1)
         /\ Held(chunks) \cup ToSet(acc.text) \cup ToSet(rest) \subseteq Held(Flushed(acc))
         /\ Flushed(acc) \in Seq(Chunk) /\ Len(Flushed(acc)) \in Nat
<1>1. acc \in Acc
  BY ShapeFacts
<1>2. Folds(acc.text) => AllLead(chunks, acc.text)
  BY DEF Folds, OrderInv
<1>3. Reads(Flushed(acc), next - 1)
  BY <1>1, <1>2, FlushReads DEF OrderInv
<1> QED BY <1>1, <1>3, FlushHolds, FlushedEach, EmptyText

LEMMA HeadingOrder == ShapeInv /\ OrderInv /\ TakeHeading => OrderInv'
<1> SUFFICES ASSUME ShapeInv, OrderInv, TakeHeading PROVE OrderInv'
  OBVIOUS
<1>1. /\ phase = "chunk" /\ rest = <<>> /\ rest' = <<>> /\ items' = items
      /\ items[next].kind = "heading" /\ next' = next + 1 /\ next \in Nat \ {0}
      /\ chunks' = Flushed(acc) /\ acc' = EmptyAcc
  BY ChunkerStep, ShapeFacts DEF TakeHeading
<1>2. next' - 1 = next /\ acc'.text = <<>>
  BY <1>1, EmptyShape
<1>3. Reads(chunks', next) /\ InHand \subseteq Held(chunks')
  BY <1>1, ClosingOrder, Wider DEF InHand
<1>4. AllLead(chunks', <<>>)
  BY EmptyText DEF AllLead
<1>5. Coverage'
  BY <1>1, <1>3, CoverMore DEF OrderInv, InHand
<1> QED BY <1>1, <1>2, <1>3, <1>4, <1>5, EmptyText DEF OrderInv

LEMMA TableOrder == ShapeInv /\ OrderInv /\ TakeTable => OrderInv'
<1> SUFFICES ASSUME ShapeInv, OrderInv, TakeTable PROVE OrderInv'
  OBVIOUS
<1> DEFINE text == Truncate(TokensOf(next), MaxTokens)
           c == [body |-> text, section |-> stack, page |-> items[next].page]
           cs == Flushed(acc)
<1>1. /\ phase = "chunk" /\ rest = <<>> /\ rest' = <<>> /\ items' = items
      /\ next \in 1 .. Len(items)
      /\ items[next].kind = "table" /\ next' = next + 1 /\ next \in Nat \ {0}
      /\ chunks' = Append(cs, c) /\ acc' = EmptyAcc
  BY ChunkerStep, ShapeFacts DEF TakeTable
<1>2. next' - 1 = next /\ acc'.text = <<>>
  BY <1>1, EmptyShape
<1>3. Reads(cs, next) /\ InHand \subseteq Held(cs) /\ cs \in Seq(Chunk) /\ Len(cs) \in Nat
  BY <1>1, ClosingOrder, Wider DEF InHand
<1>4. /\ text \in Seq(Token) /\ text # <<>> /\ Ordered(text) /\ UpTo(text, next)
  <2>1. items[next].size \in Nat \ {0}
    <3>1. items[next] \in Block
      BY <1>1, ElementOfSeq DEF ShapeInv
    <3> QED BY <1>1, <3>1 DEF Block, Item
  <2>2. /\ TokensOf(next) \in Seq(Token) /\ Len(TokensOf(next)) = items[next].size
        /\ Ordered(TokensOf(next)) /\ UpTo(TokensOf(next), next)
    BY <1>1, TokensInOrder
  <2>3. /\ text \in Seq(Token) /\ Len(text) = Least(MaxTokens, items[next].size)
        /\ Least(MaxTokens, items[next].size) <= items[next].size
        /\ \A i \in 1 .. Least(MaxTokens, items[next].size) : text[i] = TokensOf(next)[i]
    <3> DEFINE tokens == TokensOf(next)
    <3>1. tokens \in Seq(Token) /\ MaxTokens \in Nat /\ text = Truncate(tokens, MaxTokens)
      BY <2>2, Limits
    <3> HIDE DEF tokens, text
    <3>2. /\ text \in Seq(Token) /\ Len(text) = Least(MaxTokens, Len(tokens))
          /\ Least(MaxTokens, Len(tokens)) <= Len(tokens)
          /\ \A i \in 1 .. Least(MaxTokens, Len(tokens)) : text[i] = tokens[i]
      BY <3>1, TruncateShape
    <3> QED BY <2>2, <3>2 DEF tokens
  <2>4. MaxTokens \in Nat \ {0}
    BY IndexingAssumption
  <2>5. Len(text) \in Nat \ {0} /\ Len(text) <= items[next].size
    BY <2>1, <2>3, <2>4 DEF Least
  <2>6. DOMAIN text = 1 .. Len(text) /\ DOMAIN TokensOf(next) = 1 .. items[next].size
    BY <2>2, <2>3, LenProperties
  <2>7. Part(text, TokensOf(next), 0)
    BY <2>1, <2>3, <2>5, <2>6 DEF Part
  <2>8. text # <<>>
    BY <2>5
  <2> QED BY <2>2, <2>3, <2>7, <2>8, OfPart
<1>5. c \in Chunk /\ c.body = text
  <2>1. items[next].page \in Nat /\ stack \in Seq(Nat)
    BY <1>1, ShapeFacts, TokensShape
  <2> QED BY <1>4, <2>1 DEF Chunk
<1> HIDE DEF text, c, cs
<1>6. /\ Len(chunks') = Len(cs) + 1
      /\ \A k \in 1 .. Len(cs) : chunks'[k] = cs[k]
      /\ chunks'[Len(cs) + 1] = c
  BY <1>1, <1>3, <1>5, AppendProperties
<1>7. \A k \in 1 .. Len(chunks') : k = Len(cs) + 1 \/ k \in 1 .. Len(cs)
  BY <1>3, <1>6
<1>8. Reads(chunks', next)
  BY <1>3, <1>4, <1>5, <1>6, <1>7 DEF Reads
<1>9. Held(cs) \subseteq Held(chunks')
  <2>1. \A k \in 1 .. Len(cs) : k \in 1 .. Len(chunks')
    BY <1>3, <1>6
  <2> QED BY <1>6, <2>1 DEF Held
<1>10. AllLead(chunks', <<>>)
  BY EmptyText DEF AllLead
<1>11. Coverage'
  BY <1>1, <1>3, <1>9, CoverMore DEF OrderInv, InHand
<1> QED BY <1>1, <1>2, <1>8, <1>10, <1>11, EmptyText DEF OrderInv

LEMMA LongOrder == ShapeInv /\ OrderInv /\ TakeLong => OrderInv'
<1> SUFFICES ASSUME ShapeInv, OrderInv, TakeLong PROVE OrderInv'
  OBVIOUS
<1>1. /\ phase = "chunk" /\ rest = <<>> /\ rest' = TokensOf(next) /\ items' = items
      /\ next \in 1 .. Len(items) /\ items[next].size > MaxTokens
      /\ items[next].kind = "sentence" /\ next' = next + 1 /\ next \in Nat \ {0}
      /\ chunks' = Flushed(acc) /\ acc' = EmptyAcc
  BY ChunkerStep, ShapeFacts DEF TakeLong
<1>2. next' - 1 = next /\ acc'.text = <<>>
  BY <1>1, EmptyShape
<1>3. /\ Reads(chunks', next - 1) /\ Reads(chunks', next) /\ InHand \subseteq Held(chunks')
  BY <1>1, ClosingOrder, Wider DEF InHand
<1>4. /\ Ordered(rest') /\ OfItem(rest', next) /\ Len(rest') = items[next].size
      /\ items[next].size \in Nat
  BY <1>1, TokensInOrder
<1>5. AllLead(chunks', rest') /\ AllLead(chunks', <<>>)
  BY <1>1, <1>3, <1>4, EarlierLeads, EmptyText DEF Reads, AllLead
<1>6. Len(rest') >= TargetTokens
  BY <1>1, <1>4, Limits
<1>7. Coverage'
  BY <1>1, <1>3, CoverMore DEF OrderInv, InHand
<1> QED BY <1>1, <1>2, <1>3, <1>4, <1>5, <1>6, <1>7, EmptyText DEF OrderInv

LEMMA SentenceOrder == ShapeInv /\ OrderInv /\ TakeSentence => OrderInv'
<1> SUFFICES ASSUME ShapeInv, OrderInv, TakeSentence PROVE OrderInv'
  OBVIOUS
<1> DEFINE tokens == TokensOf(next)
           page == items[next].page
<1>1. /\ phase = "chunk" /\ phase' = "chunk" /\ rest = <<>> /\ rest' = <<>> /\ items' = items
      /\ next \in 1 .. Len(items)
      /\ items[next].kind = "sentence" /\ next' = next + 1 /\ next \in Nat \ {0}
  BY ChunkerStep, ShapeFacts DEF TakeSentence
<1>2. next' - 1 = next
  BY <1>1
<1>3. /\ tokens \in Seq(Token) /\ Ordered(tokens) /\ OfItem(tokens, next)
      /\ UpTo(tokens, next) /\ page \in Nat /\ Len(tokens) \in Nat
  BY <1>1, TokensInOrder, ShapeFacts, TokensShape
<1>4. acc \in Acc /\ acc.text \in Seq(Token) /\ Len(acc.text) \in Nat
  BY ShapeFacts, AccShape
<1>5. MinTokens \in Nat \ {0} /\ OverlapTokens \in Nat /\ MinTokens <= OverlapTokens
  BY Limits
<1>6. \A cs : AllLead(cs, <<>>)
  BY EmptyText DEF AllLead
<1>7. CASE Full(items[next].size)
  <2> DEFINE kept == Remaining(acc)
  <2>1. /\ chunks' = Flushed(acc) /\ acc' = Add(kept, tokens, page)
        /\ Len(acc.text) >= MinTokens
    BY <1>1, <1>7 DEF TakeSentence, Full
  <2>2. acc.text # <<>> /\ ~Folds(acc.text)
    BY <1>4, <1>5, <2>1 DEF Folds
  <2>3. /\ kept \in Acc /\ Len(kept.text) = Least(OverlapTokens, Len(acc.text))
        /\ Dropped(acc) \in Nat /\ Len(kept.text) = Len(acc.text) - Dropped(acc)
        /\ \A i \in 1 .. Len(acc.text) - Dropped(acc) : kept.text[i] = acc.text[Dropped(acc) + i]
    BY <1>4, <2>2, RemainingShape
  <2> HIDE DEF kept
  <2>4. kept.text \in Seq(Token) /\ Len(kept.text) \in Nat /\ DOMAIN kept.text = 1 .. Len(kept.text)
        /\ DOMAIN acc.text = 1 .. Len(acc.text)
    BY <1>4, <2>3, AccShape
  <2>5. Part(kept.text, acc.text, Dropped(acc))
    BY <1>4, <2>3, <2>4 DEF Part
  <2>6. Ordered(kept.text) /\ UpTo(kept.text, next - 1)
    BY <1>4, <2>3, <2>4, <2>5, OfPart DEF OrderInv
  <2>7. Leads(kept.text, tokens) /\ UpTo(kept.text, next)
    BY <1>1, <1>3, <2>6, EarlierLeads, Wider
  <2> HIDE DEF tokens, page
  <2>8. acc'.text = kept.text \o tokens /\ Len(acc'.text) = Len(kept.text) + Len(tokens)
    BY <1>3, <2>1, <2>3, AddShape
  <2>9. /\ Ordered(kept.text \o tokens) /\ UpTo(kept.text \o tokens, next)
        /\ ToSet(kept.text \o tokens) = ToSet(kept.text) \cup ToSet(tokens)
    BY <1>3, <2>4, <2>6, <2>7, OfConcat
  <2>10. Len(acc'.text) >= MinTokens
    BY <1>3, <1>4, <1>5, <2>1, <2>3, <2>4, <2>8 DEF Least
  <2>11. Reads(chunks', next) /\ InHand \subseteq Held(chunks')
    BY <1>1, <2>1, ClosingOrder, Wider DEF InHand
  <2>12. Coverage'
    <3>1. InHand \subseteq InHand' /\ ToSet(tokens) \subseteq InHand'
      BY <2>8, <2>9, <2>11 DEF InHand
    <3> QED BY <1>1, <3>1, CoverMore DEF OrderInv, tokens
  <2>13. ~(Len(acc'.text) < MinTokens)
    BY <1>3, <1>5, <2>4, <2>8, <2>10
  <2> QED BY <1>1, <1>2, <1>6, <2>8, <2>9, <2>11, <2>12, <2>13, EmptyText DEF OrderInv
<1>8. CASE ~Full(items[next].size)
  <2>1. chunks' = chunks /\ acc' = Add(acc, tokens, page)
    BY <1>1, <1>8 DEF TakeSentence
  <2> HIDE DEF tokens, page
  <2>2. acc'.text = acc.text \o tokens /\ Len(acc'.text) = Len(acc.text) + Len(tokens)
    BY <1>3, <1>4, <2>1, AddShape
  <2>3. Leads(acc.text, tokens) /\ UpTo(acc.text, next)
    BY <1>1, <1>3, EarlierLeads, Wider DEF OrderInv
  <2>4. /\ Ordered(acc.text \o tokens) /\ UpTo(acc.text \o tokens, next)
        /\ ToSet(acc.text \o tokens) = ToSet(acc.text) \cup ToSet(tokens)
    BY <1>3, <1>4, <2>3, OfConcat DEF OrderInv
  <2>5. Reads(chunks', next)
    BY <1>1, <2>1, Wider DEF OrderInv
  <2>6. Len(acc'.text) < MinTokens => AllLead(chunks', acc'.text)
    <3> SUFFICES ASSUME Len(acc'.text) < MinTokens, NEW k \in 1 .. Len(chunks)
                 PROVE  Leads(chunks[k].body, acc.text \o tokens)
      BY <2>1, <2>2 DEF AllLead
    <3>1. Len(acc.text) < MinTokens
      BY <1>3, <1>4, <1>5, <2>2
    <3>2. Leads(chunks[k].body, acc.text)
      BY <1>1, <3>1 DEF OrderInv, AllLead
    <3>3. Leads(chunks[k].body, tokens)
      BY <1>1, <1>3, EarlierLeads DEF OrderInv, Reads
    <3> QED BY <1>3, <1>4, <3>2, <3>3, OfConcat
  <2>7. Coverage'
    <3>1. InHand \subseteq InHand' /\ ToSet(tokens) \subseteq InHand'
      BY <1>1, <2>1, <2>2, <2>4 DEF InHand
    <3> QED BY <1>1, <3>1, CoverMore DEF OrderInv, tokens
  <2> QED BY <1>1, <1>2, <1>6, <2>2, <2>4, <2>5, <2>6, <2>7, EmptyText DEF OrderInv
<1> QED BY <1>7, <1>8

LEMMA SplitOrder == ShapeInv /\ OrderInv /\ SplitLong => OrderInv'
<1> SUFFICES ASSUME ShapeInv, OrderInv, SplitLong PROVE OrderInv'
  OBVIOUS
<1> DEFINE a == WithPiece
           m == Len(Piece)
<1>1. /\ phase = "chunk" /\ phase' = "chunk" /\ rest # <<>> /\ items' = items /\ next' = next
      /\ next \in Nat \ {0} /\ next - 1 \in 1 .. Len(items)
      /\ rest \in Seq(Token) /\ acc \in Acc /\ acc.text \in Seq(Token) /\ Len(acc.text) \in Nat
  <2>1. rest # <<>> /\ ~LastFlush
    BY DEF SplitLong, LastFlush
  <2> QED BY <2>1, ChunkerStep, ShapeFacts, AccShape
<1>2. /\ Piece \in Seq(Token) /\ m = Least(TargetTokens, Len(rest))
      /\ m \in Nat \ {0} /\ m <= Len(rest) /\ Len(rest) \in Nat
      /\ \A n \in 1 .. m : Piece[n] = rest[n]
      /\ rest' \in Seq(Token) /\ Len(rest') = Len(rest) - m
      /\ \A n \in 1 .. Len(rest) - m : rest'[n] = rest[m + n]
      /\ a \in Acc /\ a.text = acc.text \o Piece
      /\ Len(a.text) = Len(acc.text) + m
      /\ chunks' = Flushed(a) /\ acc' = Remaining(a)
  BY PieceShape
<1>3. /\ MinTokens \in Nat \ {0} /\ OverlapTokens \in Nat /\ MinTokens <= OverlapTokens
      /\ TargetTokens \in Nat /\ MinTokens <= TargetTokens
  BY Limits
<1>4. /\ DOMAIN Piece = 1 .. m /\ DOMAIN rest = 1 .. Len(rest)
      /\ DOMAIN rest' = 1 .. Len(rest) - m
  BY <1>1, <1>2, LenProperties
<1> HIDE DEF a, m
<1>5. Part(Piece, rest, 0) /\ Part(rest', rest, m)
  BY <1>2, <1>4 DEF Part
<1>6. /\ Ordered(Piece) /\ OfItem(Piece, next - 1) /\ Leads(acc.text, Piece)
      /\ Ordered(rest') /\ OfItem(rest', next - 1) /\ Leads(acc.text, rest')
      /\ \A u : Leads(u, rest) => Leads(u, rest')
  BY <1>1, <1>2, <1>5, OfPart DEF OrderInv
<1>7. Leads(Piece, rest')
  <2> SUFFICES ASSUME NEW i \in 1 .. m, NEW j \in 1 .. Len(rest) - m
               PROVE  Precedes(Piece[i], rest'[j])
    BY <1>4 DEF Leads
  <2>1. Piece[i] = rest[i] /\ rest'[j] = rest[m + j]
    BY <1>2
  <2>2. i \in DOMAIN rest /\ m + j \in DOMAIN rest /\ i < m + j
    BY <1>2, <1>4
  <2>3. Precedes(rest[i], rest[m + j])
    BY <2>2 DEF OrderInv, Ordered
  <2> QED BY <2>1, <2>3
<1>8. UpTo(Piece, next - 1)
  BY <1>1, <1>6 DEF OfItem, UpTo
<1>9. /\ Ordered(a.text) /\ UpTo(a.text, next - 1) /\ Leads(a.text, rest')
      /\ ToSet(a.text) = ToSet(acc.text) \cup ToSet(Piece)
  BY <1>1, <1>2, <1>6, <1>7, <1>8, OfConcat DEF OrderInv
<1>10. Len(a.text) >= MinTokens
  <2>1. CASE Len(acc.text) >= MinTokens
    BY <1>1, <1>2, <1>3, <2>1
  <2>2. CASE Len(rest) >= TargetTokens
    <3>1. m = TargetTokens
      BY <1>2, <1>3, <2>2 DEF Least
    <3> QED BY <1>1, <1>2, <1>3, <3>1
  <2> QED BY <1>1, <2>1, <2>2 DEF OrderInv
<1>11. ~Folds(a.text) /\ a.text # <<>> /\ Len(a.text) \in Nat
  <2>1. Len(a.text) \in Nat /\ MinTokens \in Nat \ {0}
    BY <1>2, IndexingAssumption, AccShape
  <2> QED BY <1>10, <2>1 DEF Folds
<1> DEFINE kept == Remaining(a)
<1>12. /\ kept \in Acc /\ Len(kept.text) = Least(OverlapTokens, Len(a.text))
       /\ Dropped(a) \in Nat /\ Len(kept.text) = Len(a.text) - Dropped(a)
       /\ \A i \in 1 .. Len(a.text) - Dropped(a) : kept.text[i] = a.text[Dropped(a) + i]
  BY <1>2, <1>11, RemainingShape
<1> HIDE DEF kept
<1>13. /\ kept.text \in Seq(Token) /\ Len(kept.text) \in Nat /\ DOMAIN kept.text = 1 .. Len(kept.text)
       /\ a.text \in Seq(Token) /\ DOMAIN a.text = 1 .. Len(a.text)
  BY <1>2, <1>12, AccShape
<1>14. Part(kept.text, a.text, Dropped(a))
  <2>1. \A i \in 1 .. Len(kept.text) : Dropped(a) + i \in 1 .. Len(a.text)
    BY <1>11, <1>12
  <2> QED BY <1>12, <1>13, <2>1 DEF Part
<1>15. Ordered(kept.text) /\ UpTo(kept.text, next - 1) /\ Leads(kept.text, rest')
  BY <1>9, <1>12, <1>13, <1>14, OfPart
<1>16. Len(kept.text) >= MinTokens /\ ~(Len(kept.text) < MinTokens)
  BY <1>3, <1>10, <1>11, <1>12 DEF Least
<1>17. Reads(chunks', next - 1)
  BY <1>2, <1>9, <1>11, FlushReads DEF OrderInv
<1>18. AllLead(chunks', rest')
  <2>1. AllLead(chunks, rest')
    BY <1>6 DEF OrderInv, AllLead
  <2> QED BY <1>2, <1>9, <2>1, FlushLeads
<1>19. ToSet(rest) \subseteq ToSet(Piece) \cup ToSet(rest')
  <2> SUFFICES ASSUME NEW n \in 1 .. Len(rest)
               PROVE  rest[n] \in ToSet(Piece) \cup ToSet(rest')
    BY <1>4 DEF ToSet
  <2>1. CASE n <= m
    <3>1. n \in 1 .. m
      BY <1>2, <2>1
    <3> QED BY <1>2, <1>4, <3>1 DEF ToSet
  <2>2. CASE ~(n <= m)
    <3>1. n - m \in 1 .. Len(rest) - m /\ m + (n - m) = n
      BY <1>2, <2>2
    <3>2. rest'[n - m] = rest[n]
      BY <1>2, <3>1
    <3> QED BY <1>4, <3>1, <3>2 DEF ToSet
  <2> QED BY <2>1, <2>2
<1>20. Coverage'
  <2>1. Held(chunks) \cup ToSet(a.text) \subseteq Held(chunks')
    BY <1>2, FlushHolds
  <2>2. InHand \subseteq InHand'
    BY <1>9, <1>19, <2>1 DEF InHand
  <2>3. ~(next' = next + 1)
    BY <1>1
  <2> QED BY <1>1, <2>2, <2>3, CoverMore DEF OrderInv
<1>21. acc' = kept
  BY <1>2 DEF kept
<1> QED BY <1>1, <1>6, <1>15, <1>16, <1>17, <1>18, <1>20, <1>21 DEF OrderInv

LEMMA FlushOrder == ShapeInv /\ OrderInv /\ LastFlush => OrderInv'
<1> SUFFICES ASSUME ShapeInv, OrderInv, LastFlush PROVE OrderInv'
  OBVIOUS
<1>1. /\ phase = "chunk" /\ phase' # "chunk" /\ rest = <<>> /\ rest' = <<>> /\ items' = items
      /\ next' = next /\ next \in Nat \ {0} /\ acc \in Acc
      /\ chunks' = Flushed(acc) /\ acc' = Remaining(acc)
  BY ChunkerStep, ShapeFacts DEF LastFlush
<1>2. Reads(chunks', next - 1) /\ InHand \subseteq Held(chunks')
  BY <1>1, ClosingOrder DEF InHand
<1>3. Part(acc'.text, acc.text, Dropped(acc)) /\ Dropped(acc) \in Nat
      /\ acc'.text \in Seq(Token) /\ acc.text \in Seq(Token)
  <2> DEFINE kept == Remaining(acc)
  <2>1. /\ kept \in Acc /\ Dropped(acc) \in Nat /\ Len(kept.text) = Len(acc.text) - Dropped(acc)
        /\ \A i \in 1 .. Len(acc.text) - Dropped(acc) : kept.text[i] = acc.text[Dropped(acc) + i]
    BY <1>1, RemainingShape
  <2>2. acc' = kept
    BY <1>1
  <2> HIDE DEF kept
  <2>3. /\ kept.text \in Seq(Token) /\ Len(kept.text) \in Nat /\ DOMAIN kept.text = 1 .. Len(kept.text)
        /\ acc.text \in Seq(Token) /\ DOMAIN acc.text = 1 .. Len(acc.text) /\ Len(acc.text) \in Nat
    BY <1>1, <2>1, AccShape
  <2>4. Part(kept.text, acc.text, Dropped(acc))
    BY <2>1, <2>3 DEF Part
  <2> QED BY <2>1, <2>2, <2>3, <2>4
<1>4. Ordered(acc'.text) /\ UpTo(acc'.text, next - 1)
  BY <1>3, OfPart DEF OrderInv
<1>5. AllLead(chunks', <<>>)
  BY EmptyText DEF AllLead
<1>6. Coverage'
  <2>1. InHand \subseteq InHand' /\ ~(next' = next + 1)
    BY <1>1, <1>2 DEF InHand
  <2> QED BY <1>1, <2>1, CoverMore DEF OrderInv
<1> QED BY <1>1, <1>2, <1>4, <1>5, <1>6, EmptyText DEF OrderInv

LEMMA OrderNext ==
  ASSUME ShapeInv, OrderInv, [Next]_vars
  PROVE  OrderInv'
<1>1. CASE Extraction
  <2>1. /\ acc.text = <<>> /\ rest = <<>> /\ chunks = <<>> /\ next = 1 /\ Len(chunks) = 0
        /\ UNCHANGED <<acc, rest, chunks, next>>
    BY <1>1, EmptyShape DEF Extraction, ShapeInv, Untouched
  <2>2. Reads(chunks, 0) /\ AllLead(chunks, <<>>)
    BY <2>1 DEF Reads, AllLead
  <2>3. Coverage'
    BY <2>1 DEF Coverage
  <2> QED BY <2>1, <2>2, <2>3, EmptyText DEF OrderInv
<1>2. ASSUME UNCHANGED <<items, next, rest, acc, chunks>>, phase' = "chunk" => phase = "chunk"
      PROVE  OrderInv'
  <2>1. Coverage'
    BY <1>2 DEF OrderInv, Coverage, InHand, TokensOf
  <2> QED BY <1>2, <2>1 DEF OrderInv
<1>3. CASE EmbedBatch \/ EmbedRaises \/ Embedded \/ UNCHANGED vars
  BY <1>2, <1>3 DEF EmbedBatch, EmbedRaises, Embedded, vars
<1> QED BY <1>1, <1>3, HeadingOrder, TableOrder, SentenceOrder, LongOrder, SplitOrder, FlushOrder
        DEF Next

\* However a section ends, a tail is folded or a sentence is cut, every word of
\* the sentences taken is in a chunk or about to be, and a body reads in document
\* order and repeats nothing (chunk.py:128-218), for documents of any length.
THEOREM NoTextLost == Spec => []NothingLost
<1>1. ShapeInv /\ OrderInv => NothingLost
  <2> SUFFICES ASSUME ShapeInv, OrderInv PROVE NothingLost
    OBVIOUS
  <2>1. Indexed = Held(chunks)
    BY ShapeFacts DEF Indexed, Held
  <2>2. \A k \in DOMAIN chunks : Ordered(chunks[k].body)
    BY ShapeFacts DEF OrderInv, Reads
  <2> QED BY <2>1, <2>2 DEF NothingLost, OrderInv, Coverage, InHand, Ordered
<1> QED BY <1>1, OrderInit, OrderNext, ShapeInit, ShapeNext, PTL DEF Spec

-----------------------------------------------------------------------------
(* The section a text stands in.                                           *)

\* The headings above item i, which PathAt puts in order.
OnPath(i) ==
  {j \in 1 .. (i - 1) :
     /\ items[j].kind = "heading"
     /\ \A h \in (j + 1) .. (i - 1) :
          items[h].kind = "heading" => items[h].level > items[j].level}

\* No heading comes between the text and item n, which is counted.
InSection(text, n) ==
  \A m \in DOMAIN text : \A h \in text[m][1] .. n : items[h].kind # "heading"

StackIsPath ==
  /\ Increasing(stack)
  /\ \A m \in DOMAIN stack : stack[m] \in OnPath(next)
  /\ \A j \in OnPath(next) : \E m \in DOMAIN stack : stack[m] = j

Cited(cs) == \A k \in 1 .. Len(cs) : cs[k].section = PathAt(cs[k].body[1][1])

SectionInv == StackIsPath /\ InSection(acc.text, next - 1) /\ Cited(chunks)

LEMMA SameSection ==
  ASSUME NEW i \in Nat, NEW n \in Nat, i <= n, \A h \in i .. n - 1 : items[h].kind # "heading"
  PROVE  OnPath(i) = OnPath(n)
<1>1. ASSUME NEW j \in OnPath(i)  PROVE j \in OnPath(n)
  <2>1. /\ j \in 1 .. i - 1 /\ items[j].kind = "heading"
        /\ \A h \in (j + 1) .. (i - 1) : items[h].kind = "heading" => items[h].level > items[j].level
    BY DEF OnPath
  <2>2. \A h \in (j + 1) .. (n - 1) : h \in (j + 1) .. (i - 1) \/ h \in i .. n - 1
    BY <2>1
  <2>3. j \in 1 .. n - 1
    BY <2>1
  <2> QED BY <2>1, <2>2, <2>3 DEF OnPath
<1>2. ASSUME NEW j \in OnPath(n)  PROVE j \in OnPath(i)
  <2>1. /\ j \in 1 .. n - 1 /\ items[j].kind = "heading"
        /\ \A h \in (j + 1) .. (n - 1) : items[h].kind = "heading" => items[h].level > items[j].level
    BY DEF OnPath
  <2>2. j \in 1 .. i - 1
    <3>1. ~(j \in i .. n - 1)
      BY <2>1
    <3> QED BY <2>1, <3>1
  <2>3. \A h \in (j + 1) .. (i - 1) : h \in (j + 1) .. (n - 1)
    OBVIOUS
  <2> QED BY <2>1, <2>2, <2>3 DEF OnPath
<1> QED BY <1>1, <1>2

LEMMA StackInOrder ==
  ASSUME ShapeInv, StackIsPath
  PROVE  stack = PathAt(next)
<1>1. /\ stack \in Seq(Nat) /\ Len(stack) \in Nat /\ DOMAIN stack = 1 .. Len(stack)
      /\ next \in Nat \ {0}
  BY ShapeFacts
<1>2. OnPath(next) \in SUBSET Nat
  BY <1>1 DEF OnPath
<1>3. stack \in [1 .. Len(stack) -> OnPath(next)]
  <2>1. \A m \in 1 .. Len(stack) : stack[m] \in OnPath(next)
    BY <1>1 DEF StackIsPath
  <2>2. stack \in [1 .. Len(stack) -> Nat]
    BY <1>1, LenProperties
  <2> QED BY <2>1, <2>2
<1>4. /\ Increasing(stack)
      /\ \A j \in OnPath(next) : \E m \in 1 .. Len(stack) : stack[m] = j
  BY <1>1 DEF StackIsPath
<1> DEFINE S == OnPath(next)
<1>5. PathAt(next) = InOrder(S)
  BY DEF PathAt, OnPath
<1> HIDE DEF S
<1>6. stack = InOrder(S)
  BY <1>1, <1>2, <1>3, <1>4, InOrderOnly DEF S
<1> QED BY <1>5, <1>6

LEMMA PathIsOrdered == \A i : PathAt(i) = InOrder(OnPath(i))
BY DEF PathAt, OnPath

\* A chunk whose text begins where no heading has come since is cited with the
\* stack.
LEMMA SectionOfStack ==
  ASSUME ShapeInv, StackIsPath, NEW i \in 1 .. next,
         \A h \in i .. next - 1 : items[h].kind # "heading"
  PROVE  stack = PathAt(i)
<1>1. next \in Nat /\ i \in Nat /\ i <= next
  BY ShapeFacts
<1>2. OnPath(i) = OnPath(next)
  BY <1>1, SameSection
<1> QED BY <1>2, StackInOrder, PathIsOrdered

LEMMA SectionPart ==
  ASSUME NEW s, NEW t, NEW m, Part(t, s, m), NEW n, InSection(s, n)
  PROVE  InSection(t, n)
BY DEF Part, InSection

LEMMA SectionConcat ==
  ASSUME NEW s \in Seq(Token), NEW t \in Seq(Token), NEW n, InSection(s, n), InSection(t, n)
  PROVE  InSection(s \o t, n)
<1>1. /\ DOMAIN t = 1 .. Len(t) /\ DOMAIN s = 1 .. Len(s) /\ Len(t) \in Nat /\ Len(s) \in Nat
      /\ s \o t \in Seq(Token) /\ Len(s \o t) = Len(s) + Len(t)
      /\ \A i \in 1 .. Len(s) + Len(t) : (s \o t)[i] = IF i <= Len(s) THEN s[i] ELSE t[i - Len(s)]
  BY LenProperties, ConcatProperties
<1>2. DOMAIN (s \o t) = 1 .. Len(s) + Len(t)
  BY <1>1, LenProperties
<1>3. \A i \in 1 .. Len(s) + Len(t) : (i <= Len(s) /\ i \in DOMAIN s) \/ i - Len(s) \in DOMAIN t
  BY <1>1
<1> QED BY <1>1, <1>2, <1>3 DEF InSection

\* One more item that is no heading does not end the section.
LEMMA SectionWider ==
  ASSUME NEW s, NEW n \in Nat \ {0}, UpTo(s, n - 1) \/ OfItem(s, n),
         UpTo(s, n - 1) => InSection(s, n - 1),
         items[n].kind # "heading"
  PROVE  InSection(s, n)
<1> SUFFICES ASSUME NEW m \in DOMAIN s, NEW h \in s[m][1] .. n PROVE items[h].kind # "heading"
  BY DEF InSection
<1>1. CASE h = n
  BY <1>1
<1>2. CASE h # n
  <2>1. CASE UpTo(s, n - 1)
    <3>1. s[m][1] \in 1 .. n - 1
      BY <2>1 DEF UpTo
    <3>2. h \in s[m][1] .. n - 1
      BY <1>2, <3>1
    <3> QED BY <2>1, <3>2 DEF InSection
  <2>2. CASE OfItem(s, n)
    <3>1. s[m][1] = n
      BY <2>2 DEF OfItem
    <3> QED BY <1>2, <3>1
  <2> QED BY <2>1, <2>2
<1> QED BY <1>1, <1>2

LEMMA FlushCited ==
  ASSUME ShapeInv, OrderInv, SectionInv, NEW a \in Acc, UpTo(a.text, next - 1),
         InSection(a.text, next - 1)
  PROVE  Cited(Flushed(a))
<1> SUFFICES ASSUME NEW k \in 1 .. Len(Flushed(a))
             PROVE  Flushed(a)[k].section = PathAt(Flushed(a)[k].body[1][1])
  BY DEF Cited
<1>1. CASE Stays(a, k)
  BY <1>1 DEF Stays, SectionInv, Cited
<1>2. CASE Grows(a, k)
  <2> DEFINE s == chunks[k].body
             t == a.text
  <2>1. /\ s \in Seq(Token) /\ t \in Seq(Token) /\ s # <<>> /\ Flushed(a)[k].body = s \o t
        /\ Flushed(a)[k].section = chunks[k].section
        /\ chunks[k].section = PathAt(s[1][1])
    BY <1>2, ChunkShape, AccShape DEF Grows, OrderInv, Reads, SectionInv, Cited
  <2> HIDE DEF s, t
  <2>2. (s \o t)[1] = s[1]
    BY <2>1, OfConcat
  <2> QED BY <2>1, <2>2
<1>3. CASE Comes(a, k)
  <2>1. a.text # <<>> /\ Flushed(a)[k].body = a.text /\ Flushed(a)[k].section = stack
    BY <1>3 DEF Comes, NewChunk
  <2>2. 1 \in DOMAIN a.text
    BY <2>1, AccShape, EmptySeq
  <2>3. PICK i : i = a.text[1][1]
    OBVIOUS
  <2>4. /\ i \in 1 .. next - 1
        /\ \A h \in i .. next - 1 : items[h].kind # "heading"
    BY <2>2, <2>3 DEF UpTo, InSection
  <2>5. i \in 1 .. next
    BY <2>4, ShapeFacts
  <2> QED BY <2>1, <2>3, <2>4, <2>5, SectionOfStack DEF SectionInv
<1> QED BY <1>1, <1>2, <1>3, FlushedEach

LEMMA LevelType ==
  ASSUME ShapeInv
  PROVE  \A j \in 1 .. Len(items) : items[j].level \in Nat
<1> TAKE j \in 1 .. Len(items)
<1>1. items[j] \in Item
  BY ShapeFacts, ElementOfSeq
<1> QED BY <1>1 DEF Item

\* A heading is added to the path, and those of its level or a deeper one leave it.
LEMMA PathWithHeading ==
  ASSUME ShapeInv, next \in 1 .. Len(items), items[next].kind = "heading"
  PROVE  \A j : j \in OnPath(next + 1) <=>
                  j = next \/ (j \in OnPath(next) /\ items[j].level < items[next].level)
<1>0. next \in Nat \ {0} /\ Len(items) \in Nat
  BY ShapeFacts
<1>1. next \in OnPath(next + 1)
  <2>1. next \in 1 .. (next + 1) - 1 /\ \A h \in (next + 1) .. (next + 1) - 1 : FALSE
    BY <1>0
  <2> QED BY <2>1 DEF OnPath
<1>2. ASSUME NEW j \in OnPath(next + 1), j # next
      PROVE  j \in OnPath(next) /\ items[j].level < items[next].level
  <2>1. /\ j \in 1 .. next - 1 /\ items[j].kind = "heading"
        /\ \A h \in (j + 1) .. (next + 1) - 1 :
             items[h].kind = "heading" => items[h].level > items[j].level
    BY <1>0, <1>2 DEF OnPath
  <2>2. next \in (j + 1) .. (next + 1) - 1
        /\ \A h \in (j + 1) .. next - 1 : h \in (j + 1) .. (next + 1) - 1
    BY <1>0, <2>1
  <2>3. items[next].level > items[j].level
    BY <2>1, <2>2
  <2>4. items[next].level \in Nat /\ items[j].level \in Nat
    BY <1>0, <2>1, LevelType
  <2>5. j \in OnPath(next)
    BY <2>1, <2>2 DEF OnPath
  <2> QED BY <2>3, <2>4, <2>5
<1>3. ASSUME NEW j \in OnPath(next), items[j].level < items[next].level
      PROVE  j \in OnPath(next + 1)
  <2>1. /\ j \in 1 .. next - 1 /\ items[j].kind = "heading"
        /\ \A h \in (j + 1) .. next - 1 :
             items[h].kind = "heading" => items[h].level > items[j].level
    BY DEF OnPath
  <2>2. /\ j \in 1 .. (next + 1) - 1
        /\ \A h \in (j + 1) .. (next + 1) - 1 : h = next \/ h \in (j + 1) .. next - 1
    BY <1>0, <2>1
  <2>3. items[next].level > items[j].level
    <3>1. items[next].level \in Nat /\ items[j].level \in Nat
      BY <1>0, <2>1, LevelType
    <3> QED BY <1>3, <3>1
  <2> QED BY <2>1, <2>2, <2>3 DEF OnPath
<1> QED BY <1>1, <1>2, <1>3

\* The headings Push leaves are the ones above the new heading.
LEMMA HeadingPath == ShapeInv /\ StackIsPath /\ TakeHeading => StackIsPath'
<1> SUFFICES ASSUME ShapeInv, StackIsPath, TakeHeading PROVE StackIsPath'
  OBVIOUS
<1> DEFINE level == items[next].level
<1>0. /\ next \in Nat \ {0} /\ next \in 1 .. Len(items) /\ items[next].kind = "heading"
      /\ Len(items) \in Nat /\ Len(stack) \in Nat /\ DOMAIN stack = 1 .. Len(stack)
      /\ \A m \in 1 .. Len(stack) : stack[m] \in 1 .. next - 1
      /\ next' = next + 1 /\ items' = items
  BY ChunkerStep, ShapeFacts DEF ShapeInv, TakeHeading
<1>1. PICK n \in Nat : /\ Leaves(n, level)
                       /\ stack' \in Seq(Nat) /\ Len(stack') = n + 1
                       /\ \A m \in 1 .. n : stack'[m] = stack[m]
                       /\ stack'[n + 1] = next
  BY PushShape
<1>2. /\ n <= Len(stack) /\ (n > 0 => items[stack[n]].level < level)
      /\ \A m \in (n + 1) .. Len(stack) : items[stack[m]].level >= level
  BY <1>0, <1>1 DEF Leaves
<1>3. /\ \A m \in 1 .. Len(stack) : stack[m] \in OnPath(next) /\ items[stack[m]].level \in Nat
      /\ level \in Nat
  <2>1. \A m \in 1 .. Len(stack) : stack[m] \in 1 .. Len(items)
    BY <1>0
  <2> QED BY <1>0, <2>1, LevelType DEF StackIsPath
<1>4. \A m \in 1 .. n : /\ m \in 1 .. Len(stack) /\ n > 0
                        /\ m = n \/ (m < n /\ n \in 1 .. Len(stack))
  <2>1. \A i, j \in Nat : i <= j =>
          \A m \in 1 .. i : m \in 1 .. j /\ i > 0 /\ (m = i \/ (m < i /\ i \in 1 .. j))
    OBVIOUS
  <2> QED BY <1>0, <1>1, <1>2, <2>1
<1>5. ASSUME NEW m \in 1 .. n, m < n, n \in 1 .. Len(stack)
      PROVE  items[stack[m]].level < items[stack[n]].level
  <2>1. m \in 1 .. Len(stack) /\ stack[m] < stack[n]
    BY <1>0, <1>4, <1>5 DEF StackIsPath, Increasing
  <2>2. stack[m] \in 1 .. next - 1 /\ stack[n] \in 1 .. next - 1
    BY <1>0, <1>5, <2>1
  <2>3. stack[n] \in (stack[m] + 1) .. next - 1
    BY <1>0, <2>1, <2>2
  <2>4. stack[m] \in OnPath(next) /\ stack[n] \in OnPath(next)
        /\ items[stack[m]].level \in Nat /\ items[stack[n]].level \in Nat
    BY <1>3, <1>5, <2>1
  <2>5. items[stack[n]].kind = "heading"
    BY <2>4 DEF OnPath
  <2>6. items[stack[n]].level > items[stack[m]].level
    BY <2>3, <2>4, <2>5 DEF OnPath
  <2> QED BY <2>4, <2>6
<1>6. \A m \in 1 .. n : items[stack[m]].level < level
  <2> TAKE m \in 1 .. n
  <2>1. CASE m = n
    BY <1>2, <1>4, <2>1
  <2>2. CASE m < n /\ n \in 1 .. Len(stack)
    <3>1. items[stack[m]].level < items[stack[n]].level /\ items[stack[n]].level < level
      BY <1>2, <1>5, <2>2
    <3>2. items[stack[m]].level \in Nat /\ items[stack[n]].level \in Nat
      BY <1>3, <1>4, <2>2
    <3> QED BY <1>3, <3>1, <3>2
  <2> QED BY <1>4, <2>1, <2>2
<1>7. DOMAIN stack' = 1 .. n + 1 /\ \A m \in 1 .. n + 1 : m = n + 1 \/ m \in 1 .. n
  BY <1>1, LenProperties
<1>8. \A j : j \in OnPath(next + 1) <=> j = next \/ (j \in OnPath(next) /\ items[j].level < level)
  BY <1>0, PathWithHeading
<1>9. \A m \in 1 .. n + 1 : stack'[m] \in OnPath(next + 1)
  BY <1>1, <1>3, <1>4, <1>6, <1>7, <1>8
<1>10. \A j \in OnPath(next + 1) : \E m \in 1 .. n + 1 : stack'[m] = j
  <2> TAKE j \in OnPath(next + 1)
  <2>1. CASE j = next
    <3>1. n + 1 \in 1 .. n + 1
      BY <1>1
    <3> QED BY <1>1, <2>1, <3>1
  <2>2. CASE j \in OnPath(next) /\ items[j].level < level
    <3>1. PICK m \in 1 .. Len(stack) : stack[m] = j
      BY <1>0, <2>2 DEF StackIsPath
    <3>2. ~(m \in (n + 1) .. Len(stack))
      <4> SUFFICES ASSUME m \in (n + 1) .. Len(stack) PROVE FALSE
        OBVIOUS
      <4>1. items[j].level >= level /\ items[j].level \in Nat
        BY <1>2, <1>3, <3>1
      <4> QED BY <1>3, <2>2, <4>1
    <3>3. m \in 1 .. n /\ m \in 1 .. n + 1
      BY <1>0, <1>1, <1>2, <3>2
    <3> QED BY <1>1, <3>1, <3>3
  <2> QED BY <1>8, <2>1, <2>2
<1>11. Increasing(stack')
  <2> SUFFICES ASSUME NEW j \in 1 .. n + 1, NEW k \in 1 .. n + 1, j < k
               PROVE  stack'[j] < stack'[k]
    BY <1>7 DEF Increasing
  <2>1. j \in 1 .. n
    BY <1>1
  <2>2. CASE k = n + 1
    <3>1. stack'[j] \in 1 .. next - 1 /\ stack'[k] = next
      BY <1>0, <1>1, <1>4, <2>1, <2>2
    <3> QED BY <1>0, <3>1
  <2>3. CASE k \in 1 .. n
    <3>1. j \in DOMAIN stack /\ k \in DOMAIN stack
      BY <1>0, <1>4, <2>1, <2>3
    <3> QED BY <1>1, <2>1, <2>3, <3>1 DEF StackIsPath, Increasing
  <2> QED BY <1>7, <2>2, <2>3
<1>12. OnPath(next)' = OnPath(next + 1)
  BY <1>0 DEF OnPath
<1>13. Increasing(stack)'
  BY <1>11 DEF Increasing
<1> QED BY <1>7, <1>9, <1>10, <1>12, <1>13 DEF StackIsPath

\* A step that changes no item changes no path.
LEMMA SamePaths ==
  ASSUME items' = items, next' = next, stack' = stack, StackIsPath
  PROVE  StackIsPath'
BY DEF StackIsPath, OnPath, Increasing

LEMMA StillCited ==
  ASSUME items' = items, Cited(chunks')
  PROVE  Cited(chunks)'
BY DEF Cited, PathAt

LEMMA StillInSection ==
  ASSUME items' = items, NEW n, n = next', NEW t, t = acc'.text, InSection(t, n - 1)
  PROVE  InSection(acc.text, next - 1)'
BY DEF InSection

\* What an item that is no heading leaves as it was.
LEMMA NoHeading ==
  ASSUME ShapeInv, StackIsPath, next \in 1 .. Len(items), items[next].kind # "heading",
         items' = items, next' = next + 1, stack' = stack
  PROVE  StackIsPath'
<1>1. next \in Nat /\ \A h \in next .. (next + 1) - 1 : h = next
  BY ShapeFacts
<1>2. OnPath(next) = OnPath(next + 1)
  BY <1>1, SameSection
<1>3. OnPath(next)' = OnPath(next + 1)
  BY DEF OnPath
<1> QED BY <1>2, <1>3 DEF StackIsPath, Increasing

LEMMA NothingInHand == \A n : InSection(<<>>, n)
BY DEF InSection

LEMMA HeadingCited == ShapeInv /\ OrderInv /\ SectionInv /\ TakeHeading => SectionInv'
<1> SUFFICES ASSUME ShapeInv, OrderInv, SectionInv, TakeHeading PROVE SectionInv'
  OBVIOUS
<1>1. items' = items /\ chunks' = Flushed(acc) /\ acc' = EmptyAcc /\ acc'.text = <<>>
  BY EmptyShape DEF TakeHeading
<1>2. Cited(Flushed(acc))
  BY FlushCited, ShapeFacts DEF OrderInv, SectionInv
<1>3. Cited(chunks)' /\ InSection(acc.text, next - 1)'
  BY <1>1, <1>2, NothingInHand, StillCited, StillInSection
<1>4. StackIsPath'
  BY HeadingPath DEF SectionInv
<1> QED BY <1>3, <1>4 DEF SectionInv

LEMMA TableCited == ShapeInv /\ OrderInv /\ SectionInv /\ TakeTable => SectionInv'
<1> SUFFICES ASSUME ShapeInv, OrderInv, SectionInv, TakeTable PROVE SectionInv'
  OBVIOUS
<1> DEFINE text == Truncate(TokensOf(next), MaxTokens)
           c == [body |-> text, section |-> stack, page |-> items[next].page]
           cs == Flushed(acc)
<1>1. /\ items' = items /\ next \in 1 .. Len(items) /\ items[next].kind = "table"
      /\ next' = next + 1 /\ stack' = stack /\ next \in Nat \ {0}
      /\ chunks' = Append(cs, c) /\ acc' = EmptyAcc /\ acc'.text = <<>>
  BY ChunkerStep, ShapeFacts, EmptyShape DEF TakeTable
<1>2. Cited(cs) /\ cs \in Seq(Chunk) /\ Len(cs) \in Nat
  BY FlushCited, FlushedEach, ShapeFacts DEF OrderInv, SectionInv
<1>3. text \in Seq(Token) /\ text[1][1] = next
  <2>1. items[next].size \in Nat \ {0}
    <3>1. items[next] \in Block
      BY <1>1, ElementOfSeq DEF ShapeInv
    <3> QED BY <1>1, <3>1 DEF Block, Item
  <2> DEFINE tokens == TokensOf(next)
  <2>2. tokens \in Seq(Token) /\ Len(tokens) = items[next].size /\ OfItem(tokens, next)
    BY <1>1, TokensInOrder
  <2>3. 1 \in DOMAIN tokens
    BY <2>1, <2>2, LenProperties
  <2>4. MaxTokens \in Nat /\ MaxTokens \in Nat \ {0} /\ text = Truncate(tokens, MaxTokens)
    BY Limits, IndexingAssumption
  <2> HIDE DEF tokens, text
  <2>5. /\ text \in Seq(Token)
        /\ \A i \in 1 .. Least(MaxTokens, Len(tokens)) : text[i] = tokens[i]
    BY <2>2, <2>4, TruncateShape
  <2>6. 1 \in 1 .. Least(MaxTokens, Len(tokens))
    BY <2>1, <2>2, <2>4 DEF Least
  <2> QED BY <2>2, <2>3, <2>5, <2>6 DEF OfItem
<1>4. c \in Chunk /\ c.body = text /\ c.section = stack
  <2>1. items[next].page \in Nat /\ stack \in Seq(Nat)
    BY <1>1, ShapeFacts, TokensShape
  <2> QED BY <1>3, <2>1 DEF Chunk
<1> HIDE DEF text, c, cs
<1>5. c.section = PathAt(c.body[1][1])
  BY <1>3, <1>4, StackInOrder DEF SectionInv
<1>6. /\ Append(cs, c) \in Seq(Chunk) /\ Len(Append(cs, c)) = Len(cs) + 1
      /\ \A k \in 1 .. Len(cs) : Append(cs, c)[k] = cs[k]
      /\ Append(cs, c)[Len(cs) + 1] = c
  BY <1>2, <1>4, AppendProperties
<1>7. \A k \in 1 .. Len(cs) + 1 : k = Len(cs) + 1 \/ k \in 1 .. Len(cs)
  BY <1>2
<1>8. Cited(Append(cs, c))
  BY <1>2, <1>5, <1>6, <1>7 DEF Cited
<1>9. Cited(chunks)' /\ InSection(acc.text, next - 1)'
  BY <1>1, <1>8, NothingInHand, StillCited, StillInSection
<1>10. StackIsPath'
  BY <1>1, NoHeading DEF SectionInv
<1> QED BY <1>9, <1>10 DEF SectionInv

LEMMA LongCited == ShapeInv /\ OrderInv /\ SectionInv /\ TakeLong => SectionInv'
<1> SUFFICES ASSUME ShapeInv, OrderInv, SectionInv, TakeLong PROVE SectionInv'
  OBVIOUS
<1>1. /\ items' = items /\ chunks' = Flushed(acc) /\ acc' = EmptyAcc /\ acc'.text = <<>>
      /\ next \in 1 .. Len(items) /\ items[next].kind = "sentence"
      /\ next' = next + 1 /\ stack' = stack
  BY ChunkerStep, EmptyShape DEF TakeLong
<1>2. Cited(Flushed(acc))
  BY FlushCited, ShapeFacts DEF OrderInv, SectionInv
<1>3. Cited(chunks)' /\ InSection(acc.text, next - 1)'
  BY <1>1, <1>2, NothingInHand, StillCited, StillInSection
<1>4. StackIsPath'
  BY <1>1, NoHeading DEF SectionInv
<1> QED BY <1>3, <1>4 DEF SectionInv

\* What remains of a flushed text is part of it.
LEMMA RemainsPart ==
  ASSUME ShapeInv, NEW a \in Acc
  PROVE  /\ Remaining(a) \in Acc /\ Remaining(a).text \in Seq(Token)
         /\ Part(Remaining(a).text, a.text, Dropped(a)) /\ Dropped(a) \in Nat
<1> DEFINE kept == Remaining(a)
<1>1. /\ kept \in Acc /\ Dropped(a) \in Nat /\ Len(kept.text) = Len(a.text) - Dropped(a)
      /\ \A i \in 1 .. Len(a.text) - Dropped(a) : kept.text[i] = a.text[Dropped(a) + i]
  BY RemainingShape
<1> HIDE DEF kept
<1>2. /\ kept.text \in Seq(Token) /\ Len(kept.text) \in Nat /\ DOMAIN kept.text = 1 .. Len(kept.text)
      /\ a.text \in Seq(Token) /\ DOMAIN a.text = 1 .. Len(a.text) /\ Len(a.text) \in Nat
  BY <1>1, AccShape
<1>3. Part(kept.text, a.text, Dropped(a))
  BY <1>1, <1>2 DEF Part
<1> QED BY <1>1, <1>2, <1>3 DEF kept

LEMMA SentenceCited == ShapeInv /\ OrderInv /\ SectionInv /\ TakeSentence => SectionInv'
<1> SUFFICES ASSUME ShapeInv, OrderInv, SectionInv, TakeSentence PROVE SectionInv'
  OBVIOUS
<1> DEFINE tokens == TokensOf(next)
           page == items[next].page
<1>1. /\ items' = items /\ next \in 1 .. Len(items) /\ next \in Nat \ {0}
      /\ items[next].kind = "sentence" /\ next' = next + 1 /\ stack' = stack
  BY ChunkerStep, ShapeFacts DEF TakeSentence
<1>2. tokens \in Seq(Token) /\ OfItem(tokens, next) /\ page \in Nat
  BY <1>1, TokensInOrder, ShapeFacts, TokensShape
<1>3. InSection(tokens, next)
  BY <1>1, <1>2 DEF OfItem, InSection
<1>4. ASSUME NEW a \in Acc, UpTo(a.text, next - 1), InSection(a.text, next - 1),
             acc' = Add(a, tokens, page)
      PROVE  InSection(acc.text, next - 1)'
  <2> DEFINE t == a.text
  <2>1. t \in Seq(Token) /\ UpTo(t, next - 1) /\ InSection(t, next - 1)
    BY <1>4, AccShape
  <2>2. acc'.text = t \o tokens
    BY <1>2, <1>4, AddShape
  <2> HIDE DEF t, tokens
  <2>3. InSection(t, next)
    BY <1>1, <2>1, SectionWider
  <2>4. InSection(t \o tokens, next)
    BY <1>2, <1>3, <2>1, <2>3, SectionConcat
  <2>5. next' - 1 = next
    BY <1>1
  <2> QED BY <1>1, <2>2, <2>4, <2>5, StillInSection
<1>5. acc \in Acc /\ UpTo(acc.text, next - 1) /\ InSection(acc.text, next - 1) /\ Cited(chunks)
  BY ShapeFacts DEF OrderInv, SectionInv
<1>6. StackIsPath'
  BY <1>1, NoHeading DEF SectionInv
<1>7. CASE Full(items[next].size)
  <2> DEFINE kept == Remaining(acc)
  <2>1. chunks' = Flushed(acc) /\ acc' = Add(kept, tokens, page)
    BY <1>7 DEF TakeSentence
  <2>2. /\ kept \in Acc /\ kept.text \in Seq(Token) /\ acc.text \in Seq(Token)
        /\ Part(kept.text, acc.text, Dropped(acc)) /\ Dropped(acc) \in Nat
    BY <1>5, RemainsPart, AccShape
  <2>3. UpTo(kept.text, next - 1) /\ InSection(kept.text, next - 1)
    <3> DEFINE t == kept.text
               s == acc.text
               d == Dropped(acc)
    <3>1. /\ t \in Seq(Token) /\ s \in Seq(Token) /\ d \in Nat /\ Part(t, s, d)
          /\ UpTo(s, next - 1) /\ InSection(s, next - 1)
      BY <1>5, <2>2
    <3> HIDE DEF t, s, d
    <3>2. UpTo(t, next - 1) /\ InSection(t, next - 1)
      BY <3>1, OfPart, SectionPart
    <3> QED BY <3>2 DEF t
  <2> HIDE DEF kept, tokens, page
  <2>4. InSection(acc.text, next - 1)'
    BY <1>4, <2>1, <2>2, <2>3
  <2>5. Cited(Flushed(acc))
    BY <1>5, FlushCited
  <2>6. Cited(chunks)'
    BY <1>1, <2>1, <2>5, StillCited
  <2> QED BY <1>6, <2>4, <2>6 DEF SectionInv
<1>8. CASE ~Full(items[next].size)
  <2>1. chunks' = chunks /\ acc' = Add(acc, tokens, page)
    BY <1>8 DEF TakeSentence
  <2> HIDE DEF tokens, page
  <2>2. InSection(acc.text, next - 1)'
    BY <1>4, <1>5, <2>1
  <2>3. Cited(chunks)'
    BY <1>1, <1>5, <2>1, StillCited
  <2> QED BY <1>6, <2>2, <2>3 DEF SectionInv
<1> QED BY <1>7, <1>8

\* What flushing a text without taking an item does.
LEMMA FlushOnly ==
  ASSUME ShapeInv, OrderInv, SectionInv, NEW a \in Acc,
         UpTo(a.text, next - 1), InSection(a.text, next - 1),
         items' = items, next' = next, stack' = stack,
         chunks' = Flushed(a), acc' = Remaining(a)
  PROVE  SectionInv'
<1>1. Cited(chunks)'
  BY FlushCited, StillCited
<1> DEFINE t == Remaining(a).text
           s == a.text
           d == Dropped(a)
<1>2. Part(t, s, d) /\ InSection(s, next - 1) /\ acc'.text = t
  BY RemainsPart
<1> HIDE DEF t, s, d
<1>3. InSection(acc.text, next - 1)'
  BY <1>2, SectionPart, StillInSection
<1> QED BY <1>1, <1>3, SamePaths DEF SectionInv

LEMMA SplitCited == ShapeInv /\ OrderInv /\ SectionInv /\ SplitLong => SectionInv'
<1> SUFFICES ASSUME ShapeInv, OrderInv, SectionInv, SplitLong PROVE SectionInv'
  OBVIOUS
<1>1. /\ items' = items /\ next' = next /\ stack' = stack /\ next \in Nat \ {0}
      /\ next - 1 \in 1 .. Len(items) /\ items[next - 1].kind = "sentence"
      /\ rest \in Seq(Token) /\ acc \in Acc /\ acc.text \in Seq(Token)
  BY ChunkerStep, ShapeFacts, AccShape
<1>2. /\ Piece \in Seq(Token) /\ Len(Piece) \in Nat /\ Len(Piece) <= Len(rest)
      /\ Len(rest) \in Nat /\ \A n \in 1 .. Len(Piece) : Piece[n] = rest[n]
      /\ WithPiece \in Acc /\ WithPiece.text = acc.text \o Piece
      /\ chunks' = Flushed(WithPiece) /\ acc' = Remaining(WithPiece)
  BY PieceShape
<1>3. DOMAIN Piece = 1 .. Len(Piece) /\ DOMAIN rest = 1 .. Len(rest)
  BY <1>1, <1>2, LenProperties
<1>4. Part(Piece, rest, 0)
  BY <1>2, <1>3 DEF Part
<1>5. OfItem(Piece, next - 1)
  BY <1>1, <1>2, <1>4, OfPart DEF OrderInv
<1>6. InSection(Piece, next - 1) /\ UpTo(Piece, next - 1)
  BY <1>1, <1>5 DEF OfItem, InSection, UpTo
<1>7. UpTo(WithPiece.text, next - 1)
  BY <1>1, <1>2, <1>6, OfConcat DEF OrderInv
<1>8. InSection(WithPiece.text, next - 1)
  BY <1>1, <1>2, <1>6, SectionConcat DEF SectionInv
<1> QED BY <1>1, <1>2, <1>7, <1>8, FlushOnly

LEMMA SectionInit == Init => SectionInv
<1> SUFFICES ASSUME Init PROVE SectionInv
  OBVIOUS
<1>1. acc.text = <<>> /\ chunks = <<>> /\ stack = <<>> /\ next = 1
  BY EmptyShape DEF Init
<1>2. OnPath(1) = {} /\ Len(<<>>) = 0 /\ DOMAIN <<>> = {}
  BY DEF OnPath
<1> QED BY <1>1, <1>2, NothingInHand DEF SectionInv, StackIsPath, Increasing, Cited

LEMMA SectionNext ==
  ASSUME ShapeInv, OrderInv, SectionInv, [Next]_vars
  PROVE  SectionInv'
<1>1. CASE Extraction
  <2>1. /\ acc.text = <<>> /\ chunks = <<>> /\ stack = <<>> /\ next = 1
        /\ UNCHANGED <<acc, chunks, stack, next>>
    BY <1>1, EmptyShape DEF Extraction, ShapeInv, Untouched
  <2>2. OnPath(next)' = {} /\ Len(<<>>) = 0 /\ DOMAIN <<>> = {}
    BY <2>1 DEF OnPath
  <2>3. StackIsPath'
    BY <2>1, <2>2 DEF StackIsPath, Increasing
  <2>4. InSection(acc.text, next - 1)' /\ Cited(chunks)'
    BY <2>1, <2>2 DEF InSection, Cited
  <2> QED BY <2>3, <2>4 DEF SectionInv
<1>2. CASE LastFlush
  <2>1. /\ items' = items /\ next' = next /\ stack' = stack /\ acc \in Acc
        /\ chunks' = Flushed(acc) /\ acc' = Remaining(acc)
    BY <1>2, ShapeFacts DEF LastFlush
  <2> QED BY <2>1, FlushOnly DEF OrderInv, SectionInv
<1>3. ASSUME UNCHANGED <<items, next, stack, acc, chunks>>  PROVE SectionInv'
  <2>1. InSection(acc.text, next - 1)' /\ Cited(chunks)'
    BY <1>3, StillInSection, StillCited DEF SectionInv
  <2> QED BY <1>3, <2>1, SamePaths DEF SectionInv
<1>4. CASE EmbedBatch \/ EmbedRaises \/ Embedded \/ UNCHANGED vars
  BY <1>3, <1>4 DEF EmbedBatch, EmbedRaises, Embedded, vars
<1> QED BY <1>1, <1>2, <1>4, HeadingCited, TableCited, SentenceCited, LongCited, SplitCited DEF Next

\* The stack the code pops and pushes holds, when a chunk is cut, the headings
\* above the text the chunk begins with, whichever item closed it and whatever
\* overlap it begins with (chunk.py:76-83 and 126-184), for any nesting of
\* headings.
THEOREM BreadcrumbsTrue == Spec => []BreadcrumbOfText
<1>1. ShapeInv /\ SectionInv => BreadcrumbOfText
  BY ShapeFacts DEF SectionInv, Cited, BreadcrumbOfText
<1> QED BY <1>1, SectionInit, SectionNext, OrderInit, OrderNext, ShapeInit, ShapeNext, PTL DEF Spec

-----------------------------------------------------------------------------
(* The page a text begins on.                                              *)

\* No sentence has to be hard-split.
NoneLong == \A i \in DOMAIN items : items[i].kind = "sentence" => items[i].size <= MaxTokens

Before(cs, k) == UNION {ToSet(cs[j].body) : j \in 1 .. k - 1}

\* A text whose words up to place m are among the old ones, but not that at m, is
\* of the page of item m.
BeginsOn(text, old, page) ==
  \E m \in DOMAIN text :
    /\ text[m] \notin old
    /\ \A n \in 1 .. m - 1 : text[n] \in old
    /\ page = items[text[m][1]].page

Paged(cs) == \A k \in 1 .. Len(cs) : BeginsOn(cs[k].body, Before(cs, k), cs[k].page)

\* What the accumulator holds is an overlap only together with the sentence that
\* was too much for the chunk before.
PageInv ==
  NoneLong =>
    /\ rest = <<>>
    /\ Paged(chunks)
    /\ phase = "chunk" => \/ acc = EmptyAcc
                          \/ BeginsOn(acc.text, Held(chunks), acc.page) /\ acc.page > 0

LEMMA BlockFacts ==
  ASSUME ShapeInv
  PROVE  \A i \in 1 .. Len(items) : items[i].size \in Nat \ {0} /\ items[i].page \in Nat \ {0}
<1> TAKE i \in 1 .. Len(items)
<1>1. items[i] \in Block
  BY ShapeFacts, ElementOfSeq DEF ShapeInv
<1> QED BY <1>1 DEF Block, Item

\* A text that follows does not change where a text begins.
LEMMA BeginsStill ==
  ASSUME NEW s \in Seq(Token), NEW t \in Seq(Token), NEW old, NEW page, BeginsOn(s, old, page)
  PROVE  BeginsOn(s \o t, old, page)
<1>1. PICK m \in DOMAIN s : /\ s[m] \notin old
                            /\ \A n \in 1 .. m - 1 : s[n] \in old
                            /\ page = items[s[m][1]].page
  BY DEF BeginsOn
<1>2. /\ DOMAIN s = 1 .. Len(s) /\ Len(s) \in Nat /\ Len(t) \in Nat /\ s \o t \in Seq(Token)
      /\ Len(s \o t) = Len(s) + Len(t)
      /\ \A i \in 1 .. Len(s) + Len(t) : (s \o t)[i] = IF i <= Len(s) THEN s[i] ELSE t[i - Len(s)]
  BY LenProperties, ConcatProperties
<1>3. DOMAIN (s \o t) = 1 .. Len(s) + Len(t)
  BY <1>2, LenProperties
<1>4. \A n \in 1 .. m : n \in 1 .. Len(s) + Len(t) /\ (s \o t)[n] = s[n]
  BY <1>2
<1>5. m \in 1 .. m /\ \A n \in 1 .. m - 1 : n \in 1 .. m
  BY <1>2
<1> QED BY <1>1, <1>3, <1>4, <1>5 DEF BeginsOn

\* After old words, a text begins with the first word of the next item.
LEMMA BeginsWithItem ==
  ASSUME NEW s \in Seq(Token), NEW t \in Seq(Token), t # <<>>, NEW old, ToSet(s) \subseteq old,
         NEW i, OfItem(t, i), \A x \in old : x[1] # i
  PROVE  BeginsOn(s \o t, old, items[i].page)
<1>1. /\ DOMAIN s = 1 .. Len(s) /\ Len(s) \in Nat /\ Len(t) \in Nat /\ DOMAIN t = 1 .. Len(t)
      /\ s \o t \in Seq(Token) /\ Len(s \o t) = Len(s) + Len(t) /\ Len(t) # 0
      /\ \A n \in 1 .. Len(s) + Len(t) : (s \o t)[n] = IF n <= Len(s) THEN s[n] ELSE t[n - Len(s)]
  BY LenProperties, ConcatProperties, EmptySeq
<1>2. DOMAIN (s \o t) = 1 .. Len(s) + Len(t)
  BY <1>1, LenProperties
<1> DEFINE m == Len(s) + 1
<1>3. /\ m \in 1 .. Len(s) + Len(t) /\ ~(m <= Len(s)) /\ m - Len(s) = 1 /\ 1 \in DOMAIN t
      /\ \A n \in 1 .. m - 1 : n \in 1 .. Len(s) + Len(t) /\ n <= Len(s) /\ n \in DOMAIN s
  BY <1>1
<1>4. (s \o t)[m] = t[1] /\ t[1][1] = i
  BY <1>1, <1>3 DEF OfItem
<1>5. \A n \in 1 .. m - 1 : (s \o t)[n] \in old
  BY <1>1, <1>3 DEF ToSet
<1> HIDE DEF m
<1> QED BY <1>2, <1>3, <1>4, <1>5 DEF BeginsOn

\* The items of the chunks, and hence of what they hold, were taken before.
LEMMA HeldEarlier ==
  ASSUME NEW cs, NEW i \in Nat, Reads(cs, i - 1)
  PROVE  \A x \in Held(cs) : x[1] # i
<1> TAKE x \in Held(cs)
<1>1. PICK k \in 1 .. Len(cs) : x \in ToSet(cs[k].body)
  BY DEF Held
<1>2. PICK m \in DOMAIN cs[k].body : x = cs[k].body[m]
  BY <1>1 DEF ToSet
<1>3. x[1] \in 1 .. i - 1
  BY <1>2 DEF Reads, UpTo
<1> QED BY <1>3

\* A chunk at the end.
LEMMA PagedAppend ==
  ASSUME NEW cs, Len(cs) \in Nat, Paged(cs), NEW ds, Len(ds) = Len(cs) + 1,
         \A k \in 1 .. Len(cs) : ds[k] = cs[k],
         BeginsOn(ds[Len(cs) + 1].body, Held(cs), ds[Len(cs) + 1].page)
  PROVE  Paged(ds)
<1> DEFINE n == Len(cs)
<1>1. n \in Nat
  OBVIOUS
<1>2. \A k \in 1 .. n + 1 : /\ k = n + 1 \/ k \in 1 .. n
                            /\ \A j \in 1 .. k - 1 : j \in 1 .. n
  BY <1>1
<1>3. \A k \in 1 .. n + 1 : Before(ds, k) = Before(cs, k)
  BY <1>2 DEF Before
<1>4. (n + 1) - 1 = n
  BY <1>1
<1>5. Before(cs, n + 1) = Held(cs)
  BY <1>4 DEF Before, Held
<1> HIDE DEF n
<1> SUFFICES ASSUME NEW k \in 1 .. n + 1
             PROVE  BeginsOn(ds[k].body, Before(ds, k), ds[k].page)
  BY DEF Paged, n
<1>6. CASE k = n + 1
  BY <1>3, <1>5, <1>6 DEF n
<1>7. CASE k \in 1 .. n
  BY <1>3, <1>7 DEF Paged, n
<1> QED BY <1>2, <1>6, <1>7

LEMMA FlushPaged ==
  ASSUME ShapeInv, Paged(chunks), NEW a \in Acc,
         a.text # <<>> => BeginsOn(a.text, Held(chunks), a.page) /\ a.page > 0
  PROVE  Paged(Flushed(a))
<1>0. /\ chunks \in Seq(Chunk) /\ stack \in Seq(Nat) /\ Len(chunks) \in Nat
      /\ a.text \in Seq(Token) /\ a.page \in Nat
  BY ShapeFacts, AccShape DEF Acc
<1>1. CASE a.text = <<>>
  BY <1>0, <1>1, FlushedShape
<1>2. CASE a.text # <<>> /\ Folds(a.text)
  <2> DEFINE n == Len(chunks)
             s == chunks[n].body
             t == a.text
             ds == Flushed(a)
  <2>1. /\ n # 0 /\ Len(ds) = n
        /\ \A k \in 1 .. n - 1 : ds[k] = chunks[k]
        /\ ds[n] = [chunks[n] EXCEPT !.body = @ \o a.text]
    BY <1>0, <1>2, FlushedShape
  <2>2. n \in 1 .. Len(chunks) /\ n \in Nat
    BY <1>0, <2>1
  <2>3. chunks[n] \in Chunk /\ s \in Seq(Token) /\ t \in Seq(Token)
    BY <1>0, <2>2, ChunkShape
  <2>4. ds[n].body = s \o t /\ ds[n].page = chunks[n].page
    BY <2>1, <2>3 DEF Chunk
  <2>5. BeginsOn(s, Before(chunks, n), chunks[n].page)
    BY <2>2 DEF Paged
  <2> HIDE DEF s, t, ds
  <2>6. BeginsOn(s \o t, Before(chunks, n), chunks[n].page)
    BY <2>3, <2>5, BeginsStill
  <2>7. \A k \in 1 .. n : /\ k = n \/ k \in 1 .. n - 1
                          /\ \A j \in 1 .. k - 1 : j \in 1 .. n - 1
    BY <2>2
  <2>8. \A k \in 1 .. n : Before(ds, k) = Before(chunks, k)
    BY <2>1, <2>7 DEF Before
  <2> HIDE DEF n
  <2>9. \A k \in 1 .. n : BeginsOn(ds[k].body, Before(ds, k), ds[k].page)
    <3> TAKE k \in 1 .. n
    <3>1. CASE k = n
      BY <2>4, <2>6, <2>8, <3>1
    <3>2. CASE k \in 1 .. n - 1
      BY <2>1, <2>8, <3>2 DEF Paged, n
    <3> QED BY <2>7, <3>1, <3>2
  <2> QED BY <2>1, <2>9 DEF Paged, ds
<1>3. CASE a.text # <<>> /\ ~Folds(a.text)
  <2> DEFINE ds == Flushed(a)
  <2>1. /\ Len(ds) = Len(chunks) + 1
        /\ \A k \in 1 .. Len(chunks) : ds[k] = chunks[k]
        /\ ds[Len(chunks) + 1] = NewChunk(a)
    BY <1>0, <1>3, FlushedShape
  <2>2. NewChunk(a).body = a.text /\ NewChunk(a).page = a.page
    BY <1>0, <1>3 DEF NewChunk, Most
  <2> HIDE DEF ds
  <2>3. Paged(ds)
    BY <1>0, <1>3, <2>1, <2>2, PagedAppend
  <2> QED BY <2>3 DEF ds
<1> QED BY <1>1, <1>2, <1>3

\* Steps that leave the items leave where a text begins.
LEMMA StillPaged ==
  ASSUME items' = items, Paged(chunks')
  PROVE  Paged(chunks)'
BY DEF Paged, BeginsOn, Before

LEMMA StillBegins ==
  ASSUME items' = items, NEW t, t = acc'.text, NEW old, old = Held(chunks'),
         NEW p, p = acc'.page, BeginsOn(t, old, p)
  PROVE  BeginsOn(acc.text, Held(chunks), acc.page)'
BY DEF BeginsOn, Held

LEMMA ClosedPaged ==
  ASSUME ShapeInv, PageInv, NoneLong, phase = "chunk"
  PROVE  Paged(Flushed(acc)) /\ rest = <<>>
<1>1. acc.text # <<>> => BeginsOn(acc.text, Held(chunks), acc.page) /\ acc.page > 0
  BY DEF PageInv, EmptyAcc
<1>2. Paged(chunks) /\ rest = <<>> /\ acc \in Acc
  BY ShapeFacts DEF PageInv
<1> QED BY <1>1, <1>2, FlushPaged

\* After old words of the accumulator, a sentence says the page.
LEMMA SentenceBegins ==
  ASSUME ShapeInv, next \in 1 .. Len(items), NEW a \in Acc, a.page = 0,
         NEW cs, Reads(cs, next - 1), ToSet(a.text) \subseteq Held(cs),
         acc' = Add(a, TokensOf(next), items[next].page)
  PROVE  BeginsOn(acc'.text, Held(cs), acc'.page) /\ acc'.page > 0
<1> DEFINE s == a.text
           t == TokensOf(next)
           old == Held(cs)
           page == items[next].page
<1>1. /\ next \in Nat /\ items[next].size \in Nat \ {0} /\ page \in Nat \ {0}
  BY ShapeFacts, BlockFacts
<1>2. s \in Seq(Token) /\ t \in Seq(Token) /\ Len(t) = items[next].size /\ OfItem(t, next)
  BY TokensInOrder, AccShape
<1>3. t # <<>>
  BY <1>1, <1>2
<1>4. acc'.text = s \o t /\ acc'.page = page
  <2>1. acc' = Add(a, t, page) /\ a.page = 0 /\ page \in Nat
    BY <1>1
  <2> HIDE DEF t, page
  <2>2. Add(a, t, page) = [text |-> a.text \o t, page |-> page]
    BY <2>1 DEF Add
  <2> QED BY <2>1, <2>2
<1>5. \A x \in old : x[1] # next
  BY <1>1, HeldEarlier
<1>6. ToSet(s) \subseteq old
  OBVIOUS
<1> HIDE DEF s, t, old
<1>7. BeginsOn(s \o t, old, page)
  BY <1>2, <1>3, <1>5, <1>6, BeginsWithItem
<1> QED BY <1>1, <1>4, <1>7 DEF old

LEMMA SentencePaged ==
  ASSUME ShapeInv, OrderInv, PageInv, NoneLong, TakeSentence
  PROVE  /\ Paged(chunks')
         /\ BeginsOn(acc'.text, Held(chunks'), acc'.page) /\ acc'.page > 0
<1> DEFINE tokens == TokensOf(next)
           page == items[next].page
<1>1. /\ phase = "chunk" /\ rest = <<>> /\ next \in 1 .. Len(items)
      /\ acc \in Acc /\ acc.text \in Seq(Token) /\ acc.page \in Nat /\ Len(acc.text) \in Nat
  BY ChunkerStep, ShapeFacts, AccShape DEF TakeSentence, Acc
<1>2. tokens \in Seq(Token) /\ page \in Nat \ {0}
  BY <1>1, TokensInOrder, BlockFacts
<1>3. CASE Full(items[next].size)
  <2> DEFINE kept == Remaining(acc)
  <2>1. chunks' = Flushed(acc) /\ acc' = Add(kept, tokens, page)
    BY <1>3 DEF TakeSentence
  <2>2. Paged(Flushed(acc)) /\ Reads(Flushed(acc), next - 1)
    BY <1>1, ClosedPaged, ClosingOrder
  <2>3. kept \in Acc /\ kept.page = 0 /\ ToSet(kept.text) \subseteq ToSet(acc.text)
    <3> DEFINE t == kept.text
               s == acc.text
               d == Dropped(acc)
    <3>1. /\ t \in Seq(Token) /\ s \in Seq(Token) /\ d \in Nat /\ Part(t, s, d) /\ kept \in Acc
          /\ kept.page = 0
      BY <1>1, RemainsPart, RemainingShape
    <3> HIDE DEF t, s, d
    <3>2. ToSet(t) \subseteq ToSet(s)
      BY <3>1, OfPart
    <3> QED BY <3>1, <3>2 DEF t, s
  <2>4. ToSet(kept.text) \subseteq Held(Flushed(acc))
    BY <1>1, <2>3, FlushHolds
  <2> HIDE DEF kept
  <2>5. BeginsOn(acc'.text, Held(Flushed(acc)), acc'.page) /\ acc'.page > 0
    BY <1>1, <2>1, <2>2, <2>3, <2>4, SentenceBegins
  <2> QED BY <2>1, <2>2, <2>5
<1>4. CASE ~Full(items[next].size)
  <2>1. chunks' = chunks /\ acc' = Add(acc, tokens, page) /\ Paged(chunks)
    BY <1>4 DEF TakeSentence, PageInv
  <2>2. CASE acc = EmptyAcc
    <3>1. acc.page = 0 /\ ToSet(acc.text) \subseteq Held(chunks)
      BY <2>2, EmptyText DEF EmptyAcc
    <3>2. Reads(chunks, next - 1)
      BY DEF OrderInv
    <3>3. BeginsOn(acc'.text, Held(chunks), acc'.page) /\ acc'.page > 0
      BY <1>1, <2>1, <3>1, <3>2, SentenceBegins
    <3> QED BY <2>1, <3>3
  <2>3. CASE BeginsOn(acc.text, Held(chunks), acc.page) /\ acc.page > 0
    <3> DEFINE s == acc.text
               old == Held(chunks)
    <3>1. acc'.text = s \o tokens /\ acc'.page = acc.page
      <4>1. tokens \in Seq(Token) /\ page \in Nat /\ acc \in Acc /\ acc.page # 0
        BY <1>1, <1>2, <2>3
      <4> HIDE DEF tokens, page
      <4>2. /\ Add(acc, tokens, page).text = acc.text \o tokens
            /\ Add(acc, tokens, page).page = IF acc.page = 0 THEN page ELSE acc.page
        BY <4>1, AddShape
      <4> QED BY <2>1, <4>1, <4>2
    <3>2. s \in Seq(Token) /\ BeginsOn(s, old, acc.page)
      BY <1>1, <2>3
    <3> HIDE DEF s, old, tokens
    <3>3. BeginsOn(s \o tokens, old, acc.page)
      BY <1>2, <3>2, BeginsStill
    <3> QED BY <2>1, <2>3, <3>1, <3>3 DEF old
  <2> QED BY <1>1, <2>2, <2>3 DEF PageInv
<1> QED BY <1>3, <1>4

LEMMA TablePaged ==
  ASSUME ShapeInv, OrderInv, PageInv, NoneLong, TakeTable
  PROVE  Paged(chunks')
<1> DEFINE text == Truncate(TokensOf(next), MaxTokens)
           c == [body |-> text, section |-> stack, page |-> items[next].page]
           cs == Flushed(acc)
<1>1. /\ phase = "chunk" /\ rest = <<>> /\ next \in 1 .. Len(items) /\ next \in Nat
      /\ chunks' = Append(cs, c)
  BY ChunkerStep, ShapeFacts DEF TakeTable
<1>2. Paged(cs) /\ Reads(cs, next - 1) /\ cs \in Seq(Chunk) /\ Len(cs) \in Nat
  BY <1>1, ClosedPaged, ClosingOrder
<1>3. text \in Seq(Token) /\ text # <<>> /\ OfItem(text, next)
  <2> DEFINE tokens == TokensOf(next)
  <2>1. tokens \in Seq(Token) /\ Len(tokens) \in Nat \ {0} /\ OfItem(tokens, next)
    BY <1>1, TokensInOrder, BlockFacts
  <2>2. MaxTokens \in Nat \ {0} /\ text = Truncate(tokens, MaxTokens)
    BY IndexingAssumption
  <2> HIDE DEF tokens, text
  <2>3. /\ text \in Seq(Token) /\ Len(text) = Least(MaxTokens, Len(tokens))
        /\ \A i \in 1 .. Least(MaxTokens, Len(tokens)) : text[i] = tokens[i]
    BY <2>1, <2>2, TruncateShape
  <2>4. Len(text) \in Nat \ {0} /\ Len(text) <= Len(tokens)
    BY <2>1, <2>2, <2>3 DEF Least
  <2>5. DOMAIN text = 1 .. Len(text) /\ DOMAIN tokens = 1 .. Len(tokens)
    BY <2>1, <2>3, LenProperties
  <2>6. text # <<>>
    BY <2>4
  <2>7. \A i \in 1 .. Len(text) : i \in 1 .. Len(tokens)
    BY <2>1, <2>4
  <2> QED BY <2>1, <2>3, <2>5, <2>6, <2>7 DEF OfItem
<1>4. c \in Chunk /\ c.body = text /\ c.page = items[next].page
  <2>1. items[next].page \in Nat /\ stack \in Seq(Nat)
    BY <1>1, ShapeFacts, TokensShape
  <2> QED BY <1>3, <2>1 DEF Chunk
<1> HIDE DEF text, c, cs
<1>5. /\ Len(chunks') = Len(cs) + 1
      /\ \A k \in 1 .. Len(cs) : chunks'[k] = cs[k]
      /\ chunks'[Len(cs) + 1] = c
  BY <1>1, <1>2, <1>4, AppendProperties
<1>6. BeginsOn(text, Held(cs), items[next].page)
  <2> DEFINE none == <<>>
             old == Held(cs)
  <2>1. none \in Seq(Token) /\ ToSet(none) \subseteq old
    BY EmptyText
  <2>2. \A x \in old : x[1] # next
    BY <1>1, <1>2, HeldEarlier
  <2> HIDE DEF old
  <2>3. none \o text = text
    BY <1>3, <2>1, OfConcat
  <2> HIDE DEF none
  <2>4. BeginsOn(none \o text, old, items[next].page)
    BY <1>3, <2>1, <2>2, BeginsWithItem
  <2> QED BY <2>3, <2>4 DEF old
<1> QED BY <1>2, <1>4, <1>5, <1>6, PagedAppend

LEMMA PageInit == Init => PageInv
BY DEF Init, PageInv, Paged

LEMMA PageNext ==
  ASSUME ShapeInv, OrderInv, PageInv, [Next]_vars
  PROVE  PageInv'
<1>1. CASE Extraction
  <2>1. /\ acc = EmptyAcc /\ rest = <<>> /\ chunks = <<>> /\ Len(<<>>) = 0
        /\ UNCHANGED <<acc, rest, chunks>>
    BY <1>1 DEF Extraction, ShapeInv, Untouched
  <2>2. Paged(chunks)'
    BY <2>1 DEF Paged
  <2>3. (acc = EmptyAcc)'
    BY <2>1 DEF EmptyAcc
  <2> QED BY <2>1, <2>2, <2>3 DEF PageInv
<1>2. ASSUME TakeHeading \/ TakeTable \/ TakeSentence \/ TakeLong \/ SplitLong \/ LastFlush,
             NoneLong
      PROVE  /\ rest' = <<>> /\ Paged(chunks)'
             /\ phase' = "chunk" =>
                  \/ (acc = EmptyAcc)'
                  \/ BeginsOn(acc.text, Held(chunks), acc.page)' /\ acc'.page > 0
  <2>1. /\ items' = items /\ phase = "chunk" /\ rest = <<>> /\ ~SplitLong
        /\ Paged(Flushed(acc))
    BY <1>2, ChunkerStep, ClosedPaged DEF SplitLong
  <2>2. ~TakeLong
    <3> SUFFICES ASSUME TakeLong PROVE FALSE
      OBVIOUS
    <3>1. next \in DOMAIN items /\ items[next].kind = "sentence" /\ items[next].size > MaxTokens
      BY ChunkerStep, ShapeFacts DEF TakeLong
    <3>2. items[next].size <= MaxTokens /\ items[next].size \in Nat /\ MaxTokens \in Nat
      BY <1>2, <3>1, ShapeFacts, BlockFacts, Limits DEF NoneLong
    <3> QED BY <3>1, <3>2
  <2>3. CASE TakeHeading
    <3>1. rest' = rest /\ chunks' = Flushed(acc) /\ acc' = EmptyAcc
      BY <2>3 DEF TakeHeading
    <3> QED BY <2>1, <3>1, StillPaged DEF EmptyAcc
  <2>4. CASE TakeTable
    <3>1. rest' = rest /\ acc' = EmptyAcc
      BY <2>4 DEF TakeTable
    <3> QED BY <1>2, <2>1, <2>4, <3>1, StillPaged, TablePaged DEF EmptyAcc
  <2>5. CASE TakeSentence
    <3>1. rest' = rest
      BY <2>5 DEF TakeSentence
    <3> QED BY <1>2, <2>1, <2>5, <3>1, StillPaged, StillBegins, SentencePaged
  <2>6. CASE LastFlush
    <3>1. rest' = rest /\ chunks' = Flushed(acc) /\ phase' # "chunk"
      BY <2>6 DEF LastFlush
    <3> QED BY <2>1, <3>1, StillPaged
  <2> QED BY <1>2, <2>1, <2>2, <2>3, <2>4, <2>5, <2>6
<1>3. ASSUME UNCHANGED <<items, rest, acc, chunks>>, phase' = "chunk" => phase = "chunk", NoneLong
      PROVE  /\ rest' = <<>> /\ Paged(chunks)'
             /\ phase' = "chunk" =>
                  \/ (acc = EmptyAcc)'
                  \/ BeginsOn(acc.text, Held(chunks), acc.page)' /\ acc'.page > 0
  <2>1. BeginsOn(acc.text, Held(chunks), acc.page) =>
          BeginsOn(acc.text, Held(chunks), acc.page)'
    BY <1>3, StillBegins
  <2> QED BY <1>3, <2>1, StillPaged DEF PageInv, EmptyAcc
<1>4. ASSUME TakeHeading \/ TakeTable \/ TakeSentence \/ TakeLong \/ SplitLong \/ LastFlush
      PROVE  PageInv'
  <2>1. NoneLong' => NoneLong
    BY <1>4, ChunkerStep DEF NoneLong
  <2> QED BY <1>2, <1>4, <2>1 DEF PageInv
<1>5. CASE EmbedBatch \/ EmbedRaises \/ Embedded \/ UNCHANGED vars
  <2>1. UNCHANGED <<items, rest, acc, chunks>> /\ (phase' = "chunk" => phase = "chunk")
    BY <1>5 DEF EmbedBatch, EmbedRaises, Embedded, vars
  <2>2. NoneLong' => NoneLong
    BY <2>1 DEF NoneLong
  <2> QED BY <1>3, <2>1, <2>2 DEF PageInv
<1> QED BY <1>1, <1>4, <1>5 DEF Next

\* The first word that a chunk adds to those before it is on the page the chunk is
\* cited with, although an overlap goes first and a tail may be folded in at the
\* end (chunk.py:104-117 and 126-158), unless a sentence is hard-split: "the source
\* document, page, and clause" (README.md:5), for documents of any length.
THEOREM PagesTrue == Spec => []PageOfText
<1>1. ShapeInv /\ OrderInv /\ PageInv => PageOfText
  <2> SUFFICES ASSUME ShapeInv, OrderInv, PageInv, NoneLong PROVE CitedPage
    BY DEF PageOfText, NoneLong
  <2> SUFFICES ASSUME NEW k \in 1 .. Len(chunks), NEW t \in Fresh(k),
                      \A u \in Fresh(k) : ~Precedes(u, t)
               PROVE  chunks[k].page = items[t[1]].page
    BY ShapeFacts DEF CitedPage
  <2> DEFINE text == chunks[k].body
             old == Before(chunks, k)
  <2>1. \A u : u \in Fresh(k) <=> u \in ToSet(text) /\ u \notin old
    BY DEF Fresh, Before
  <2>2. PICK m \in DOMAIN text : /\ text[m] \notin old
                                 /\ \A n \in 1 .. m - 1 : text[n] \in old
                                 /\ chunks[k].page = items[text[m][1]].page
    BY DEF PageInv, Paged, BeginsOn
  <2>3. PICK i \in DOMAIN text : t = text[i]
    BY <2>1 DEF ToSet
  <2>4. text[m] \in Fresh(k)
    BY <2>1, <2>2 DEF ToSet
  <2>5. Ordered(text) /\ DOMAIN text = 1 .. Len(text) /\ Len(text) \in Nat
    BY ChunkShape, LenProperties DEF OrderInv, Reads
  <2> HIDE DEF text, old
  <2>6. ~(m < i)
    BY <2>3, <2>4, <2>5 DEF Ordered
  <2>7. ~(i < m)
    <3> SUFFICES ASSUME i < m PROVE FALSE
      OBVIOUS
    <3>1. i \in 1 .. m - 1
      BY <2>5
    <3> QED BY <2>1, <2>2, <2>3, <3>1
  <2>8. i = m
    BY <2>5, <2>6, <2>7
  <2> QED BY <2>2, <2>3, <2>8
<1> QED BY <1>1, PageInit, PageNext, OrderInit, OrderNext, ShapeInit, ShapeNext, PTL DEF Spec

-----------------------------------------------------------------------------
(* Lines that are not dropped.                                             *)

\* seq has part in it, one place after the other.
Holds(seq, part) ==
  \E o \in Nat : \A j \in 1 .. Len(part) : o + j \in 1 .. Len(seq) /\ seq[o + j] = part[j]

LEMMA ConcatHolds ==
  ASSUME NEW V, NEW s \in Seq(V), NEW t \in Seq(V), NEW part \in Seq(V)
  PROVE  /\ Holds(s, part) => Holds(s \o t, part)
         /\ Holds(t, part) => Holds(s \o t, part)
         /\ Holds(t, t)
<1>1. /\ Len(s) \in Nat /\ Len(t) \in Nat /\ Len(part) \in Nat
      /\ Len(s \o t) = Len(s) + Len(t)
      /\ \A i \in 1 .. Len(s) + Len(t) : (s \o t)[i] = IF i <= Len(s) THEN s[i] ELSE t[i - Len(s)]
  BY LenProperties, ConcatProperties
<1>2. ASSUME Holds(s, part)  PROVE Holds(s \o t, part)
  <2>1. PICK o \in Nat : \A j \in 1 .. Len(part) : o + j \in 1 .. Len(s) /\ s[o + j] = part[j]
    BY <1>2 DEF Holds
  <2>2. \A j \in 1 .. Len(part) : o + j \in 1 .. Len(s) + Len(t) /\ (s \o t)[o + j] = part[j]
    BY <1>1, <2>1
  <2> QED BY <1>1, <2>2 DEF Holds
<1>3. ASSUME Holds(t, part)  PROVE Holds(s \o t, part)
  <2>1. PICK o \in Nat : \A j \in 1 .. Len(part) : o + j \in 1 .. Len(t) /\ t[o + j] = part[j]
    BY <1>3 DEF Holds
  <2>2. ASSUME NEW j \in 1 .. Len(part)
        PROVE  (Len(s) + o) + j \in 1 .. Len(s) + Len(t) /\ (s \o t)[(Len(s) + o) + j] = part[j]
    <3>1. /\ (Len(s) + o) + j \in 1 .. Len(s) + Len(t) /\ ~((Len(s) + o) + j <= Len(s))
          /\ ((Len(s) + o) + j) - Len(s) = o + j
      BY <1>1, <2>1
    <3> QED BY <1>1, <2>1, <3>1
  <2>3. Len(s) + o \in Nat
    BY <1>1
  <2> QED BY <1>1, <2>2, <2>3 DEF Holds
<1>4. Holds(t, t)
  <2>1. \A j \in 1 .. Len(t) : 0 + j \in 1 .. Len(t) /\ t[0 + j] = t[j]
    BY <1>1
  <2> QED BY <2>1 DEF Holds
<1> QED BY <1>2, <1>3, <1>4

\* What is in one of the sequences is in their concatenation.
LEMMA FlattenHolds ==
  ASSUME NEW V, NEW seqs \in Seq(Seq(V)), NEW p \in 1 .. Len(seqs),
         NEW part \in Seq(V), Holds(seqs[p], part)
  PROVE  Holds(FlattenSeq(seqs), part)
<1>1. Len(seqs) \in Nat /\ seqs # <<>> /\ p \in Nat
  BY LenProperties
<1>2. PICK f \in [1 .. Len(seqs) -> Seq(V)] :
        Concatenates(f, seqs, Len(seqs)) /\ FlattenSeq(seqs) = f[Len(seqs)]
  BY <1>1, FlattenConcatenates
<1> DEFINE A == {q \in Nat : q \in p .. Len(seqs) => Holds(f[q], part)}
<1>3. 0 \in A
  OBVIOUS
<1>4. ASSUME NEW q \in Nat, q \in A  PROVE q + 1 \in A
  <2> SUFFICES ASSUME q + 1 \in p .. Len(seqs) PROVE Holds(f[q + 1], part)
    OBVIOUS
  <2>1. q + 1 \in 1 .. Len(seqs) /\ (q + 1) - 1 = q
    BY <1>1
  <2>2. PICK s \in Seq(V) : s = seqs[q + 1]
    BY <2>1, ElementOfSeq
  <2>3. f[q + 1] = IF q + 1 = 1 THEN s ELSE f[q] \o s
    BY <1>2, <2>1, <2>2 DEF Concatenates
  <2>4. CASE q + 1 = p
    <3>1. Holds(s, part)
      BY <2>2, <2>4
    <3>2. CASE q = 0
      BY <2>3, <3>1, <3>2
    <3>3. CASE q # 0
      <4>1. q \in 1 .. Len(seqs)
        BY <2>1, <3>3
      <4>2. PICK r \in Seq(V) : r = f[q]
        BY <4>1
      <4> QED BY <2>1, <2>3, <3>1, <3>3, <4>2, ConcatHolds
    <3> QED BY <3>2, <3>3
  <2>5. CASE q + 1 # p
    <3>1. q \in p .. Len(seqs) /\ q \in 1 .. Len(seqs) /\ q + 1 # 1
      BY <1>1, <2>5
    <3>2. PICK r \in Seq(V) : r = f[q] /\ Holds(r, part)
      BY <1>4, <3>1
    <3> QED BY <2>2, <2>3, <3>1, <3>2, ConcatHolds
  <2> QED BY <2>4, <2>5
<1> HIDE DEF A
<1>5. Nat \subseteq A
  BY <1>3, <1>4, NatInduct
<1>6. Len(seqs) \in A /\ Len(seqs) \in p .. Len(seqs)
  BY <1>1, <1>5
<1> QED BY <1>2, <1>6 DEF A

\* A line that is in no margin is not taken for furniture.
Inner(doc, p) ==
  {i \in DOMAIN LinesOf(doc[p]) :
     /\ ~LinesOf(doc[p])[i].marker
     /\ \A q \in DOMAIN doc : \A j \in DOMAIN LinesOf(doc[q]) :
          LinesOf(doc[q])[j].shape = LinesOf(doc[p])[i].shape =>
            j > MarginLines /\ j <= Len(LinesOf(doc[q])) - MarginLines}

LEMMA InnerKept ==
  ASSUME NEW doc \in Seq(Page), NEW p \in DOMAIN doc, NEW i \in Inner(doc, p)
  PROVE  LinesOf(doc[p])[i].shape \notin DetectBoilerplate(doc)
<1> SUFFICES ASSUME LinesOf(doc[p])[i].shape \in DetectBoilerplate(doc) PROVE FALSE
  OBVIOUS
<1> DEFINE tpl == LinesOf(doc[p])[i].shape
<1>1. tpl \in {t[1] : t \in UNION {Margin(LinesOf(doc[q])) : q \in DOMAIN doc}}
  BY DEF DetectBoilerplate
<1>2. PICK q \in DOMAIN doc : \E t \in Margin(LinesOf(doc[q])) : t[1] = tpl
  BY <1>1
<1>3. PICK j \in DOMAIN LinesOf(doc[q]) :
        /\ j <= MarginLines \/ j > Len(LinesOf(doc[q])) - MarginLines
        /\ LinesOf(doc[q])[j].shape = tpl
  BY <1>2 DEF Margin, Text
<1>4. LinesOf(doc[q]) \in Seq(Line)
  <2>1. PICK page \in Page : page = doc[q]
    BY LenProperties, ElementOfSeq
  <2> QED BY <2>1 DEF Page, LinesOf
<1>5. j \in Nat /\ Len(LinesOf(doc[q])) \in Nat
  BY <1>4, LenProperties
<1>6. j > MarginLines /\ j <= Len(LinesOf(doc[q])) - MarginLines
  BY <1>3 DEF Inner
<1> QED BY <1>3, <1>5, <1>6, ExtractAssumption

\* The items made of the lines of a page are no fewer than its inner lines.
LEMMA LinesBecomeItems ==
  ASSUME NEW doc \in Seq(Page), NEW p \in DOMAIN doc
  PROVE  LET made == LinesToItems(LinesOf(doc[p]), p, DetectBoilerplate(doc)) IN
         /\ Cardinality(Inner(doc, p)) <= Len(made)
         /\ \A k \in 1 .. Len(made) : made[k].page = p /\ made[k].kind # "table"
<1> DEFINE lines == LinesOf(doc[p])
           boilerplate == DetectBoilerplate(doc)
           S == {i \in DOMAIN lines : lines[i].shape \notin boilerplate /\ ~lines[i].marker}
           kept == Kept(lines, boilerplate)
           made == LinesToItems(lines, p, boilerplate)
<1>1. lines \in Seq(Line)
  <2>1. PICK page \in Page : page = doc[p]
    BY LenProperties, ElementOfSeq
  <2> QED BY <2>1 DEF Page, LinesOf
<1>2. kept = At(lines, S)
  BY DEF Kept
<1>3. Inner(doc, p) \in SUBSET S
  BY InnerKept DEF Inner
<1>4. PICK body : body = TwiceMedian(At([i \in DOMAIN kept |-> kept[i].size],
                                        {i \in DOMAIN kept : kept[i].size # 0}))
  OBVIOUS
<1>5. made =
        [i \in DOMAIN kept |->
           [kind |-> IF HeadingLevel(kept[i], body) > 0 THEN "heading" ELSE "sentence",
            page |-> p, size |-> kept[i].tokens, level |-> HeadingLevel(kept[i], body)]]
  BY <1>4 DEF LinesToItems
<1>6. S \in SUBSET (1 .. Len(lines))
  BY <1>1, LenProperties
<1> HIDE DEF lines, boilerplate, S, kept, made
<1>7. /\ IsFiniteSet(S) /\ Cardinality(S) \in Nat
      /\ kept \in Seq(Line) /\ Len(kept) = Cardinality(S)
  BY <1>1, <1>2, <1>6, AtIsSeq
<1>8. DOMAIN kept = 1 .. Cardinality(S)
  BY <1>7, LenProperties
<1>9. Len(made) = Cardinality(S)
  <2>1. DOMAIN made = 1 .. Cardinality(S)
    BY <1>5, <1>8
  <2>2. made \in [1 .. Cardinality(S) -> {made[i] : i \in 1 .. Cardinality(S)}]
    BY <1>5, <1>8
  <2>3. made \in Seq({made[i] : i \in 1 .. Cardinality(S)})
    BY <1>7, <2>2
  <2> QED BY <1>7, <2>1, <2>3, LenProperties
<1>10. Cardinality(Inner(doc, p)) <= Cardinality(S)
  BY <1>3, <1>7, FS_Subset
<1>11. \A k \in 1 .. Cardinality(S) : made[k].page = p /\ made[k].kind # "table"
  BY <1>5, <1>8
<1> QED BY <1>9, <1>10, <1>11 DEF made, lines, boilerplate

\* The lines of a page that are in no margin are among the items of that page.
LEMMA InnerExtracted ==
  ASSUME NEW doc \in Seq(Page), NEW p \in DOMAIN doc
  PROVE  LET blocks == ExtractBlocks(doc) IN
         Cardinality({i \in DOMAIN blocks : blocks[i].page = p /\ blocks[i].kind # "table"})
           >= Cardinality(Inner(doc, p))
<1>1. PICK boilerplate : boilerplate = DetectBoilerplate(doc)
  OBVIOUS
<1> DEFINE tablesOf(q) == TablesToItems(TablesOf(doc[q]), q)
           linesOf(q) == LinesToItems(LinesOf(doc[q]), q, boilerplate)
           seqs == [q \in DOMAIN doc |-> tablesOf(q) \o linesOf(q)]
           made == linesOf(p)
           blocks == ExtractBlocks(doc)
           Own == {i \in DOMAIN blocks : blocks[i].page = p /\ blocks[i].kind # "table"}
<1>2. blocks = FlattenSeq(seqs)
  BY <1>1 DEF ExtractBlocks
<1>3. Len(doc) \in Nat /\ DOMAIN doc = 1 .. Len(doc)
  BY LenProperties
<1>4. ASSUME NEW q \in 1 .. Len(doc)
      PROVE  tablesOf(q) \in Seq(Block) /\ linesOf(q) \in Seq(Block)
  <2>1. PICK page \in Page : page = doc[q]
    BY ElementOfSeq
  <2>2. TablesOf(page) \in Seq(Nat) /\ LinesOf(page) \in Seq(Line)
    BY DEF Page, TablesOf, LinesOf
  <2>3. q \in Nat \ {0}
    BY <1>3
  <2>4. /\ TablesToItems(TablesOf(page), q) \in Seq(Block)
        /\ LinesToItems(LinesOf(page), q, boilerplate) \in Seq(Block)
    BY <2>2, <2>3, TablesAreBlocks, LinesAreBlocks
  <2> QED BY <2>1, <2>4
<1>5. /\ Cardinality(Inner(doc, p)) <= Len(made)
      /\ \A k \in 1 .. Len(made) : made[k].page = p /\ made[k].kind # "table"
  BY <1>1, LinesBecomeItems
<1>6. blocks \in Seq(Block)
  BY BlocksExtracted
<1>7. seqs[p] = tablesOf(p) \o made
  OBVIOUS
<1> HIDE DEF tablesOf, linesOf
<1>8. seqs \in Seq(Seq(Block)) /\ Len(seqs) = Len(doc)
  <2>1. \A q \in 1 .. Len(doc) : tablesOf(q) \o linesOf(q) \in Seq(Block)
    BY <1>4, ConcatProperties
  <2> QED BY <1>3, <2>1
<1>9. made \in Seq(Block) /\ tablesOf(p) \in Seq(Block) /\ p \in 1 .. Len(seqs)
  BY <1>3, <1>4, <1>8
<1> HIDE DEF seqs, made, blocks
<1>10. Holds(seqs[p], made)
  BY <1>7, <1>9, ConcatHolds
<1>11. Holds(blocks, made)
  BY <1>2, <1>8, <1>9, <1>10, FlattenHolds
<1>12. PICK o \in Nat : \A j \in 1 .. Len(made) : o + j \in 1 .. Len(blocks) /\ blocks[o + j] = made[j]
  BY <1>11 DEF Holds
<1>13. /\ Len(made) \in Nat /\ Len(blocks) \in Nat /\ DOMAIN blocks = 1 .. Len(blocks)
  BY <1>6, <1>9, LenProperties
<1>14. (o + 1) .. (o + Len(made)) \subseteq Own
  <2> SUFFICES ASSUME NEW i \in (o + 1) .. (o + Len(made)) PROVE i \in Own
    OBVIOUS
  <2>1. i - o \in 1 .. Len(made) /\ o + (i - o) = i
    BY <1>13
  <2> QED BY <1>5, <1>12, <1>13, <2>1
<1>15. IsFiniteSet(Own)
  <2>1. Own \subseteq 1 .. Len(blocks) /\ IsFiniteSet(1 .. Len(blocks))
    BY <1>13, FS_Interval
  <2> QED BY <2>1, FS_Subset
<1>16. Cardinality((o + 1) .. (o + Len(made))) = Len(made)
  <2>1. o + 1 \in Int /\ o + Len(made) \in Int
    BY <1>13
  <2>2. Cardinality((o + 1) .. (o + Len(made))) =
          IF o + 1 > o + Len(made) THEN 0 ELSE (o + Len(made)) - (o + 1) + 1
    BY <2>1, FS_Interval
  <2> QED BY <1>13, <2>2
<1>17. Cardinality((o + 1) .. (o + Len(made))) <= Cardinality(Own)
  BY <1>14, <1>15, FS_Subset
<1>18. Cardinality(Own) \in Nat /\ Cardinality(Inner(doc, p)) \in Nat
  <2>1. LinesOf(doc[p]) \in Seq(Line)
    <3>1. PICK page \in Page : page = doc[p]
      BY <1>3, ElementOfSeq
    <3> QED BY <3>1 DEF Page, LinesOf
  <2>2. Inner(doc, p) \subseteq 1 .. Len(LinesOf(doc[p])) /\ Len(LinesOf(doc[p])) \in Nat
    BY <2>1, LenProperties DEF Inner
  <2>3. IsFiniteSet(1 .. Len(LinesOf(doc[p])))
    BY <2>2, FS_Interval
  <2>4. IsFiniteSet(Inner(doc, p))
    BY <2>2, <2>3, FS_Subset
  <2> QED BY <1>15, <2>4, FS_CardinalityType
<1> QED BY <1>5, <1>13, <1>16, <1>17, <1>18 DEF blocks

\* Once extracted, the items stay those of the document.
ExtractedInv == ShapeInv /\ (phase # "extract" => items = ExtractBlocks(pages))

LEMMA ExtractedNext == ExtractedInv /\ [Next]_vars => ExtractedInv'
<1> SUFFICES ASSUME ExtractedInv, [Next]_vars PROVE ExtractedInv'
  OBVIOUS
<1>1. ShapeInv /\ ShapeInv'
  BY ShapeNext DEF ExtractedInv
<1>2. CASE Extraction
  BY <1>1, <1>2 DEF ExtractedInv, Extraction
<1>3. ASSUME TakeHeading \/ TakeTable \/ TakeSentence \/ TakeLong \/ SplitLong \/ LastFlush
      PROVE  ExtractedInv'
  <2>1. phase = "chunk" /\ UNCHANGED <<pages, items>>
    BY <1>1, <1>3, ChunkerStep
  <2> QED BY <1>1, <2>1 DEF ExtractedInv
<1>4. CASE EmbedBatch \/ EmbedRaises \/ Embedded
  <2>1. phase = "embed" /\ UNCHANGED <<pages, items>>
    BY <1>4 DEF EmbedBatch, EmbedRaises, Embedded
  <2> QED BY <1>1, <2>1 DEF ExtractedInv
<1>5. CASE UNCHANGED vars
  BY <1>1, <1>5 DEF ExtractedInv, vars
<1> QED BY <1>2, <1>3, <1>4, <1>5 DEF Next

\* A line whose text recurs, but in no page's margin, is not dropped with the
\* running headers: each page has as many headings and sentences as it has such
\* lines (extract.py:225).
THEOREM MidPageLinesKept == Spec => []MidPageKept
<1>1. Init => ExtractedInv
  BY ShapeInit DEF ExtractedInv, Init
<1>2. ExtractedInv => MidPageKept
  <2> SUFFICES ASSUME ExtractedInv, phase # "extract", NEW p \in DOMAIN pages
               PROVE  Cardinality({i \in DOMAIN items : items[i].page = p /\ items[i].kind # "table"})
                        >= Cardinality(Inner(pages, p))
    BY DEF MidPageKept, Inner
  <2>1. pages \in Seq(Page) /\ items = ExtractBlocks(pages)
    BY DEF ExtractedInv, ShapeInv
  <2> QED BY <2>1, InnerExtracted
<1> QED BY <1>1, <1>2, ExtractedNext, PTL DEF Spec

=============================================================================
