------------------------------ MODULE Indexing ------------------------------
(***************************************************************************)
(* What an ingestion does between its two transactions: extract_blocks     *)
(* (module Extract), chunk_blocks of backend/app/rag/chunk.py and          *)
(* OpenAIEmbeddings.embed of rag/embed.py, in the order ingest_document    *)
(* calls them.                                                             *)
(*                                                                         *)
(* A token is the item it comes from and its place in it, so a body says   *)
(* exactly which text it holds; a heading adds one token to a breadcrumb,  *)
(* and the tokens of joined texts add up.                                  *)
(***************************************************************************)
EXTENDS Extract

CONSTANTS
  Inputs,         \* the documents
  TargetTokens, MaxTokens, MinTokens, OverlapTokens,  \* chunk.py
  BatchSize       \* settings.EMBEDDING_BATCH_SIZE

ASSUME IndexingAssumption ==
  /\ {TargetTokens, MaxTokens, MinTokens, OverlapTokens, BatchSize} \subseteq Nat \ {0}
  /\ MinTokens <= OverlapTokens /\ MinTokens <= TargetTokens
  /\ TargetTokens + OverlapTokens <= MaxTokens

ASSUME InputsAssumption == Inputs \subseteq Seq(Page)

VARIABLES
  pages,    \* the document
  phase,    \* how far the ingestion got
  items,    \* the blocks extracted, a text block as its sentences
  next,     \* the first item the chunker has yet to take
  rest,     \* what is left of a sentence that is being hard-split
  stack,    \* _HeadingStack, as the items of the headings
  acc,      \* _Accumulator: its text, and the page of the first sentence added
  chunks,   \* the chunks so far
  sent,     \* how many of them were sent to be embedded
  vectors   \* the vectors that came back, as the chunks they were made of

vars == <<pages, phase, items, next, rest, stack, acc, chunks, sent, vectors>>

-----------------------------------------------------------------------------
Token == Nat \X Nat

Chunk == [body : Seq(Token), section : Seq(Nat), page : Nat]

\* Page 0 is None.
Acc == [text : Seq(Token), page : Nat]

EmptyAcc == [text |-> <<>>, page |-> 0]

TokensOf(i) == [n \in 1 .. items[i].size |-> <<i, n>>]

Truncate(text, limit) == SubSeq(text, 1, Least(limit, Len(text)))

Tail_(text, limit) == SubSeq(text, Most(1, Len(text) - limit + 1), Len(text))

\* What is left of the stack when the headings that are not above a level are
\* popped from its end.
Popped(st, level) ==
  LET n == CHOOSE n \in 0 .. Len(st) :
             /\ n > 0 => items[st[n]].level < level
             /\ \A m \in (n + 1) .. Len(st) : items[st[m]].level >= level
  IN  SubSeq(st, 1, n)

\* Mutant: a heading of the same level stays.
PushKeeping(st, i) == Append(Popped(st, items[i].level + 1), i)
Push(st, i) == Append(Popped(st, items[i].level), i)

\* Mutant: the last page wins.
AddLast(a, text, page) == [text |-> a.text \o text, page |-> page]
Add(a, text, page) ==
  [text |-> a.text \o text, page |-> IF a.page = 0 THEN page ELSE a.page]

Size(c) == Len(c.section) + Len(c.body)

\* Text too small to stand alone, and room for it in the previous chunk.
\* Mutant: the room is not looked at.
FoldsAnyway(text) == chunks # <<>> /\ Len(text) < MinTokens
Folds(text) ==
  /\ chunks # <<>>
  /\ Len(text) < MinTokens
  /\ Size(Last(chunks)) + Len(text) <= MaxTokens

\* What flush leaves in chunks and in the accumulator when that holds a.
\* Mutant: an accumulator closed by a small text is dropped.
DropSmall(a) ==
  IF Len(a.text) < MinTokens THEN chunks
  ELSE Append(chunks, [body |-> a.text, section |-> stack, page |-> Most(1, a.page)])
Flushed(a) ==
  IF a.text = <<>> THEN chunks
  ELSE IF Folds(a.text)
  THEN [chunks EXCEPT ![Len(chunks)].body = @ \o a.text]
  ELSE Append(chunks, [body |-> a.text, section |-> stack, page |-> Most(1, a.page)])

Remaining(a) ==
  IF a.text = <<>> \/ Folds(a.text) THEN EmptyAcc
  ELSE [text |-> Tail_(a.text, OverlapTokens), page |-> 0]

-----------------------------------------------------------------------------
Init ==
  /\ pages \in Inputs
  /\ phase = "extract"
  /\ items = <<>> /\ next = 1 /\ rest = <<>> /\ stack = <<>>
  /\ acc = EmptyAcc /\ chunks = <<>> /\ sent = 0 /\ vectors = <<>>

\* No blocks: the ingestion fails.
Extraction ==
  /\ phase = "extract"
  /\ items' = ExtractBlocks(pages)
  /\ phase' = IF items' = <<>> THEN "failed" ELSE "chunk"
  /\ UNCHANGED <<pages, next, rest, stack, acc, chunks, sent, vectors>>

Taking(kind) ==
  phase = "chunk" /\ rest = <<>> /\ next <= Len(items) /\ items[next].kind = kind

\* A heading closes the chunk of its predecessor, without overlap.
TakeHeading ==
  /\ Taking("heading")
  /\ chunks' = Flushed(acc)
  /\ acc' = EmptyAcc
  /\ stack' = Push(stack, next)
  /\ next' = next + 1
  /\ UNCHANGED <<pages, phase, items, rest, sent, vectors>>

TakeTable ==
  /\ Taking("table")
  /\ chunks' = Append(Flushed(acc), [body |-> Truncate(TokensOf(next), MaxTokens),
                                     section |-> stack, page |-> items[next].page])
  /\ acc' = EmptyAcc
  /\ next' = next + 1
  /\ UNCHANGED <<pages, phase, items, rest, stack, sent, vectors>>

Full(size) == Len(acc.text) + size > TargetTokens /\ Len(acc.text) >= MinTokens

TakeSentence ==
  LET s == items[next] IN
  /\ Taking("sentence")
  /\ s.size <= MaxTokens
  /\ IF Full(s.size)
     THEN /\ chunks' = Flushed(acc)
          /\ acc' = Add(Remaining(acc), TokensOf(next), s.page)
     ELSE /\ acc' = Add(acc, TokensOf(next), s.page)
          /\ UNCHANGED chunks
  /\ next' = next + 1
  /\ UNCHANGED <<pages, phase, items, rest, stack, sent, vectors>>

\* A sentence above the cap is cut into pieces, a chunk each.
TakeLong ==
  /\ Taking("sentence")
  /\ items[next].size > MaxTokens
  /\ chunks' = Flushed(acc)
  /\ acc' = EmptyAcc
  /\ rest' = TokensOf(next)
  /\ next' = next + 1
  /\ UNCHANGED <<pages, phase, items, stack, sent, vectors>>

\* Flushing a piece leaves its tail in the accumulator, for whatever is next.
SplitLong ==
  LET piece == Truncate(rest, TargetTokens)
      a == Add(acc, piece, items[next - 1].page)
  IN  /\ rest # <<>>
      /\ chunks' = Flushed(a)
      /\ acc' = Remaining(a)
      /\ rest' = SubSeq(rest, Len(piece) + 1, Len(rest))
      /\ UNCHANGED <<pages, phase, items, next, stack, sent, vectors>>

\* No chunks: the ingestion fails.
LastFlush ==
  /\ phase = "chunk" /\ rest = <<>> /\ next > Len(items)
  /\ chunks' = Flushed(acc)
  /\ acc' = Remaining(acc)
  /\ phase' = IF chunks' = <<>> THEN "failed" ELSE "embed"
  /\ UNCHANGED <<pages, items, next, rest, stack, sent, vectors>>

-----------------------------------------------------------------------------
(* The embeddings API answers a batch in any order, each vector with its   *)
(* index in the batch, and may answer short; one short answer is enough.   *)
Batch == (sent + 1) .. Least(sent + BatchSize, Len(chunks))

Responses ==
  SetToSeqs(Batch)
    \cup IF Len(vectors) < sent THEN {}
         ELSE UNION {SetToSeqs(Batch \ {i}) : i \in Batch}

\* The answers of a batch have different indices.
\* Mutant: they are taken as they come.
AsAnswered(response) == response
ByIndex(response) == InOrder(ToSet(response))

EmbedBatch ==
  /\ phase = "embed" /\ sent < Len(chunks)
  /\ \E response \in Responses : vectors' = vectors \o ByIndex(response)
  /\ sent' = Least(sent + BatchSize, Len(chunks))
  /\ UNCHANGED <<pages, phase, items, next, rest, stack, acc, chunks>>

EmbedRaises ==
  /\ phase = "embed" /\ sent < Len(chunks)
  /\ phase' = "failed"
  /\ UNCHANGED <<pages, items, next, rest, stack, acc, chunks, sent, vectors>>

\* A count that does not match raises.
CountMatches == Len(vectors) = Len(chunks)

Embedded ==
  /\ phase = "embed" /\ sent = Len(chunks)
  /\ phase' = IF CountMatches THEN "stored" ELSE "failed"
  /\ UNCHANGED <<pages, items, next, rest, stack, acc, chunks, sent, vectors>>

Next ==
  \/ Extraction
  \/ TakeHeading \/ TakeTable \/ TakeSentence \/ TakeLong \/ SplitLong \/ LastFlush
  \/ EmbedBatch \/ EmbedRaises \/ Embedded

Spec == Init /\ [][Next]_vars

-----------------------------------------------------------------------------
TypeOK ==
  /\ phase \in {"extract", "chunk", "embed", "stored", "failed"}
  /\ items \in Seq(Item)
  /\ next \in Nat \ {0}
  /\ rest \in Seq(Token)
  /\ stack \in Seq(Nat)
  /\ acc \in Acc
  /\ chunks \in Seq(Chunk)
  /\ sent \in Nat
  /\ vectors \in Seq(Nat)

Precedes(t, u) == t[1] < u[1] \/ (t[1] = u[1] /\ t[2] < u[2])

Indexed == UNION {ToSet(chunks[k].body) : k \in DOMAIN chunks}

Fresh(k) ==
  {t \in ToSet(chunks[k].body) : \A j \in 1 .. (k - 1) : t \notin ToSet(chunks[j].body)}

\* Every word of the sentences taken so far is in a chunk or about to be: a
\* section that ends, a tail that is folded and a sentence cut to pieces lose
\* nothing.  And a body reads in document order and repeats nothing, although it
\* may begin with an overlap and end with a tail folded into it.
NothingLost ==
  /\ \A i \in 1 .. (next - 1) :
       items[i].kind = "sentence" =>
         ToSet(TokensOf(i)) \subseteq Indexed \cup ToSet(acc.text) \cup ToSet(rest)
  /\ \A k \in DOMAIN chunks : \A m, n \in DOMAIN chunks[k].body :
       m < n => Precedes(chunks[k].body[m], chunks[k].body[n])

\* The headings above item i, by definition: those no later heading closes.
PathAt(i) ==
  InOrder({j \in 1 .. (i - 1) :
             /\ items[j].kind = "heading"
             /\ \A h \in (j + 1) .. (i - 1) :
                  items[h].kind = "heading" => items[h].level > items[j].level})

\* The breadcrumb of a chunk is the section its text begins in.
BreadcrumbOfText ==
  \A k \in DOMAIN chunks : chunks[k].section = PathAt(chunks[k].body[1][1])

\* "the source document, page, and clause" (README.md:5): a chunk that adds text
\* is cited with the page where that text begins.
CitedPage ==
  \A k \in DOMAIN chunks : \A t \in Fresh(k) :
    (\A u \in Fresh(k) : ~Precedes(u, t)) => chunks[k].page = items[t[1]].page

\* It is, as long as no sentence has to be hard-split: the tail of the last piece
\* can become a chunk of its own, without a page, that later text is folded into.
PageOfText ==
  (\A i \in DOMAIN items : items[i].kind = "sentence" => items[i].size <= MaxTokens)
    => CitedPage

\* How far above MAX_TOKENS a body can get: a sentence of the maximal length
\* is added to an overlap.
BodyBounded == \A k \in DOMAIN chunks : Len(chunks[k].body) <= MaxTokens + OverlapTokens

\* What is stored pairs each chunk with the vector made of it.
VectorsMatch == phase = "stored" => vectors = [k \in DOMAIN chunks |-> k]

\* "Only the top and bottom few lines of each page are considered, so a genuine
\* heading that happens to recur mid-page is not discarded" (extract.py:225).
MidPageKept ==
  phase # "extract" =>
    \A p \in DOMAIN pages :
      LET lines == LinesOf(pages[p])
          inner == {i \in DOMAIN lines :
                      /\ ~lines[i].marker
                      /\ \A q \in DOMAIN pages : \A j \in DOMAIN LinesOf(pages[q]) :
                           LinesOf(pages[q])[j].shape = lines[i].shape =>
                             j > MarginLines /\ j <= Len(LinesOf(pages[q])) - MarginLines}
      IN  Cardinality({i \in DOMAIN items : items[i].page = p /\ items[i].kind # "table"})
            >= Cardinality(inner)
=============================================================================
