------------------------------- MODULE Extract -------------------------------
(***************************************************************************)
(* backend/app/rag/extract.py: the pages of a PDF, as pdfplumber reads     *)
(* them, become one stream of headings, sentences and tables.  A line is   *)
(* taken to hold one sentence; wording is reduced to what the tests of the *)
(* code tell apart.                                                        *)
(***************************************************************************)
EXTENDS Integers, FiniteSets, SequencesExt, Filters

CONSTANTS
  Shapes,       \* what a line can be but for its digits: the text with its digit
                \* runs masked
  Digits,       \* what the digit runs can be
  MarginLines,  \* _MARGIN_LINES: how much of a page is header or footer
  MinPages,     \* _MIN_PAGES_FOR_BOILERPLATE
  NoShape       \* the template of a line that has no other text than digits

ASSUME ExtractAssumption == MarginLines \in Nat \ {0}

Styles == {"plain", "lettered", "caps", "bold"}

\* furniture is a line that is too long, has too many words or matches _NOISE;
\* marker, one that matches _PAGE_MARKER; clause, the depth of its numbering.  A
\* line has text.
Line ==
  [shape : Shapes, digits : Digits, marker : BOOLEAN, furniture : BOOLEAN,
   clause : 0 .. 7, style : Styles, size : Nat, tokens : Nat \ {0}]

\* tables holds the size of each; what is read of a page that cannot be read is
\* not looked at.
Page == [readable : BOOLEAN, tables : Seq(Nat), lines : Seq(Line)]

\* An item is what the chunker sees: level is 0 unless it is a heading.
Item == [kind : {"heading", "sentence", "table"}, page : Nat, size : Nat, level : 0 .. 6]

Least(a, b) == IF a < b THEN a ELSE b
Most(a, b) == IF a > b THEN a ELSE b

-----------------------------------------------------------------------------
(* Running headers and footers.                                            *)

\* extract_blocks goes on with an unreadable page as if it were empty.
LinesOf(page) == IF page.readable THEN page.lines ELSE <<>>
TablesOf(page) == IF page.readable THEN page.tables ELSE <<>>

Text(line) == <<line.shape, line.digits>>

\* The first and the last lines of a page; texts, so a repeated one is one.
\* Mutant: every line of the page.
WholePage(lines) == {Text(lines[i]) : i \in DOMAIN lines}
Margin(lines) ==
  {Text(lines[i]) : i \in {j \in DOMAIN lines :
                             j <= MarginLines \/ j > Len(lines) - MarginLines}}

\* counts[tpl]: texts of one page with the same template are counted apart.
Count(pages, tpl) ==
  Cardinality(UNION {{p} \X {t \in Margin(LinesOf(pages[p])) : t[1] = tpl} : p \in DOMAIN pages})

Threshold(pages) == Most(2, (Len(pages) * 3) \div 10)

DetectBoilerplate(pages) ==
  IF Len(pages) < MinPages THEN {}
  ELSE {tpl \in {t[1] : t \in UNION {Margin(LinesOf(pages[p])) : p \in DOMAIN pages}} :
          tpl # NoShape /\ Count(pages, tpl) >= Threshold(pages)}

-----------------------------------------------------------------------------
(* Headings.                                                               *)

\* The k-th smallest size.
KthSize(sizes, k) ==
  CHOOSE v \in ToSet(sizes) :
    /\ Cardinality({i \in DOMAIN sizes : sizes[i] < v}) < k
    /\ Cardinality({i \in DOMAIN sizes : sizes[i] <= v}) >= k

\* Twice the median, so that it stays an integer; 0 when no size is known.
TwiceMedian(sizes) ==
  LET n == Len(sizes) IN
  IF n = 0 THEN 0
  ELSE KthSize(sizes, (n + 1) \div 2) + KthSize(sizes, (n \div 2) + 1)

\* Numbering deeper than six levels counts as six.
\* Mutant: it does not.
Unlimited(clause) == clause
Depth(clause) == Least(clause, 6)

HeadingLevel(line, twiceBody) ==
  CASE line.furniture -> 0
    [] ~line.furniture /\ line.clause > 0 -> Depth(line.clause)
    [] ~line.furniture /\ line.clause = 0 /\ line.style = "lettered" -> 1
    [] ~line.furniture /\ line.clause = 0 /\ line.style # "lettered" ->
         IF twiceBody > 0 /\ line.size * 200 >= twiceBody * 115 THEN 1
         ELSE IF line.style = "caps" THEN 2
         ELSE IF line.style = "bold" THEN 3 ELSE 0

-----------------------------------------------------------------------------
Kept(lines, boilerplate) ==
  At(lines, {i \in DOMAIN lines : lines[i].shape \notin boilerplate /\ ~lines[i].marker})

LinesToItems(lines, page, boilerplate) ==
  LET kept == Kept(lines, boilerplate)
      known == {i \in DOMAIN kept : kept[i].size # 0}
      body == TwiceMedian(At([i \in DOMAIN kept |-> kept[i].size], known))
  IN  [i \in DOMAIN kept |->
         LET level == HeadingLevel(kept[i], body) IN
         [kind |-> IF level > 0 THEN "heading" ELSE "sentence",
          page |-> page, size |-> kept[i].tokens, level |-> level]]

\* A table without text renders as nothing.
TablesToItems(tables, page) ==
  LET full == At(tables, {i \in DOMAIN tables : tables[i] > 0}) IN
  [i \in DOMAIN full |->
     [kind |-> "table", page |-> page, size |-> full[i], level |-> 0]]

\* The tables of a page come before its text.
ExtractBlocks(pages) ==
  LET boilerplate == DetectBoilerplate(pages) IN
  FlattenSeq([p \in DOMAIN pages |->
    TablesToItems(TablesOf(pages[p]), p)
      \o LinesToItems(LinesOf(pages[p]), p, boilerplate)])
=============================================================================
