----------------------------- MODULE MCIndexing -----------------------------
(* Documents of up to four pages for TLC, with the limits of chunk.py      *)
(* scaled down in the same order: MIN <= OVERLAP < TARGET < MAX.           *)
EXTENDS Indexing

Sentence(shape, tokens) ==
  [shape |-> shape, digits |-> 0, marker |-> FALSE, furniture |-> FALSE,
   clause |-> 0, style |-> "plain", size |-> 10, tokens |-> tokens]

Heading(shape, clause, style, size) ==
  [Sentence(shape, 1) EXCEPT !.clause = clause, !.style = style, !.size = size]

Header == [Sentence("insurer", 2) EXCEPT !.furniture = TRUE, !.style = "bold"]
Footer(n) == [Sentence("page", 1) EXCEPT !.digits = n, !.marker = n = 1]

Plain(tables, lines) == [readable |-> TRUE, tables |-> tables, lines |-> lines]

Pages == {
  [readable |-> FALSE, tables |-> <<2>>, lines |-> <<Sentence("lost", 2)>>],
  Plain(<<>>, <<Header, Sentence("a", 3), Footer(1)>>),
  Plain(<<>>, <<Heading("cover", 1, "plain", 10), Sentence("b", 1)>>),
  Plain(<<>>, <<Sentence("c", 2), Heading("limits", 0, "caps", 10), Sentence("d", 3),
                Sentence("e", 6), Footer(2)>>),
  Plain(<<>>, <<Heading("claims", 0, "bold", 10), Sentence("f", 9)>>),
  Plain(<<8>>, <<Sentence("g", 1)>>),
  Plain(<<2, 0>>, <<Heading("section", 0, "lettered", 12), Heading("terms", 7, "plain", 10),
                    Sentence("h", 2), Sentence("i", 2), Sentence("j", 1)>>)}

PageShapes == {l.shape : l \in UNION {{p.lines[i] : i \in DOMAIN p.lines} : p \in Pages}}

Documents == UNION {[1 .. n -> Pages] : n \in 1 .. 4}

=============================================================================
