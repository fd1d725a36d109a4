----------------------------- MODULE MCIngestion -----------------------------
(* Documents of up to Brief elements of every kind, up to Middle of headings, texts and tables, and *)
(* up to Long of headings and short texts, on one or two pages, in one column or two.             *)
EXTENDS Ingestion

CONSTANTS Brief, Middle, Long

OneWord(size, end) == [at |-> Nowhere, size |-> size, end |-> end, piece |-> 0, kind |-> "word"]
TableLine(chars, kind) ==
  [at |-> Nowhere, size |-> chars * (IF kind = "dense" THEN DenseCharParts ELSE CharParts),
   end |-> Line, piece |-> 0, kind |-> kind]

\* A sentence of n words of this size.
Said(n, size) == [i \in 1..n |-> OneWord(size, IF i = n THEN Stop ELSE Space)]

\* Sentences, the last of which is too long to be put behind the overlap and stay within the cap.
LongText == Said(5, 4) \o Said(1, 4) \o Said(5, 2) \o <<OneWord(4, Space)>> \o Said(9, 3)
\* Two paragraphs, one with clauses, and a word of no delimiter that is too long for a chunk.
Mixed == <<OneWord(4, Space), OneWord(9, Clause), OneWord(9, Clause), OneWord(8, Paragraph), OneWord(70, Space), OneWord(2, Stop)>>
Remark == Said(3, 2)

\* Rows of several lengths, one of which is too long for a chunk.
LongTable == <<TableLine(19, "header"), TableLine(11, "rule"), TableLine(46, "row"), TableLine(34, "row"),
               TableLine(53, "row"), TableLine(228, "row"), TableLine(15, "row")>>
\* Short rows of numbers, each of which is more than it is counted, and a long one.
Figures == <<TableLine(10, "dense"), TableLine(10, "rule")>> \o [i \in 1..6 |-> TableLine(10, "dense")]
           \o <<TableLine(110, "dense")>>
SmallTable == <<TableLine(19, "header"), TableLine(15, "row")>>
\* Heads that fill a chunk, of long words and of short.
WideTable == <<TableLine(170, "header"), TableLine(11, "rule"), TableLine(23, "row")>>
WideFigures == <<TableLine(60, "dense"), TableLine(20, "rule"), TableLine(30, "row"), TableLine(30, "row")>>

Plain == [label |-> "text", paper |-> "text", look |-> "plain", level |-> 0,
          text |-> <<>>, lines |-> <<>>, caption |-> <<>>]

TableOf(lines) ==
  [Plain EXCEPT !.label = "table", !.paper = "table", !.lines = lines, !.text = Said(5, 4)]

Headline(label, look, level) ==
  [Plain EXCEPT !.label = label, !.look = look, !.level = level, !.text = Said(1, 3)]

Outline == {
  Headline("title", "large", 1), Headline("section_header", "large", 2),
  Headline("section_header", "large", 3), [Plain EXCEPT !.text = Remark]}

Body == Outline \cup {
  [Plain EXCEPT !.text = LongText],
  TableOf(LongTable)}

Elements == Body \cup {
  Headline("text", "caps", 0), Headline("text", "hash", 1),
  Headline("picture", "large", 1), Headline("page_header", "plain", 0),
  [Plain EXCEPT !.text = Mixed],
  [TableOf(LongTable) EXCEPT !.caption = <<TableLine(15, "caption")>>],
  TableOf(Figures), TableOf(SmallTable), TableOf(WideTable), TableOf(WideFigures),
  [Plain EXCEPT !.label = "picture", !.paper = "image"]}

\* Where the elements stand: one column, two columns read one after the other, and over two pages.
Places == {<<<<1, 1>>, <<1, 2>>, <<1, 3>>, <<1, 4>>>>,
           <<<<1, 1>>, <<1, 3>>, <<1, 2>>, <<1, 4>>>>,
           <<<<1, 1>>, <<1, 2>>, <<2, 1>>, <<2, 2>>>>}

\* The i-th element of a document, at its place, with its words told apart.
Placed(e, i, place) ==
  LET numbered(s, from) == [k \in DOMAIN s |-> [s[k] EXCEPT !.at = <<i, from + k>>]]
  IN [label |-> e.label, paper |-> e.paper, look |-> e.look, level |-> e.level,
      id |-> i, page |-> place[1], y |-> place[2],
      text |-> numbered(e.text, 0), lines |-> numbered(e.lines, 50), caption |-> numbered(e.caption, 90)]

DocumentsOf(kinds, n) ==
  {[i \in 1..n |-> Placed(es[i], i, place[i])] : es \in [1..n -> kinds], place \in Places}

MCDocuments ==
  UNION ({DocumentsOf(Elements, n) : n \in 0..Brief} \cup {DocumentsOf(Body, n) : n \in 0..Middle}
         \cup {DocumentsOf(Outline, n) : n \in 0..Long})
=============================================================================
