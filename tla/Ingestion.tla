------------------------------ MODULE Ingestion ------------------------------
(***************************************************************************)
(* A document on its way to the index: IngestionService.parse probes it,   *)
(* picks a parser and reads it into blocks, and chunk_blocks walks the     *)
(* blocks once, keeping the headings it is under and the text it has not   *)
(* put out yet.                                                            *)
(***************************************************************************)
EXTENDS Chunking, Parsing

CONSTANTS
  Documents,      \* the documents: sequences of elements
  Overrides,      \* the routes a request may force
  DoclingDefault  \* ingestion.docling_default

\* An element that is to be a heading has a level; of a word, at names its element.
Element == [label : STRING, paper : STRING, look : STRING, level : Nat, id : Nat \ {0}, page : Nat, y : Nat,
            text : Seq(Word), lines : Seq(Word), caption : Seq(Word)]
InElement(e) == ToSet(e.text) \cup ToSet(e.lines) \cup ToSet(e.caption)

ASSUME IngestionAssumption ==
  \A d \in Documents :
    /\ d \in Seq(Element)
    /\ \A i \in DOMAIN d :
         /\ d[i].id = i /\ \A w \in InElement(d[i]) : w.at[1] = i
         /\ d[i].label = "section_header" \/ d[i].look \in {"hash", "large"} => d[i].level >= 1

VARIABLES
  phase,   \* "probe", "parse", "chunk", "done", or "failed"
  doc,
  pdf,     \* it was uploaded as a PDF
  route,
  blocks,
  next,    \* the block to be read next
  stack,   \* heading_stack
  accum,   \* the words of accum_blocks
  page,    \* accum_page
  chunks

ingestVars == <<phase, doc, pdf, route, blocks, next, stack, accum, page, chunks>>

IngestInit ==
  /\ phase = "probe"
  /\ doc \in Documents /\ pdf \in BOOLEAN
  /\ route = Unset /\ blocks = <<>> /\ next = 1
  /\ stack = <<>> /\ accum = <<>> /\ page = 0 /\ chunks = <<>>

-----------------------------------------------------------------------------
(* IngestionService.parse                                                    *)

\* The probe measures the print and takes one of three routes.
Probe ==
  /\ phase = "probe"
  /\ \E override \in Overrides \cup {Unset}, probed \in {"fast_text", "layout", "ocr"} :
       route' = Route(override, probed, DoclingDefault)
  /\ phase' = "parse"
  /\ UNCHANGED <<doc, pdf, blocks, next, stack, accum, page, chunks>>

\* A file that is not a PDF and gives no block is an error; an empty PDF goes on.
ParseDocument ==
  /\ phase = "parse"
  /\ \E docling \in BOOLEAN, found \in Findings(doc) : blocks' = Parse(route, doc, docling, found)
  /\ phase' = IF blocks' = <<>> /\ ~pdf THEN "failed" ELSE "chunk"
  /\ UNCHANGED <<doc, pdf, route, next, stack, accum, page, chunks>>

-----------------------------------------------------------------------------
(* chunk_blocks                                                              *)

Cited(kind, p, text, prefix) ==
  [kind |-> kind, page |-> p, text |-> text, headings |-> stack,
   size |-> prefix + IF kind = "table" THEN TokensOf(Size(text)) ELSE Size(text)]

ChunksOf(kind, p, texts, prefix) == [i \in DOMAIN texts |-> Cited(kind, p, texts[i], prefix)]

\* flush_accumulated_text: what has been gathered is split and put out under the headings of now.
Flushed ==
  chunks \o ChunksOf("text", page, Splits(accum, BudgetUnder(stack, TextCrumb)),
                     PrefixTokens(stack, TextCrumb))

Reading(type) == phase = "chunk" /\ next \in DOMAIN blocks /\ blocks[next].type = type

\* Mutation of ReadHeading: the headings change before the text under the old ones is out.
ReadHeadingFirst ==
  /\ Reading("heading")
  /\ stack' = Append(SubSeq(stack, 1, Least(blocks[next].level - 1, Len(stack))),
                     [at |-> next, size |-> Size(blocks[next].text)])
  /\ next' = next + 1
  /\ UNCHANGED <<phase, doc, pdf, route, blocks, accum, page, chunks>>

\* A heading keeps as many of the headings before it as are above its level.
ReadHeading ==
  /\ Reading("heading")
  /\ chunks' = Flushed /\ accum' = <<>> /\ page' = 0
  /\ stack' = Append(SubSeq(stack, 1, Least(blocks[next].level - 1, Len(stack))),
                     [at |-> next, size |-> Size(blocks[next].text)])
  /\ next' = next + 1
  /\ UNCHANGED <<phase, doc, pdf, route, blocks>>

\* A table, or a figure, is put out by itself after the text before it.
ReadTable ==
  /\ Reading("table")
  /\ chunks' = Flushed \o ChunksOf("table", blocks[next].page,
                                   TableParts(blocks[next].text, BudgetUnder(stack, BlockCrumb)),
                                   PrefixTokens(stack, BlockCrumb))
  /\ accum' = <<>> /\ page' = 0
  /\ next' = next + 1
  /\ UNCHANGED <<phase, doc, pdf, route, blocks, stack>>

ReadFigure ==
  /\ Reading("image")
  /\ chunks' = Flushed \o ChunksOf("figure", blocks[next].page,
                                   Splits(blocks[next].text, BudgetUnder(stack, BlockCrumb)),
                                   PrefixTokens(stack, BlockCrumb))
  /\ accum' = <<>> /\ page' = 0
  /\ next' = next + 1
  /\ UNCHANGED <<phase, doc, pdf, route, blocks, stack>>

\* Blocks are joined by an empty line.
Gathered(text) ==
  (IF accum = <<>> THEN <<>> ELSE [accum EXCEPT ![Len(accum)].end = Paragraph]) \o text

\* Mutation of ReadText: text is gathered across pages.
ReadTextAcrossPages ==
  /\ Reading("text")
  /\ accum' = Gathered(blocks[next].text)
  /\ page' = blocks[next].page
  /\ next' = next + 1
  /\ UNCHANGED <<phase, doc, pdf, route, blocks, stack, chunks>>

\* Text is gathered as long as it stays on one page.
ReadText ==
  /\ Reading("text")
  /\ IF accum # <<>> /\ page # blocks[next].page
     THEN chunks' = Flushed /\ accum' = blocks[next].text
     ELSE accum' = Gathered(blocks[next].text) /\ UNCHANGED chunks
  /\ page' = blocks[next].page
  /\ next' = next + 1
  /\ UNCHANGED <<phase, doc, pdf, route, blocks, stack>>

\* A document of headings alone is one chunk of them.
Titles == <<[kind |-> "text", page |-> 1, text |-> <<>>, headings |-> stack, size |-> Size(stack)]>>

Finish ==
  /\ phase = "chunk" /\ next = Len(blocks) + 1
  /\ chunks' = IF Flushed = <<>> /\ stack # <<>> THEN Titles ELSE Flushed
  /\ accum' = <<>> /\ page' = 0
  /\ phase' = "done"
  /\ UNCHANGED <<doc, pdf, route, blocks, next, stack>>

IngestNext == Probe \/ ParseDocument \/ ReadHeading \/ ReadTable \/ ReadFigure \/ ReadText \/ Finish

IngestSpec == IngestInit /\ [][IngestNext]_ingestVars

-----------------------------------------------------------------------------
(* What comes of it                                                          *)

\* The blocks read so far that hold text.
Read == Among(blocks, {i \in 1..(next - 1) : blocks[i].type # "heading"})

Texts(s) == [i \in DOMAIN s |-> s[i].text]

PlacesOf(texts) == {w.at : w \in UNION {ToSet(t) : t \in ToSet(texts)}}

\* A table whose head takes half a chunk may be cut off, inside its head or after it.
HeadTokens(b) == TokensOf(Size(TableHead(b.text)))
Wide(b) == b.type = "table" /\ Len(b.text) > 2 /\ HeadTokens(b) >= MaxTokens \div 2
WideLines == {w.at : w \in UNION {ToSet(b.text) : b \in {c \in ToSet(blocks) : Wide(c)}}}

\* A row that passes what the longest breadcrumb and its head leave of a chunk may be cut.
LeastBudget == MaxTokens - Label - BlockCrumb - Slack
MayBeCut(b, w) == Len(b.text) > 2 /\ HeadTokens(b) + TokensOf(w.size) > LeastBudget

\* Which words and lines of the document these texts hold, in the order of their first appearance.
FirstSeen(texts) ==
  LET see(seen, w) == IF w.at \in {Nowhere} \cup WideLines \/ Contains(seen, w.at) THEN seen
                      ELSE Append(seen, w.at)
  IN FoldLeft(see, <<>>, FlattenSeq(texts))

\* The pieces of a word in the chunks and in the text still gathered.
PiecesOf(w) ==
  {[piece |-> v.piece, size |-> v.size] :
     v \in {u \in UNION {ToSet(t) : t \in ToSet(Append(Texts(chunks), accum))} : u.at = w.at}}
Whole(w) == MapThenSumSet(LAMBDA p : p.size, PiecesOf(w)) = w.size

\* A document with anything to read, if only headings, is never indexed as nothing.
SomethingIsIndexed == phase = "done" /\ chunks = <<>> => blocks = <<>>

\* Of every word and every row read something is in a chunk, or gathered for the next.
WordsAreKept == PlacesOf(Texts(Read)) \subseteq PlacesOf(Append(Texts(chunks), accum)) \cup WideLines

WordsAreInOrder == FirstSeen(Append(Texts(chunks), accum)) = FirstSeen(Texts(Read))

WordsAreWhole == \A b \in ToSet(Read) : \A w \in ToSet(b.text) : w.kind = "word" => Whole(w)

\* A line of a table that is not cut is in a chunk as it was read.
LinesOf(cs) == UNION {ToSet(c.text) : c \in ToSet(cs)}
RowsAreWhole ==
  \A b \in ToSet(Read) : b.type = "table" /\ ~Wide(b) =>
    \A w \in ToSet(b.text) : MayBeCut(b, w) \/ w \in LinesOf(chunks)

\* What is read of a document reaches the chunks, whatever the splits, overlaps and pages in
\* between: every word, in the order of the blocks and, if it was cut, in all its pieces; and every
\* row, whole when it and its head fit a chunk.  Of a longer row only the beginning is kept, and of
\* a table whose head fills a chunk only its first characters (chunk_blocks, split_text_recursive,
\* split_large_table).
TextIsKept == SomethingIsIndexed /\ WordsAreKept /\ WordsAreInOrder /\ WordsAreWhole /\ RowsAreWhole

\* The page a chunk is cited with is the page of every word and row in it (chunk_blocks flushes
\* at a page boundary, and around tables and figures).
OnePage ==
  \A c \in ToSet(chunks) : \A w \in ToSet(c.text) : w.at # Nowhere =>
    \E b \in ToSet(blocks) : b.page = c.page /\ \E v \in ToSet(b.text) : v.at = w.at

\* The block the end of a chunk is from, and the headings in force there.
BlockOf(c) == CHOOSE i \in DOMAIN blocks : \E w \in ToSet(blocks[i].text) : w.at = Last(c.text).at
IsHeading(i) == blocks[i].type = "heading"
InForce(i) ==
  {j \in 1..(i - 1) : IsHeading(j) /\ \A k \in (j + 1)..(i - 1) : IsHeading(k) => blocks[k].level > blocks[j].level}
Above(i) == InOrder(InForce(i))
NoLevelSkipped == \A i \in DOMAIN blocks : IsHeading(i) => blocks[i].level <= Len(Above(i)) + 1

\* In a document that skips no level of headings, a chunk is filed under exactly the headings its
\* text stands under: none of a section that has ended, none missing (heading_stack).
HeadingsAreCurrent ==
  NoLevelSkipped =>
    \A c \in ToSet(chunks) : c.text # <<>> =>
      [i \in DOMAIN c.headings |-> c.headings[i].at] = Above(BlockOf(c))

\* How far the text of a chunk may pass its budget: the overlap is not counted when a unit is put
\* behind it, and whole sentences, or the last word, may take it past what was asked.
Excess(c) == Most((3 * Overlap) \div 10, Max({0} \cup {w.size - 1 : w \in ToSet(c.text)}))

PartFits(c) ==
  \/ Len(c.text) <= 2
  \/ c.size <= MaxTokens - Slack + Len(c.text) - 2
  \/ Len(c.text) = 3 /\ CutRow(c.text[3])
  \/ Last(c.text).at \in WideLines /\ c.size <= 2 * MaxTokens

\* A chunk of text passes the cap by no more than that.  The part of a table passes it by less than
\* a token for each of its rows, which are counted rounded down, unless it is one row that was cut
\* and its head; a table that is cut off has three characters a token; and a table of one or two
\* lines is taken as it is (the 512-token cap of chunk_blocks, and what its token_count hides).
ChunksFit ==
  \A c \in ToSet(chunks) :
    CASE c.kind = "table" -> PartFits(c)
      [] c.kind # "table" /\ c.text = <<>> -> c.size = Size(stack)
      [] OTHER -> c.size <= MaxTokens - Slack + Excess(c)
=============================================================================
