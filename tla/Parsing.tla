------------------------------- MODULE Parsing -------------------------------
(***************************************************************************)
(* What the parsers of services/ingestion make of a document.  A document  *)
(* is what is on its paper, in reading order: elements of text, tables and *)
(* images, each on a page and at a height (y), with the look of its type   *)
(* (plain, a line of capitals, large print, or a line that begins with     *)
(* "#") and the label Docling gives it.  A table has its lines and, for a  *)
(* parser that finds no table there, its words.  A parser turns it into    *)
(* blocks: a type, a page, the level of a heading, and the words or lines. *)
(***************************************************************************)
EXTENDS Arranging

Block(type, e, text, level) == [type |-> type, page |-> e.page, y |-> e.y, text |-> text, level |-> level]
Text(e) == Block("text", e, e.text, 0)
Heading(e, level) == Block("heading", e, e.text, level)

\* The words "Figure on page n", or the caption and the link of a rendered crop.
Placeholder(e) == <<[at |-> <<e.id, 0>>, size |-> 5, end |-> 2, piece |-> 0, kind |-> "word"]>>

-----------------------------------------------------------------------------
(* Docling                                                                   *)

\* A picture that holds text of the page is that text, and a heading when it is one short line.
DoclingPicture(e) ==
  CASE e.text = <<>> -> Block("image", e, Placeholder(e), 0)
    [] e.text # <<>> /\ e.look # "plain" -> Heading(e, 2)
    [] OTHER -> Text(e)

\* Only what Docling calls plain text is promoted to a heading by its look.  An item that goes
\* over several regions or pages is on the page of its first, whatever its label.
DoclingBlock(e) ==
  CASE e.label = "title" -> Heading(e, 1)
    [] e.label = "section_header" -> Heading(e, e.level)
    [] e.label = "table" -> Block("table", e, e.lines, 0)
    [] e.label = "picture" -> DoclingPicture(e)
    [] e.label = "text" /\ e.look = "hash" -> Heading(e, e.level)
    [] e.label = "text" /\ e.look = "caps" -> Heading(e, 2)
    [] OTHER -> Text(e)

\* Running heads and feet are left out, and so is an item with no text.
Docling(doc) ==
  LET read(e) == e.label # "page_header" /\ DoclingBlock(e).text # <<>>
      items == Among(doc, {i \in DOMAIN doc : read(doc[i])})
  IN [i \in DOMAIN items |-> DoclingBlock(items[i])]

-----------------------------------------------------------------------------
(* PyMuPDF                                                                   *)

\* A table found on the page, under the caption found above it; an image, rendered.
Multimodal(e) ==
  IF e.paper = "table" THEN Block("table", e, e.caption \o e.lines, 0)
  ELSE Block("image", e, Placeholder(e), 0)

\* Text that no extracted table or figure covers; level 0 is not a heading.
TextBlock(e, level) == IF level = 0 THEN Text(e) ELSE Heading(e, level)

\* Blocks in the order of their pages and, on a page, from top to bottom whatever the column.
TopDown(blocks) ==
  {p \in (DOMAIN blocks) \X (DOMAIN blocks) :
     LET a == blocks[p[1]]
         b == blocks[p[2]] IN
     \/ a.page < b.page
     \/ a.page = b.page /\ (a.y < b.y \/ (a.y = b.y /\ p[1] < p[2]))}
DownThePage(blocks) == Arranged(blocks, DOMAIN blocks, TopDown(blocks))

\* What PyMuPDF may find: any table or image may be missed, and the search for those of a page
\* may fail after some of them.
Findings(doc) == SUBSET {i \in DOMAIN doc : doc[i].paper \in {"table", "image"}}

\* The blocks of what was found, and of the text that is left.
MuPDF(doc, found, level) ==
  LET shown == Among(doc, found)
      texts == Among(doc, {i \in (DOMAIN doc) \ found : doc[i].text # <<>>})
  IN DownThePage([i \in DOMAIN shown |-> Multimodal(shown[i])]
                 \o [i \in DOMAIN texts |-> TextBlock(texts[i], level[texts[i]])])

\* The fallback of the layout parser reads "#", large print and lines of capitals as headings.
FallbackLevel(e) ==
  CASE e.look \in {"hash", "large"} -> e.level
    [] e.look = "caps" -> 1
    [] OTHER -> 0

\* The fast parser only goes by the size and weight of the print.
FastLevel(e) == IF e.look = "large" THEN e.level ELSE 0

Fallback(doc, found) == MuPDF(doc, found, [e \in ToSet(doc) |-> FallbackLevel(e)])
FastText(doc, found) == MuPDF(doc, found, [e \in ToSet(doc) |-> FastLevel(e)])

\* OCR gives the text of each page and nothing else.
Ocr(doc) ==
  LET read == Among(doc, {i \in DOMAIN doc : doc[i].text # <<>>})
  IN [i \in DOMAIN read |-> TextBlock(read[i], 0)]

-----------------------------------------------------------------------------
(* The route                                                                 *)

Unset == "none"

\* An override is taken as it is; digital text goes to Docling when that is the default.
Route(override, probed, doclingDefault) ==
  CASE override # Unset -> override
    [] override = Unset /\ probed = "fast_text" /\ doclingDefault -> "layout"
    [] OTHER -> probed

\* Docling may be missing, raise an error, or find no block: then PyMuPDF reads the file.
Layout(doc, docling, found) ==
  IF docling /\ Docling(doc) # <<>> THEN Docling(doc) ELSE Fallback(doc, found)

Parse(route, doc, docling, found) ==
  CASE route = "layout" -> Layout(doc, docling, found)
    [] route = "ocr" -> Ocr(doc)
    [] OTHER -> FastText(doc, found)
=============================================================================
