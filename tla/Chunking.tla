------------------------------ MODULE Chunking ------------------------------
(***************************************************************************)
(* How services/indexing/chunker.py cuts a text or a table to fit.  A text *)
(* is a sequence of words, a table a sequence of lines; of a word (or a    *)
(* line) the model keeps which one of which element it is (at), its size,  *)
(* the strongest delimiter that follows it (end) and, when it was too long *)
(* and was cut, which piece it is.  The size of a word is in tokens.  That *)
(* of a line is in parts of one, for the lines of a table are rounded to   *)
(* tokens one by one, and cut by their characters.                         *)
(***************************************************************************)
EXTENDS Arranging

CONSTANTS
  MaxTokens,    \* the cap of a chunk
  Overlap,      \* tokens a chunk repeats of the one before
  Slack,        \* what the budget of a text leaves beside its prefix
  TextCrumb,    \* tokens the breadcrumb of a text may take
  BlockCrumb,   \* tokens that of a table or a figure may take
  Label,        \* tokens of "Section: " or "Table (...)"
  RowFloor      \* characters a row is never cut below

\* What comes before a text takes at most half a chunk, as 36 + 3 + 8 do of 512.
ASSUME ChunkingAssumption ==
  /\ MaxTokens \in Nat /\ MaxTokens >= 4 /\ RowFloor \in Nat \ {0}
  /\ Overlap \in Nat /\ Slack \in Nat /\ Label \in Nat
  /\ TextCrumb \in Nat \ {0} /\ BlockCrumb \in Nat \ {0}
  /\ Label + Most(TextCrumb, BlockCrumb) + Slack <= MaxTokens \div 2

\* The delimiters, strongest first: each also ends what the later ones end.
Paragraph == 0
Line == 1
Stop == 2
Clause == 3
Space == 4

Nowhere == <<0, 0>>

Word == [at : Nat \X Nat, size : Nat, end : Paragraph..Space, piece : Nat,
         kind : {"word", "caption", "header", "rule", "row", "dense"}]

Size(s) == Sums([w \in ToSet(s) |-> w.size], s)[Len(s)]

\* s cut after each of its delimiters of this strength or a greater one.
Parts(s, level) ==
  LET ends == InOrder({i \in DOMAIN s : i = Len(s) \/ s[i].end <= level})
  IN [k \in DOMAIN ends |-> SubSeq(s, IF k = 1 THEN 1 ELSE ends[k - 1] + 1, ends[k])]

From(s, i) == SubSeq(s, i, Len(s))

-----------------------------------------------------------------------------
(* Texts                                                                     *)

\* Whole sentences from the end of s when they come to about the overlap, words otherwise.
OverlapPrefix(s, overlap) ==
  LET starts == {i \in DOMAIN s : i = 1 \/ s[i - 1].end <= Stop}
      within == {Max(starts)} \cup {i \in starts : Size(From(s, i)) <= overlap}
      enough == {1} \cup {i \in DOMAIN s : Size(From(s, i)) >= overlap}
      sentences == From(s, Min(within))
  IN CASE overlap = 0 -> <<>>
       [] overlap > 0 /\ starts # {1} /\ 10 * Size(sentences) <= 13 * overlap -> sentences
       [] OTHER -> From(s, Max(enough))

\* The i-th piece of a word.
Piece(w, i, size) == [at |-> w.at, size |-> size, end |-> w.end, piece |-> i, kind |-> w.kind]

\* A word no delimiter cuts is cut by its length.
Pieces(w, most) ==
  LET n == (w.size + most - 1) \div most
  IN [i \in 1..n |-> <<Piece(w, i, IF i < n THEN most ELSE w.size - (n - 1) * most)>>]

\* The units that are too large are cut at the delimiters of this level.
Finer(units, level, most) ==
  FlattenSeq([i \in DOMAIN units |-> IF Size(units[i]) <= most THEN <<units[i]>> ELSE Parts(units[i], level)])

\* _split_to_fit: what is too large is cut at the next weaker delimiter.
Units(text, most) ==
  LET clauses == Finer(Finer(Finer(Finer(<<text>>, Paragraph, most), Line, most), Stop, most), Clause, most)
      words == Finer(clauses, Space, most)
  IN FlattenSeq([i \in DOMAIN words |-> IF Size(words[i]) <= most THEN <<words[i]>>
                                        ELSE Pieces(words[i][1], most)])

\* Mutation of Put: the unit that did not fit makes way for the overlap.
PutOverlapOnly(p, u, most, overlap) ==
  IF p.cur # <<>> /\ Size(p.cur \o u) > most
  THEN [out |-> Append(p.out, p.cur), cur |-> OverlapPrefix(p.cur, overlap)]
  ELSE [out |-> p.out, cur |-> p.cur \o u]

\* The overlap a unit is put behind is not counted when the unit is taken.
Put(p, u, most, overlap) ==
  IF p.cur # <<>> /\ Size(p.cur \o u) > most
  THEN [out |-> Append(p.out, p.cur), cur |-> OverlapPrefix(p.cur, overlap) \o u]
  ELSE [out |-> p.out, cur |-> p.cur \o u]

Filled(units, most, overlap) ==
  LET put[i \in 0..Len(units)] == IF i = 0 THEN [out |-> <<>>, cur |-> <<>>]
                                  ELSE Put(put[i - 1], units[i], most, overlap)
      last == put[Len(units)]
  IN Append(last.out, last.cur)

EffectiveOverlap(most) == Least(Overlap, most \div 4)

\* Mutation of Splits: a unit may take the whole budget, the overlap comes on top.
SplitsFullUnits(text, most) ==
  CASE text = <<>> -> <<>>
    [] text # <<>> /\ Size(text) <= most -> <<text>>
    [] OTHER -> Filled(Units(text, most), most, EffectiveOverlap(most))

\* split_text_recursive
Splits(text, most) ==
  LET overlap == EffectiveOverlap(most)
  IN CASE text = <<>> -> <<>>
       [] text # <<>> /\ Size(text) <= most -> <<text>>
       [] OTHER -> Filled(Units(text, Most(most - overlap, most \div 2)), most, overlap)

-----------------------------------------------------------------------------
(* Tables: lines of kind "caption", "header", "rule" and "row", and "dense"  *)
(* ones, of words of one letter                                              *)

\* A token is 3.8 characters, or 1 / 1.3 words; a word of one letter takes two characters.
TokenParts == 380
CharParts == 100
DenseCharParts == 247
RowTail == 7   \* the characters " ... |" of a row that was cut, and the end of the line

CharOf(line) == IF line.kind = "dense" THEN DenseCharParts ELSE CharParts
CharsIn(line) == (line.size + CharOf(line) - 1) \div CharOf(line)

\* estimate_tokens rounds down, and gives at least one.
TokensOf(parts) == Most(parts \div TokenParts, 1)

\* What a part of a table is taken to be while it is filled: each row by itself, rounded.
Reckoned(rows) == Size([i \in DOMAIN rows |-> [size |-> TokensOf(rows[i].size)]])

\* The first characters of a line.
Shortened(line, chars) == Piece(line, 1, CharOf(line) * chars)

\* "|  |", two words.
NoRule == [at |-> Nowhere, size |-> (26 * TokenParts) \div 10, end |-> Line, piece |-> 0, kind |-> "rule"]

\* The line a part begins with and the rule under it; the first line is taken for the column
\* names whatever it is, and is no longer followed by its rule when it is a caption.
TableHead(lines) == <<lines[1], IF lines[2].kind = "rule" THEN lines[2] ELSE NoRule>>

TableRows(lines) == From(lines, IF lines[2].kind = "rule" THEN 3 ELSE 2)

\* A row too long for a part of its own is cut: to three characters a token of the room, which
\* may be more tokens than the room has.
Fitted(row, room) ==
  IF TokensOf(row.size) <= room THEN row
  ELSE Shortened(row, Least(CharsIn(row), Most(3 * room, RowFloor)) + RowTail)

\* A row that was cut is no longer than three characters a token of a chunk.
CutRow(row) == row.piece = 1 /\ row.size <= CharOf(row) * (Most(3 * MaxTokens, RowFloor) + RowTail)

\* The last row of a part is repeated in the next when there is room.
Again(cur, row, room) ==
  IF TokensOf(Last(cur).size) + TokensOf(row.size) <= room THEN <<Last(cur)>> ELSE <<>>

PutRow(p, row, room) ==
  IF Reckoned(p.cur) + TokensOf(row.size) > room /\ p.cur # <<>>
  THEN [out |-> Append(p.out, p.cur), cur |-> Append(Again(p.cur, row, room), row)]
  ELSE [out |-> p.out, cur |-> Append(p.cur, row)]

RowPacks(rows, room) ==
  LET put[i \in 0..Len(rows)] == IF i = 0 THEN [out |-> <<>>, cur |-> <<>>]
                                 ELSE PutRow(put[i - 1], Fitted(rows[i], room), room)
      last == put[Len(rows)]
  IN Append(last.out, last.cur)

Headed(head, packs) == [i \in DOMAIN packs |-> head \o packs[i]]

\* The first n characters of a table.
CutOff(lines, n) ==
  LET upTo == Sums([w \in ToSet(lines) |-> CharsIn(w)], lines)
      end == Min({i \in DOMAIN lines : upTo[i] >= n} \cup {Len(lines)})
      room == n - upTo[end - 1]
      last == lines[end]
  IN Append(SubSeq(lines, 1, end - 1), IF CharsIn(last) <= room THEN last ELSE Shortened(last, room))

\* split_large_table.  A table whose head alone fills the budget is cut off, often inside the head.
TableParts(lines, most) ==
  IF Len(lines) <= 2 THEN <<lines>>
  ELSE LET head == TableHead(lines)
           room == most - TokensOf(Size(head))
       IN IF room <= 0 THEN <<CutOff(lines, 3 * most)>>
          ELSE Headed(head, RowPacks(TableRows(lines), room))

-----------------------------------------------------------------------------
(* Breadcrumbs                                                               *)

\* The headings a chunk's text begins with: all, the first and the last, or the last cut short.
Crumb(headings, room) ==
  CASE headings = <<>> \/ Size(headings) <= room -> headings
    [] Size(headings) > room /\ Len(headings) > 2
       /\ headings[1].size + Last(headings).size <= room -> <<headings[1], Last(headings)>>
    [] OTHER -> <<[Last(headings) EXCEPT !.size = Least(@, room)]>>

PrefixTokens(headings, room) == IF headings = <<>> THEN 0 ELSE Label + Size(Crumb(headings, room))

BudgetUnder(headings, room) == Most(MaxTokens - PrefixTokens(headings, room) - Slack, MaxTokens \div 2)
=============================================================================
