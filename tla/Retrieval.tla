----------------------------- MODULE Retrieval -----------------------------
(***************************************************************************)
(* What a search does to its results: the fusion of the dense and the      *)
(* sparse ranking, the chunks a project is anchored with, reranking and    *)
(* its cutoff, the assessment of the corrective loop, the packing of the   *)
(* passages into a budget and the sizing of the prompt.  Scores are in     *)
(* units of 1/10000, as the code rounds them to four digits; texts are     *)
(* what is asked of them: words, terms of the query, a signature, a gist.  *)
(***************************************************************************)
EXTENDS Passages

CONSTANTS
  Sentence,
  Corpus,     \* the chunks in the order the sparse index holds them
  Sig,        \* the first words of a chunk's text, normalized
  Terms,      \* the words of the query that are not stop words
  Has,        \* which of them a chunk's text holds
  Sents,      \* the sentences of a passage, <<>> for a table
  Words,      \* words of each sentence
  Gist,       \* sentences of one gist have a Jaccard similarity of 0.70 or more
  Hit,        \* share of the query's words in each sentence
  Numeric,    \* sentences with a number in them
  Columns,    \* relevance of each column of a table, <<>> for prose
  ColWords,   \* words in a column of a table
  TopK, TopRerank, Budget, MinScore

Score == {n \in Nat : n <= 10000}

ASSUME RetrievalAssumption ==
  /\ Corpus \in Seq(Chunk)
  /\ Has \in [Chunk -> SUBSET Terms] /\ Sents \in [Chunk -> Seq(Sentence)]
  /\ Words \in [Sentence -> Nat] /\ Hit \in [Sentence -> Score] /\ Numeric \subseteq Sentence
  /\ Columns \in [Chunk -> Seq(Score)] /\ ColWords \in Nat
  /\ TopK \in Nat \ {0} /\ TopRerank \in Nat \ {0} /\ Budget \in Nat \ {0} /\ MinScore \in Score

IsTable(c) == Columns[c] # <<>>

-----------------------------------------------------------------------------
(* reciprocal_rank_fusion                                                    *)

\* What rank r in one list adds to the normalized score; first in both lists is 1.
Share(r) == 305000 \div (60 + r)

RankIn(list, c) == IF c \in Range(list) THEN CHOOSE i \in DOMAIN list : list[i] = c ELSE 0
Part(list, c) == IF RankIn(list, c) = 0 THEN 0 ELSE Share(RankIn(list, c))

Fused(dense, sparse) ==
  LET all == dense \o Among(sparse, {i \in DOMAIN sparse : RankIn(dense, sparse[i]) = 0})
      score == [i \in DOMAIN all |-> Least(10000, Part(dense, all[i]) + Part(sparse, all[i]))]
  IN First(Sorted([i \in DOMAIN all |-> [c |-> all[i], rrf |-> score[i]]], score), TopK)

-----------------------------------------------------------------------------
(* RetrievalService.retrieve                                                 *)

InScope(c, scope) == DocOf[c] \in scope

\* Mutation of Resolved: documents that are not indexed are dropped from the scope.
DropsUnindexed(scope) == {DocOf[Corpus[i]] : i \in DOMAIN Corpus} \intersect scope

\* The documents asked for that are indexed, or as asked when none is.
Resolved(scope) ==
  LET indexed == {DocOf[Corpus[i]] : i \in DOMAIN Corpus} \intersect scope
  IN IF indexed = {} THEN scope ELSE indexed

\* Both stores search everything when the list of documents is empty.
Searched(scope) == IF Resolved(scope) = {} THEN Chunk ELSE {c \in Chunk : InScope(c, Resolved(scope))}

\* get_document_overview_chunks: the first chunks of the documents.
Overview(scope) ==
  First(Among(Corpus, {i \in DOMAIN Corpus : InScope(Corpus[i], Resolved(scope))}), 3)

\* The candidates of a search, anchored with overview chunks when there are none or
\* the question is broad.
Candidates(dense, sparse, scope, broad) ==
  LET fused == Fused(dense, sparse)
      first == Overview(scope)
      extra == Among(first, {k \in DOMAIN first : \A i \in DOMAIN fused : fused[i].c # first[k]})
  IN IF Resolved(scope) # {} /\ (fused = <<>> \/ broad)
     THEN fused \o [k \in DOMAIN extra |-> [c |-> extra[k], rrf |-> 8500]] ELSE fused

Cutoff(broad) == IF broad THEN Least(MinScore, 500) ELSE MinScore

-----------------------------------------------------------------------------
(* FlashRankReranker.rerank: raw is the score of each chunk, or Down.        *)
Down == <<>>

\* A low score, and every score of a broad question, is lifted by the rank.
Calibrated(raw, rrf, broad) == IF broad \/ raw < 500 THEN Most(raw, (rrf * 3) \div 4) ELSE raw

Scored(cands, raw, broad) ==
  [i \in DOMAIN cands |-> [c |-> cands[i].c, rrf |-> cands[i].rrf,
     score |-> IF raw = Down THEN cands[i].rrf ELSE Calibrated(raw[cands[i].c], cands[i].rrf, broad)]]

ByScore(s) == Sorted(s, [i \in DOMAIN s |-> s[i].score])

\* Of the passages with one signature the first is kept.
Deduped(s) == Among(s, {i \in DOMAIN s : \A j \in 1..(i - 1) : Sig[s[j].c] # Sig[s[i].c]})

\* Without the cross-encoder the order of the fusion stands.
Reranked(cands, raw, broad) ==
  LET scored == Scored(cands, raw, broad)
  IN First(Deduped(IF raw = Down THEN scored ELSE ByScore(scored)), TopRerank)

TopScore(s) == IF s = <<>> THEN 0 ELSE s[1].score

Refused(s, cutoff) == s = <<>> \/ TopScore(s) < cutoff

-----------------------------------------------------------------------------
(* The agentic loop and CRAGEvaluator                                        *)

Eff(x) == IF x.score > 0 THEN x.score ELSE x.rrf

\* Of the results of several hops the best of each chunk, where it was first found.
Better(found, x) ==
  LET k == CHOOSE k \in DOMAIN found : found[k].c = x.c IN
  IF (\E i \in DOMAIN found : found[i].c = x.c) /\ Eff(found[k]) > Eff(x) THEN found[k] ELSE x
Merged(pool, found) ==
  [i \in DOMAIN pool |-> Better(found, pool[i])]
    \o Among(found, {k \in DOMAIN found : \A i \in DOMAIN pool : pool[i].c # found[k].c})

\* Overlap with the first three texts of the pool is at least one half.
Overlaps(pool, terms) ==
  LET matched == terms \intersect UNION {Has[pool[i].c] : i \in DOMAIN First(pool, 3)}
  IN 2 * Cardinality(matched) >= Cardinality(terms)

Assessment(pool, terms, broad) ==
  LET top == CHOOSE m \in {Eff(pool[i]) : i \in DOMAIN pool} \union {0} :
               \A i \in DOMAIN pool : Eff(pool[i]) <= m
  IN IF pool = <<>> \/ top < (IF broad THEN 500 ELSE 1500) THEN "REFUSE"
     ELSE IF broad \/ (top >= 4500 /\ Overlaps(pool, terms)) THEN "CONFIDENT" ELSE "AMBIGUOUS"

-----------------------------------------------------------------------------
(* ContextCompactor                                                          *)

\* estimate_tokens: 1.3 a word, rounded up.
Tokens(words) == (13 * words + 9) \div 10

\* prune_markdown_table: the identifier, the two best columns, and a third that is relevant.
KeptColumns(c) ==
  LET cols == Columns[c]
      rank(i) == Cardinality({j \in 2..Len(cols) : cols[j] > cols[i] \/ (cols[j] = cols[i] /\ j <= i)})
  IN IF Len(cols) <= 3 THEN DOMAIN cols
     ELSE {1} \union {i \in 2..Len(cols) : rank(i) <= 2 \/ (rank(i) = 3 /\ cols[i] > 0)}

TableTokens(c) == Tokens(Cardinality(KeptColumns(c)) * ColWords)

Salience(s, score) ==
  Least(10000, (4 * score) \div 10 + (45 * Hit[s]) \div 100 + (IF s \in Numeric THEN 1500 ELSE 0))

WordsOf(sents) == Sums(Words, sents)[Len(sents)]

\* The salient sentences of a passage that nothing accepted before repeats, or its best one.
Retained(c, score, accepted) ==
  LET sents == Sents[c]
      salience == [i \in DOMAIN sents |-> Salience(sents[i], score)]
      new == {i \in DOMAIN sents : salience[i] >= 1500 /\ \A t \in accepted : Gist[t] # Gist[sents[i]]}
  IN IF new = {} THEN First(Sorted(sents, salience), 1)
     ELSE Among(sents, {i \in new : \A j \in new : j < i => Gist[sents[j]] # Gist[sents[i]]})

\* Mutation of Fitting: a sentence fits when it would fit alone.
FitsAlone(sents, left) ==
  LET long == {n \in DOMAIN sents : Tokens(Words[sents[n]]) > left}
  IN SubSeq(sents, 1, IF long = {} THEN Len(sents) ELSE (CHOOSE n \in long : \A k \in long : n <= k) - 1)

\* The first of them that fit in what is left.
Fitting(sents, left) ==
  LET sums == Sums([s \in Sentence |-> Tokens(Words[s])], sents)
      fits == {n \in 0..Len(sents) : sums[n] <= left}
  IN SubSeq(sents, 1, CHOOSE n \in fits : \A k \in fits : k <= n)

\* One passage after another: [used, accepted, kept, dropped].
Pack(acc, x) ==
  LET left == Budget - acc.used
      add(words, size) == [acc EXCEPT !.used = @ + size, !.kept = Append(@, x.c), !.accepted = @ \union words]
      drop(words) == [acc EXCEPT !.dropped = @ + 1, !.accepted = @ \union words]
      sents == Retained(x.c, Eff(x), acc.accepted)
      part == Fitting(sents, left)
  IN IF IsTable(x.c)
     THEN IF TableTokens(x.c) <= left THEN add({}, TableTokens(x.c)) ELSE drop({})
     ELSE IF Tokens(WordsOf(sents)) <= left THEN add(ToSet(sents), Tokens(WordsOf(sents)))
     ELSE IF left > 0 /\ part # <<>> THEN add(ToSet(sents), Tokens(WordsOf(part)))
     ELSE drop(ToSet(sents))

Unpacked == [used |-> 0, accepted |-> {}, kept |-> <<>>, dropped |-> 0]

\* The CompactedContext: the passages kept, their tokens, how many were dropped.
Packed(cands) ==
  LET pack[i \in 0..Len(cands)] == IF i = 0 THEN Unpacked ELSE Pack(pack[i - 1], cands[i])
  IN pack[Len(cands)]
Compacted(cands) ==
  LET acc == Packed(cands) IN [kept |-> acc.kept, tokens |-> acc.used, dropped |-> acc.dropped]

\* The passages as they were found, which a prompt falls back on when none was kept.
WholeWords(c) == IF IsTable(c) THEN Len(Columns[c]) * ColWords ELSE WordsOf(Sents[c])
WholeTokens(cands) ==
  Sums([c \in Chunk |-> Tokens(WholeWords(c))], [i \in DOMAIN cands |-> cands[i].c])[Len(cands)]

-----------------------------------------------------------------------------
(* _num_ctx and fit_prompt, in characters; a token has 3.5 of them           *)

NumCtx(chars, large) ==
  Least(Most(2048, Most(Budget + 512, (2 * chars) \div 7 + 256 + 64)), IF large THEN 4096 ELSE 8192)

MaxChars(ctx) == ((ctx - 350) * 7) \div 2

\* The note put where the middle was cut out.
Note == 51

\* Mutation of Cut: the end is cut off.
CutsTheEnd(chars, tail, max) ==
  IF chars <= max THEN [head |-> chars - tail, tail |-> tail, note |-> 0]
  ELSE [head |-> Least(chars - tail, max - Note), tail |-> Most(0, max - Note - (chars - tail)), note |-> Note]

\* What is left of the head and of the question and instruction at the end.
Cut(chars, tail, max) ==
  LET t == Least(tail, max \div 2) IN
  IF chars <= max THEN [head |-> chars - tail, tail |-> tail, note |-> 0]
  ELSE [head |-> Most(max - t - Note, 0), tail |-> t, note |-> Note]
=============================================================================
