------------------------------ MODULE ChatTurn ------------------------------
(***************************************************************************)
(* One turn of the chat: ChatPipeline.run with RetrievalService.retrieve,  *)
(* FlashRankReranker.rerank, AgenticCoordinator.run_plan_full and          *)
(* ContextCompactor.  What the stores find, what the cross-encoder scores, *)
(* what the model decomposes and whether the graph has relations are       *)
(* choices; what is done with them is in Retrieval.  What the turn writes  *)
(* to the history is in Sessions.                                          *)
(***************************************************************************)
EXTENDS Retrieval

CONSTANTS
  MaxHops,    \* sub-questions of a plan, three in the code
  Scopes,     \* the sets of documents a project may read
  Raws,       \* scores of the cross-encoder
  Rests,      \* characters of persona, history, labels and relations of the graph
  Tails       \* characters of the question and the instruction after it

ASSUME ChatTurnAssumption ==
  /\ MaxHops \in Nat \ {0} /\ Scopes \subseteq SUBSET Doc
  /\ Raws \subseteq Nat /\ Rests \subseteq Nat /\ Tails \subseteq Nat

VARIABLES
  pc, ask,    \* [mode, broad, terms, scope], the mode as "auto" was settled by the question
  hops,       \* searches still to do
  corrected,  \* whether the corrective hop was made
  broad,      \* whether the text of the current search is exploratory
  found,      \* candidates of the current search
  pool,       \* what the hops found
  cands,      \* the passages the answer is to rest on
  crag,       \* status of the last assessment, or "NONE"
  relations,  \* whether the graph found relations
  evidence,   \* [kept, tokens, dropped]
  prompt      \* [head, tail, note, ctx, whole] once it is sent

vars == <<pc, ask, hops, corrected, broad, found, pool, cands, crag, relations, evidence, prompt>>

Agentic == ask.mode = "agentic"
NoEvidence == [kept |-> <<>>, tokens |-> 0, dropped |-> 0]
NoPrompt == [head |-> 0, tail |-> 0, note |-> 0, ctx |-> 0, whole |-> 0]

\* The terms of a broad question are never asked for.
Requests ==
  {r \in [mode : {"agentic", "graph", "direct"}, broad : BOOLEAN, terms : {{}, Terms}, scope : Scopes] :
     r.broad => r.terms = Terms}

Init ==
  /\ pc = "start" /\ ask \in Requests
  /\ hops = 0 /\ corrected = FALSE /\ broad = FALSE /\ found = <<>> /\ pool = <<>> /\ cands = <<>>
  /\ crag = "NONE" /\ relations = FALSE /\ evidence = NoEvidence /\ prompt = NoPrompt

-----------------------------------------------------------------------------
\* A project that can read nothing is refused without a search.
Start ==
  /\ pc = "start"
  /\ IF ask.scope = {} THEN pc' = "refused" /\ UNCHANGED hops
     ELSE IF Agentic THEN pc' = "plan" /\ UNCHANGED hops
     ELSE pc' = "search" /\ hops' = 1
  /\ broad' = ask.broad
  /\ UNCHANGED <<ask, corrected, found, pool, cands, crag, relations, evidence, prompt>>

\* Sub-questions from the model, or by rule when it fails.
Decompose ==
  /\ pc = "plan" /\ hops' \in 1..MaxHops /\ pc' = "search"
  /\ broad' \in BOOLEAN
  /\ UNCHANGED <<ask, corrected, found, pool, cands, crag, relations, evidence, prompt>>

\* The rankings of up to TopK of the chunks searched.
Rankings == {s \in UNION {[1..n -> Searched(ask.scope)] : n \in 0..TopK} : IsInjective(s)}

\* The nearest points that Qdrant or, after a failure of it, its client finds; nothing if both fail.
DenseFinds == {<<>>} \union Rankings

\* The chunks with a positive score, of all those in scope; nothing before the first index.
SparseFinds == IF Corpus = <<>> THEN {<<>>} ELSE Rankings

Search ==
  /\ pc = "search"
  /\ \E dense \in DenseFinds, sparse \in SparseFinds : found' = Candidates(dense, sparse, ask.scope, broad)
  /\ pc' = "rerank"
  /\ UNCHANGED <<ask, hops, corrected, broad, pool, cands, crag, relations, evidence, prompt>>

\* Scores of the cross-encoder, or that it fails.
Outcomes(s) == {Down} \union [{s[i].c : i \in DOMAIN s} -> Raws]

RerankOne ==
  /\ pc = "rerank" /\ ~Agentic
  /\ \E raw \in Outcomes(found) :
       LET top == Reranked(found, raw, broad) IN
       /\ cands' = top
       /\ pc' = IF ask.mode = "graph" THEN (IF Refused(top, Cutoff(broad)) THEN "doubt" ELSE "graph")
                ELSE IF Refused(top, Cutoff(broad)) THEN "refused" ELSE "compact"
  /\ found' = <<>>
  /\ UNCHANGED <<ask, hops, corrected, broad, pool, crag, relations, evidence, prompt>>

\* Graph mode answers from relations alone when the passages were refused.
TraverseForGraph ==
  /\ pc \in {"graph", "doubt"}
  /\ relations' \in BOOLEAN
  /\ pc' = IF pc = "doubt" /\ ~relations' THEN "refused" ELSE "compact"
  /\ UNCHANGED <<ask, hops, corrected, broad, found, pool, cands, crag, evidence, prompt>>

RerankHop ==
  /\ pc = "rerank" /\ Agentic
  /\ \E raw \in Outcomes(found) : pool' = Merged(pool, Reranked(found, raw, broad))
  /\ hops' = hops - 1 /\ found' = <<>>
  /\ pc' = IF hops' > 0 THEN "search" ELSE "assess"
  /\ broad' \in (IF hops' > 0 THEN BOOLEAN ELSE {broad})
  /\ UNCHANGED <<ask, corrected, cands, crag, relations, evidence, prompt>>

\* Mutation of Assess: the corrective hop is made only while the plan has hops left.
CorrectsWithinPlan ==
  LET status == Assessment(pool, ask.terms, ask.broad) IN
  /\ pc = "assess" /\ crag' = status
  /\ CASE ~corrected /\ status = "AMBIGUOUS" /\ ask.terms # {} /\ hops > 0 ->
            pc' = "search" /\ hops' = 1 /\ corrected' = TRUE /\ broad' \in BOOLEAN
       [] (corrected /\ status # "CONFIDENT") \/ status = "REFUSE" ->
            pc' = "refused" /\ UNCHANGED <<hops, corrected, broad>>
       [] OTHER -> pc' = "traverse" /\ UNCHANGED <<hops, corrected, broad>>
  /\ UNCHANGED <<ask, found, pool, cands, relations, evidence, prompt>>

\* Mutation of Assess: an ambiguous assessment is corrected every time.
CorrectsAgain ==
  LET status == Assessment(pool, ask.terms, ask.broad) IN
  /\ pc = "assess" /\ crag' = status
  /\ CASE status = "AMBIGUOUS" /\ ask.terms # {} ->
            pc' = "search" /\ hops' = 1 /\ corrected' = TRUE /\ broad' \in BOOLEAN
       [] status = "REFUSE" -> pc' = "refused" /\ UNCHANGED <<hops, corrected, broad>>
       [] OTHER -> pc' = "traverse" /\ UNCHANGED <<hops, corrected, broad>>
  /\ UNCHANGED <<ask, found, pool, cands, relations, evidence, prompt>>

\* One corrective hop when the first assessment is ambiguous and there is a term to
\* ask for; after it only a confident one goes on.
Assess ==
  LET status == Assessment(pool, ask.terms, ask.broad) IN
  /\ pc = "assess" /\ crag' = status
  /\ CASE ~corrected /\ status = "AMBIGUOUS" /\ ask.terms # {} ->
            pc' = "search" /\ hops' = 1 /\ corrected' = TRUE /\ broad' \in BOOLEAN
       [] (corrected /\ status # "CONFIDENT") \/ status = "REFUSE" ->
            pc' = "refused" /\ UNCHANGED <<hops, corrected, broad>>
       [] OTHER -> pc' = "traverse" /\ UNCHANGED <<hops, corrected, broad>>
  /\ UNCHANGED <<ask, found, pool, cands, relations, evidence, prompt>>

\* Relations are shown to the model; they decide nothing here.
Traverse ==
  /\ pc = "traverse" /\ relations' \in BOOLEAN /\ pc' = "unify"
  /\ UNCHANGED <<ask, hops, corrected, broad, found, pool, cands, crag, evidence, prompt>>

Unify ==
  /\ pc = "unify"
  /\ \E raw \in Outcomes(pool) :
       LET top == Reranked(pool, raw, ask.broad) IN
       cands' = top /\ pool' = <<>> /\ pc' = IF Refused(top, MinScore) THEN "refused" ELSE "compact"
  /\ UNCHANGED <<ask, hops, corrected, broad, found, crag, relations, evidence, prompt>>

\* When no passage was kept the prompt holds them all as they were found.
Evidence(comp) == [comp EXCEPT !.tokens = IF comp.kept = <<>> THEN WholeTokens(cands) ELSE @]

\* _compact, for an answer from passages or with the graph.
Compact ==
  /\ pc = "compact" /\ ~Agentic /\ pc' = "generate"
  /\ evidence' = Evidence(Compacted(cands))
  /\ UNCHANGED <<ask, hops, corrected, broad, found, pool, cands, crag, relations, prompt>>

\* The last step of a plan, which ends there with what it found.
CompactPlan ==
  /\ pc = "compact" /\ Agentic /\ pc' = "generate"
  /\ evidence' = Evidence(Compacted(cands))
  /\ UNCHANGED <<ask, hops, corrected, broad, found, pool, cands, crag, relations, prompt>>

\* The characters of a prompt: the evidence between the rest and the question at the end.
PromptChars(rest, tail) == rest + (60 * evidence.tokens) \div 13 + tail

\* The prompt is cut to the window; when Ollama fails it is cut to a small one and sent again
\* (a question that was itself cut is no longer found in it, and a quarter stands for it).
Generate ==
  /\ pc = "generate"
  /\ \E rest \in Rests, tail \in Tails, large \in BOOLEAN :
       LET chars == PromptChars(rest, tail)
           ctx == NumCtx(chars, large)
           sent == Cut(chars, tail, MaxChars(ctx))
           again == LET c == sent.head + sent.tail + sent.note IN
                    Cut(c, IF sent.tail = tail THEN tail ELSE 1000, 4000)
       IN \/ prompt' = [head |-> sent.head, tail |-> sent.tail, note |-> sent.note, ctx |-> ctx, whole |-> tail]
          \/ prompt' = [head |-> again.head, tail |-> again.tail, note |-> again.note, ctx |-> 2048, whole |-> tail]
  /\ pc' \in {"answered", "failed"}
  /\ UNCHANGED <<ask, hops, corrected, broad, found, pool, cands, crag, relations, evidence>>

\* A turn that has ended stays as it is.
Ended == pc \in {"answered", "failed", "refused"} /\ UNCHANGED vars

Next == Start \/ Decompose \/ Search \/ RerankOne \/ TraverseForGraph \/ RerankHop \/ Assess
        \/ Traverse \/ Unify \/ Compact \/ CompactPlan \/ Generate \/ Ended

Spec == Init /\ [][Next]_vars

-----------------------------------------------------------------------------

\* Nothing a project may not read is a candidate, is reranked or reaches the prompt, whichever
\* hop found it and however the question was rewritten, also when none of its documents is
\* indexed: the indexes are shared by every user.
ScopeHolds ==
  /\ \A s \in {found, pool, cands} : \A i \in DOMAIN s : InScope(s[i].c, ask.scope)
  /\ \A i \in DOMAIN evidence.kept : InScope(evidence.kept[i], ask.scope)

\* The model is asked only with evidence that passed: one passage at the cutoff, in graph mode
\* that or a relation, and in an agentic turn an assessment that is confident whenever there
\* was anything to correct it with.
AnswersAreGrounded ==
  pc \in {"compact", "generate", "answered", "failed"} =>
    \/ /\ cands # <<>> /\ TopScore(cands) >= Cutoff(ask.broad)
       /\ Agentic => /\ TopScore(cands) >= MinScore
                     /\ crag = "CONFIDENT" \/ (crag = "AMBIGUOUS" /\ ask.terms = {})
    \/ ask.mode = "graph" /\ relations

\* The evidence stays within the budget of tokens, except when no passage fits at all; a
\* passage is kept or counted as dropped.
EvidenceFits ==
  pc \in {"generate", "answered", "failed"} =>
    /\ evidence.kept # <<>> => evidence.tokens <= Budget
    /\ Len(evidence.kept) + evidence.dropped = Len(cands)

\* The prompt and the answer fit the window Ollama is given, at the first try and at the
\* second, and a question of up to 2000 characters reaches the model whole.
QuestionKept ==
  pc \in {"answered", "failed"} =>
    /\ 2 * (prompt.head + prompt.tail + prompt.note) <= 7 * (prompt.ctx - 256)
    /\ prompt.whole <= 2000 => prompt.tail = prompt.whole

\* Most calls a turn can still make.
CallsLeft ==
  CASE pc = "start" -> 10 + 2 * MaxHops [] pc = "plan" -> 9 + 2 * MaxHops
    [] pc = "search" -> (IF corrected THEN 5 ELSE 8) + 2 * hops
    [] pc = "rerank" -> (IF corrected THEN 4 ELSE 7) + 2 * hops
    [] pc = "assess" -> IF corrected THEN 5 ELSE 8
    [] pc = "traverse" -> 4 [] pc \in {"unify", "graph", "doubt"} -> 3
    [] pc = "compact" -> 2 [] pc = "generate" -> 1 [] OTHER -> 0

\* Every step of a turn leaves fewer to do, through every hop, one correction and the
\* answer: a turn cannot go round, whatever the assessments say.
TurnsEnd == [][CallsLeft' < CallsLeft]_vars
=============================================================================
