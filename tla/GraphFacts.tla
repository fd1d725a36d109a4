----------------------------- MODULE GraphFacts -----------------------------
(***************************************************************************)
(* What the entity graph computes, as operators: the extraction of         *)
(* services/graph/extractor.py, the graph of store.py (a networkx          *)
(* MultiDiGraph), that of neo4j_store.py, and the query of traversal.py.   *)
(* A chunk is the sequence of its sentences; of a sentence the model knows *)
(* the names in it and the triples the patterns find.                      *)
(***************************************************************************)
EXTENDS Passages

CONSTANTS
  Names,     \* names of entities, in the order of the extractor's vocabulary
  Sentences, \* chunk -> sequence of [names, said], said a sequence of triples
  Assoc,     \* the predicate "associated_with"
  Plain,     \* predicates that are letters only, which Neo4j takes for a relation's type
  MaxRelations  \* max_entities: the relations of an answer

\* What the patterns find in a sentence is resolved to the names in it.
ASSUME GraphFactsAssumption ==
  /\ Names \subseteq Nat /\ IsFiniteSet(Names) /\ "none" \notin Doc /\ MaxRelations \in Nat \ {0}
  /\ \A c \in Chunk :
       /\ Sentences[c] \in Seq([names : SUBSET Names, said : Seq(Names \X (Plain \cup {Assoc, "has"}) \X Names)])
       /\ \A s \in ToSet(Sentences[c]) : \A t \in ToSet(s.said) : {t[1], t[3]} \subseteq s.names

Triple(e) == <<e.src, e.pred, e.tgt>>
Ends(e) == {e.src, e.tgt}
Chunks(s) == {e.chunk : e \in ToSet(s)}

-----------------------------------------------------------------------------
(* Extraction *)

Entities(c) == UNION {s.names : s \in ToSet(Sentences[c])}

Fact(c, t, w) == [src |-> t[1], pred |-> t[2], tgt |-> t[3], chunk |-> c, weight |-> w]

\* The triples of ts that are not in seen, once each, with weight w.
News(seen, c, ts, w) ==
  LET new == Among(ts, {i \in DOMAIN ts : /\ \A e \in ToSet(seen) : Triple(e) # ts[i]
                                          /\ \A j \in 1..(i - 1) : ts[j] # ts[i]})
  IN [k \in DOMAIN new |-> Fact(c, new[k], w)]

\* Names that occur together are associated when no pattern said anything new.
Paired(ns) == LET s == InOrder(ns) IN [i \in 1..(Len(s) - 1) |-> <<s[1], Assoc, s[i + 1]>>]

FromSentence(seen, c, s) ==
  LET apart == Among(s.said, {i \in DOMAIN s.said : s.said[i][1] # s.said[i][3]})
      said == News(seen, c, apart, 10) IN
  IF Cardinality(s.names) < 2 THEN <<>>
  ELSE IF said # <<>> THEN said ELSE News(seen, c, Paired(s.names), 6)

Relations(c) ==
  LET ss == Sentences[c]
      given[i \in 0..Len(ss)] == IF i = 0 THEN <<>> ELSE given[i - 1] \o FromSentence(given[i - 1], c, ss[i])
  IN given[Len(ss)]

-----------------------------------------------------------------------------
(* The graph in memory: its nodes, the chunks of each, its edges in the    *)
(* order they were added.                                                  *)

Empty == [has |-> {}, of |-> [n \in Names |-> {}], edges |-> <<>>]

\* Names that chunk c mentions.
AddEntity(g, ns, c) ==
  [g EXCEPT !.has = @ \cup ns, !.of = [n \in Names |-> IF n \in ns THEN g.of[n] \cup {c} ELSE g.of[n]]]

\* Mutation of Recorded: the same triple of another chunk counts as recorded.
RecordedTriple(g, e) == \E d \in ToSet(g.edges) : Triple(d) = Triple(e)

Recorded(g, e) == \E d \in ToSet(g.edges) : Triple(d) = Triple(e) /\ d.chunk = e.chunk

\* An end that is no node yet becomes one.
AddRelation(g, e) ==
  IF Recorded(g, e) THEN g ELSE [AddEntity(g, Ends(e) \ g.has, e.chunk) EXCEPT !.edges = Append(@, e)]

WithEntities(g, c) == AddEntity(g, Entities(c), c)
WithRelations(g, c) ==
  LET rels == Relations(c)
      with[i \in 0..Len(rels)] == IF i = 0 THEN g ELSE AddRelation(with[i - 1], rels[i])
  IN with[Len(rels)]

\* load_from_disk adds the file's nodes and edges to what is there: a node's
\* attributes are replaced, an edge gets a key of its own.
Overlaid(g, f) ==
  [has |-> g.has \cup f.has,
   of |-> [n \in Names |-> IF n \in f.has THEN f.of[n] ELSE g.of[n]],
   edges |-> g.edges \o f.edges]

-----------------------------------------------------------------------------
(* Neo4j: one relation per pair and type, with the fields of the last *)

RelType(p) == IF p \in Plain THEN p ELSE "RELATED_TO"

EmptyNeo == [has |-> {}, of |-> [n \in Names |-> {}], rels |-> {}]

SameRel(d, e) == d.src = e.src /\ d.tgt = e.tgt /\ RelType(d.pred) = RelType(e.pred)

\* Mutation of NeoRelation: a relation that exists keeps the chunk it had.
NeoRelationStale(g, e) ==
  LET old == {d \in g.rels : SameRel(d, e)} IN
  [g EXCEPT !.has = @ \cup Ends(e),
            !.rels = (@ \ old) \cup {[e EXCEPT !.chunk = IF old = {} THEN @ ELSE (CHOOSE d \in old : TRUE).chunk]}]

\* MERGE both ends and the relation, then SET all its fields.
NeoRelation(g, e) ==
  [g EXCEPT !.has = @ \cup Ends(e), !.rels = {d \in @ : ~SameRel(d, e)} \cup {e}]

\* MERGE ... ON CREATE SET: a node that exists keeps the chunk it was created with.
NeoEntities(g, c) == AddEntity(g, Entities(c) \ g.has, c)
NeoRelations(g, c) ==
  LET rels == Relations(c)
      with[i \in 0..Len(rels)] == IF i = 0 THEN g ELSE NeoRelation(with[i - 1], rels[i])
  IN with[Len(rels)]

-----------------------------------------------------------------------------
(* Queries *)

\* The names within k steps of n along the edges E, whatever their direction.
Ball(E, n, k) ==
  LET B[i \in 0..k] == IF i = 0 THEN {n} ELSE B[i - 1] \cup UNION {Ends(e) : e \in {d \in E : Ends(d) \cap B[i - 1] # {}}}
  IN B[k]

Nothing == [edges |-> <<>>, chunks |-> {}]

Neighborhood(g, n, hops) ==
  LET ball == Ball(ToSet(g.edges), n, hops)
      within == Among(g.edges, {i \in DOMAIN g.edges : Ends(g.edges[i]) \subseteq ball}) IN
  IF n \notin g.has THEN Nothing
  ELSE [edges |-> within, chunks |-> Chunks(within) \cup UNION {g.of[m] : m \in ball}]

\* The relations on paths of at most hops steps; none falls back on the memory.
NeoNeighborhood(neo, g, n, hops) ==
  LET onPaths == {e \in neo.rels : Ends(e) \cap Ball(neo.rels, n, hops - 1) # {}} IN
  IF n \notin neo.has \/ onPaths = {} THEN Neighborhood(g, n, hops)
  ELSE [edges |-> SetToSeq(onPaths),
        chunks |-> {e.chunk : e \in onPaths} \cup UNION {neo.of[m] : m \in Ball(neo.rels, n, hops)}]

\* A shortest path between two names, or none.
Paths(E, a, b) ==
  {p \in UNION {[1..k -> Names] : k \in 1..Cardinality(Names)} :
     p[1] = a /\ p[Len(p)] = b /\ \A i \in 1..(Len(p) - 1) : \E e \in E : Ends(e) = {p[i], p[i + 1]}}
ShortestPath(E, a, b) == CHOOSE p \in Paths(E, a, b) : \A q \in Paths(E, a, b) : Len(p) <= Len(q)

\* The edges from u to v or, when there is none, those from v to u, as if from u to v.
Step(g, u, v) ==
  LET to == Among(g.edges, {i \in DOMAIN g.edges : g.edges[i].src = u /\ g.edges[i].tgt = v})
      from == Among(g.edges, {i \in DOMAIN g.edges : g.edges[i].src = v /\ g.edges[i].tgt = u}) IN
  IF to # <<>> THEN to ELSE [i \in DOMAIN from |-> [from[i] EXCEPT !.src = u, !.tgt = v]]

PathEdges(g, a, b) ==
  LET E == ToSet(g.edges) IN
  IF {a, b} \subseteq g.has /\ Paths(E, a, b) # {}
  THEN LET p == ShortestPath(E, a, b) IN FlattenSeq([i \in 1..(Len(p) - 1) |-> Step(g, p[i], p[i + 1])])
  ELSE <<>>

\* A triple is taken from the first edge that has it.
Firsts(s) == Among(s, {i \in DOMAIN s : \A j \in 1..(i - 1) : Triple(s[j]) # Triple(s[i])})

\* Mutation of Scoped: the chunks are not narrowed with the relations.
ScopedRelations(a, scope) ==
  LET kept == Among(a.relations, {i \in DOMAIN a.relations : DocOf[a.relations[i].chunk] \in scope}) IN
  [a EXCEPT !.relations = kept, !.matched = {m \in @ : m.doc \in scope}]

\* "relations evidenced only by other documents are dropped"
Scoped(a, scope) ==
  LET kept == Among(a.relations, {i \in DOMAIN a.relations : DocOf[a.relations[i].chunk] \in scope}) IN
  [relations |-> kept, chunks |-> Chunks(kept),
   matched |-> {m \in a.matched : m.doc \in scope \/ \E e \in ToSet(kept) : m.name \in Ends(e)}]

ByWeight(s) == Among(s, {i \in DOMAIN s : s[i].weight = 10}) \o Among(s, {i \in DOMAIN s : s[i].weight # 10})

\* get_stats of a scope: the entities it mentions, the relations between them.
Stats(g, neo, useNeo, scope) ==
  LET of == IF useNeo THEN neo.of ELSE g.of
      nodes == {n \in Names : \E c \in of[n] : DocOf[c] \in scope} IN
  [nodes |-> nodes,
   relations |-> {e \in IF useNeo THEN neo.rels ELSE ToSet(g.edges) : Ends(e) \subseteq nodes}]

\* The provenance get_entity gives: the first of a list made from a set.
SourceOf(g, n) == IF g.of[n] = {} THEN "none" ELSE DocOf[CHOOSE c \in g.of[n] : TRUE]

\* find_entities_in_text: the names a question mentions, each with its provenance.
Mentioned(g, asked) == {[name |-> n, doc |-> SourceOf(g, n)] : n \in asked}

\* What is around each of the names asked, on the paths between two of them.
Around(g, neo, useNeo, focal, hops) ==
  [i \in DOMAIN focal |-> IF useNeo THEN NeoNeighborhood(neo, g, focal[i], hops)
                                    ELSE Neighborhood(g, focal[i], hops)]
Between(g, focal) ==
  LET pairs == SetToSeq({ij \in (DOMAIN focal) \X (DOMAIN focal) : ij[1] < ij[2]})
  IN FlattenSeq([k \in DOMAIN pairs |-> PathEdges(g, focal[pairs[k][1]], focal[pairs[k][2]])])

Found(g, neo, useNeo, asked, hops) ==
  LET focal == InOrder(asked)
      nbs == Around(g, neo, useNeo, focal, hops)
      paths == Between(g, focal) IN
  [relations |-> Firsts(FlattenSeq([i \in DOMAIN nbs |-> nbs[i].edges]) \o paths),
   chunks |-> (UNION {nbs[i].chunks : i \in DOMAIN nbs}) \cup Chunks(paths),
   matched |-> Mentioned(g, asked)]

\* The answer to a question that mentions the names asked; no scope is all documents.
Query(g, neo, useNeo, asked, hops, scope) ==
  LET all == Found(g, neo, useNeo, asked, hops)
      scoped == IF scope = {} THEN all ELSE Scoped(all, scope) IN
  [scoped EXCEPT !.relations = First(ByWeight(@), MaxRelations)]
=============================================================================
