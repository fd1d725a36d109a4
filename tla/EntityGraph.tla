----------------------------- MODULE EntityGraph -----------------------------
(***************************************************************************)
(* The entity graph at work: a copy in the memory of the gateway and one   *)
(* in the worker's, knowledge_graph.json that each writes whole after      *)
(* every document and the gateway reloads every minute, and Neo4j, which   *)
(* both write best effort.  Nothing is ever taken out.                     *)
(*                                                                         *)
(* A step is what runs between two accesses another thread could see; one  *)
(* adds the entities of a chunk, one its relations.  The call of a thread  *)
(* indexes one chunk, as much as a document of one chunk.                  *)
(***************************************************************************)
EXTENDS GraphFacts

CONSTANTS
  Routes,     \* threads of the gateway that index
  Workers,    \* threads of the worker that index
  Torn,       \* knowledge_graph.json while it is written
  None,
  Questions,  \* the names and the hops that users ask for
  MaxCalls, MaxReloads, MaxFaults  \* bounds

Threads == Routes \cup Workers
Procs == {"gateway", "worker"}
Proc(t) == IF t \in Workers THEN "worker" ELSE "gateway"

ASSUME EntityGraphAssumption ==
  /\ Routes \cap Workers = {} /\ None \notin Chunk /\ Torn # None
  /\ Questions \subseteq [asked : SUBSET Names, hops : Nat \ {0}]
  /\ {MaxCalls, MaxReloads, MaxFaults} \subseteq Nat

VARIABLES
  mirror,     \* per process, the graph in its memory
  disk,       \* knowledge_graph.json: a graph, Torn, or None if there is no file
  neo,        \* the graph in Neo4j
  connected,  \* per process, whether it found Neo4j when it started
  call,       \* per thread, the chunk it indexes, where it is, what it is to write
  reload,     \* what the gateway's reload has read, or None
  kept,       \* per process, the chunks it indexed since it last loaded the file
  count       \* calls, reloads and faults so far (only bounds the model)

graphVars == <<mirror, disk, neo, connected, call, reload, kept, count>>

NoCall == [at |-> "idle", chunk |-> None, payload |-> None]

GraphInit ==
  /\ mirror = [p \in Procs |-> Empty] /\ disk = None /\ neo = EmptyNeo
  /\ connected \in [Procs -> BOOLEAN]
  /\ call = [t \in Threads |-> NoCall] /\ reload = None
  /\ kept = [p \in Procs |-> {}] /\ count = [calls |-> 0, reloads |-> 0, faults |-> 0]

Bump(k, max) == count[k] < max /\ count' = [count EXCEPT ![k] = @ + 1]

-----------------------------------------------------------------------------
Begin(t, c) ==
  /\ call[t] = NoCall /\ Bump("calls", MaxCalls)
  /\ call' = [call EXCEPT ![t] = [NoCall EXCEPT !.at = "entities", !.chunk = c]]
  /\ UNCHANGED <<mirror, disk, neo, connected, reload, kept>>

\* Neo4j is written if the process is connected; an error is logged.
InNeo(t, g) ==
  \/ connected[Proc(t)] /\ neo' = g /\ UNCHANGED count
  \/ ~connected[Proc(t)] /\ UNCHANGED <<neo, count>>
  \/ connected[Proc(t)] /\ Bump("faults", MaxFaults) /\ UNCHANGED neo

AddEntities(t) ==
  LET c == call[t].chunk IN
  /\ call[t].at = "entities"
  /\ mirror' = [mirror EXCEPT ![Proc(t)] = WithEntities(@, c)]
  /\ InNeo(t, NeoEntities(neo, c))
  /\ call' = [call EXCEPT ![t].at = "relations"]
  /\ UNCHANGED <<disk, connected, reload, kept>>

AddRelations(t) ==
  LET c == call[t].chunk IN
  /\ call[t].at = "relations"
  /\ mirror' = [mirror EXCEPT ![Proc(t)] = WithRelations(@, c)]
  /\ InNeo(t, NeoRelations(neo, c))
  /\ call' = [call EXCEPT ![t].at = "save"]
  /\ kept' = [kept EXCEPT ![Proc(t)] = @ \cup {c}]
  /\ UNCHANGED <<disk, connected, reload>>

\* save_to_disk: the payload, the empty file, the file.
TakePayload(t) ==
  /\ call[t].at = "save"
  /\ call' = [call EXCEPT ![t].at = "open", ![t].payload = mirror[Proc(t)]]
  /\ UNCHANGED <<mirror, disk, neo, connected, reload, kept, count>>

OpenFile(t) ==
  /\ call[t].at = "open"
  /\ disk' = Torn /\ call' = [call EXCEPT ![t].at = "write"]
  /\ UNCHANGED <<mirror, neo, connected, reload, kept, count>>

WriteFile(t) ==
  /\ call[t].at = "write"
  /\ disk' = call[t].payload /\ call' = [call EXCEPT ![t] = NoCall]
  /\ UNCHANGED <<mirror, neo, connected, reload, kept, count>>

\* load_from_disk: a file that does not parse changes nothing; one that does
\* is read before the graph is cleared, and filled in after.
ReloadClear ==
  /\ reload = None /\ disk \notin {None, Torn} /\ Bump("reloads", MaxReloads)
  /\ reload' = disk
  /\ mirror' = [mirror EXCEPT !["gateway"] = Empty]
  /\ kept' = [kept EXCEPT !["gateway"] = {}]
  /\ UNCHANGED <<disk, neo, connected, call>>

ReloadFill ==
  /\ reload # None
  /\ mirror' = [mirror EXCEPT !["gateway"] = Overlaid(@, reload)]
  /\ reload' = None
  /\ UNCHANGED <<disk, neo, connected, call, kept, count>>

Loaded(f) == IF f \in {None, Torn} THEN Empty ELSE f

Restart(p) ==
  /\ Bump("faults", MaxFaults)
  /\ mirror' = [mirror EXCEPT ![p] = Loaded(disk)]
  /\ \E b \in BOOLEAN : connected' = [connected EXCEPT ![p] = b]
  /\ call' = [t \in Threads |-> IF Proc(t) = p THEN NoCall ELSE call[t]]
  /\ reload' = IF p = "gateway" THEN None ELSE reload
  /\ kept' = [kept EXCEPT ![p] = {}]
  /\ UNCHANGED <<disk, neo>>

GraphNext ==
  \/ \E t \in Threads :
       \/ \E c \in Chunk : Begin(t, c)
       \/ AddEntities(t) \/ AddRelations(t) \/ TakePayload(t) \/ OpenFile(t) \/ WriteFile(t)
  \/ ReloadClear \/ ReloadFill
  \/ \E p \in Procs : Restart(p)

GraphSpec == GraphInit /\ [][GraphNext]_graphVars

-----------------------------------------------------------------------------
(* Properties *)

Graphs == Range(mirror) \cup ({disk, reload} \ {None, Torn})

\* Provenance: whatever was merged, overwritten, reloaded or cut short, a
\* relation of any copy is one its chunk states, with all its fields, and a
\* node's chunks mention it (extractor.py, "preserving provenance coordinates").
ProvenanceIsReal ==
  /\ \A e \in (UNION {ToSet(g.edges) : g \in Graphs}) \cup neo.rels : e \in ToSet(Relations(e.chunk))
  /\ \A g \in Graphs \cup {neo} : \A n \in Names : \A c \in g.of[n] : n \in Entities(c)

\* What a process indexed since it last loaded the file is in its memory, each
\* relation with each chunk that states it (add_relation).
EvidenceIsKept ==
  \A p \in Procs : \A c \in kept[p] : ToSet(Relations(c)) \subseteq ToSet(mirror[p].edges)

\* The queries that the gateway's users ask, in a project of the documents scope.
Answers(scope) ==
  {Query(mirror["gateway"], neo, connected["gateway"], q.asked, q.hops, scope) : q \in Questions}

CountedOf(scope) == Stats(mirror["gateway"], neo, connected["gateway"], scope)

\* Nothing of another document reaches a project: not a relation, a chunk or
\* the name of an entity, in an answer (query_graph, "they never reach that
\* project's prompt"); and its statistics count no entity it does not mention.
AnswersStayInScope ==
  \A scope \in (SUBSET Doc) \ {{}} : \A a \in Answers(scope) :
    /\ Chunks(a.relations) \subseteq a.chunks
    /\ \A c \in a.chunks : DocOf[c] \in scope
    /\ \A n \in {m.name : m \in a.matched} \cup CountedOf(scope).nodes \cup UNION {Ends(e) : e \in CountedOf(scope).relations} :
         \E c \in Chunk : DocOf[c] \in scope /\ n \in Entities(c)
=============================================================================
