----------------------------- MODULE SparseIndex -----------------------------
(***************************************************************************)
(* The sparse index: services/indexing/bm25_store.py, one BM25Store in the *)
(* gateway process and one in the Temporal worker process, both over the   *)
(* same directory.                                                         *)
(*                                                                         *)
(* A store is a list of chunks and a retriever built from it, both         *)
(* replaced by every call and written to two files.  It has no lock of its *)
(* own: the gateway's ingest routes take _index_lock around a call, the    *)
(* connectors, the web indexer and the worker do not.  The gateway reloads *)
(* both files every minute, and searches read the store at any time.       *)
(***************************************************************************)
EXTENDS Naturals, Sequences, FiniteSets, Functions

CONSTANTS
  Docs,        \* documents; each is one chunk
  Routes,      \* gateway threads that index under _index_lock
  Connectors,  \* gateway threads that index and remove without it
  Workers,     \* threads of the worker process
  Searchers,   \* gateway threads that search
  Reloading,   \* whether the gateway lives for a reload interval
  Apart,       \* bound: whether only behaviours of TurnsTaken are looked at
  MaxCalls,    \* bound: calls of index and remove_document
  MaxRestarts, \* bound: restarts of the processes
  None         \* no document; no thread

Threads == Routes \cup Connectors \cup Workers
Procs == {"gateway", "worker"}

ASSUME SparseAssumption ==
  /\ Routes \cap Connectors = {} /\ Workers \cap (Routes \cup Connectors) = {}
  /\ None \notin Threads \cup Docs
  /\ Reloading \in BOOLEAN /\ Apart \in BOOLEAN
  /\ MaxCalls \in Nat /\ MaxRestarts \in Nat

VARIABLES
  corpus,     \* per process, corpus_chunks
  retriever,  \* per process, the texts its retriever ranks; <<>> if it has none
  disk,       \* the retriever's files and chunks_metadata.json
  call,       \* per thread, the call it is in
  lock,       \* who holds _index_lock
  reloading,  \* where the gateway's reload is
  search,     \* per searcher, what its search has read
  calls,      \* calls so far (only bounds the model)
  restarts,   \* restarts so far (only bounds the model)
  acked       \* documents whose indexing returned and that nobody removed since

vars == <<corpus, retriever, disk, call, lock, reloading, search, calls, restarts, acked>>
memory == <<corpus, retriever>>
rest == <<reloading, search, restarts>>

Proc(t) == IF t \in Workers THEN "worker" ELSE "gateway"

Points == {"idle", "waiting", "read", "assign", "append", "build",
           "saveIndex", "openMeta", "dumpMeta"}

\* at: the next step of the call; kept: the chunks its comprehension kept;
\* hit: whether it left some out.
Call == [at : Points, op : {"index", "remove"}, doc : Docs \cup {None},
         kept : Seq(Docs), hit : BOOLEAN]

NoCall == [at |-> "idle", op |-> "index", doc |-> None, kept |-> <<>>, hit |-> FALSE]

NewCall(op, d) == [NoCall EXCEPT !.op = op, !.doc = d, !.at = "read"]

\* chunks_metadata.json is missing, torn while it is written, or whole.
Disk == [index : Seq(Docs), meta : {"missing", "torn", "whole"}, chunks : Seq(Docs)]

NoFiles == [index |-> <<>>, meta |-> "missing", chunks |-> <<>>]

Search == [at : {"idle", "ranked", "returned"}, scored : Seq(Docs), chunks : Seq(Docs)]

NoSearch == [at |-> "idle", scored |-> <<>>, chunks |-> <<>>]

Init ==
  /\ corpus = [p \in Procs |-> <<>>]
  /\ retriever = [p \in Procs |-> <<>>]
  /\ disk = NoFiles
  /\ call = [t \in Threads |-> NoCall]
  /\ lock = None
  /\ reloading = "idle"
  /\ search = [s \in Searchers |-> NoSearch]
  /\ calls = 0
  /\ restarts = 0
  /\ acked = {}

-----------------------------------------------------------------------------
(* index and remove_document *)

\* Whether t is between its reading of the corpus and the end of its last write.
Amid(t) == call[t].at \notin {"idle", "waiting", "read"}

Settled == reloading = "idle" /\ \A t \in Threads : ~Amid(t)

\* Whether p holds what is in the files.
Current(p) == Workers = {} \/ corpus[p] = disk.chunks

Begin(t, c) ==
  /\ call[t].at = "idle"
  /\ calls < MaxCalls
  /\ calls' = calls + 1
  /\ call' = [call EXCEPT ![t] = c]
  /\ UNCHANGED <<memory, disk, lock, rest, acked>>

StartIndex(t, d) ==
  Begin(t, [NewCall("index", d) EXCEPT !.at = IF t \in Routes THEN "waiting" ELSE "read"])

StartRemove(t, d) == Begin(t, NewCall("remove", d))

\* Mutation of Acquire: the route does not wait for the lock.
AcquireTaken(t) ==
  /\ call[t].at = "waiting"
  /\ lock' = t
  /\ call' = [call EXCEPT ![t].at = "read"]
  /\ UNCHANGED <<memory, disk, rest, calls, acked>>

\* with _index_lock: (_index_owned)
Acquire(t) ==
  /\ call[t].at = "waiting"
  /\ lock = None
  /\ lock' = t
  /\ call' = [call EXCEPT ![t].at = "read"]
  /\ UNCHANGED <<memory, disk, rest, calls, acked>>

\* Mutation of Others: the corpus is rebuilt from the incoming chunks alone.
OthersNone(s, d) == <<>>

\* The comprehension over corpus_chunks: chunks of other documents are kept, the
\* n-th of them as the n-th (SelectSeq, without its recursion).
Others(s, d) ==
  LET keep == {i \in DOMAIN s : s[i] # d}
      rank == [i \in keep |-> Cardinality({j \in keep : j <= i})]
  IN [n \in 1 .. Cardinality(keep) |-> s[CHOOSE i \in keep : rank[i] = n]]

ReadCorpus(t) ==
  LET s == corpus[Proc(t)] IN
  /\ call[t].at = "read" /\ (Apart => Settled /\ Current(Proc(t)))
  /\ call' = [call EXCEPT ![t].at = "assign",
                          ![t].kept = Others(s, call[t].doc),
                          ![t].hit = call[t].doc \in Range(s)]
  /\ acked' = IF call[t].op = "remove" THEN acked \ {call[t].doc} ELSE acked
  /\ UNCHANGED <<memory, disk, lock, rest, calls>>

Release(t) == lock' = IF lock = t THEN None ELSE lock

\* self.corpus_chunks = [...]; a removal that dropped nothing returns here.
AssignCorpus(t) ==
  LET c == call[t] IN
  /\ c.at = "assign"
  /\ corpus' = [corpus EXCEPT ![Proc(t)] = c.kept]
  /\ call' = [call EXCEPT ![t] =
       IF c.op = "index" THEN [c EXCEPT !.at = "append"]
       ELSE IF c.hit THEN [c EXCEPT !.at = "build"]
       ELSE NoCall]
  /\ UNCHANGED <<retriever, disk, lock, rest, calls, acked>>

AppendChunks(t) ==
  /\ call[t].at = "append"
  /\ corpus' = [corpus EXCEPT ![Proc(t)] = Append(@, call[t].doc)]
  /\ call' = [call EXCEPT ![t].at = "build"]
  /\ UNCHANGED <<retriever, disk, lock, rest, calls, acked>>

\* Mutation of Build: the retriever is built before the new chunks are added.
BuildBeforeAppend(t) ==
  LET p == Proc(t) IN
  /\ call[t].at = "build"
  /\ corpus[p] # <<>>
  /\ retriever' = [retriever EXCEPT ![p] = call[t].kept]
  /\ call' = [call EXCEPT ![t].at = "saveIndex"]
  /\ UNCHANGED <<corpus, disk, lock, rest, calls, acked>>

\* A new BM25 over the corpus of this moment.  A removal that leaves nothing
\* keeps the old retriever files.
Build(t) ==
  LET p == Proc(t) IN
  /\ call[t].at = "build"
  /\ corpus[p] # <<>> \/ call[t].op = "remove"
  /\ retriever' = [retriever EXCEPT ![p] = corpus[p]]
  /\ call' = [call EXCEPT ![t].at = IF corpus[p] = <<>> THEN "openMeta" ELSE "saveIndex"]
  /\ UNCHANGED <<corpus, disk, lock, rest, calls, acked>>

SaveIndex(t) ==
  /\ call[t].at = "saveIndex"
  /\ retriever[Proc(t)] # <<>>
  /\ disk' = [disk EXCEPT !.index = retriever[Proc(t)]]
  /\ call' = [call EXCEPT ![t].at = "openMeta"]
  /\ UNCHANGED <<memory, lock, rest, calls, acked>>

\* Mutation of CallRaises: the lock is taken and released without `with`.
CallRaisesLocked(t) ==
  /\ \/ call[t].at = "build" /\ call[t].op = "index" /\ corpus[Proc(t)] = <<>>
     \/ call[t].at = "saveIndex" /\ retriever[Proc(t)] = <<>>
  /\ call' = [call EXCEPT ![t] = NoCall]
  /\ UNCHANGED <<memory, disk, lock, rest, calls, acked>>

\* bm25s raises on an empty corpus, and None has no save: a reload got in between.
CallRaises(t) ==
  /\ \/ call[t].at = "build" /\ call[t].op = "index" /\ corpus[Proc(t)] = <<>>
     \/ call[t].at = "saveIndex" /\ retriever[Proc(t)] = <<>>
  /\ call' = [call EXCEPT ![t] = NoCall]
  /\ Release(t)
  /\ UNCHANGED <<memory, disk, rest, calls, acked>>

\* open(..., "w") truncates the file before anything is dumped into it.
OpenMeta(t) ==
  /\ call[t].at = "openMeta"
  /\ disk' = [disk EXCEPT !.meta = "torn"]
  /\ call' = [call EXCEPT ![t].at = "dumpMeta"]
  /\ UNCHANGED <<memory, lock, rest, calls, acked>>

\* Two dumps at once may leave a file that does not parse.
DumpMeta(t) ==
  LET others == \E u \in Threads \ {t} : call[u].at = "dumpMeta" IN
  /\ call[t].at = "dumpMeta"
  /\ \E meta \in IF others THEN {"whole", "torn"} ELSE {"whole"} :
       disk' = [disk EXCEPT !.meta = meta, !.chunks = corpus[Proc(t)]]
  /\ call' = [call EXCEPT ![t] = NoCall]
  /\ Release(t)
  /\ acked' = IF call[t].op = "index" THEN acked \cup {call[t].doc} ELSE acked
  /\ UNCHANGED <<memory, rest, calls>>

CallStep(t) ==
  \/ ReadCorpus(t) \/ AssignCorpus(t) \/ AppendChunks(t) \/ Build(t)
  \/ SaveIndex(t) \/ CallRaises(t) \/ OpenMeta(t) \/ DumpMeta(t)

-----------------------------------------------------------------------------
(* reload, on the gateway's event loop *)

StartReload ==
  /\ Reloading
  /\ reloading = "idle" /\ (Apart => Settled)
  /\ corpus' = [corpus EXCEPT !["gateway"] = <<>>]
  /\ retriever' = [retriever EXCEPT !["gateway"] = <<>>]
  /\ reloading' = "index"
  /\ UNCHANGED <<disk, call, lock, search, calls, restarts, acked>>

LoadIndex ==
  /\ reloading = "index"
  /\ IF disk.meta = "missing"
     THEN reloading' = "idle" /\ UNCHANGED retriever
     ELSE /\ reloading' = "meta"
          /\ retriever' = [retriever EXCEPT !["gateway"] = disk.index]
  /\ UNCHANGED <<corpus, disk, call, lock, search, calls, restarts, acked>>

\* A torn file does not parse: the exception is logged, the corpus stays empty.
LoadMeta ==
  /\ reloading = "meta"
  /\ reloading' = "idle"
  /\ corpus' = IF disk.meta = "whole" THEN [corpus EXCEPT !["gateway"] = disk.chunks]
               ELSE corpus
  /\ UNCHANGED <<retriever, disk, call, lock, search, calls, restarts, acked>>

Reload == StartReload \/ LoadIndex \/ LoadMeta

-----------------------------------------------------------------------------
(* search: ranks with the retriever, then reads corpus_chunks by position *)

StartSearch(s) ==
  /\ search[s].at # "ranked"
  /\ retriever["gateway"] # <<>> /\ corpus["gateway"] # <<>>
  /\ search' = [search EXCEPT ![s] =
       [at |-> "ranked", scored |-> retriever["gateway"], chunks |-> <<>>]]
  /\ UNCHANGED <<memory, disk, call, lock, reloading, calls, restarts, acked>>

SearchReads(s) ==
  /\ search[s].at = "ranked"
  /\ search' = [search EXCEPT ![s].at = "returned", ![s].chunks = corpus["gateway"]]
  /\ UNCHANGED <<memory, disk, call, lock, reloading, calls, restarts, acked>>

-----------------------------------------------------------------------------
(* A process dies and starts again: BM25Store.__init__ loads what is there *)

Restart(p) ==
  /\ restarts < MaxRestarts /\ (Apart => Settled)
  /\ restarts' = restarts + 1
  /\ corpus' = [corpus EXCEPT ![p] = IF disk.meta = "whole" THEN disk.chunks ELSE <<>>]
  /\ retriever' = [retriever EXCEPT ![p] = IF disk.meta = "missing" THEN <<>> ELSE disk.index]
  /\ call' = [t \in Threads |-> IF Proc(t) = p THEN NoCall ELSE call[t]]
  /\ IF p = "gateway"
     THEN /\ lock' = None /\ reloading' = "idle"
          /\ search' = [s \in Searchers |-> NoSearch]
     ELSE UNCHANGED <<lock, reloading, search>>
  /\ UNCHANGED <<disk, calls, acked>>

-----------------------------------------------------------------------------

Next ==
  \/ \E t \in Threads, d \in Docs : StartIndex(t, d)
  \/ \E t \in Connectors, d \in Docs : StartRemove(t, d)
  \/ \E t \in Routes : Acquire(t)
  \/ \E t \in Threads : CallStep(t)
  \/ Reload
  \/ \E s \in Searchers : StartSearch(s) \/ SearchReads(s)
  \/ \E p \in Procs : Restart(p)

Spec == Init /\ [][Next]_vars

\* A call that has begun goes on, a freed lock is taken by one of those that
\* wait for it again and again, and the reload timer keeps firing.
Fairness ==
  /\ \A t \in Threads : WF_vars(CallStep(t))
  /\ \A t \in Routes : SF_vars(Acquire(t))
  /\ WF_vars(Reload)

FairSpec == Spec /\ Fairness
-----------------------------------------------------------------------------
(* Properties *)

\* Every variable keeps its type.
TypeOK ==
  /\ corpus \in [Procs -> Seq(Docs)]
  /\ retriever \in [Procs -> Seq(Docs)]
  /\ disk \in Disk
  /\ call \in [Threads -> Call]
  /\ lock \in Routes \cup {None}
  /\ reloading \in {"idle", "index", "meta"}
  /\ search \in [Searchers -> Search]
  /\ calls \in 0 .. MaxCalls
  /\ restarts \in 0 .. MaxRestarts
  /\ acked \subseteq Docs

Quiet == reloading = "idle" /\ \A t \in Threads : call[t].at = "idle"

\* What nothing in the code enforces, but for routes among themselves: a call, a reload
\* or a restart begins when no call is amid its reading and writing, and a process
\* writes only what it has loaded since the other one wrote.
TurnsTaken ==
  /\ \A t \in Threads : ReadCorpus(t) => Settled /\ Current(Proc(t))
  /\ StartReload \/ (\E p \in Procs : Restart(p)) => Settled

\* When nothing is being written or read back, position i of the retriever
\* ranks chunk i of the corpus, in the files and in the gateway's memory (search
\* reads corpus_chunks by position), no chunk is there twice, every document
\* whose indexing returned and that nobody removed is in the files, and a gateway
\* with no worker beside it holds what is in them.  This is true of callers who
\* take turns (TurnsTaken), however many reloads and restarts come between them.
AlignedWhenQuiet ==
  Quiet =>
    /\ IsInjective(disk.chunks) /\ acked \subseteq Range(disk.chunks)
    /\ disk.chunks # <<>> => disk.index = disk.chunks
    /\ corpus["gateway"] # <<>> => retriever["gateway"] = corpus["gateway"]
    /\ Workers = {} => corpus["gateway"] = disk.chunks

\* A call always ends, in a return or an exception: nothing waits for
\* _index_lock for ever, not even when a reload makes a call raise.
CallsEnd == \A t \in Threads : call[t].at # "idle" ~> call[t].at = "idle"

-----------------------------------------------------------------------------
(* The abstract specification: a set of documents *)

\* The files, or what is about to be written into them.
stored ==
  IF disk.meta = "torn"
  THEN UNION {Range(corpus[Proc(t)]) : t \in {u \in Threads : call[u].at = "dumpMeta"}}
  ELSE Range(disk.chunks)

Library == INSTANCE DocumentSet WITH docs <- stored

\* Of callers that take turns, the files hold a set of documents that one call at
\* a time adds one to or removes one from; reloads and restarts change nothing.
ImplementsDocumentSet == Library!Spec
=============================================================================
