----------------------------- MODULE Scheduling -----------------------------
(***************************************************************************)
(* Scheduled ingestion: services/scheduling, with IngestionService.parse,  *)
(* normalize.to_pdf and the dense side of IndexingService.chunk_and_index, *)
(* which its activities call.                                              *)
(*                                                                         *)
(* Temporal is external: it runs one scan at a time, retries an activity   *)
(* whose attempt raised, timed out or died with the worker, and starts one *)
(* run per workflow id at a time.  An activity is a thread of the worker   *)
(* and nothing stops it: an attempt that timed out goes on, its result is  *)
(* not taken, beside the attempt that replaces it.                         *)
(***************************************************************************)
EXTENDS Naturals, FiniteSets

CONSTANTS
  Paths,       \* files of the watched directory, in the order of their names
  Contents,    \* what a file may hold, up to its hash
  Convertible, \* contents of files that are not PDFs
  Blank,       \* contents that parse to no blocks
  None,
  Torn, Mixed, \* registries that do not parse: emptied to be written, or written by two at once
  Pool,        \* threads of the worker, eight in the code
  MaxAttempts, \* attempts of an activity, three in the code
  Replays,     \* bound: the seconds at which a replay may start
  MaxDrops, MaxScans, MaxCalls, MaxFaults  \* bounds: files put, scans, replay calls, faults

ASSUME SchedulingAssumption ==
  /\ Paths \subseteq Nat /\ Convertible \subseteq Contents /\ Blank \subseteq Contents
  /\ None \notin Contents \cup Paths \cup Pool /\ Torn # None /\ Torn # Mixed
  /\ {Torn, Mixed} \cap [Contents -> Paths \cup {None}] = {} /\ None \notin Contents \X ({0} \cup Replays)
  /\ MaxAttempts \in Nat \ {0} /\ 0 \notin Replays
  /\ {MaxDrops, MaxScans, MaxCalls, MaxFaults} \subseteq Nat

\* doc_id is made of the name and the hash; a workflow's id of the hash and,
\* for a replay, of the time.
Docs == Paths \X Contents
Ids == Contents \X ({0} \cup Replays)
NoFlow == [status |-> "none", step |-> "ingest", attempts |-> 0, path |-> None, doc |-> None]
NoScan == [at |-> "idle", attempts |-> 0, todo |-> {}]
Free == [kind |-> "none", id |-> None, live |-> FALSE, at |-> "none", seen |-> None,
         found |-> {}, doc |-> None]
NoReplay == [todo |-> {}, id |-> None]

VARIABLES
  folder,     \* path -> content
  registry,   \* seen_documents.json: hash -> path, or Torn, or Mixed
  scan,       \* the run of DirectoryScanWorkflow
  flows,      \* the runs of DocumentIngestWorkflow, by workflow id
  thread,     \* the worker's threads
  converted,  \* data/converted/<doc_id>.pdf: "none", "torn" or "whole"
  dense,      \* documents with points in Qdrant
  attached,   \* whether the worker found Qdrant when it started
  replay,     \* the gateway's replay call: failed runs still to look at, the one described
  count,      \* drops, scans, calls and faults so far (only bounds the model)
  latest,     \* document -> how its latest attempt at indexing ended
  overlapped, \* documents that two threads indexed at once
  lost,       \* history: contents dispatched whose claim was not saved, not read or overwritten
  dropped     \* history: contents found by an attempt given up, or left by a scan that failed

vars == <<folder, registry, scan, flows, thread, converted, dense, attached, replay, count,
          latest, overlapped, lost, dropped>>
stores == <<converted, dense, latest, overlapped>>

Init ==
  /\ folder = [p \in Paths |-> None] /\ registry = [c \in Contents |-> None]
  /\ scan = NoScan /\ flows = [i \in Ids |-> NoFlow] /\ thread = [t \in Pool |-> Free]
  /\ converted = [d \in Docs |-> "none"] /\ dense = {} /\ attached \in BOOLEAN
  /\ replay = NoReplay /\ count = [drops |-> 0, scans |-> 0, calls |-> 0, faults |-> 0]
  /\ latest = [d \in Docs |-> "none"] /\ overlapped = {}
  /\ lost = {} /\ dropped = {}

Bump(k, max) == count[k] < max /\ count' = [count EXCEPT ![k] = @ + 1]

-----------------------------------------------------------------------------
(* Attempts *)

Busy(id) == \E t \in Pool : thread[t].live /\ thread[t].id = id

\* Temporal hands an activity to a free thread of the pool.
Attempt(t, kind, id, at, doc) ==
  /\ thread[t].kind = "none" /\ ~Busy(id)
  /\ thread' = [thread EXCEPT ![t] = [Free EXCEPT !.kind = kind, !.id = id, !.live = TRUE,
                                                  !.at = at, !.doc = doc]]

Exhausted(n) == n >= MaxAttempts

\* The server counts a failed attempt against the run it was for.
FailedFlow(f) == IF Exhausted(f.attempts) THEN [f EXCEPT !.status = "failed"] ELSE f
FailedScan == IF Exhausted(scan.attempts) THEN NoScan ELSE scan

\* The contents of some files.
ContentsOf(ds) == {d[2] : d \in ds}

\* The attempts of ts are over without a result.
GiveUp(ts) ==
  LET live == {t \in ts : thread[t].live} IN
  /\ flows' = [i \in Ids |-> IF \E t \in live : thread[t].id = i THEN FailedFlow(flows[i])
                                                                 ELSE flows[i]]
  /\ scan' = IF \E t \in live : thread[t].kind = "scan" THEN FailedScan ELSE scan
  /\ dropped' = dropped \cup UNION {ContentsOf(thread[t].found) : t \in ts}
  /\ UNCHANGED lost

\* The activity raised.
Raise(t) ==
  /\ GiveUp({t})
  /\ thread' = [thread EXCEPT ![t] = Free]

\* start_to_close_timeout: the thread goes on.
Timeout(t) ==
  /\ thread[t].live /\ Bump("faults", MaxFaults)
  /\ GiveUp({t})
  /\ thread' = [thread EXCEPT ![t].live = FALSE]
  /\ UNCHANGED <<folder, registry, stores, attached, replay>>

\* What a thread that dies was doing to a document.
Cut(ts) == latest' = [d \in Docs |->
  IF \E t \in ts : thread[t].kind = "index" /\ thread[t].doc = d THEN "cut" ELSE latest[d]]

\* Without Qdrant the worker's points are in its memory.
Restart ==
  /\ Bump("faults", MaxFaults)
  /\ GiveUp(Pool) /\ Cut(Pool)
  /\ thread' = [t \in Pool |-> Free] /\ attached' \in BOOLEAN
  /\ UNCHANGED <<folder, registry, converted, dense, overlapped, replay>>

-----------------------------------------------------------------------------
(* The directory scan *)

\* Someone puts a file, or other contents in its place.
Drop(p, c) ==
  /\ folder[p] # c /\ Bump("drops", MaxDrops)
  /\ folder' = [folder EXCEPT ![p] = c]
  /\ UNCHANGED <<registry, scan, flows, thread, stores, attached, replay, lost, dropped>>

\* The schedule starts no scan while one is running.
StartScan ==
  /\ scan.at = "idle" /\ Bump("scans", MaxScans)
  /\ scan' = [NoScan EXCEPT !.at = "scanning"]
  /\ UNCHANGED <<folder, registry, flows, thread, stores, attached, replay, lost, dropped>>

AttemptScan(t) ==
  /\ scan.at = "scanning" /\ Attempt(t, "scan", None, "load", None)
  /\ scan' = [scan EXCEPT !.attempts = @ + 1]
  /\ UNCHANGED <<folder, registry, flows, stores, attached, replay, count, lost, dropped>>

\* A registry that does not parse counts as empty.
Loaded == IF registry \in {Torn, Mixed} THEN [c \in Contents |-> None] ELSE registry

\* The first path that holds c.
First(c) == CHOOSE p \in Paths : folder[p] = c /\ \A q \in Paths : folder[q] = c => p <= q

\* Mutation of Unseen: whatever lies in the directory.
AllThere(seen) == {c \in Contents : \E p \in Paths : folder[p] = c}

Unseen(seen) == {c \in Contents : seen[c] = None /\ \E p \in Paths : folder[p] = c}

Dispatched(c) == flows[<<c, 0>>].status # "none"

\* Its dispatch is under way, or will be when the attempt returns.
InHand(c) ==
  \/ c \in ContentsOf(scan.todo)
  \/ \E t \in Pool : thread[t].live /\ thread[t].at = "return" /\ c \in ContentsOf(thread[t].found)

ScanFolder(t) ==
  LET found == Unseen(Loaded)
      files == {<<First(c), c>> : c \in found} IN
  /\ thread[t].at = "load"
  /\ thread' = [thread EXCEPT
       ![t].at = IF found = {} THEN "return" ELSE "open",
       ![t].seen = [c \in Contents |-> IF c \in found THEN First(c) ELSE Loaded[c]],
       ![t].found = files]
  /\ lost' = IF thread[t].live /\ registry \in {Torn, Mixed}
             THEN lost \cup {c \in Contents : Dispatched(c)} ELSE lost
  /\ dropped' = IF thread[t].live THEN dropped ELSE dropped \cup ContentsOf(files)
  /\ UNCHANGED <<folder, registry, scan, flows, stores, attached, replay, count>>

\* open(registry_file, "w") empties the file, or fails and the claims are not kept.
OpenRegistry(t) ==
  /\ thread[t].at = "open"
  /\ \/ registry' = Torn /\ thread' = [thread EXCEPT ![t].at = "dump"]
        /\ UNCHANGED <<count, lost>>
     \/ /\ Bump("faults", MaxFaults) /\ UNCHANGED registry
        /\ thread' = [thread EXCEPT ![t].at = "return"]
        /\ lost' = IF thread[t].live THEN lost \cup ContentsOf(thread[t].found) ELSE lost
  /\ UNCHANGED <<folder, scan, flows, stores, attached, replay, dropped>>

\* Over what another attempt wrote since, the longer of the two shows through.  An
\* attempt that was given up writes what it read, however old.
DumpRegistry(t) ==
  LET seen == thread[t].seen IN
  /\ thread[t].at = "dump"
  /\ registry' \in IF registry = Torn THEN {seen} ELSE {seen, Mixed}
  /\ thread' = [thread EXCEPT ![t].at = "return"]
  /\ lost' = IF thread[t].live THEN lost
             ELSE lost \cup {c \in Contents : seen[c] = None /\ (Dispatched(c) \/ InHand(c))}
  /\ UNCHANGED <<folder, scan, flows, stores, attached, replay, count, dropped>>

\* The workflow gets the result of an attempt it still waits for.
ReturnScan(t) ==
  /\ thread[t].at = "return"
  /\ thread' = [thread EXCEPT ![t] = Free]
  /\ scan' = IF thread[t].live
             THEN [scan EXCEPT !.at = "dispatching", !.todo = thread[t].found] ELSE scan
  /\ UNCHANGED <<folder, registry, flows, stores, attached, replay, count, lost, dropped>>

Started(p) == [NoFlow EXCEPT !.status = "running", !.path = p]

\* Mutation of Dispatch: the files after the first are left.
DispatchFirst ==
  \E d \in scan.todo :
    /\ scan.at = "dispatching" /\ \A e \in scan.todo : d[1] <= e[1]
    /\ flows' = [flows EXCEPT ![<<d[2], 0>>] = Started(d[1])] /\ scan' = NoScan
    /\ UNCHANGED <<folder, registry, thread, stores, attached, replay, count, lost, dropped>>

\* start_child_workflow, file by file; it fails, and the scan with it, while a
\* run with that id is open.
Dispatch ==
  /\ scan.at = "dispatching"
  /\ IF scan.todo = {} THEN scan' = NoScan /\ UNCHANGED flows
     ELSE \E d \in scan.todo :
       /\ \A e \in scan.todo : d[1] <= e[1]
       /\ IF flows[<<d[2], 0>>].status = "running" THEN scan' = NoScan /\ UNCHANGED flows
          ELSE /\ flows' = [flows EXCEPT ![<<d[2], 0>>] = Started(d[1])]
               /\ scan' = [scan EXCEPT !.todo = @ \ {d}]
  /\ dropped' = IF scan.todo # {} /\ scan' = NoScan
                THEN dropped \cup ContentsOf(scan.todo) ELSE dropped
  /\ UNCHANGED <<folder, registry, thread, stores, attached, replay, count, lost>>

-----------------------------------------------------------------------------
(* DocumentIngestWorkflow *)

\* Documents whose points some thread is writing.
Indexing == {thread[t].doc : t \in {u \in Pool : thread[u].kind = "index"}}

Counted(f) == [f EXCEPT !.attempts = @ + 1]

AttemptStep(t, id) ==
  LET f == flows[id] IN
  /\ f.status = "running"
  /\ IF f.step = "ingest" THEN Attempt(t, "ingest", id, "read", None) /\ UNCHANGED <<latest, overlapped>>
     ELSE /\ Attempt(t, "index", id, "purge", f.doc)
          /\ latest' = [latest EXCEPT ![f.doc] = "running"]
          /\ overlapped' = overlapped \cup ({f.doc} \cap Indexing)
  /\ flows' = [flows EXCEPT ![id] = Counted(f)]
  /\ UNCHANGED <<folder, registry, scan, converted, dense, attached, replay, count, lost, dropped>>

\* The file is hashed and, unless it is a PDF or was converted before, converted.
ReadFile(t) ==
  LET p == flows[thread[t].id].path
      d == <<p, folder[p]>> IN
  /\ thread[t].at = "read"
  /\ IF folder[p] = None THEN Raise(t) /\ UNCHANGED converted
     ELSE /\ thread' = [thread EXCEPT ![t].doc = d,
               ![t].at = IF d[2] \in Convertible /\ converted[d] = "none" THEN "convert" ELSE "parse"]
          /\ converted' = IF d[2] \in Convertible /\ converted[d] = "none"
                          THEN [converted EXCEPT ![d] = "torn"] ELSE converted
          /\ UNCHANGED <<flows, scan, lost, dropped>>
  /\ UNCHANGED <<folder, registry, dense, latest, overlapped, attached, replay, count>>

Convert(t) ==
  /\ thread[t].at = "convert"
  /\ converted' = [converted EXCEPT ![thread[t].doc] = "whole"]
  /\ thread' = [thread EXCEPT ![t].at = "parse"]
  /\ UNCHANGED <<folder, registry, scan, flows, dense, latest, overlapped, attached, replay, count, lost, dropped>>

\* The workflow takes the blocks, or the end, of an attempt it still waits for.
Advance(t) ==
  LET id == thread[t].id IN
  /\ thread' = [thread EXCEPT ![t] = Free]
  /\ flows' = IF ~thread[t].live THEN flows
              ELSE IF thread[t].kind = "ingest"
              THEN [flows EXCEPT ![id].step = "index", ![id].attempts = 0, ![id].doc = thread[t].doc]
              ELSE [flows EXCEPT ![id].status = "completed"]
  /\ UNCHANGED <<scan, lost, dropped>>

\* A conversion that was cut short, and a converted file without text, yield an error.
Unparsable(d) == d[2] \in Convertible /\ (converted[d] = "torn" \/ d[2] \in Blank)

Parse(t) ==
  /\ thread[t].at = "parse"
  /\ IF Unparsable(thread[t].doc) THEN Raise(t) ELSE Advance(t)
  /\ UNCHANGED <<folder, registry, stores, attached, replay, count>>

\* A parser raises: the model runs out of memory, or a file is locked.
ParseFails(t) ==
  /\ thread[t].at = "parse" /\ Bump("faults", MaxFaults)
  /\ Raise(t)
  /\ UNCHANGED <<folder, registry, stores, attached, replay>>

\* Mutation of Purge: every document's points are deleted.
PurgeAll(t) ==
  /\ thread[t].at = "purge" /\ dense' = {}
  /\ thread' = [thread EXCEPT ![t].at = "upsert"]
  /\ UNCHANGED <<folder, registry, scan, flows, converted, latest, overlapped, attached, replay, count, lost, dropped>>

\* QdrantStore.index: nothing is purged for a document without chunks, nor in memory.
Purge(t) ==
  LET d == thread[t].doc IN
  /\ thread[t].at = "purge"
  /\ dense' = IF d[2] \in Blank \/ ~attached THEN dense ELSE dense \ {d}
  /\ thread' = [thread EXCEPT ![t].at = "upsert"]
  /\ UNCHANGED <<folder, registry, scan, flows, converted, latest, overlapped, attached, replay, count, lost, dropped>>

\* The purge was refused, which is passed over.
PurgeSkipped(t) ==
  /\ thread[t].at = "purge" /\ attached /\ Bump("faults", MaxFaults)
  /\ thread' = [thread EXCEPT ![t].at = "upsert"]
  /\ UNCHANGED <<folder, registry, scan, flows, stores, attached, replay, lost, dropped>>

Upsert(t) ==
  LET d == thread[t].doc IN
  /\ thread[t].at = "upsert"
  /\ dense' = IF d[2] \in Blank \/ ~attached THEN dense ELSE dense \cup {d}
  /\ thread' = [thread EXCEPT ![t].at = "others"]
  /\ UNCHANGED <<folder, registry, scan, flows, converted, latest, overlapped, attached, replay, count, lost, dropped>>

\* The sparse index and the graph, which are SparseIndex and EntityGraph.
IndexOthers(t) ==
  LET d == thread[t].doc IN
  /\ thread[t].at = "others"
  /\ Advance(t)
  /\ latest' = [latest EXCEPT ![d] = IF d[2] \in Blank THEN "empty" ELSE IF attached THEN "indexed" ELSE "local"]
  /\ UNCHANGED <<folder, registry, converted, dense, overlapped, attached, replay, count>>

\* Qdrant, bm25s or the graph's file raises.
IndexFails(t) ==
  /\ thread[t].at \in {"upsert", "others"} /\ Bump("faults", MaxFaults)
  /\ Raise(t) /\ Cut({t})
  /\ UNCHANGED <<folder, registry, converted, dense, overlapped, attached, replay>>

-----------------------------------------------------------------------------
(* The gateway's replay of failed runs *)

Dead == {i \in Ids : flows[i].status = "failed"}
Running == {i \in Ids : flows[i].status = "running"}

\* replay_all lists them; replay_task is given one.
CallReplay(ids) ==
  /\ replay = NoReplay /\ ids # {} /\ Bump("calls", MaxCalls)
  /\ replay' = [NoReplay EXCEPT !.todo = ids]
  /\ UNCHANGED <<folder, registry, scan, flows, thread, stores, attached, lost, dropped>>

Describe(id) ==
  /\ replay.id = None /\ id \in replay.todo
  /\ replay' = [todo |-> replay.todo \ {id}, id |-> IF id \in Dead THEN id ELSE None]
  /\ UNCHANGED <<folder, registry, scan, flows, thread, stores, attached, count, lost, dropped>>

\* What follows "ingest-" in the id of a replay is no hash.
PathOf(id) == IF id[2] = 0 THEN Loaded[id[1]] ELSE None

Restarted(id, s) == <<id[1], s>>

\* Refused when the file is not known; an open run of that second ends the call.
StartReplay(s) ==
  LET id == replay.id
      new == Restarted(id, s) IN
  /\ id # None
  /\ IF PathOf(id) = None THEN replay' = [replay EXCEPT !.id = None] /\ UNCHANGED flows
     ELSE IF flows[new].status = "running" THEN replay' = NoReplay /\ UNCHANGED flows
     ELSE /\ flows' = [flows EXCEPT ![new] = Started(PathOf(id))]
          /\ replay' = [replay EXCEPT !.id = None]
  /\ UNCHANGED <<folder, registry, scan, thread, stores, attached, count, lost, dropped>>

Stats == [pending |-> 0, processing |-> Cardinality(Running), dlq |-> Cardinality(Dead)]

-----------------------------------------------------------------------------
WorkOf(t) ==
  \/ ScanFolder(t) \/ OpenRegistry(t) \/ DumpRegistry(t) \/ ReturnScan(t)
  \/ ReadFile(t) \/ Convert(t) \/ Parse(t)
  \/ Purge(t) \/ Upsert(t) \/ IndexOthers(t)

Serve == \E t \in Pool : AttemptScan(t) \/ \E id \in Ids : AttemptStep(t, id)

Faults ==
  \/ Restart
  \/ \E t \in Pool : Timeout(t) \/ ParseFails(t) \/ PurgeSkipped(t) \/ IndexFails(t)

Next ==
  \/ \E p \in Paths, c \in Contents \cup {None} : Drop(p, c)
  \/ StartScan \/ Dispatch \/ Serve
  \/ \E t \in Pool : WorkOf(t)
  \/ Faults
  \/ CallReplay(Dead) \/ \E id \in Ids : (flows[id] # NoFlow /\ CallReplay({id})) \/ Describe(id)
  \/ \E s \in Replays : StartReplay(s)

Spec == Init /\ [][Next]_vars
-----------------------------------------------------------------------------
(* Properties *)

Registry == [Contents -> Paths \cup {None}]

Flow == [status : {"none", "running", "completed", "failed"}, step : {"ingest", "index"},
         attempts : Nat, path : Paths \cup {None}, doc : Docs \cup {None}]

Thread == [kind : {"none", "scan", "ingest", "index"}, id : Ids \cup {None}, live : BOOLEAN,
           at : {"none", "load", "open", "dump", "return", "read", "convert", "parse",
                 "purge", "upsert", "others"},
           seen : Registry \cup {None}, found : SUBSET Docs, doc : Docs \cup {None}]

\* Every variable keeps its type (count only bounds the model).
TypeOK ==
  /\ folder \in [Paths -> Contents \cup {None}]
  /\ registry \in Registry \cup {Torn, Mixed}
  /\ scan \in [at : {"idle", "scanning", "dispatching"}, attempts : Nat, todo : SUBSET Docs]
  /\ flows \in [Ids -> Flow]
  /\ thread \in [Pool -> Thread]
  /\ converted \in [Docs -> {"none", "torn", "whole"}] /\ dense \subseteq Docs /\ attached \in BOOLEAN
  /\ replay \in [todo : SUBSET Ids, id : Ids \cup {None}]
  /\ latest \in [Docs -> {"none", "running", "cut", "empty", "indexed", "local"}]
  /\ overlapped \subseteq Docs
  /\ lost \subseteq Contents /\ dropped \subseteq Contents

\* However many attempts raised, timed out or died before it, after an attempt
\* that succeeded the document's points are there, unless two threads had
\* indexed it at once (chunk_and_index purges and then upserts).
LastSuccessStands == \A d \in Docs : latest[d] = "indexed" /\ d \notin overlapped => d \in dense

\* When no scan is under way, what the registry claims was dispatched, unless it was
\* found by an attempt that timed out or died (scan_directory claims before it returns)
\* or left by a scan that met an open run.  Attempts given up may still be going on.
ClaimedIsDispatched ==
  scan.at = "idle" => \A c \in Contents : Loaded[c] # None => Dispatched(c) \/ c \in dropped

\* "so a concurrent/overlapping scan never dispatches it twice": beside attempts that
\* go on after their time, a file's run that ended is not started again by a scan, as
\* long as its claim was saved, no scan read the registry while it was being written,
\* and no attempt given up wrote over it what it had read before.
DispatchedOnce ==
  [][\A c \in Contents :
       flows[<<c, 0>>].status \in {"completed", "failed"} /\ c \notin lost =>
         flows'[<<c, 0>>] = flows[<<c, 0>>]]_vars
-----------------------------------------------------------------------------
(* The inductive invariant *)

\* Where a thread is fits what it does, and it has what it needs there.
Fits(r) ==
  /\ r.kind = "none" <=> r.at = "none"
  /\ r.kind = "none" => ~r.live
  /\ r.kind = "scan" <=> r.at \in {"load", "open", "dump", "return"}
  /\ r.kind = "ingest" <=> r.at \in {"read", "convert", "parse"}
  /\ r.kind = "index" <=> r.at \in {"purge", "upsert", "others"}
  /\ r.kind = "scan" => r.id = None
  /\ r.kind \in {"ingest", "index"} => r.id \in Ids
  /\ r.at \in {"open", "dump", "return"} => r.seen \in Registry
  /\ r.at \in {"convert", "parse", "purge", "upsert", "others"} => r.doc \in Docs

ThreadInv == \A t \in Pool : Fits(thread[t])

FlowInv == \A i \in Ids :
  /\ flows[i].step = "index" => flows[i].doc \in Docs
  /\ flows[i].status = "running" => flows[i].path \in Paths

\* An attempt is for a run with a file; the one whose result is awaited is the
\* only one of its run, which is open.
LiveInv ==
  /\ \A t \in Pool : thread[t].kind \in {"ingest", "index"} => flows[thread[t].id].path \in Paths
  /\ \A t \in Pool : thread[t].live =>
       IF thread[t].kind = "scan" THEN scan.at = "scanning" ELSE flows[thread[t].id].status = "running"
  /\ \A t, u \in Pool : thread[t].live /\ thread[u].live /\ thread[t].id = thread[u].id => t = u

CoreInv == TypeOK /\ ThreadInv /\ FlowInv /\ LiveInv

\* Who indexes a document alone finds nobody's success, and leaves its points there.
IndexInv ==
  /\ \A t \in Pool : thread[t].kind = "index" /\ thread[t].doc \notin overlapped =>
       /\ \A u \in Pool \ {t} : ~(thread[u].kind = "index" /\ thread[u].doc = thread[t].doc)
       /\ latest[thread[t].doc] # "indexed"
       /\ thread[t].at = "others" /\ attached /\ thread[t].doc[2] \notin Blank => thread[t].doc \in dense
  /\ LastSuccessStands

\* Some attempt whose result is awaited has found it and will return it.
Coming(c) == \E t \in Pool :
  thread[t].live /\ thread[t].at \in {"open", "dump", "return"} /\ c \in ContentsOf(thread[t].found)

\* What becomes of a claim.
Accounted(c) == Dispatched(c) \/ c \in dropped \/ c \in ContentsOf(scan.todo) \/ Coming(c)

\* Every claim that is saved, or that an attempt is about to save, is accounted for.
ClaimInv ==
  /\ registry \in Registry => \A c \in Contents : registry[c] # None => Accounted(c)
  /\ \A t \in Pool : thread[t].at \in {"open", "dump", "return"} =>
       \A c \in Contents : thread[t].seen[c] # None => Accounted(c)
  /\ \A t \in Pool : thread[t].at \in {"open", "dump", "return"} /\ ~thread[t].live =>
       ContentsOf(thread[t].found) \subseteq dropped
  /\ scan.todo # {} => scan.at = "dispatching"

\* Files found are of different contents, none dispatched before but those lost.
NewInv(ds) ==
  /\ \A d \in ds : ~Dispatched(d[2]) \/ d[2] \in lost
  /\ \A d, e \in ds : d[2] = e[2] => d = e

\* As long as a claim is not lost it is in the registry, whenever that parses, once the
\* file is dispatched or about to be; and the scan that is under way has read it.
KeptInv ==
  /\ registry \in Registry => \A c \in Contents \ lost :
       Dispatched(c) \/ InHand(c) => registry[c] # None
  /\ \A t \in Pool : thread[t].live /\ thread[t].at \in {"open", "dump", "return"} =>
       /\ NewInv(thread[t].found)
       /\ \A c \in Contents \ lost :
            Dispatched(c) \/ c \in ContentsOf(thread[t].found) => thread[t].seen[c] # None
  /\ NewInv(scan.todo)

ScanInv == ClaimInv /\ KeptInv

IInv == CoreInv /\ IndexInv /\ ScanInv
=============================================================================
