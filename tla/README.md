# Verification of the hybrid RAG platform

This directory holds TLA+ models of the platform's back end (`services/`), the TLC
configurations that check them on small instances, and TLAPS proofs of the properties that
matter most. Section 1 is the inventory of the system, section 2 the plan and its state,
section 3 describes each module, section 4 the runs, section 5 the proofs, section 6 what is
not modelled. `PROJECT.json` gives, for each definition, the lines of the source it models.

## 1. Inventory

The platform answers questions over a user's documents. One FastAPI gateway process
(`services/gateway/api.py`) serves every route on a pool of request threads and owns the
in-process indexes. A separate Temporal worker process (`services/scheduling`) watches a
directory and indexes what it finds. Redis holds sessions, conversations, connectors, jobs and
telemetry; Qdrant the dense vectors; Neo4j, and a NetworkX graph saved to disk, the entity graph;
Postgres (or memory) users, workspaces, document ownership and shares. The Flutter client polls.

| Component | State | Operations | Interacts with | Hard behaviour | What makes it correct |
|---|---|---|---|---|---|
| Ingest jobs (`ingestion/jobs.py`, ingest routes) | job hash in Redis, memory fallback, thread pool, runner id | create, run with stage reports, list, dismiss | index, identity, sessions | reports race with polls; restart mid-job; Redis outage between two calls | done means every document is owned, indexed and attached; a dead runner's job is failed, a living one's never; every job ends |
| Sparse index (`indexing/bm25_store.py`) | corpus list and retriever per process, two files | index, remove, reload, search | gateway routes, connectors, worker | no lock inside; two processes write one directory; a reload empties the corpus while a write runs | an indexed document stays indexed; hits name the chunk that matched |
| Web connectors (`connectors/web`) | connector, pages, doc index, lock with TTL in Redis; ownership rows | create, update, queue, sync, delete, scheduler tick | index, identity, sessions | delete or update during a sync; lock expiry; crash mid-sync; several owners of one content | a document someone owns is searchable; an unowned one is dropped; a sync always ends |
| Web crawler, extractor | frontier, robots rules, seen set | breadth-first crawl under a scope | connectors, ingest of a URL | page cap, redirects, depth | within scope, each page once, `complete` only when nothing was cut |
| Sessions and conversations (`session/manager.py`) | project, conversation and message records in Redis | open, append, attach, detach, update, new, rename, delete | chat, jobs, connectors, sharing | read-modify-write of whole records by concurrent requests; claim of the default conversation across processes | no message is lost or doubled; one default conversation; served one by one it is what a user expects |
| Identity, workspaces and access (`identity/`, routes) | workspaces, members, owned documents, grants | create, invite, promote, remove, delete, attach | every route | routes check first and write later, one statement at a time | nobody but the creator owns; nothing survives in a deleted workspace |
| Sharing (`sharing/`) | shares, frozen snapshots, grants | share, fork, revoke | sessions, access | a fork during a revocation; passing on what was received | a grant comes from a fork of a live share, on what its publisher had |
| Chat pipeline (`gateway/chat_pipeline.py`) | per-turn state | search, rerank, generate, record | retrieval, sessions, telemetry | degraded backends, a prompt longer than the window, a client that leaves | an answer is grounded in evidence or refused; the question reaches the model |
| Retrieval (`retrieval/`) | none | fusion, rerank, corrective loop, compaction | indexes, graph | degraded models, loop bounds, token budgets | scope never widens; the loop ends; the evidence fits |
| Scheduled ingestion (`scheduling/`) | registry file, Temporal workflows, dense points | scan, dispatch, ingest, index, replay | index | crash between claim and dispatch; timeouts with the activity still running; replay | every claimed file is dispatched once; after a success the points are there |
| Entity graph (`graph/`) | NetworkX graph per process and a file, Neo4j | extract, index, traverse, save, load, statistics | index, retrieval | two processes on one file, best-effort mirror, reload under a write | provenance is real; an answer stays in the project's documents |
| Ingestion parsers (`ingestion/`) | none | probe, parse to blocks | jobs, connectors, worker | three parsers and their fallbacks | what is on the paper is in the blocks |
| Chunker (`indexing/chunker.py`) | one pass over the blocks | split texts and tables, breadcrumbs, overlap | index | words and rows longer than a chunk, page and section boundaries | no text is lost but the ends of rows too long for a chunk; each chunk is cited with its page and its headings, and fits |
| Telemetry (`telemetry/tracker.py`) | rolling history and totals under a lock, lists in Redis | record, metrics view | chat, metrics route | the lock held across reads of Redis; hydration after a restart | every call ends; no query counted twice |
| Dense index (`indexing/qdrant_store.py`) | points in Qdrant | purge, upsert, search, settings | index, worker | purge and upsert are two calls | part of scheduled ingestion and of the chat turn |
| Wiki web indexer, feedback and evaluation, remaining routes, Flutter client, configuration | | | | section 6 | not modelled |

## 2. Plan

The order puts first what loses, hides or discloses a user's documents. Each component gets a
module with its operations as actions, an MC module with the model values, and, where an invariant
matters for every size of the system, a proof module.

| Step | Modules | Composes or refines | State |
|---|---|---|---|
| 1 | `IngestJobs`, `JobLifecycle`, `IngestJobsProofs` | `IngestJobs` implements `JobLifecycle` | modelled, checked, proved |
| 2 | `SparseIndex`, `DocumentSet`, `SparseIndexProofs` | `SparseIndex`, whose callers take turns, implements `DocumentSet` | modelled, checked, proved |
| 3 | `WebConnector`, `WebConnectorProofs` | uses the crawler, the ownership rows and the index | modelled, checked, proved |
| 4 | `Telemetry`, `TelemetryProofs` | called by the chat pipeline | modelled, checked, proved |
| 5 | `Sessions`, `Project`, `SessionsProofs` | one request at a time implements `Project` | modelled, checked, proved |
| 6 | `Access`, `AccessProofs` | identity, sharing and the routes' checks | modelled, checked, proved |
| 7 | `Arranging`, `Passages`, `Retrieval`, `ChatTurn`, `EvidenceProofs` | a turn over the pure functions of `Retrieval`; its writes are in `Sessions` | modelled, checked, proved |
| 8 | `Scheduling`, `SchedulingProofs` | Temporal external; the dense store as its activities use it | modelled, checked, proved |
| 9 | `GraphFacts`, `EntityGraph`, `EvidenceProofs` | the graph in two processes over the extraction and the query | modelled, checked, proved |
| 10 | `Parsing`, `Chunking`, `Ingestion`, `EvidenceProofs` | from a document to its chunks | modelled, checked, proved but for the order and the pieces of `TextIsKept` |

Still open in the modelled components: the linked project's sources and the memory fallback of the
connector store in `WebConnector`; Redis writes whose reply is lost in `IngestJobs`; the memory
fallback in `Sessions`. Every safety property of the runs has a theorem, under the premises it names, except two
conjuncts of `TextIsKept` (section 5).

Steps worth taking next: weaker premises for the theorems about pages, so that a deletion beside a sync of
another connector is in `LockSuffices` too; `Retrieval`'s fusion against a reference definition of its ranks;
and the order of the words in the chunks, which `WordsAreInOrder` states over a fold, stated over places instead.

## 3. The modules

### IngestJobs

`services/ingestion/jobs.py` and the ingest, list and dismiss routes of `gateway/api.py`.

| State | Code |
|---|---|
| `redis`, `memory` | the hash `rag:ingest_jobs`; `IngestJobStore._memory` |
| `redisUp`, `outages` | whether the next Redis call answers |
| `runner` | `RUNNER_ID`, new in every process |
| `pool`, `run` | the executor's queue; per job, its thread and how many documents it owns, has indexed, has attached |
| `handler` | a request that lists or dismisses, with the records it has read |

`Create`, `Submit`, `StartJob` are the route and the pool; `UpdateReads` and `UpdateWrites` are
`IngestJobStore.update`, a read and a write of one record with anything in between; `Fetch`, `Crawl`,
`ParseAndOwn`, `IndexFile`, `AttachFile`, `PageStep`, `WorkRaises` are the body of the job;
`StartList`, `ListSettles`, `ListReturns` the list route, which settles orphans and drops expired
records on the way; `StartDismiss`, `DismissSettles`, `DismissDeletes` the dismissal. `Restart`
kills threads, pool and memory. The two `pop`s of `delete` are one step; a Redis call either takes
effect and answers or does neither; two gateways during a rolling restart are not modelled. The
order, the limit of 50 and the user filter of the list are left out.

`JobLifecycle` is what a client may rely on: a job is queued, begins, succeeds, fails or is interrupted, and is
forgotten only when it ended. A request that read an interrupted job's record before another removed it
writes it back (`jobs.py:108`), so an interrupted job, and no other, may return to the list (`Revive`). The
refinement maps `phase` to what a reader would find and, once the record is gone, to whether the thread was lost.

### SparseIndex

`BM25Store` (`services/indexing/bm25_store.py`) in the gateway and in the Temporal worker.

| State | Code |
|---|---|
| `corpus`, `retriever` | `corpus_chunks` and the BM25 index, per process |
| `disk` | the index files and `chunks_metadata.json`: missing, torn (opened, not dumped) or whole |
| `call` | per caller, the statement of `index` or `remove_document` it is at and its locals |
| `lock` | `_index_lock` in `api.py`, taken by the upload routes and by nobody else |
| `reloading` | the statement of `_periodic_store_reload` |
| `search` | a search between ranking and reading |
| `acked` | history: documents whose `index` returned and that were not removed since |

`index` goes statement by statement: purge, assign, append, rebuild, save the retriever, open and dump the
metadata. Callers are routes (under the lock), connectors (without it) and the worker (another
process). `TurnsTaken` is what nothing in the code enforces and the promises need: a call, a reload or a restart
begins when no call is amid its reading and writing, and a process writes only what it has loaded since the other
wrote. `Apart` is a bound: with it, only behaviours of `TurnsTaken` are looked at. A document has one chunk; saving the retriever is one step; a start of a process loads in one step.
`DocumentSet` is a set with insertion and removal.

### WebConnector

`services/connectors/web/`: router, service, store and, for the frontier, crawler.

| State | Code |
|---|---|
| `site` | the website, which changes (external) |
| `conn`, `pages`, `lock` | the connector's record, its pages, and its lock with a time to live, in Redis |
| `own`, `entry`, `index` | ownership rows; the library's entry of a web page; the indexed documents |
| `th` | per thread: request, background sync or scheduler loop, with everything it has read; of a crawl, `queued`, `frontier`, `seen` (contents), and of the new pages which there are (`done`) and their documents (`new`) |
| `life` | history: created, deletion returned |

A request is `Create`, `Post` (sync now), `Edit` and `SaveEdit` (PATCH reads, then writes), `Delete`
and `Erase`; the loop is `Tick` and `TakeDue`. A sync runs `Get`, `Acquire`, `Run`, `ReadPages`, then
per page `Fetch`, `Index`, `Own`; `CrawlEnds` computes what to retire; `Disown`, `CountOwners` and
`Drop` are `retire`, `ReplacePages`, `Finish`, `Release` the end, `Fail` the error path.
A document is a page and a content. All connectors crawl one site. The frontier's order is free;
`Caps` are the counts at which `max_pages` may cut the crawl. A page is fetched by the address in the queue, and
what comes of it is recorded under the address where its redirects end (`Lands`), so two fetches may write one
record; a page whose content this crawl has seen is skipped, under the first address and without its links, as are
pages that fail, are no text or name another as canonical ("bad"). A page may have too little text for a document
("thin") or be so deep that its links are left ("deep"). Redirects do not change, and end where a request ends
without one. A connector is due at any time. A failure of `chunk_and_index` leaves nothing indexed. Left out: the
fallback of the store to memory, `_sync_project`, the renderer, the pages of a sitemap, which join the queue at its
start, those robots.txt forbids, which do not count as fetched, and that a PDF is never compared with what was seen.

### Telemetry

`services/telemetry/tracker.py`, with its callers in the chat pipeline and the metrics route.

| State | Code |
|---|---|
| `history`, `queries` | the deque and `_total_queries`, in memory |
| `kept`, `total`, `lists` | `rag:telemetry:history`, `:total_queries` and `:session:*` in Redis |
| `mu` | the tracker's lock `_mu`, a `threading.Lock` |
| `th` | per request thread, a recording or a view |

`Record`, `AppendRecord`, `PushHistory`, `IncrTotal`, `PushList` are `record_query`; each push and
its `ltrim` are one step, and any call of Redis may raise, which ends the recording. `View`, `Enter`,
`Scan`, `Scanned`, `Leave` are a scoped view, `SyncWithRedis` and `SyncFails` what an admin's view does
when memory is empty. `relock` is the second `with self._mu`: the lock is not reentrant, so no step
leaves it. Left out: averages, and `load_session_telemetry` of the evaluation.

### Sessions

One project of `services/session/manager.py`, with the turn of `ChatPipeline.run` that writes to it.

| State | Code |
|---|---|
| `meta` | the project's record in `rag:sessions:meta` |
| `convs`, `msgs` | per conversation, its record and its list of messages |
| `legacy` | the flat history from before conversations |
| `claim`, `lock` | `default_conv_claim`, with its expiry, and each process's `_default_conv_lock` |
| `th`, `where` | per request, the statement it is at and what it has read; the process that serves it |
| `seen` | history, for the properties |

`Begin` reads the project for the route. `LookForDefault`, `TakeLock`, `RecheckDefault`, `ReadLegacy`,
`CopyLegacy`, `Claim`, `WaitForWinner`, `SaveDefault` are `_resolve_default_conversation` and its
migration; `CheckModel`, `RejectModel`, `PushMessage`, `FindConversation`, `BumpConversation`, `FindMeta`, `BumpMeta`,
`Generate`, `Refuse` a turn, which is rejected for an unknown model or pushes the question, is answered, refused or left by the client, records its telemetry and pushes the
answer; `Update` is attach, detach and PATCH, each writing back the whole record it read; `ListForStamp` and
`Stamp` the stamping of workspaces; the rest creates, renames and deletes. `serial` is chosen at
the start: with it requests are served one at a time. `Project` is what such a user is promised: each of its
steps needs somebody to ask for it, which is its variable `asked`, mapped to the requests being served.
Redis answers; the memory fallback of the manager and the order of the lists are left out.

### Access

The tables of `services/identity/store.py`, `sharing/service.py`, `identity/access.py`, `identity/migrate.py` and
the workspace, project, document and share routes of the gateway.

| State | Code |
|---|---|
| `spaces`, `members`, `spaceDocs` | workspaces with their owner, `workspace_members`, `workspace_documents` |
| `owned`, `shares`, `grants` | `user_documents`, `shares`, `doc_grants` |
| `projects` | owner, workspace, documents and origin of each project |
| `req` | a request that has passed its checks and has writes left |
| `had`, `forks` | history: the documents each user ever had a row for; who forked which share |

Each `Ask...` is the checks of one route; the writes that follow are one statement each
(`InsertSpace`, `InsertMember`, `UpdateRole`, ..., `MarkRevoked`, `DropGrants`), as the connections are
in autocommit. `Keys` are the foreign keys, which the in-memory store (`InMemory`) does not have.
`Accessible`, `Visible`, `Resolve` are `accessible_doc_ids`, `workspace_session` and `resolve_scope`.
`AskBackfill` is `services.identity.migrate` run for one user, with the gateway up or not: it makes a
personal workspace (`InsertSpace`, `InsertFounder`) if there is none, lists the projects without one
(`ListUnstamped`), and stamps each with the record it had read (`SaveStamped`). `RemoveDocument` is a connector
that retires a page's document. `Visible` includes the gateway's "default" project, which falls back to any project of the
user. Reading and writing one project's record is one step here, as is done in `Sessions` step by step. Accounts and
tokens are left out: who a request comes from is known.

### Arranging and Passages

`Arranging` is the sequences the other modules are made of, stated so that they can be proved about: `Among` and
`Arranged`, the elements at some places, in an order of the places; `Sums`, running sums as a function on the length; `Least`
and `Most`. `Passages` is the chunks of the index, each of one document, which a turn and the entity graph cite. They model
no file of their own.

### Retrieval and ChatTurn

`Retrieval` holds what is computed: fusion (`rrf.py`), scope and overview chunks (`service.py`,
`bm25_store.py`), calibration, duplicates and the cutoff (`reranker.py`), merging and the
assessment (`agentic.py`, `crag.py`), the packing into a budget (`compactor.py`), and the sizing and
cutting of the prompt (`chat_pipeline.py`). Scores are in units of 1/10000, as the code rounds to four
digits; texts are the words, terms, signatures and gists that are asked of them. A stable sort or a filter
is `Arranged`: the elements at some places, in an order of the places (`BestFirst`, `InTurn`); running sums and
the packing are functions on the length of what was taken. So stated they can be proved about (section 5).

`ChatTurn` is one turn over these: `pc` is where `ChatPipeline.run` is, `ask` the question (its mode,
whether it is broad, its terms, the documents of the project), `hops`, `corrected`, `pool` the agentic
loop, `found` and `cands` the candidates, `crag`, `relations`, `evidence` and `prompt` what came of
it. `Compact` and `CompactPlan` pack the evidence of a plain and of an agentic turn. What the stores find (`DenseFinds`, `SparseFinds`), what the cross-encoder scores (or that it fails), into how many hops the
model decomposes, whether the graph has relations and whether Ollama fails are choices. Citations,
badges and the texts of the prompt are left out.

### Scheduling

`services/scheduling/`, `ingestion/normalize.py` and the dense store as the activities use them.
Temporal is external: it starts attempts, times them out while their thread runs on, retries them up to
the policy, and allows one open run of an id.

| State | Code |
|---|---|
| `folder`, `registry` | the watched directory; the registry file, `Torn` from `open` to the end of `dump`, `Mixed` when two attempts wrote it at once |
| `scan`, `flows` | the scan workflow; the ingest workflows, by content and replay |
| `thread` | per pool thread of the worker, the statement of `scan_directory`, `ingest_document` or `index_document` |
| `converted`, `dense`, `attached` | PDFs made of other formats; documents with points; whether the worker's store found Qdrant |
| `replay` | the gateway's replay of failed runs |
| `latest`, `overlapped` | history: the last attempt on a document, the documents two threads indexed at once |
| `lost`, `dropped` | history: contents whose claim the registry did not keep, or a scan could not read; contents found by an attempt that was given up, or left by a scan that met an open run |

`live` marks the thread whose result the workflow still waits for; one that timed out goes on, and saves what it
had read, at any later time. `Timeout`, `Raise`, `Restart` are
the faults. Heartbeats, schedules and the sparse and graph writes of the worker (see `SparseIndex`,
`EntityGraph`) are left out.

### GraphFacts and EntityGraph

`GraphFacts` computes: what a chunk states (`graph/extractor.py`), how a multigraph merges it
(`store.py`), what Neo4j keeps of it (`neo4j_store.py`), and the queries and statistics
(`traversal.py`). `EntityGraph` runs it in two processes: `mirror` is each one's memory, `disk` the file,
`neo` Neo4j, `connected` whether a process found Neo4j, `call` and `reload` the statements of an indexing and of
the minute's reload. `kept` is history. Weights and descriptions are what the extractor gives;
names are numbers in the order of its vocabulary.

### Parsing, Chunking and Ingestion

`Parsing` is what Docling, the two PyMuPDF parsers and OCR make of a document whose elements are known. PyMuPDF may miss any table
or image, as its search for those of a page may fail before or after any of them (`Findings`); the words of a table that was missed
are read as text. An element has one page, the one the code takes for it: the first region of a Docling item over several.
`Chunking` is `split_text_recursive`, `split_large_table` and the overlap of `chunker.py`, over words and
lines with their estimated sizes. A word's is in tokens. A line's is in parts of a token (380 to one, 100 to a character of a line of long words, 247 of
one of single letters, for the 3.8 characters and 1 / 1.3 words of `estimate_tokens`), because the code rounds each row by itself (`Reckoned`), cuts rows
and tables by their characters (`Fitted`, `CutOff`), and the part is then larger than the sum. The breadcrumb and the text behind it are estimated together
in the code and apart here, a token less at most, which the slack of 8 covers. `Ingestion` is `IngestionService.parse` and `chunk_blocks`: `route`,
`blocks`, then block by block `stack`, `accum`, `page` and the `chunks`. A word has an identity, so that it can be
followed to the chunks. Bounding boxes, figures' files and the counts in the metadata are left out.

## 4. The runs

| Run | Instance | Shows |
|---|---|---|
| `ingest_jobs` | 1 job of up to 2 pages, 2 request threads, 1 pool thread, 1 restart, 1 outage | `DoneMeansAttached`, `PollReportsTheLiving`, `ImplementsLifecycle`, `NeverSpins` |
| `sparse_serial` | 3 documents, 2 routes, 1 connector, the worker, 1 search, reloads, 5 calls, 2 restarts, `Apart` | `ImplementsDocumentSet`, `AlignedWhenQuiet` |
| `sparse_ends` | 2 documents, 2 routes, 1 connector, the worker, reloads, 2 calls, 1 restart | `CallsEnd` |
| `web_serial` | 2 owners with a connector each, 3 pages of which one redirects to another, 2 contents, 1 change of the site, 3 requests one after the other, faults "bad", "thin", "index" | `PagesAreReadable`, `LibraryFollowsPages`, `UnownedIsDropped` |
| `web_ends` | 1 connector, 3 pages of which one redirects, 1 request thread and a loop, 1 sync requested besides the first, a page cap, every fault, 1 expiry, 1 restart | `OneSyncAtATime`, `UnreachedIsKept`, `ThreadsEnd` |
| `telemetry_views` | 3 queries of 2 sessions, one of them refused, 2 threads, 2 views, failing calls, 1 restart, history of 2 | `OnlyForgottenBlocks`, `NoRecordTwice`, `FreshCallsEnd` |
| `sessions_races` | 2 requests of any kind on one project, in one process or two, from a project with only the flat history and one with 2 conversations | `MessagesStay`, `AnswersFollowQuestions`, `OneDefault`, `RequestsEnd`, `ServedOneByOne` |
| `access_routes` | 2 users, 1 document, 1 workspace, 2 projects, 1 share, 2 requests at a time, 7 in all | `OneOwner`, `DeadSpacesAreEmpty`, `GrantsComeFromForks`, `CreatorStays` |
| `chat_turns` | 4 chunks of 2 documents, 2 found and 2 kept a search, 2 hops, a budget of 256 tokens | `ScopeHolds`, `AnswersAreGrounded`, `EvidenceFits`, `QuestionKept`, `TurnsEnd` |
| `scheduled` | 2 files, 3 contents (a PDF, a text, an empty one), 2 threads, 2 attempts, 2 scans, 1 replay call, 1 fault | `LastSuccessStands`, `ClaimedIsDispatched`, `DispatchedOnce` |
| `graph_answers` | 3 names, 2 documents that share a triple, a route and the worker, 3 calls, 1 reload, 1 fault | `ProvenanceIsReal`, `EvidenceIsKept`, `AnswersStayInScope` |
| `chunks` | documents of 2 elements of any kind, 3 of the body's, 4 of the outline's, 3 layouts, every parser; chunks of 40 tokens, overlap of 8 | `TextIsKept`, `OnePage`, `HeadingsAreCurrent`, `ChunksFit` |

What each property says is in the comment above it. Three refine an abstract specification:
`ImplementsLifecycle` (`JobLifecycle`, with its liveness), `ImplementsDocumentSet` (`DocumentSet`) and
`ServedOneByOne` (`Project`, for requests that are served one at a time).

**Bounds.** Two concurrent requests are enough for every race between a read and a write of one
record, since shared state is per job, document, connector or project; the second document, owner or
project is there where two of them compete. The restart and the outage of a job may fall between any two
steps of its thread and of two overlapping requests; the proofs cover more of both. Two pages separate what a crawl reached
from what it did not, two contents an unchanged page from a changed one. A history of 2 with 3
queries overflows the deque, and a scope of 1 record truncates a session's list. Two looks of a loser of
the claim stand for 20: what matters is the look that finds nothing and the last one. Four conversations (`MaxConvs`) are
the two of the start and one per request, so that no request is held back for want of a number. Seven requests
of the access routes make a workspace with a member and a document, share it, fork it, and delete or revoke any of it while a
request is under way. With 2 hops and a corrective one, results are merged three times; the raw
scores are below, between and above every threshold of the code, and the passages are long enough to
be kept, cut and dropped. Two attempts are one that is retried and one that exhausts the policy, and one fault is a
timeout or a restart at any point. With chunks of 40 tokens the texts, tables, words and rows of the `chunks` run are each too long for
one, as those of 512 are for pages of print; four headings nest, repeat and skip levels in every order. Of the tables one has rows of all lengths, one rows of short numbers that are more than they are
counted, two a head that fills a chunk (of long words and of short), and one no more than two lines.

The runs are bounded and the model stops when requests are used up, so deadlock is checked only in
`chat_turns`, where an ended turn stutters; elsewhere "nobody waits for ever" is the liveness property of the run.
Symmetry is used only in runs without liveness, over pool threads, requests, users, projects, documents and the like that no constant tells apart.

**Fairness.**
- `IngestJobs`: weak fairness of pool threads, of handlers that have begun; strong fairness of the
  start of a poll, as the Flutter client polls every 1.5 s while it sees an unfinished job
  (`project_providers.dart`).
- `SparseIndex`: weak fairness of a call that has begun and of the reload timer; strong fairness of
  taking `_index_lock`, since releasing wakes one of the waiters.
- `WebConnector`: weak fairness of every thread that is in a request and of a lock's expiry, which
  Redis guarantees. Nobody has to send a request.
- `Telemetry`: weak fairness of every thread. Calls are bounded, so a thread that waits for the lock is
  eventually the only one that wants it.
- `Sessions`: weak fairness of each request's thread. The claim need not expire and the client need not
  leave. Two requests cannot starve each other of the lock.
- `ChatTurn`, `Scheduling`, `EntityGraph`, `Ingestion`, `Access`: none. That a turn ends is shown without
  it: `TurnsEnd` says each step leaves fewer calls to make.

### Where the properties stop

A property that holds in a run may fail outside its bounds or without its premise, because the
code fails there. These cases were found with the same modules and other constants, or while translating.

Ingest jobs:
- `NeverSpins` after an outage: an update read from Redis and written to memory leaves the record in
  Redis unfinished (`jobs.py:94`), though the docstring promises otherwise (`jobs.py:5`).
- A poll that read an interrupted job before a dismissal of it puts it back
  (`jobs.py:108`; the route "Clears a finished job from the list", `api.py:1220`). `JobLifecycle` allows
  that for an interrupted job (`Revive`), so `ImplementsLifecycle` shows no job returns otherwise.

Sparse index (each is a behaviour without `TurnsTaken`):
- A route and a connector at once leave a document twice: the connector does not take `_index_lock`,
  and both purge before either appends (`bm25_store.py:60`).
- `reload()` empties the corpus under a route that then persists it (`bm25_store.py:46`).
- Gateway and worker each dump their whole corpus over one file and the worker never reloads: of two
  documents only the second writer's is in the files (`bm25_store.py:95`, `api.py:347`).
- A search ranks with one retriever and reads the chunks of another corpus (`bm25_store.py:163`).

Website connectors:
- `PagesAreReadable` with two connectors of one owner on one page: `retire()` deletes the owner's row
  without looking whether another connector shows it (`service.py:100`). It also stops after a crash between
  retiring and `replace_pages`.
- A complete crawl (`crawler.py:208`) is one that has asked for every address it found, not one that got them: when
  the start page fails nothing else is queued and every page is retired, though `service.py:5` says it takes a
  complete crawl to miss a page. `UnreachedIsKept` says what "complete" guarantees and no more.
- `LibraryFollowsPages` is about pages to which no other redirects. When a link leads to a page and another address
  redirects there (a start address and the language it lands on), the first fetch owns the document under the final
  address, the second is "same content" (`crawler.py:198`) and its record, without a document, replaces the first's
  (`service.py:191`): the document stays in the library and no connector shows it.
- Two owners at once: `retire` counts no owners, another's sync owns the document, `retire` drops it
  (`service.py:102`); the library entry goes with the first that retires (`service.py:101`).
- A deletion beside a sync: the sync's last save brings the record back (`service.py:212`).
- A sync queued while the lock is still held is refused and stays queued (`service.py:227`); one that dies
  leaves "running" (`service.py:165`), and PATCH and the scheduler write back records they read before
  (`router.py:148`). After that the route answers 409 and the loop skips the connector.
- `OneSyncAtATime` after an expiry: a sync that outlives its lock deletes the next one's (`store.py:184`).
- `UnownedIsDropped` with the faults "own" or "retire" or a restart: nothing collects what a dying
  sync leaves.

Telemetry:
- After a restart an admin's metrics request finds memory empty, holds `_mu`, finds records in Redis and
  takes `_mu` again (`tracker.py:46`, `:53`). It never returns, and neither does any turn after it.
- Hydrating a session appends its old records behind newer ones (`tracker.py:120`) and counts none of them;
  refusals are recorded without Redis (`chat_pipeline.py:279`), so a restart forgets them.

Sessions:
- Requests side by side lose each other's attachments, counts and titles (`manager.py:475`), both delete
  one of the last two conversations (`manager.py:345`), and a turn brings back the record of a deleted project
  (`manager.py:406`). `ServedOneByOne` therefore has its premise; `MessagesStay`, `AnswersFollowQuestions` and
  `OneDefault` hold without it.
- `OneDefault` names three ways out: the waiter gives up after its looks, the claim expires under its
  holder, deletions race.

Access and sharing:
- A member can be given the creator's row: `add_member` overwrites the role of an existing member,
  the creator's too (`api.py:1485`), where changing a role refuses to (`api.py:1500`).
- A fork that checked before a revocation writes its grants after the revocation deleted the others
  (`sharing/service.py`): the rows stay in `doc_grants`, and give nothing, since `granted_doc_ids` joins the shares.
- `workspace_documents` "Mirrors ChatSession.files" (`003_workspaces.sql:22`), but detaching, PATCH, deleting and
  creating a project leave it as it is.
- A deleted workspace's projects are "unreadable until reassigned" by its docstring; their owner still opens them.

The chat turn:
- An ambiguous assessment of a question of stop words only has nothing to ask again and goes on
  (`agentic.py:237`): the exception in `AnswersAreGrounded`.
- Without the cross-encoder overview chunks stand behind the fused ones, so the first score need not
  be the highest; a raw score under 0.05 is lifted by its rank and may pass the cutoff, where one between 0.05 and
  0.15 is refused.
- When nothing fits the budget, all passages go in whole (`chat_pipeline.py:236`): the exception in `EvidenceFits`.
- `_num_ctx` reserves 320 tokens and `fit_prompt` 350, so a prompt that just fits is cut.

Scheduled ingestion:
- A scan that claimed files and was lost before it returned leaves them claimed and never dispatched
  (`activities.py:82`), and so does a scan that meets an open run and fails (`workflows.py:69`): the exception `dropped` in `ClaimedIsDispatched`.
- "so a concurrent/overlapping scan never dispatches it twice" (`activities.py:63`) holds as long as the registry
  keeps the claim. An attempt that timed out and saves late writes what it read before, over claims that newer
  attempts made since; those files are dispatched again. So are those whose claim could not be saved
  (`registry.py:43`), and all of them after a scan that read the file while it was being written
  (`registry.py:32`). `lost` names these contents one by one, and `DispatchedOnce` holds for all others, overlapping attempts included.
- A failed replay cannot be replayed, its id has no hash of its own; replaying all replays again what was replayed
  (`client.py:97`).
- A conversion cut short counts as converted, so every retry fails.
- A worker that starts without Qdrant indexes into its own memory and reports success ("local" in `latest`).
- A file replaced between scan and ingest is indexed under the run of the old hash.

Entity graph:
- The two processes write the whole of `knowledge_graph.json` and lose each other's facts, and a reload
  drops what is not yet saved: `EvidenceIsKept` is about what a process indexed since it last loaded.
- Neo4j keeps the first document of an entity and relation only, and relates all predicates with "_"
  as `RELATED_TO`.
- A query drops a triple it has seen before it looks whose document states it (`traversal.py:71`, `:117`),
  and reports some relations of a path the wrong way round (`traversal.py:91`).
- An entity of an answer may carry the document, page and box of a mention outside the scope, and the
  scoped statistics count relations of other documents.

Chunks:
- After a skipped level the stack keeps a heading of the same depth (`chunker.py:312`, "Pop headings of
  same or deeper level"): H2 A, H3 B, H3 C files C under A, B, C. `HeadingsAreCurrent` is about documents without skips.
- A captioned table of the PyMuPDF path takes its caption for the header (`multimodal.py:90`,
  `chunker.py:168`), so later parts lose the names of the columns.
- A row longer than the room beside its head is cut to three characters a token of it and " ... |" (`chunker.py:187`): its
  end is in no chunk, and what is left may still pass the room, as `estimate_tokens` counts words too. `RowsAreWhole`
  promises the rows that fit; of a longer one `WordsAreKept` promises that something is there.
- A table whose head fills its budget is cut off after three characters a token of the budget, often inside the head
  (`chunker.py:181`), and its rows are lost: `TextIsKept` and `NothingIsLost` leave out tables whose head takes half a chunk.
- The rows of a part are counted one by one, each rounded down (`chunker.py:190`): 81 rows `| 1 | 2 |` make a part
  of about 539 tokens, over the cap of 512. The overlap a unit is put behind is not counted either (`chunker.py:150`).
  `token_count` is capped at 512 (`chunker.py:326`) and shows neither; `ChunksFit` says by how much a chunk may pass: the overlap
  or the longest word of a text, less than a token for each row of a table.
- Headings with no text under them are in no chunk; two columns are interleaved by the PyMuPDF
  parsers; a Docling item over several regions or pages is cited on the first, whatever its label (`layout.py:127`).

## 5. The proofs

Each proof module EXTENDS its component's and uses the constants' assumption named there
(`JobsAssumption`, `WebAssumption`, `TelemetryAssumption`, `AccessAssumption`,
`SchedulingAssumption`, `SessionsAssumption`, `SparseAssumption`, `PassagesAssumption`, `RetrievalAssumption`, `ChatTurnAssumption`,
`GraphFactsAssumption`, `EntityGraphAssumption`, `ChunkingAssumption`, `IngestionAssumption`), which
types the constants, keeps `None` apart from records, documents and ids, and says that a project has finitely many
documents to choose from and the extractor's vocabulary finitely many names. `ChunkingAssumption` says that a chunk has at least 4 tokens and that what may
stand before its text, with the slack, takes no more than half of them (36 + 3 + 8 of 512 in `chunker.py`);
`IngestionAssumption` that each word of a document belongs to one of its elements and that a heading has a level. What a theorem assumes beyond that is in its statement. The layout is the same everywhere: lemmas for what a helper returns, one lemma per conjunct
of the invariant with one step per action of `Next`, and a theorem that combines them with PTL.

**`IngestJobsProofs`.** `Invariance` proves `IInv`, the conjunction of
- `TypeOK`;
- `ShapeInv`: what a thread has achieved fits the call it is about to report;
- `PoolInv`: the pool holds exactly threads that wait, once each;
- `DoneInv`: every *copy* of a record that says done belongs to a complete job;
- `OwnerInv`: every copy of a job whose thread lives says unfinished and names the living runner, and
  an unfinished copy of a lost job names an earlier one;
- `SnapInv`: what a request is about to settle is not done;
- `InterruptedMeansGone`.

The copies are the point: a record is in Redis, in memory, in a thread's local and in the
snapshots of requests, and each write replaces one of them with another. `DoneMeansAttached` alone is
not inductive because a poll may write a copy it read earlier; quantifying over all copies makes it so.
`DoneIsAttached`, `InterruptedIsGone`, `PollIsTruthful` follow; `FinishedStays` proves the action
property from `IInv` step by step. All hold with any number of outages and restarts.

`StoreKeepsTheLifecycle` is the refinement: every step is one of `JobLifecycle` or leaves every job's
phase as it was. It adds `FirmInv`, which holds until Redis first fails: the record of a job that runs has the
status its thread last reported, what the thread has read to change is what is stored, the record of a thread
that came to its end is finished and not interrupted and that of a lost one unfinished or interrupted (unless
either was removed), an orphaned copy in a request's hands belongs to a lost job, and what a request is about to
delete is finished or gone. So a report writes what it should, a deletion deletes what is finished, and a stale
request can only write "interrupted" over a lost job: `Interrupt`, `Revive` or a stutter, with any number
of requests at once. Once Redis has failed every step is `FallBack`. The liveness half of `ImplementsLifecycle` is only model-checked.

**`SparseIndexProofs`.** `SparseTypes` holds whatever runs. The other two theorems have any callers of both processes,
with any reloads and restarts, and a premise on the behaviour, `[][TurnsTaken]_vars`: none of these begins amid
another's reading and writing, and a process with another beside it writes only what is in the files. The code guarantees
that of the routes among themselves; section 4 shows what each overlap breaks. `TurnInv` then
has `OneInv` (at most one call is amid its writing, and no reload beside it), `FileInv` (no chunk twice, every acknowledged document there),
`StageInv` (how far that call has turned the chunks in the files, which only it may replace, into those it will write:
`Others` of them, with the document behind if it indexes), `FiledInv` and `PairInv` (between calls the files agree, and each memory with itself),
`LoadInv` (what a reload has read) and `HeldInv` (a gateway without a worker holds what is in the files). `NewFacts`, from
`OthersFacts`, says exactly which documents the new sequence has. `SearchFindsWhatWasIndexed` follows.
For `TurnsAreDocumentSet`, `OpenMeta` is the one step that changes what is stored (the mapping counts what is about to be dumped into a
file that is open): it inserts or removes the call's document, and all other steps are stutters.

**`WebConnectorProofs`.** `IInv` is `TypeOK` and, per thread, what it has in hand at each point
(`Shape`). On top of it two invariants are inductive by themselves: `UnownedIsDropped`
(`NothingIsStranded`: for any number of owners, connectors, threads and expiries, provided no sync
dies between two of its steps, that is "own" and "retire" are not among the faults and there is no restart)
and `LockInv`, which gives `OneSyncAtATime` (`LockKeepsApart`) with any faults and restarts; its premise, that
the lock has not expired and the connector is not deleted, is in the property.

The theorems about pages rest on `CrawlInv` (`CrawlsAreOrdered`, without premises): a crawl has each
document under the address where requests for its page end, a page to which no other redirects has a record only
once it was asked for, and every address asked for that is not a redirect has one.
- `UnreachedKept`, without premises: what a sync retires has a record, or the crawl was complete and never found
  its page. That a page which is there is found takes more than the code gives (section 4).
- `LibraryKept`: what a user owns is shown, or in the hands of a sync that will show or retire it (`LibraryInv`),
  where no other page redirects to its page: the record of such a page is not written twice (`FetchKeeps`). It
  takes `[]NoOverlap`, that no two threads are between reading and replacing one connector's pages, and that none dies there.
- `ReadableKept`: the converse, `ShownInv` and `IndexInv`, redirects or not. It also takes `[]NoSharedRetire`, that no
  connector retires a document which another one of its owner shows or is about to, and `[]NoDropRace`, that `retire` drops no document which another thread is just about to own.
- `LockSuffices`: `NoOverlap` is what the lock gives, for any number of requests and loops, if none
  expires under its sync and no deletion runs.

`NoOverlap`, `NoSharedRetire` and `NoDropRace` are premises about behaviours and not assumptions of the model: section 4
has the behaviours that break them, and what is then lost. `web_serial` is an instance in which requests follow one another
and all three hold.

**`TelemetryProofs`.** `IInv` is `TypeOK`, `RecInv` (a recording thread has a query), `LockInv` (a view
holds the lock at every point inside), `SyncInv` (the history a view found empty stays empty, as only
the holder of the lock appends, and the list in Redis that it found something in keeps something) and `FreshInv` (before the first restart, Redis has nothing unless
memory has something). `BlocksOnlyForgotten` says exactly when a view waits for the lock its own thread holds: in a gateway
that was restarted, has neither recorded a query nor read one back since, and finds records in Redis. `SyncInv` gives the
empty history, `FreshInv` that Redis is empty too where no restart came between. It depends on `record_query` writing memory
before Redis. `CountedOnce` needs `SourceInv` (the history and each session's list have a record once, and a list
those of its session) and `PendingInv`: a query that is being recorded has one thread, is in no list yet,
and in the history only after its append. An admin's view fills a history it found empty under the lock, and hydrating a session
appends only what it does not see: neither can meet an append half way.

**`AccessProofs`.** The four properties of `access_routes`, for any numbers of users, workspaces and
concurrent requests, with the database or in memory. A property about the tables is not inductive
alone, since a request writes what it checked some steps earlier; `IInv` therefore carries, for each
request that has writes to do, what of its checks no other request can undo (`StillHolds`, `ReqInv`): a
share's documents were the sharer's, a workspace once seen is not unborn again, the user to be added as owner is the creator. `FreshInv`, `FoundInv` and `UnbornInv` say that a workspace
being made has one founder and nothing in it, which with `CreatorStays` makes `CreatorIsMember`: between the two
statements of `create_workspace` the founder is about to be a member. For `GrantsAreBounded` the histories stand
in for what the tables forget: `HadInv` (a document owned was owned), `PublishedInv` (a share's documents its
publisher once owned, or they are public) and `ForkInv` (who has grants left to write forked that share while it was live).

**`SchedulingProofs`.** `IInv` is `CoreInv` (types, where a thread can be, what a run has, and that the
attempt whose result is awaited is the only one of its run), `IndexInv` (a thread that indexes a
document alone finds nobody's success and leaves the points there) and `ScanInv`, which holds whatever attempts
overlap. Its `ClaimInv` says of every claim in the registry, or in the hands of an attempt, given up or not, what
becomes of it: dispatched, dropped, left to dispatch, or coming from the attempt that is awaited. Its `KeptInv` says
the converse: what was dispatched, or is about to be, and is not `lost`, is claimed in the registry whenever that
parses, and in what the awaited attempt has read. `SuccessStands` and `ClaimsAreDispatched` follow from `IInv`, `StartedOnce` step by
step: only the dispatch of a scan could start a run again, and `KeptInv` says that of what a scan found only lost contents were dispatched. The proofs
hold for any numbers of files, threads, attempts, timeouts, restarts and replays.

**`SessionsProofs`.** Every thread reads a record and writes it back some steps later, so what holds is
not in the records but in the lists, which are only appended to. `IInv` is `TypeOK`; `SeenOK`, the types of
the history; `ThreadsInv`, what a thread has in hand where it stands; `PushInv`: what is in the history of a request is
what its position says it appended, so it appends neither message twice; `ListsInv`: each message of
a list was appended by its request, is in it once, and stays unless the conversation is dropped; and `AnswersFollowQuestions`,
which holds step by step because a thread that generates has its question in the list.
`MessagesAlwaysStay` and `AnswersAlwaysFollow` follow from it. `OneDefaultOnly` adds `OwnInv`: no two
threads on their way to a default made the same conversation; and `ClaimInv`: one that may save it holds the claim under
its own conversation, and after one has saved nobody may, while a thread still to claim finds it taken. `ClaimInv` holds as long
as no loser gave up, no claim ran out and no deletion left the project empty, which the property excepts.
These hold for any requests and processes. The proof of `OneDefaultOnly` never uses the lock of a process:
the second look at the conversations and the claim suffice, the lock spares the waiting.

`OneByOneIsProject` is the refinement of `Project`. Served one at a time, a request that has read a record still has
the record that is stored (`Alone`), a conversation being made is the first, and what a deletion has left to do is
behind a project that is already gone; ids not given out yet have neither record nor list (`FreshInv`).
With `AloneInv` each Redis call of each request either shows nothing or is the one step of `Project` its request asked for:
the push of a message, the save of an attachment, the deletion of the record. The guard that keeps the last
conversation counts conversations, hence the assumption of finite sets and the cardinality lemmas.

**`EvidenceProofs`** is about what an answer rests on: the turn of the chat, the entity graph, and the chunks of a document. The three
components arrange, filter and join sequences, and share the lemmas about those, which come first.

*Sequences.* `Ranks` is the one on which sorting and filtering rest: in a finite set
with a strict total order, each number below the cardinality is the rank of an element; so `ArrangedIs`, and with it `AmongIs`,
`SortedIs` and `InOrderIs`. `NatInduct` is induction over the naturals for a set of them, from the library's theorem
that `<` is well-founded, and `Repeats` the existence of a function defined by recursion; `SumsAre` is proved with them, for
any length, and so is `FlattenHas`, which says what joining sequences keeps.

*A turn of the chat.* One invariant, `TurnInv`, gives all five properties of `chat_turns`, for any corpus, chunks, scores, budget
and number of hops. Its parts:
- `TypeOK`: the candidates, pool, passages and evidence are sequences over the chunks of the asked scope (`In(scope)`), so
  `ScopeIsKept` is a matter of types. What needs proof is that fusion, reranking, merging and packing return
  sequences over what they were given;
- `Control`: where a turn can be in each mode, and that the scope is not empty once retrieval has begun;
- `Passed`: what a turn went through before the model is asked (`AnswersHaveGrounds`): a best score at the cutoff, and for a plan an assessment;
- `EvidenceFits` (`EvidenceIsWithinBudget`) and `QuestionKept` (`QuestionsReachTheModel`), which hold for any passages and prompts.

`TurnsAreFinite` follows from `TypeOK` and `Control`: every step lowers `CallsLeft`, in which a hop counts for two.

The lemmas say what the operators of `Retrieval` return. `PackIs` is by induction on what was packed. `TokensAdd` is the rounding: the tokens of two
texts joined are no more than those of each, each rounded up. So a packer that
adds up estimates never passes the budget with the whole, which `FittingIs`, `RetainedIs` and
`PackIs` need, table by row and passage by sentence.

*The entity graph.* A graph is in the memory of two processes, in the file, in Neo4j, and in the hands of an indexing or a reload that is under way; each
is overwritten by another at some point. `GraphInv` is therefore about every copy at once (`Copies`, `NeoCopies`): its relations are `Stated` by their
chunks, and the chunks of a node mention it. `ProvenanceHolds` follows. The lemmas go by the levels of the code:
`FromSentenceIs` and `RelationsAre`, what is extracted from a chunk; `AddRelationIs` and `WithRelationsIs`, that
adding a relation adds just this one to the edges; `NeoRelationIs` and `NeoRelationsIs`, the same for Neo4j. `EvidenceStays` is
inductive with it: nothing but a load takes a relation from a memory, since `add_edge` finds the copy of this chunk and leaves
those of other chunks alone. `ScopesAreKept` is about the queries (`NeighborsAre`, `PathEdgesAre`, `AnswerIs`, `CountedIs`), for any number of hops.

*A document and its chunks.* `IngestInv` is `IngestType` and three parts:
- `StackIsCurrent`: in a document that skips no level, the stack is the headings in force, one of each level, in order. This is what makes
  cutting the stack to `level - 1` right (`StackRaised`): the entries kept are just the headings above the new one's level;
- `AccumIsGathered`: the text not put out yet is of blocks of one page with no heading after them, so it is put out under the headings it stands under;
- `ChunksAreSound`: each chunk is of its page, ends in a block whose headings it has, and fits.

It needs that the elements of a document stay apart in its blocks (`Apart`, from `ParseIs`, for every parser and fallback): a place
is in one block, and so has one page and one set of headings. `PagesAreTrue`, `HeadingsHold` and `CapHolds` follow. The bound of `CapHolds` is that of `SplitsAre`: a unit
is cut to the budget less the overlap (`UnitsAre`), an overlap is whole sentences of at most 1.3 times what was asked, or
words of which all but the first are less (`OverlapPrefixIs`), and `FillingsFit` carries both through the filling, by induction over the units. `RowFillingsFit` does the same for
the rows of a table, with the row that is repeated: what is kept within the room is the sum of the rounded rows (`Reckoned`), of which each takes
less than a token more (`ReckonedIs`), so `PartSizes` has the rows of the part beside its budget; a row that was cut is alone, or counted with
its size (`FittedIs`), and a table that is cut off has three characters a token (`CutOffIs`).

`KeptInv` adds that nothing is lost without a trace: of every word or row of a block that was read something is in a chunk or gathered, a row that was not cut
is there as it was read, and once a block was read there is something to put out. Cutting at a delimiter of any strength (`FinerKeeps`, `UnitsKeep`), a word cut in pieces (`PiecesKeep`), the overlap (`PutKeeps`,
`FilledKeeps`) and the parts of a table (`RowPacksKeep`, `TablePartsKeep`) keep each place; a table whose head takes
half a chunk is the exception (`Wide`), as `split_large_table` then cuts off the text. `NothingIsLost` is this for three
conjuncts of `TextIsKept`. A row is only cut if it and its head pass the least budget a table can have (`MayBeCut`).

**Only model-checked.** All liveness (`NeverSpins`, `CallsEnd`, `ThreadsEnd`, `FreshCallsEnd`,
`RequestsEnd`), which needs ENABLED and is beyond this prover; the liveness in `ImplementsLifecycle`;
and of `TextIsKept` the conjuncts `WordsAreInOrder` and `WordsAreWhole`, as a first appearance is a fold
and the sizes of the pieces of a word are summed over a set: the library defines both with an operator as a
parameter, so that induction cannot be cited for them. That a fusion or a cutoff ranks *well* is no theorem either: the proofs say what
the operators return and bound, `chat_turns` which passages a turn then keeps.

## 6. Not modelled

- *Wiki web indexer* (`indexing/web_indexer.py`): one more caller of the sparse index without the lock;
  it would add a crawl of one site to `SparseIndex` and no state of its own but its progress.
- *The dense store's fallback inside one process*, and its HNSW settings: an in-memory collection
  behaves as `dense` does in `Scheduling`; the worker's separate memory is modelled there.
- *Feedback and evaluation*: feedback is a write of one record; evaluation computes scores of text.
- *The remaining gateway routes*: health, hardware, models, previews, exports and preferences only read or
  forward.
- *Accounts and tokens*: who a request comes from is known to `Access`; hashing and the login limiter
  are sequential functions.
- *Text and models*: the extraction of web pages, PaddleOCR, prompts, embeddings, rerankers. They
  appear as choices over what may come out of them.
- *External systems*: Redis, Qdrant, Neo4j, Temporal, Ollama, the crawled site. They appear as far as the
  code relies on them: a call that fails, a lock that expires, an attempt that is retried, a page that changes.
- *Client and deployment*: the Flutter client is the fairness of `IngestJobs`; configuration, logging
  and containers have no state that changes.

