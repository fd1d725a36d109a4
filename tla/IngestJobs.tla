----------------------------- MODULE IngestJobs -----------------------------
(***************************************************************************)
(* Background ingest jobs: services/ingestion/jobs.py and the routes of    *)
(* services/gateway/api.py that create, list and dismiss them.             *)
(*                                                                         *)
(* A route stores a job record and hands it to a thread pool; the pool     *)
(* thread reports each stage by reading, copying and writing the record    *)
(* back.  Records live in Redis, or in the process's memory whenever Redis *)
(* does not answer.  Polls and dismissals run on other threads and may     *)
(* write the same record.  A restart of the gateway kills every thread,    *)
(* empties the pool and the memory copy, and changes the runner id.        *)
(***************************************************************************)
EXTENDS Naturals, Sequences, FiniteSets

CONSTANTS
  Jobs,         \* job ids, one per upload or URL a client submits
  Handlers,     \* request threads that serve polls and dismissals
  MaxWorkers,   \* IngestJobRunner's max_workers
  MaxPages,     \* bound: pages one crawl returns (crawl_max_pages)
  MaxRestarts,  \* bound: restarts of the gateway
  MaxOutages    \* bound: times Redis stops answering

ASSUME JobsAssumption ==
  /\ MaxWorkers \in Nat \ {0}
  /\ MaxPages \in Nat \ {0}
  /\ MaxRestarts \in Nat
  /\ MaxOutages \in Nat

VARIABLES
  redisUp,   \* whether the next Redis call succeeds
  outages,   \* how often it stopped (only bounds the model)
  redis,     \* the hash rag:ingest_jobs
  memory,    \* IngestJobStore._memory of the living process
  runner,    \* RUNNER_ID of the living process
  pool,      \* jobs submitted to the thread pool and not yet started
  run,       \* per job, the thread that runs it and what it has achieved
  handler    \* per request thread, the request it serves

store == <<redisUp, outages, redis, memory>>
vars == <<redisUp, outages, redis, memory, runner, pool, run, handler>>

-----------------------------------------------------------------------------
(* Records and the store's operations *)

Unfinished == {"queued", "running"}
Finished == {"done", "failed"}

\* What a thread reports: StageReporter calls, and _run's two last updates.
Calls == {"Starting", "Fetching", "Crawling", "Parsing", "Indexing",
          "Attaching", "Ready", "Failed"}

Runners == 0 .. MaxRestarts

\* One IngestJob; a job the store does not hold has status "absent".  `old`
\* says that updated_at is more than _FINISHED_TTL_S ago.
Record == [status : Unfinished \cup Finished \cup {"absent"},
           stage : Calls \cup {"Queued", "Interrupted"},
           runner : Runners,
           old : BOOLEAN]

Absent == [status |-> "absent", stage |-> "Queued", runner |-> 0, old |-> FALSE]

NewRecord == [status |-> "queued", stage |-> "Queued",
              runner |-> runner, old |-> FALSE]

\* model_copy(update = {..., "updated_at": time.time()})
Touch(r, status, stage) ==
  [r EXCEPT !.status = status, !.stage = stage, !.old = FALSE]

\* The record a reader finds: hget / hvals, or _memory when Redis fails.
Stored(j) == IF redisUp THEN redis[j] ELSE memory[j]

Put(j, r) ==
  IF redisUp
  THEN redis' = [redis EXCEPT ![j] = r] /\ UNCHANGED memory
  ELSE memory' = [memory EXCEPT ![j] = r] /\ UNCHANGED redis

Delete(j) ==
  /\ redis' = IF redisUp THEN [redis EXCEPT ![j] = Absent] ELSE redis
  /\ memory' = [memory EXCEPT ![j] = Absent]

\* Mutation of Orphaned: a job that never left the queue is forgotten.
OrphanedRunningOnly(r) == r.status = "running" /\ r.runner # runner

\* A record of a gateway process that no longer exists.
Orphaned(r) == r.status \in Unfinished /\ r.runner # runner

\* _settle: the record it returns; it writes the record when Orphaned.
Settled(r) == IF Orphaned(r) THEN Touch(r, "failed", "Interrupted") ELSE r

-----------------------------------------------------------------------------
(* Threads *)

Places == {"none", "created", "pending", "reading", "writing", "working",
           "over", "lost"}

\* at, call: where the thread is; read: the record its update() has read;
\* crawl: the job took the multi-page path; pages: documents it is to add;
\* owned, indexed, attached: how many of them it has recorded, indexed, attached.
Run == [at : Places, call : Calls, read : Record, crawl : BOOLEAN,
        pages : 0 .. MaxPages, owned : 0 .. MaxPages,
        indexed : 0 .. MaxPages, attached : 0 .. MaxPages]

NoRun == [at |-> "none", call |-> "Starting", read |-> Absent, crawl |-> FALSE,
          pages |-> 0, owned |-> 0, indexed |-> 0, attached |-> 0]

Active(j) == run[j].at \in {"reading", "writing", "working"}

\* Every document of the job is recorded, indexed and attached.
Complete(j) ==
  run[j].pages > 0 /\ run[j].attached = run[j].pages
    /\ run[j].indexed = run[j].pages /\ run[j].owned = run[j].pages

Ops == {"idle", "list", "settle", "delete"}

\* op: what the thread does next; snap: records it has read; todo: jobs of a
\* list request still to be settled, or the one job a dismissal is about.
Handler == [op : Ops, snap : [Jobs -> Record], todo : SUBSET Jobs]

Idle == [op |-> "idle", snap |-> [j \in Jobs |-> Absent], todo |-> {}]

Init ==
  /\ redisUp = TRUE
  /\ outages = 0
  /\ redis = [j \in Jobs |-> Absent]
  /\ memory = [j \in Jobs |-> Absent]
  /\ runner = 0
  /\ pool = <<>>
  /\ run = [j \in Jobs |-> NoRun]
  /\ handler = [h \in Handlers |-> Idle]

-----------------------------------------------------------------------------
(* create_ingest_job, create_ingest_url_job *)

Create(j) ==
  /\ run[j].at = "none"
  /\ Put(j, NewRecord)
  /\ run' = [run EXCEPT ![j].at = "created"]
  /\ UNCHANGED <<redisUp, outages, runner, pool, handler>>

Submit(j) ==
  /\ run[j].at = "created"
  /\ pool' = Append(pool, j)
  /\ run' = [run EXCEPT ![j].at = "pending"]
  /\ UNCHANGED <<store, runner, handler>>

-----------------------------------------------------------------------------
(* IngestJobRunner._run on a pool thread *)

Report(j, call) == [run[j] EXCEPT !.at = "reading", !.call = call]

StartJob ==
  /\ pool # <<>>
  /\ Cardinality({j \in Jobs : Active(j)}) < MaxWorkers
  /\ pool' = Tail(pool)
  /\ run' = [run EXCEPT ![Head(pool)] = Report(Head(pool), "Starting")]
  /\ UNCHANGED <<store, runner, handler>>

\* update(): get, which settles what it reads (the write that follows
\* overwrites what _settle would put); a job that is gone is not written.
UpdateReads(j) ==
  /\ run[j].at = "reading"
  /\ run' = [run EXCEPT ![j].at = "writing", ![j].read = Settled(Stored(j))]
  /\ UNCHANGED <<store, runner, pool, handler>>

\* The status an update carries: only _run's three own updates set one.
StatusOf(r, call) ==
  CASE call = "Starting" -> "running"
    [] call = "Ready" -> "done"
    [] call = "Failed" -> "failed"
    [] OTHER -> r.status

\* Where the thread goes once its update has returned.
AfterUpdate(j) ==
  CASE run[j].call = "Starting" ->
         {Report(j, "Parsing"), Report(j, "Fetching"),
          [Report(j, "Crawling") EXCEPT !.crawl = TRUE]}
    [] run[j].call \in {"Ready", "Failed"} -> {[run[j] EXCEPT !.at = "over"]}
    [] OTHER -> {[run[j] EXCEPT !.at = "working"]}

UpdateWrites(j) ==
  LET read == run[j].read IN
  /\ run[j].at = "writing"
  /\ IF read.status = "absent"
     THEN UNCHANGED <<redis, memory>>
     ELSE Put(j, Touch(read, StatusOf(read, run[j].call), run[j].call))
  /\ \E next \in AfterUpdate(j) :
       run' = [run EXCEPT ![j] = [next EXCEPT !.read = Absent]]
  /\ UNCHANGED <<redisUp, outages, runner, pool, handler>>

\* The work between two reports.  Each of own, index and attach is a call
\* that other threads see the effect of before the next one is made.
Fetch(w) == [w EXCEPT !.at = "reading", !.call = "Parsing"]

Crawl(w, n) == [w EXCEPT !.at = "reading", !.call = "Indexing", !.pages = n]

CrawlUnavailable(w) ==
  [w EXCEPT !.at = "reading", !.call = "Fetching", !.crawl = FALSE]

ParseAndOwn(w) ==
  [w EXCEPT !.at = "reading", !.call = "Indexing", !.pages = 1, !.owned = 1]

\* Mutation of IndexFile: the document is indexed and reported Ready at once.
IndexFileUnattached(w) == [w EXCEPT !.at = "reading", !.call = "Ready", !.indexed = 1]

IndexFile(w) ==
  [w EXCEPT !.at = "reading", !.call = "Attaching", !.indexed = 1]

AttachFile(w) == [w EXCEPT !.at = "reading", !.call = "Ready", !.attached = 1]

\* A crawled page is owned, indexed and attached under one report.
PageStep(w) ==
  IF w.owned = w.attached THEN [w EXCEPT !.owned = @ + 1]
  ELSE IF w.indexed = w.attached THEN [w EXCEPT !.indexed = @ + 1]
  ELSE [w EXCEPT !.attached = @ + 1, !.at = "reading",
                 !.call = IF w.attached + 1 = w.pages THEN "Ready" ELSE "Indexing"]

Becomes(j, w) == run' = [run EXCEPT ![j] = w]

Work(j) ==
  LET w == run[j] IN
  /\ w.at = "working"
  /\ \/ w.call = "Fetching" /\ Becomes(j, Fetch(w))
     \/ w.call = "Crawling" /\ Becomes(j, CrawlUnavailable(w))
     \/ w.call = "Crawling" /\ \E n \in 1 .. MaxPages : Becomes(j, Crawl(w, n))
     \/ w.call = "Parsing" /\ Becomes(j, ParseAndOwn(w))
     \/ w.call = "Indexing" /\ ~w.crawl /\ Becomes(j, IndexFile(w))
     \/ w.call = "Indexing" /\ w.crawl /\ Becomes(j, PageStep(w))
     \/ w.call = "Attaching" /\ Becomes(j, AttachFile(w))
  /\ UNCHANGED <<store, runner, pool, handler>>

\* Any step of the work may raise: _run's except clause reports it.
WorkRaises(j) ==
  /\ run[j].at = "working"
  /\ run' = [run EXCEPT ![j] = Report(j, "Failed")]
  /\ UNCHANGED <<store, runner, pool, handler>>

-----------------------------------------------------------------------------
(* list_ingest_jobs: list_for takes every record at once, then settles or
   drops them one by one *)

StartList(h) ==
  /\ handler[h].op = "idle"
  /\ \E j \in Jobs : Stored(j).status # "absent"
  /\ LET snap == [j \in Jobs |-> Stored(j)] IN
     handler' = [handler EXCEPT ![h] =
       [op |-> "list", snap |-> snap,
        todo |-> {j \in Jobs : snap[j].status # "absent"}]]
  /\ UNCHANGED <<store, runner, pool, run>>

Expired(r) == r.status \in Finished /\ r.old

ListSettles(h, j) ==
  LET r == handler[h].snap[j] IN
  /\ handler[h].op = "list"
  /\ j \in handler[h].todo
  /\ IF Orphaned(r) THEN Put(j, Settled(r))
     ELSE IF Expired(r) THEN Delete(j)
     ELSE UNCHANGED <<redis, memory>>
  /\ handler' = [handler EXCEPT
       ![h].todo = @ \ {j},
       ![h].snap[j] = IF Expired(r) THEN Absent ELSE Settled(r)]
  /\ UNCHANGED <<redisUp, outages, runner, pool, run>>

ListReturns(h) ==
  /\ handler[h].op = "list"
  /\ handler[h].todo = {}
  /\ handler' = [handler EXCEPT ![h] = Idle]
  /\ UNCHANGED <<store, runner, pool, run>>

-----------------------------------------------------------------------------
(* dismiss_ingest_job: get (read, settle), refuse if unfinished, delete *)

StartDismiss(h, j) ==
  /\ handler[h].op = "idle"
  /\ Stored(j).status # "absent"
  /\ handler' = [handler EXCEPT ![h] =
       [op |-> "settle", snap |-> [Idle.snap EXCEPT ![j] = Stored(j)], todo |-> {j}]]
  /\ UNCHANGED <<store, runner, pool, run>>

\* Mutation of DismissSettles: the 409 for an unfinished job is missing.
DismissSettlesUnguarded(h, j) ==
  LET r == handler[h].snap[j] IN
  /\ handler[h].op = "settle"
  /\ j \in handler[h].todo
  /\ IF Orphaned(r) THEN Put(j, Settled(r)) ELSE UNCHANGED <<redis, memory>>
  /\ handler' = [handler EXCEPT ![h].op = "delete"]
  /\ UNCHANGED <<redisUp, outages, runner, pool, run>>

DismissSettles(h, j) ==
  LET r == handler[h].snap[j] IN
  /\ handler[h].op = "settle"
  /\ j \in handler[h].todo
  /\ IF Orphaned(r) THEN Put(j, Settled(r)) ELSE UNCHANGED <<redis, memory>>
  /\ handler' = [handler EXCEPT ![h] =
       IF Settled(r).status \in Unfinished THEN Idle ELSE [@ EXCEPT !.op = "delete"]]
  /\ UNCHANGED <<redisUp, outages, runner, pool, run>>

DismissDeletes(h, j) ==
  /\ handler[h].op = "delete"
  /\ j \in handler[h].todo
  /\ Delete(j)
  /\ handler' = [handler EXCEPT ![h] = Idle]
  /\ UNCHANGED <<redisUp, outages, runner, pool, run>>

-----------------------------------------------------------------------------
(* The environment *)

\* A day passes: every finished record of the job is past _FINISHED_TTL_S.
Age(r) == IF r.status \in Finished THEN [r EXCEPT !.old = TRUE] ELSE r

DayPasses(j) ==
  /\ Stored(j).status \in Finished /\ ~Stored(j).old
  /\ redis' = [redis EXCEPT ![j] = Age(@)]
  /\ memory' = [memory EXCEPT ![j] = Age(@)]
  /\ UNCHANGED <<redisUp, outages, runner, pool, run, handler>>

RedisFails ==
  /\ redisUp
  /\ outages < MaxOutages
  /\ redisUp' = FALSE
  /\ outages' = outages + 1
  /\ UNCHANGED <<redis, memory, runner, pool, run, handler>>

RedisRecovers ==
  /\ ~redisUp
  /\ redisUp' = TRUE
  /\ UNCHANGED <<outages, redis, memory, runner, pool, run, handler>>

\* The process dies: its threads, its pool and its memory are gone.
Restart ==
  /\ runner < MaxRestarts
  /\ runner' = runner + 1
  /\ pool' = <<>>
  /\ memory' = [j \in Jobs |-> Absent]
  /\ run' = [j \in Jobs |->
       IF run[j].at \in {"none", "over"} THEN run[j]
       ELSE [run[j] EXCEPT !.at = "lost", !.read = Absent]]
  /\ handler' = [h \in Handlers |-> Idle]
  /\ UNCHANGED <<redisUp, outages, redis>>

-----------------------------------------------------------------------------

ThreadStep(j) == UpdateReads(j) \/ UpdateWrites(j) \/ Work(j) \/ WorkRaises(j)

HandlerStep(h) ==
  \/ \E j \in Jobs : ListSettles(h, j)
  \/ ListReturns(h)
  \/ \E j \in Jobs : DismissSettles(h, j) \/ DismissDeletes(h, j)

Next ==
  \/ \E j \in Jobs : Create(j) \/ Submit(j) \/ ThreadStep(j) \/ DayPasses(j)
  \/ StartJob
  \/ \E h \in Handlers : StartList(h) \/ HandlerStep(h)
  \/ \E h \in Handlers, j \in Jobs : StartDismiss(h, j)
  \/ RedisFails \/ RedisRecovers
  \/ Restart

Spec == Init /\ [][Next]_vars

\* A started thread and a started request keep running, a free pool thread
\* takes the next job, and the client keeps polling (its timer does).
Fairness ==
  /\ \A j \in Jobs : WF_vars(Submit(j)) /\ WF_vars(ThreadStep(j))
  /\ WF_vars(StartJob)
  /\ \A h \in Handlers : WF_vars(HandlerStep(h))
  /\ SF_vars(\E h \in Handlers : StartList(h))

FairSpec == Spec /\ Fairness
-----------------------------------------------------------------------------
(* Properties *)

TypeOK ==
  /\ redisUp \in BOOLEAN
  /\ outages \in 0 .. MaxOutages
  /\ redis \in [Jobs -> Record]
  /\ memory \in [Jobs -> Record]
  /\ runner \in Runners
  /\ pool \in Seq(Jobs)
  /\ run \in [Jobs -> Run]
  /\ handler \in [Handlers -> Handler]

\* Whatever copy of a job says "done", every document of the source is
\* recorded, indexed and attached to the project: no interleaving of reports,
\* polls, outages and restarts publishes a half-added source as Ready
\* (_ingest_pipeline's chain and _run's last update).
DoneMeansAttached ==
  \A j \in Jobs :
    (redis[j].status = "done" \/ memory[j].status = "done") => Complete(j)

\* A job is only called interrupted when the thread that ran it is gone: no
\* poll ever fails a job that the living gateway still holds (_settle's
\* comparison of runner ids against a record read some time ago).
InterruptedMeansGone ==
  \A j \in Jobs :
    (redis[j].stage = "Interrupted" \/ memory[j].stage = "Interrupted")
      => run[j].at \in {"lost", "over"}

\* A job that a poll reports as queued or running is one the living process
\* accepted; one that died with an earlier process is reported failed (the
\* promise of the module's docstring), even when the snapshot was taken
\* before other requests settled the same job.
PollReportsTheLiving ==
  \A h \in Handlers, j \in Jobs :
    /\ handler[h].op = "list"
    /\ j \notin handler[h].todo
    /\ handler[h].snap[j].status \in Unfinished
    => run[j].at \notin {"none", "lost"}

\* Once the stored job is finished, no late report, stale poll or restart
\* gives it another status; it can only be deleted.  An outage of Redis in
\* the middle of a read-modify-write does not change that.
FinishedIsFinal ==
  [][\A j \in Jobs :
       redis[j].status \in Finished =>
         redis'[j].status \in {redis[j].status, "absent"}]_vars

\* Every accepted job ends: from some point on, a client that polls sees no
\* job queued or running, across restarts of the gateway ("reported failed
\* rather than spinning forever", "every stage is recorded"), unless Redis
\* has stopped answering.
NeverSpins ==
  \A j \in Jobs : <>[](Stored(j).status \notin Unfinished \/ outages > 0)
-----------------------------------------------------------------------------
(* The abstract specification: a client's view of the store *)

\* What a client is told of a job, from its stored record and, once that is
\* gone, the place its thread got to.
View(r, at) ==
  CASE r.status = "failed" /\ r.stage = "Interrupted" -> "interrupted"
    [] r.status = "absent" /\ at = "none" -> "none"
    [] r.status = "absent" /\ at = "lost" -> "dropped"
    [] r.status = "absent" /\ at \notin {"none", "lost"} -> "gone"
    [] OTHER -> r.status

phase == [j \in Jobs |-> View(Stored(j), run[j].at)]

Lifecycle == INSTANCE JobLifecycle WITH phase <- phase, firm <- (outages = 0)

\* The store implements the lifecycle it promises, whatever polls, dismissals,
\* reports and restarts do between each other's steps, the promise that no job
\* spins for ever included: only an interrupted job ever returns to a list it
\* was removed from, and only as interrupted (_settle's late write).
ImplementsLifecycle == Lifecycle!FairSpec
-----------------------------------------------------------------------------
(* The inductive invariant behind the safety properties *)

\* Every copy of job j's record: stored, or read by a thread or a request.
Copies(j) == {redis[j], memory[j], run[j].read} \cup {handler[h].snap[j] : h \in Handlers}

\* What a thread has achieved when it is about to report, or has reported, a call.
Shape(w) ==
  /\ w.attached <= w.indexed /\ w.indexed <= w.owned /\ w.owned <= w.pages
  /\ w.at \in {"none", "created", "pending"} => w.pages = 0 /\ ~w.crawl
  /\ w.at = "working" =>
       w.call \in {"Fetching", "Crawling", "Parsing", "Indexing", "Attaching"}
  /\ w.at \in {"reading", "writing", "working"} =>
       /\ w.crawl => w.call \in {"Crawling", "Indexing", "Ready", "Failed"}
       /\ w.call \in {"Starting", "Fetching", "Crawling", "Parsing"} => w.pages = 0
       /\ w.call = "Crawling" => w.crawl
       /\ w.call = "Indexing" =>
            IF w.crawl THEN w.attached < w.pages /\ w.owned <= w.attached + 1
            ELSE w.pages = 1 /\ w.owned = 1 /\ w.indexed = 0
       /\ w.call = "Attaching" =>
            w.pages = 1 /\ w.owned = 1 /\ w.indexed = 1 /\ w.attached = 0
       /\ w.call = "Ready" => w.pages > 0 /\ w.attached = w.pages

ShapeInv == \A j \in Jobs : Shape(run[j])

\* The pool holds each waiting job once.
PoolInv ==
  /\ \A i \in 1 .. Len(pool) : run[pool[i]].at = "pending"
  /\ \A i, k \in 1 .. Len(pool) : pool[i] = pool[k] => i = k

DoneInv ==
  \A j \in Jobs : (\E r \in Copies(j) : r.status = "done") => Complete(j)

Alive == {"created", "pending", "reading", "writing", "working"}

\* What a copy of job j may say: while the job's thread is alive, that it is
\* unfinished and the living runner's; once it is lost, if it is unfinished,
\* that it is an earlier runner's.
Fits(j, r) ==
  /\ run[j].at = "none" => r.status = "absent"
  /\ run[j].at \in Alive =>
       r.status = "absent" \/ (r.status \in Unfinished /\ r.runner = runner)
  /\ run[j].at = "lost" /\ r.status \in Unfinished => r.runner < runner
  /\ r.runner <= runner

OwnerInv ==
  \A j \in Jobs :
    /\ \A r \in Copies(j) : Fits(j, r)
    /\ memory[j].status \in Unfinished => memory[j].runner = runner

\* A request that is about to fail an orphaned job finds it not done.
SnapInv ==
  \A h \in Handlers, j \in Jobs :
    /\ Orphaned(handler[h].snap[j]) => redis[j].status # "done"
    /\ handler[h].op = "list" /\ j \notin handler[h].todo =>
         ~Orphaned(handler[h].snap[j])

IInv ==
  TypeOK /\ ShapeInv /\ PoolInv /\ DoneInv /\ OwnerInv /\ SnapInv /\ InterruptedMeansGone
=============================================================================
