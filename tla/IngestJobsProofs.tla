-------------------------- MODULE IngestJobsProofs --------------------------
(* Proofs of the safety properties of IngestJobs, for any sets of jobs and *)
(* request threads and any bounds, and of its refinement of JobLifecycle.  *)
EXTENDS IngestJobs, TLAPS

-----------------------------------------------------------------------------
(* What the helpers do *)

\* Copying a record with a new status and stage yields a record.
LEMMA TouchType ==
  ASSUME NEW r \in Record,
         NEW status \in Unfinished \cup Finished,
         NEW stage \in Calls \cup {"Interrupted"}
  PROVE  /\ Touch(r, status, stage) \in Record
         /\ Touch(r, status, stage).status = status
         /\ Touch(r, status, stage).stage = stage
         /\ Touch(r, status, stage).runner = r.runner
BY DEF Touch, Record

\* Settling yields a record of the same runner that is never orphaned.
LEMMA SettledType ==
  ASSUME NEW r \in Record
  PROVE  /\ Settled(r) \in Record
         /\ Settled(r).runner = r.runner
         /\ ~Orphaned(Settled(r))
         /\ Orphaned(r) => Settled(r).status = "failed" /\ Settled(r).stage = "Interrupted"
         /\ ~Orphaned(r) => Settled(r) = r
BY TouchType DEF Settled, Orphaned, Unfinished, Finished

\* The record of a job the store does not hold is a record.
LEMMA AbsentType == Absent \in Record /\ Absent.status = "absent"
                      /\ Absent.runner = 0 /\ Absent.stage = "Queued"
BY JobsAssumption DEF Absent, Record, Runners

\* A put changes one job in one of the two stores.
LEMMA PutEffect ==
  ASSUME TypeOK, NEW j \in Jobs, NEW r \in Record, Put(j, r)
  PROVE  /\ redis' \in [Jobs -> Record]
         /\ memory' \in [Jobs -> Record]
         /\ \A k \in Jobs : redis'[k] = redis[k] \/ (k = j /\ redis'[k] = r)
         /\ \A k \in Jobs : memory'[k] = memory[k] \/ (k = j /\ memory'[k] = r)
BY DEF Put, TypeOK

\* A deletion leaves absent records, or what was there.
LEMMA DeleteEffect ==
  ASSUME TypeOK, NEW j \in Jobs, Delete(j)
  PROVE  /\ redis' \in [Jobs -> Record]
         /\ memory' \in [Jobs -> Record]
         /\ \A k \in Jobs : redis'[k] = redis[k] \/ (k = j /\ redis'[k] = Absent)
         /\ \A k \in Jobs : memory'[k] = memory[k] \/ (k = j /\ memory'[k] = Absent)
BY AbsentType DEF Delete, TypeOK

\* One step of the work keeps the counters in order, moves the thread to its
\* next report or leaves it at work, and is not possible once all is attached.
LEMMA WorkEffect ==
  ASSUME TypeOK, NEW j \in Jobs, Shape(run[j]), Work(j)
  PROVE  /\ run' \in [Jobs -> Run]
         /\ \A k \in Jobs : k # j => run'[k] = run[k]
         /\ Shape(run'[j])
         /\ run'[j].at \in {"reading", "working"}
         /\ run'[j].read = run[j].read
         /\ ~Complete(j)
<1> DEFINE w == run[j]
<1>1. w \in Run /\ w.at = "working" /\ Shape(w)
  BY DEF TypeOK, Work
<1>2. ASSUME NEW v \in Run, Becomes(j, v), Shape(v), v.at \in {"reading", "working"},
             v.read = w.read, ~(w.pages > 0 /\ w.attached = w.pages)
      PROVE  /\ run' \in [Jobs -> Run]
             /\ \A k \in Jobs : k # j => run'[k] = run[k]
             /\ Shape(run'[j])
             /\ run'[j].at \in {"reading", "working"}
             /\ run'[j].read = run[j].read
             /\ ~Complete(j)
  BY <1>2 DEF TypeOK, Becomes, Complete
<1> HIDE DEF w
<1>a. 0 \in 0 .. MaxPages /\ 1 \in 0 .. MaxPages
  BY JobsAssumption
<1>3. CASE w.call = "Fetching" /\ Becomes(j, Fetch(w))
  <2>1. Fetch(w) \in Run
    BY <1>1, <1>a, <1>3 DEF Fetch, Run, Places, Calls
  <2>2. Shape(Fetch(w))
    BY <1>1, <1>3 DEF Fetch, Run, Shape, Places, Calls
  <2>3. Fetch(w).at \in {"reading", "working"} /\ Fetch(w).read = w.read
    BY <1>1, <1>3 DEF Fetch, Run, Shape, Places, Calls
  <2>4. ~(w.pages > 0 /\ w.attached = w.pages)
    BY <1>1, <1>3 DEF Fetch, Run, Shape, Places, Calls
  <2> QED BY <1>2, <1>3, <2>1, <2>2, <2>3, <2>4
<1>4. CASE w.call = "Crawling" /\ Becomes(j, CrawlUnavailable(w))
  <2>1. CrawlUnavailable(w) \in Run
    BY <1>1, <1>a, <1>4 DEF CrawlUnavailable, Run, Places, Calls
  <2>2. Shape(CrawlUnavailable(w))
    BY <1>1, <1>4 DEF CrawlUnavailable, Run, Shape, Places, Calls
  <2>3. CrawlUnavailable(w).at \in {"reading", "working"} /\ CrawlUnavailable(w).read = w.read
    BY <1>1, <1>4 DEF CrawlUnavailable, Run, Shape, Places, Calls
  <2>4. ~(w.pages > 0 /\ w.attached = w.pages)
    BY <1>1, <1>4 DEF CrawlUnavailable, Run, Shape, Places, Calls
  <2> QED BY <1>2, <1>4, <2>1, <2>2, <2>3, <2>4
<1>5. CASE w.call = "Crawling" /\ \E n \in 1 .. MaxPages : Becomes(j, Crawl(w, n))
  <2> PICK n \in 1 .. MaxPages : Becomes(j, Crawl(w, n))
    BY <1>5
  <2>0. n \in 0 .. MaxPages
    BY JobsAssumption
  <2>1. Crawl(w, n) \in Run
    BY <1>1, <2>0, <1>5 DEF Crawl, Run, Places, Calls
  <2>2. Shape(Crawl(w, n))
    BY <1>1, <1>5 DEF Crawl, Run, Shape, Places, Calls
  <2>3. Crawl(w, n).at \in {"reading", "working"} /\ Crawl(w, n).read = w.read
    BY <1>1, <1>5 DEF Crawl, Run, Shape, Places, Calls
  <2>4. ~(w.pages > 0 /\ w.attached = w.pages)
    BY <1>1, <1>5 DEF Crawl, Run, Shape, Places, Calls
  <2> QED BY <1>2, <2>1, <2>2, <2>3, <2>4
<1>6. CASE w.call = "Parsing" /\ Becomes(j, ParseAndOwn(w))
  <2>1. ParseAndOwn(w) \in Run
    BY <1>1, <1>a, <1>6 DEF ParseAndOwn, Run, Places, Calls
  <2>2. Shape(ParseAndOwn(w))
    BY <1>1, <1>6 DEF ParseAndOwn, Run, Shape, Places, Calls
  <2>3. ParseAndOwn(w).at \in {"reading", "working"} /\ ParseAndOwn(w).read = w.read
    BY <1>1, <1>6 DEF ParseAndOwn, Run, Shape, Places, Calls
  <2>4. ~(w.pages > 0 /\ w.attached = w.pages)
    BY <1>1, <1>6 DEF ParseAndOwn, Run, Shape, Places, Calls
  <2> QED BY <1>2, <1>6, <2>1, <2>2, <2>3, <2>4
<1>7. CASE w.call = "Indexing" /\ ~w.crawl /\ Becomes(j, IndexFile(w))
  <2>1. IndexFile(w) \in Run
    BY <1>1, <1>a, <1>7 DEF IndexFile, Run, Places, Calls
  <2>2. Shape(IndexFile(w))
    BY <1>1, <1>7 DEF IndexFile, Run, Shape, Places, Calls
  <2>3. IndexFile(w).at \in {"reading", "working"} /\ IndexFile(w).read = w.read
    BY <1>1, <1>7 DEF IndexFile, Run, Shape, Places, Calls
  <2>4. ~(w.pages > 0 /\ w.attached = w.pages)
    BY <1>1, <1>7 DEF IndexFile, Run, Shape, Places, Calls
  <2> QED BY <1>2, <1>7, <2>1, <2>2, <2>3, <2>4
<1>8. CASE w.call = "Indexing" /\ w.crawl /\ Becomes(j, PageStep(w))
  <2>a. ASSUME w.owned = w.attached
       PROVE  /\ PageStep(w) \in Run /\ Shape(PageStep(w))
              /\ PageStep(w).at \in {"reading", "working"} /\ PageStep(w).read = w.read
    <3>1. w.owned + 1 \in 0 .. MaxPages
      BY <1>1, <1>8, <2>a, JobsAssumption DEF Run, Shape
    <3>2. PageStep(w) \in Run
      BY <1>1, <3>1, <2>a DEF PageStep, Run
    <3>3. Shape(PageStep(w))
      BY <1>1, <1>8, <2>a DEF PageStep, Run, Shape
    <3> QED BY <1>1, <2>a, <3>2, <3>3 DEF PageStep, Run
  <2>b. ASSUME w.owned # w.attached /\ w.indexed = w.attached
       PROVE  /\ PageStep(w) \in Run /\ Shape(PageStep(w))
              /\ PageStep(w).at \in {"reading", "working"} /\ PageStep(w).read = w.read
    <3>1. w.indexed + 1 \in 0 .. MaxPages
      BY <1>1, <1>8, <2>b, JobsAssumption DEF Run, Shape
    <3>2. PageStep(w) \in Run
      BY <1>1, <3>1, <2>b DEF PageStep, Run
    <3>3. Shape(PageStep(w))
      BY <1>1, <1>8, <2>b DEF PageStep, Run, Shape
    <3> QED BY <1>1, <2>b, <3>2, <3>3 DEF PageStep, Run
  <2>c. ASSUME w.owned # w.attached /\ w.indexed # w.attached
       PROVE  /\ PageStep(w) \in Run /\ Shape(PageStep(w))
              /\ PageStep(w).at \in {"reading", "working"} /\ PageStep(w).read = w.read
    <3>1. w.attached + 1 \in 0 .. MaxPages
      BY <1>1, <1>8, <2>c, JobsAssumption DEF Run, Shape
    <3>2. PageStep(w) \in Run
      BY <1>1, <3>1, <2>c DEF PageStep, Run, Places, Calls
    <3>3. Shape(PageStep(w))
      BY <1>1, <1>8, <2>c DEF PageStep, Run, Shape
    <3> QED BY <1>1, <2>c, <3>2, <3>3 DEF PageStep, Run
  <2>3. PageStep(w) \in Run /\ Shape(PageStep(w))
    BY <2>a, <2>b, <2>c
  <2>5. PageStep(w).at \in {"reading", "working"} /\ PageStep(w).read = w.read
    BY <2>a, <2>b, <2>c
  <2>4. ~(w.pages > 0 /\ w.attached = w.pages)
    BY <1>1, <1>8 DEF Run, Shape
  <2> QED BY <1>2, <1>8, <2>3, <2>4, <2>5
<1>9. CASE w.call = "Attaching" /\ Becomes(j, AttachFile(w))
  <2>1. AttachFile(w) \in Run
    BY <1>1, <1>a, <1>9 DEF AttachFile, Run, Places, Calls
  <2>2. Shape(AttachFile(w))
    BY <1>1, <1>9 DEF AttachFile, Run, Shape, Places, Calls
  <2>3. AttachFile(w).at \in {"reading", "working"} /\ AttachFile(w).read = w.read
    BY <1>1, <1>9 DEF AttachFile, Run, Shape, Places, Calls
  <2>4. ~(w.pages > 0 /\ w.attached = w.pages)
    BY <1>1, <1>9 DEF AttachFile, Run, Shape, Places, Calls
  <2> QED BY <1>2, <1>9, <2>1, <2>2, <2>3, <2>4
<1> QED BY <1>3, <1>4, <1>5, <1>6, <1>7, <1>8, <1>9 DEF Work, w

\* Where a thread goes after an update: its counters are kept in order.
LEMMA AfterUpdateEffect ==
  ASSUME TypeOK, NEW j \in Jobs, Shape(run[j]), run[j].at = "writing",
         NEW next \in AfterUpdate(j)
  PROVE  LET v == [next EXCEPT !.read = Absent] IN
         /\ v \in Run
         /\ Shape(v)
         /\ v.at \in {"reading", "working", "over"}
         /\ v.at = "over" <=> run[j].call \in {"Ready", "Failed"}
         /\ v.read = Absent
         /\ v.pages = run[j].pages /\ v.owned = run[j].owned
         /\ v.indexed = run[j].indexed /\ v.attached = run[j].attached
<1> run[j] \in Run
  BY DEF TypeOK
<1>1. CASE run[j].call = "Starting"
  BY <1>1, AbsentType DEF AfterUpdate, Report, Run, Shape, Places, Calls
<1>2. CASE run[j].call \in {"Ready", "Failed"}
  BY <1>2, AbsentType DEF AfterUpdate, Run, Shape, Places, Calls
<1>3. CASE run[j].call \notin {"Starting", "Ready", "Failed"}
  BY <1>3, AbsentType DEF AfterUpdate, Run, Shape, Places, Calls
<1> QED BY <1>1, <1>2, <1>3
-----------------------------------------------------------------------------
(* Type correctness *)

\* Moving a thread, and giving it a record it has read, keeps its type.
LEMMA RunType ==
  ASSUME NEW w \in Run, NEW at \in Places
  PROVE  /\ [w EXCEPT !.at = at] \in Run
         /\ \A read \in Record : [w EXCEPT !.at = at, !.read = read] \in Run
BY DEF Run

\* An idle request thread is one.
LEMMA IdleType == Idle \in Handler
BY AbsentType DEF Idle, Handler, Ops

\* Moving a request on keeps its type.
LEMMA HandlerType ==
  ASSUME NEW d \in Handler, NEW j \in Jobs, NEW r \in Record
  PROVE  /\ [d EXCEPT !.op = "delete"] \in Handler
         /\ [d EXCEPT !.todo = @ \ {j}, !.snap[j] = r] \in Handler
BY DEF Handler, Ops

\* What a reader finds is a record.
LEMMA StoredType == ASSUME TypeOK, NEW j \in Jobs PROVE Stored(j) \in Record
BY DEF TypeOK, Stored

\* The initial state is well typed.
LEMMA TypeInit == Init => TypeOK
<1>1. NoRun \in Run
  BY AbsentType, JobsAssumption DEF NoRun, Run, Places, Calls
<1> QED BY <1>1, AbsentType, IdleType, JobsAssumption DEF Init, TypeOK, Runners

\* Every step keeps the types.
LEMMA TypeStep == TypeOK /\ ShapeInv /\ PoolInv /\ [Next]_vars => TypeOK'
<1> SUFFICES ASSUME TypeOK, ShapeInv, PoolInv, [Next]_vars PROVE TypeOK'
  OBVIOUS
<1>1. ASSUME NEW j \in Jobs, Create(j) PROVE TypeOK'
  <2>1. NewRecord \in Record
    BY DEF NewRecord, Record, TypeOK, Runners, Unfinished
  <2>2. [run[j] EXCEPT !.at = "created"] \in Run
    BY RunType DEF TypeOK, Places
  <2> QED BY <1>1, <2>1, <2>2, PutEffect DEF Create, TypeOK
<1>2. ASSUME NEW j \in Jobs, Submit(j) PROVE TypeOK'
  <2>1. [run[j] EXCEPT !.at = "pending"] \in Run
    BY RunType DEF TypeOK, Places
  <2> QED BY <1>2, <2>1 DEF Submit, TypeOK, store
<1>3. CASE StartJob
  <2>1. Head(pool) \in Jobs /\ Tail(pool) \in Seq(Jobs)
    BY <1>3 DEF StartJob, TypeOK
  <2>2. Report(Head(pool), "Starting") \in Run
    BY <2>1 DEF Report, TypeOK, Run, Places, Calls
  <2> QED BY <1>3, <2>1, <2>2 DEF StartJob, TypeOK, store
<1>4. ASSUME NEW j \in Jobs, UpdateReads(j) PROVE TypeOK'
  <2>1. Settled(Stored(j)) \in Record
    BY SettledType, StoredType
  <2>2. [run[j] EXCEPT !.at = "writing", !.read = Settled(Stored(j))] \in Run
    BY <2>1, RunType DEF TypeOK, Places, Calls
  <2> QED BY <1>4, <2>2 DEF UpdateReads, TypeOK, store
<1>5. ASSUME NEW j \in Jobs, UpdateWrites(j) PROVE TypeOK'
  <2>1. redis' \in [Jobs -> Record] /\ memory' \in [Jobs -> Record]
    <3>1. CASE run[j].read.status = "absent"
      BY <1>5, <3>1 DEF UpdateWrites, TypeOK
    <3>2. CASE run[j].read.status # "absent"
      <4>1. run[j].read \in Record /\ run[j].call \in Calls
        BY DEF TypeOK, Run
      <4>2. StatusOf(run[j].read, run[j].call) \in Unfinished \cup Finished
        BY <3>2, <4>1 DEF StatusOf, Record, Unfinished, Finished
      <4> QED BY <1>5, <3>2, <4>1, <4>2, TouchType, PutEffect DEF UpdateWrites
    <3> QED BY <3>1, <3>2
  <2>2. PICK next \in AfterUpdate(j) :
          run' = [run EXCEPT ![j] = [next EXCEPT !.read = Absent]]
    BY <1>5 DEF UpdateWrites
  <2>3. [next EXCEPT !.read = Absent] \in Run
    BY <1>5, AfterUpdateEffect DEF UpdateWrites, ShapeInv
  <2> QED BY <1>5, <2>1, <2>2, <2>3 DEF UpdateWrites, TypeOK
<1>6. ASSUME NEW j \in Jobs, Work(j) PROVE TypeOK'
  BY <1>6, WorkEffect DEF Work, TypeOK, ShapeInv, store
<1>7. ASSUME NEW j \in Jobs, WorkRaises(j) PROVE TypeOK'
  <2>1. Report(j, "Failed") \in Run
    BY DEF Report, TypeOK, Run, Places, Calls
  <2> QED BY <1>7, <2>1 DEF WorkRaises, TypeOK, store
<1>8. ASSUME NEW h \in Handlers, StartList(h) PROVE TypeOK'
  <2>1. [op |-> "list", snap |-> [j \in Jobs |-> Stored(j)],
         todo |-> {j \in Jobs : [k \in Jobs |-> Stored(k)][j].status # "absent"}] \in Handler
    BY StoredType DEF Handler, Ops
  <2> QED BY <1>8, <2>1 DEF StartList, TypeOK, store
<1>9. ASSUME NEW h \in Handlers, NEW j \in Jobs, ListSettles(h, j) PROVE TypeOK'
  <2> DEFINE r == handler[h].snap[j]
  <2>1. handler[h] \in Handler /\ r \in Record
    BY DEF TypeOK, Handler
  <2>2. redis' \in [Jobs -> Record] /\ memory' \in [Jobs -> Record]
    BY <1>9, <2>1, SettledType, PutEffect, DeleteEffect DEF ListSettles, TypeOK
  <2>3. (IF Expired(r) THEN Absent ELSE Settled(r)) \in Record
    BY <2>1, SettledType, AbsentType
  <2>4. handler' \in [Handlers -> Handler]
    BY <1>9, <2>1, <2>3, HandlerType DEF ListSettles, TypeOK
  <2> QED BY <1>9, <2>2, <2>4 DEF ListSettles, TypeOK
<1>10. ASSUME NEW h \in Handlers, ListReturns(h) PROVE TypeOK'
  BY <1>10, IdleType DEF ListReturns, TypeOK, store
<1>11. ASSUME NEW h \in Handlers, NEW j \in Jobs, StartDismiss(h, j) PROVE TypeOK'
  <2>1. [op |-> "settle", snap |-> [Idle.snap EXCEPT ![j] = Stored(j)], todo |-> {j}] \in Handler
    BY StoredType, IdleType DEF Handler, Ops
  <2> QED BY <1>11, <2>1 DEF StartDismiss, TypeOK, store
<1>12. ASSUME NEW h \in Handlers, NEW j \in Jobs, DismissSettles(h, j) PROVE TypeOK'
  <2> DEFINE r == handler[h].snap[j]
  <2>1. handler[h] \in Handler /\ r \in Record
    BY DEF TypeOK, Handler
  <2>2. redis' \in [Jobs -> Record] /\ memory' \in [Jobs -> Record]
    BY <1>12, <2>1, SettledType, PutEffect DEF DismissSettles, TypeOK
  <2>3. handler' \in [Handlers -> Handler]
    BY <1>12, <2>1, HandlerType, IdleType DEF DismissSettles, TypeOK
  <2> QED BY <1>12, <2>2, <2>3 DEF DismissSettles, TypeOK
<1>13. ASSUME NEW h \in Handlers, NEW j \in Jobs, DismissDeletes(h, j) PROVE TypeOK'
  BY <1>13, IdleType, DeleteEffect DEF DismissDeletes, TypeOK
<1>14. ASSUME NEW j \in Jobs, DayPasses(j) PROVE TypeOK'
  <2>1. \A r \in Record : Age(r) \in Record
    BY DEF Age, Record
  <2> QED BY <1>14, <2>1 DEF DayPasses, TypeOK
<1>15. CASE RedisFails
  <2>1. outages \in 0 .. MaxOutages /\ outages < MaxOutages /\ outages' = outages + 1
    BY <1>15 DEF RedisFails, TypeOK
  <2>2. outages' \in 0 .. MaxOutages
    BY <2>1, JobsAssumption
  <2> QED BY <1>15, <2>2 DEF RedisFails, TypeOK
<1>16. CASE RedisRecovers
  BY <1>16 DEF RedisRecovers, TypeOK
<1>17. CASE Restart
  <2>a. runner \in 0 .. MaxRestarts /\ runner < MaxRestarts /\ runner' = runner + 1
    BY <1>17 DEF Restart, TypeOK, Runners
  <2>b. runner' \in Runners
    BY <2>a, JobsAssumption DEF Runners
  <2>1. pool' \in Seq(Jobs)
    <3>1. pool' = <<>>
      BY <1>17 DEF Restart
    <3> QED BY <3>1
  <2>2. run' \in [Jobs -> Run]
    <3>1. \A j \in Jobs : [run[j] EXCEPT !.at = "lost", !.read = Absent] \in Run
      BY RunType, AbsentType DEF TypeOK, Places
    <3> QED BY <1>17, <3>1 DEF Restart, TypeOK
  <2> QED BY <1>17, <2>b, <2>1, <2>2, AbsentType, IdleType DEF Restart, TypeOK
<1>18. CASE UNCHANGED vars
  BY <1>18 DEF vars, TypeOK
<1> QED
  BY <1>1, <1>2, <1>3, <1>4, <1>5, <1>6, <1>7, <1>8, <1>9, <1>10, <1>11, <1>12, <1>13,
     <1>14, <1>15, <1>16, <1>17, <1>18 DEF Next, ThreadStep, HandlerStep
-----------------------------------------------------------------------------
(* The threads and the pool *)

\* The steps that leave every thread where it is.
Elsewhere ==
  \/ \E h \in Handlers : StartList(h) \/ HandlerStep(h)
  \/ \E h \in Handlers, j \in Jobs : StartDismiss(h, j)
  \/ \E j \in Jobs : DayPasses(j)
  \/ RedisFails \/ RedisRecovers
  \/ UNCHANGED vars

\* Those steps touch neither threads nor pool.
LEMMA ElsewhereKeeps == Elsewhere => UNCHANGED <<run, pool, runner>>
BY DEF Elsewhere, StartList, HandlerStep, ListSettles, ListReturns, StartDismiss,
       DismissSettles, DismissDeletes, DayPasses, RedisFails, RedisRecovers, vars

\* Every step is one of a thread, one elsewhere, or a restart.
LEMMA StepKinds ==
  [Next]_vars =>
    \/ \E j \in Jobs : Create(j) \/ Submit(j) \/ ThreadStep(j)
    \/ StartJob
    \/ Elsewhere
    \/ Restart
BY DEF Next, Elsewhere

\* Every step keeps what a thread has achieved in step with its reports.
LEMMA ShapeStep == TypeOK /\ ShapeInv /\ PoolInv /\ [Next]_vars => ShapeInv'
<1> SUFFICES ASSUME TypeOK, ShapeInv, PoolInv, [Next]_vars, NEW k \in Jobs
             PROVE  Shape(run'[k])
  BY DEF ShapeInv, Shape
<1>a. Shape(run[k]) /\ run[k] \in Run /\ run \in [Jobs -> Run]
  BY DEF ShapeInv, TypeOK
<1>1. ASSUME NEW j \in Jobs, Create(j) PROVE Shape(run'[k])
  BY <1>a, <1>1 DEF Create, Shape, Run
<1>2. ASSUME NEW j \in Jobs, Submit(j) PROVE Shape(run'[k])
  BY <1>a, <1>2 DEF Submit, Shape, Run
<1>3. CASE StartJob
  <2>1. Head(pool) \in Jobs /\ run[Head(pool)].at = "pending"
    BY <1>3 DEF StartJob, TypeOK, PoolInv
  <2>2. Shape(Report(Head(pool), "Starting"))
    <3>1. Shape(run[Head(pool)]) /\ run[Head(pool)] \in Run
      BY <2>1 DEF ShapeInv, TypeOK
    <3> QED BY <2>1, <3>1 DEF Report, Shape, Run
  <2> QED BY <1>3, <1>a, <2>1, <2>2 DEF StartJob
<1>4. ASSUME NEW j \in Jobs, UpdateReads(j) PROVE Shape(run'[k])
  BY <1>a, <1>4 DEF UpdateReads, Shape, Run
<1>5. ASSUME NEW j \in Jobs, UpdateWrites(j) PROVE Shape(run'[k])
  <2>1. PICK next \in AfterUpdate(j) :
          run' = [run EXCEPT ![j] = [next EXCEPT !.read = Absent]]
    BY <1>5 DEF UpdateWrites
  <2>2. Shape([next EXCEPT !.read = Absent])
    BY <1>5, AfterUpdateEffect DEF UpdateWrites, ShapeInv
  <2> QED BY <1>a, <2>1, <2>2
<1>6. ASSUME NEW j \in Jobs, Work(j) PROVE Shape(run'[k])
  BY <1>6, <1>a, WorkEffect DEF ShapeInv
<1>7. ASSUME NEW j \in Jobs, WorkRaises(j) PROVE Shape(run'[k])
  BY <1>a, <1>7 DEF WorkRaises, Report, Shape, Run
<1>8. CASE Elsewhere
  BY <1>8, <1>a, ElsewhereKeeps
<1>9. CASE Restart
  <2>1. run'[k] = IF run[k].at \in {"none", "over"} THEN run[k]
                  ELSE [run[k] EXCEPT !.at = "lost", !.read = Absent]
    BY <1>9, <1>a DEF Restart
  <2> QED BY <1>a, <2>1 DEF Shape, Run
<1> QED
  BY <1>1, <1>2, <1>3, <1>4, <1>5, <1>6, <1>7, <1>8, <1>9, StepKinds DEF ThreadStep

\* A step of the thread of one job that is not waiting leaves the pool right.
LEMMA PoolKept ==
  ASSUME TypeOK, PoolInv, NEW j \in Jobs, run[j].at # "pending",
         \A k \in Jobs : k # j => run'[k] = run[k], UNCHANGED pool
  PROVE  PoolInv'
BY DEF PoolInv, TypeOK

\* Every step keeps each waiting job in the pool once.
LEMMA PoolStep == TypeOK /\ ShapeInv /\ PoolInv /\ [Next]_vars => PoolInv'
<1> SUFFICES ASSUME TypeOK, ShapeInv, PoolInv, [Next]_vars PROVE PoolInv'
  OBVIOUS
<1>a. run \in [Jobs -> Run] /\ pool \in Seq(Jobs)
  BY DEF TypeOK
<1>1. ASSUME NEW j \in Jobs, Create(j) PROVE PoolInv'
  BY <1>1, <1>a, PoolKept DEF Create
<1>2. ASSUME NEW j \in Jobs, Submit(j) PROVE PoolInv'
  <2>1. pool' = Append(pool, j) /\ run[j].at = "created" /\ run'[j].at = "pending"
        /\ \A k \in Jobs : k # j => run'[k] = run[k]
    BY <1>2, <1>a DEF Submit, Run
  <2> QED BY <2>1, <1>a DEF PoolInv
<1>3. CASE StartJob
  <2>1. pool # <<>> /\ pool' = Tail(pool)
        /\ run' = [run EXCEPT ![Head(pool)] = Report(Head(pool), "Starting")]
    BY <1>3 DEF StartJob
  <2>2. \A i \in 1 .. Len(pool') :
           i + 1 \in 1 .. Len(pool) /\ pool'[i] = pool[i + 1] /\ pool[i + 1] # Head(pool)
    BY <2>1, <1>a DEF PoolInv
  <2> QED BY <2>1, <2>2, <1>a DEF PoolInv
<1>4. ASSUME NEW j \in Jobs, UpdateReads(j) PROVE PoolInv'
  BY <1>4, <1>a, PoolKept DEF UpdateReads
<1>5. ASSUME NEW j \in Jobs, UpdateWrites(j) PROVE PoolInv'
  BY <1>5, <1>a, PoolKept DEF UpdateWrites
<1>6. ASSUME NEW j \in Jobs, Work(j) PROVE PoolInv'
  <2>1. run[j].at # "pending" /\ UNCHANGED pool
    BY <1>6 DEF Work
  <2> QED BY <1>6, <2>1, WorkEffect, PoolKept DEF ShapeInv
<1>7. ASSUME NEW j \in Jobs, WorkRaises(j) PROVE PoolInv'
  BY <1>7, <1>a, PoolKept DEF WorkRaises
<1>8. CASE Elsewhere
  BY <1>8, ElsewhereKeeps DEF PoolInv
<1>9. CASE Restart
  <2>1. pool' = <<>>
    BY <1>9 DEF Restart
  <2> QED BY <2>1 DEF PoolInv
<1> QED
  BY <1>1, <1>2, <1>3, <1>4, <1>5, <1>6, <1>7, <1>8, <1>9, StepKinds DEF ThreadStep
-----------------------------------------------------------------------------
(* The records *)

\* The record UpdateWrites(j) puts.
Reported(j) ==
  Touch(run[j].read, StatusOf(run[j].read, run[j].call), run[j].call)

\* What a step can put in a store in place of record r of job j.
Replaces(j, r, new) ==
  \/ new = r
  \/ new = Absent
  \/ new = Age(r)
  \/ \E h \in Handlers : Orphaned(handler[h].snap[j]) /\ new = Settled(handler[h].snap[j])
  \/ Create(j) /\ new = NewRecord
  \/ UpdateWrites(j) /\ run[j].read.status # "absent" /\ new = Reported(j)

\* What a step can put in Redis and in memory.
LEMMA StoreStep ==
  ASSUME TypeOK, [Next]_vars, NEW k \in Jobs
  PROVE  Replaces(k, redis[k], redis'[k]) /\ Replaces(k, memory[k], memory'[k])
<1>a. redis \in [Jobs -> Record] /\ memory \in [Jobs -> Record]
  BY DEF TypeOK
<1>1. ASSUME NEW j \in Jobs, Create(j)
      PROVE  Replaces(k, redis[k], redis'[k]) /\ Replaces(k, memory[k], memory'[k])
  BY <1>1, <1>a DEF Create, Put, Replaces
<1>2. ASSUME NEW j \in Jobs, UpdateWrites(j)
      PROVE  Replaces(k, redis[k], redis'[k]) /\ Replaces(k, memory[k], memory'[k])
  <2>1. \/ UNCHANGED <<redis, memory>>
        \/ run[j].read.status # "absent" /\ Put(j, Reported(j))
    BY <1>2 DEF UpdateWrites, Reported
  <2> QED BY <1>2, <1>a, <2>1 DEF Put, Replaces
<1>3. ASSUME NEW h \in Handlers, NEW j \in Jobs, ListSettles(h, j)
      PROVE  Replaces(k, redis[k], redis'[k]) /\ Replaces(k, memory[k], memory'[k])
  <2>1. \/ UNCHANGED <<redis, memory>>
        \/ Delete(j)
        \/ Orphaned(handler[h].snap[j]) /\ Put(j, Settled(handler[h].snap[j]))
    BY <1>3 DEF ListSettles
  <2> QED BY <1>a, <2>1 DEF Put, Delete, Replaces
<1>4. ASSUME NEW h \in Handlers, NEW j \in Jobs, DismissSettles(h, j)
      PROVE  Replaces(k, redis[k], redis'[k]) /\ Replaces(k, memory[k], memory'[k])
  <2>1. \/ UNCHANGED <<redis, memory>>
        \/ Orphaned(handler[h].snap[j]) /\ Put(j, Settled(handler[h].snap[j]))
    BY <1>4 DEF DismissSettles
  <2> QED BY <1>a, <2>1 DEF Put, Replaces
<1>5. ASSUME NEW h \in Handlers, NEW j \in Jobs, DismissDeletes(h, j)
      PROVE  Replaces(k, redis[k], redis'[k]) /\ Replaces(k, memory[k], memory'[k])
  BY <1>5, <1>a DEF DismissDeletes, Delete, Replaces
<1>6. ASSUME NEW j \in Jobs, DayPasses(j)
      PROVE  Replaces(k, redis[k], redis'[k]) /\ Replaces(k, memory[k], memory'[k])
  BY <1>6, <1>a DEF DayPasses, Replaces
<1>7. CASE Restart
  BY <1>7, <1>a DEF Restart, Replaces
<1>8. CASE UNCHANGED <<redis, memory>>
  BY <1>8 DEF Replaces
<1>9. \/ \E j \in Jobs : Create(j) \/ UpdateWrites(j) \/ DayPasses(j)
      \/ \E h \in Handlers, j \in Jobs :
           ListSettles(h, j) \/ DismissSettles(h, j) \/ DismissDeletes(h, j)
      \/ Restart
      \/ UNCHANGED <<redis, memory>>
  BY DEF Next, ThreadStep, HandlerStep, Submit, StartJob, UpdateReads, Work, WorkRaises,
         StartList, ListReturns, StartDismiss, RedisFails, RedisRecovers, store, vars
<1> QED BY <1>1, <1>2, <1>3, <1>4, <1>5, <1>6, <1>7, <1>8, <1>9

\* What a step can put in the record a thread has read.
LEMMA ReadStep ==
  ASSUME TypeOK, ShapeInv, PoolInv, [Next]_vars, NEW k \in Jobs
  PROVE  \/ run'[k].read = run[k].read
         \/ run'[k].read = Absent
         \/ run'[k].read = Settled(Stored(k))
<1>a. run \in [Jobs -> Run]
  BY DEF TypeOK
<1>1. ASSUME NEW j \in Jobs, Create(j) PROVE run'[k].read = run[k].read
  BY <1>1, <1>a DEF Create, Run
<1>2. ASSUME NEW j \in Jobs, Submit(j) PROVE run'[k].read = run[k].read
  BY <1>2, <1>a DEF Submit, Run
<1>3. CASE StartJob
  <2>1. Head(pool) \in Jobs
    BY <1>3 DEF StartJob, TypeOK
  <2> QED BY <1>3, <2>1, <1>a DEF StartJob, Report, Run
<1>4. ASSUME NEW j \in Jobs, UpdateReads(j)
      PROVE  run'[k].read = run[k].read \/ run'[k].read = Settled(Stored(k))
  BY <1>4, <1>a DEF UpdateReads, Run
<1>5. ASSUME NEW j \in Jobs, UpdateWrites(j)
      PROVE  run'[k].read = run[k].read \/ run'[k].read = Absent
  <2>1. PICK next \in AfterUpdate(j) :
          run' = [run EXCEPT ![j] = [next EXCEPT !.read = Absent]]
    BY <1>5 DEF UpdateWrites
  <2>2. [next EXCEPT !.read = Absent].read = Absent
    BY <1>5, AfterUpdateEffect DEF UpdateWrites, ShapeInv
  <2> QED BY <1>a, <2>1, <2>2
<1>6. ASSUME NEW j \in Jobs, Work(j) PROVE run'[k].read = run[k].read
  BY <1>6, WorkEffect DEF ShapeInv
<1>7. ASSUME NEW j \in Jobs, WorkRaises(j) PROVE run'[k].read = run[k].read
  BY <1>7, <1>a DEF WorkRaises, Report, Run
<1>8. CASE Elsewhere
  BY <1>8, ElsewhereKeeps
<1>9. CASE Restart
  BY <1>9, <1>a DEF Restart, Run
<1> QED
  BY <1>1, <1>2, <1>3, <1>4, <1>5, <1>6, <1>7, <1>8, <1>9, StepKinds DEF ThreadStep

\* What a step can put in the snapshot of a request.
LEMMA SnapStep ==
  ASSUME TypeOK, [Next]_vars, NEW h \in Handlers, NEW k \in Jobs
  PROVE  \/ handler'[h].snap[k] = handler[h].snap[k]
         \/ handler'[h].snap[k] = Absent
         \/ handler'[h].snap[k] = Settled(handler[h].snap[k])
         \/ handler'[h].snap[k] = Stored(k) /\ UNCHANGED <<redis, memory, runner>>
<1>a. handler \in [Handlers -> Handler] /\ handler[h].snap \in [Jobs -> Record]
  BY DEF TypeOK, Handler
<1>b. Idle.snap[k] = Absent
  BY DEF Idle
<1> DEFINE Goal == \/ handler'[h].snap[k] = handler[h].snap[k]
                   \/ handler'[h].snap[k] = Absent
                   \/ handler'[h].snap[k] = Settled(handler[h].snap[k])
                   \/ handler'[h].snap[k] = Stored(k) /\ UNCHANGED <<redis, memory, runner>>
<1>1. ASSUME NEW g \in Handlers, StartList(g) PROVE Goal
  BY <1>1, <1>a DEF StartList, store
<1>2. ASSUME NEW g \in Handlers, NEW j \in Jobs, ListSettles(g, j) PROVE Goal
  BY <1>2, <1>a DEF ListSettles, Handler
<1>3. ASSUME NEW g \in Handlers, ListReturns(g) PROVE Goal
  BY <1>3, <1>a, <1>b DEF ListReturns
<1>4. ASSUME NEW g \in Handlers, NEW j \in Jobs, StartDismiss(g, j) PROVE Goal
  BY <1>4, <1>a, <1>b DEF StartDismiss, store, Idle
<1>5. ASSUME NEW g \in Handlers, NEW j \in Jobs, DismissSettles(g, j) PROVE Goal
  BY <1>5, <1>a, <1>b DEF DismissSettles, Handler
<1>6. ASSUME NEW g \in Handlers, NEW j \in Jobs, DismissDeletes(g, j) PROVE Goal
  BY <1>6, <1>a, <1>b DEF DismissDeletes
<1>7. CASE Restart
  BY <1>7, <1>b DEF Restart
<1>8. CASE UNCHANGED handler
  BY <1>8
<1>9. \/ \E g \in Handlers : StartList(g) \/ ListReturns(g)
      \/ \E g \in Handlers, j \in Jobs :
           ListSettles(g, j) \/ StartDismiss(g, j) \/ DismissSettles(g, j) \/ DismissDeletes(g, j)
      \/ Restart
      \/ UNCHANGED handler
  BY DEF Next, ThreadStep, HandlerStep, Create, Submit, StartJob, UpdateReads, UpdateWrites,
         Work, WorkRaises, DayPasses, RedisFails, RedisRecovers, vars
<1> QED BY <1>1, <1>2, <1>3, <1>4, <1>5, <1>6, <1>7, <1>8, <1>9
-----------------------------------------------------------------------------
(* The invariants on the records *)

\* How the thread of a job moves in a step.
LEMMA AtStep ==
  ASSUME TypeOK, ShapeInv, PoolInv, [Next]_vars, NEW k \in Jobs
  PROVE  \/ UNCHANGED runner /\ run'[k].at = run[k].at
         \/ UNCHANGED runner /\ run[k].at \in Alive /\ run'[k].at \in Alive \cup {"over"}
         \/ UNCHANGED runner /\ Create(k) /\ run[k].at = "none" /\ run'[k].at = "created"
         \/ /\ runner' = runner + 1
            /\ run'[k].at = IF run[k].at \in {"none", "over"} THEN run[k].at ELSE "lost"
<1>a. run \in [Jobs -> Run]
  BY DEF TypeOK
<1> DEFINE Goal ==
         \/ UNCHANGED runner /\ run'[k].at = run[k].at
         \/ UNCHANGED runner /\ run[k].at \in Alive /\ run'[k].at \in Alive \cup {"over"}
         \/ UNCHANGED runner /\ Create(k) /\ run[k].at = "none" /\ run'[k].at = "created"
         \/ /\ runner' = runner + 1
            /\ run'[k].at = IF run[k].at \in {"none", "over"} THEN run[k].at ELSE "lost"
<1>1. ASSUME NEW j \in Jobs, Create(j) PROVE Goal
  BY <1>1, <1>a DEF Create, Run
<1>2. ASSUME NEW j \in Jobs, Submit(j) PROVE Goal
  BY <1>2, <1>a DEF Submit, Run, Alive
<1>3. CASE StartJob
  <2>1. Head(pool) \in Jobs /\ run[Head(pool)].at = "pending"
    BY <1>3 DEF StartJob, TypeOK, PoolInv
  <2> QED BY <1>3, <2>1, <1>a DEF StartJob, Report, Run, Alive
<1>4. ASSUME NEW j \in Jobs, UpdateReads(j) PROVE Goal
  BY <1>4, <1>a DEF UpdateReads, Run, Alive
<1>5. ASSUME NEW j \in Jobs, UpdateWrites(j) PROVE Goal
  <2>1. PICK next \in AfterUpdate(j) :
          run' = [run EXCEPT ![j] = [next EXCEPT !.read = Absent]]
    BY <1>5 DEF UpdateWrites
  <2>2. [next EXCEPT !.read = Absent].at \in {"reading", "working", "over"}
    BY <1>5, AfterUpdateEffect DEF UpdateWrites, ShapeInv
  <2>3. UNCHANGED runner /\ run[j].at = "writing"
    BY <1>5 DEF UpdateWrites
  <2> QED BY <1>a, <2>1, <2>2, <2>3 DEF Alive
<1>6. ASSUME NEW j \in Jobs, Work(j) PROVE Goal
  <2>1. UNCHANGED runner /\ run[j].at = "working"
    BY <1>6 DEF Work
  <2> QED BY <1>6, <2>1, WorkEffect DEF ShapeInv, Alive
<1>7. ASSUME NEW j \in Jobs, WorkRaises(j) PROVE Goal
  BY <1>7, <1>a DEF WorkRaises, Report, Run, Alive
<1>8. CASE Elsewhere
  BY <1>8, ElsewhereKeeps
<1>9. CASE Restart
  BY <1>9, <1>a DEF Restart, Run
<1> QED
  BY <1>1, <1>2, <1>3, <1>4, <1>5, <1>6, <1>7, <1>8, <1>9, StepKinds DEF ThreadStep

\* What a job has achieved stays achieved.
LEMMA CompleteStep ==
  ASSUME TypeOK, ShapeInv, PoolInv, [Next]_vars, NEW k \in Jobs, Complete(k)
  PROVE  Complete(k)'
<1>a. run \in [Jobs -> Run] /\ Shape(run[k])
  BY DEF TypeOK, ShapeInv
<1>1. ASSUME NEW j \in Jobs, Create(j) PROVE Complete(k)'
  BY <1>1, <1>a DEF Create, Run, Complete
<1>2. ASSUME NEW j \in Jobs, Submit(j) PROVE Complete(k)'
  BY <1>2, <1>a DEF Submit, Run, Complete
<1>3. CASE StartJob
  <2>1. Head(pool) \in Jobs
    BY <1>3 DEF StartJob, TypeOK
  <2> QED BY <1>3, <2>1, <1>a DEF StartJob, Report, Run, Complete
<1>4. ASSUME NEW j \in Jobs, UpdateReads(j) PROVE Complete(k)'
  BY <1>4, <1>a DEF UpdateReads, Run, Complete
<1>5. ASSUME NEW j \in Jobs, UpdateWrites(j) PROVE Complete(k)'
  <2>1. PICK next \in AfterUpdate(j) :
          run' = [run EXCEPT ![j] = [next EXCEPT !.read = Absent]]
    BY <1>5 DEF UpdateWrites
  <2> DEFINE v == [next EXCEPT !.read = Absent]
  <2>2. v.pages = run[j].pages /\ v.owned = run[j].owned
        /\ v.indexed = run[j].indexed /\ v.attached = run[j].attached
    BY <1>5, AfterUpdateEffect DEF UpdateWrites, ShapeInv
  <2>3. run'[k] = IF k = j THEN v ELSE run[k]
    BY <1>a, <2>1
  <2> HIDE DEF v
  <2> QED BY <2>2, <2>3 DEF Complete
<1>6. ASSUME NEW j \in Jobs, Work(j) PROVE Complete(k)'
  BY <1>6, WorkEffect DEF ShapeInv, Complete
<1>7. ASSUME NEW j \in Jobs, WorkRaises(j) PROVE Complete(k)'
  BY <1>7, <1>a DEF WorkRaises, Report, Run, Complete
<1>8. CASE Elsewhere
  BY <1>8, ElsewhereKeeps DEF Complete
<1>9. CASE Restart
  BY <1>9, <1>a DEF Restart, Run, Complete
<1> QED
  BY <1>1, <1>2, <1>3, <1>4, <1>5, <1>6, <1>7, <1>8, <1>9, StepKinds DEF ThreadStep

\* The record a report writes: whose it is and what it may say.
LEMMA ReportedEffect ==
  ASSUME TypeOK, ShapeInv, OwnerInv, NEW k \in Jobs,
         UpdateWrites(k), run[k].read.status # "absent"
  PROVE  /\ Reported(k) \in Record
         /\ Reported(k).runner = runner
         /\ Reported(k).stage # "Interrupted"
         /\ Reported(k).status = "done" => run[k].call = "Ready"
         /\ Reported(k).status \in Finished => run[k].call \in {"Ready", "Failed"}
<1>1. run[k] \in Run /\ run[k].at = "writing" /\ run[k].read \in Record /\ run[k].call \in Calls
  BY DEF TypeOK, Run, UpdateWrites
<1>2. run[k].read.status \in Unfinished /\ run[k].read.runner = runner
  BY <1>1 DEF OwnerInv, Copies, Fits, Alive
<1>3. StatusOf(run[k].read, run[k].call) \in Unfinished \cup Finished
  BY <1>2 DEF StatusOf, Unfinished, Finished
<1>4. /\ StatusOf(run[k].read, run[k].call) = "done" => run[k].call = "Ready"
      /\ StatusOf(run[k].read, run[k].call) \in Finished => run[k].call \in {"Ready", "Failed"}
  BY <1>2 DEF StatusOf, Unfinished, Finished
<1>5. run[k].call # "Interrupted"
  BY <1>1 DEF Calls
<1> QED BY <1>1, <1>2, <1>3, <1>4, <1>5, TouchType DEF Reported

\* A copy of job k after a step is one of before, absent, a settled or aged
\* copy of before, the new record, or the one just reported.
Descends(k, r) ==
  \/ r \in Copies(k)
  \/ r = Absent
  \/ \E q \in Copies(k) : r = Age(q) \/ r = Settled(q)
  \/ Create(k) /\ r = NewRecord
  \/ UpdateWrites(k) /\ run[k].read.status # "absent" /\ r = Reported(k)

\* Every copy of a job after a step descends from one before it.
LEMMA CopiesStep ==
  ASSUME TypeOK, ShapeInv, PoolInv, [Next]_vars, NEW k \in Jobs, NEW r \in Copies(k)'
  PROVE  Descends(k, r)
<1>1. \A x, new : x \in Copies(k) /\ Replaces(k, x, new) => Descends(k, new)
  BY DEF Replaces, Descends, Copies
<1>2. Stored(k) \in Copies(k)
  BY DEF Stored, Copies
<1>3. CASE r = redis'[k] \/ r = memory'[k]
  <2>1. redis[k] \in Copies(k) /\ memory[k] \in Copies(k)
    BY DEF Copies
  <2> QED BY <1>1, <1>3, <2>1, StoreStep
<1>4. CASE r = run'[k].read
  <2>1. run[k].read \in Copies(k)
    BY DEF Copies
  <2> QED BY <1>2, <1>4, <2>1, ReadStep DEF Descends
<1>5. ASSUME NEW h \in Handlers, r = handler'[h].snap[k] PROVE Descends(k, r)
  <2>1. handler[h].snap[k] \in Copies(k)
    BY DEF Copies
  <2> QED BY <1>2, <1>5, <2>1, SnapStep DEF Descends
<1> QED BY <1>3, <1>4, <1>5 DEF Copies

\* Every copy of a job is a record.
LEMMA CopiesType == ASSUME TypeOK, NEW k \in Jobs PROVE Copies(k) \subseteq Record
BY DEF Copies, TypeOK, Run, Handler

\* Ageing a record changes neither its status, its runner nor its stage.
LEMMA AgeEffect ==
  ASSUME NEW r \in Record
  PROVE  Age(r).status = r.status /\ Age(r).runner = r.runner /\ Age(r).stage = r.stage
BY DEF Age, Record

\* Every step keeps a copy that says done truthful.
LEMMA DoneStep ==
  TypeOK /\ ShapeInv /\ PoolInv /\ DoneInv /\ OwnerInv /\ [Next]_vars => DoneInv'
<1> SUFFICES ASSUME TypeOK, ShapeInv, PoolInv, DoneInv, OwnerInv, [Next]_vars,
                    NEW k \in Jobs, NEW r \in Copies(k)', r.status = "done"
             PROVE  Complete(k)'
  BY DEF DoneInv
<1>1. ASSUME NEW q \in Copies(k), q.status = "done" PROVE Complete(k)'
  BY <1>1, CompleteStep DEF DoneInv
<1>2. CASE r = Absent \/ (Create(k) /\ r = NewRecord)
  BY <1>2, AbsentType DEF NewRecord
<1>3. ASSUME NEW q \in Copies(k), r = Age(q) \/ r = Settled(q) PROVE Complete(k)'
  <2>1. q \in Record
    BY CopiesType
  <2>2. q.status = "done"
    BY <1>3, <2>1, AgeEffect, SettledType
  <2> QED BY <1>1, <2>2
<1>4. CASE UpdateWrites(k) /\ run[k].read.status # "absent" /\ r = Reported(k)
  <2>1. run[k].call = "Ready"
    BY <1>4, ReportedEffect
  <2>2. run[k] \in Run /\ Shape(run[k]) /\ run[k].at = "writing"
    BY <1>4 DEF TypeOK, ShapeInv, UpdateWrites
  <2>3. Complete(k)
    BY <2>1, <2>2, JobsAssumption DEF Shape, Complete, Run
  <2> QED BY <2>3, CompleteStep
<1> QED BY <1>1, <1>2, <1>3, <1>4, CopiesStep DEF Descends

\* A copy that fits goes on fitting: the thread only moves as it may.
LEMMA FitsStep ==
  ASSUME TypeOK, ShapeInv, PoolInv, [Next]_vars, NEW k \in Jobs, NEW r \in Record, Fits(k, r)
  PROVE  Fits(k, r)'
<1>1. runner \in Nat /\ r.runner \in Nat
  BY JobsAssumption DEF TypeOK, Runners, Record
<1>2. CASE UNCHANGED runner /\ run'[k].at = run[k].at
  BY <1>2 DEF Fits
<1>3. CASE UNCHANGED runner /\ run[k].at \in Alive /\ run'[k].at \in Alive \cup {"over"}
  BY <1>3 DEF Fits, Alive
<1>4. CASE UNCHANGED runner /\ Create(k) /\ run[k].at = "none" /\ run'[k].at = "created"
  BY <1>4 DEF Fits, Alive, Unfinished
<1>5. CASE /\ runner' = runner + 1
           /\ run'[k].at = IF run[k].at \in {"none", "over"} THEN run[k].at ELSE "lost"
  BY <1>1, <1>5 DEF Fits, Alive
<1> QED BY <1>2, <1>3, <1>4, <1>5, AtStep

\* Every step keeps what each copy says of its runner.
LEMMA OwnerStep ==
  TypeOK /\ ShapeInv /\ PoolInv /\ OwnerInv /\ [Next]_vars => OwnerInv'
<1> SUFFICES ASSUME TypeOK, ShapeInv, PoolInv, OwnerInv, [Next]_vars, NEW k \in Jobs
             PROVE  /\ \A r \in Copies(k)' : Fits(k, r)'
                    /\ memory'[k].status \in Unfinished => memory'[k].runner = runner'
  BY DEF OwnerInv
<1>a. runner \in Nat /\ runner' \in Nat /\ runner \in Runners
  <2>1. TypeOK'
    BY TypeStep
  <2> QED BY <2>1, JobsAssumption DEF TypeOK, Runners
<1>b. \A q \in Copies(k) : q \in Record /\ Fits(k, q) /\ Fits(k, q)'
  BY CopiesType, FitsStep DEF OwnerInv
<1>c. Fits(k, Absent)'
  BY <1>a, AbsentType DEF Fits, Unfinished
<1>1. ASSUME NEW r \in Copies(k)' PROVE Fits(k, r)'
  <2>1. ASSUME NEW q \in Copies(k), r = Age(q) PROVE Fits(k, r)'
    BY <1>b, <2>1, AgeEffect DEF Fits
  <2>2. ASSUME NEW q \in Copies(k), r = Settled(q) PROVE Fits(k, r)'
    <3>1. CASE ~Orphaned(q)
      BY <1>b, <2>2, <3>1, SettledType
    <3>2. CASE Orphaned(q)
      <4>1. run[k].at \notin Alive /\ run[k].at # "none"
        BY <1>b, <3>2 DEF Fits, Orphaned, Unfinished
      <4>2. r.status = "failed" /\ r.runner = q.runner
        BY <1>b, <2>2, <3>2, SettledType
      <4>3. run'[k].at \notin Alive /\ run'[k].at # "none"
        BY <4>1, AtStep DEF Alive
      <4> QED BY <1>b, <4>2, <4>3 DEF Fits, Unfinished
    <3> QED BY <3>1, <3>2
  <2>3. CASE Create(k) /\ r = NewRecord
    <3>1. r.status = "queued" /\ r.runner = runner /\ UNCHANGED runner
      BY <2>3 DEF NewRecord, Create
    <3>2. run'[k].at = "created"
      BY <2>3 DEF Create, TypeOK, Run
    <3> QED BY <1>a, <3>1, <3>2 DEF Fits, Alive, Unfinished
  <2>4. CASE UpdateWrites(k) /\ run[k].read.status # "absent" /\ r = Reported(k)
    <3>1. r.runner = runner /\ r \in Record
          /\ (r.status \in Finished => run[k].call \in {"Ready", "Failed"})
      BY <2>4, ReportedEffect
    <3>2. UNCHANGED runner /\ run[k].at = "writing" /\ Shape(run[k])
      BY <2>4 DEF UpdateWrites, ShapeInv
    <3>3. PICK next \in AfterUpdate(k) :
            run' = [run EXCEPT ![k] = [next EXCEPT !.read = Absent]]
      BY <2>4 DEF UpdateWrites
    <3> DEFINE v == [next EXCEPT !.read = Absent]
    <3>4. v.at \in {"reading", "working", "over"}
          /\ (v.at = "over" <=> run[k].call \in {"Ready", "Failed"})
      BY <3>2, AfterUpdateEffect
    <3>5. run'[k] = v
      BY <3>3 DEF TypeOK
    <3> HIDE DEF v
    <3> QED BY <1>a, <3>1, <3>2, <3>4, <3>5 DEF Fits, Alive, Record, Finished
  <2> QED BY <1>b, <1>c, <2>1, <2>2, <2>3, <2>4, CopiesStep DEF Descends
<1>2. ASSUME memory'[k].status \in Unfinished PROVE memory'[k].runner = runner'
  <2>1. CASE Restart
    BY <1>2, <2>1, AbsentType DEF Restart, Unfinished
  <2>2. CASE ~Restart
    <3>1. UNCHANGED runner
      BY <2>2 DEF Next, ThreadStep, HandlerStep, Create, Submit, StartJob, UpdateReads,
             UpdateWrites, Work, WorkRaises, StartList, ListSettles, ListReturns,
             StartDismiss, DismissSettles, DismissDeletes, DayPasses, RedisFails,
             RedisRecovers, vars
    <3>2. memory[k] \in Record /\ \A h \in Handlers : handler[h].snap[k] \in Record
      BY DEF TypeOK, Handler
    <3>3. memory'[k] # Absent
      BY <1>2, AbsentType DEF Unfinished
    <3>4. \A h \in Handlers : Orphaned(handler[h].snap[k]) =>
            memory'[k] # Settled(handler[h].snap[k])
      BY <1>2, <3>2, SettledType DEF Unfinished
    <3>5. memory'[k] = Age(memory[k]) => memory'[k].runner = memory[k].runner
                                        /\ memory[k].status \in Unfinished
      BY <1>2, <3>2, AgeEffect
    <3>6. CASE memory'[k] = memory[k] \/ memory'[k] = Age(memory[k])
      BY <1>2, <3>1, <3>5, <3>6 DEF OwnerInv
    <3>7. CASE Create(k) /\ memory'[k] = NewRecord
      BY <3>1, <3>7 DEF NewRecord
    <3>8. CASE UpdateWrites(k) /\ run[k].read.status # "absent" /\ memory'[k] = Reported(k)
      BY <3>1, <3>8, ReportedEffect
    <3> QED BY <3>3, <3>4, <3>6, <3>7, <3>8, StoreStep DEF Replaces
  <2> QED BY <2>1, <2>2
<1> QED BY <1>1, <1>2

\* A report can make the stored job done only when every copy of it is the
\* living runner's.
LEMMA OrphanNotDone ==
  ASSUME TypeOK, ShapeInv, PoolInv, OwnerInv, [Next]_vars,
         NEW k \in Jobs, NEW q \in Copies(k), Orphaned(q), redis[k].status # "done"
  PROVE  redis'[k].status # "done"
<1>1. q \in Record /\ redis[k] \in Record /\ Fits(k, q)
  BY CopiesType DEF OwnerInv, TypeOK
<1>2. run[k].at \notin Alive /\ run[k].at # "none"
  BY <1>1 DEF Fits, Orphaned, Unfinished
<1>3. CASE redis'[k] = redis[k] \/ redis'[k] = Absent \/ redis'[k] = Age(redis[k])
  BY <1>1, <1>3, AbsentType, AgeEffect
<1>4. ASSUME NEW h \in Handlers, Orphaned(handler[h].snap[k]),
             redis'[k] = Settled(handler[h].snap[k])
      PROVE  redis'[k].status # "done"
  <2>1. handler[h].snap[k] \in Record
    BY DEF TypeOK, Handler
  <2> QED BY <1>4, <2>1, SettledType
<1>5. ~Create(k) /\ ~UpdateWrites(k)
  BY <1>2 DEF Create, UpdateWrites, Alive
<1> QED BY <1>3, <1>4, <1>5, StoreStep DEF Replaces

\* A request that is about to fail an orphaned job goes on finding it not done.
LEMMA SnapInvStep ==
  TypeOK /\ ShapeInv /\ PoolInv /\ OwnerInv /\ SnapInv /\ [Next]_vars => SnapInv'
<1> SUFFICES ASSUME TypeOK, ShapeInv, PoolInv, OwnerInv, SnapInv, [Next]_vars,
                    NEW h \in Handlers, NEW k \in Jobs
             PROVE  /\ Orphaned(handler[h].snap[k])' => redis'[k].status # "done"
                    /\ handler'[h].op = "list" /\ k \notin handler'[h].todo =>
                         ~Orphaned(handler[h].snap[k])'
  BY DEF SnapInv
<1>a. /\ handler \in [Handlers -> Handler]
      /\ handler[h].snap \in [Jobs -> Record]
      /\ Stored(k) \in Record /\ redis[k] \in Record
  BY StoredType DEF TypeOK, Handler
<1>1. CASE Restart
  <2>1. handler'[h] = Idle
    BY <1>1 DEF Restart
  <2> QED BY <2>1, AbsentType DEF Idle, Orphaned, Unfinished
<1>2. CASE ~Restart
  <2>1. UNCHANGED runner
    BY <1>2 DEF Next, ThreadStep, HandlerStep, Create, Submit, StartJob, UpdateReads,
           UpdateWrites, Work, WorkRaises, StartList, ListSettles, ListReturns,
           StartDismiss, DismissSettles, DismissDeletes, DayPasses, RedisFails,
           RedisRecovers, vars
  <2>2. Orphaned(handler[h].snap[k])' <=> Orphaned(handler'[h].snap[k])
    BY <2>1 DEF Orphaned
  <2>3. ASSUME Orphaned(handler'[h].snap[k]) PROVE redis'[k].status # "done"
    <3>1. handler'[h].snap[k] # Absent /\ handler'[h].snap[k] # Settled(handler[h].snap[k])
      BY <1>a, <2>3, SettledType, AbsentType DEF Orphaned, Unfinished
    <3>2. CASE handler'[h].snap[k] = handler[h].snap[k]
      <4>1. handler[h].snap[k] \in Copies(k) /\ redis[k].status # "done"
        BY <2>3, <3>2 DEF Copies, SnapInv
      <4> QED BY <2>3, <3>2, <4>1, OrphanNotDone
    <3>3. CASE handler'[h].snap[k] = Stored(k) /\ UNCHANGED <<redis, memory, runner>>
      <4>1. Stored(k) = redis[k]
        BY <2>3, <3>3 DEF Stored, OwnerInv, Orphaned
      <4> QED BY <2>3, <3>3, <4>1 DEF Orphaned, Unfinished
    <3> QED BY <3>1, <3>2, <3>3, SnapStep
  <2>4. ASSUME handler'[h].op = "list", k \notin handler'[h].todo
        PROVE  ~Orphaned(handler'[h].snap[k])
    <3>1. ASSUME NEW g \in Handlers, StartList(g)
          PROVE  ~Orphaned(handler'[h].snap[k])
      <4>1. CASE g = h
        <5>1. handler'[h].snap[k] = Stored(k) /\ Stored(k).status = "absent"
          BY <1>a, <2>4, <3>1, <4>1 DEF StartList
        <5> QED BY <5>1 DEF Orphaned, Unfinished
      <4>2. CASE g # h
        BY <1>a, <2>4, <3>1, <4>2 DEF StartList, SnapInv
      <4> QED BY <4>1, <4>2
    <3>2. ASSUME NEW g \in Handlers, NEW j \in Jobs, ListSettles(g, j)
          PROVE  ~Orphaned(handler'[h].snap[k])
      <4>1. CASE g = h /\ j = k
        <5>1. handler'[h].snap[k] \in {Absent, Settled(handler[h].snap[k])}
          BY <1>a, <3>2, <4>1 DEF ListSettles, Handler
        <5> QED BY <1>a, <5>1, SettledType, AbsentType DEF Orphaned, Unfinished
      <4>2. CASE g = h /\ j # k
        <5>1. /\ handler'[h].snap[k] = handler[h].snap[k]
              /\ handler[h].op = "list" /\ k \notin handler[h].todo
          BY <1>a, <2>4, <3>2, <4>2 DEF ListSettles, Handler
        <5> QED BY <5>1 DEF SnapInv
      <4>3. CASE g # h
        BY <1>a, <2>4, <3>2, <4>3 DEF ListSettles, SnapInv
      <4> QED BY <4>1, <4>2, <4>3
    <3>3. ASSUME NEW g \in Handlers, ListReturns(g)
          PROVE  ~Orphaned(handler'[h].snap[k])
      BY <1>a, <2>4, <3>3 DEF ListReturns, Idle, SnapInv
    <3>4. ASSUME NEW g \in Handlers, NEW j \in Jobs,
                 StartDismiss(g, j) \/ DismissSettles(g, j) \/ DismissDeletes(g, j)
          PROVE  ~Orphaned(handler'[h].snap[k])
      <4>1. g # h
        BY <1>a, <2>4, <3>4
           DEF StartDismiss, DismissSettles, DismissDeletes, Idle, Handler
      <4> QED BY <1>a, <2>4, <3>4, <4>1
             DEF StartDismiss, DismissSettles, DismissDeletes, SnapInv
    <3>5. CASE UNCHANGED handler
      BY <2>4, <3>5 DEF SnapInv
    <3> QED BY <1>2, <3>1, <3>2, <3>3, <3>4, <3>5
         DEF Next, ThreadStep, HandlerStep, Create, Submit, StartJob, UpdateReads,
             UpdateWrites, Work, WorkRaises, DayPasses, RedisFails, RedisRecovers, vars
  <2> QED BY <2>2, <2>3, <2>4
<1> QED BY <1>1, <1>2

\* Only a job whose thread is lost is ever called interrupted.
LEMMA InterruptedStep ==
  TypeOK /\ ShapeInv /\ PoolInv /\ OwnerInv /\ InterruptedMeansGone /\ [Next]_vars
    => InterruptedMeansGone'
<1> SUFFICES ASSUME TypeOK, ShapeInv, PoolInv, OwnerInv, InterruptedMeansGone, [Next]_vars,
                    NEW k \in Jobs,
                    redis'[k].stage = "Interrupted" \/ memory'[k].stage = "Interrupted"
             PROVE  run'[k].at \in {"lost", "over"}
  BY DEF InterruptedMeansGone
<1>a. redis[k] \in Record /\ memory[k] \in Record /\ run[k] \in Run
      /\ \A h \in Handlers : handler[h].snap[k] \in Record
  BY DEF TypeOK, Handler
<1>1. run[k].at \in {"lost", "over"}
  <2>1. ASSUME NEW r \in {redis[k], memory[k]}, NEW new, new.stage = "Interrupted",
               Replaces(k, r, new)
        PROVE  run[k].at \in {"lost", "over"}
    <3>1. CASE new = r \/ new = Age(r)
      BY <1>a, <2>1, <3>1, AgeEffect DEF InterruptedMeansGone
    <3>2. CASE new = Absent \/ (Create(k) /\ new = NewRecord)
      BY <2>1, <3>2, AbsentType DEF NewRecord
    <3>3. ASSUME NEW h \in Handlers, Orphaned(handler[h].snap[k])
          PROVE  run[k].at \in {"lost", "over"}
      <4>1. Fits(k, handler[h].snap[k])
        BY DEF OwnerInv, Copies
      <4> QED BY <1>a, <3>3, <4>1 DEF Fits, Orphaned, Unfinished, Alive, Run, Places
    <3>4. CASE UpdateWrites(k) /\ run[k].read.status # "absent" /\ new = Reported(k)
      BY <2>1, <3>4, ReportedEffect
    <3> QED BY <2>1, <3>1, <3>2, <3>3, <3>4 DEF Replaces
  <2> QED BY <2>1, StoreStep
<1> QED BY <1>1, AtStep DEF Alive
-----------------------------------------------------------------------------
(* The theorems *)

\* The invariant holds initially and every step keeps it.
LEMMA Inductive ==
  /\ Init => IInv
  /\ IInv /\ [Next]_vars => IInv'
<1>1. ASSUME Init PROVE IInv
  <2>1. TypeOK
    BY <1>1, TypeInit
  <2>2. ShapeInv
    BY <1>1 DEF Init, NoRun, ShapeInv, Shape
  <2>3. PoolInv
    <3>1. pool = <<>>
      BY <1>1 DEF Init
    <3> QED BY <3>1 DEF PoolInv
  <2>4. \A k \in Jobs : Copies(k) \subseteq {Absent}
    BY <1>1 DEF Init, Copies, NoRun, Idle
  <2>5. DoneInv
    BY <2>4, AbsentType DEF DoneInv
  <2>6. OwnerInv
    <3>1. runner = 0 /\ \A k \in Jobs : memory[k] = Absent /\ run[k].at = "none"
      BY <1>1 DEF Init, NoRun
    <3> QED BY <2>4, <3>1, AbsentType DEF OwnerInv, Fits, Unfinished, Alive
  <2>7. SnapInv
    BY <1>1, AbsentType DEF Init, Idle, SnapInv, Orphaned, Unfinished
  <2>8. InterruptedMeansGone
    BY <1>1, AbsentType DEF Init, InterruptedMeansGone
  <2> QED BY <2>1, <2>2, <2>3, <2>5, <2>6, <2>7, <2>8 DEF IInv
<1>2. ASSUME IInv, [Next]_vars PROVE IInv'
  BY <1>2, TypeStep, ShapeStep, PoolStep, DoneStep, OwnerStep, SnapInvStep, InterruptedStep
     DEF IInv
<1> QED BY <1>1, <1>2

\* The inductive invariant holds in every reachable state.
THEOREM Invariance == Spec => []IInv
BY Inductive, PTL DEF Spec

\* Every variable keeps its type: counters stay within the source's pages,
\* the pool holds jobs, the records are records.
THEOREM TypeCorrect == Spec => []TypeOK
<1>1. IInv => TypeOK
  BY DEF IInv
<1> QED BY <1>1, Invariance, PTL

\* A job that any copy calls done has every document of its source recorded,
\* indexed and attached (jobs.py _run, api.py _ingest_pipeline).
THEOREM DoneIsAttached == Spec => []DoneMeansAttached
<1>1. IInv => DoneMeansAttached
  BY DEF IInv, DoneInv, DoneMeansAttached, Copies
<1> QED BY <1>1, Invariance, PTL

\* A job that any copy calls interrupted is not run by the living process
\* (jobs.py _settle).
THEOREM InterruptedIsGone == Spec => []InterruptedMeansGone
<1>1. IInv => InterruptedMeansGone
  BY DEF IInv
<1> QED BY <1>1, Invariance, PTL

\* A poll reports as queued or running only jobs that the living process
\* accepted and has not lost (jobs.py list_for).
THEOREM PollIsTruthful == Spec => []PollReportsTheLiving
<1>1. IInv => PollReportsTheLiving
  <2> SUFFICES ASSUME IInv, NEW h \in Handlers, NEW j \in Jobs,
                      handler[h].op = "list", j \notin handler[h].todo,
                      handler[h].snap[j].status \in Unfinished
               PROVE  run[j].at \notin {"none", "lost"}
    BY DEF PollReportsTheLiving
  <2>1. handler[h].snap[j].runner = runner
    BY DEF IInv, SnapInv, Orphaned
  <2>2. Fits(j, handler[h].snap[j]) /\ runner \in Nat
    BY JobsAssumption DEF IInv, OwnerInv, Copies, TypeOK, Runners
  <2> QED BY <2>1, <2>2 DEF Fits, Unfinished
<1> QED BY <1>1, Invariance, PTL

\* A finished job in Redis keeps its status until it is deleted: no late
\* report, stale poll, outage or restart rewrites it (jobs.py update, _settle).
THEOREM FinishedStays == Spec => FinishedIsFinal
<1> DEFINE Keeps == \A j \in Jobs :
             redis[j].status \in Finished =>
               redis'[j].status \in {redis[j].status, "absent"}
<1>1. IInv /\ [Next]_vars => Keeps
  <2> SUFFICES ASSUME IInv, [Next]_vars, NEW j \in Jobs, redis[j].status \in Finished
               PROVE  redis'[j].status \in {redis[j].status, "absent"}
    OBVIOUS
  <2>a. TypeOK /\ ShapeInv /\ OwnerInv /\ SnapInv /\ redis[j] \in Record
    BY DEF IInv, TypeOK
  <2>1. Fits(j, redis[j])
    BY <2>a DEF OwnerInv, Copies
  <2>2. run[j].at \notin Alive \cup {"none"}
    BY <2>1 DEF Fits, Finished, Unfinished
  <2>3. ~Create(j) /\ ~UpdateWrites(j)
    BY <2>2 DEF Create, UpdateWrites, Alive
  <2>4. CASE redis'[j] = redis[j] \/ redis'[j] = Absent \/ redis'[j] = Age(redis[j])
    BY <2>a, <2>4, AbsentType, AgeEffect
  <2>5. ASSUME NEW h \in Handlers, Orphaned(handler[h].snap[j]),
               redis'[j] = Settled(handler[h].snap[j])
        PROVE  redis'[j].status \in {redis[j].status, "absent"}
    <3>1. redis[j].status = "failed"
      BY <2>a, <2>5 DEF SnapInv, Finished
    <3>2. handler[h].snap[j] \in Record
      BY <2>a DEF TypeOK, Handler
    <3> QED BY <2>5, <3>1, <3>2, SettledType
  <2> QED BY <2>a, <2>3, <2>4, <2>5, StoreStep DEF Replaces
<1> QED BY <1>1, Invariance, PTL DEF Spec, FinishedIsFinal

-----------------------------------------------------------------------------
(* The lifecycle                                                             *)

\* The thread has not reported Starting, or has.
Waits(w) == w.at \in {"created", "pending"} \/ (w.at \in {"reading", "writing"} /\ w.call = "Starting")
Runs(w) == w.at = "working" \/ (w.at \in {"reading", "writing"} /\ w.call # "Starting")

\* A record that says a job was interrupted.
Cut(r) == r.status = "failed" /\ r.stage = "Interrupted"

\* While Redis answers, the record of a job that runs says what its thread last
\* reported and what the thread read is what is stored; a job whose thread came to
\* its end is finished and not interrupted, one whose thread is lost unfinished or
\* interrupted, unless it was removed.  A request is about to fail only a lost
\* job, and to delete only one that is finished or removed already.
FirmJobs ==
  \A j \in Jobs :
       /\ Waits(run[j]) => redis[j].status = "queued"
       /\ Runs(run[j]) => redis[j].status = "running"
       /\ run[j].at = "writing" => run[j].read = redis[j]
       /\ run[j].at = "over" => redis[j].status \notin Unfinished /\ ~Cut(redis[j])
       /\ run[j].at = "lost" =>
            redis[j].status \in Unfinished \cup {"absent"} \/ Cut(redis[j])

FirmSnaps ==
  \A h \in Handlers, j \in Jobs :
    handler[h].snap[j].status \in Unfinished /\ handler[h].snap[j].runner # runner
      => run[j].at = "lost"

FirmTodo ==
  /\ \A h \in Handlers : \A j \in handler[h].todo :
       /\ handler[h].snap[j].status # "absent"
       /\ handler[h].snap[j].status \in Finished \/ handler[h].op = "delete"
            => redis[j].status \in Finished \cup {"absent"}
  /\ \A h \in Handlers : handler[h].op \in {"settle", "delete"} =>
       \A j, k \in handler[h].todo : j = k

FirmInv == redisUp /\ FirmJobs /\ FirmSnaps /\ FirmTodo

\* A step after which a client is told the same.
LEMMA SameView ==
  ASSUME redisUp, redisUp', \A j \in Jobs : View(redis'[j], run'[j].at) = View(redis[j], run[j].at)
  PROVE  phase' = phase
BY DEF phase, Stored

\* A step after which a client is told something else of one job.
LEMMA OtherView ==
  ASSUME redisUp, redisUp', NEW j \in Jobs, NEW new, new = View(redis'[j], run'[j].at),
         \A k \in Jobs \ {j} : redis'[k] = redis[k] /\ run'[k] = run[k]
  PROVE  phase' = [phase EXCEPT ![j] = new] /\ phase[j] = View(redis[j], run[j].at)
BY DEF phase, Stored

\* A record of a job that waits or runs is told as it is.
LEMMA PlainView ==
  ASSUME NEW r, NEW at, r.status \notin {"absent", "failed"}
  PROVE  View(r, at) = r.status
BY DEF View

\* What is stored of a job whose thread lives is the living runner's.
LEMMA AliveFits ==
  ASSUME IInv, NEW j \in Jobs, run[j].at \in Alive
  PROVE  /\ redis[j].status \notin Finished /\ ~Orphaned(redis[j])
         /\ \A h \in Handlers : ~Orphaned(handler[h].snap[j]) /\ handler[h].snap[j].status \notin Finished
<1>1. Fits(j, redis[j]) /\ \A h \in Handlers : Fits(j, handler[h].snap[j])
  BY DEF IInv, OwnerInv, Copies
<1> QED BY <1>1 DEF Fits, Orphaned, Unfinished, Finished

\* The steps of the lifecycle before Redis fails.
Moves ==
  \E j \in Jobs : \/ Lifecycle!Queue(j) \/ Lifecycle!Begin(j) \/ Lifecycle!Succeed(j)
                  \/ Lifecycle!Fail(j) \/ Lifecycle!Interrupt(j) \/ Lifecycle!Forget(j)
                  \/ Lifecycle!Revive(j)

\* One job moves as the lifecycle has it.
LEMMA OneMoves ==
  ASSUME outages = 0, outages' = 0, NEW j \in Jobs, NEW old, NEW new,
         phase' = [phase EXCEPT ![j] = new], phase[j] = old,
         \/ old = "none" /\ new = "queued"
         \/ old = "queued" /\ new = "running"
         \/ old = "running" /\ new = "done"
         \/ old = "running" /\ new = "failed"
         \/ old \in {"queued", "running", "dropped"} /\ new = "interrupted"
         \/ old \in {"done", "failed"} /\ new = "gone"
         \/ old = "interrupted" /\ new = "dropped"
         \/ old = new
  PROVE  Moves \/ phase' = phase
<1>1. (outages = 0) /\ (outages' = 0) /\ ((outages = 0)' <=> (outages = 0))
  OBVIOUS
<1>2. CASE old = new
  <2>1. phase = [k \in Jobs |-> phase[k]]
    BY DEF phase
  <2> QED BY <1>2, <2>1
<1>3. CASE old = "none" /\ new = "queued"
  BY <1>1, <1>3 DEF Moves, Lifecycle!Queue, Lifecycle!Become
<1>4. CASE old = "queued" /\ new = "running"
  BY <1>1, <1>4 DEF Moves, Lifecycle!Begin, Lifecycle!Become
<1>5. CASE old = "running" /\ new = "done"
  BY <1>1, <1>5 DEF Moves, Lifecycle!Succeed, Lifecycle!Become
<1>6. CASE old = "running" /\ new = "failed"
  BY <1>1, <1>6 DEF Moves, Lifecycle!Fail, Lifecycle!Become
<1>7. CASE old \in {"queued", "running", "dropped"} /\ new = "interrupted"
  BY <1>1, <1>7 DEF Moves, Lifecycle!Interrupt, Lifecycle!Revive, Lifecycle!Become
<1>8. CASE old \in {"done", "failed"} /\ new = "gone"
  BY <1>1, <1>8 DEF Moves, Lifecycle!Forget, Lifecycle!Become
<1>9. CASE old = "interrupted" /\ new = "dropped"
  BY <1>1, <1>9 DEF Moves, Lifecycle!Forget, Lifecycle!Become
<1> QED BY <1>2, <1>3, <1>4, <1>5, <1>6, <1>7, <1>8, <1>9

\* A step that leaves every record and request where it is.
LEMMA FirmKept ==
  ASSUME IInv, FirmInv, redisUp' = redisUp, redis' = redis, handler' = handler, runner' = runner, NEW j \in Jobs,
         \A k \in Jobs \ {j} : run'[k] = run[k],
         Waits(run'[j]) => redis[j].status = "queued",
         Runs(run'[j]) => redis[j].status = "running",
         run'[j].at = "writing" => run'[j].read = redis[j],
         run[j].at \in Alive, run'[j].at \in Alive
  PROVE  FirmInv' /\ phase' = phase
<1>1. \A h \in Handlers : ~Orphaned(handler[h].snap[j])
  BY AliveFits
<1>2. FirmJobs'
  BY DEF FirmInv, FirmJobs, Alive, Cut
<1>3. FirmSnaps' /\ FirmTodo'
  BY <1>1 DEF FirmInv, FirmSnaps, FirmTodo, Orphaned
<1>4. redis[j].status \notin {"absent", "failed"}
  BY DEF FirmInv, FirmJobs, FirmSnaps, FirmTodo, Waits, Runs, Alive
<1>5. \A k \in Jobs : View(redis'[k], run'[k].at) = View(redis[k], run[k].at)
  BY <1>4, PlainView
<1> QED BY <1>2, <1>3, <1>5, SameView DEF FirmInv, FirmJobs, FirmSnaps, FirmTodo

\* A new job is queued.
LEMMA CreateFirm ==
  ASSUME IInv, FirmInv, outages = 0, NEW j \in Jobs, Create(j)
  PROVE  FirmInv' /\ (Moves \/ phase' = phase)
<1>1. /\ run[j].at = "none" /\ run' = [run EXCEPT ![j].at = "created"] /\ redis' = [redis EXCEPT ![j] = NewRecord]
      /\ redisUp' = redisUp /\ outages' = outages /\ handler' = handler
  BY DEF Create, Put, FirmInv, FirmJobs, FirmSnaps, FirmTodo
<1>2. redis[j].status = "absent"
  BY <1>1 DEF IInv, OwnerInv, Copies, Fits
<1>3. /\ redis'[j] = NewRecord /\ run'[j].at = "created" /\ NewRecord.status = "queued"
      /\ \A k \in Jobs \ {j} : redis'[k] = redis[k] /\ run'[k] = run[k]
  BY <1>1 DEF IInv, TypeOK, Run, NewRecord
<1>4. \A h \in Handlers : Fits(j, handler[h].snap[j])
  BY DEF IInv, OwnerInv, Copies
<1>5. \A h \in Handlers : handler[h].snap[j].status = "absent"
  BY <1>1, <1>4 DEF Fits
<1>6. FirmInv'
  <2>1. FirmJobs'
    BY <1>1, <1>3 DEF FirmInv, FirmJobs, Waits, Runs, Cut
  <2>2. FirmSnaps'
    BY <1>1, <1>3, <1>5 DEF FirmInv, FirmSnaps, Create, Unfinished
  <2>3. FirmTodo'
    <3>1. \A h \in Handlers : handler[h].todo \subseteq Jobs
      BY DEF IInv, TypeOK, Handler
    <3>2. \A h \in Handlers : j \notin handler[h].todo
      BY <1>5 DEF FirmInv, FirmTodo
    <3> QED BY <1>1, <1>3, <3>1, <3>2 DEF FirmInv, FirmTodo
  <2> QED BY <1>1, <2>1, <2>2, <2>3 DEF FirmInv
<1>7. phase' = [phase EXCEPT ![j] = "queued"] /\ phase[j] = "none"
  BY <1>1, <1>2, <1>3, OtherView DEF FirmInv, FirmJobs, FirmSnaps, FirmTodo, View
<1> QED BY <1>1, <1>6, <1>7, OneMoves

\* A report reads what is stored: nobody settles a job whose thread lives.
LEMMA UpdateReadsFirm ==
  ASSUME IInv, FirmInv, NEW j \in Jobs, UpdateReads(j)
  PROVE  FirmInv' /\ phase' = phase
<1>1. ~Orphaned(redis[j])
  BY AliveFits DEF UpdateReads, Alive
<1>2. /\ run[j].at = "reading" /\ UNCHANGED <<redisUp, redis, handler, runner>> /\ run[j] \in Run
      /\ run' = [run EXCEPT ![j] = [run[j] EXCEPT !.at = "writing", !.read = redis[j]]]
  BY <1>1 DEF UpdateReads, store, FirmInv, FirmJobs, FirmSnaps, FirmTodo, Stored, Settled, IInv, TypeOK
<1>3. /\ run'[j].at = "writing" /\ run'[j].call = run[j].call /\ run'[j].read = redis[j]
      /\ \A k \in Jobs \ {j} : run'[k] = run[k]
  BY <1>2 DEF IInv, TypeOK, Run
<1>4. Waits(run'[j]) => Waits(run[j])
  BY <1>2, <1>3 DEF Waits
<1>5. Runs(run'[j]) => Runs(run[j])
  BY <1>2, <1>3 DEF Runs
<1> QED BY <1>2, <1>3, <1>4, <1>5, FirmKept DEF FirmInv, FirmJobs, FirmSnaps, FirmTodo, Alive

\* A report moves the record along, and its thread with it.
LEMMA UpdateWritesFirm ==
  ASSUME IInv, FirmInv, outages = 0, NEW j \in Jobs, UpdateWrites(j)
  PROVE  FirmInv' /\ (Moves \/ phase' = phase)
<1> DEFINE old == redis[j].status
<1> DEFINE new == StatusOf(redis[j], run[j].call)
<1>1. run[j] \in Run /\ run[j].at = "writing" /\ redis[j] \in Record /\ run[j].read = redis[j]
  BY DEF IInv, TypeOK, FirmInv, FirmJobs, FirmSnaps, FirmTodo, UpdateWrites
<1>2. IF run[j].call = "Starting" THEN old = "queued" ELSE old = "running"
  BY <1>1 DEF FirmInv, FirmJobs, FirmSnaps, FirmTodo, Waits, Runs
<1>3. new = CASE run[j].call = "Starting" -> "running"
              [] run[j].call = "Ready" -> "done"
              [] run[j].call = "Failed" -> "failed"
              [] OTHER -> old
  BY DEF StatusOf
<1>4. UNCHANGED <<redisUp, outages, handler>>
      /\ redis' = [redis EXCEPT ![j] = Touch(redis[j], new, run[j].call)]
  BY <1>1, <1>2 DEF UpdateWrites, Put, FirmInv, FirmJobs, FirmSnaps, FirmTodo
<1>5. /\ redis'[j].status = new /\ redis'[j].stage = run[j].call /\ run[j].call # "Interrupted"
      /\ \A k \in Jobs \ {j} : redis'[k] = redis[k]
  BY <1>1, <1>4 DEF IInv, TypeOK, Touch, Record, Run, Calls
<1>6. PICK next \in AfterUpdate(j) : run' = [run EXCEPT ![j] = [next EXCEPT !.read = Absent]]
  BY DEF UpdateWrites
<1> DEFINE v == [next EXCEPT !.read = Absent]
<1>7. run'[j] = v /\ \A k \in Jobs \ {j} : run'[k] = run[k]
  BY <1>6 DEF IInv, TypeOK
<1>8. v.at \in {"reading", "working", "over"} /\ (v.at = "over" <=> run[j].call \in {"Ready", "Failed"})
  BY <1>1, AfterUpdateEffect DEF IInv, ShapeInv
<1>9. v.at = "reading" => v.call # "Starting"
  BY <1>1 DEF AfterUpdate, Report, Run
<1> HIDE DEF v, old, new
<1>10. ~Waits(v) /\ (Runs(v) => new = "running")
  BY <1>2, <1>3, <1>8, <1>9 DEF Waits, Runs
<1>11. FirmInv'
  <2>1. \A h \in Handlers : j \in handler[h].todo => handler[h].op # "delete"
    BY <1>2 DEF FirmInv, FirmJobs, FirmSnaps, FirmTodo, Finished, old
  <2>2. \A h \in Handlers : handler[h].snap[j].status \notin Finished /\ ~Orphaned(handler[h].snap[j])
    BY <1>1, AliveFits DEF Alive
  <2>3. v.at = "over" => new \notin Unfinished
    BY <1>3, <1>8 DEF Unfinished
  <2>4. FirmJobs'
    BY <1>5, <1>7, <1>8, <1>10, <2>3 DEF FirmInv, FirmJobs, Cut
  <2>5. FirmSnaps'
    BY <1>4, <1>7, <2>2 DEF FirmInv, FirmSnaps, Orphaned, UpdateWrites
  <2>6. FirmTodo'
    <3>1. \A h \in Handlers : handler[h].todo \subseteq Jobs
      BY DEF IInv, TypeOK, Handler
    <3> QED BY <1>4, <1>5, <2>1, <2>2, <3>1 DEF FirmInv, FirmTodo
  <2> QED BY <1>4, <2>4, <2>5, <2>6 DEF FirmInv
<1>12. phase' = [phase EXCEPT ![j] = new] /\ phase[j] = old
  <2>1. old \in {"queued", "running"} /\ new # "absent" /\ ~Cut(redis'[j])
    BY <1>2, <1>3, <1>5 DEF Cut
  <2>2. View(redis'[j], run'[j].at) = new /\ View(redis[j], run[j].at) = old
    BY <1>5, <2>1 DEF View, Cut, old
  <2> QED BY <1>4, <1>5, <1>7, <2>2, OtherView DEF FirmInv, FirmJobs, FirmSnaps, FirmTodo
<1> QED BY <1>2, <1>3, <1>4, <1>11, <1>12, OneMoves

\* The steps of threads that leave the store alone.
LEMMA ThreadsFirm ==
  ASSUME IInv, FirmInv, NEW j \in Jobs, Submit(j) \/ Work(j) \/ WorkRaises(j)
  PROVE  FirmInv' /\ phase' = phase
<1>1. UNCHANGED <<redisUp, redis, handler, runner>>
  BY DEF Submit, Work, WorkRaises, store
<1>2. CASE Submit(j)
  <2>1. run'[j].at = "pending" /\ run[j].at = "created" /\ \A k \in Jobs \ {j} : run'[k] = run[k]
    BY <1>2 DEF Submit, IInv, TypeOK, Run
  <2> QED BY <1>1, <2>1, FirmKept DEF Waits, Runs, FirmInv, FirmJobs, FirmSnaps, FirmTodo, Alive
<1>3. CASE WorkRaises(j)
  <2>1. /\ run'[j].at = "reading" /\ run'[j].call = "Failed" /\ run[j].at = "working"
        /\ \A k \in Jobs \ {j} : run'[k] = run[k]
    BY <1>3 DEF WorkRaises, Report, IInv, TypeOK, Run
  <2> QED BY <1>1, <2>1, FirmKept DEF Waits, Runs, FirmInv, FirmJobs, FirmSnaps, FirmTodo, Alive
<1>4. CASE Work(j)
  <2>1. run[j].at = "working" /\ run'[j].at \in {"reading", "working"}
        /\ \A k \in Jobs \ {j} : run'[k] = run[k]
    BY <1>4, WorkEffect DEF Work, IInv, ShapeInv
  <2>2. run'[j].at = "reading" => run'[j].call # "Starting"
    <3>1. run[j] \in Run
      BY DEF IInv, TypeOK
    <3>2. CASE \E n \in 1 .. MaxPages : Becomes(j, Crawl(run[j], n))
      BY <3>1, <3>2 DEF Becomes, Crawl, IInv, TypeOK, Run
    <3>3. CASE Becomes(j, Fetch(run[j])) \/ Becomes(j, CrawlUnavailable(run[j])) \/ Becomes(j, ParseAndOwn(run[j]))
               \/ Becomes(j, IndexFile(run[j])) \/ Becomes(j, AttachFile(run[j]))
      BY <3>1, <3>3 DEF Becomes, Fetch, CrawlUnavailable, ParseAndOwn, IndexFile, AttachFile, IInv, TypeOK, Run
    <3>4. CASE Becomes(j, PageStep(run[j])) /\ run[j].call = "Indexing"
      <4>1. run'[j] = PageStep(run[j])
        BY <3>4 DEF Becomes, IInv, TypeOK
      <4> QED BY <3>1, <3>4, <4>1 DEF PageStep, Run
    <3> QED BY <1>4, <3>2, <3>3, <3>4 DEF Work
  <2> QED BY <1>1, <2>1, <2>2, FirmKept DEF Waits, Runs, FirmInv, FirmJobs, FirmSnaps, FirmTodo, Alive
<1> QED BY <1>2, <1>3, <1>4

\* A pool thread takes the next job.
LEMMA StartJobFirm ==
  ASSUME IInv, FirmInv, StartJob
  PROVE  FirmInv' /\ phase' = phase
<1> DEFINE j == Head(pool)
<1>1. j \in Jobs /\ run[j].at = "pending"
  BY DEF StartJob, IInv, TypeOK, PoolInv
<1>2. UNCHANGED <<redisUp, redis, handler, runner>> /\ run' = [run EXCEPT ![j] = Report(j, "Starting")]
  BY DEF StartJob, store
<1> HIDE DEF j
<1>3. run'[j].at = "reading" /\ run'[j].call = "Starting" /\ \A k \in Jobs \ {j} : run'[k] = run[k]
  BY <1>1, <1>2 DEF Report, IInv, TypeOK, Run
<1> QED BY <1>1, <1>2, <1>3, FirmKept DEF Waits, Runs, FirmInv, FirmJobs, FirmSnaps, FirmTodo, Alive

\* A request begins, or returns.
LEMMA RequestFirm ==
  ASSUME IInv, FirmInv, NEW h \in Handlers,
         StartList(h) \/ ListReturns(h) \/ \E j \in Jobs : StartDismiss(h, j)
  PROVE  FirmInv' /\ phase' = phase
<1>1. UNCHANGED <<redisUp, redis, run>>
  BY DEF StartList, ListReturns, StartDismiss, store
<1>2. /\ \A i \in Handlers \ {h} : handler'[i] = handler[i]
      /\ handler'[h].op # "delete"
      /\ \A k \in handler'[h].todo : handler'[h].snap[k] = redis[k] /\ redis[k].status # "absent"
      /\ \A k \in Jobs : handler'[h].snap[k] \in {redis[k], Absent}
      /\ handler'[h].op = "settle" => \A k, l \in handler'[h].todo : k = l
  <2>1. \A k \in Jobs : Stored(k) = redis[k]
    BY DEF Stored, FirmInv, FirmJobs, FirmSnaps, FirmTodo
  <2>2. CASE StartList(h)
    BY <2>1, <2>2 DEF StartList, IInv, TypeOK
  <2>3. CASE ListReturns(h)
    BY <2>3 DEF ListReturns, Idle, IInv, TypeOK
  <2>4. ASSUME NEW j \in Jobs, StartDismiss(h, j)
        PROVE  /\ \A i \in Handlers \ {h} : handler'[i] = handler[i]
               /\ handler'[h].op # "delete"
               /\ \A k \in handler'[h].todo : handler'[h].snap[k] = redis[k] /\ redis[k].status # "absent"
               /\ \A k \in Jobs : handler'[h].snap[k] \in {redis[k], Absent}
               /\ handler'[h].op = "settle" => \A k, l \in handler'[h].todo : k = l
    BY <2>1, <2>4 DEF StartDismiss, Idle, IInv, TypeOK
  <2> QED BY <2>2, <2>3, <2>4
<1>3. \A k \in Jobs : Orphaned(redis[k]) => run[k].at = "lost"
  <2> SUFFICES ASSUME NEW k \in Jobs, Orphaned(redis[k]) PROVE run[k].at = "lost"
    OBVIOUS
  <2>1. run[k].at \notin Alive
    BY AliveFits
  <2>2. Fits(k, redis[k]) /\ run[k] \in Run
    BY DEF IInv, OwnerInv, Copies, TypeOK
  <2> QED BY <2>1, <2>2 DEF FirmInv, FirmJobs, FirmSnaps, FirmTodo, Fits, Orphaned, Unfinished, Run, Places, Alive
<1>4. ~Orphaned(Absent)
  BY DEF Orphaned, Absent, Unfinished
<1>5. FirmInv'
  <2>1. FirmJobs'
    BY <1>1 DEF FirmInv, FirmJobs
  <2>2. FirmSnaps'
    <3>1. runner' = runner
      BY DEF StartList, ListReturns, StartDismiss
    <3>2. \A k \in Jobs : ~Orphaned(handler'[h].snap[k]) \/ run[k].at = "lost"
      BY <1>2, <1>3, <1>4
    <3> QED BY <1>1, <1>2, <3>1, <3>2 DEF FirmInv, FirmSnaps, Orphaned
  <2>3. FirmTodo'
    BY <1>1, <1>2 DEF FirmInv, FirmTodo
  <2> QED BY <1>1, <2>1, <2>2, <2>3 DEF FirmInv
<1> QED BY <1>1, <1>5, SameView DEF FirmInv, FirmJobs, FirmSnaps, FirmTodo

\* A request settles or drops a job, which another may have settled or dropped since.
LEMMA SettleFirm ==
  ASSUME IInv, FirmInv, outages = 0, NEW h \in Handlers, NEW j \in Jobs,
         ListSettles(h, j) \/ DismissSettles(h, j) \/ DismissDeletes(h, j)
  PROVE  FirmInv' /\ (Moves \/ phase' = phase)
<1> DEFINE r == handler[h].snap[j]
<1>1. /\ UNCHANGED <<redisUp, outages, runner, run>> /\ j \in handler[h].todo /\ handler[h] \in Handler
      /\ r \in Record /\ redis[j] \in Record /\ r.status # "absent" /\ run[j] \in Run
  <2>1. UNCHANGED <<redisUp, outages, runner, run>> /\ j \in handler[h].todo
    BY DEF ListSettles, DismissSettles, DismissDeletes
  <2>2. handler[h] \in Handler /\ r \in Record /\ redis[j] \in Record /\ run[j] \in Run
    BY DEF IInv, TypeOK, Handler
  <2> QED BY <2>1, <2>2 DEF FirmInv, FirmJobs, FirmSnaps, FirmTodo
<1>2. \A k \in Jobs \ {j} : redis'[k] = redis[k]
  BY DEF ListSettles, DismissSettles, DismissDeletes, Put, Delete, IInv, TypeOK
<1>3. Orphaned(r) => Settled(r).status = "failed" /\ Settled(r).stage = "Interrupted"
  BY <1>1 DEF Settled, Touch, Record
<1>4. \/ redis'[j] = redis[j]
      \/ Cut(redis'[j]) /\ run[j].at = "lost"
      \/ redis'[j].status = "absent" /\ redis[j].status \in Finished \cup {"absent"}
  <2>1. Orphaned(r) => run[j].at = "lost" /\ Cut(Settled(r))
    BY <1>3 DEF FirmInv, FirmSnaps, Orphaned, Cut
  <2>2. r.status \in Finished \/ handler[h].op = "delete" => redis[j].status \in Finished \cup {"absent"}
    BY <1>1 DEF FirmInv, FirmJobs, FirmSnaps, FirmTodo
  <2>3. CASE ListSettles(h, j)
    BY <1>1, <2>1, <2>2, <2>3, AbsentType DEF ListSettles, Put, Delete, Expired, FirmInv, FirmJobs, FirmSnaps, FirmTodo, IInv, TypeOK
  <2>4. CASE DismissSettles(h, j)
    BY <1>1, <2>1, <2>4 DEF DismissSettles, Put, FirmInv, FirmJobs, FirmSnaps, FirmTodo, IInv, TypeOK
  <2>5. CASE DismissDeletes(h, j)
    BY <1>1, <2>2, <2>5, AbsentType DEF DismissDeletes, Delete, FirmInv, FirmJobs, FirmSnaps, FirmTodo, IInv, TypeOK
  <2> QED BY <2>3, <2>4, <2>5
<1>5. run[j].at \notin {"none"} /\ (redis'[j] # redis[j] => run[j].at \in {"over", "lost"})
  <2>1. Fits(j, r) /\ Fits(j, redis[j])
    BY DEF IInv, OwnerInv, Copies
  <2>2. run[j].at # "none"
    BY <1>1, <2>1 DEF Fits
  <2>3. redis[j].status = "absent" => run[j].at \notin Alive
    BY DEF FirmInv, FirmJobs, FirmSnaps, FirmTodo, Waits, Runs, Alive
  <2>4. redis'[j] # redis[j] => run[j].at \notin Alive
    BY <1>4, <2>3, AliveFits DEF Alive
  <2> QED BY <1>1, <2>2, <2>4 DEF Run, Places, Alive
<1>6. redis[j].status \in Finished \cup {"absent"} => redis'[j].status \in Finished \cup {"absent"}
  BY <1>4 DEF Cut, Finished
<1>7. \A k \in handler'[h].todo :
        /\ handler'[h].snap[k].status # "absent"
        /\ handler'[h].snap[k].status \in Finished \/ handler'[h].op = "delete"
             => redis'[k].status \in Finished \cup {"absent"}
  <2>1. CASE ListSettles(h, j)
    <3>1. /\ handler'[h].op = handler[h].op /\ handler[h].op = "list" /\ handler'[h].todo = handler[h].todo \ {j}
          /\ \A k \in Jobs \ {j} : handler'[h].snap[k] = handler[h].snap[k]
      BY <1>1, <2>1 DEF ListSettles, IInv, TypeOK, Handler
    <3>2. handler[h].todo \subseteq Jobs
      BY <1>1 DEF Handler
    <3> QED BY <1>2, <3>1, <3>2 DEF FirmInv, FirmJobs, FirmSnaps, FirmTodo
  <2>2. CASE DismissSettles(h, j)
    <3>1. CASE handler' = [handler EXCEPT ![h] = Idle]
      BY <3>1 DEF IInv, TypeOK, Idle
    <3>2. CASE handler' = [handler EXCEPT ![h] = [handler[h] EXCEPT !.op = "delete"]]
               /\ Settled(r).status \notin Unfinished
      <4>1. handler'[h].snap = handler[h].snap /\ handler'[h].todo = handler[h].todo /\ handler'[h].op = "delete"
        BY <1>1, <3>2 DEF IInv, TypeOK, Handler
      <4>2. redis'[j].status \in Finished \cup {"absent"}
        <5>1. CASE Orphaned(r)
          <6>1. redis'[j] = Settled(r)
            BY <1>1, <2>2, <5>1 DEF DismissSettles, Put, FirmInv, FirmJobs, FirmSnaps, FirmTodo, IInv, TypeOK
          <6> QED BY <1>3, <5>1, <6>1 DEF Finished
        <5>2. CASE ~Orphaned(r)
          <6>1. r.status \in Finished /\ redis' = redis
            BY <1>1, <2>2, <3>2, <5>2, SettledType DEF DismissSettles, Record, Finished
          <6> QED BY <1>1, <6>1 DEF FirmInv, FirmJobs, FirmSnaps, FirmTodo
        <5> QED BY <5>1, <5>2
      <4>3. \A k \in handler[h].todo : k = j
        BY <1>1, <2>2 DEF FirmInv, FirmJobs, FirmSnaps, FirmTodo, DismissSettles
      <4> QED BY <1>1, <4>1, <4>2, <4>3
    <3> QED BY <2>2, <3>1, <3>2 DEF DismissSettles
  <2>3. CASE DismissDeletes(h, j)
    BY <2>3 DEF DismissDeletes, IInv, TypeOK, Idle
  <2> QED BY <2>1, <2>2, <2>3
<1>8. \A i \in Handlers \ {h} : handler'[i] = handler[i] /\ handler[i].todo \subseteq Jobs
  BY DEF ListSettles, DismissSettles, DismissDeletes, IInv, TypeOK, Handler
<1>9. \A k \in Jobs : Orphaned(handler'[h].snap[k]) => Orphaned(handler[h].snap[k])
  <2>1. ~Orphaned(Absent) /\ ~Orphaned(Settled(r))
    BY <1>3 DEF Orphaned, Settled, Absent, Unfinished
  <2>2. CASE ListSettles(h, j)
    BY <1>1, <2>1, <2>2 DEF ListSettles, IInv, TypeOK, Handler
  <2>3. CASE DismissSettles(h, j)
    <3>1. handler'[h].snap = handler[h].snap \/ handler'[h] = Idle
      BY <1>1, <2>3 DEF DismissSettles, IInv, TypeOK, Handler
    <3> QED BY <2>1, <3>1 DEF Idle
  <2>4. CASE DismissDeletes(h, j)
    BY <2>1, <2>4 DEF DismissDeletes, IInv, TypeOK, Idle
  <2> QED BY <2>2, <2>3, <2>4
<1>10. FirmInv'
  <2>1. /\ redisUp'
        /\ \A k \in Jobs : /\ Waits(run'[k]) => redis'[k].status = "queued"
                           /\ Runs(run'[k]) => redis'[k].status = "running"
                           /\ run'[k].at = "writing" => run'[k].read = redis'[k]
    BY <1>1, <1>2, <1>5 DEF FirmInv, FirmJobs, FirmSnaps, FirmTodo, Waits, Runs
  <2>2. \A k \in Jobs :
          /\ run'[k].at = "over" => redis'[k].status \notin Unfinished /\ ~Cut(redis'[k])
          /\ run'[k].at = "lost" => redis'[k].status \in Unfinished \cup {"absent"} \/ Cut(redis'[k])
    BY <1>1, <1>2, <1>4 DEF FirmInv, FirmJobs, FirmSnaps, FirmTodo, Cut, Unfinished
  <2>3. FirmSnaps'
    BY <1>1, <1>8, <1>9 DEF FirmInv, FirmSnaps, Orphaned
  <2>4. handler'[h].op \in {"settle", "delete"} => \A k, l \in handler'[h].todo : k = l
    <3>1. CASE ListSettles(h, j)
      BY <1>1, <3>1 DEF ListSettles, IInv, TypeOK, Handler
    <3>2. CASE DismissSettles(h, j)
      <4>1. handler'[h] = Idle \/ handler'[h].todo = handler[h].todo
        BY <1>1, <3>2 DEF DismissSettles, IInv, TypeOK, Handler
      <4> QED BY <3>2, <4>1 DEF FirmInv, FirmJobs, FirmSnaps, FirmTodo, Idle, DismissSettles
    <3>3. CASE DismissDeletes(h, j)
      BY <3>3 DEF DismissDeletes, IInv, TypeOK, Idle
    <3> QED BY <3>1, <3>2, <3>3
  <2>5. \A i \in Handlers : \A k \in handler'[i].todo :
          /\ handler'[i].snap[k].status # "absent"
          /\ handler'[i].snap[k].status \in Finished \/ handler'[i].op = "delete"
               => redis'[k].status \in Finished \cup {"absent"}
    <3> SUFFICES ASSUME NEW i \in Handlers \ {h}, NEW k \in handler[i].todo
                 PROVE  /\ handler[i].snap[k].status # "absent"
                        /\ handler[i].snap[k].status \in Finished \/ handler[i].op = "delete"
                             => redis'[k].status \in Finished \cup {"absent"}
      BY <1>7, <1>8
    <3>1. k \in Jobs
      BY <1>8
    <3> QED BY <1>2, <1>6, <3>1 DEF FirmInv, FirmJobs, FirmSnaps, FirmTodo
  <2>6. \A i \in Handlers : handler'[i].op \in {"settle", "delete"} => \A k, l \in handler'[i].todo : k = l
    BY <1>8, <2>4 DEF FirmInv, FirmJobs, FirmSnaps, FirmTodo
  <2>7. FirmJobs'
    BY <2>1, <2>2 DEF FirmJobs
  <2>8. FirmTodo'
    BY <2>5, <2>6 DEF FirmTodo
  <2> QED BY <2>1, <2>3, <2>7, <2>8 DEF FirmInv
<1>11. Moves \/ phase' = phase
  <2> DEFINE old == View(redis[j], run[j].at)
  <2> DEFINE new == View(redis'[j], run[j].at)
  <2>1. phase' = [phase EXCEPT ![j] = new] /\ phase[j] = old
    BY <1>1, <1>2, OtherView DEF FirmInv, FirmJobs, FirmSnaps, FirmTodo
  <2>2. CASE redis'[j] = redis[j]
    <3>1. old = new
      BY <2>2
    <3> QED BY <1>1, <2>1, <3>1, OneMoves
  <2>3. CASE Cut(redis'[j]) /\ run[j].at = "lost"
    <3>1. new = "interrupted" /\ old \in {"queued", "running", "dropped", "interrupted"}
      BY <1>1, <2>3 DEF FirmInv, FirmJobs, FirmSnaps, FirmTodo, Cut, View, Unfinished
    <3> QED BY <1>1, <2>1, <3>1, OneMoves
  <2>4. CASE redis'[j].status = "absent" /\ redis[j].status \in Finished \cup {"absent"}
             /\ redis'[j] # redis[j]
    <3>1. CASE run[j].at = "lost"
      <4>1. new = "dropped" /\ old \in {"interrupted", "dropped"}
        BY <1>1, <2>4, <3>1 DEF FirmInv, FirmJobs, FirmSnaps, FirmTodo, Cut, View, Unfinished, Finished
      <4> QED BY <1>1, <2>1, <4>1, OneMoves
    <3>2. CASE run[j].at = "over"
      <4>1. new = "gone" /\ old \in {"done", "failed", "gone"}
        BY <1>1, <2>4, <3>2 DEF FirmInv, FirmJobs, FirmSnaps, FirmTodo, Cut, View, Finished
      <4> QED BY <1>1, <2>1, <4>1, OneMoves
    <3> QED BY <1>5, <2>4, <3>1, <3>2
  <2> QED BY <1>4, <2>2, <2>3, <2>4
<1> QED BY <1>10, <1>11

\* A day passes: no status changes, and only a finished record is touched.
LEMMA DayFirm ==
  ASSUME IInv, FirmInv, NEW j \in Jobs, DayPasses(j)
  PROVE  FirmInv' /\ phase' = phase
<1>1. UNCHANGED <<redisUp, run, handler>> /\ redis[j].status \in Finished
  BY DEF DayPasses, Stored, FirmInv, FirmJobs, FirmSnaps, FirmTodo
<1>2. /\ redis'[j].status = redis[j].status /\ redis'[j].stage = redis[j].stage
      /\ \A k \in Jobs \ {j} : redis'[k] = redis[k]
  BY DEF DayPasses, IInv, TypeOK, Age, Record
<1>3. run[j].at \notin Alive
  BY <1>1, AliveFits
<1>4. \A k \in Jobs : redis'[k].status = redis[k].status /\ redis'[k].stage = redis[k].stage
  BY <1>2
<1>5. \A k \in Jobs : run[k].at = "writing" => redis'[k] = redis[k]
  BY <1>2, <1>3 DEF Alive
<1>6. \A h \in Handlers : handler[h].todo \subseteq Jobs
  BY DEF IInv, TypeOK, Handler
<1>7. FirmInv'
  BY <1>1, <1>4, <1>5, <1>6 DEF FirmInv, FirmJobs, FirmSnaps, FirmTodo, Waits, Runs, Cut, Orphaned, DayPasses
<1>8. \A k \in Jobs : View(redis'[k], run'[k].at) = View(redis[k], run[k].at)
  BY <1>1, <1>4 DEF View
<1> QED BY <1>1, <1>7, <1>8, SameView DEF FirmInv, FirmJobs, FirmSnaps, FirmTodo

\* A restart: the records stay, and every thread and request is gone.
LEMMA RestartFirm ==
  ASSUME IInv, FirmInv, Restart
  PROVE  FirmInv' /\ phase' = phase
<1>1. UNCHANGED <<redisUp, redis>> /\ \A h \in Handlers : handler'[h] = Idle
  BY DEF Restart
<1>2. \A j \in Jobs : /\ run'[j].at = run[j].at \/ (run[j].at \in Alive /\ run'[j].at = "lost")
                      /\ run'[j].at \in {"none", "over", "lost"}
  BY DEF Restart, IInv, TypeOK, Run, Places, Alive
<1>3. \A j \in Jobs : run[j].at \in Alive => redis[j].status \in {"queued", "running"}
  BY DEF FirmInv, FirmJobs, FirmSnaps, FirmTodo, Waits, Runs, Alive
<1>4. FirmInv'
  BY <1>1, <1>2, <1>3 DEF FirmInv, FirmJobs, FirmSnaps, FirmTodo, Waits, Runs, Idle, Orphaned, Absent, Unfinished
<1>5. \A j \in Jobs : View(redis'[j], run'[j].at) = View(redis[j], run[j].at)
  BY <1>1, <1>2, <1>3, PlainView
<1> QED BY <1>1, <1>4, <1>5, SameView DEF FirmInv, FirmJobs, FirmSnaps, FirmTodo

\* While Redis has not failed, every step is one of the lifecycle's or changes
\* nothing a client sees.
LEMMA FirmStep ==
  ASSUME IInv, FirmInv, outages = 0, outages' = 0, [Next]_vars
  PROVE  FirmInv' /\ (Moves \/ phase' = phase)
<1>1. ASSUME NEW j \in Jobs, Create(j)
      PROVE  FirmInv' /\ (Moves \/ phase' = phase)
  BY <1>1, CreateFirm
<1>2. ASSUME NEW j \in Jobs, Submit(j) \/ Work(j) \/ WorkRaises(j)
      PROVE  FirmInv' /\ phase' = phase
  BY <1>2, ThreadsFirm
<1>3. ASSUME NEW j \in Jobs, UpdateReads(j)
      PROVE  FirmInv' /\ phase' = phase
  BY <1>3, UpdateReadsFirm
<1>4. ASSUME NEW j \in Jobs, UpdateWrites(j)
      PROVE  FirmInv' /\ (Moves \/ phase' = phase)
  BY <1>4, UpdateWritesFirm
<1>5. ASSUME NEW j \in Jobs, DayPasses(j)
      PROVE  FirmInv' /\ phase' = phase
  BY <1>5, DayFirm
<1>6. CASE StartJob
  BY <1>6, StartJobFirm
<1>7. ASSUME NEW h \in Handlers, StartList(h) \/ ListReturns(h) \/ \E j \in Jobs : StartDismiss(h, j)
      PROVE  FirmInv' /\ phase' = phase
  BY <1>7, RequestFirm
<1>8. ASSUME NEW h \in Handlers, NEW j \in Jobs,
             ListSettles(h, j) \/ DismissSettles(h, j) \/ DismissDeletes(h, j)
      PROVE  FirmInv' /\ (Moves \/ phase' = phase)
  BY <1>8, SettleFirm
<1>9. ~RedisFails /\ ~RedisRecovers
  BY DEF RedisFails, RedisRecovers, FirmInv, FirmJobs, FirmSnaps, FirmTodo
<1>10. CASE Restart
  BY <1>10, RestartFirm
<1>11. CASE UNCHANGED vars
  <2>1. UNCHANGED <<redisUp, redis, runner, run, handler>>
    BY <1>11 DEF vars
  <2>2. \A j \in Jobs : View(redis'[j], run'[j].at) = View(redis[j], run[j].at)
    BY <2>1
  <2>3. FirmInv'
    BY <2>1 DEF FirmInv, FirmJobs, FirmSnaps, FirmTodo, Waits, Runs, Orphaned, Cut
  <2> QED BY <2>1, <2>2, <2>3, SameView DEF FirmInv, FirmJobs, FirmSnaps, FirmTodo
<1> QED BY <1>1, <1>2, <1>3, <1>4, <1>5, <1>6, <1>7, <1>8, <1>9, <1>10, <1>11
        DEF Next, ThreadStep, HandlerStep

\* What a client is told is always one of the lifecycle's phases.
LEMMA PhaseType ==
  ASSUME TypeOK'
  PROVE  phase' \in [Jobs -> Lifecycle!Phases]
<1>1. \A j \in Jobs : Stored(j)'.status \in Unfinished \cup Finished \cup {"absent"}
  BY DEF TypeOK, Stored, Record
<1>2. phase' = [j \in Jobs |-> View(Stored(j)', run'[j].at)]
  BY DEF phase
<1>3. \A j \in Jobs : View(Stored(j)', run'[j].at) \in Lifecycle!Phases
  BY <1>1 DEF View, Lifecycle!Phases, Unfinished, Finished
<1> QED BY <1>2, <1>3

\* Redis has failed, or everything is as FirmInv has it.
LInv == outages > 0 \/ FirmInv

LEMMA LifecycleStep ==
  ASSUME IInv, IInv', LInv, [Next]_vars
  PROVE  LInv' /\ [Lifecycle!Next]_<<phase, (outages = 0)>>
<1>1. outages \in Nat /\ outages' \in Nat /\ outages' >= outages
  <2>1. outages' = outages \/ outages' = outages + 1
    BY DEF Next, vars, store, ThreadStep, HandlerStep, Create, Submit, StartJob, UpdateReads, UpdateWrites,
           Work, WorkRaises, StartList, ListSettles, ListReturns, StartDismiss, DismissSettles, DismissDeletes,
           DayPasses, RedisFails, RedisRecovers, Restart
  <2> QED BY <2>1, JobsAssumption DEF IInv, TypeOK
<1>2. CASE outages' > 0
  <2>1. LInv' /\ phase' \in [Jobs -> Lifecycle!Phases]
    BY <1>2, PhaseType DEF LInv, IInv
  <2>2. (outages' = 0) = FALSE
    BY <1>1, <1>2
  <2>3. Lifecycle!FallBack
    BY <2>1, <2>2 DEF Lifecycle!FallBack
  <2> QED BY <2>1, <2>3 DEF Lifecycle!Next
<1>3. CASE outages' = 0
  <2>1. outages = 0 /\ FirmInv
    BY <1>1, <1>3 DEF LInv
  <2>2. FirmInv' /\ (Moves \/ phase' = phase)
    BY <1>3, <2>1, FirmStep
  <2>3. (outages = 0)' = (outages = 0)
    BY <1>3, <2>1
  <2> QED BY <2>2, <2>3 DEF LInv, Moves, Lifecycle!Next
<1> QED BY <1>1, <1>2, <1>3

\* The store implements the lifecycle it promises: whatever the pool's threads,
\* any number of polls and dismissals, and restarts do between each other's
\* steps, a client sees each job queued, then running, then done, failed or
\* interrupted, then gone; only a removed job that was interrupted can be seen
\* again, and only as interrupted, until Redis stops answering.
THEOREM StoreKeepsTheLifecycle == Spec => Lifecycle!Spec
<1>1. Init => LInv /\ Lifecycle!Init
  <2> SUFFICES ASSUME Init PROVE LInv /\ Lifecycle!Init
    OBVIOUS
  <2>1. redisUp /\ outages = 0
    BY DEF Init
  <2>2. \A j \in Jobs : redis[j].status = "absent" /\ run[j].at = "none"
    BY DEF Init, Absent, NoRun
  <2>3. \A h \in Handlers : handler[h].todo = {} /\ \A j \in Jobs : ~Orphaned(handler[h].snap[j])
    BY DEF Init, Idle, Orphaned, Absent, Unfinished
  <2>4. FirmInv
    BY <2>1, <2>2, <2>3 DEF FirmInv, FirmJobs, FirmSnaps, FirmTodo, Waits, Runs, Orphaned
  <2>5. phase = [j \in Jobs |-> "none"]
    BY <2>1, <2>2 DEF phase, Stored, View
  <2> QED BY <2>1, <2>4, <2>5 DEF LInv, Lifecycle!Init
<1>2. IInv /\ IInv' /\ LInv /\ [Next]_vars => LInv' /\ [Lifecycle!Next]_<<phase, (outages = 0)>>
  BY LifecycleStep
<1>3. Spec => []IInv
  BY Invariance
<1> QED BY <1>1, <1>2, <1>3, PTL DEF Spec, Lifecycle!Spec, Lifecycle!vars
=============================================================================
