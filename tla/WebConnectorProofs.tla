-------------------------- MODULE WebConnectorProofs --------------------------
(* Proofs of safety properties of WebConnector, for any sites, connectors, *)
(* owners and threads and any bounds.                                      *)
EXTENDS WebConnector, TLAPS

-----------------------------------------------------------------------------
(* Threads *)

\* A thread that starts or goes idle has nothing in hand.
LEMMA NoThreadType == NoThread \in Thread /\ Shape(NoThread)
BY DEF NoThread, Thread, Points, Shape, Pages, NoPages

\* A step that replaces what one thread has in hand by something in order
\* keeps all threads in order.
LEMMA ThreadPut ==
  ASSUME IInv, NEW t \in Threads, NEW r \in Thread, Shape(r),
         th' = [th EXCEPT ![t] = r]
  PROVE  /\ th' \in [Threads -> Thread]
         /\ \A s \in Threads : Shape(th'[s])
         /\ th'[t] = r
BY DEF IInv, TypeOK

\* A thread whose fields are replaced by others of their types is a thread.
LEMMA ThreadStarts ==
  ASSUME NEW r \in Thread, NEW a \in Points, NEW o \in {"none", "sync", "delete", "edit"},
         NEW c \in Connectors \cup {None}
  PROVE  /\ \A rec \in Records \cup {None} :
              [r EXCEPT !.at = a, !.op = o, !.c = c, !.rec = rec] \in Thread
         /\ \A due \in SUBSET (Connectors \X Records) :
              [r EXCEPT !.at = a, !.op = o, !.c = c, !.due = due] \in Thread
         /\ \A ds \in SUBSET Docs :
              [r EXCEPT !.at = a, !.op = o, !.c = c, !.retired = ds] \in Thread
BY DEF Thread

LEMMA ThreadRecords ==
  ASSUME NEW r \in Thread, NEW a \in Points
  PROVE  /\ \A rec \in Records \cup {None} : [r EXCEPT !.at = a, !.rec = rec] \in Thread
         /\ \A d \in Docs \cup {None} : [r EXCEPT !.at = a, !.doc = d] \in Thread
BY DEF Thread

LEMMA ThreadCrawls ==
  ASSUME NEW r \in Thread, NEW a \in Points, NEW ps \in Pages,
         NEW us \in SUBSET Urls, NEW vs \in SUBSET Urls
  PROVE  [r EXCEPT !.at = a, !.old = ps, !.queued = us, !.frontier = vs] \in Thread
BY DEF Thread

LEMMA ThreadRetires ==
  ASSUME NEW r \in Thread, NEW a \in Points, NEW ps \in Pages, NEW ds \in SUBSET Docs
  PROVE  [r EXCEPT !.at = a, !.new = ps, !.retired = ds] \in Thread
BY DEF Thread

LEMMA ThreadDisowns ==
  ASSUME NEW r \in Thread, NEW a \in Points, NEW d \in Docs, NEW ds \in SUBSET Docs
  PROVE  [r EXCEPT !.at = a, !.doc = d, !.retired = ds] \in Thread
BY DEF Thread

\* A thread that moves to its next point keeps what it has.
LEMMA GotoEffect ==
  ASSUME IInv, NEW t \in Threads, NEW point \in Points, Goto(t, point),
         Shape([th[t] EXCEPT !.at = point])
  PROVE  /\ th' \in [Threads -> Thread]
         /\ \A s \in Threads : Shape(th'[s])
         /\ th'[t] = [th[t] EXCEPT !.at = point]
<1> DEFINE r == [th[t] EXCEPT !.at = point]
<1>1. th[t] \in Thread
  BY DEF IInv, TypeOK
<1>2. r \in Thread
  BY <1>1 DEF Thread
<1>3. th' = [th EXCEPT ![t] = r]
  BY DEF Goto
<1> QED BY <1>2, <1>3, ThreadPut

\* A thread whose work is over has nothing in hand but what is due.
LEMMA EndEffect ==
  ASSUME IInv, NEW t \in Threads, End(t)
  PROVE  /\ th' \in [Threads -> Thread]
         /\ \A s \in Threads : Shape(th'[s])
         /\ th'[t] = Ended(t)
<1>1. th[t] \in Thread
  BY DEF IInv, TypeOK
<1>2. Ended(t) \in Thread
  BY <1>1, NoThreadType DEF Ended, Thread
<1>3. Shape(Ended(t))
  BY NoThreadType DEF Ended, Shape, NoThread
<1> QED BY <1>2, <1>3, ThreadPut DEF End

\* An exception in retire sends a sync to its handler and ends a deletion.
LEMMA RaisesEffect ==
  ASSUME IInv, NEW t \in Threads, Raises(t), th[t].at \in {"retire", "drop"}
  PROVE  /\ th' \in [Threads -> Thread]
         /\ \A s \in Threads : Shape(th'[s])
<1>1. CASE th[t].op = "sync" /\ Goto(t, "fail")
  <2>1. Shape([th[t] EXCEPT !.at = "fail"])
    BY <1>1 DEF IInv, TypeOK, Thread, Shape
  <2>2. "fail" \in Points
    BY DEF Points
  <2> QED BY <1>1, <2>1, <2>2, GotoEffect
<1>2. CASE End(t)
  BY <1>2, EndEffect
<1> QED BY <1>1, <1>2 DEF Raises

-----------------------------------------------------------------------------
(* Types *)

\* The initial state has the types and nothing in hand.
LEMMA TypeInit == Init => IInv
<1> SUFFICES ASSUME Init PROVE IInv
  OBVIOUS
<1>1. th \in [Threads -> Thread] /\ \A t \in Threads : Shape(th[t])
  BY NoThreadType DEF Init
<1>2. pages \in [Connectors -> Pages]
  BY DEF Init, Pages, NoPages
<1>3. edits \in 0..MaxEdits /\ jobs \in 0..MaxJobs
      /\ expiries \in 0..MaxExpiries /\ restarts \in 0..MaxRestarts
  BY WebAssumption DEF Init
<1>4. /\ site \in [Urls -> Contents \cup {None}]
      /\ conn \in [Connectors -> Records \cup {None}]
      /\ lock \in [Connectors -> BOOLEAN]
      /\ own \subseteq Owners \X Docs /\ index \subseteq Docs
      /\ entry \in [Docs -> Connectors \cup {None}]
      /\ life \in [Connectors -> {"new", "live", "deleted"}]
  BY DEF Init
<1> QED BY <1>1, <1>2, <1>3, <1>4 DEF IInv, TypeOK

\* Saving a record keeps the connectors' type.
LEMMA SaveType ==
  ASSUME IInv, NEW c \in Connectors, NEW rec \in Records \cup {None},
         conn' = [conn EXCEPT ![c] = rec]
  PROVE  conn' \in [Connectors -> Records \cup {None}]
BY DEF IInv, TypeOK

\* The pages that are there after a crawl, and the documents to retire.
LEMMA SettledType ==
  ASSUME IInv, NEW t \in Threads, NEW complete \in BOOLEAN
  PROVE  /\ Settled(t, complete) \in Pages
         /\ Replaced(t, Settled(t, complete)) \subseteq Docs
<1>1. th[t].old \in Pages /\ th[t].new \in Pages
  BY DEF IInv, TypeOK, Thread
<1>2. Settled(t, complete) \in Pages
  BY <1>1 DEF Settled, Pages
<1>3. Range(th[t].old) \subseteq Docs \cup {None}
  BY <1>1 DEF Pages, Range
<1> QED BY <1>2, <1>3 DEF Replaced

\* A page of this address is yielded, and the rest stays.
LEMMA YieldedType ==
  ASSUME NEW r \in Thread, NEW u \in Urls
  PROVE  /\ Yielded(r, u) \in Thread
         /\ Yielded(r, u).new = [r.new EXCEPT ![u] = None]
         /\ Yielded(r, u).done = r.done \cup {u}
         /\ Yielded(r, u).at = r.at /\ Yielded(r, u).op = r.op /\ Yielded(r, u).c = r.c
         /\ Yielded(r, u).rec = r.rec /\ Yielded(r, u).old = r.old
         /\ Yielded(r, u).queued = r.queued /\ Yielded(r, u).frontier = r.frontier
         /\ Yielded(r, u).retired = r.retired
<1> DEFINE new == [r.new EXCEPT ![u] = None]
           done == r.done \cup {u}
<1>1. new \in Pages /\ done \subseteq Urls
  BY DEF Thread, Pages
<1>2. Yielded(r, u) = [r EXCEPT !.new = new, !.done = done]
  BY DEF Yielded
<1> HIDE DEF new, done
<1>3. /\ [r EXCEPT !.new = new, !.done = done] \in Thread
      /\ [r EXCEPT !.new = new, !.done = done].new = new
      /\ [r EXCEPT !.new = new, !.done = done].done = done
      /\ [r EXCEPT !.new = new, !.done = done].at = r.at
      /\ [r EXCEPT !.new = new, !.done = done].op = r.op
      /\ [r EXCEPT !.new = new, !.done = done].c = r.c
      /\ [r EXCEPT !.new = new, !.done = done].rec = r.rec
      /\ [r EXCEPT !.new = new, !.done = done].old = r.old
      /\ [r EXCEPT !.new = new, !.done = done].queued = r.queued
      /\ [r EXCEPT !.new = new, !.done = done].frontier = r.frontier
      /\ [r EXCEPT !.new = new, !.done = done].retired = r.retired
  BY <1>1 DEF Thread
<1> QED BY <1>2, <1>3 DEF new, done

\* What a fetch makes of its thread: the page is off the frontier and yielded by
\* one address or the other; a page that is there may bring links and a document.
FetchResult(t, r) ==
  /\ r.op = th[t].op /\ r.c = th[t].c /\ r.rec = th[t].rec
  /\ r.old = th[t].old /\ r.retired = th[t].retired
  /\ r.at \in {"crawl", "own", "index"} /\ (r.at # "crawl" => r.doc \in Docs)
  /\ \E u \in th[t].frontier :
       \/ /\ r.at = "crawl"
          /\ r.queued = th[t].queued /\ r.frontier = th[t].frontier \ {u}
          /\ r.new = [th[t].new EXCEPT ![u] = None] /\ r.done = th[t].done \cup {u}
       \/ \E more \in SUBSET (Urls \ th[t].queued) :
            /\ r.queued = th[t].queued \cup more
            /\ r.frontier = (th[t].frontier \ {u}) \cup more
            /\ r.new = [th[t].new EXCEPT ![Lands[u]] = None]
            /\ r.done = th[t].done \cup {Lands[u]}
            /\ r.at # "crawl" => r.doc = <<Lands[u], site[Lands[u]]>>
            /\ r.at = "own" => Unchanged(t, Lands[u])

LEMMA FetchType ==
  ASSUME IInv, NEW t \in Threads, Fetch(t)
  PROVE  \E r \in Thread : th' = [th EXCEPT ![t] = r] /\ FetchResult(t, r)
<1>sh. th[t] \in Thread /\ th[t].at = "crawl"
  BY DEF IInv, TypeOK, Fetch, At
<1>st. site \in [Urls -> Contents \cup {None}]
  BY DEF IInv, TypeOK
<1>fr. th[t].frontier \subseteq Urls /\ th[t].queued \subseteq Urls
       /\ th[t].seen \subseteq Contents
  BY <1>sh DEF Thread
<1> PICK u \in th[t].frontier :
      LET v == Lands[u]
          left == [th[t] EXCEPT !.frontier = @ \ {u}]
      IN
      \/ th' = [th EXCEPT ![t] = Yielded(left, u)]
      \/ \E more \in {Found(t, v)} \cup {x \in {{}} : "deep" \in Faults} :
           LET known == Yielded([left EXCEPT !.frontier = @ \cup more,
                                             !.queued = @ \cup more,
                                             !.seen = @ \cup {site[v]}], v)
           IN
           \/ site[v] # None /\ th' = [th EXCEPT ![t] = known]
           \/ /\ site[v] # None
              /\ th' = [th EXCEPT ![t] =
                   [known EXCEPT !.doc = <<v, site[v]>>,
                                 !.at = IF Unchanged(t, v) THEN "own" ELSE "index"]]
  BY DEF Fetch
<1> DEFINE v == Lands[u]
           front == th[t].frontier \ {u}
           left == [th[t] EXCEPT !.frontier = front]
<1>1. u \in Urls /\ v \in Urls
  BY <1>fr, WebAssumption
<1> HIDE DEF v
<1>2. /\ left \in Thread /\ left.frontier = front /\ left.queued = th[t].queued
      /\ left.at = "crawl" /\ left.op = th[t].op /\ left.c = th[t].c
      /\ left.rec = th[t].rec /\ left.old = th[t].old /\ left.new = th[t].new
      /\ left.done = th[t].done /\ left.retired = th[t].retired
      /\ left.seen = th[t].seen
  <2> HIDE DEF front
  <2>1. front \subseteq Urls
    BY <1>fr DEF front
  <2> QED BY <1>sh, <2>1 DEF Thread
<1> HIDE DEF left
<1>3. CASE th' = [th EXCEPT ![t] = Yielded(left, u)]
  <2> DEFINE r == Yielded(left, u)
  <2>0. /\ r \in Thread /\ r.new = [left.new EXCEPT ![u] = None]
        /\ r.done = left.done \cup {u} /\ r.at = left.at /\ r.op = left.op
        /\ r.c = left.c /\ r.rec = left.rec /\ r.old = left.old
        /\ r.queued = left.queued /\ r.frontier = left.frontier /\ r.retired = left.retired
    BY <1>1, <1>2, YieldedType, Zenon
  <2>1. /\ r \in Thread /\ r.new = [th[t].new EXCEPT ![u] = None]
        /\ r.done = th[t].done \cup {u} /\ r.at = "crawl" /\ r.op = th[t].op
        /\ r.c = th[t].c /\ r.rec = th[t].rec /\ r.old = th[t].old
        /\ r.queued = th[t].queued /\ r.frontier = front /\ r.retired = th[t].retired
    <3> HIDE DEF r
    <3> QED BY <1>2, <2>0
  <2> HIDE DEF r
  <2>2. FetchResult(t, r)
    BY <2>1 DEF FetchResult, front
  <2> QED BY <1>3, <2>1, <2>2 DEF r
<1>4. ASSUME NEW more \in SUBSET (Urls \ th[t].queued), NEW known, site[v] # None,
             known = Yielded([left EXCEPT !.frontier = front \cup more,
                                          !.queued = th[t].queued \cup more,
                                          !.seen = th[t].seen \cup {site[v]}], v),
             \/ th' = [th EXCEPT ![t] = known]
             \/ th' = [th EXCEPT ![t] =
                  [known EXCEPT !.doc = <<v, site[v]>>,
                                !.at = IF Unchanged(t, v) THEN "own" ELSE "index"]]
      PROVE  \E r \in Thread : th' = [th EXCEPT ![t] = r] /\ FetchResult(t, r)
  <2> DEFINE fs == front \cup more
             qs == th[t].queued \cup more
             ss == th[t].seen \cup {site[v]}
             doc == <<v, site[v]>>
             point == IF Unchanged(t, v) THEN "own" ELSE "index"
             full == [left EXCEPT !.frontier = fs, !.queued = qs, !.seen = ss]
             good == [known EXCEPT !.doc = doc, !.at = point]
  <2>1. /\ fs \subseteq Urls /\ qs \subseteq Urls /\ ss \subseteq Contents /\ doc \in Docs
        /\ point \in {"own", "index"} /\ (point = "own" => Unchanged(t, v))
    BY <1>1, <1>4, <1>fr, <1>st DEF front, Docs
  <2> HIDE DEF fs, qs, ss, doc, point
  <2>2. /\ full \in Thread /\ full.frontier = fs /\ full.queued = qs
        /\ full.at = "crawl" /\ full.op = th[t].op /\ full.c = th[t].c
        /\ full.rec = th[t].rec /\ full.old = th[t].old /\ full.new = th[t].new
        /\ full.done = th[t].done /\ full.retired = th[t].retired
    BY <1>2, <2>1 DEF Thread
  <2>3. known = Yielded(full, v)
    BY <1>4 DEF fs, qs, ss
  <2> HIDE DEF full
  <2>k. /\ known \in Thread /\ known.new = [full.new EXCEPT ![v] = None]
        /\ known.done = full.done \cup {v} /\ known.at = full.at /\ known.op = full.op
        /\ known.c = full.c /\ known.rec = full.rec /\ known.old = full.old
        /\ known.queued = full.queued /\ known.frontier = full.frontier
        /\ known.retired = full.retired
    <3>1. /\ Yielded(full, v) \in Thread
          /\ Yielded(full, v).new = [full.new EXCEPT ![v] = None]
          /\ Yielded(full, v).done = full.done \cup {v}
          /\ Yielded(full, v).at = full.at /\ Yielded(full, v).op = full.op
          /\ Yielded(full, v).c = full.c /\ Yielded(full, v).rec = full.rec
          /\ Yielded(full, v).old = full.old /\ Yielded(full, v).queued = full.queued
          /\ Yielded(full, v).frontier = full.frontier
          /\ Yielded(full, v).retired = full.retired
      BY <1>1, <2>2, YieldedType, Zenon
    <3> QED BY <2>3, <3>1, Zenon
  <2>4. /\ known \in Thread /\ known.new = [th[t].new EXCEPT ![v] = None]
        /\ known.done = th[t].done \cup {v} /\ known.at = "crawl" /\ known.op = th[t].op
        /\ known.c = th[t].c /\ known.rec = th[t].rec /\ known.old = th[t].old
        /\ known.queued = qs /\ known.frontier = fs /\ known.retired = th[t].retired
    BY <2>2, <2>k
  <2>5. CASE th' = [th EXCEPT ![t] = known]
    <3>1. FetchResult(t, known)
      BY <2>4 DEF FetchResult, front, qs, fs, v
    <3> QED BY <2>4, <2>5, <3>1
  <2>6. CASE th' = [th EXCEPT ![t] = good]
    <3>1. /\ good \in Thread /\ good.doc = doc /\ good.at = point
          /\ good.new = known.new /\ good.done = known.done /\ good.op = known.op
          /\ good.c = known.c /\ good.rec = known.rec /\ good.old = known.old
          /\ good.queued = known.queued /\ good.frontier = known.frontier
          /\ good.retired = known.retired
      BY <2>1, <2>4 DEF Thread, Points
    <3> HIDE DEF good
    <3>2. FetchResult(t, good)
      BY <2>1, <2>4, <3>1 DEF FetchResult, front, qs, fs, v, doc
    <3> QED BY <2>6, <3>1, <3>2
  <2> QED BY <1>4, <2>5, <2>6 DEF doc, point
<1>5. CASE \E more \in {Found(t, v)} \cup {x \in {{}} : "deep" \in Faults} :
             LET known == Yielded([left EXCEPT !.frontier = @ \cup more,
                                               !.queued = @ \cup more,
                                               !.seen = @ \cup {site[v]}], v)
             IN
             \/ site[v] # None /\ th' = [th EXCEPT ![t] = known]
             \/ /\ site[v] # None
                /\ th' = [th EXCEPT ![t] =
                     [known EXCEPT !.doc = <<v, site[v]>>,
                                   !.at = IF Unchanged(t, v) THEN "own" ELSE "index"]]
  <2> PICK more \in {Found(t, v)} \cup {x \in {{}} : "deep" \in Faults} :
             LET known == Yielded([left EXCEPT !.frontier = @ \cup more,
                                               !.queued = @ \cup more,
                                               !.seen = @ \cup {site[v]}], v)
             IN
             \/ site[v] # None /\ th' = [th EXCEPT ![t] = known]
             \/ /\ site[v] # None
                /\ th' = [th EXCEPT ![t] =
                     [known EXCEPT !.doc = <<v, site[v]>>,
                                   !.at = IF Unchanged(t, v) THEN "own" ELSE "index"]]
    BY <1>5
  <2>1. more \in SUBSET (Urls \ th[t].queued)
    BY <1>1, WebAssumption DEF Found
  <2>2. /\ [left EXCEPT !.frontier = @ \cup more, !.queued = @ \cup more,
                        !.seen = @ \cup {site[v]}]
             = [left EXCEPT !.frontier = front \cup more, !.queued = th[t].queued \cup more,
                            !.seen = th[t].seen \cup {site[v]}]
    BY <1>2
  <2> QED BY <1>4, <2>1, <2>2
<1> QED BY <1>3, <1>5 DEF v, left, front

\* Every step keeps the types and what the threads have in hand.
LEMMA TypeStep == IInv /\ [Next]_vars => IInv'
<1> SUFFICES ASSUME IInv, [Next]_vars PROVE IInv'
  OBVIOUS
<1> USE DEF counters, library, redis
<1>ty. /\ site \in [Urls -> Contents \cup {None}]
       /\ conn \in [Connectors -> Records \cup {None}]
       /\ pages \in [Connectors -> Pages]
       /\ lock \in [Connectors -> BOOLEAN]
       /\ own \subseteq Owners \X Docs /\ index \subseteq Docs
       /\ entry \in [Docs -> Connectors \cup {None}]
       /\ th \in [Threads -> Thread]
       /\ life \in [Connectors -> {"new", "live", "deleted"}]
       /\ edits \in 0..MaxEdits /\ jobs \in 0..MaxJobs
       /\ expiries \in 0..MaxExpiries /\ restarts \in 0..MaxRestarts
  BY DEF IInv, TypeOK
<1>sh. \A s \in Threads : th[s] \in Thread /\ Shape(th[s])
  BY <1>ty DEF IInv
<1>jb. Job => jobs' \in 0..MaxJobs
  BY <1>ty, WebAssumption DEF Job
<1>pt. Points = {"idle", "queue", "get", "acquire", "run", "pages", "crawl", "index",
           "own", "retire", "count", "drop", "finish", "fail", "release", "edit"}
  BY DEF Points
<1>1. ASSUME NEW t \in Threads, NEW c \in Connectors, Create(t, c) PROVE IInv'
  <2> PICK daily \in BOOLEAN, sync_now \in BOOLEAN :
        LET rec == [status |-> "idle", daily |-> daily] IN
        /\ conn' = [conn EXCEPT ![c] = rec]
        /\ th' = IF sync_now
                 THEN [th EXCEPT ![t].at = "queue", ![t].op = "sync",
                                 ![t].c = c, ![t].rec = rec]
                 ELSE th
    BY <1>1 DEF Create
  <2> DEFINE rec == [status |-> "idle", daily |-> daily]
             r == [th[t] EXCEPT !.at = "queue", !.op = "sync", !.c = c, !.rec = rec]
  <2>1. rec \in Records
    BY DEF Records
  <2>2. conn' \in [Connectors -> Records \cup {None}]
    BY <2>1, SaveType
  <2> HIDE DEF rec
  <2>r. r \in Thread
    BY <2>1, <1>sh, <1>pt, ThreadStarts
  <2>3. r \in Thread /\ Shape(r)
    BY <2>1, <2>r, <1>sh DEF Thread, Shape
  <2>4. th' \in [Threads -> Thread] /\ \A s \in Threads : Shape(th'[s])
    <3>1. CASE sync_now
      <4>1. th' = [th EXCEPT ![t] = r]
        BY <3>1 DEF rec
      <4> QED BY <4>1, <2>3, ThreadPut
    <3>2. CASE ~sync_now
      BY <3>2, <1>ty, <1>sh
    <3> QED BY <3>1, <3>2
  <2>5. life' \in [Connectors -> {"new", "live", "deleted"}]
    BY <1>1, <1>ty DEF Create
  <2> QED BY <1>1, <1>ty, <2>2, <2>4, <2>5 DEF Create, IInv, TypeOK
<1>2. ASSUME NEW t \in Threads, NEW c \in Connectors, Post(t, c) PROVE IInv'
  <2> DEFINE r == [th[t] EXCEPT !.at = "queue", !.op = "sync", !.c = c, !.rec = conn[c]]
  <2>1. conn[c] \in Records
    BY <1>2, <1>ty DEF Post
  <2>r. r \in Thread
    BY <2>1, <1>sh, <1>pt, ThreadStarts
  <2>2. r \in Thread /\ Shape(r)
    BY <2>1, <2>r, <1>sh DEF Thread, Shape
  <2>3. th' = [th EXCEPT ![t] = r]
    BY <1>2 DEF Post
  <2>4. th' \in [Threads -> Thread] /\ \A s \in Threads : Shape(th'[s])
    BY <2>2, <2>3, ThreadPut
  <2> QED BY <1>2, <1>ty, <1>jb, <2>4 DEF Post, IInv, TypeOK
<1>3. ASSUME NEW t \in Threads, NEW c \in Connectors, Edit(t, c) PROVE IInv'
  <2> DEFINE rec == [conn[c] EXCEPT !.daily = ~@]
             r == [th[t] EXCEPT !.at = "edit", !.op = "edit", !.c = c, !.rec = rec]
  <2>1. conn[c] \in Records
    BY <1>3, <1>ty DEF Edit
  <2>2. rec \in Records
    BY <2>1 DEF Records
  <2>3. th' = [th EXCEPT ![t] = r]
    BY <1>3 DEF Edit
  <2> HIDE DEF rec
  <2>r. r \in Thread
    BY <2>2, <1>sh, <1>pt, ThreadStarts
  <2>4. r \in Thread /\ Shape(r)
    BY <2>2, <2>r, <1>sh DEF Thread, Shape
  <2>5. th' \in [Threads -> Thread] /\ \A s \in Threads : Shape(th'[s])
    BY <2>4, <2>3, ThreadPut
  <2> QED BY <1>3, <1>ty, <1>jb, <2>5 DEF Edit, IInv, TypeOK
<1>4. ASSUME NEW t \in Threads, NEW c \in Connectors, Delete(t, c) PROVE IInv'
  <2> DEFINE R == Range(pages[c]) \ {None}
             r == [th[t] EXCEPT !.at = "retire", !.op = "delete", !.c = c, !.retired = R]
  <2>1. R \subseteq Docs
    BY <1>ty DEF Pages, Range
  <2>2. th' = [th EXCEPT ![t] = r]
    BY <1>4 DEF Delete
  <2> HIDE DEF R
  <2>r. r \in Thread
    BY <2>1, <1>sh, <1>pt, ThreadStarts
  <2>3. r \in Thread /\ Shape(r)
    BY <2>1, <2>r, <1>sh DEF Thread, Shape
  <2>4. th' \in [Threads -> Thread] /\ \A s \in Threads : Shape(th'[s])
    BY <2>2, <2>3, ThreadPut
  <2> QED BY <1>4, <1>ty, <1>jb, <2>4 DEF Delete, IInv, TypeOK
<1>5. ASSUME NEW t \in Threads, Tick(t) PROVE IInv'
  <2> DEFINE D == {c \in Connectors : conn[c] # None /\ conn[c].daily
                                      /\ conn[c].status = "idle"}
             due == {<<c, conn[c]>> : c \in D}
             r == [th[t] EXCEPT !.due = due]
  <2>1. due \subseteq Connectors \X Records
    BY <1>ty
  <2>2. th' = [th EXCEPT ![t] = r]
    BY <1>5 DEF Tick
  <2> HIDE DEF due
  <2>3. r \in Thread
    BY <2>1, <1>sh DEF Thread
  <2>4. Shape(r)
    BY <1>sh DEF Thread, Shape
  <2>5. th' \in [Threads -> Thread] /\ \A s \in Threads : Shape(th'[s])
    BY <2>2, <2>3, <2>4, ThreadPut
  <2> QED BY <1>5, <1>ty, <1>jb, <2>5 DEF Tick, IInv, TypeOK
<1>6. ASSUME NEW t \in Threads, Queue(t) PROVE IInv'
  <2>1. th[t].c \in Connectors /\ th[t].rec \in Records
    BY <1>6, <1>sh DEF Queue, At, Shape, Thread
  <2>2. conn' \in [Connectors -> Records \cup {None}]
    <3>1. [th[t].rec EXCEPT !.status = "queued"] \in Records
      BY <2>1 DEF Records
    <3> QED BY <1>6, <2>1, <3>1, SaveType DEF Queue
  <2>3. Shape([th[t] EXCEPT !.at = "get"])
    BY <1>6, <1>sh DEF Queue, At, Shape, Thread
  <2>4. th' \in [Threads -> Thread] /\ \A s \in Threads : Shape(th'[s])
    BY <1>6, <1>pt, <2>3, GotoEffect DEF Queue
  <2> QED BY <1>6, <1>ty, <2>2, <2>4 DEF Queue, IInv, TypeOK
<1>7. ASSUME NEW t \in Threads, SaveEdit(t) PROVE IInv'
  <2>1. th[t].c \in Connectors /\ th[t].rec \in Records
    BY <1>7, <1>sh DEF SaveEdit, At, Shape, Thread
  <2>2. conn' \in [Connectors -> Records \cup {None}]
    BY <1>7, <2>1, SaveType DEF SaveEdit
  <2>3. th' \in [Threads -> Thread] /\ \A s \in Threads : Shape(th'[s])
    BY <1>7, EndEffect DEF SaveEdit
  <2> QED BY <1>7, <1>ty, <2>2, <2>3 DEF SaveEdit, IInv, TypeOK
<1>8. ASSUME NEW t \in Threads, Erase(t) PROVE IInv'
  <2>1. th[t].c \in Connectors
    BY <1>8, <1>sh DEF Erase, At, Shape, Thread
  <2>2. conn' \in [Connectors -> Records \cup {None}]
    BY <1>8, <2>1, SaveType DEF Erase
  <2>3. th' \in [Threads -> Thread] /\ \A s \in Threads : Shape(th'[s])
    BY <1>8, EndEffect DEF Erase
  <2>4. NoPages \in Pages
    BY DEF NoPages, Pages
  <2>5. pages' \in [Connectors -> Pages]
    BY <1>8, <1>ty, <2>4 DEF Erase
  <2>6. lock' \in [Connectors -> BOOLEAN] /\ life' \in [Connectors -> {"new", "live", "deleted"}]
    BY <1>8, <1>ty DEF Erase
  <2> QED BY <1>8, <1>ty, <2>2, <2>3, <2>5, <2>6 DEF Erase, IInv, TypeOK
<1>9. ASSUME NEW t \in Threads, TakeDue(t) PROVE IInv'
  <2> PICK p \in th[t].due :
        /\ conn' = [conn EXCEPT ![p[1]] = [p[2] EXCEPT !.status = "queued"]]
        /\ th' = [th EXCEPT ![t].at = "get", ![t].op = "sync", ![t].c = p[1],
                            ![t].due = @ \ {p}]
    BY <1>9 DEF TakeDue
  <2> DEFINE c == p[1]
             due == th[t].due \ {p}
             r == [th[t] EXCEPT !.at = "get", !.op = "sync", !.c = c, !.due = due]
  <2>1. th[t].due \subseteq Connectors \X Records
    BY <1>sh DEF Thread
  <2>2. p[1] \in Connectors /\ p[2] \in Records
    BY <2>1
  <2>3. [p[2] EXCEPT !.status = "queued"] \in Records
    BY <2>2 DEF Records
  <2>4. conn' \in [Connectors -> Records \cup {None}]
    BY <2>2, <2>3, SaveType
  <2>5. c \in Connectors /\ due \subseteq Connectors \X Records
    BY <2>1, <2>2
  <2>6. th' = [th EXCEPT ![t] = r]
    OBVIOUS
  <2> HIDE DEF c, due
  <2>9. r \in Thread
    BY <2>5, <1>sh, <1>pt, ThreadStarts
  <2>10. r.at = "get" /\ r.op = "sync" /\ r.c = c
    BY <1>sh DEF Thread
  <2>8. r \in Thread /\ Shape(r)
    BY <2>5, <2>9, <2>10 DEF Shape
  <2>7. th' \in [Threads -> Thread] /\ \A s \in Threads : Shape(th'[s])
    BY <2>6, <2>8, ThreadPut
  <2> QED BY <1>9, <1>ty, <2>4, <2>7 DEF TakeDue, IInv, TypeOK
<1>10. ASSUME NEW t \in Threads, Get(t) PROVE IInv'
  <2> DEFINE r == [th[t] EXCEPT !.at = "acquire", !.rec = conn[th[t].c]]
  <2>1. th[t].c \in Connectors /\ th[t].op = "sync"
    BY <1>10, <1>sh DEF Get, At, Shape, Thread
  <2>2. CASE conn[th[t].c] = None
    <3>1. th' \in [Threads -> Thread] /\ \A s \in Threads : Shape(th'[s])
      BY <1>10, <2>2, EndEffect DEF Get
    <3> QED BY <1>10, <1>ty, <3>1 DEF Get, IInv, TypeOK
  <2>3. CASE conn[th[t].c] # None
    <3>1. conn[th[t].c] \in Records
      BY <1>ty, <2>1, <2>3
    <3>2. th' = [th EXCEPT ![t] = r]
      BY <1>10, <2>3 DEF Get
    <3>r. r \in Thread
      BY <3>1, <2>1, <1>sh, <1>pt, ThreadRecords
    <3>3. r \in Thread /\ Shape(r)
      BY <3>1, <2>1, <3>r, <1>sh DEF Thread, Shape
    <3>4. th' \in [Threads -> Thread] /\ \A s \in Threads : Shape(th'[s])
      BY <3>2, <3>3, ThreadPut
    <3> QED BY <1>10, <1>ty, <3>4 DEF Get, IInv, TypeOK
  <2> QED BY <2>2, <2>3
<1>11. ASSUME NEW t \in Threads, Acquire(t) PROVE IInv'
  <2>1. th[t].c \in Connectors /\ th[t].op = "sync"
    BY <1>11, <1>sh DEF Acquire, At, Shape, Thread
  <2>2. lock' \in [Connectors -> BOOLEAN]
    BY <1>11, <1>ty DEF Acquire
  <2>3. Shape([th[t] EXCEPT !.at = "run"])
    BY <1>11, <1>sh DEF Acquire, At, Shape, Thread
  <2>4. th' \in [Threads -> Thread] /\ \A s \in Threads : Shape(th'[s])
    BY <1>11, <1>pt, <2>3, GotoEffect, EndEffect DEF Acquire
  <2> QED BY <1>11, <1>ty, <2>2, <2>4 DEF Acquire, IInv, TypeOK
<1>12. ASSUME NEW t \in Threads, Run(t) PROVE IInv'
  <2> DEFINE rec == [th[t].rec EXCEPT !.status = "running"]
             r == [th[t] EXCEPT !.at = "pages", !.rec = rec]
  <2>1. th[t].c \in Connectors /\ th[t].op = "sync" /\ th[t].rec \in Records
    BY <1>12, <1>sh DEF Run, At, Shape, Thread
  <2>2. rec \in Records
    BY <2>1 DEF Records
  <2>3. th' = [th EXCEPT ![t] = r] /\ conn' = [conn EXCEPT ![th[t].c] = rec]
    BY <1>12 DEF Run
  <2> HIDE DEF rec
  <2>r. r \in Thread
    BY <2>1, <2>2, <1>sh, <1>pt, ThreadRecords
  <2>4. r \in Thread /\ Shape(r)
    BY <2>1, <2>2, <2>r, <1>sh DEF Thread, Shape
  <2>5. th' \in [Threads -> Thread] /\ \A s \in Threads : Shape(th'[s])
    BY <2>3, <2>4, ThreadPut
  <2>6. conn' \in [Connectors -> Records \cup {None}]
    BY <2>1, <2>2, <2>3, SaveType
  <2> QED BY <1>12, <1>ty, <2>5, <2>6 DEF Run, IInv, TypeOK
<1>13. ASSUME NEW t \in Threads, ReadPages(t) PROVE IInv'
  <2> DEFINE r == [th[t] EXCEPT !.at = "crawl", !.old = pages[th[t].c],
                                !.queued = {Start}, !.frontier = {Start}]
  <2>1. th[t].c \in Connectors /\ th[t].op = "sync" /\ th[t].rec \in Records
    BY <1>13, <1>sh DEF ReadPages, At, Shape, Thread
  <2>2. th' = [th EXCEPT ![t] = r]
    BY <1>13 DEF ReadPages
  <2>3. pages[th[t].c] \in Pages /\ {Start} \subseteq Urls
    BY <2>1, <1>ty, WebAssumption
  <2>r. r \in Thread
    BY <2>3, <1>sh, <1>pt, ThreadCrawls
  <2>4. r \in Thread /\ Shape(r)
    BY <2>1, <2>r, <1>sh DEF Thread, Shape
  <2>5. th' \in [Threads -> Thread] /\ \A s \in Threads : Shape(th'[s])
    BY <2>2, <2>4, ThreadPut
  <2> QED BY <1>13, <1>ty, <2>5 DEF ReadPages, IInv, TypeOK
<1>14. ASSUME NEW t \in Threads, Fetch(t) PROVE IInv'
  <2>1. /\ th[t].c \in Connectors /\ th[t].op = "sync" /\ th[t].rec \in Records
        /\ th[t].at = "crawl"
    BY <1>14, <1>sh DEF Fetch, At, Shape, Thread
  <2>2. PICK r \in Thread : Shape(r) /\ th' = [th EXCEPT ![t] = r]
    <3>1. PICK r \in Thread : /\ th' = [th EXCEPT ![t] = r]
                              /\ r.op = th[t].op /\ r.c = th[t].c /\ r.rec = th[t].rec
                              /\ r.at \in {"crawl", "own", "index"}
                              /\ r.at # "crawl" => r.doc \in Docs
      BY <1>14, FetchType DEF FetchResult
    <3> QED BY <2>1, <3>1 DEF Shape
  <2>3. th' \in [Threads -> Thread] /\ \A s \in Threads : Shape(th'[s])
    BY <2>2, ThreadPut
  <2> QED BY <1>14, <1>ty, <2>3 DEF Fetch, IInv, TypeOK
<1>15. ASSUME NEW t \in Threads, Index(t) PROVE IInv'
  <2> DEFINE r == [th[t] EXCEPT !.at = "crawl", !.doc = None]
  <2>1. /\ th[t].at = "index" /\ th[t].doc \in Docs
        /\ th[t].c \in Connectors /\ th[t].op = "sync" /\ th[t].rec \in Records
    BY <1>15, <1>sh DEF Index, At, Shape, Thread
  <2>2. CASE index' = index \cup {th[t].doc} /\ Goto(t, "own")
    <3>1. Shape([th[t] EXCEPT !.at = "own"])
      BY <2>1, <1>sh DEF Shape, Thread
    <3>2. th' \in [Threads -> Thread] /\ \A s \in Threads : Shape(th'[s])
      BY <2>2, <3>1, <1>pt, GotoEffect
    <3> QED BY <1>15, <1>ty, <2>1, <2>2, <3>2 DEF Index, IInv, TypeOK
  <2>3. CASE th' = [th EXCEPT ![t].at = "crawl", ![t].doc = None] /\ UNCHANGED index
    <3>r. r \in Thread
      BY <2>1, <1>sh, <1>pt, ThreadRecords
    <3>1. r \in Thread /\ Shape(r)
      BY <2>1, <3>r, <1>sh DEF Shape, Thread
    <3>2. th' = [th EXCEPT ![t] = r]
      BY <2>3
    <3>3. th' \in [Threads -> Thread] /\ \A s \in Threads : Shape(th'[s])
      BY <3>1, <3>2, ThreadPut
    <3> QED BY <1>15, <1>ty, <2>3, <3>3 DEF Index, IInv, TypeOK
  <2> QED BY <1>15, <2>2, <2>3 DEF Index
<1>16. ASSUME NEW t \in Threads, Own(t) PROVE IInv'
  <2> DEFINE d == th[t].doc
             new == [th[t].new EXCEPT ![d[1]] = d]
             good == [th[t] EXCEPT !.at = "crawl", !.doc = None, !.new = new]
             bad == [th[t] EXCEPT !.at = "crawl", !.doc = None]
  <2>1. /\ th[t].at = "own" /\ d \in Docs /\ th[t].new \in Pages
        /\ th[t].c \in Connectors /\ th[t].op = "sync" /\ th[t].rec \in Records
    BY <1>16, <1>sh DEF Own, At, Shape, Thread
  <2>2. new \in Pages
    BY <2>1 DEF Pages, Docs
  <2>3. CASE /\ own' = own \cup {<<Owner[th[t].c], th[t].doc>>}
             /\ entry' = [entry EXCEPT ![th[t].doc] = th[t].c]
             /\ th' = [th EXCEPT ![t].at = "crawl", ![t].doc = None,
                                 ![t].new[th[t].doc[1]] = th[t].doc]
    <3>1. own' \subseteq Owners \X Docs /\ entry' \in [Docs -> Connectors \cup {None}]
      BY <2>1, <2>3, <1>ty, WebAssumption
    <3>2. th' = [th EXCEPT ![t] = good]
      BY <2>3
    <3> HIDE DEF new
    <3>r. /\ good.at = "crawl" /\ good.op = "sync" /\ good.c = th[t].c
          /\ good.rec = th[t].rec
      BY <2>1, <1>sh DEF Thread
    <3>s. good \in Thread
      BY <2>2, <1>sh, <1>pt DEF Thread
    <3> HIDE DEF good
    <3>3. good \in Thread /\ Shape(good)
      BY <2>1, <3>r, <3>s DEF Shape
    <3>4. th' \in [Threads -> Thread] /\ \A s \in Threads : Shape(th'[s])
      BY <3>2, <3>3, ThreadPut
    <3> QED BY <1>16, <1>ty, <3>1, <3>4 DEF Own, IInv, TypeOK
  <2>4. CASE /\ th' = [th EXCEPT ![t].at = "crawl", ![t].doc = None]
             /\ UNCHANGED <<own, entry>>
    <3>1. th' = [th EXCEPT ![t] = bad]
      BY <2>4
    <3>5. bad \in Thread
      BY <1>sh, <1>pt, ThreadRecords
    <3>6. bad.at = "crawl" /\ bad.op = th[t].op /\ bad.c = th[t].c /\ bad.rec = th[t].rec
      BY <1>sh DEF Thread
    <3>4. /\ bad \in Thread /\ bad.at = "crawl" /\ bad.op = "sync" /\ bad.c = th[t].c
          /\ bad.rec = th[t].rec
      BY <2>1, <3>5, <3>6
    <3> HIDE DEF bad
    <3>2. bad \in Thread /\ Shape(bad)
      BY <2>1, <3>4 DEF Shape
    <3>3. th' \in [Threads -> Thread] /\ \A s \in Threads : Shape(th'[s])
      BY <3>1, <3>2, ThreadPut
    <3> QED BY <1>16, <1>ty, <2>4, <3>3 DEF Own, IInv, TypeOK
  <2> QED BY <1>16, <2>3, <2>4 DEF Own
<1>17. ASSUME NEW t \in Threads, CrawlEnds(t) PROVE IInv'
  <2> DEFINE now == Settled(t, th[t].frontier = {})
             retired == Replaced(t, now)
             r == [th[t] EXCEPT !.at = "retire", !.new = now, !.retired = retired]
  <2>1. /\ th[t].at = "crawl"
        /\ th[t].c \in Connectors /\ th[t].op = "sync" /\ th[t].rec \in Records
    BY <1>17, <1>sh DEF CrawlEnds, At, Shape, Thread
  <2>2. now \in Pages /\ retired \subseteq Docs
    BY SettledType
  <2>3. th' = [th EXCEPT ![t] = r]
    BY <1>17 DEF CrawlEnds
  <2> HIDE DEF now, retired
  <2>r. r \in Thread
    BY <2>2, <1>sh, <1>pt, ThreadRetires
  <2>4. r \in Thread /\ Shape(r)
    BY <2>1, <2>r, <1>sh DEF Shape, Thread
  <2>5. th' \in [Threads -> Thread] /\ \A s \in Threads : Shape(th'[s])
    BY <2>3, <2>4, ThreadPut
  <2> QED BY <1>17, <1>ty, <2>5 DEF CrawlEnds, IInv, TypeOK
<1>18. ASSUME NEW t \in Threads, Disown(t) PROVE IInv'
  <2>0. th[t].at = "retire"
    BY <1>18 DEF Disown, At
  <2>1. CASE \E d \in th[t].retired :
               /\ own' = own \ {<<Owner[th[t].c], d>>}
               /\ th' = [th EXCEPT ![t].at = "count", ![t].doc = d,
                                   ![t].retired = @ \ {d}]
    <3> PICK d \in th[t].retired :
               /\ own' = own \ {<<Owner[th[t].c], d>>}
               /\ th' = [th EXCEPT ![t].at = "count", ![t].doc = d,
                                   ![t].retired = @ \ {d}]
      BY <2>1
    <3> DEFINE left == th[t].retired \ {d}
               r == [th[t] EXCEPT !.at = "count", !.doc = d, !.retired = left]
    <3>1. d \in Docs /\ left \subseteq Docs
      BY <1>sh DEF Thread
    <3>3. th' = [th EXCEPT ![t] = r]
      OBVIOUS
    <3> HIDE DEF left
    <3>5. r \in Thread
      BY <3>1, <1>sh, <1>pt, ThreadDisowns
    <3>6. r.at = "count" /\ r.op = th[t].op /\ r.c = th[t].c /\ r.rec = th[t].rec /\ r.doc = d
      BY <1>sh DEF Thread
    <3>7. Shape(th[t])
      BY <1>sh
    <3>2. r \in Thread /\ Shape(r)
      BY <2>0, <3>1, <3>5, <3>6, <3>7 DEF Shape
    <3>4. th' \in [Threads -> Thread] /\ \A s \in Threads : Shape(th'[s])
      BY <3>2, <3>3, ThreadPut
    <3> QED BY <1>18, <1>ty, <3>4 DEF Disown, IInv, TypeOK
  <2>2. CASE Raises(t) /\ UNCHANGED own
    <3>1. th' \in [Threads -> Thread] /\ \A s \in Threads : Shape(th'[s])
      BY <2>0, <2>2, RaisesEffect
    <3> QED BY <1>18, <1>ty, <2>2, <3>1 DEF Disown, IInv, TypeOK
  <2> QED BY <1>18, <2>1, <2>2 DEF Disown
<1>19. ASSUME NEW t \in Threads, CountOwners(t) PROVE IInv'
  <2> DEFINE point == IF \E o \in Owners : <<o, th[t].doc>> \in own
                      THEN "retire" ELSE "drop"
  <2>1. th[t].at = "count" /\ th[t].doc \in Docs
    BY <1>19, <1>sh DEF CountOwners, At, Shape, Thread
  <2>2. point \in {"retire", "drop"} /\ Goto(t, point)
    BY <1>19 DEF CountOwners
  <2> HIDE DEF point
  <2>3. Shape([th[t] EXCEPT !.at = point])
    BY <2>1, <2>2, <1>sh DEF Shape, Thread
  <2>4. th' \in [Threads -> Thread] /\ \A s \in Threads : Shape(th'[s])
    BY <2>2, <2>3, <1>pt, GotoEffect
  <2>5. entry' \in [Docs -> Connectors \cup {None}]
    BY <1>19, <1>ty DEF CountOwners
  <2> QED BY <1>19, <1>ty, <2>4, <2>5 DEF CountOwners, IInv, TypeOK
<1>20. ASSUME NEW t \in Threads, Drop(t) PROVE IInv'
  <2>0. th[t].at = "drop"
    BY <1>20 DEF Drop, At
  <2>1. CASE index' = index \ {th[t].doc} /\ Goto(t, "retire")
    <3>1. Shape([th[t] EXCEPT !.at = "retire"])
      BY <2>0, <1>sh DEF Shape, Thread
    <3>2. th' \in [Threads -> Thread] /\ \A s \in Threads : Shape(th'[s])
      BY <2>1, <3>1, <1>pt, GotoEffect
    <3> QED BY <1>20, <1>ty, <2>1, <3>2 DEF Drop, IInv, TypeOK
  <2>2. CASE Raises(t) /\ UNCHANGED index
    <3>1. th' \in [Threads -> Thread] /\ \A s \in Threads : Shape(th'[s])
      BY <2>0, <2>2, RaisesEffect
    <3> QED BY <1>20, <1>ty, <2>2, <3>1 DEF Drop, IInv, TypeOK
  <2> QED BY <1>20, <2>1, <2>2 DEF Drop
<1>21. ASSUME NEW t \in Threads, ReplacePages(t) PROVE IInv'
  <2>1. /\ th[t].at = "retire" /\ th[t].op = "sync" /\ th[t].new \in Pages
        /\ th[t].c \in Connectors
    BY <1>21, <1>sh DEF ReplacePages, At, Shape, Thread
  <2>2. Shape([th[t] EXCEPT !.at = "finish"])
    BY <2>1, <1>sh DEF Shape, Thread
  <2>3. th' \in [Threads -> Thread] /\ \A s \in Threads : Shape(th'[s])
    BY <1>21, <2>2, <1>pt, GotoEffect DEF ReplacePages
  <2>4. pages' \in [Connectors -> Pages]
    BY <1>21, <2>1, <1>ty DEF ReplacePages
  <2> QED BY <1>21, <1>ty, <2>3, <2>4 DEF ReplacePages, IInv, TypeOK
<1>22. ASSUME NEW t \in Threads, Fail(t) PROVE IInv'
  <2> DEFINE rec == IF conn[th[t].c] = None THEN th[t].rec ELSE conn[th[t].c]
             r == [th[t] EXCEPT !.at = "finish", !.rec = rec]
  <2>1. /\ th[t].at = "fail" /\ th[t].op = "sync" /\ th[t].rec \in Records
        /\ th[t].c \in Connectors
    BY <1>22, <1>sh DEF Fail, At, Shape, Thread
  <2>2. rec \in Records
    BY <2>1, <1>ty
  <2>3. th' = [th EXCEPT ![t] = r]
    BY <1>22 DEF Fail
  <2> HIDE DEF rec
  <2>r. r \in Thread
    BY <2>1, <2>2, <1>sh, <1>pt, ThreadRecords
  <2>4. r \in Thread /\ Shape(r)
    BY <2>1, <2>2, <2>r, <1>sh DEF Shape, Thread
  <2>5. th' \in [Threads -> Thread] /\ \A s \in Threads : Shape(th'[s])
    BY <2>3, <2>4, ThreadPut
  <2> QED BY <1>22, <1>ty, <2>5 DEF Fail, IInv, TypeOK
<1>23. ASSUME NEW t \in Threads, Finish(t) PROVE IInv'
  <2>1. /\ th[t].at = "finish" /\ th[t].op = "sync" /\ th[t].rec \in Records
        /\ th[t].c \in Connectors
    BY <1>23, <1>sh DEF Finish, At, Shape, Thread
  <2>2. [th[t].rec EXCEPT !.status = "idle"] \in Records
    BY <2>1 DEF Records
  <2>3. conn' \in [Connectors -> Records \cup {None}]
    BY <1>23, <2>1, <2>2, SaveType DEF Finish
  <2>4. Shape([th[t] EXCEPT !.at = "release"])
    BY <2>1, <1>sh DEF Shape, Thread
  <2>5. th' \in [Threads -> Thread] /\ \A s \in Threads : Shape(th'[s])
    BY <1>23, <2>4, <1>pt, GotoEffect DEF Finish
  <2> QED BY <1>23, <1>ty, <2>3, <2>5 DEF Finish, IInv, TypeOK
<1>24. ASSUME NEW t \in Threads, Release(t) PROVE IInv'
  <2>1. th' \in [Threads -> Thread] /\ \A s \in Threads : Shape(th'[s])
    BY <1>24, EndEffect DEF Release
  <2>2. lock' \in [Connectors -> BOOLEAN]
    BY <1>24, <1>ty DEF Release
  <2> QED BY <1>24, <1>ty, <2>1, <2>2 DEF Release, IInv, TypeOK
<1>25. ASSUME NEW u \in Urls, NEW x \in NewContents, ChangeSite(u, x) PROVE IInv'
  <2>1. site' \in [Urls -> Contents \cup {None}]
    BY <1>25, <1>ty, WebAssumption DEF ChangeSite
  <2>2. edits' \in 0..MaxEdits
    BY <1>25, <1>ty, WebAssumption DEF ChangeSite
  <2> QED BY <1>25, <1>ty, <1>sh, <2>1, <2>2 DEF ChangeSite, IInv, TypeOK
<1>26. ASSUME NEW c \in Connectors, Expire(c) PROVE IInv'
  <2>1. lock' \in [Connectors -> BOOLEAN]
    BY <1>26, <1>ty DEF Expire
  <2>2. expiries' \in 0..MaxExpiries
    BY <1>26, <1>ty, WebAssumption DEF Expire
  <2> QED BY <1>26, <1>ty, <1>sh, <2>1, <2>2 DEF Expire, IInv, TypeOK
<1>27. CASE Restart
  <2>1. restarts' \in 0..MaxRestarts
    BY <1>27, <1>ty, WebAssumption DEF Restart
  <2>2. th' \in [Threads -> Thread] /\ \A s \in Threads : Shape(th'[s])
    BY <1>27, NoThreadType DEF Restart
  <2> QED BY <1>27, <1>ty, <2>1, <2>2 DEF Restart, IInv, TypeOK
<1>28. CASE UNCHANGED vars
  BY <1>28, <1>ty, <1>sh DEF vars, IInv, TypeOK
<1> QED
  BY <1>1, <1>2, <1>3, <1>4, <1>5, <1>6, <1>7, <1>8, <1>9, <1>10, <1>11, <1>12,
     <1>13, <1>14, <1>15, <1>16, <1>17, <1>18, <1>19, <1>20, <1>21, <1>22, <1>23,
     <1>24, <1>25, <1>26, <1>27, <1>28 DEF Next, Step

\* Every variable keeps its type, and threads have in hand what they need.
THEOREM Invariance == Spec => []IInv
BY TypeInit, TypeStep, PTL DEF Spec

\* TypeOK holds in every reachable state.
THEOREM TypeCorrect == Spec => []TypeOK
<1>1. IInv => TypeOK
  BY DEF IInv
<1> QED BY <1>1, Invariance, PTL

-----------------------------------------------------------------------------
(* No document is left in the index that nobody owns *)

\* What one thread does leaves the others as they are.
LEMMA OthersKeep ==
  ASSUME IInv, NEW t \in Threads,
         Step(t) \/ Tick(t) \/ \E c \in Connectors :
           Create(t, c) \/ Post(t, c) \/ Edit(t, c) \/ Delete(t, c)
  PROVE  \A s \in Threads : s # t => th'[s] = th[s]
<1>ty. th \in [Threads -> Thread]
  BY DEF IInv, TypeOK
<1>e. End(t) => \A s \in Threads : s # t => th'[s] = th[s]
  BY <1>ty DEF End
<1>g. ASSUME NEW point, Goto(t, point) PROVE \A s \in Threads : s # t => th'[s] = th[s]
  BY <1>ty, <1>g DEF Goto
<1>r. Raises(t) => \A s \in Threads : s # t => th'[s] = th[s]
  BY <1>e, <1>g DEF Raises
<1>1. CASE Queue(t) \/ SaveEdit(t) \/ Erase(t) \/ TakeDue(t)
  BY <1>1, <1>ty, <1>e, <1>g DEF Queue, SaveEdit, Erase, TakeDue
<1>2. CASE Get(t) \/ Acquire(t) \/ Run(t) \/ ReadPages(t)
  BY <1>2, <1>ty, <1>e, <1>g DEF Get, Acquire, Run, ReadPages
<1>3. CASE Fetch(t)
  BY <1>3, <1>ty DEF Fetch
<1>4. CASE Index(t) \/ Own(t) \/ CrawlEnds(t)
  BY <1>4, <1>ty, <1>g DEF Index, Own, CrawlEnds
<1>5. CASE Disown(t) \/ CountOwners(t) \/ Drop(t)
  BY <1>5, <1>ty, <1>g, <1>r DEF Disown, CountOwners, Drop
<1>6. CASE ReplacePages(t) \/ Fail(t) \/ Finish(t) \/ Release(t)
  BY <1>6, <1>ty, <1>e, <1>g DEF ReplacePages, Fail, Finish, Release
<1>7. CASE Tick(t)
  BY <1>7, <1>ty DEF Tick
<1>8. CASE \E c \in Connectors : Create(t, c) \/ Post(t, c) \/ Edit(t, c) \/ Delete(t, c)
  BY <1>8, <1>ty DEF Create, Post, Edit, Delete
<1> QED BY <1>1, <1>2, <1>3, <1>4, <1>5, <1>6, <1>7, <1>8 DEF Step

\* A step that leaves ownership and index alone, by a thread that has no
\* document between the index and its owner, strands nothing.
LEMMA Untouched ==
  ASSUME UnownedIsDropped, UNCHANGED <<own, index>>, NEW t \in Threads,
         th[t].at \notin {"own", "count", "drop"},
         \A s \in Threads : s # t => th'[s] = th[s]
  PROVE  UnownedIsDropped'
BY DEF UnownedIsDropped

\* Whatever several owners do at once, a step that strands a document would
\* need one of the failures or a restart.
LEMMA UnownedStep ==
  ASSUME "own" \notin Faults, "retire" \notin Faults, MaxRestarts = 0
  PROVE  IInv /\ UnownedIsDropped /\ [Next]_vars => UnownedIsDropped'
<1> SUFFICES ASSUME IInv, UnownedIsDropped, [Next]_vars PROVE UnownedIsDropped'
  OBVIOUS
<1> USE DEF library, redis
<1>ty. th \in [Threads -> Thread] /\ restarts \in 0..MaxRestarts /\ index \subseteq Docs
  BY DEF IInv, TypeOK
<1>sh. \A s \in Threads : th[s] \in Thread /\ Shape(th[s])
  BY <1>ty DEF IInv
<1>1. ASSUME NEW t \in Threads,
             \/ Queue(t) \/ SaveEdit(t) \/ Erase(t) \/ TakeDue(t)
             \/ Get(t) \/ Acquire(t) \/ Run(t) \/ ReadPages(t)
             \/ Fetch(t) \/ CrawlEnds(t)
             \/ ReplacePages(t) \/ Fail(t) \/ Finish(t) \/ Release(t)
      PROVE  UnownedIsDropped'
  <2>1. \A s \in Threads : s # t => th'[s] = th[s]
    BY <1>1, OthersKeep DEF Step
  <2>2. UNCHANGED <<own, index>>
    BY <1>1 DEF Queue, SaveEdit, Erase, TakeDue, Get, Acquire, Run, ReadPages,
                Fetch, CrawlEnds, ReplacePages, Fail, Finish, Release
  <2>3. th[t].at \notin {"own", "count", "drop"}
    BY <1>1 DEF Queue, SaveEdit, Erase, TakeDue, Get, Acquire, Run, ReadPages,
                Fetch, CrawlEnds, ReplacePages, Fail, Finish, Release, At
  <2> QED BY <2>1, <2>2, <2>3, Untouched
<1>2. ASSUME NEW t \in Threads, NEW c \in Connectors,
             Create(t, c) \/ Post(t, c) \/ Edit(t, c) \/ Delete(t, c)
      PROVE  UnownedIsDropped'
  <2>1. \A s \in Threads : s # t => th'[s] = th[s]
    BY <1>2, OthersKeep
  <2>2. UNCHANGED <<own, index>> /\ th[t].at = "idle"
    BY <1>2 DEF Create, Post, Edit, Delete, At
  <2> QED BY <2>1, <2>2, Untouched
<1>3. ASSUME NEW t \in Threads, Tick(t) PROVE UnownedIsDropped'
  <2>1. \A s \in Threads : s # t => th'[s] = th[s]
    BY <1>3, OthersKeep
  <2>2. UNCHANGED <<own, index>> /\ th[t].at = "idle"
    BY <1>3 DEF Tick, At
  <2> QED BY <2>1, <2>2, Untouched
<1>4. ASSUME NEW t \in Threads, Index(t) PROVE UnownedIsDropped'
  <2>1. \A s \in Threads : s # t => th'[s] = th[s]
    BY <1>4, OthersKeep DEF Step
  <2>2. th[t].at = "index"
    BY <1>4 DEF Index, At
  <2>3. CASE index' = index \cup {th[t].doc} /\ Goto(t, "own")
    <3>1. th'[t].at = "own" /\ th'[t].doc = th[t].doc
      BY <2>3, <1>ty DEF Goto, Thread
    <3> QED BY <1>4, <2>1, <2>2, <2>3, <3>1 DEF Index, UnownedIsDropped
  <2>4. CASE UNCHANGED index
    BY <1>4, <2>1, <2>2, <2>4, Untouched DEF Index
  <2> QED BY <1>4, <2>3, <2>4 DEF Index
<1>5. ASSUME NEW t \in Threads, Own(t) PROVE UnownedIsDropped'
  <2>1. \A s \in Threads : s # t => th'[s] = th[s]
    BY <1>5, OthersKeep DEF Step
  <2>2. /\ own' = own \cup {<<Owner[th[t].c], th[t].doc>>}
        /\ UNCHANGED index
    BY <1>5 DEF Own
  <2>3. th[t].c \in Connectors
    BY <1>5, <1>sh DEF Own, At, Shape, Thread
  <2>4. Owner[th[t].c] \in Owners
    BY <2>3, WebAssumption
  <2> QED BY <2>1, <2>2, <2>4 DEF UnownedIsDropped
<1>6. ASSUME NEW t \in Threads, Disown(t) PROVE UnownedIsDropped'
  <2>1. \A s \in Threads : s # t => th'[s] = th[s]
    BY <1>6, OthersKeep DEF Step
  <2>2. PICK d \in th[t].retired :
          /\ own' = own \ {<<Owner[th[t].c], d>>}
          /\ th' = [th EXCEPT ![t].at = "count", ![t].doc = d,
                              ![t].retired = @ \ {d}]
    BY <1>6 DEF Disown, Raises
  <2>3. th'[t].at = "count" /\ th'[t].doc = d
    BY <2>2, <1>ty DEF Thread
  <2>4. th[t].at = "retire" /\ index' = index
    BY <1>6 DEF Disown, At
  <2>5. ASSUME NEW e \in index, e # d
        PROVE  \/ \E o \in Owners : <<o, e>> \in own'
               \/ \E s \in Threads : th'[s].doc = e /\ th'[s].at \in {"own", "count", "drop"}
    <3>1. ASSUME NEW o \in Owners, <<o, e>> \in own PROVE <<o, e>> \in own'
      BY <2>2, <2>5, <3>1
    <3>2. ASSUME NEW s \in Threads, th[s].doc = e, th[s].at \in {"own", "count", "drop"}
          PROVE  th'[s].doc = e /\ th'[s].at \in {"own", "count", "drop"}
      BY <2>1, <2>4, <3>2
    <3> QED BY <3>1, <3>2 DEF UnownedIsDropped
  <2> QED BY <2>3, <2>4, <2>5 DEF UnownedIsDropped
<1>7. ASSUME NEW t \in Threads, CountOwners(t) PROVE UnownedIsDropped'
  <2>1. \A s \in Threads : s # t => th'[s] = th[s]
    BY <1>7, OthersKeep DEF Step
  <2>2. UNCHANGED <<own, index>>
    BY <1>7 DEF CountOwners
  <2>3. CASE \E o \in Owners : <<o, th[t].doc>> \in own
    BY <2>1, <2>2, <2>3 DEF UnownedIsDropped
  <2>4. CASE ~ \E o \in Owners : <<o, th[t].doc>> \in own
    <3>1. Goto(t, "drop")
      BY <1>7, <2>4 DEF CountOwners
    <3>2. th'[t].at = "drop" /\ th'[t].doc = th[t].doc
      BY <3>1, <1>ty DEF Goto, Thread
    <3> QED BY <2>1, <2>2, <3>2 DEF UnownedIsDropped
  <2> QED BY <2>3, <2>4
<1>8. ASSUME NEW t \in Threads, Drop(t) PROVE UnownedIsDropped'
  <2>1. \A s \in Threads : s # t => th'[s] = th[s]
    BY <1>8, OthersKeep DEF Step
  <2>2. index' = index \ {th[t].doc} /\ UNCHANGED own
    BY <1>8 DEF Drop, Raises
  <2> QED BY <2>1, <2>2 DEF UnownedIsDropped
<1>9. ASSUME NEW u \in Urls, NEW x \in NewContents, ChangeSite(u, x)
      PROVE  UnownedIsDropped'
  BY <1>9 DEF ChangeSite, UnownedIsDropped
<1>10. ASSUME NEW c \in Connectors, Expire(c) PROVE UnownedIsDropped'
  BY <1>10 DEF Expire, UnownedIsDropped
<1>11. CASE Restart
  BY <1>11, <1>ty DEF Restart
<1>12. CASE UNCHANGED vars
  BY <1>12 DEF vars, UnownedIsDropped
<1> QED
  BY <1>1, <1>2, <1>3, <1>4, <1>5, <1>6, <1>7, <1>8, <1>9, <1>10, <1>11, <1>12
  DEF Next, Step

\* However many owners, connectors and loops sync, retire and delete the same
\* pages at once, a document that nobody owns leaves the index.
THEOREM NothingIsStranded ==
  ASSUME "own" \notin Faults, "retire" \notin Faults, MaxRestarts = 0
  PROVE  Spec => []UnownedIsDropped
<1>1. Init => UnownedIsDropped
  BY DEF Init, UnownedIsDropped
<1>2. IInv /\ UnownedIsDropped /\ [Next]_vars => UnownedIsDropped'
  BY UnownedStep
<1> QED BY <1>1, <1>2, Invariance, PTL DEF Spec

-----------------------------------------------------------------------------
(* One sync of a connector at a time *)

\* A step by which no thread starts or ends a sync, and which leaves the
\* locks alone, keeps the lock invariant.
LEMMA LockUntouched ==
  ASSUME LockInv, UNCHANGED lock, NEW t \in Threads,
         \A s \in Threads : s # t => th'[s] = th[s],
         \A c \in Connectors : Locked(c)' => Locked(c),
         \A c \in Connectors : Syncing(t, c)' => Syncing(t, c)
  PROVE  LockInv'
BY DEF LockInv, OneSyncAtATime, Syncing

\* A lock that was lost, with its connector or under a sync, stays lost.
LEMMA LockedBefore ==
  ASSUME IInv, [Next]_vars, NEW c \in Connectors, Locked(c)'
  PROVE  Locked(c)
<1> USE DEF library, redis, counters, Locked
<1>ty. expiries \in Nat /\ life \in [Connectors -> {"new", "live", "deleted"}]
  BY WebAssumption DEF IInv, TypeOK
<1>1. ASSUME NEW t \in Threads, NEW d \in Connectors, Create(t, d) PROVE Locked(c)
  BY <1>1, <1>ty DEF Create
<1>2. ASSUME NEW t \in Threads, Erase(t) PROVE Locked(c)
  BY <1>2, <1>ty DEF Erase
<1>3. ASSUME NEW d \in Connectors, Expire(d) PROVE Locked(c)
  BY <1>3, <1>ty DEF Expire
<1>4. ASSUME UNCHANGED <<life, expiries>> PROVE Locked(c)
  BY <1>4
<1>5. ASSUME NEW t \in Threads, NEW d \in Connectors, Post(t, d) \/ Edit(t, d) \/ Delete(t, d)
      PROVE  Locked(c)
  BY <1>4, <1>5 DEF Post, Edit, Delete
<1>6. ASSUME NEW t \in Threads,
             \/ Tick(t) \/ Queue(t) \/ SaveEdit(t) \/ TakeDue(t) \/ Get(t) \/ Acquire(t)
             \/ Run(t) \/ ReadPages(t) \/ Fetch(t) \/ Index(t) \/ Own(t)
             \/ CrawlEnds(t) \/ Disown(t) \/ CountOwners(t) \/ Drop(t)
             \/ ReplacePages(t) \/ Fail(t) \/ Finish(t) \/ Release(t)
      PROVE  Locked(c)
  <2>1. UNCHANGED <<life, expiries>>
    BY <1>6 DEF Tick, Queue, SaveEdit, TakeDue, Get, Acquire, Run, ReadPages, Fetch, Index,
                Own, CrawlEnds, Disown, CountOwners, Drop, ReplacePages, Fail, Finish, Release
  <2> QED BY <1>4, <2>1
<1>7. CASE Restart
  BY <1>4, <1>7 DEF Restart
<1>8. ASSUME NEW u \in Urls, NEW x \in NewContents, ChangeSite(u, x) PROVE Locked(c)
  BY <1>4, <1>8 DEF ChangeSite
<1>9. CASE UNCHANGED vars
  BY <1>4, <1>9 DEF vars
<1> QED BY <1>1, <1>2, <1>3, <1>5, <1>6, <1>7, <1>8, <1>9 DEF Next, Step

\* The lock keeps the syncs of a connector apart as long as it is not lost.
LEMMA LockStep == IInv /\ LockInv /\ [Next]_vars => LockInv'
<1> SUFFICES ASSUME IInv, LockInv, [Next]_vars PROVE LockInv'
  OBVIOUS
<1> USE DEF library, redis
<1>ty. /\ th \in [Threads -> Thread] /\ lock \in [Connectors -> BOOLEAN]
  BY DEF IInv, TypeOK
<1>lf. life \in [Connectors -> {"new", "live", "deleted"}]
  BY DEF IInv, TypeOK
<1>sh. \A s \in Threads : th[s] \in Thread /\ Shape(th[s])
  BY <1>ty DEF IInv
<1>lk. \A c \in Connectors : Locked(c)' => Locked(c)
  BY LockedBefore
<1>g. ASSUME NEW t \in Threads, NEW point \in Points, Goto(t, point)
      PROVE  /\ th'[t].at = point /\ th'[t].op = th[t].op /\ th'[t].c = th[t].c
  BY <1>ty, <1>g DEF Goto, Thread
<1>e. ASSUME NEW t \in Threads, End(t)
      PROVE  th'[t].at = "idle" /\ th'[t].op = "none"
  BY <1>ty, <1>e DEF End, Ended, NoThread
<1>pt. {"get", "run", "own", "retire", "drop", "finish", "fail", "release"} \subseteq Points
  BY DEF Points
<1>1. ASSUME NEW t \in Threads, NEW c \in Connectors,
             Create(t, c) \/ Post(t, c) \/ Edit(t, c)
      PROVE  LockInv'
  <2>1. \A s \in Threads : s # t => th'[s] = th[s]
    BY <1>1, OthersKeep
  <2>2. UNCHANGED lock
    BY <1>1 DEF Create, Post, Edit
  <2>3. th'[t].at \in {"idle", "queue", "edit"}
    BY <1>1, <1>ty DEF Create, Post, Edit, At, Thread
  <2> QED BY <2>1, <2>2, <2>3, <1>lk, LockUntouched DEF Syncing, Holding
<1>2. ASSUME NEW t \in Threads, NEW c \in Connectors, Delete(t, c) PROVE LockInv'
  <2>1. \A s \in Threads : s # t => th'[s] = th[s]
    BY <1>2, OthersKeep
  <2>2. UNCHANGED lock
    BY <1>2 DEF Delete
  <2>3. th'[t].op = "delete"
    BY <1>2, <1>ty DEF Delete, Thread
  <2> QED BY <2>1, <2>2, <2>3, <1>lk, LockUntouched DEF Syncing
<1>3. ASSUME NEW t \in Threads, Erase(t) PROVE LockInv'
  <2>1. \A s \in Threads : s # t => th'[s] = th[s]
    BY <1>3, OthersKeep DEF Step
  <2>2. th'[t].op = "none"
    BY <1>3, <1>e DEF Erase
  <2>3. \A c \in Connectors : Locked(c)' => lock'[c] = lock[c]
    BY <1>3, <1>ty, <1>lf DEF Erase, Locked
  <2>4. \A s \in Threads, c \in Connectors : Syncing(s, c)' => Syncing(s, c)
    BY <2>1, <2>2 DEF Syncing
  <2> QED BY <2>3, <2>4, <1>lk DEF LockInv, OneSyncAtATime
<1>4. ASSUME NEW t \in Threads, Tick(t) PROVE LockInv'
  <2>1. \A s \in Threads : s # t => th'[s] = th[s]
    BY <1>4, OthersKeep
  <2>2. UNCHANGED lock
    BY <1>4 DEF Tick
  <2>3. th'[t].at = "idle"
    BY <1>4, <1>ty DEF Tick, At, Thread
  <2> QED BY <2>1, <2>2, <2>3, <1>lk, LockUntouched DEF Syncing, Holding
<1>5. ASSUME NEW t \in Threads, Queue(t) \/ SaveEdit(t) \/ TakeDue(t) \/ Get(t)
      PROVE  LockInv'
  <2>1. \A s \in Threads : s # t => th'[s] = th[s]
    BY <1>5, OthersKeep DEF Step
  <2>2. UNCHANGED lock
    BY <1>5 DEF Queue, SaveEdit, TakeDue, Get
  <2>3. th'[t].at \in {"idle", "get", "acquire"}
    <3>1. CASE Queue(t) \/ SaveEdit(t)
      BY <3>1, <1>g, <1>e, <1>pt DEF Queue, SaveEdit
    <3>2. CASE TakeDue(t)
      BY <3>2, <1>ty DEF TakeDue, Thread
    <3>3. CASE Get(t)
      BY <3>3, <1>ty, <1>e DEF Get, Thread
    <3> QED BY <1>5, <3>1, <3>2, <3>3
  <2> QED BY <2>1, <2>2, <2>3, <1>lk, LockUntouched DEF Syncing, Holding
<1>6. ASSUME NEW t \in Threads, Acquire(t) PROVE LockInv'
  <2>1. \A s \in Threads : s # t => th'[s] = th[s]
    BY <1>6, OthersKeep DEF Step
  <2>2. CASE End(t) /\ UNCHANGED lock
    BY <2>1, <2>2, <1>e, <1>lk, LockUntouched DEF Syncing
  <2>3. CASE /\ ~lock[th[t].c] /\ Goto(t, "run")
             /\ lock' = [lock EXCEPT ![th[t].c] = TRUE]
    <3>1. th[t].c \in Connectors
      BY <1>6, <1>sh DEF Acquire, At, Shape, Thread
    <3>2. th'[t].c = th[t].c
      BY <2>3, <1>g, <1>pt
    <3>3. Locked(th[t].c) => \A s \in Threads : ~Syncing(s, th[t].c)
      BY <2>3, <3>1 DEF LockInv
    <3>4. \A c \in Connectors : lock'[c] = IF c = th[t].c THEN TRUE ELSE lock[c]
      BY <2>3, <1>ty
    <3>5. \A s \in Threads, c \in Connectors :
            Locked(c) /\ Syncing(s, c)' => \/ s = t /\ c = th[t].c
                                           \/ s # t /\ Syncing(s, c) /\ c # th[t].c
      BY <2>1, <3>2, <3>3 DEF Syncing
    <3>7. \A s \in Threads, c \in Connectors : Locked(c)' /\ Syncing(s, c)' => lock'[c]
      BY <3>4, <3>5, <1>lk DEF LockInv
    <3>8. OneSyncAtATime'
      <4> SUFFICES ASSUME NEW c \in Connectors, Locked(c)', NEW t1 \in Threads,
                          NEW t2 \in Threads, Syncing(t1, c)', Syncing(t2, c)'
                   PROVE  t1 = t2
        BY DEF OneSyncAtATime
      <4>0. Locked(c)
        BY <1>lk
      <4>1. CASE c = th[t].c
        BY <3>5, <4>0, <4>1
      <4>2. CASE c # th[t].c
        BY <3>5, <4>0, <4>2 DEF LockInv, OneSyncAtATime
      <4> QED BY <4>1, <4>2
    <3> QED BY <3>7, <3>8 DEF LockInv
  <2> QED BY <1>6, <2>2, <2>3 DEF Acquire
<1>7. ASSUME NEW t \in Threads,
             \/ Run(t) \/ ReadPages(t) \/ Fetch(t) \/ Index(t) \/ Own(t)
             \/ CrawlEnds(t) \/ Disown(t) \/ CountOwners(t) \/ Drop(t)
             \/ ReplacePages(t) \/ Fail(t) \/ Finish(t)
      PROVE  LockInv'
  <2>1. \A s \in Threads : s # t => th'[s] = th[s]
    BY <1>7, OthersKeep DEF Step
  <2>2. UNCHANGED lock
    BY <1>7 DEF Run, ReadPages, Fetch, Index, Own, CrawlEnds, Disown, CountOwners,
                Drop, ReplacePages, Fail, Finish
  <2>3. th[t].at \in Holding
    BY <1>7 DEF Run, ReadPages, Fetch, Index, Own, CrawlEnds, Disown, CountOwners,
                Drop, ReplacePages, Fail, Finish, At, Holding
  <2>4. \/ th'[t].op = th[t].op /\ th'[t].c = th[t].c
        \/ th'[t].op = "none"
    <3>1. CASE Run(t) \/ ReadPages(t)
      BY <3>1, <1>ty DEF Run, ReadPages, Thread
    <3>2. CASE Fetch(t)
      <4>1. PICK r \in Thread : th' = [th EXCEPT ![t] = r] /\ FetchResult(t, r)
        BY <3>2, FetchType
      <4>2. th'[t] = r
        BY <4>1, <1>ty
      <4> QED BY <4>1, <4>2 DEF FetchResult
    <3>3. CASE Index(t) \/ Own(t) \/ CrawlEnds(t)
      <4>1. CASE Index(t)
        BY <4>1, <1>ty, <1>g, <1>pt DEF Index, Thread
      <4>2. CASE Own(t)
        BY <4>2, <1>ty DEF Own, Thread
      <4>3. CASE CrawlEnds(t)
        BY <4>3, <1>ty DEF CrawlEnds, Thread
      <4> QED BY <3>3, <4>1, <4>2, <4>3
    <3>4. Raises(t) => \/ th'[t].op = th[t].op /\ th'[t].c = th[t].c
                       \/ th'[t].op = "none"
      BY <1>g, <1>e, <1>pt DEF Raises
    <3>5. CASE Disown(t) \/ CountOwners(t) \/ Drop(t)
      <4>1. CASE Disown(t)
        BY <3>4, <4>1, <1>ty DEF Disown, Thread
      <4>2. CASE CountOwners(t)
        <5>1. \E point \in Points : Goto(t, point)
          BY <4>2, <1>pt DEF CountOwners
        <5> QED BY <5>1, <1>g
      <4>3. CASE Drop(t)
        BY <3>4, <4>3, <1>g, <1>pt DEF Drop
      <4> QED BY <3>5, <4>1, <4>2, <4>3
    <3>6. CASE ReplacePages(t) \/ Fail(t) \/ Finish(t)
      BY <3>6, <1>ty, <1>g, <1>pt DEF ReplacePages, Fail, Finish, Thread
    <3> QED BY <1>7, <3>1, <3>2, <3>3, <3>5, <3>6
  <2> QED BY <2>1, <2>2, <2>3, <2>4, <1>lk, LockUntouched DEF Syncing
<1>8. ASSUME NEW t \in Threads, Release(t) PROVE LockInv'
  <2>1. \A s \in Threads : s # t => th'[s] = th[s]
    BY <1>8, OthersKeep DEF Step
  <2>2. th'[t].op = "none"
    BY <1>8, <1>e DEF Release
  <2>3. th[t].at = "release" /\ th[t].op = "sync"
    BY <1>8, <1>sh DEF Release, At, Shape, Thread
  <2>4. Syncing(t, th[t].c)
    BY <2>3 DEF Syncing, Holding
  <2>5. \A c \in Connectors : lock'[c] = IF c = th[t].c THEN FALSE ELSE lock[c]
    BY <1>8, <1>ty DEF Release
  <2>6. \A s \in Threads, c \in Connectors :
          Syncing(s, c)' => s # t /\ Syncing(s, c)
    BY <2>1, <2>2 DEF Syncing
  <2>8. OneSyncAtATime'
    BY <2>6, <1>lk DEF LockInv, OneSyncAtATime
  <2>9. \A s \in Threads, c \in Connectors : Locked(c)' /\ Syncing(s, c)' => lock'[c]
    <3> SUFFICES ASSUME NEW s \in Threads, NEW c \in Connectors, Locked(c)', Syncing(s, c)'
                 PROVE  lock'[c]
      OBVIOUS
    <3>1. s # t /\ Syncing(s, c) /\ Locked(c)
      BY <2>6, <1>lk
    <3>2. CASE c = th[t].c
      BY <2>4, <3>1, <3>2 DEF LockInv, OneSyncAtATime
    <3>3. CASE c # th[t].c
      BY <2>5, <3>1, <3>3 DEF LockInv
    <3> QED BY <3>2, <3>3
  <2> QED BY <2>8, <2>9 DEF LockInv
<1>9. ASSUME NEW c \in Connectors, Expire(c) PROVE LockInv'
  <2>1. th' = th /\ lock' = [lock EXCEPT ![c] = FALSE]
    BY <1>9 DEF Expire
  <2>2. CASE \E t \in Threads : Syncing(t, c)
    <3>1. expiries \in Nat /\ expiries' = expiries + 1
      BY <1>9, <2>2, WebAssumption DEF Expire, IInv, TypeOK
    <3>2. \A d \in Connectors : ~Locked(d)'
      BY <3>1 DEF Locked
    <3> QED BY <3>2 DEF LockInv, OneSyncAtATime
  <2>3. CASE ~ \E t \in Threads : Syncing(t, c)
    BY <2>1, <2>3, <1>ty, <1>lk DEF LockInv, OneSyncAtATime, Syncing
  <2> QED BY <2>2, <2>3
<1>10. CASE Restart
  <2>1. \A t \in Threads : th'[t].op = "none"
    BY <1>10 DEF Restart, NoThread
  <2> QED BY <2>1 DEF LockInv, OneSyncAtATime, Syncing
<1>11. ASSUME NEW u \in Urls, NEW x \in NewContents, ChangeSite(u, x) PROVE LockInv'
  BY <1>11, <1>lk DEF ChangeSite, LockInv, OneSyncAtATime, Syncing
<1>12. CASE UNCHANGED vars
  BY <1>12, <1>lk DEF vars, LockInv, OneSyncAtATime, Syncing
<1> QED
  BY <1>1, <1>2, <1>3, <1>4, <1>5, <1>6, <1>7, <1>8, <1>9, <1>10, <1>11, <1>12
  DEF Next, Step

\* Until it is deleted, or a lock outlives its time under a sync, a connector
\* has one sync at a time, for any number of threads, of loops in other
\* gateways and of restarts: what store.acquire promises.
THEOREM LockKeepsApart == Spec => []OneSyncAtATime
<1>1. Init => LockInv
  BY DEF Init, LockInv, OneSyncAtATime, Syncing, NoThread
<1>2. IInv /\ LockInv /\ [Next]_vars => LockInv'
  BY LockStep
<1>3. LockInv => OneSyncAtATime
  BY DEF LockInv
<1> QED BY <1>1, <1>2, <1>3, Invariance, PTL DEF Spec
-----------------------------------------------------------------------------
(* What a step changes of the pages, of the library and of one thread *)

\* What a thread has of its crawl stays.
KeepsCrawl(t) ==
  /\ th'[t].old = th[t].old /\ th'[t].new = th[t].new /\ th'[t].done = th[t].done
  /\ th'[t].queued = th[t].queued /\ th'[t].frontier = th[t].frontier
  /\ th'[t].retired = th[t].retired

\* It goes on with the same connector.
KeepsJob(t) == th'[t].op = th[t].op /\ th'[t].c = th[t].c

Quiet(t) ==
  \/ Queue(t) \/ SaveEdit(t) \/ TakeDue(t) \/ Get(t) \/ Acquire(t) \/ Run(t)
  \/ Fail(t) \/ Finish(t) \/ Release(t) \/ Tick(t)
  \/ \E c \in Connectors : Create(t, c) \/ Post(t, c) \/ Edit(t, c)

Waiting == {"idle", "queue", "get", "acquire", "edit", "run", "pages", "fail", "finish",
            "release"}

\* A thread that is not between the reading and the writing of pages, and does
\* not read them with this step, changes nothing of them.
LEMMA QuietStep ==
  ASSUME IInv, NEW t \in Threads, Quiet(t)
  PROVE  /\ UNCHANGED <<site, pages, own, index>>
         /\ th[t].at \in Waiting /\ th'[t].at \in Waiting
         /\ th'[t] = Ended(t) \/ KeepsCrawl(t)
         /\ th'[t] # Ended(t) =>
              \/ th[t].at \in {"idle", "queue", "get", "acquire", "run"}
              \/ th[t].at \in {"fail", "finish"} /\ th'[t].op = "sync"
                 /\ th'[t].at \in {"finish", "release"}
<1> USE DEF KeepsCrawl, library, redis
<1>ty. th \in [Threads -> Thread]
  BY DEF IInv, TypeOK
<1>sh. th[t] \in Thread /\ Shape(th[t])
  BY <1>ty DEF IInv
<1>g. ASSUME NEW point \in Points, Goto(t, point)
      PROVE  th'[t].at = point /\ th'[t].op = th[t].op /\ KeepsCrawl(t)
  BY <1>ty, <1>g DEF Goto, Thread
<1>e. End(t) => th'[t] = Ended(t) /\ th'[t].at = "idle"
  BY <1>ty DEF End, Ended, NoThread
<1>pt. {"get", "run", "release"} \subseteq Points
  BY DEF Points
<1>1. CASE SaveEdit(t) \/ Release(t)
  BY <1>1, <1>e DEF SaveEdit, Release, At, Waiting
<1>2. CASE Queue(t)
  BY <1>2, <1>g, <1>pt DEF Queue, At, Waiting
<1>3. CASE Acquire(t)
  BY <1>3, <1>g, <1>e, <1>pt DEF Acquire, At, Waiting
<1>4. CASE Finish(t)
  <2>1. th[t].at = "finish" /\ th[t].op = "sync"
    BY <1>4, <1>sh DEF Finish, At, Shape, Thread
  <2> QED BY <1>4, <2>1, <1>g, <1>pt DEF Finish, Waiting
<1>5. CASE TakeDue(t)
  BY <1>5, <1>ty DEF TakeDue, Thread, At, Waiting
<1>6. CASE Get(t)
  BY <1>6, <1>ty, <1>e DEF Get, Thread, At, Waiting
<1>7. CASE Run(t)
  BY <1>7, <1>ty DEF Run, Thread, At, Waiting
<1>8. CASE Fail(t)
  <2>1. th[t].at = "fail" /\ th[t].op = "sync"
    BY <1>8, <1>sh DEF Fail, At, Shape, Thread
  <2> QED BY <1>8, <2>1, <1>ty DEF Fail, Thread, Waiting
<1>9. CASE Tick(t)
  BY <1>9, <1>ty DEF Tick, Thread, At, Waiting
<1>10. ASSUME NEW c \in Connectors, Create(t, c)
       PROVE  /\ UNCHANGED <<site, pages, own, index>>
              /\ th[t].at = "idle" /\ th'[t].at \in Waiting /\ KeepsCrawl(t)
  BY <1>10, <1>ty DEF Create, Thread, At, Waiting
<1>11. ASSUME NEW c \in Connectors, Post(t, c) \/ Edit(t, c)
       PROVE  /\ UNCHANGED <<site, pages, own, index>>
              /\ th[t].at = "idle" /\ th'[t].at \in Waiting /\ KeepsCrawl(t)
  BY <1>11, <1>ty DEF Post, Edit, Thread, At, Waiting
<1>12. {"idle"} \subseteq Waiting
  BY DEF Waiting
<1> QED
  BY <1>1, <1>2, <1>3, <1>4, <1>5, <1>6, <1>7, <1>8, <1>9, <1>10, <1>11, <1>12 DEF Quiet

LEMMA ReadsStep ==
  ASSUME IInv, NEW t \in Threads
  PROVE  /\ \A c \in Connectors : Delete(t, c) =>
              /\ UNCHANGED <<site, pages, own, index>>
              /\ th[t].at = "idle" /\ th[t].op = "none"
              /\ th'[t].at = "retire" /\ th'[t].op = "delete" /\ th'[t].c = c
              /\ th'[t].retired = Shown(c)
              /\ th'[t].old = th[t].old /\ th'[t].new = th[t].new
              /\ th'[t].done = th[t].done
              /\ th'[t].queued = th[t].queued /\ th'[t].frontier = th[t].frontier
         /\ ReadPages(t) =>
              /\ UNCHANGED <<site, pages, own, index>>
              /\ th[t].at = "pages" /\ th[t].op = "sync" /\ th[t].c \in Connectors
              /\ th'[t].at = "crawl" /\ KeepsJob(t)
              /\ th'[t].old = pages[th[t].c] /\ th'[t].new = th[t].new
              /\ th'[t].queued = {Start} /\ th'[t].frontier = {Start}
              /\ th'[t].done = th[t].done
<1> USE DEF library, redis
<1>ty. th \in [Threads -> Thread]
  BY DEF IInv, TypeOK
<1>sh. th[t] \in Thread /\ Shape(th[t])
  BY <1>ty DEF IInv
<1>1. ASSUME NEW c \in Connectors, Delete(t, c)
      PROVE  /\ UNCHANGED <<site, pages, own, index>>
             /\ th[t].at = "idle" /\ th[t].op = "none"
             /\ th'[t].at = "retire" /\ th'[t].op = "delete" /\ th'[t].c = c
             /\ th'[t].retired = Shown(c)
             /\ th'[t].old = th[t].old /\ th'[t].new = th[t].new
             /\ th'[t].done = th[t].done
             /\ th'[t].queued = th[t].queued /\ th'[t].frontier = th[t].frontier
  <2>1. th[t].at = "idle" /\ th[t].op = "none"
    BY <1>1, <1>sh DEF Delete, At, Shape
  <2> QED BY <1>1, <1>ty, <2>1 DEF Delete, Thread, Shown
<1>2. ASSUME ReadPages(t)
      PROVE  /\ UNCHANGED <<site, pages, own, index>>
             /\ th[t].at = "pages" /\ th[t].op = "sync" /\ th[t].c \in Connectors
             /\ th'[t].at = "crawl" /\ KeepsJob(t)
             /\ th'[t].old = pages[th[t].c] /\ th'[t].new = th[t].new
             /\ th'[t].queued = {Start} /\ th'[t].frontier = {Start}
             /\ th'[t].done = th[t].done
  <2>1. th[t].at = "pages" /\ th[t].op = "sync" /\ th[t].c \in Connectors
    BY <1>2, <1>sh DEF ReadPages, At, Shape, Thread
  <2> QED BY <1>2, <1>ty, <2>1 DEF ReadPages, Thread, KeepsJob
<1> QED BY <1>1, <1>2

\* A fetch changes what one crawl has, and nothing else.
LEMMA FetchStep ==
  ASSUME IInv, NEW t \in Threads, Fetch(t)
  PROVE  /\ UNCHANGED <<site, pages, own, index>>
         /\ th[t].at = "crawl" /\ th[t].op = "sync" /\ th[t].c \in Connectors
         /\ KeepsJob(t) /\ th'[t].old = th[t].old /\ th'[t].retired = th[t].retired
         /\ th'[t].at \in {"crawl", "own", "index"} /\ FetchResult(t, th'[t])
<1>sh. th \in [Threads -> Thread] /\ th[t] \in Thread /\ Shape(th[t])
  BY DEF IInv, TypeOK
<1>1. th[t].at = "crawl" /\ th[t].op = "sync" /\ th[t].c \in Connectors
  BY <1>sh DEF Fetch, At, Shape, Thread
<1>2. UNCHANGED <<site, pages, own, index>>
  BY DEF Fetch, library, redis
<1>3. PICK r \in Thread : th' = [th EXCEPT ![t] = r] /\ FetchResult(t, r)
  BY FetchType
<1>4. th'[t] = r
  BY <1>3, <1>sh
<1>5. FetchResult(t, th'[t])
  BY <1>3, <1>4
<1> QED BY <1>1, <1>2, <1>5 DEF FetchResult, KeepsJob

\* A page of its own that the crawl is done with is not overwritten by a fetch, and
\* what is in hand afterwards is of a page that the crawl is done with.
LEMMA FetchKeeps ==
  ASSUME IInv, NEW t \in Threads, CrawlShape(th[t]), Fetch(t)
  PROVE  /\ th'[t].frontier \subseteq th'[t].queued
         /\ th'[t].new \in Pages /\ th[t].new \in Pages
         /\ \A w \in Urls : th'[t].new[w] \in {th[t].new[w], None}
         /\ \A w \in Urls : Sole(w) /\ th[t].new[w] # None => th'[t].new[w] = th[t].new[w]
         /\ \A w \in Urls : th'[t].new[w] # None => w \in th'[t].done
         /\ \A w \in th'[t].done : Sole(w) => w \in th'[t].queued \ th'[t].frontier
         /\ \A w \in th'[t].queued \ th'[t].frontier : Lands[w] = w => w \in th'[t].done
         /\ th'[t].at \in {"index", "own"} =>
              /\ th'[t].doc[1] \in th'[t].done /\ th'[t].new[th'[t].doc[1]] = None
              /\ Lands[th'[t].doc[1]] = th'[t].doc[1]
<1>1. /\ th[t].at = "crawl" /\ FetchResult(t, th'[t]) /\ th'[t].at \in {"crawl", "own", "index"}
  BY FetchStep
<1>2. /\ th[t].new \in Pages /\ th[t].frontier \subseteq th[t].queued
      /\ th[t].queued \subseteq Urls /\ th[t].done \subseteq Urls
      /\ \A w \in Urls : th[t].new[w] # None => w \in th[t].done
      /\ \A w \in th[t].done : Sole(w) => w \in th[t].queued \ th[t].frontier
      /\ \A w \in th[t].queued \ th[t].frontier : Lands[w] = w => w \in th[t].done
  BY <1>1 DEF CrawlShape, IInv, TypeOK, Thread
<1>3. PICK u \in th[t].frontier, k \in Urls, more \in SUBSET (Urls \ th[t].queued) :
        /\ th'[t].queued = th[t].queued \cup more
        /\ th'[t].frontier = (th[t].frontier \ {u}) \cup more
        /\ th'[t].new = [th[t].new EXCEPT ![k] = None]
        /\ th'[t].done = th[t].done \cup {k}
        /\ k = u \/ k = Lands[u]
        /\ th'[t].at # "crawl" => k = Lands[u] /\ th'[t].doc = <<k, site[k]>>
  <2>1. PICK u \in th[t].frontier :
          \/ /\ th'[t].at = "crawl"
             /\ th'[t].queued = th[t].queued /\ th'[t].frontier = th[t].frontier \ {u}
             /\ th'[t].new = [th[t].new EXCEPT ![u] = None]
             /\ th'[t].done = th[t].done \cup {u}
          \/ \E more \in SUBSET (Urls \ th[t].queued) :
               /\ th'[t].queued = th[t].queued \cup more
               /\ th'[t].frontier = (th[t].frontier \ {u}) \cup more
               /\ th'[t].new = [th[t].new EXCEPT ![Lands[u]] = None]
               /\ th'[t].done = th[t].done \cup {Lands[u]}
               /\ th'[t].at # "crawl" => th'[t].doc = <<Lands[u], site[Lands[u]]>>
    BY <1>1 DEF FetchResult
  <2>2. u \in Urls /\ Lands[u] \in Urls
    BY <1>2, WebAssumption
  <2>3. CASE \E more \in SUBSET (Urls \ th[t].queued) :
               /\ th'[t].queued = th[t].queued \cup more
               /\ th'[t].frontier = (th[t].frontier \ {u}) \cup more
               /\ th'[t].new = [th[t].new EXCEPT ![Lands[u]] = None]
               /\ th'[t].done = th[t].done \cup {Lands[u]}
               /\ th'[t].at # "crawl" => th'[t].doc = <<Lands[u], site[Lands[u]]>>
    BY <2>2, <2>3
  <2>4. CASE /\ th'[t].at = "crawl"
             /\ th'[t].queued = th[t].queued /\ th'[t].frontier = th[t].frontier \ {u}
             /\ th'[t].new = [th[t].new EXCEPT ![u] = None]
             /\ th'[t].done = th[t].done \cup {u}
    <3>1. {} \in SUBSET (Urls \ th[t].queued) /\ th'[t].queued = th[t].queued \cup {}
          /\ th'[t].frontier = (th[t].frontier \ {u}) \cup {}
      BY <2>4
    <3> QED BY <2>2, <2>4, <3>1
  <2> QED BY <2>1, <2>3, <2>4
<1>4. /\ th'[t].new \in Pages /\ th'[t].new[k] = None
      /\ \A w \in Urls : w # k => th'[t].new[w] = th[t].new[w]
  BY <1>2, <1>3 DEF Pages
<1>5. u \in th[t].queued /\ u \in Urls /\ u \in th'[t].queued /\ u \notin th'[t].frontier
  BY <1>2, <1>3
<1>6. Sole(k) => k = u
  BY <1>3, <1>5 DEF Sole
<1>7. Lands[u] = u => k = u
  BY <1>3
<1>8. Lands[Lands[u]] = Lands[u]
  BY <1>5, WebAssumption
<1>a. th'[t].frontier \subseteq th'[t].queued
  BY <1>2, <1>3
<1>b. \A w \in Urls : th'[t].new[w] \in {th[t].new[w], None}
  BY <1>4
<1>c. ASSUME NEW w \in Urls, Sole(w), th[t].new[w] # None
      PROVE  th'[t].new[w] = th[t].new[w]
  <2>1. w \notin th[t].frontier
    BY <1>2, <1>c
  <2>2. w # k
    BY <1>6, <1>c, <2>1
  <2> QED BY <1>4, <2>2
<1>d. \A w \in Urls : th'[t].new[w] # None => w \in th'[t].done
  BY <1>2, <1>3, <1>4
<1>e. ASSUME NEW w \in th'[t].done, Sole(w) PROVE w \in th'[t].queued \ th'[t].frontier
  <2>1. CASE w = k
    BY <1>5, <1>6, <1>e, <2>1
  <2>2. CASE w # k
    BY <1>2, <1>3, <1>e, <2>2
  <2> QED BY <2>1, <2>2
<1>f. ASSUME NEW w \in th'[t].queued \ th'[t].frontier, Lands[w] = w
      PROVE  w \in th'[t].done
  <2>1. w = u \/ w \in th[t].queued \ th[t].frontier
    BY <1>3
  <2> QED BY <1>2, <1>3, <1>7, <1>f, <2>1
<1>g. th'[t].at \in {"index", "own"} =>
        /\ th'[t].doc[1] \in th'[t].done /\ th'[t].new[th'[t].doc[1]] = None
        /\ Lands[th'[t].doc[1]] = th'[t].doc[1]
  BY <1>3, <1>4, <1>8
<1> QED BY <1>2, <1>4, <1>a, <1>b, <1>c, <1>d, <1>e, <1>f, <1>g

LEMMA TakeStep ==
  ASSUME IInv, NEW t \in Threads
  PROVE  /\ Index(t) =>
              /\ UNCHANGED <<site, pages, own>>
              /\ th[t].at = "index" /\ th[t].op = "sync" /\ KeepsJob(t) /\ KeepsCrawl(t)
              /\ \/ /\ index' = index \cup {th[t].doc}
                    /\ th'[t].at = "own" /\ th'[t].doc = th[t].doc
                 \/ UNCHANGED index /\ th'[t].at = "crawl"
         /\ Own(t) =>
              /\ UNCHANGED <<site, pages, index>>
              /\ th[t].at = "own" /\ th[t].op = "sync" /\ th'[t].at = "crawl"
              /\ th[t].c \in Connectors /\ th[t].doc \in Docs
              /\ KeepsJob(t) /\ th'[t].old = th[t].old /\ th'[t].done = th[t].done
              /\ th'[t].queued = th[t].queued /\ th'[t].frontier = th[t].frontier
              /\ \/ /\ own' = own \cup {<<Owner[th[t].c], th[t].doc>>}
                    /\ th'[t].new = [th[t].new EXCEPT ![th[t].doc[1]] = th[t].doc]
                 \/ UNCHANGED own /\ th'[t].new = th[t].new
<1> USE DEF library, redis
<1>ty. th \in [Threads -> Thread]
  BY DEF IInv, TypeOK
<1>sh. th[t] \in Thread /\ Shape(th[t])
  BY <1>ty DEF IInv
<1>1. ASSUME Index(t)
      PROVE  /\ UNCHANGED <<site, pages, own>>
             /\ th[t].at = "index" /\ th[t].op = "sync" /\ KeepsJob(t) /\ KeepsCrawl(t)
             /\ \/ /\ index' = index \cup {th[t].doc}
                   /\ th'[t].at = "own" /\ th'[t].doc = th[t].doc
                \/ UNCHANGED index /\ th'[t].at = "crawl"
  <2>1. th[t].at = "index" /\ th[t].op = "sync"
    BY <1>1, <1>sh DEF Index, At, Shape, Thread
  <2>2. CASE index' = index \cup {th[t].doc} /\ Goto(t, "own")
    BY <1>1, <2>1, <2>2, <1>ty DEF Index, Goto, Thread, KeepsJob, KeepsCrawl
  <2>3. CASE UNCHANGED index /\ th' = [th EXCEPT ![t].at = "crawl", ![t].doc = None]
    BY <1>1, <2>1, <2>3, <1>ty DEF Index, Thread, KeepsJob, KeepsCrawl
  <2> QED BY <1>1, <2>2, <2>3 DEF Index
<1>2. ASSUME Own(t)
      PROVE  /\ UNCHANGED <<site, pages, index>>
             /\ th[t].at = "own" /\ th[t].op = "sync" /\ th'[t].at = "crawl"
             /\ th[t].c \in Connectors /\ th[t].doc \in Docs
             /\ KeepsJob(t) /\ th'[t].old = th[t].old /\ th'[t].done = th[t].done
             /\ th'[t].queued = th[t].queued /\ th'[t].frontier = th[t].frontier
             /\ \/ /\ own' = own \cup {<<Owner[th[t].c], th[t].doc>>}
                   /\ th'[t].new = [th[t].new EXCEPT ![th[t].doc[1]] = th[t].doc]
                \/ UNCHANGED own /\ th'[t].new = th[t].new
  <2>1. /\ th[t].at = "own" /\ th[t].op = "sync"
        /\ th[t].c \in Connectors /\ th[t].doc \in Docs
    BY <1>2, <1>sh DEF Own, At, Shape, Thread
  <2> DEFINE new == [th[t].new EXCEPT ![th[t].doc[1]] = th[t].doc]
  <2>2. CASE /\ own' = own \cup {<<Owner[th[t].c], th[t].doc>>}
             /\ th' = [th EXCEPT ![t].at = "crawl", ![t].doc = None,
                                 ![t].new[th[t].doc[1]] = th[t].doc]
    <3>1. th' = [th EXCEPT ![t] = [th[t] EXCEPT !.at = "crawl", !.doc = None, !.new = new]]
      BY <2>2
    <3> HIDE DEF new
    <3>2. th'[t] = [th[t] EXCEPT !.at = "crawl", !.doc = None, !.new = new]
      BY <3>1, <1>ty
    <3>3. /\ th'[t].at = "crawl" /\ th'[t].new = new /\ KeepsJob(t)
          /\ th'[t].old = th[t].old /\ th'[t].done = th[t].done
          /\ th'[t].queued = th[t].queued /\ th'[t].frontier = th[t].frontier
      BY <3>2, <1>sh DEF Thread, KeepsJob
    <3> QED BY <1>2, <2>1, <2>2, <3>3 DEF Own, new
  <2>3. CASE /\ th' = [th EXCEPT ![t].at = "crawl", ![t].doc = None]
             /\ UNCHANGED <<own, entry>>
    BY <1>2, <2>1, <2>3, <1>ty DEF Own, Thread, KeepsJob
  <2> QED BY <1>2, <2>2, <2>3 DEF Own
<1> QED BY <1>1, <1>2

LEMMA CrawlEndsStep ==
  ASSUME IInv, NEW t \in Threads, CrawlEnds(t)
  PROVE  LET now == Settled(t, th[t].frontier = {}) IN
         /\ UNCHANGED <<site, pages, own, index>>
         /\ th[t].at = "crawl" /\ th[t].op = "sync" /\ th'[t].at = "retire"
         /\ KeepsJob(t) /\ th'[t].old = th[t].old /\ th'[t].done = th[t].done
         /\ th'[t].queued = th[t].queued /\ th'[t].frontier = th[t].frontier
         /\ th'[t].new = now /\ th'[t].retired = Replaced(t, now)
<1> DEFINE now == Settled(t, th[t].frontier = {})
           retired == Replaced(t, now)
<1>ty. th \in [Threads -> Thread]
  BY DEF IInv, TypeOK
<1>sh. th[t] \in Thread /\ Shape(th[t])
  BY <1>ty DEF IInv
<1>1. th[t].at = "crawl" /\ th[t].op = "sync"
  BY <1>sh DEF CrawlEnds, At, Shape, Thread
<1>2. th' = [th EXCEPT ![t].at = "retire", ![t].new = now, ![t].retired = retired]
      /\ UNCHANGED <<site, pages, own, index>>
  BY DEF CrawlEnds, library, redis
<1> HIDE DEF now, retired
<1>3. /\ th'[t].at = "retire" /\ th'[t].new = now /\ th'[t].retired = retired
      /\ KeepsJob(t) /\ th'[t].old = th[t].old /\ th'[t].done = th[t].done
      /\ th'[t].queued = th[t].queued /\ th'[t].frontier = th[t].frontier
  BY <1>2, <1>ty DEF Thread, KeepsJob
<1> QED BY <1>1, <1>2, <1>3 DEF now, retired

\* A sync retires, or is on its way to its handler; a deletion retires, or
\* is over.
Quits(t) ==
  /\ "retire" \in Faults
  /\ \/ th'[t].at = "fail" /\ th[t].op = "sync" /\ KeepsJob(t) /\ KeepsCrawl(t)
     \/ th'[t] = Ended(t)

LEMMA RetireStep ==
  ASSUME IInv, NEW t \in Threads
  PROVE  /\ Disown(t) =>
              /\ UNCHANGED <<site, pages, index>>
              /\ th[t].at = "retire" /\ th[t].op \in {"sync", "delete"}
              /\ th[t].c \in Connectors
              /\ \/ \E d \in th[t].retired :
                      /\ own' = own \ {<<Owner[th[t].c], d>>}
                      /\ th'[t].at = "count" /\ th'[t].doc = d
                      /\ th'[t].retired = th[t].retired \ {d} /\ KeepsJob(t)
                      /\ th'[t].old = th[t].old /\ th'[t].new = th[t].new
                      /\ th'[t].queued = th[t].queued /\ th'[t].done = th[t].done
                      /\ th'[t].frontier = th[t].frontier
                 \/ Quits(t) /\ UNCHANGED own
         /\ CountOwners(t) =>
              /\ UNCHANGED <<site, pages, own, index>>
              /\ th[t].at = "count" /\ th[t].op \in {"sync", "delete"}
              /\ KeepsJob(t) /\ KeepsCrawl(t) /\ th'[t].doc = th[t].doc
              /\ \/ th'[t].at = "retire"
                 \/ th'[t].at = "drop" /\ ~\E o \in Owners : <<o, th[t].doc>> \in own
         /\ Drop(t) =>
              /\ UNCHANGED <<site, pages, own>>
              /\ th[t].at = "drop" /\ th[t].op \in {"sync", "delete"}
              /\ \/ /\ index' = index \ {th[t].doc} /\ th'[t].at = "retire"
                    /\ KeepsJob(t) /\ KeepsCrawl(t)
                 \/ Quits(t) /\ UNCHANGED index
<1> USE DEF library, redis
<1>ty. th \in [Threads -> Thread]
  BY DEF IInv, TypeOK
<1>sh. th[t] \in Thread /\ Shape(th[t])
  BY <1>ty DEF IInv
<1>g. ASSUME NEW point \in Points, Goto(t, point)
      PROVE  /\ th'[t].at = point /\ th'[t].doc = th[t].doc
             /\ KeepsJob(t) /\ KeepsCrawl(t)
  BY <1>ty, <1>g DEF Goto, Thread, KeepsJob, KeepsCrawl
<1>e. End(t) => th'[t] = Ended(t)
  BY <1>ty DEF End
<1>pt. {"retire", "drop", "fail"} \subseteq Points
  BY DEF Points
<1>q. Raises(t) => Quits(t)
  BY <1>g, <1>e, <1>pt DEF Raises, Quits
<1>op. th[t].at \in {"retire", "count", "drop"} =>
         th[t].op \in {"sync", "delete"} /\ th[t].c \in Connectors
  BY <1>sh DEF Shape, Thread
<1>1. ASSUME Disown(t)
      PROVE  /\ UNCHANGED <<site, pages, index>>
             /\ th[t].at = "retire" /\ th[t].op \in {"sync", "delete"}
             /\ th[t].c \in Connectors
             /\ \/ \E d \in th[t].retired :
                     /\ own' = own \ {<<Owner[th[t].c], d>>}
                     /\ th'[t].at = "count" /\ th'[t].doc = d
                     /\ th'[t].retired = th[t].retired \ {d} /\ KeepsJob(t)
                     /\ th'[t].old = th[t].old /\ th'[t].new = th[t].new
                     /\ th'[t].queued = th[t].queued /\ th'[t].done = th[t].done
                     /\ th'[t].frontier = th[t].frontier
                \/ Quits(t) /\ UNCHANGED own
  <2>1. ASSUME NEW d \in th[t].retired,
               th' = [th EXCEPT ![t].at = "count", ![t].doc = d,
                                ![t].retired = @ \ {d}]
        PROVE  /\ th'[t].at = "count" /\ th'[t].doc = d
               /\ th'[t].retired = th[t].retired \ {d} /\ KeepsJob(t)
               /\ th'[t].old = th[t].old /\ th'[t].new = th[t].new
               /\ th'[t].queued = th[t].queued /\ th'[t].done = th[t].done
               /\ th'[t].frontier = th[t].frontier
    BY <2>1, <1>ty DEF Thread, KeepsJob
  <2>2. th[t].at = "retire" /\ UNCHANGED <<site, pages, index>>
    BY <1>1 DEF Disown, At
  <2> QED BY <1>1, <1>op, <1>q, <2>1, <2>2 DEF Disown
<1>2. ASSUME CountOwners(t)
      PROVE  /\ UNCHANGED <<site, pages, own, index>>
             /\ th[t].at = "count" /\ th[t].op \in {"sync", "delete"}
             /\ KeepsJob(t) /\ KeepsCrawl(t) /\ th'[t].doc = th[t].doc
             /\ \/ th'[t].at = "retire"
                \/ th'[t].at = "drop" /\ ~\E o \in Owners : <<o, th[t].doc>> \in own
  <2>1. CASE \E o \in Owners : <<o, th[t].doc>> \in own
    BY <1>2, <1>g, <1>pt, <1>op, <2>1 DEF CountOwners, At
  <2>2. CASE ~ \E o \in Owners : <<o, th[t].doc>> \in own
    BY <1>2, <1>g, <1>pt, <1>op, <2>2 DEF CountOwners, At
  <2> QED BY <2>1, <2>2
<1>3. Drop(t) =>
        /\ UNCHANGED <<site, pages, own>>
        /\ th[t].at = "drop" /\ th[t].op \in {"sync", "delete"}
        /\ \/ /\ index' = index \ {th[t].doc} /\ th'[t].at = "retire"
              /\ KeepsJob(t) /\ KeepsCrawl(t)
           \/ Quits(t) /\ UNCHANGED index
  BY <1>g, <1>q, <1>pt, <1>op DEF Drop, At
<1> QED BY <1>1, <1>2, <1>3

LEMMA WritesStep ==
  ASSUME IInv, NEW t \in Threads
  PROVE  /\ ReplacePages(t) =>
              /\ UNCHANGED <<site, own, index>>
              /\ th[t].at = "retire" /\ th[t].op = "sync" /\ th[t].retired = {}
              /\ th[t].c \in Connectors
              /\ pages' = [pages EXCEPT ![th[t].c] = th[t].new]
              /\ th'[t].at = "finish" /\ KeepsJob(t) /\ KeepsCrawl(t)
         /\ Erase(t) =>
              /\ UNCHANGED <<site, own, index>>
              /\ th[t].at = "retire" /\ th[t].op = "delete" /\ th[t].retired = {}
              /\ th[t].c \in Connectors
              /\ pages' = [pages EXCEPT ![th[t].c] = NoPages]
              /\ th'[t] = Ended(t)
<1> USE DEF library, redis
<1>ty. th \in [Threads -> Thread]
  BY DEF IInv, TypeOK
<1>sh. th[t] \in Thread /\ Shape(th[t])
  BY <1>ty DEF IInv
<1>op. th[t].at = "retire" => th[t].c \in Connectors
  BY <1>sh DEF Shape, Thread
<1>1. ReplacePages(t) =>
        /\ UNCHANGED <<site, own, index>>
        /\ th[t].at = "retire" /\ th[t].op = "sync" /\ th[t].retired = {}
        /\ th[t].c \in Connectors
        /\ pages' = [pages EXCEPT ![th[t].c] = th[t].new]
        /\ th'[t].at = "finish" /\ KeepsJob(t) /\ KeepsCrawl(t)
  BY <1>ty, <1>op DEF ReplacePages, At, Goto, Thread, KeepsJob, KeepsCrawl
<1>2. Erase(t) =>
        /\ UNCHANGED <<site, own, index>>
        /\ th[t].at = "retire" /\ th[t].op = "delete" /\ th[t].retired = {}
        /\ th[t].c \in Connectors
        /\ pages' = [pages EXCEPT ![th[t].c] = NoPages]
        /\ th'[t] = Ended(t)
  BY <1>ty, <1>op DEF Erase, At, End
<1> QED BY <1>1, <1>2

Moves(t) ==
  \/ \E c \in Connectors : Delete(t, c)
  \/ ReadPages(t) \/ Fetch(t) \/ Index(t) \/ Own(t) \/ CrawlEnds(t)
  \/ Disown(t) \/ CountOwners(t) \/ Drop(t) \/ ReplacePages(t) \/ Erase(t)

\* Every step is one of these.
LEMMA StepCases ==
  ASSUME IInv, [Next]_vars
  PROVE  \/ \E t \in Threads : (Quiet(t) \/ Moves(t)) /\ \A s \in Threads : s # t => th'[s] = th[s]
         \/ /\ UNCHANGED <<th, pages, own, index>>
            /\ \/ UNCHANGED site
               \/ \E u \in Urls, x \in NewContents : site' = [site EXCEPT ![u] = x]
         \/ /\ restarts < MaxRestarts /\ UNCHANGED <<site, pages, own, index>>
            /\ th' = [t \in Threads |-> NoThread]
<1> USE DEF library, redis
<1>1. ASSUME NEW t \in Threads,
             Step(t) \/ Tick(t) \/ \E c \in Connectors :
               Create(t, c) \/ Post(t, c) \/ Edit(t, c) \/ Delete(t, c)
      PROVE  (Quiet(t) \/ Moves(t)) /\ \A s \in Threads : s # t => th'[s] = th[s]
  <2>1. Quiet(t) \/ Moves(t)
    BY <1>1 DEF Step, Quiet, Moves
  <2> QED BY <1>1, <2>1, OthersKeep
<1>2. ASSUME NEW c \in Connectors, Expire(c)
      PROVE  UNCHANGED <<th, pages, own, index, site>>
  BY <1>2 DEF Expire
<1>3. ASSUME NEW u \in Urls, NEW x \in NewContents, ChangeSite(u, x)
      PROVE  UNCHANGED <<th, pages, own, index>> /\ site' = [site EXCEPT ![u] = x]
  BY <1>3 DEF ChangeSite
<1>4. CASE Restart
  BY <1>4 DEF Restart
<1>5. CASE UNCHANGED vars
  BY <1>5 DEF vars
<1> QED BY <1>1, <1>2, <1>3, <1>4, <1>5 DEF Next

-----------------------------------------------------------------------------
(* The documents of a crawl *)

LEMMA Fresh ==
  /\ NoThread.at = "idle" /\ NoThread.op = "none"
  /\ NoThread.old = NoPages /\ NoThread.new = NoPages
  /\ NoThread.queued = {} /\ NoThread.frontier = {} /\ NoThread.retired = {}
  /\ NoThread.done = {}
  /\ \A t \in Threads :
       /\ Ended(t).at = "idle" /\ Ended(t).op = "none"
       /\ Ended(t).old = NoPages /\ Ended(t).new = NoPages
       /\ Ended(t).queued = {} /\ Ended(t).frontier = {} /\ Ended(t).retired = {}
       /\ Ended(t).done = {}
BY DEF NoThread, Ended

LEMMA FreshShape == CrawlShape(NoThread) /\ \A t \in Threads : CrawlShape(Ended(t))
BY Fresh DEF CrawlShape, Named, NoPages

\* The crawl's documents and those it keeps, page by page.
LEMMA SettledNamed ==
  ASSUME IInv, NEW t \in Threads, CrawlShape(th[t]), NEW complete \in BOOLEAN
  PROVE  Named(Settled(t, complete))
BY DEF CrawlShape, Named, Settled

\* A page that is retired was asked for, or a complete crawl found it nowhere.
LEMMA SettledReplaced ==
  ASSUME IInv, NEW t \in Threads, CrawlShape(th[t]), th[t].at = "crawl"
  PROVE  \A d \in Replaced(t, Settled(t, th[t].frontier = {})) :
           d[1] \in th[t].done \/ (th[t].frontier = {} /\ d[1] \notin th[t].queued)
<1> DEFINE now == Settled(t, th[t].frontier = {})
<1> SUFFICES ASSUME NEW d \in Replaced(t, now), d[1] \notin th[t].done
             PROVE  th[t].frontier = {} /\ d[1] \notin th[t].queued
  OBVIOUS
<1>1. th[t].old \in Pages
  BY DEF IInv, TypeOK, Thread
<1>2. PICK w \in Urls : d = th[t].old[w]
  BY <1>1 DEF Replaced, Range, Pages
<1>3. d # None /\ d \notin Range(now)
  BY DEF Replaced
<1>4. d[1] = w /\ Lands[w] = w
  BY <1>2, <1>3 DEF CrawlShape, Named
<1>5. DOMAIN now = Urls /\ now[w] = IF th[t].frontier = {} THEN None ELSE th[t].old[w]
  BY <1>4 DEF Settled
<1>6. th[t].frontier = {}
  BY <1>2, <1>3, <1>5 DEF Range
<1>7. \A u \in th[t].queued \ th[t].frontier : Lands[u] = u => u \in th[t].done
  BY DEF CrawlShape
<1> QED BY <1>4, <1>6, <1>7

LEMMA CrawlStep == IInv /\ CrawlInv /\ [Next]_vars => CrawlInv'
<1> SUFFICES ASSUME IInv, CrawlInv, [Next]_vars PROVE CrawlInv'
  OBVIOUS
<1>ty. th \in [Threads -> Thread] /\ pages \in [Connectors -> Pages]
  BY DEF IInv, TypeOK
<1>sh. \A t \in Threads : th[t] \in Thread /\ Shape(th[t]) /\ CrawlShape(th[t])
  BY <1>ty DEF IInv, CrawlInv
<1>pg. ASSUME UNCHANGED pages PROVE \A c \in Connectors : Named(pages'[c])
  BY <1>pg DEF CrawlInv
<1>1. ASSUME NEW t \in Threads, Quiet(t) \/ Moves(t),
             \A s \in Threads : s # t => th'[s] = th[s]
      PROVE  CrawlInv'
  <2>0. ASSUME CrawlShape(th'[t]), \A c \in Connectors : Named(pages'[c])
        PROVE  CrawlInv'
    BY <1>1, <1>sh, <2>0 DEF CrawlInv
  <2>e. ASSUME th'[t] = Ended(t) PROVE CrawlShape(th'[t])
    BY <2>e, FreshShape
  <2>1. CASE Quiet(t)
    <3>1. CASE th'[t] = Ended(t)
      BY <2>0, <2>1, <2>e, <3>1, <1>pg, QuietStep
    <3>2. CASE th'[t] # Ended(t)
      <4>1. /\ KeepsCrawl(t) /\ th'[t].at \in Waiting
            /\ \/ th[t].at \in {"idle", "queue", "get", "acquire", "run"}
               \/ th'[t].op = "sync" /\ th'[t].at \in {"finish", "release"}
        BY <2>1, <3>2, QuietStep
      <4>2. \/ th[t].new = NoPages /\ th[t].done = {}
            \/ th'[t].op = "sync" /\ th'[t].at \in {"finish", "release"}
        BY <4>1, <1>sh DEF CrawlShape, Shape
      <4>3. CrawlShape(th'[t])
        BY <4>1, <4>2, <1>sh DEF CrawlShape, KeepsCrawl, Waiting
      <4> QED BY <2>0, <2>1, <4>3, <1>pg, QuietStep
    <3> QED BY <3>1, <3>2
  <2>2. CASE \E c \in Connectors : Delete(t, c)
    <3>1. CrawlShape(th'[t])
      BY <2>2, <1>sh, ReadsStep DEF CrawlShape
    <3> QED BY <2>0, <2>2, <3>1, <1>pg, ReadsStep
  <2>3. CASE ReadPages(t)
    <3>1. Named(th'[t].old) /\ th'[t].new = NoPages /\ th'[t].done = {}
      BY <2>3, <1>sh, ReadsStep DEF CrawlShape, CrawlInv
    <3>2. CrawlShape(th'[t])
      BY <2>3, <3>1, <1>sh, ReadsStep DEF CrawlShape, NoPages
    <3> QED BY <2>0, <2>3, <3>2, <1>pg, ReadsStep
  <2>4. CASE Fetch(t)
    <3>1. /\ th[t].at = "crawl" /\ th'[t].op = "sync" /\ th'[t].at \in {"crawl", "own", "index"}
          /\ th'[t].old = th[t].old
      BY <2>4, FetchStep DEF KeepsJob
    <3>2. Named(th[t].old) /\ Named(th[t].new)
      BY <1>sh DEF CrawlShape
    <3>3. Named(th'[t].new)
      BY <2>4, <1>sh, <3>2, FetchKeeps DEF Named
    <3>4. CrawlShape(th'[t])
      BY <2>4, <1>sh, <3>1, <3>2, <3>3, FetchKeeps DEF CrawlShape
    <3> QED BY <2>0, <2>4, <3>4, <1>pg, FetchStep
  <2>5. CASE Index(t)
    <3>0. /\ th[t].at = "index" /\ th[t].op = "sync" /\ KeepsJob(t) /\ KeepsCrawl(t)
          /\ \/ th'[t].at = "own" /\ th'[t].doc = th[t].doc
             \/ th'[t].at = "crawl"
      BY <2>5, TakeStep
    <3>1. CrawlShape(th'[t])
      <4>1. CASE th'[t].at = "own" /\ th'[t].doc = th[t].doc
        BY <3>0, <4>1, <1>sh DEF CrawlShape, KeepsJob, KeepsCrawl
      <4>2. CASE th'[t].at = "crawl"
        BY <3>0, <4>2, <1>sh DEF CrawlShape, KeepsJob, KeepsCrawl
      <4> QED BY <3>0, <4>1, <4>2
    <3> QED BY <2>0, <2>5, <3>1, <1>pg, TakeStep
  <2>6. CASE Own(t)
    <3> DEFINE d == th[t].doc
    <3>1. /\ th[t].at = "own" /\ d \in Docs /\ th'[t].at = "crawl" /\ th'[t].op = "sync"
          /\ th'[t].old = th[t].old /\ th'[t].queued = th[t].queued
          /\ th'[t].frontier = th[t].frontier /\ th'[t].done = th[t].done
          /\ \/ th'[t].new = [th[t].new EXCEPT ![d[1]] = d]
             \/ th'[t].new = th[t].new
      BY <2>6, TakeStep DEF KeepsJob
    <3>2. th[t].new \in Pages /\ d[1] \in Urls
      BY <3>1, <1>sh DEF Thread, Docs
    <3> HIDE DEF d
    <3>3. \A u \in Urls : \/ th'[t].new[u] = th[t].new[u]
                          \/ u = d[1] /\ th'[t].new[u] = d
      <4>1. CASE th'[t].new = [th[t].new EXCEPT ![d[1]] = d]
        BY <3>2, <4>1 DEF Pages
      <4> QED BY <3>1, <4>1
    <3>4. /\ Named(th[t].old) /\ Named(th[t].new) /\ th[t].frontier \subseteq th[t].queued
          /\ \A u \in Urls : th[t].new[u] # None => u \in th[t].done
          /\ \A u \in th[t].done : Sole(u) => u \in th[t].queued \ th[t].frontier
          /\ \A u \in th[t].queued \ th[t].frontier : Lands[u] = u => u \in th[t].done
          /\ d[1] \in th[t].done /\ Lands[d[1]] = d[1]
      BY <3>1, <1>sh DEF CrawlShape, d
    <3>5. CrawlShape(th'[t])
      BY <3>1, <3>3, <3>4 DEF CrawlShape, Named
    <3> QED BY <2>0, <2>6, <3>5, <1>pg, TakeStep
  <2>7. CASE CrawlEnds(t)
    <3> DEFINE now == Settled(t, th[t].frontier = {})
    <3>a. /\ th[t].at = "crawl" /\ th[t].op = "sync" /\ th'[t].at = "retire" /\ KeepsJob(t)
          /\ th'[t].old = th[t].old /\ th'[t].done = th[t].done
          /\ th'[t].queued = th[t].queued /\ th'[t].frontier = th[t].frontier
          /\ th'[t].new = now /\ th'[t].retired = Replaced(t, now)
      BY <2>7, CrawlEndsStep
    <3>b. Named(now)
      BY <1>sh, SettledNamed
    <3>c. \A d \in Replaced(t, now) :
            d[1] \in th[t].done \/ (th[t].frontier = {} /\ d[1] \notin th[t].queued)
      BY <3>a, <1>sh, SettledReplaced
    <3> HIDE DEF now
    <3>1. CrawlShape(th'[t])
      BY <3>a, <3>b, <3>c, <1>sh DEF CrawlShape, KeepsJob
    <3> QED BY <2>0, <2>7, <3>1, <1>pg, CrawlEndsStep
  <2>8. CASE Disown(t) \/ CountOwners(t) \/ Drop(t)
    <3>1. UNCHANGED pages
      BY <2>8, RetireStep
    <3>2. CASE th'[t] = Ended(t)
      BY <2>0, <2>e, <3>1, <3>2, <1>pg
    <3>3. CASE th'[t] # Ended(t)
      <4>1. /\ KeepsJob(t) /\ th'[t].at \in {"retire", "count", "drop", "fail"}
            /\ th'[t].old = th[t].old /\ th'[t].new = th[t].new
            /\ th'[t].done = th[t].done /\ th'[t].retired \subseteq th[t].retired
            /\ th'[t].queued = th[t].queued /\ th'[t].frontier = th[t].frontier
            /\ th[t].at \in {"retire", "count", "drop"}
        BY <2>8, <3>3, RetireStep DEF Quits, KeepsCrawl
      <4>2. CrawlShape(th'[t])
        BY <4>1, <1>sh DEF CrawlShape, KeepsJob
      <4> QED BY <2>0, <3>1, <4>2, <1>pg
    <3> QED BY <3>2, <3>3
  <2>9. CASE ReplacePages(t)
    <3>1. CrawlShape(th'[t])
      BY <2>9, <1>sh, WritesStep DEF CrawlShape, KeepsJob, KeepsCrawl
    <3>2. \A c \in Connectors : pages'[c] = pages[c] \/ pages'[c] = th[t].new
      BY <2>9, <1>ty, WritesStep
    <3>3. \A c \in Connectors : Named(pages'[c])
      BY <3>2, <1>sh DEF CrawlShape, CrawlInv
    <3> QED BY <2>0, <3>1, <3>3
  <2>10. CASE Erase(t)
    <3>1. \A c \in Connectors : pages'[c] = pages[c] \/ pages'[c] = NoPages
      BY <2>10, <1>ty, WritesStep
    <3>2. \A c \in Connectors : Named(pages'[c])
      BY <3>1 DEF CrawlInv, Named, NoPages
    <3> QED BY <2>0, <2>10, <2>e, <3>2, WritesStep
  <2> QED BY <1>1, <2>1, <2>2, <2>3, <2>4, <2>5, <2>6, <2>7, <2>8, <2>9, <2>10 DEF Moves
<1>2. CASE UNCHANGED <<th, pages, own, index>>
  BY <1>2 DEF CrawlInv
<1>3. CASE UNCHANGED pages /\ th' = [t \in Threads |-> NoThread]
  BY <1>3, FreshShape DEF CrawlInv
<1> QED BY <1>1, <1>2, <1>3, StepCases

\* In every reachable state, a crawl has each document under its page.
THEOREM CrawlsAreOrdered == Spec => []CrawlInv
<1>1. Init => CrawlInv
  BY FreshShape DEF Init, CrawlInv, Named, NoPages
<1>2. IInv /\ CrawlInv /\ [Next]_vars => CrawlInv'
  BY CrawlStep
<1> QED BY <1>1, <1>2, Invariance, PTL DEF Spec

-----------------------------------------------------------------------------
(* A sync does not take a page that it did not reach for one that is gone *)

\* A sync that retires a page it did not ask for has asked for every page that it
\* found, and did not find that one, however many syncs run, edit and restart at
\* once, wherever max_pages cuts a crawl, whichever fetches fail and wherever a
\* request is redirected.
THEOREM UnreachedKept == Spec => []UnreachedIsKept
<1>1. CrawlInv => UnreachedIsKept
  BY DEF CrawlInv, CrawlShape, UnreachedIsKept, At
<1> QED BY <1>1, CrawlsAreOrdered, PTL

-----------------------------------------------------------------------------
(* What is owned is what is shown *)

\* What a thread that reads, fetches and writes pages is about to show or to
\* retire, from its reading to its writing.
LEMMA HoldsStep ==
  ASSUME "retire" \notin Faults, IInv, CrawlInv, NEW t \in Threads, NEW c \in Connectors,
         Moving(t, c), Moves(t), NEW d \in Docs, Sole(d[1]), NEW o \in Owners,
         <<o, d>> \in own', Owner[c] = o,
         Holds(t, d) \/ (Own(t) /\ <<o, d>> \notin own)
  PROVE  \/ Moving(t, c)' /\ Holds(t, d)'
         \/ ReplacePages(t) /\ d \in Shown(c)'
<1>ty. /\ th \in [Threads -> Thread] /\ pages \in [Connectors -> Pages]
  BY DEF IInv, TypeOK
<1>sh. th[t] \in Thread /\ Shape(th[t]) /\ CrawlShape(th[t])
  BY <1>ty DEF IInv, CrawlInv
<1>m. /\ th[t].c = c /\ th[t].op \in {"sync", "delete"}
      /\ th[t].at \in {"crawl", "index", "own", "retire", "count", "drop"}
  BY DEF Moving
<1>d. d # None
  BY WebAssumption DEF Docs
<1>1. ~ReadPages(t) /\ ~\E e \in Connectors : Delete(t, e)
  BY <1>m, ReadsStep
<1>2. CASE Fetch(t)
  <2>1. /\ th[t].at = "crawl" /\ th'[t].at \in {"crawl", "own", "index"} /\ KeepsJob(t)
        /\ th'[t].old = th[t].old /\ UNCHANGED own
    BY <1>2, FetchStep
  <2>2. d \in Range(th[t].old) \cup Range(th[t].new)
    BY <1>2, <2>1 DEF Holds
  <2>3. d \in Range(th[t].new) => d \in Range(th'[t].new)
    <3> SUFFICES ASSUME d \in Range(th[t].new) PROVE d \in Range(th'[t].new)
      OBVIOUS
    <3>1. th[t].new \in Pages /\ th'[t].new \in Pages
      BY <1>2, <1>sh, FetchKeeps
    <3>2. PICK w \in Urls : d = th[t].new[w]
      BY <3>1 DEF Range, Pages
    <3>3. d[1] = w
      BY <1>d, <1>sh, <3>2 DEF CrawlShape, Named
    <3>4. th'[t].new[w] = d
      BY <1>2, <1>d, <1>sh, <3>2, <3>3, FetchKeeps
    <3> QED BY <3>1, <3>4 DEF Range, Pages
  <2> QED BY <1>m, <2>1, <2>2, <2>3 DEF Moving, Holds, KeepsJob
<1>3. CASE Index(t)
  <2>1. /\ th[t].at = "index" /\ th'[t].at \in {"crawl", "own"} /\ KeepsJob(t)
        /\ th'[t].old = th[t].old /\ th'[t].new = th[t].new /\ UNCHANGED own
    BY <1>3, TakeStep DEF KeepsCrawl
  <2> QED BY <1>m, <2>1 DEF Moving, Holds, KeepsJob
<1>4. CASE Own(t)
  <2> DEFINE e == th[t].doc
  <2>1. /\ th[t].at = "own" /\ e \in Docs /\ th'[t].at = "crawl" /\ KeepsJob(t)
        /\ th'[t].old = th[t].old
        /\ \/ /\ own' = own \cup {<<Owner[th[t].c], e>>}
              /\ th'[t].new = [th[t].new EXCEPT ![e[1]] = e]
           \/ UNCHANGED own /\ th'[t].new = th[t].new
    BY <1>4, TakeStep
  <2>2. /\ th[t].new \in Pages /\ e[1] \in Urls /\ th[t].new[e[1]] = None
    BY <1>sh, <2>1 DEF Thread, Docs, CrawlShape
  <2> HIDE DEF e
  <2>3. Range(th[t].new) \ {None} \subseteq Range(th'[t].new)
    <3>1. CASE th'[t].new = th[t].new
      BY <3>1
    <3>2. CASE th'[t].new = [th[t].new EXCEPT ![e[1]] = e]
      <4>1. DOMAIN th'[t].new = Urls /\ DOMAIN th[t].new = Urls
        BY <2>2, <3>2 DEF Pages
      <4>2. \A u \in Urls : th[t].new[u] # None => th'[t].new[u] = th[t].new[u]
        BY <2>2, <3>2 DEF Pages
      <4> QED BY <4>1, <4>2 DEF Range
    <3> QED BY <2>1, <3>1, <3>2
  <2>4. own' = own \/ e \in Range(th'[t].new)
    <3>1. CASE th'[t].new = [th[t].new EXCEPT ![e[1]] = e]
      <4>1. DOMAIN th'[t].new = Urls
        BY <2>2, <3>1 DEF Pages
      <4>2. th'[t].new[e[1]] = e
        BY <2>2, <3>1 DEF Pages
      <4> QED BY <2>2, <4>1, <4>2 DEF Range
    <3> QED BY <2>1, <3>1
  <2>5. d \in Range(th[t].old) \cup Range(th'[t].new)
    <3>1. CASE Holds(t, d)
      BY <1>d, <2>1, <2>3, <3>1 DEF Holds
    <3>2. CASE <<o, d>> \notin own
      <4>1. d = e /\ own' # own
        BY <2>1, <3>2
      <4> QED BY <2>4, <4>1
    <3> QED BY <3>1, <3>2
  <2> QED BY <1>m, <2>1, <2>5 DEF Moving, Holds, KeepsJob
<1>5. CASE CrawlEnds(t)
  <2> DEFINE now == Settled(t, th[t].frontier = {})
  <2>1. /\ th[t].at = "crawl" /\ th'[t].at = "retire" /\ KeepsJob(t)
        /\ th'[t].new = now /\ th'[t].retired = Replaced(t, now) /\ UNCHANGED own
    BY <1>5, CrawlEndsStep
  <2>2. d \in Range(th[t].old) \cup Range(th[t].new)
    BY <1>5, <2>1 DEF Holds
  <2>3. d \in Range(now) \cup Replaced(t, now)
    <3>1. CASE d \in Range(th[t].old)
      BY <1>d, <3>1 DEF Replaced
    <3>2. CASE d \in Range(th[t].new)
      <4>1. PICK u \in Urls : d = th[t].new[u]
        BY <1>sh, <3>2 DEF Range, Thread, Pages
      <4>2. u \in th[t].done
        BY <1>sh, <1>d, <2>1, <4>1 DEF CrawlShape
      <4>3. now[u] = d /\ DOMAIN now = Urls
        BY <4>1, <4>2 DEF Settled
      <4> QED BY <4>3 DEF Range
    <3> QED BY <2>2, <3>1, <3>2
  <2> HIDE DEF now
  <2> QED BY <1>m, <2>1, <2>3 DEF Moving, Holds, KeepsJob
<1>6. CASE Disown(t) \/ CountOwners(t) \/ Drop(t)
  <2>1. /\ th[t].at \in {"retire", "count", "drop"} /\ Holds(t, d)
    BY <1>6, RetireStep DEF Own, At
  <2>2. d \in Range(th[t].new) \cup th[t].retired
    BY <2>1 DEF Holds
  <2>3. /\ th'[t].at \in {"retire", "count", "drop"} /\ KeepsJob(t)
        /\ th'[t].new = th[t].new
        /\ \/ th'[t].retired = th[t].retired
           \/ \E e \in th[t].retired : /\ own' = own \ {<<Owner[th[t].c], e>>}
                                       /\ th'[t].retired = th[t].retired \ {e}
    BY <1>6, RetireStep DEF Quits, KeepsCrawl
  <2>4. d \in Range(th[t].new) \cup th'[t].retired
    BY <1>m, <2>2, <2>3
  <2> QED BY <1>m, <2>3, <2>4 DEF Moving, Holds, KeepsJob
<1>7. CASE ReplacePages(t)
  <2>1. /\ th[t].at = "retire" /\ th[t].retired = {}
        /\ pages' = [pages EXCEPT ![th[t].c] = th[t].new]
    BY <1>7, WritesStep
  <2>2. d \in Range(th[t].new) /\ pages'[c] = th[t].new
    BY <1>7, <1>m, <1>ty, <2>1 DEF Holds, Own, At
  <2> QED BY <1>7, <1>d, <2>2 DEF Shown
<1>8. CASE Erase(t)
  <2>1. th[t].at = "retire" /\ th[t].retired = {} /\ th[t].op = "delete"
    BY <1>8, WritesStep
  <2>2. th[t].new = NoPages /\ d \in Range(th[t].new)
    BY <1>8, <1>sh, <2>1 DEF CrawlShape, Holds, Own, At
  <2> QED BY <1>d, <2>2 DEF NoPages, Range
<1> QED BY <1>1, <1>2, <1>3, <1>4, <1>5, <1>6, <1>7, <1>8 DEF Moves

\* A thread that begins to move pages has what is shown.
LEMMA HoldsStart ==
  ASSUME IInv, NEW t \in Threads, NEW c \in Connectors, ~Moving(t, c), Moving(t, c)',
         Quiet(t) \/ Moves(t), NEW d \in Shown(c)
  PROVE  Holds(t, d)' /\ pages' = pages /\ own' = own
<1>m. /\ th'[t].c = c /\ th'[t].op \in {"sync", "delete"}
      /\ th'[t].at \in {"crawl", "index", "own", "retire", "count", "drop"}
  BY DEF Moving
<1>1. ~Quiet(t)
  BY <1>m, QuietStep DEF Waiting
<1>2. CASE \E e \in Connectors : Delete(t, e)
  BY <1>2, <1>m, ReadsStep DEF Holds
<1>3. CASE ReadPages(t)
  <2>1. th[t].c = c /\ UNCHANGED <<pages, own>> /\ th'[t].at = "crawl" /\ th'[t].old = pages[c]
    BY <1>3, <1>m, ReadsStep DEF KeepsJob
  <2> QED BY <2>1 DEF Holds, Shown
<1>4. CASE Fetch(t) \/ Index(t) \/ Own(t) \/ CrawlEnds(t)
  <2>1. th[t].at \in {"crawl", "index", "own"} /\ th[t].op = "sync" /\ KeepsJob(t)
    BY <1>4, FetchStep, TakeStep, CrawlEndsStep
  <2> QED BY <1>m, <2>1 DEF Moving, KeepsJob
<1>5. CASE Disown(t) \/ CountOwners(t) \/ Drop(t)
  <2>1. /\ th[t].at \in {"retire", "count", "drop"} /\ th[t].op \in {"sync", "delete"}
        /\ KeepsJob(t) \/ th'[t] = Ended(t)
    BY <1>5, RetireStep DEF Quits
  <2> QED BY <1>m, <2>1, Fresh DEF Moving, KeepsJob
<1>6. CASE ReplacePages(t) \/ Erase(t)
  BY <1>6, <1>m, WritesStep, Fresh
<1> QED BY <1>1, <1>2, <1>3, <1>4, <1>5, <1>6 DEF Moves

\* Nothing else changes who owns what or what is shown.
LEMMA MovesOnly ==
  ASSUME IInv, NEW t \in Threads, Quiet(t) \/ Moves(t)
  PROVE  /\ \A c \in Connectors : pages'[c] # pages[c] => Moving(t, c)
         /\ \A o \in Owners, d \in Docs : <<o, d>> \in own' /\ <<o, d>> \notin own =>
              /\ Own(t) /\ th[t].c \in Connectors /\ Owner[th[t].c] = o
              /\ Moving(t, th[t].c)
         /\ \A o \in Owners, d \in Docs : <<o, d>> \in own /\ <<o, d>> \notin own' =>
              /\ Disown(t) /\ th[t].c \in Connectors /\ Owner[th[t].c] = o
              /\ Moving(t, th[t].c) /\ d \in th[t].retired
<1>ty. pages \in [Connectors -> Pages]
  BY DEF IInv, TypeOK
<1>1. CASE Quiet(t)
  BY <1>1, QuietStep
<1>2. CASE Own(t)
  <2>1. /\ UNCHANGED pages /\ th[t].at = "own" /\ th[t].op = "sync"
        /\ th[t].c \in Connectors
        /\ \/ own' = own \cup {<<Owner[th[t].c], th[t].doc>>}
           \/ UNCHANGED own
    BY <1>2, TakeStep
  <2>2. Moving(t, th[t].c)
    BY <2>1 DEF Moving
  <2> QED BY <1>2, <2>1, <2>2
<1>3. CASE Disown(t)
  BY <1>3, RetireStep DEF Moving
<1>4. CASE ReplacePages(t) \/ Erase(t)
  BY <1>4, <1>ty, WritesStep DEF Moving
<1>5. CASE \/ \E c \in Connectors : Delete(t, c)
           \/ ReadPages(t) \/ Fetch(t) \/ Index(t) \/ CrawlEnds(t)
           \/ CountOwners(t) \/ Drop(t)
  <2>1. UNCHANGED <<pages, own>>
    BY <1>5, ReadsStep, FetchStep, TakeStep, CrawlEndsStep, RetireStep
  <2> QED BY <2>1
<1> QED BY <1>1, <1>2, <1>3, <1>4, <1>5 DEF Moves

LEMMA LibraryStep ==
  ASSUME "retire" \notin Faults, MaxRestarts = 0
  PROVE  IInv /\ CrawlInv /\ NoOverlap /\ NoOverlap' /\ LibraryInv /\ [Next]_vars
           => LibraryInv'
<1> SUFFICES ASSUME IInv, CrawlInv, NoOverlap, NoOverlap', LibraryInv, [Next]_vars,
                    NEW o \in Owners, NEW d \in Docs, <<o, d>> \in own', Sole(d[1])
             PROVE  \E c \in Connectors :
                      /\ Owner[c] = o
                      /\ \/ \E t \in Threads : Moving(t, c)' /\ Holds(t, d)'
                         \/ d \in Shown(c)' /\ \A t \in Threads : ~Moving(t, c)'
  BY DEF LibraryInv
<1>na. ~(restarts < MaxRestarts)
  BY DEF IInv, TypeOK
<1>1. ASSUME NEW t \in Threads, Quiet(t) \/ Moves(t),
             \A s \in Threads : s # t => th'[s] = th[s]
      PROVE  \E c \in Connectors :
               /\ Owner[c] = o
               /\ \/ \E s \in Threads : Moving(s, c)' /\ Holds(s, d)'
                  \/ d \in Shown(c)' /\ \A s \in Threads : ~Moving(s, c)'
  <2>0. \A s \in Threads, c \in Connectors : s # t =>
          (Moving(s, c)' <=> Moving(s, c)) /\ (Holds(s, d)' <=> Holds(s, d))
    BY <1>1 DEF Moving, Holds
  <2>1. CASE <<o, d>> \notin own
    <3>1. /\ Own(t) /\ th[t].c \in Connectors /\ Owner[th[t].c] = o
          /\ Moving(t, th[t].c)
      BY <1>1, <2>1, MovesOnly
    <3>2. ~ReplacePages(t) /\ Moves(t)
      BY <3>1 DEF Own, ReplacePages, At, Moves
    <3>3. PICK c \in Connectors : c = th[t].c
      BY <3>1
    <3>4. Owner[c] = o /\ Moving(t, c)
      BY <3>1, <3>3
    <3>5. Own(t) /\ <<o, d>> \notin own
      BY <2>1, <3>1
    <3>6. Moving(t, c)' /\ Holds(t, d)'
      BY <3>2, <3>4, <3>5, HoldsStep
    <3> QED BY <3>4, <3>6
  <2>2. CASE <<o, d>> \in own
    <3>1. PICK c \in Connectors :
            /\ Owner[c] = o
            /\ \/ \E s \in Threads : Moving(s, c) /\ Holds(s, d)
               \/ d \in Shown(c) /\ \A s \in Threads : ~Moving(s, c)
      BY <2>2 DEF LibraryInv
    <3>2. CASE \E s \in Threads : s # t /\ Moving(s, c) /\ Holds(s, d)
      BY <2>0, <3>1, <3>2
    <3>3. CASE Moving(t, c) /\ Holds(t, d)
      <4>1. \A s \in Threads : s # t => ~Moving(s, c)'
        BY <2>0, <3>3 DEF NoOverlap
      <4>2. Moves(t)
        BY <1>1, <3>3, QuietStep DEF Moving, Waiting
      <4>3. \/ Moving(t, c)' /\ Holds(t, d)'
            \/ ReplacePages(t) /\ d \in Shown(c)'
        BY <3>1, <3>3, <4>2, HoldsStep
      <4>4. ReplacePages(t) => ~Moving(t, c)'
        BY WritesStep DEF Moving
      <4> QED BY <3>1, <4>1, <4>3, <4>4
    <3>4. CASE d \in Shown(c) /\ \A s \in Threads : ~Moving(s, c)
      <4>1. pages'[c] = pages[c]
        BY <1>1, <3>4, MovesOnly
      <4>2. CASE Moving(t, c)'
        <5>1. Holds(t, d)'
          BY <1>1, <3>4, <4>2, HoldsStart
        <5> QED BY <3>1, <4>2, <5>1
      <4>3. CASE ~Moving(t, c)'
        BY <2>0, <3>1, <3>4, <4>1, <4>3 DEF Shown
      <4> QED BY <4>2, <4>3
    <3> QED BY <3>1, <3>2, <3>3, <3>4
  <2> QED BY <2>1, <2>2
<1>2. CASE UNCHANGED <<th, pages, own, index>>
  <2>1. PICK c \in Connectors :
          /\ Owner[c] = o
          /\ \/ \E s \in Threads : Moving(s, c) /\ Holds(s, d)
             \/ d \in Shown(c) /\ \A s \in Threads : ~Moving(s, c)
    BY <1>2 DEF LibraryInv
  <2> QED BY <1>2, <2>1 DEF Moving, Holds, Shown
<1> QED BY <1>1, <1>2, <1>na, StepCases

\* Whatever the site does and whichever pages fail, a user owns through connectors
\* what their connectors show and nothing else, of pages to which no other redirects:
\* as long as no sync or deletion of a connector runs into another and none stops
\* half way.
THEOREM LibraryKept ==
  ASSUME "retire" \notin Faults, MaxRestarts = 0
  PROVE  Spec /\ []NoOverlap => []LibraryFollowsPages
<1>1. Init => LibraryInv
  BY DEF Init, LibraryInv
<1>2. IInv /\ CrawlInv /\ NoOverlap /\ NoOverlap' /\ LibraryInv /\ [Next]_vars
        => LibraryInv'
  BY LibraryStep
<1>3. IInv /\ LibraryInv => LibraryFollowsPages
  <2> SUFFICES ASSUME IInv, LibraryInv, NEW o \in Owners, ~Working(o),
                      NEW d \in Docs, <<o, d>> \in own, Sole(d[1])
               PROVE  \E c \in Connectors : Owner[c] = o /\ d \in Shown(c)
    BY DEF LibraryFollowsPages
  <2>1. \A c \in Connectors, t \in Threads : Owner[c] = o => ~Moving(t, c)
    BY DEF Working, Moving
  <2> QED BY <2>1 DEF LibraryInv
<1> QED BY <1>1, <1>2, <1>3, Invariance, CrawlsAreOrdered, PTL DEF Spec

-----------------------------------------------------------------------------
(* What a connector shows is there *)

\* What a thread does to what it is about to show.
LEMMA MovingShown ==
  ASSUME "retire" \notin Faults, IInv, CrawlInv, ShownInv,
         NEW t \in Threads, NEW c \in Connectors, Moving(t, c)', Quiet(t) \/ Moves(t),
         NoOverlap', \A s \in Threads : s # t => th'[s] = th[s]
  PROVE  /\ Range(th'[t].new) \ {None} \subseteq Owned(c)'
         /\ th'[t].at \in {"crawl", "index", "own"} =>
              Range(th'[t].old) \ {None} \subseteq Owned(c)'
         /\ th'[t].at \in {"retire", "count", "drop"} =>
              th'[t].retired \cap Range(th'[t].new) = {}
<1>ty. /\ th \in [Threads -> Thread] /\ pages \in [Connectors -> Pages]
  BY DEF IInv, TypeOK
<1>sh. th[t] \in Thread /\ Shape(th[t]) /\ CrawlShape(th[t])
  BY <1>ty DEF IInv, CrawlInv
<1>m. /\ th'[t].c = c /\ th'[t].op \in {"sync", "delete"}
      /\ th'[t].at \in {"crawl", "index", "own", "retire", "count", "drop"}
  BY DEF Moving
<1>0. NoPages \in Pages /\ Range(NoPages) \ {None} = {}
  BY DEF NoPages, Pages, Range
<1>1. ~Quiet(t)
  BY <1>m, QuietStep DEF Waiting
<1>2. CASE \E e \in Connectors : Delete(t, e)
  <2>1. th'[t].at = "retire" /\ th'[t].new = NoPages /\ None \notin th'[t].retired
    BY <1>2, <1>sh, ReadsStep DEF CrawlShape, Shown
  <2> QED BY <1>0, <2>1
<1>3. CASE \E s \in Threads : s = t /\ Moving(s, c) /\ Moves(t)
  <2>1. /\ Range(th[t].new) \ {None} \subseteq Owned(c)
        /\ th[t].at \in {"crawl", "index", "own"} => Range(th[t].old) \ {None} \subseteq Owned(c)
        /\ th[t].at \in {"retire", "count", "drop"} => th[t].retired \cap Range(th[t].new) = {}
        /\ th[t].c = c
    BY <1>3 DEF ShownInv, Moving
  <2>2. CASE Fetch(t) \/ Index(t)
    <3>1. /\ th[t].at \in {"crawl", "index"} /\ th'[t].at \in {"crawl", "own", "index"}
          /\ th'[t].old = th[t].old /\ UNCHANGED own
      BY <2>2, FetchStep, TakeStep DEF KeepsCrawl
    <3>2. Range(th'[t].new) \subseteq Range(th[t].new) \cup {None}
      <4>1. CASE Fetch(t)
        <5>1. /\ th[t].new \in Pages /\ th'[t].new \in Pages
              /\ \A w \in Urls : th'[t].new[w] \in {th[t].new[w], None}
          BY <4>1, <1>sh, FetchKeeps
        <5> QED BY <5>1 DEF Range, Pages
      <4>2. CASE Index(t)
        BY <4>2, TakeStep DEF KeepsCrawl
      <4> QED BY <2>2, <4>1, <4>2
    <3> QED BY <2>1, <3>1, <3>2 DEF Owned
  <2>3. CASE Own(t)
    <3> DEFINE e == th[t].doc
    <3>1. /\ th[t].at = "own" /\ e \in Docs /\ th'[t].at = "crawl"
          /\ th'[t].old = th[t].old
          /\ \/ /\ own' = own \cup {<<Owner[c], e>>}
                /\ th'[t].new = [th[t].new EXCEPT ![e[1]] = e]
             \/ UNCHANGED own /\ th'[t].new = th[t].new
      BY <2>1, <2>3, TakeStep
    <3>2. th[t].new \in Pages /\ e[1] \in Urls
      BY <1>sh, <3>1 DEF Thread, Docs
    <3> HIDE DEF e
    <3>3. CASE UNCHANGED own /\ th'[t].new = th[t].new
      BY <2>1, <3>1, <3>3 DEF Owned
    <3>4. CASE /\ own' = own \cup {<<Owner[c], e>>}
               /\ th'[t].new = [th[t].new EXCEPT ![e[1]] = e]
      <4>1. Owned(c) \subseteq Owned(c)' /\ e \in Owned(c)'
        BY <3>1, <3>4 DEF Owned
      <4>2. DOMAIN th'[t].new = Urls /\ DOMAIN th[t].new = Urls
        BY <3>2, <3>4 DEF Pages
      <4>3. th'[t].new = [th[t].new EXCEPT ![e[1]] = e]
        BY <3>4
      <4>4. th'[t].new[e[1]] = e
        BY <3>2, <4>3 DEF Pages
      <4>5. \A u \in Urls : u # e[1] => th'[t].new[u] = th[t].new[u]
        BY <3>2, <4>3 DEF Pages
      <4>6. Range(th'[t].new) \subseteq Range(th[t].new) \cup {e}
        <5> SUFFICES ASSUME NEW x \in Range(th'[t].new) PROVE x \in Range(th[t].new) \cup {e}
          OBVIOUS
        <5>1. PICK u \in Urls : x = th'[t].new[u]
          BY <4>2 DEF Range
        <5>2. CASE u = e[1]
          BY <4>4, <5>1, <5>2
        <5>3. CASE u # e[1]
          BY <4>2, <4>5, <5>1, <5>3 DEF Range
        <5> QED BY <5>2, <5>3
      <4> QED BY <2>1, <3>1, <4>1, <4>6
    <3> QED BY <3>1, <3>3, <3>4
  <2>4. CASE CrawlEnds(t)
    <3> DEFINE now == Settled(t, th[t].frontier = {})
    <3>1. /\ th[t].at = "crawl" /\ th'[t].at = "retire" /\ UNCHANGED own
          /\ th'[t].new = now /\ th'[t].retired = Replaced(t, now)
      BY <2>4, CrawlEndsStep
    <3>2. th[t].old \in Pages /\ th[t].new \in Pages
      BY <1>sh DEF Thread
    <3>3. Range(now) \subseteq Range(th[t].old) \cup Range(th[t].new) \cup {None}
      BY <3>2 DEF Settled, Range, Pages
    <3>4. Replaced(t, now) \cap Range(now) = {}
      BY DEF Replaced
    <3> HIDE DEF now
    <3> QED BY <2>1, <3>1, <3>3, <3>4 DEF Owned
  <2>5. CASE Disown(t)
    <3>0. ~Quits(t)
      BY DEF Quits
    <3>1. PICK d \in th[t].retired :
            /\ own' = own \ {<<Owner[c], d>>}
            /\ th'[t].at = "count" /\ th'[t].retired = th[t].retired \ {d}
            /\ th'[t].new = th[t].new /\ th[t].at = "retire"
      BY <2>1, <2>5, <3>0, RetireStep
    <3>2. d \notin Range(th[t].new)
      BY <2>1, <3>1
    <3>3. Range(th[t].new) \ {None} \subseteq Owned(c)'
      BY <2>1, <3>1, <3>2 DEF Owned
    <3> QED BY <2>1, <3>1, <3>3
  <2>6. CASE CountOwners(t) \/ Drop(t)
    <3>0. ~Quits(t)
      BY DEF Quits
    <3>1. /\ th[t].at \in {"count", "drop"} /\ th'[t].at \in {"retire", "drop"}
          /\ KeepsCrawl(t) /\ UNCHANGED own
      BY <2>6, <3>0, RetireStep
    <3> QED BY <2>1, <3>1 DEF Owned, KeepsCrawl
  <2>7. ~ReplacePages(t) /\ ~Erase(t)
    BY <1>m, WritesStep, Fresh
  <2>8. ~ReadPages(t) /\ ~\E e \in Connectors : Delete(t, e)
    BY <1>3, ReadsStep DEF Moving
  <2> QED BY <1>3, <2>2, <2>3, <2>4, <2>5, <2>6, <2>7, <2>8 DEF Moves
<1>4. CASE ReadPages(t) /\ \A s \in Threads : ~Moving(s, c)
  <2>1. /\ th[t].at = "pages" /\ th[t].op = "sync" /\ th[t].c = c /\ UNCHANGED own
        /\ th'[t].at = "crawl" /\ th'[t].old = pages[c] /\ th'[t].new = th[t].new
    BY <1>4, <1>m, ReadsStep DEF KeepsJob
  <2>2. th[t].new = NoPages
    BY <1>sh, <2>1 DEF CrawlShape
  <2>3. Range(pages[c]) \ {None} \subseteq Owned(c)
    BY <1>4 DEF ShownInv, Shown
  <2> QED BY <1>0, <2>1, <2>2, <2>3 DEF Owned
<1>5. \/ \E e \in Connectors : Delete(t, e)
      \/ \E s \in Threads : s = t /\ Moving(s, c) /\ Moves(t)
      \/ ReadPages(t)
  <2>1. Moves(t)
    BY <1>1
  <2>2. CASE Fetch(t) \/ Index(t) \/ Own(t) \/ CrawlEnds(t)
    <3>1. th[t].at \in {"crawl", "index", "own"} /\ th[t].op = "sync" /\ KeepsJob(t)
      BY <2>2, FetchStep, TakeStep, CrawlEndsStep
    <3> QED BY <1>m, <2>1, <3>1 DEF Moving, KeepsJob
  <2>3. CASE Disown(t) \/ CountOwners(t) \/ Drop(t)
    <3>1. /\ th[t].at \in {"retire", "count", "drop"} /\ th[t].op \in {"sync", "delete"}
          /\ KeepsJob(t) \/ th'[t] = Ended(t)
      BY <2>3, RetireStep DEF Quits
    <3> QED BY <1>m, <2>1, <3>1, Fresh DEF Moving, KeepsJob
  <2>4. ~ReplacePages(t) /\ ~Erase(t)
    BY <1>m, WritesStep, Fresh
  <2> QED BY <2>1, <2>2, <2>3, <2>4 DEF Moves
<1>6. ReadPages(t) => \A s \in Threads : ~Moving(s, c)
  <2>1. ReadPages(t) => ~Moving(t, c)
    BY ReadsStep DEF Moving
  <2>2. \A s \in Threads : s # t => (Moving(s, c)' <=> Moving(s, c))
    BY DEF Moving
  <2> QED BY <2>1, <2>2 DEF NoOverlap
<1> QED BY <1>2, <1>3, <1>4, <1>5, <1>6

\* A thread that is done with a connector's pages has written them.
LEMMA MovesEnd ==
  ASSUME "retire" \notin Faults, IInv, NEW t \in Threads, NEW c \in Connectors,
         Moving(t, c), ~Moving(t, c)', Moves(t)
  PROVE  /\ UNCHANGED own
         /\ \/ pages' = [pages EXCEPT ![c] = NoPages]
            \/ pages' = [pages EXCEPT ![c] = th[t].new]
<1>m. /\ th[t].c = c /\ th[t].op \in {"sync", "delete"}
      /\ th[t].at \in {"crawl", "index", "own", "retire", "count", "drop"}
  BY DEF Moving
<1>1. ~ReadPages(t) /\ ~\E e \in Connectors : Delete(t, e)
  BY <1>m, ReadsStep
<1>2. ~(Fetch(t) \/ Index(t) \/ Own(t) \/ CrawlEnds(t))
  <2>1. ASSUME Fetch(t) \/ Index(t) \/ Own(t) \/ CrawlEnds(t)
        PROVE  KeepsJob(t) /\ th'[t].at \in {"crawl", "index", "own", "retire"}
    BY <2>1, FetchStep, TakeStep, CrawlEndsStep
  <2> QED BY <1>m, <2>1 DEF Moving, KeepsJob
<1>3. ~(Disown(t) \/ CountOwners(t) \/ Drop(t))
  <2>1. ASSUME Disown(t) \/ CountOwners(t) \/ Drop(t)
        PROVE  KeepsJob(t) /\ th'[t].at \in {"retire", "count", "drop"}
    BY <2>1, RetireStep DEF Quits
  <2> QED BY <1>m, <2>1 DEF Moving, KeepsJob
<1>4. ReplacePages(t) \/ Erase(t)
  BY <1>1, <1>2, <1>3 DEF Moves
<1> QED BY <1>m, <1>4, WritesStep

LEMMA ShownStep ==
  ASSUME "retire" \notin Faults, MaxRestarts = 0
  PROVE  IInv /\ CrawlInv /\ NoOverlap /\ NoOverlap' /\ NoSharedRetire /\ ShownInv
           /\ [Next]_vars => ShownInv'
<1> SUFFICES ASSUME IInv, CrawlInv, NoOverlap, NoOverlap', NoSharedRetire, ShownInv,
                    [Next]_vars
             PROVE  ShownInv'
  OBVIOUS
<1>na. ~(restarts < MaxRestarts)
  BY DEF IInv, TypeOK
<1>ty. th \in [Threads -> Thread] /\ pages \in [Connectors -> Pages]
  BY DEF IInv, TypeOK
<1>1. ASSUME NEW t \in Threads, Quiet(t) \/ Moves(t),
             \A s \in Threads : s # t => th'[s] = th[s]
      PROVE  ShownInv'
  <2>1. \A s \in Threads, c \in Connectors : s # t => (Moving(s, c)' <=> Moving(s, c))
    BY <1>1 DEF Moving
  <2>2. \A c \in Connectors : ~Moving(t, c) => Owned(c) \cap Needed(c) \subseteq Owned(c)'
    <3> SUFFICES ASSUME NEW c \in Connectors, ~Moving(t, c), NEW d \in Docs,
                        <<Owner[c], d>> \in own, d \in Needed(c)
                 PROVE  <<Owner[c], d>> \in own'
      BY DEF Owned
    <3>1. Owner[c] \in Owners
      BY WebAssumption
    <3>2. ASSUME <<Owner[c], d>> \notin own' PROVE FALSE
      <4>1. /\ th[t].c \in Connectors /\ Owner[th[t].c] = Owner[c]
            /\ Moving(t, th[t].c) /\ d \in th[t].retired
        BY <1>1, <3>1, <3>2, MovesOnly
      <4>2. th[t].c # c
        BY <4>1
      <4> QED BY <4>1, <4>2 DEF NoSharedRetire
    <3> QED BY <3>2
  <2>3. ASSUME NEW c \in Connectors, \A s \in Threads : ~Moving(s, c)'
        PROVE  Shown(c)' \subseteq Owned(c)'
    <3>1. CASE Moving(t, c)
      <4>1. Moves(t) /\ th[t].c = c /\ UNCHANGED own
        BY <1>1, <2>3, <3>1, QuietStep, MovesEnd DEF Moving, Waiting
      <4>2. \/ pages' = [pages EXCEPT ![c] = NoPages]
            \/ pages' = [pages EXCEPT ![c] = th[t].new]
        BY <1>1, <2>3, <3>1, <4>1, MovesEnd
      <4>3. pages'[c] = NoPages \/ pages'[c] = th[t].new
        BY <1>ty, <4>2
      <4>4. Range(th[t].new) \ {None} \subseteq Owned(c)
        BY <3>1 DEF ShownInv
      <4>5. Range(NoPages) \ {None} = {}
        BY DEF NoPages, Range
      <4> QED BY <4>1, <4>3, <4>4, <4>5 DEF Shown, Owned
    <3>2. CASE ~Moving(t, c)
      <4>1. pages'[c] = pages[c]
        BY <1>1, <3>2, MovesOnly
      <4>2. \A s \in Threads : ~Moving(s, c)
        BY <2>1, <2>3, <3>2
      <4>3. Shown(c) \subseteq Owned(c)
        BY <4>2 DEF ShownInv
      <4>4. Shown(c) \subseteq Needed(c)
        BY <4>2, <4>3 DEF Needed, Owned
      <4> QED BY <2>2, <3>2, <4>1, <4>3, <4>4 DEF Shown
    <3> QED BY <3>1, <3>2
  <2>4. ASSUME NEW s \in Threads, NEW c \in Connectors, Moving(s, c)'
        PROVE  /\ Range(th'[s].new) \ {None} \subseteq Owned(c)'
               /\ th'[s].at \in {"crawl", "index", "own"} =>
                    Range(th'[s].old) \ {None} \subseteq Owned(c)'
               /\ th'[s].at \in {"retire", "count", "drop"} =>
                    th'[s].retired \cap Range(th'[s].new) = {}
    <3>1. CASE s = t
      BY <1>1, <2>4, <3>1, MovingShown
    <3>2. CASE s # t
      <4>1. Moving(s, c) /\ th'[s] = th[s]
        BY <1>1, <2>1, <2>4, <3>2
      <4>2. ~Moving(t, c)
        BY <3>2, <4>1 DEF NoOverlap
      <4>3. Owned(c) \cap Needed(c) \subseteq Owned(c)'
        BY <2>2, <4>2
      <4>4. /\ Range(th[s].new) \ {None} \subseteq Owned(c)
            /\ th[s].at \in {"crawl", "index", "own"} =>
                 Range(th[s].old) \ {None} \subseteq Owned(c)
        BY <4>1 DEF ShownInv
      <4>5. /\ Range(th[s].new) \ {None} \subseteq Needed(c)
            /\ th[s].at \in {"crawl", "index", "own"} =>
                 Range(th[s].old) \ {None} \subseteq Needed(c)
        BY <4>1, <4>4 DEF Needed, Owned
      <4> QED BY <4>1, <4>3, <4>4, <4>5 DEF ShownInv
    <3> QED BY <3>1, <3>2
  <2> QED BY <2>3, <2>4 DEF ShownInv
<1>2. CASE UNCHANGED <<th, pages, own, index>>
  BY <1>2 DEF ShownInv, Moving, Shown, Owned
<1> QED BY <1>1, <1>2, <1>na, StepCases

\* What is owned is in the index: a document that is dropped has no owner,
\* and gets none unless two threads pass each other.
LEMMA IndexStep ==
  ASSUME "retire" \notin Faults, MaxRestarts = 0
  PROVE  IInv /\ ShownInv /\ NoDropRace /\ NoDropRace' /\ IndexInv /\ [Next]_vars => IndexInv'
<1> SUFFICES ASSUME IInv, ShownInv, NoDropRace, NoDropRace', IndexInv, [Next]_vars
             PROVE  IndexInv'
  OBVIOUS
<1>na. ~(restarts < MaxRestarts)
  BY DEF IInv, TypeOK
<1>ty. th \in [Threads -> Thread]
  BY DEF IInv, TypeOK
<1>1. ASSUME NEW t \in Threads, Quiet(t) \/ Moves(t),
             \A s \in Threads : s # t => th'[s] = th[s]
      PROVE  IndexInv'
  <2>sh. th[t] \in Thread /\ Shape(th[t])
    BY <1>ty DEF IInv
  <2>0. ASSUME UNCHANGED <<own, index>>, th'[t].at \notin {"own", "drop"} PROVE IndexInv'
    BY <1>1, <2>0 DEF IndexInv, At
  <2>1. CASE Quiet(t)
    BY <2>0, <2>1, QuietStep DEF Waiting
  <2>2. CASE \/ \E c \in Connectors : Delete(t, c)
             \/ ReadPages(t) \/ CrawlEnds(t) \/ ReplacePages(t) \/ Erase(t)
    BY <2>0, <2>2, ReadsStep, CrawlEndsStep, WritesStep, Fresh
  <2>3. CASE Fetch(t)
    <3>1. UNCHANGED <<own, index>>
      BY <2>3, FetchStep
    <3>2. th'[t].at \in {"crawl", "own", "index"}
      BY <2>3, FetchStep
    <3>3. th'[t].at = "own" => th'[t].doc \in index
      <4> SUFFICES ASSUME th'[t].at = "own" PROVE th'[t].doc \in index
        OBVIOUS
      <4>1. /\ th[t].at = "crawl" /\ th[t].op = "sync" /\ th[t].c \in Connectors
            /\ th[t].old \in Pages /\ th[t].frontier \subseteq Urls
            /\ th'[t].doc \in Docs /\ FetchResult(t, th'[t])
        BY <2>3, <2>sh, FetchStep DEF Thread, FetchResult
      <4>2. PICK v \in Urls : th'[t].doc = <<v, site[v]>> /\ Unchanged(t, v)
        BY <4>1, WebAssumption DEF FetchResult
      <4>3. th'[t].doc \in Range(th[t].old)
        BY <4>1, <4>2 DEF Unchanged, Range, Pages
      <4>4. th'[t].doc # None
        BY <4>1, WebAssumption DEF Docs
      <4>5. th'[t].doc \in Owned(th[t].c)
        BY <4>1, <4>3, <4>4 DEF ShownInv, Moving
      <4> QED BY <4>1, <4>5, WebAssumption DEF Owned, IndexInv
    <3> QED BY <1>1, <3>1, <3>2, <3>3 DEF IndexInv, At
  <2>4. CASE Index(t)
    <3>1. UNCHANGED own
      BY <2>4, TakeStep
    <3>2. CASE index' = index \cup {th[t].doc} /\ th'[t].at = "own" /\ th'[t].doc = th[t].doc
      BY <1>1, <3>1, <3>2 DEF IndexInv, At
    <3>3. CASE UNCHANGED index /\ th'[t].at = "crawl"
      BY <2>0, <3>1, <3>3
    <3> QED BY <2>4, <3>2, <3>3, TakeStep
  <2>5. CASE Own(t)
    <3>1. /\ UNCHANGED index /\ th[t].at = "own" /\ th'[t].at = "crawl"
          /\ \/ own' = own \cup {<<Owner[th[t].c], th[t].doc>>}
             \/ UNCHANGED own
      BY <2>5, TakeStep
    <3>2. \A s \in Threads : At(s, "drop")' =>
             At(s, "drop") /\ th'[s] = th[s] /\ th[s].doc # th[t].doc
      BY <1>1, <3>1 DEF NoDropRace, At
    <3>3. th[t].doc \in index
      BY <3>1 DEF IndexInv, At
    <3>4. \A o \in Owners, d \in Docs : <<o, d>> \in own' => d \in index
      BY <3>1, <3>3 DEF IndexInv
    <3>5. \A s \in Threads : At(s, "own")' => th'[s].doc \in index
      BY <1>1, <3>1 DEF IndexInv, At
    <3>6. \A s \in Threads : At(s, "drop")' => \A o \in Owners : <<o, th'[s].doc>> \notin own'
      BY <3>1, <3>2 DEF IndexInv
    <3> QED BY <3>1, <3>4, <3>5, <3>6 DEF IndexInv
  <2>6. CASE Disown(t)
    <3>0. ~Quits(t)
      BY DEF Quits
    <3>1. UNCHANGED index /\ own' \subseteq own /\ th'[t].at = "count"
      BY <2>6, <3>0, RetireStep
    <3> QED BY <1>1, <3>1 DEF IndexInv, At
  <2>7. CASE CountOwners(t)
    <3>1. /\ UNCHANGED <<own, index>> /\ th'[t].doc = th[t].doc
          /\ \/ th'[t].at = "retire"
             \/ th'[t].at = "drop" /\ ~\E o \in Owners : <<o, th[t].doc>> \in own
      BY <2>7, RetireStep
    <3> QED BY <1>1, <3>1 DEF IndexInv, At
  <2>8. CASE Drop(t)
    <3>0. ~Quits(t)
      BY DEF Quits
    <3>1. /\ UNCHANGED own /\ index' = index \ {th[t].doc}
          /\ th[t].at = "drop" /\ th'[t].at = "retire"
      BY <2>8, <3>0, RetireStep
    <3>2. \A s \in Threads : At(s, "own")' =>
             At(s, "own") /\ th'[s] = th[s] /\ th[s].doc # th[t].doc
      BY <1>1, <3>1 DEF NoDropRace, At
    <3>3. \A o \in Owners, d \in Docs : <<o, d>> \in own => d \in index /\ d # th[t].doc
      BY <3>1 DEF IndexInv, At
    <3>4. \A s \in Threads : At(s, "own")' => th'[s].doc \in index'
      BY <3>1, <3>2 DEF IndexInv
    <3>5. \A s \in Threads : At(s, "drop")' => \A o \in Owners : <<o, th'[s].doc>> \notin own
      BY <1>1, <3>1 DEF IndexInv, At
    <3> QED BY <3>1, <3>3, <3>4, <3>5 DEF IndexInv
  <2> QED BY <1>1, <2>1, <2>2, <2>3, <2>4, <2>5, <2>6, <2>7, <2>8 DEF Moves
<1>2. CASE UNCHANGED <<th, pages, own, index>>
  BY <1>2 DEF IndexInv, At
<1> QED BY <1>1, <1>2, <1>na, StepCases

\* What a connector shows is owned and indexed, however many users' syncs, and
\* syncs of one user's connectors, share documents: as long as no sync or deletion
\* runs into another of its connector or stops half way, none retires what another
\* connector of its owner needs, and no document leaves the index while another
\* thread is about to own it.
THEOREM ReadableKept ==
  ASSUME "retire" \notin Faults, MaxRestarts = 0
  PROVE  Spec /\ []NoOverlap /\ []NoSharedRetire /\ []NoDropRace => []PagesAreReadable
<1>1. Init => ShownInv /\ IndexInv
  BY DEF Init, ShownInv, IndexInv, Shown, NoPages, Range, Moving, NoThread, At
<1>2. /\ IInv /\ CrawlInv /\ NoOverlap /\ NoOverlap' /\ NoSharedRetire /\ ShownInv
           /\ [Next]_vars => ShownInv'
      /\ IInv /\ ShownInv /\ NoDropRace /\ NoDropRace' /\ IndexInv /\ [Next]_vars => IndexInv'
  BY ShownStep, IndexStep
<1>3. IInv /\ ShownInv /\ IndexInv => PagesAreReadable
  <2> SUFFICES ASSUME IInv, ShownInv, IndexInv, NEW c \in Connectors, ~Working(Owner[c]),
                      NEW d \in Shown(c)
               PROVE  <<Owner[c], d>> \in own /\ d \in index
    BY DEF PagesAreReadable
  <2>1. \A t \in Threads : ~Moving(t, c)
    BY DEF Working, Moving
  <2>2. d \in Docs /\ <<Owner[c], d>> \in own
    BY <2>1 DEF ShownInv, Owned
  <2> QED BY <2>2, WebAssumption DEF IndexInv
<1> QED BY <1>1, <1>2, <1>3, Invariance, CrawlsAreOrdered, PTL DEF Spec

\* What these theorems ask of the syncs the lock gives them, with any number
\* of requests and loops, where no lock expires under a sync and no connector
\* is deleted.
THEOREM LockSuffices ==
  ASSUME MaxExpiries = 0
  PROVE  Spec /\ []NoDeletion => []NoOverlap
<1> DEFINE Alive == \A c \in Connectors : life[c] # "deleted"
<1>1. Init => Alive
  BY DEF Init
<1>2. IInv /\ NoDeletion /\ Alive /\ [Next]_vars => Alive'
  <2> SUFFICES ASSUME IInv, NoDeletion, Alive, [Next]_vars PROVE Alive'
    OBVIOUS
  <2> USE DEF library, redis, counters
  <2>ty. life \in [Connectors -> {"new", "live", "deleted"}]
    BY DEF IInv, TypeOK
  <2>1. ASSUME NEW t \in Threads, NEW c \in Connectors, Create(t, c) PROVE Alive'
    BY <2>1, <2>ty DEF Create
  <2>2. ASSUME NEW t \in Threads, Erase(t) PROVE FALSE
    BY <2>2 DEF Erase, NoDeletion
  <2>3. ASSUME NEW t \in Threads, NEW c \in Connectors,
               Post(t, c) \/ Edit(t, c) \/ Delete(t, c)
        PROVE  Alive'
    BY <2>3 DEF Post, Edit, Delete
  <2>4. ASSUME NEW t \in Threads,
               \/ Tick(t) \/ Queue(t) \/ SaveEdit(t) \/ TakeDue(t) \/ Get(t) \/ Acquire(t)
               \/ Run(t) \/ ReadPages(t) \/ Fetch(t) \/ Index(t) \/ Own(t)
               \/ CrawlEnds(t) \/ Disown(t) \/ CountOwners(t) \/ Drop(t)
               \/ ReplacePages(t) \/ Fail(t) \/ Finish(t) \/ Release(t)
        PROVE  Alive'
    <3>1. UNCHANGED life
      BY <2>4 DEF Tick, Queue, SaveEdit, TakeDue, Get, Acquire, Run, ReadPages, Fetch, Index,
                  Own, CrawlEnds, Disown, CountOwners, Drop, ReplacePages, Fail, Finish, Release
    <3> QED BY <3>1
  <2>5. ASSUME NEW c \in Connectors, Expire(c) PROVE Alive'
    BY <2>5 DEF Expire
  <2>6. ASSUME NEW u \in Urls, NEW x \in NewContents, ChangeSite(u, x) PROVE Alive'
    BY <2>6 DEF ChangeSite
  <2>7. CASE Restart
    BY <2>7 DEF Restart
  <2>8. CASE UNCHANGED vars
    BY <2>8 DEF vars
  <2> QED BY <2>1, <2>2, <2>3, <2>4, <2>5, <2>6, <2>7, <2>8 DEF Next, Step
<1>3. IInv /\ NoDeletion /\ Alive /\ OneSyncAtATime => NoOverlap
  <2> SUFFICES ASSUME IInv, NoDeletion, Alive, OneSyncAtATime,
                      NEW t1 \in Threads, NEW t2 \in Threads, NEW c \in Connectors,
                      Moving(t1, c), Moving(t2, c)
               PROVE  t1 = t2
    BY DEF NoOverlap
  <2>1. expiries = 0
    BY DEF IInv, TypeOK
  <2>2. Syncing(t1, c) /\ Syncing(t2, c)
    BY DEF NoDeletion, Moving, Syncing, Holding
  <2> QED BY <2>1, <2>2 DEF OneSyncAtATime, Locked
<1> HIDE DEF Alive
<1> QED BY <1>1, <1>2, <1>3, Invariance, LockKeepsApart, PTL DEF Spec
=============================================================================
