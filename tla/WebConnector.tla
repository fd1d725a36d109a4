----------------------------- MODULE WebConnector -----------------------------
(***************************************************************************)
(* Website connectors: services/connectors/web/{router,service,store}.py,  *)
(* with what they use of the crawler, the identity store and the index.    *)
(*                                                                         *)
(* A connector is a record in Redis with the pages of its last sync, each  *)
(* page the document it became.  A sync holds the connector's lock, crawls *)
(* the site, indexes and owns what changed, and retires what it replaces:  *)
(* the document leaves the owner's library and, if nobody owns it any      *)
(* more, the index.  Requests, background syncs and the scheduler's loop   *)
(* are threads; every read and write of a store is a step of its own.      *)
(***************************************************************************)
EXTENDS Naturals, FiniteSets, Functions

CONSTANTS
  Connectors,  \* connectors that are ever created, all on one site
  Owners,      \* users
  Owner,       \* the owner of a connector
  Urls,        \* the pages of the site
  Start,       \* the page where a crawl starts
  Lands,       \* where a request for a page ends, after its redirects
  Links,       \* the pages a page links to, when they are there
  Contents,    \* versions of a page
  NewContents, \* what a page of the site may become
  Handlers,    \* gateway threads that serve requests and run their syncs
  Loops,       \* scheduler loops, one in each gateway process
  Caps,        \* numbers of fetched pages at which max_pages may end a crawl
  Faults,      \* what may go wrong: "bad", "deep", "thin", "index", "own", "retire"
  MaxEdits,    \* bound: changes of the site
  MaxJobs,     \* bound: requests and scheduler ticks
  MaxExpiries, \* bound: locks that expire under a running sync
  MaxRestarts, \* bound: restarts of the gateway
  None         \* no document, no record, no page

Threads == Handlers \cup Loops

ASSUME WebAssumption ==
  /\ Owner \in [Connectors -> Owners]
  /\ Start \in Urls /\ Links \in [Urls -> SUBSET Urls]
  /\ Lands \in [Urls -> Urls] /\ \A u \in Urls : Lands[Lands[u]] = Lands[u]
  /\ NewContents \subseteq Contents \cup {None}
  /\ None \notin Contents \cup (Urls \X Contents)
  /\ Handlers \cap Loops = {}
  /\ Faults \subseteq {"bad", "deep", "thin", "index", "own", "retire"}
  /\ Caps \subseteq Nat
  /\ {MaxEdits, MaxJobs, MaxExpiries, MaxRestarts} \subseteq Nat

\* A document's id is the slug of its page and the hash of its content.
Docs == Urls \X Contents
Pages == [Urls -> Docs \cup {None}]
NoPages == [u \in Urls |-> None]

\* What matters of a connector's record: ok, partial and error are "idle".
Records == [status : {"idle", "queued", "running"}, daily : BOOLEAN]

VARIABLES
  site,      \* what each page of the website holds; None: there is no page
  conn,      \* per connector, its record in Redis
  pages,     \* per connector, the documents of the pages of its last sync
  lock,      \* per connector, whether its lock is set
  own,       \* who owns which document (the identity store)
  entry,     \* per document, the connector its library entry names
  index,     \* the documents that are indexed
  th,        \* per thread, what it is doing and what it has read
  life,      \* per connector, "new", "live", or "deleted" once that returned
  edits, jobs, expiries, restarts  \* counters, which only bound the model

vars == <<site, conn, pages, lock, own, entry, index, th, life,
          edits, jobs, expiries, restarts>>
counters == <<edits, jobs, expiries, restarts>>
library == <<own, entry, index>>
redis == <<conn, pages, lock>>

Points == {"idle", "queue", "get", "acquire", "run", "pages", "crawl", "index",
           "own", "retire", "count", "drop", "finish", "fail", "release", "edit"}

\* old, new: the pages before and after; done: those that new has, with a document
\* or without; queued, frontier, seen: the crawler's sets; doc: the document in
\* hand; due: what the loop's due() returned.
Thread == [at : Points, op : {"none", "sync", "delete", "edit"},
           c : Connectors \cup {None}, rec : Records \cup {None},
           old : Pages, new : Pages, done : SUBSET Urls,
           queued : SUBSET Urls, frontier : SUBSET Urls, seen : SUBSET Contents,
           doc : Docs \cup {None}, retired : SUBSET Docs,
           due : SUBSET (Connectors \X Records)]

NoThread == [at |-> "idle", op |-> "none", c |-> None, rec |-> None,
             old |-> NoPages, new |-> NoPages, done |-> {},
             queued |-> {}, frontier |-> {}, seen |-> {},
             doc |-> None, retired |-> {}, due |-> {}]

Init ==
  /\ site \in [Urls -> Contents]
  /\ conn = [c \in Connectors |-> None]
  /\ pages = [c \in Connectors |-> NoPages]
  /\ lock = [c \in Connectors |-> FALSE]
  /\ own = {} /\ index = {} /\ entry = [d \in Docs |-> None]
  /\ th = [t \in Threads |-> NoThread]
  /\ life = [c \in Connectors |-> "new"]
  /\ edits = 0 /\ jobs = 0 /\ expiries = 0 /\ restarts = 0

-----------------------------------------------------------------------------
(* Requests. *)

At(t, point) == th[t].at = point
Goto(t, point) == th' = [th EXCEPT ![t].at = point]

\* A thread's work is over; a scheduler's loop goes on with what is due.
Ended(t) == [NoThread EXCEPT !.due = th[t].due]
End(t) == th' = [th EXCEPT ![t] = Ended(t)]

Job == jobs < MaxJobs /\ jobs' = jobs + 1

\* POST /connectors, with or without sync_now.
Create(t, c) ==
  /\ t \in Handlers /\ At(t, "idle") /\ life[c] = "new"
  /\ life' = [life EXCEPT ![c] = "live"]
  /\ \E daily \in BOOLEAN, sync_now \in BOOLEAN :
       LET rec == [status |-> "idle", daily |-> daily] IN
       /\ conn' = [conn EXCEPT ![c] = rec]
       /\ th' = IF sync_now
                THEN [th EXCEPT ![t].at = "queue", ![t].op = "sync",
                                ![t].c = c, ![t].rec = rec]
                ELSE th
  /\ UNCHANGED <<site, pages, lock, library, counters>>

\* POST /connectors/{id}/sync: refused while the record says it is busy.
Post(t, c) ==
  /\ t \in Handlers /\ At(t, "idle") /\ Job
  /\ conn[c] # None /\ conn[c].status \notin {"queued", "running"}
  /\ th' = [th EXCEPT ![t].at = "queue", ![t].op = "sync",
                      ![t].c = c, ![t].rec = conn[c]]
  /\ UNCHANGED <<site, redis, library, life, edits, expiries, restarts>>

\* queue_sync saves the record the request read, then the sync starts.
Queue(t) ==
  /\ At(t, "queue")
  /\ conn' = [conn EXCEPT ![th[t].c] = [th[t].rec EXCEPT !.status = "queued"]]
  /\ Goto(t, "get")
  /\ UNCHANGED <<site, pages, lock, library, life, counters>>

\* PATCH /connectors/{id} reads the record and later saves it, changed.
Edit(t, c) ==
  /\ t \in Handlers /\ At(t, "idle") /\ Job /\ conn[c] # None
  /\ th' = [th EXCEPT ![t].at = "edit", ![t].op = "edit", ![t].c = c,
                      ![t].rec = [conn[c] EXCEPT !.daily = ~@]]
  /\ UNCHANGED <<site, redis, library, life, edits, expiries, restarts>>

SaveEdit(t) ==
  /\ At(t, "edit")
  /\ conn' = [conn EXCEPT ![th[t].c] = th[t].rec]
  /\ End(t)
  /\ UNCHANGED <<site, pages, lock, library, life, counters>>

\* DELETE /connectors/{id} retires the documents of the pages it reads.
Delete(t, c) ==
  /\ t \in Handlers /\ At(t, "idle") /\ Job /\ conn[c] # None
  /\ th' = [th EXCEPT ![t].at = "retire", ![t].op = "delete", ![t].c = c,
                      ![t].retired = Range(pages[c]) \ {None}]
  /\ UNCHANGED <<site, redis, library, life, edits, expiries, restarts>>

\* The connector, its pages and its lock go; the request returns.
Erase(t) ==
  /\ At(t, "retire") /\ th[t].op = "delete" /\ th[t].retired = {}
  /\ conn' = [conn EXCEPT ![th[t].c] = None]
  /\ pages' = [pages EXCEPT ![th[t].c] = NoPages]
  /\ lock' = [lock EXCEPT ![th[t].c] = FALSE]
  /\ life' = [life EXCEPT ![th[t].c] = "deleted"]
  /\ End(t)
  /\ UNCHANGED <<site, library, counters>>

\* A tick of the scheduler: due() lists the scheduled connectors.
Tick(t) ==
  /\ t \in Loops /\ At(t, "idle") /\ th[t].due = {} /\ Job
  /\ LET due == {c \in Connectors : conn[c] # None /\ conn[c].daily
                                    /\ conn[c].status = "idle"} IN
     /\ due # {}
     /\ th' = [th EXCEPT ![t].due = {<<c, conn[c]>> : c \in due}]
  /\ UNCHANGED <<site, redis, library, life, edits, expiries, restarts>>

\* It queues them one by one, as it listed them, and waits for each sync.
TakeDue(t) ==
  /\ At(t, "idle")
  /\ \E p \in th[t].due :
       /\ conn' = [conn EXCEPT ![p[1]] = [p[2] EXCEPT !.status = "queued"]]
       /\ th' = [th EXCEPT ![t].at = "get", ![t].op = "sync", ![t].c = p[1],
                           ![t].due = @ \ {p}]
  /\ UNCHANGED <<site, pages, lock, library, life, counters>>

-----------------------------------------------------------------------------
(* A sync. *)

Get(t) ==
  /\ At(t, "get")
  /\ LET rec == conn[th[t].c] IN
     IF rec = None THEN End(t)
     ELSE th' = [th EXCEPT ![t].at = "acquire", ![t].rec = rec]
  /\ UNCHANGED <<site, redis, library, life, counters>>

\* Mutation of Acquire: no NX, a set lock is taken over.
AcquireTaken(t) ==
  /\ At(t, "acquire")
  /\ lock' = [lock EXCEPT ![th[t].c] = TRUE] /\ Goto(t, "run")
  /\ UNCHANGED <<site, conn, pages, library, life, counters>>

\* SET NX; without the lock the sync returns, and its record stays queued.
Acquire(t) ==
  /\ At(t, "acquire")
  /\ IF lock[th[t].c]
     THEN End(t) /\ UNCHANGED lock
     ELSE lock' = [lock EXCEPT ![th[t].c] = TRUE] /\ Goto(t, "run")
  /\ UNCHANGED <<site, conn, pages, library, life, counters>>

Run(t) ==
  /\ At(t, "run")
  /\ LET rec == [th[t].rec EXCEPT !.status = "running"] IN
     /\ conn' = [conn EXCEPT ![th[t].c] = rec]
     /\ th' = [th EXCEPT ![t].at = "pages", ![t].rec = rec]
  /\ UNCHANGED <<site, pages, lock, library, life, counters>>

ReadPages(t) ==
  /\ At(t, "pages")
  /\ th' = [th EXCEPT ![t].at = "crawl", ![t].old = pages[th[t].c],
                      ![t].queued = {Start}, ![t].frontier = {Start}]
  /\ UNCHANGED <<site, redis, library, life, counters>>

\* Mutation of Found: links are followed again.
FoundAgain(t, u) == {v \in Links[u] : site[Lands[v]] # None}

\* The crawler's links of a page that are new to it.
Found(t, u) == {v \in Links[u] : site[Lands[v]] # None} \ th[t].queued

\* Mutation of Unchanged: compares addresses, not content.
UnchangedUrl(t, u) == th[t].old[u] # None

\* The last sync left the document that this fetch would become.
Unchanged(t, u) == th[t].old[u] = <<u, site[u]>>

\* The sync has a page of this address, for now without a document.
Yielded(r, u) == [r EXCEPT !.new = [@ EXCEPT ![u] = None], !.done = @ \cup {u}]

\* A page is fetched, by the address in the queue; what comes of it goes by the
\* address where the redirects end.  It may fail or be skipped, as one with a
\* content this crawl has seen is: that hides its links, and goes by the first
\* address.  It may have too little text for a document; else it is a document,
\* indexed unless the last sync left the same one.  Too deep, its links are left.
Fetch(t) ==
  /\ At(t, "crawl")
  /\ \E u \in th[t].frontier :
       LET v == Lands[u]
           left == [th[t] EXCEPT !.frontier = @ \ {u}]
       IN
       \/ /\ site[v] \in th[t].seen \cup {None} \/ "bad" \in Faults
          /\ th' = [th EXCEPT ![t] = Yielded(left, u)]
       \/ \E more \in {Found(t, v)} \cup {x \in {{}} : "deep" \in Faults} :
            LET known == Yielded([left EXCEPT !.frontier = @ \cup more,
                                              !.queued = @ \cup more,
                                              !.seen = @ \cup {site[v]}], v)
            IN
            \/ /\ site[v] # None /\ "thin" \in Faults
               /\ th' = [th EXCEPT ![t] = known]
            \/ /\ site[v] \notin th[t].seen \cup {None}
               /\ th' = [th EXCEPT ![t] =
                    [known EXCEPT !.doc = <<v, site[v]>>,
                                  !.at = IF Unchanged(t, v) THEN "own" ELSE "index"]]
  /\ UNCHANGED <<site, redis, library, life, counters>>

\* chunk_and_index, which may raise: the page is then a bad page.
Index(t) ==
  /\ At(t, "index")
  /\ \/ /\ index' = index \cup {th[t].doc}
        /\ Goto(t, "own")
     \/ /\ "index" \in Faults
        /\ th' = [th EXCEPT ![t].at = "crawl", ![t].doc = None]
        /\ UNCHANGED index
  /\ UNCHANGED <<site, redis, own, entry, life, counters>>

\* _own: the owner has the document and the library knows its page.
Own(t) ==
  /\ At(t, "own")
  /\ \/ /\ own' = own \cup {<<Owner[th[t].c], th[t].doc>>}
        /\ entry' = [entry EXCEPT ![th[t].doc] = th[t].c]
        /\ th' = [th EXCEPT ![t].at = "crawl", ![t].doc = None,
                            ![t].new[th[t].doc[1]] = th[t].doc]
     \/ /\ "own" \in Faults
        /\ th' = [th EXCEPT ![t].at = "crawl", ![t].doc = None]
        /\ UNCHANGED <<own, entry>>
  /\ UNCHANGED <<site, redis, index, life, counters>>

\* Mutation of Settled: every crawl counts as complete.
SettledComplete(t, complete) ==
  [u \in Urls |-> IF u \in th[t].done THEN th[t].new[u] ELSE None]

\* The pages after the crawl.  A complete crawl drops those it did not
\* reach, one that max_pages cut keeps them as they were.
Settled(t, complete) ==
  [u \in Urls |->
     IF u \in th[t].done THEN th[t].new[u]
     ELSE IF complete THEN None ELSE th[t].old[u]]

\* Mutation of Replaced: only pages that are gone, not changed ones.
ReplacedGone(t, now) == {th[t].old[u] : u \in {v \in Urls : now[v] = None}} \ {None}

\* The documents to retire: what was there and is on no page now.
Replaced(t, now) == (Range(th[t].old) \ Range(now)) \ {None}

CrawlEnds(t) ==
  /\ At(t, "crawl")
  /\ \/ th[t].frontier = {}
     \/ Cardinality(th[t].queued \ th[t].frontier) \in Caps
  /\ LET now == Settled(t, th[t].frontier = {}) IN
     th' = [th EXCEPT ![t].at = "retire", ![t].new = now,
                      ![t].retired = Replaced(t, now)]
  /\ UNCHANGED <<site, redis, library, life, counters>>

-----------------------------------------------------------------------------
(* retire, in a sync or a delete: disown, count the owners, drop. *)

\* A sync that an exception leaves goes to its handler; a delete is over.
Raises(t) ==
  /\ "retire" \in Faults
  /\ IF th[t].op = "sync" THEN Goto(t, "fail") ELSE End(t)

Disown(t) ==
  /\ At(t, "retire") /\ th[t].retired # {}
  /\ \/ \E d \in th[t].retired :
          /\ own' = own \ {<<Owner[th[t].c], d>>}
          /\ th' = [th EXCEPT ![t].at = "count", ![t].doc = d,
                              ![t].retired = @ \ {d}]
     \/ Raises(t) /\ UNCHANGED own
  /\ UNCHANGED <<site, redis, entry, index, life, counters>>

\* Mutation of CountOwners: the index is never told.
CountNothing(t) ==
  /\ At(t, "count")
  /\ entry' = [entry EXCEPT ![th[t].doc] = None]
  /\ Goto(t, "retire")
  /\ UNCHANGED <<site, redis, own, index, life, counters>>

CountOwners(t) ==
  /\ At(t, "count")
  /\ entry' = [entry EXCEPT ![th[t].doc] = None]
  /\ Goto(t, IF \E o \in Owners : <<o, th[t].doc>> \in own
             THEN "retire" ELSE "drop")
  /\ UNCHANGED <<site, redis, own, index, life, counters>>

Drop(t) ==
  /\ At(t, "drop")
  /\ \/ index' = index \ {th[t].doc} /\ Goto(t, "retire")
     \/ Raises(t) /\ UNCHANGED index
  /\ UNCHANGED <<site, redis, own, entry, life, counters>>

-----------------------------------------------------------------------------
(* The end of a sync. *)

ReplacePages(t) ==
  /\ At(t, "retire") /\ th[t].op = "sync" /\ th[t].retired = {}
  /\ pages' = [pages EXCEPT ![th[t].c] = th[t].new]
  /\ Goto(t, "finish")
  /\ UNCHANGED <<site, conn, lock, library, life, counters>>

\* The handler of a failed sync takes the record of now, if there is one.
Fail(t) ==
  /\ At(t, "fail")
  /\ LET fresh == conn[th[t].c] IN
     th' = [th EXCEPT ![t].at = "finish",
                      ![t].rec = IF fresh = None THEN @ ELSE fresh]
  /\ UNCHANGED <<site, redis, library, life, counters>>

\* The record the sync has is saved with its result.
Finish(t) ==
  /\ At(t, "finish")
  /\ conn' = [conn EXCEPT ![th[t].c] = [th[t].rec EXCEPT !.status = "idle"]]
  /\ Goto(t, "release")
  /\ UNCHANGED <<site, pages, lock, library, life, counters>>

Release(t) ==
  /\ At(t, "release")
  /\ lock' = [lock EXCEPT ![th[t].c] = FALSE]
  /\ End(t)
  /\ UNCHANGED <<site, conn, pages, library, life, counters>>

-----------------------------------------------------------------------------
(* The world outside. *)

ChangeSite(u, x) ==
  /\ edits < MaxEdits /\ site[u] # x
  /\ site' = [site EXCEPT ![u] = x]
  /\ edits' = edits + 1
  /\ UNCHANGED <<redis, library, th, life, jobs, expiries, restarts>>

Holding == {"run", "pages", "crawl", "index", "own", "retire", "count", "drop",
            "finish", "fail", "release"}
Syncing(t, c) == th[t].op = "sync" /\ th[t].c = c /\ th[t].at \in Holding

\* A lock lives an hour, whether its sync is running or died.
Expire(c) ==
  /\ lock[c]
  /\ lock' = [lock EXCEPT ![c] = FALSE]
  /\ IF \E t \in Threads : Syncing(t, c)
     THEN expiries < MaxExpiries /\ expiries' = expiries + 1
     ELSE UNCHANGED expiries
  /\ UNCHANGED <<site, conn, pages, library, th, life, edits, jobs, restarts>>

\* The gateways stop; what the stores hold stays.
Restart ==
  /\ restarts < MaxRestarts /\ restarts' = restarts + 1
  /\ th' = [t \in Threads |-> NoThread]
  /\ UNCHANGED <<site, redis, library, life, edits, jobs, expiries>>

\* What a thread does once it is in a request, a tick or a sync.
Step(t) ==
  \/ Queue(t) \/ SaveEdit(t) \/ Erase(t) \/ TakeDue(t)
  \/ Get(t) \/ Acquire(t) \/ Run(t) \/ ReadPages(t)
  \/ Fetch(t) \/ Index(t) \/ Own(t) \/ CrawlEnds(t)
  \/ Disown(t) \/ CountOwners(t) \/ Drop(t)
  \/ ReplacePages(t) \/ Fail(t) \/ Finish(t) \/ Release(t)

Next ==
  \/ \E t \in Threads : Step(t) \/ Tick(t)
  \/ \E t \in Threads, c \in Connectors :
       Create(t, c) \/ Post(t, c) \/ Edit(t, c) \/ Delete(t, c)
  \/ \E u \in Urls, x \in NewContents : ChangeSite(u, x)
  \/ \E c \in Connectors : Expire(c)
  \/ Restart

Spec == Init /\ [][Next]_vars

\* Threads run and locks expire; nobody has to ask for anything.
FairSpec ==
  /\ Spec
  /\ \A t \in Threads : WF_vars(Step(t))
  /\ \A c \in Connectors : WF_vars(Expire(c))
-----------------------------------------------------------------------------
(* Properties. *)

\* Every variable keeps its type.
TypeOK ==
  /\ site \in [Urls -> Contents \cup {None}]
  /\ conn \in [Connectors -> Records \cup {None}]
  /\ pages \in [Connectors -> Pages]
  /\ lock \in [Connectors -> BOOLEAN]
  /\ own \subseteq Owners \X Docs /\ index \subseteq Docs
  /\ entry \in [Docs -> Connectors \cup {None}]
  /\ th \in [Threads -> Thread]
  /\ life \in [Connectors -> {"new", "live", "deleted"}]
  /\ edits \in 0..MaxEdits /\ jobs \in 0..MaxJobs
  /\ expiries \in 0..MaxExpiries /\ restarts \in 0..MaxRestarts

\* A thread works on a connector of this owner.
Working(o) ==
  \E t \in Threads : th[t].op \in {"sync", "delete"} /\ Owner[th[t].c] = o

Shown(c) == Range(pages[c]) \ {None}

\* No other page redirects to this one.
Sole(v) == \A u \in Urls : Lands[u] = v => u = v

\* The pages a connector shows after its sync are documents that its owner
\* has and that are indexed: the sync that found them unchanged, or took over
\* what another left, did not skip one that had gone.
PagesAreReadable ==
  \A c \in Connectors : ~Working(Owner[c]) =>
    \A d \in Shown(c) : <<Owner[c], d>> \in own /\ d \in index

\* What a user owns through connectors is what their connectors show: no
\* version that was replaced, and nothing of a deleted connector, is left.  Not so
\* of a page to which others redirect: when a crawl comes to it twice, the second
\* record takes the place of the first, whose document stays in the library.
LibraryFollowsPages ==
  \A o \in Owners : ~Working(o) =>
    \A d \in Docs : <<o, d>> \in own /\ Sole(d[1]) =>
      \E c \in Connectors : Owner[c] = o /\ d \in Shown(c)

\* A document that nobody owns leaves the index, unless a thread is about to
\* own it or to drop it: two owners that retire it together both count the
\* other, or one of them drops it.
UnownedIsDropped ==
  \A d \in index :
    \/ \E o \in Owners : <<o, d>> \in own
    \/ \E t \in Threads : th[t].doc = d /\ th[t].at \in {"own", "count", "drop"}

\* No lock expired under its sync, and the connector was not deleted.
Locked(c) == expiries = 0 /\ life[c] # "deleted"

\* The lock: one sync of a connector at a time, across threads and gateways,
\* even where they restart, unless it expires or goes with its connector.
OneSyncAtATime ==
  \A c \in Connectors : Locked(c) =>
    \A t1, t2 \in Threads : Syncing(t1, c) /\ Syncing(t2, c) => t1 = t2

\* A page that disappeared is retired "only after a complete crawl" (service.py): a
\* sync that retires a page without having asked for it has asked for every page that
\* it found, and found that one on none of them, however max_pages cut it, whichever
\* fetches failed and wherever they were redirected.
UnreachedIsKept ==
  \A t \in Threads : At(t, "retire") /\ th[t].op = "sync" =>
    \A d \in th[t].retired :
      d[1] \in th[t].done \/ (th[t].frontier = {} /\ d[1] \notin th[t].queued)

\* Every request, and every sync it starts, comes to an end.
ThreadsEnd == \A t \in Threads : ~At(t, "idle") ~> At(t, "idle")

-----------------------------------------------------------------------------
(* The inductive invariants behind the proofs. *)

\* What a thread has in hand at each point of its work.
Shape(r) ==
  /\ r.at = "idle" <=> r.op = "none"
  /\ r.at = "edit" <=> r.op = "edit"
  /\ r.op = "delete" => r.at \in {"retire", "count", "drop"}
  /\ r.op # "none" => r.c \in Connectors
  /\ r.op = "edit" \/ (r.op = "sync" /\ r.at # "get") => r.rec \in Records
  /\ r.at \in {"index", "own", "count", "drop"} => r.doc \in Docs

IInv == TypeOK /\ \A t \in Threads : Shape(th[t])

\* A sync in progress has its lock.
LockInv ==
  /\ \A t \in Threads, c \in Connectors : Locked(c) /\ Syncing(t, c) => lock[c]
  /\ OneSyncAtATime

\* A page's document is one of that page, where requests for it end.
Named(ps) == \A u \in Urls : ps[u] # None => ps[u][1] = u /\ Lands[u] = u

\* A crawl has new documents for pages it is done with, and for a page that is nobody's
\* redirect only once it was asked for; it is done with every page it asked for that
\* is not a redirect.
CrawlShape(r) ==
  /\ Named(r.old) /\ Named(r.new) /\ r.frontier \subseteq r.queued
  /\ r.op # "sync" \/ r.at \in {"queue", "get", "acquire", "run", "pages"} =>
       r.new = NoPages /\ r.done = {}
  /\ r.at \in {"crawl", "index", "own"} =>
       /\ \A u \in Urls : r.new[u] # None => u \in r.done
       /\ \A u \in r.done : Sole(u) => u \in r.queued \ r.frontier
       /\ \A u \in r.queued \ r.frontier : Lands[u] = u => u \in r.done
  /\ r.at \in {"index", "own"} =>
       /\ r.doc[1] \in r.done /\ r.new[r.doc[1]] = None
       /\ Lands[r.doc[1]] = r.doc[1]
  /\ r.at \in {"retire", "count", "drop"} /\ r.op = "sync" =>
       \A d \in r.retired : d[1] \in r.done \/ (r.frontier = {} /\ d[1] \notin r.queued)

CrawlInv ==
  /\ \A c \in Connectors : Named(pages[c])
  /\ \A t \in Threads : CrawlShape(th[t])

\* A thread has read a connector's pages and has not written them back.
Moving(t, c) ==
  /\ th[t].c = c /\ th[t].op \in {"sync", "delete"}
  /\ th[t].at \in {"crawl", "index", "own", "retire", "count", "drop"}

\* No sync or deletion of a connector runs into another between the two: what
\* the lock is for, which a deletion does not take and which may expire.
NoOverlap ==
  \A t1, t2 \in Threads, c \in Connectors : Moving(t1, c) /\ Moving(t2, c) => t1 = t2

\* No connector is being deleted.
NoDeletion == \A t \in Threads : th[t].op # "delete"

\* The documents a connector shows, or whose sync will show them or keep them.
Needed(c) ==
  {d \in Docs :
     \/ d \in Shown(c) /\ \A t \in Threads : ~Moving(t, c)
     \/ \E t \in Threads : Moving(t, c) /\
          \/ d \in Range(th[t].new)
          \/ th[t].at \in {"crawl", "index", "own"} /\ d \in Range(th[t].old)}

\* No connector retires a document that another one of its owner needs: what two
\* connectors of one site can do to each other.
NoSharedRetire ==
  \A t \in Threads, c1, c2 \in Connectors :
    c1 # c2 /\ Owner[c1] = Owner[c2] /\ Moving(t, c1) => th[t].retired \cap Needed(c2) = {}

\* No document leaves the index just before another thread owns it.
NoDropRace ==
  \A t1, t2 \in Threads :
    At(t1, "drop") /\ At(t2, "own") => th[t1].doc # th[t2].doc

\* A thread will show the document or retire it.
Holds(t, d) ==
  \/ /\ th[t].at \in {"crawl", "index", "own"}
     /\ d \in Range(th[t].old) \cup Range(th[t].new)
  \/ /\ th[t].at \in {"retire", "count", "drop"}
     /\ d \in Range(th[t].new) \cup th[t].retired

\* What a user owns is shown by a connector of theirs, or in its sync's hands.
LibraryInv ==
  \A o \in Owners, d \in Docs : <<o, d>> \in own /\ Sole(d[1]) =>
    \E c \in Connectors :
      /\ Owner[c] = o
      /\ \/ \E t \in Threads : Moving(t, c) /\ Holds(t, d)
         \/ d \in Shown(c) /\ \A t \in Threads : ~Moving(t, c)

Owned(c) == {d \in Docs : <<Owner[c], d>> \in own}

\* What a connector shows, or a sync of it is about to show, its owner has.
ShownInv ==
  /\ \A c \in Connectors :
       (\A t \in Threads : ~Moving(t, c)) => Shown(c) \subseteq Owned(c)
  /\ \A t \in Threads, c \in Connectors : Moving(t, c) =>
       /\ Range(th[t].new) \ {None} \subseteq Owned(c)
       /\ th[t].at \in {"crawl", "index", "own"} =>
            Range(th[t].old) \ {None} \subseteq Owned(c)
       /\ th[t].at \in {"retire", "count", "drop"} =>
            th[t].retired \cap Range(th[t].new) = {}

\* What anyone owns is indexed: nothing is dropped that somebody has or is
\* about to have.
IndexInv ==
  /\ \A o \in Owners, d \in Docs : <<o, d>> \in own => d \in index
  /\ \A t \in Threads : At(t, "own") => th[t].doc \in index
  /\ \A t \in Threads : At(t, "drop") => \A o \in Owners : <<o, th[t].doc>> \notin own
=============================================================================
