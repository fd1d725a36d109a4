------------------------------ MODULE Telemetry ------------------------------
(***************************************************************************)
(* Query telemetry: services/telemetry/tracker.py, as the chat pipeline    *)
(* and the metrics route of the gateway use it.                            *)
(*                                                                         *)
(* A query is recorded in the process's memory, under the tracker's lock,  *)
(* and then in Redis, without it.  The metrics view holds the lock for the *)
(* whole of its reading, and reads Redis where memory has nothing: the     *)
(* list of a session, or all that is kept when the view is unscoped.       *)
(***************************************************************************)
EXTENDS Naturals, Sequences, Functions

CONSTANTS
  Threads,     \* request threads of the gateway
  Sessions,    \* sessions (projects)
  Records,     \* queries
  SessionOf,   \* the session of a query
  Refused,     \* the queries that are refused; these are recorded in memory only
  MaxHistory,  \* length of the history in memory and of the lists in Redis
  MaxScope,    \* how many records of a session's list are read
  Admins,      \* whether admins, whose view is unscoped, ask for metrics
  Outages,     \* whether calls of Redis may fail
  MaxViews,    \* bound: metrics requests
  MaxRestarts, \* bound: restarts of the gateway
  None         \* no thread, no query

ASSUME TelemetryAssumption ==
  /\ SessionOf \in [Records -> Sessions]
  /\ Refused \subseteq Records
  /\ MaxHistory \in Nat \ {0} /\ MaxScope \in Nat
  /\ Admins \in BOOLEAN /\ Outages \in BOOLEAN
  /\ MaxViews \in Nat /\ MaxRestarts \in Nat
  /\ None \notin Threads \cup Records

VARIABLES
  history,  \* the records in memory, oldest first
  queries,  \* the number of queries in memory
  kept,     \* rag:telemetry:history in Redis, newest first
  total,    \* rag:telemetry:total_queries in Redis
  lists,    \* per session, its list in Redis, newest first
  mu,       \* the thread that holds the tracker's lock, or None
  th,       \* per thread, what it is doing
  used,     \* the queries that were asked
  views, restarts  \* counters, which only bound the model

vars == <<history, queries, kept, total, lists, mu, th, used, views, restarts>>
memory == <<history, queries>>
redis == <<kept, total, lists>>

Points == {"idle", "append", "push", "incr", "list", "enter", "scan", "lrange",
           "relock", "leave"}

\* left: the sessions of the view that are still to be read.
Thread == [at : Points, op : {"none", "record", "scoped", "all"},
           rec : Records \cup {None}, left : SUBSET Sessions]

NoThread == [at |-> "idle", op |-> "none", rec |-> None, left |-> {}]

Init ==
  /\ history = <<>> /\ queries = 0
  /\ kept = <<>> /\ total = 0 /\ lists = [s \in Sessions |-> <<>>]
  /\ mu = None /\ th = [t \in Threads |-> NoThread]
  /\ used = {} /\ views = 0 /\ restarts = 0

At(t, point) == th[t].at = point
Goto(t, point) == th' = [th EXCEPT ![t].at = point]
End(t) == th' = [th EXCEPT ![t] = NoThread]

\* What a deque of MaxHistory keeps of a sequence.
Newest(s) == IF Len(s) > MaxHistory
             THEN SubSeq(s, Len(s) - MaxHistory + 1, Len(s)) ELSE s

\* The first n of a list, as ltrim and lrange take them.
First(s, n) == SubSeq(s, 1, IF Len(s) < n THEN Len(s) ELSE n)

-----------------------------------------------------------------------------
(* record_query *)

\* Mutation of Record: Redis before memory.
RecordInRedis(t, r) ==
  /\ At(t, "idle") /\ r \notin used
  /\ used' = used \cup {r}
  /\ th' = [th EXCEPT ![t].at = "push", ![t].op = "record", ![t].rec = r]
  /\ UNCHANGED <<memory, redis, mu, views, restarts>>

Record(t, r) ==
  /\ At(t, "idle") /\ r \notin used
  /\ used' = used \cup {r}
  /\ th' = [th EXCEPT ![t].at = "append", ![t].op = "record", ![t].rec = r]
  /\ UNCHANGED <<memory, redis, mu, views, restarts>>

\* The lock is taken and given back.  A refusal names no Redis.
AppendRecord(t) ==
  /\ At(t, "append") /\ mu = None
  /\ history' = Newest(Append(history, th[t].rec))
  /\ queries' = queries + 1
  /\ IF th[t].rec \in Refused THEN End(t) ELSE Goto(t, "push")
  /\ UNCHANGED <<redis, mu, used, views, restarts>>

\* Any call of Redis may raise, which ends the recording.
Raises(t) == Outages /\ End(t)

PushHistory(t) ==
  /\ At(t, "push")
  /\ \/ kept' = First(<<th[t].rec>> \o kept, MaxHistory) /\ Goto(t, "incr")
     \/ Raises(t) /\ UNCHANGED kept
  /\ UNCHANGED <<memory, total, lists, mu, used, views, restarts>>

IncrTotal(t) ==
  /\ At(t, "incr")
  /\ \/ total' = total + 1 /\ Goto(t, "list")
     \/ Raises(t) /\ UNCHANGED total
  /\ UNCHANGED <<memory, kept, lists, mu, used, views, restarts>>

PushList(t) ==
  /\ At(t, "list") /\ End(t)
  /\ LET s == SessionOf[th[t].rec] IN
     \/ lists' = [lists EXCEPT ![s] = First(<<th[t].rec>> \o @, MaxHistory)]
     \/ Outages /\ UNCHANGED lists
  /\ UNCHANGED <<memory, kept, total, mu, used, views, restarts>>

-----------------------------------------------------------------------------
(* get_system_metrics *)

\* A view of some sessions, or an admin's of them all.
View(t, scope) ==
  /\ At(t, "idle") /\ views < MaxViews /\ views' = views + 1
  /\ \/ th' = [th EXCEPT ![t].at = "enter", ![t].op = "scoped", ![t].left = scope]
     \/ /\ Admins /\ scope = {}
        /\ th' = [th EXCEPT ![t].at = "enter", ![t].op = "all"]
  /\ UNCHANGED <<memory, redis, mu, used, restarts>>

Enter(t) ==
  /\ At(t, "enter") /\ mu = None
  /\ mu' = t
  /\ Goto(t, IF th[t].op = "scoped" THEN "scan"
             ELSE IF history = <<>> THEN "lrange" ELSE "leave")
  /\ UNCHANGED <<memory, redis, used, views, restarts>>

\* Mutation of InMemory: Redis is asked whatever memory has.
InMemoryNone(s) == FALSE

InMemory(s) == \E r \in Range(history) : SessionOf[r] = s

\* One session of the view: from memory, or hydrated from its list.
Scan(t) ==
  /\ At(t, "scan")
  /\ \E s \in th[t].left :
       /\ th' = [th EXCEPT ![t].left = @ \ {s}]
       /\ \/ /\ ~InMemory(s)
             /\ history' = Newest(history \o First(lists[s], MaxScope))
          \/ /\ InMemory(s) \/ Outages
             /\ UNCHANGED history
  /\ UNCHANGED <<queries, redis, mu, used, views, restarts>>

Scanned(t) ==
  /\ At(t, "scan") /\ th[t].left = {}
  /\ Goto(t, "leave")
  /\ UNCHANGED <<memory, redis, mu, used, views, restarts>>

\* _sync_with_redis: when Redis has records it takes the lock to copy them.
\* Its caller holds that lock, which is not reentrant: no step leaves "relock".
SyncWithRedis(t) ==
  /\ At(t, "lrange")
  /\ Goto(t, IF kept = <<>> THEN "leave" ELSE "relock")
  /\ UNCHANGED <<memory, redis, mu, used, views, restarts>>

\* The connection or the list fails: the view goes on with what memory has.
SyncFails(t) ==
  /\ At(t, "lrange") /\ Outages
  /\ Goto(t, "leave")
  /\ UNCHANGED <<memory, redis, mu, used, views, restarts>>

\* Mutation of Leave: an early return without the lock's release.
LeaveLocked(t) ==
  /\ At(t, "leave") /\ End(t)
  /\ UNCHANGED <<memory, redis, mu, used, views, restarts>>

Leave(t) ==
  /\ At(t, "leave") /\ End(t) /\ mu' = None
  /\ UNCHANGED <<memory, redis, used, views, restarts>>

-----------------------------------------------------------------------------

Restart ==
  /\ restarts < MaxRestarts /\ restarts' = restarts + 1
  /\ history' = <<>> /\ queries' = 0 /\ mu' = None
  /\ th' = [t \in Threads |-> NoThread]
  /\ UNCHANGED <<redis, used, views>>

Step(t) ==
  \/ AppendRecord(t) \/ PushHistory(t) \/ IncrTotal(t) \/ PushList(t)
  \/ Enter(t) \/ Scan(t) \/ Scanned(t) \/ SyncWithRedis(t) \/ SyncFails(t) \/ Leave(t)

Next ==
  \/ \E t \in Threads : \/ \E r \in Records : Record(t, r)
                        \/ \E scope \in SUBSET Sessions : View(t, scope)
                        \/ Step(t)
  \/ Restart

Spec == Init /\ [][Next]_vars

\* A thread that can go on does.
FairSpec == Spec /\ \A t \in Threads : WF_vars(Step(t))

-----------------------------------------------------------------------------
(* Properties *)

\* Every variable keeps its type, and the lists their bound.
TypeOK ==
  /\ history \in Seq(Records) /\ Len(history) <= MaxHistory
  /\ kept \in Seq(Records) /\ lists \in [Sessions -> Seq(Records)]
  /\ queries \in Nat /\ total \in Nat
  /\ mu \in Threads \cup {None} /\ th \in [Threads -> Thread]
  /\ used \subseteq Records /\ views \in Nat /\ restarts \in 0..MaxRestarts

\* A view waits for the lock that it holds (_sync_with_redis under the lock of
\* get_system_metrics) only in a gateway that was restarted and has had nothing
\* in memory since, while Redis has records from before: record_query puts a
\* query into memory before Redis, and nothing but a restart empties the memory.
OnlyForgottenBlocks == \A t \in Threads : At(t, "relock") =>
  restarts > 0 /\ history = <<>> /\ kept # <<>>

\* No query is counted twice in a view's averages, wherever its records
\* come from: _session_records goes to Redis only for sessions it has not got.
NoRecordTwice ==
  \A i, j \in DOMAIN history : history[i] = history[j] => i = j

\* Until the gateway restarts, every recording and every view comes to its end.
FreshCallsEnd ==
  [](restarts = 0) => \A t \in Threads : ~At(t, "idle") ~> At(t, "idle")

-----------------------------------------------------------------------------
(* The inductive invariant *)

\* A query that is being recorded is one.
RecInv == \A t \in Threads :
  th[t].at \in {"append", "push", "incr", "list"} => th[t].rec \in Records

\* A view holds the lock from the moment it has it until it leaves.
LockInv == \A t \in Threads :
  th[t].at \in {"scan", "lrange", "relock", "leave"} => mu = t

\* The history that a view found empty stays empty while it holds the lock, and
\* the list in Redis that it found records in keeps some.
SyncInv == \A t \in Threads :
  /\ th[t].at \in {"lrange", "relock"} => history = <<>>
  /\ At(t, "relock") => kept # <<>>

\* Before the first restart, Redis has nothing that memory has not had.
FreshInv == restarts = 0 =>
  /\ history = <<>> =>
       /\ kept = <<>> /\ \A s \in Sessions : lists[s] = <<>>
       /\ \A t \in Threads : th[t].at \notin {"push", "incr", "list"}
  /\ \A t \in Threads : ~At(t, "relock")

Recording(t) == th[t].at \in {"append", "push", "incr", "list"}

\* The history and every list hold queries that were asked, each once; a list
\* those of its session.
SourceInv ==
  /\ IsInjective(history) /\ Range(history) \subseteq used
  /\ \A s \in Sessions :
       /\ IsInjective(lists[s])
       /\ \A r \in Range(lists[s]) : r \in used /\ SessionOf[r] = s

\* A query that is being recorded was asked, is recorded by one thread, is in
\* no list yet, and in the history only after it was appended.
PendingInv == \A t \in Threads : Recording(t) =>
  /\ th[t].rec \in used
  /\ \A s \in Sessions : th[t].rec \notin Range(lists[s])
  /\ At(t, "append") => th[t].rec \notin Range(history)
  /\ \A u \in Threads : Recording(u) /\ th[u].rec = th[t].rec => u = t

\* Together with the types: what holds initially and every step preserves.
IInv == TypeOK /\ RecInv /\ LockInv /\ SyncInv /\ FreshInv /\ SourceInv /\ PendingInv
=============================================================================
