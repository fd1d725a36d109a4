--------------------------- MODULE TelemetryProofs ---------------------------
(***************************************************************************)
(* Theorems of Telemetry: types, that a gateway that has not restarted     *)
(* never waits for the tracker's lock that it holds, and that no view      *)
(* counts a query twice.                                                   *)
(***************************************************************************)
EXTENDS Telemetry, TLAPS

\* The deque keeps a sequence of records, within its bound, and is empty only
\* where there was nothing to keep.
LEMMA NewestType ==
  ASSUME NEW s \in Seq(Records)
  PROVE  /\ Newest(s) \in Seq(Records)
         /\ Len(Newest(s)) <= MaxHistory
         /\ Newest(s) = <<>> => s = <<>>
<1>1. MaxHistory \in Nat /\ MaxHistory > 0
  BY TelemetryAssumption
<1>2. CASE Len(s) > MaxHistory
  <2>1. Newest(s) = SubSeq(s, Len(s) - MaxHistory + 1, Len(s))
    BY <1>2 DEF Newest
  <2>2. Newest(s) \in Seq(Records) /\ Len(Newest(s)) = MaxHistory
    BY <1>1, <1>2, <2>1
  <2> QED BY <1>1, <2>2
<1>3. CASE ~(Len(s) > MaxHistory)
  BY <1>1, <1>3 DEF Newest
<1> QED BY <1>2, <1>3

\* What ltrim and lrange keep of a list is a list, empty for an empty one.
LEMMA FirstType ==
  ASSUME NEW s \in Seq(Records), NEW n \in Nat
  PROVE  First(s, n) \in Seq(Records) /\ (s = <<>> => First(s, n) = <<>>)
<1> DEFINE m == IF Len(s) < n THEN Len(s) ELSE n
<1>1. m \in Nat /\ m <= Len(s)
  OBVIOUS
<1>2. First(s, n) = SubSeq(s, 1, m)
  BY DEF First
<1> HIDE DEF m
<1>3. First(s, n) \in Seq(Records) /\ Len(First(s, n)) = m
  BY <1>1, <1>2
<1>4. s = <<>> => m = 0
  BY <1>1
<1> QED BY <1>3, <1>4

-----------------------------------------------------------------------------
(* Types *)

LEMMA TypeInit == Init => TypeOK
BY TelemetryAssumption DEF Init, TypeOK, Thread, NoThread, Points

\* A thread that begins or ends something, or goes on to another point.
LEMMA GotoType ==
  ASSUME TypeOK, NEW t \in Threads, NEW point \in Points, Goto(t, point)
  PROVE  th' \in [Threads -> Thread]
BY DEF TypeOK, Goto, Thread

LEMMA EndType ==
  ASSUME TypeOK, NEW t \in Threads, End(t)
  PROVE  th' \in [Threads -> Thread]
BY DEF TypeOK, End, Thread, NoThread, Points

LEMMA TypeStep == TypeOK /\ RecInv /\ [Next]_vars => TypeOK'
<1> SUFFICES ASSUME TypeOK, RecInv, [Next]_vars PROVE TypeOK'
  OBVIOUS
<1> USE DEF memory, redis
<1>ty. /\ history \in Seq(Records) /\ Len(history) <= MaxHistory
       /\ kept \in Seq(Records) /\ lists \in [Sessions -> Seq(Records)]
       /\ queries \in Nat /\ total \in Nat
       /\ mu \in Threads \cup {None} /\ th \in [Threads -> Thread]
       /\ used \subseteq Records /\ views \in Nat /\ restarts \in 0..MaxRestarts
  BY DEF TypeOK
<1>as. /\ MaxHistory \in Nat /\ MaxScope \in Nat /\ MaxRestarts \in Nat
       /\ SessionOf \in [Records -> Sessions]
  BY TelemetryAssumption
<1>1. ASSUME NEW t \in Threads, NEW r \in Records, Record(t, r) PROVE TypeOK'
  <2> DEFINE x == [th[t] EXCEPT !.at = "append", !.op = "record", !.rec = r]
  <2>1. x \in Thread
    BY <1>ty DEF Thread, Points
  <2>2. th' = [th EXCEPT ![t] = x]
    BY <1>1 DEF Record
  <2> HIDE DEF x
  <2>3. th' \in [Threads -> Thread]
    BY <1>ty, <2>1, <2>2
  <2> QED BY <1>1, <1>ty, <2>3 DEF Record, TypeOK
<1>2. ASSUME NEW t \in Threads, NEW scope \in SUBSET Sessions, View(t, scope)
      PROVE  TypeOK'
  <2> DEFINE x == [th[t] EXCEPT !.at = "enter", !.op = "scoped", !.left = scope]
             y == [th[t] EXCEPT !.at = "enter", !.op = "all"]
  <2>1. x \in Thread
    BY <1>ty DEF Thread, Points
  <2>2. y \in Thread
    BY <1>ty DEF Thread, Points
  <2>3. th' = [th EXCEPT ![t] = x] \/ th' = [th EXCEPT ![t] = y]
    BY <1>2 DEF View
  <2> HIDE DEF x, y
  <2>4. th' \in [Threads -> Thread]
    BY <1>ty, <2>1, <2>2, <2>3
  <2>5. views' \in Nat
    BY <1>2, <1>ty DEF View
  <2> QED BY <1>2, <1>ty, <2>4, <2>5 DEF View, TypeOK
<1>3. ASSUME NEW t \in Threads, AppendRecord(t) PROVE TypeOK'
  <2>0. th[t].rec \in Records
    BY <1>3 DEF RecInv, AppendRecord, At
  <2>1. th' \in [Threads -> Thread]
    BY <1>3, GotoType, EndType DEF AppendRecord, Points
  <2>2. Append(history, th[t].rec) \in Seq(Records)
    BY <1>ty, <2>0
  <2>3. history' \in Seq(Records) /\ Len(history') <= MaxHistory
    BY <1>3, <2>2, NewestType DEF AppendRecord
  <2> QED BY <1>3, <1>ty, <2>1, <2>3 DEF AppendRecord, TypeOK
<1>4. ASSUME NEW t \in Threads, PushHistory(t) PROVE TypeOK'
  <2>0. th[t].rec \in Records
    BY <1>4 DEF RecInv, PushHistory, At
  <2>1. th' \in [Threads -> Thread]
    BY <1>4, GotoType, EndType DEF PushHistory, Raises, Points
  <2>2. <<th[t].rec>> \o kept \in Seq(Records)
    BY <1>ty, <2>0
  <2>3. kept' \in Seq(Records)
    BY <1>4, <1>ty, <1>as, <2>2, FirstType DEF PushHistory
  <2> QED BY <1>4, <1>ty, <2>1, <2>3 DEF PushHistory, TypeOK
<1>5. ASSUME NEW t \in Threads, IncrTotal(t) PROVE TypeOK'
  <2>1. th' \in [Threads -> Thread]
    BY <1>5, GotoType, EndType DEF IncrTotal, Raises, Points
  <2>2. total' \in Nat
    BY <1>5, <1>ty DEF IncrTotal
  <2> QED BY <1>5, <1>ty, <2>1, <2>2 DEF IncrTotal, TypeOK
<1>6. ASSUME NEW t \in Threads, PushList(t) PROVE TypeOK'
  <2>0. th[t].rec \in Records
    BY <1>6 DEF RecInv, PushList, At
  <2>1. th' \in [Threads -> Thread]
    BY <1>6, EndType DEF PushList
  <2> DEFINE s == SessionOf[th[t].rec]
             longer == <<th[t].rec>> \o lists[s]
  <2>2. longer \in Seq(Records)
    BY <1>ty, <1>as, <2>0
  <2>3. First(longer, MaxHistory) \in Seq(Records)
    BY <2>2, <1>as, FirstType
  <2>4. \/ lists' = [lists EXCEPT ![s] = First(longer, MaxHistory)]
        \/ lists' = lists
    BY <1>6 DEF PushList
  <2> HIDE DEF longer, s
  <2>5. lists' \in [Sessions -> Seq(Records)]
    BY <1>ty, <2>3, <2>4
  <2> QED BY <1>6, <1>ty, <2>1, <2>5 DEF PushList, TypeOK
<1>7. ASSUME NEW t \in Threads, Enter(t) PROVE TypeOK'
  <2>1. \E point \in Points : Goto(t, point)
    BY <1>7 DEF Enter, Points
  <2>2. th' \in [Threads -> Thread]
    BY <2>1, GotoType
  <2> QED BY <1>7, <1>ty, <2>2 DEF Enter, TypeOK
<1>8. ASSUME NEW t \in Threads, Scan(t) PROVE TypeOK'
  <2>1. PICK s \in th[t].left :
          /\ th' = [th EXCEPT ![t].left = @ \ {s}]
          /\ \/ history' = Newest(history \o First(lists[s], MaxScope))
             \/ UNCHANGED history
    BY <1>8 DEF Scan
  <2>2. s \in Sessions /\ th[t].left \ {s} \in SUBSET Sessions
    BY <1>ty DEF Thread
  <2>3. th' \in [Threads -> Thread]
    BY <1>ty, <2>1, <2>2 DEF Thread
  <2>4. First(lists[s], MaxScope) \in Seq(Records)
    BY <1>ty, <1>as, <2>2, FirstType
  <2>5. history \o First(lists[s], MaxScope) \in Seq(Records)
    BY <1>ty, <2>4
  <2> DEFINE longer == history \o First(lists[s], MaxScope)
  <2>6. history' = Newest(longer) \/ history' = history
    BY <2>1
  <2>7. longer \in Seq(Records)
    BY <2>5
  <2> HIDE DEF longer
  <2>8. history' \in Seq(Records) /\ Len(history') <= MaxHistory
    BY <1>ty, <2>6, <2>7, NewestType
  <2> QED BY <1>8, <1>ty, <2>3, <2>8 DEF Scan, TypeOK
<1>9. ASSUME NEW t \in Threads, Scanned(t) \/ SyncFails(t) PROVE TypeOK'
  <2>1. th' \in [Threads -> Thread]
    BY <1>9, GotoType DEF Scanned, SyncFails, Points
  <2> QED BY <1>9, <1>ty, <2>1 DEF Scanned, SyncFails, TypeOK
<1>10. ASSUME NEW t \in Threads, SyncWithRedis(t) PROVE TypeOK'
  <2>1. \E point \in Points : Goto(t, point)
    BY <1>10 DEF SyncWithRedis, Points
  <2>2. th' \in [Threads -> Thread]
    BY <2>1, GotoType
  <2> QED BY <1>10, <1>ty, <2>2 DEF SyncWithRedis, TypeOK
<1>11. ASSUME NEW t \in Threads, Leave(t) PROVE TypeOK'
  <2>1. th' \in [Threads -> Thread]
    BY <1>11, EndType DEF Leave
  <2> QED BY <1>11, <1>ty, <2>1 DEF Leave, TypeOK
<1>12. CASE Restart
  <2>1. th' \in [Threads -> Thread]
    BY <1>12 DEF Restart, Thread, NoThread, Points
  <2> QED BY <1>12, <1>ty, <1>as, <2>1 DEF Restart, TypeOK
<1>13. CASE UNCHANGED vars
  BY <1>13 DEF vars, TypeOK
<1> QED
  BY <1>1, <1>2, <1>3, <1>4, <1>5, <1>6, <1>7, <1>8, <1>9, <1>10, <1>11, <1>12, <1>13
  DEF Next, Step

-----------------------------------------------------------------------------
(* The lock and the history *)

\* A step of one thread leaves what the others are doing alone.
LEMMA OthersKeep ==
  ASSUME TypeOK, NEW t \in Threads,
         \/ \E r \in Records : Record(t, r)
         \/ \E scope \in SUBSET Sessions : View(t, scope)
         \/ Step(t)
  PROVE  \A s \in Threads : s # t => th'[s] = th[s]
<1>ty. th \in [Threads -> Thread]
  BY DEF TypeOK
<1>1. CASE \/ \E r \in Records : Record(t, r)
           \/ \E scope \in SUBSET Sessions : View(t, scope)
  BY <1>1, <1>ty DEF Record, View
<1>2. CASE Step(t)
  BY <1>2, <1>ty DEF Step, AppendRecord, PushHistory, IncrTotal, PushList, Enter, Scan,
              Scanned, SyncWithRedis, SyncFails, Leave, Raises, Goto, End
<1> QED BY <1>1, <1>2

\* Where a thread is after a step, and what of the shared state moved.
LEMMA PointsStep ==
  ASSUME TypeOK, NEW t \in Threads
  PROVE  /\ \A r \in Records : Record(t, r) =>
              th'[t].at = "append" /\ th'[t].rec = r /\ UNCHANGED <<memory, redis, mu>>
         /\ \A scope \in SUBSET Sessions : View(t, scope) =>
              th'[t].at = "enter" /\ UNCHANGED <<memory, redis, mu>>
         /\ AppendRecord(t) => th'[t].at \in {"idle", "push"} /\ UNCHANGED <<redis, mu>>
                               /\ mu = None /\ th'[t].rec \in {None, th[t].rec}
         /\ PushHistory(t) \/ IncrTotal(t) \/ PushList(t) =>
              /\ th[t].at \in {"push", "incr", "list"}
              /\ th'[t].at \in {"idle", "incr", "list"} /\ UNCHANGED <<memory, mu>>
              /\ th'[t].at # "idle" => th'[t].rec = th[t].rec
<1>ty. th \in [Threads -> Thread]
  BY DEF TypeOK
<1>g. ASSUME NEW point \in Points, Goto(t, point)
      PROVE  th'[t].at = point /\ th'[t].rec = th[t].rec
  BY <1>ty, <1>g DEF Goto, Thread
<1>e. End(t) => th'[t].at = "idle" /\ th'[t].rec = None
  BY <1>ty DEF End, NoThread
<1>pt. {"push", "incr", "list"} \subseteq Points
  BY DEF Points
<1>1. ASSUME NEW r \in Records, Record(t, r)
      PROVE  th'[t].at = "append" /\ th'[t].rec = r /\ UNCHANGED <<memory, redis, mu>>
  <2>1. th' = [th EXCEPT ![t] = [th[t] EXCEPT !.at = "append", !.op = "record", !.rec = r]]
    BY <1>1 DEF Record
  <2>2. th[t] \in Thread
    BY <1>ty
  <2>3. th'[t] = [th[t] EXCEPT !.at = "append", !.op = "record", !.rec = r]
    BY <1>ty, <2>1
  <2>4. th'[t].at = "append" /\ th'[t].rec = r
    BY <2>2, <2>3 DEF Thread
  <2> QED BY <1>1, <2>4 DEF Record
<1>2. ASSUME NEW scope \in SUBSET Sessions, View(t, scope)
      PROVE  th'[t].at = "enter" /\ UNCHANGED <<memory, redis, mu>>
  <2>1. \/ th' = [th EXCEPT ![t] = [th[t] EXCEPT !.at = "enter", !.op = "scoped", !.left = scope]]
        \/ th' = [th EXCEPT ![t] = [th[t] EXCEPT !.at = "enter", !.op = "all"]]
    BY <1>2 DEF View
  <2>2. th[t] \in Thread
    BY <1>ty
  <2>3. \/ th'[t] = [th[t] EXCEPT !.at = "enter", !.op = "scoped", !.left = scope]
        \/ th'[t] = [th[t] EXCEPT !.at = "enter", !.op = "all"]
    BY <1>ty, <2>1
  <2>4. th'[t].at = "enter"
    BY <2>2, <2>3 DEF Thread
  <2> QED BY <1>2, <2>4 DEF View
<1>3. AppendRecord(t) => th'[t].at \in {"idle", "push"} /\ UNCHANGED <<redis, mu>>
                         /\ mu = None /\ th'[t].rec \in {None, th[t].rec}
  BY <1>g, <1>e, <1>pt DEF AppendRecord
<1>4. PushHistory(t) \/ IncrTotal(t) \/ PushList(t) =>
        /\ th[t].at \in {"push", "incr", "list"}
        /\ th'[t].at \in {"idle", "incr", "list"} /\ UNCHANGED <<memory, mu>>
        /\ th'[t].at # "idle" => th'[t].rec = th[t].rec
  BY <1>g, <1>e, <1>pt DEF PushHistory, IncrTotal, PushList, Raises, At
<1> QED BY <1>1, <1>2, <1>3, <1>4

LEMMA RecStep == TypeOK /\ RecInv /\ [Next]_vars => RecInv'
<1> SUFFICES ASSUME TypeOK, RecInv, [Next]_vars, NEW s \in Threads,
                    th'[s].at \in {"append", "push", "incr", "list"}
             PROVE  th'[s].rec \in Records
  BY DEF RecInv
<1>ty. th \in [Threads -> Thread]
  BY DEF TypeOK
<1>1. ASSUME NEW t \in Threads, s # t,
             \/ \E r \in Records : Record(t, r)
             \/ \E scope \in SUBSET Sessions : View(t, scope)
             \/ Step(t)
      PROVE  th'[s].rec \in Records
  BY <1>1, OthersKeep DEF RecInv
<1>2. ASSUME NEW r \in Records, Record(s, r) PROVE th'[s].rec \in Records
  BY <1>2, PointsStep
<1>3. ASSUME NEW scope \in SUBSET Sessions, View(s, scope) PROVE th'[s].rec \in Records
  BY <1>3, PointsStep
<1>4. CASE Step(s)
  <2>1. CASE AppendRecord(s)
    <3>1. th[s].rec \in Records
      BY <2>1 DEF AppendRecord, At, RecInv
    <3>2. th'[s].at = "push" => Goto(s, "push")
      BY <2>1, <1>ty DEF AppendRecord, End, NoThread
    <3>3. Goto(s, "push") => th'[s].rec = th[s].rec
      BY <1>ty DEF Goto, Thread
    <3> QED BY <2>1, <3>1, <3>2, <3>3, PointsStep
  <2>2. CASE PushHistory(s) \/ IncrTotal(s) \/ PushList(s)
    BY <2>2, PointsStep DEF RecInv
  <2>3. CASE Enter(s) \/ Scanned(s) \/ SyncWithRedis(s) \/ SyncFails(s) \/ Leave(s)
    <3>1. th'[s].at \notin {"append", "push", "incr", "list"}
      BY <2>3, <1>ty DEF Enter, Scanned, SyncWithRedis, SyncFails, Leave, Goto, End,
                         NoThread, Thread
    <3> QED BY <3>1
  <2>4. CASE Scan(s)
    <3>1. th'[s].at = "scan"
      BY <2>4, <1>ty DEF Scan, At, Thread
    <3> QED BY <3>1
  <2> QED BY <1>4, <2>1, <2>2, <2>3, <2>4 DEF Step
<1>5. CASE Restart
  BY <1>5 DEF Restart, NoThread
<1>6. CASE UNCHANGED vars
  BY <1>6 DEF vars, RecInv
<1> QED BY <1>1, <1>2, <1>3, <1>4, <1>5, <1>6 DEF Next

\* What the steps of a view do to its point and to the lock.
LEMMA ViewStep ==
  ASSUME TypeOK, NEW t \in Threads
  PROVE  /\ Enter(t) => /\ mu = None /\ mu' = t /\ UNCHANGED <<memory, redis>>
                        /\ th'[t].at \in {"scan", "lrange", "leave"}
                        /\ th'[t].at = "lrange" => history = <<>>
         /\ Scan(t) => th[t].at = "scan" /\ th'[t].at = "scan" /\ UNCHANGED <<mu, redis>>
         /\ Scanned(t) \/ SyncFails(t) =>
              /\ th[t].at \in {"scan", "lrange"} /\ th'[t].at = "leave"
              /\ UNCHANGED <<memory, redis, mu>>
         /\ SyncWithRedis(t) =>
              /\ th[t].at = "lrange" /\ th'[t].at \in {"leave", "relock"}
              /\ th'[t].at = "relock" => kept # <<>>
              /\ UNCHANGED <<memory, redis, mu>>
         /\ Leave(t) => /\ th[t].at = "leave" /\ th'[t].at = "idle"
                        /\ UNCHANGED <<memory, redis>>
<1>ty. th \in [Threads -> Thread]
  BY DEF TypeOK
<1>g. ASSUME NEW point \in Points, Goto(t, point) PROVE th'[t].at = point
  BY <1>ty, <1>g DEF Goto, Thread
<1>pt. {"scan", "lrange", "leave", "relock"} \subseteq Points
  BY DEF Points
<1>1. Enter(t) => /\ mu = None /\ mu' = t /\ UNCHANGED <<memory, redis>>
                  /\ th'[t].at \in {"scan", "lrange", "leave"}
                  /\ th'[t].at = "lrange" => history = <<>>
  BY <1>g, <1>pt DEF Enter
<1>2. Scan(t) => th[t].at = "scan" /\ th'[t].at = "scan" /\ UNCHANGED <<mu, redis>>
  BY <1>ty DEF Scan, At, Thread
<1>3. Scanned(t) \/ SyncFails(t) =>
        /\ th[t].at \in {"scan", "lrange"} /\ th'[t].at = "leave"
        /\ UNCHANGED <<memory, redis, mu>>
  BY <1>g, <1>pt DEF Scanned, SyncFails, At
<1>4. SyncWithRedis(t) =>
        /\ th[t].at = "lrange" /\ th'[t].at \in {"leave", "relock"}
        /\ th'[t].at = "relock" => kept # <<>>
        /\ UNCHANGED <<memory, redis, mu>>
  BY <1>g, <1>pt DEF SyncWithRedis, At
<1>5. Leave(t) => /\ th[t].at = "leave" /\ th'[t].at = "idle"
                  /\ UNCHANGED <<memory, redis>>
  BY <1>ty DEF Leave, At, End, NoThread
<1> QED BY <1>1, <1>2, <1>3, <1>4, <1>5

LEMMA LockStep == TypeOK /\ LockInv /\ [Next]_vars => LockInv'
<1> DEFINE Held == {"scan", "lrange", "relock", "leave"}
<1> SUFFICES ASSUME TypeOK, LockInv, [Next]_vars, NEW s \in Threads, th'[s].at \in Held
             PROVE  mu' = s
  BY DEF LockInv
<1>no. None \notin Threads
  BY TelemetryAssumption
<1>1. ASSUME NEW t \in Threads, s # t,
             \/ \E r \in Records : Record(t, r)
             \/ \E scope \in SUBSET Sessions : View(t, scope)
             \/ Step(t)
      PROVE  mu' = s
  <2>1. th'[s] = th[s]
    BY <1>1, OthersKeep
  <2>2. mu = s
    BY <2>1 DEF LockInv
  <2>3. UNCHANGED mu
    <3>1. ~Enter(t)
      BY <2>2, <1>no, ViewStep
    <3>2. ~Leave(t)
      BY <1>1, <2>2, ViewStep DEF LockInv
    <3> QED BY <1>1, <3>1, <3>2, PointsStep, ViewStep DEF Step
  <2> QED BY <2>2, <2>3
<1>2. ASSUME \/ \E r \in Records : Record(s, r)
             \/ \E scope \in SUBSET Sessions : View(s, scope)
      PROVE  FALSE
  BY <1>2, PointsStep
<1>3. CASE Step(s)
  <2>1. CASE AppendRecord(s) \/ PushHistory(s) \/ IncrTotal(s) \/ PushList(s) \/ Leave(s)
    BY <2>1, PointsStep, ViewStep
  <2>2. CASE Enter(s)
    BY <2>2, ViewStep
  <2>3. CASE Scan(s) \/ Scanned(s) \/ SyncFails(s) \/ SyncWithRedis(s)
    <3>1. th[s].at \in Held /\ mu' = mu
      BY <2>3, ViewStep
    <3> QED BY <3>1 DEF LockInv
  <2> QED BY <1>3, <2>1, <2>2, <2>3 DEF Step
<1>4. CASE Restart
  BY <1>4 DEF Restart, NoThread
<1>5. CASE UNCHANGED vars
  BY <1>5 DEF vars, LockInv
<1> QED BY <1>1, <1>2, <1>3, <1>4, <1>5 DEF Next

\* Only recording and reading a session's list touch the history; neither
\* empties it.
LEMMA HistoryStep ==
  ASSUME TypeOK, RecInv, NEW t \in Threads
  PROVE  /\ AppendRecord(t) => history' # <<>>
         /\ Scan(t) => /\ history' = <<>> => history = <<>>
<1>ty. history \in Seq(Records) /\ lists \in [Sessions -> Seq(Records)]
       /\ th \in [Threads -> Thread]
  BY DEF TypeOK
<1>as. MaxScope \in Nat
  BY TelemetryAssumption
<1>1. ASSUME AppendRecord(t) PROVE history' # <<>>
  <2>1. th[t].rec \in Records
    BY <1>1 DEF AppendRecord, At, RecInv
  <2> DEFINE longer == Append(history, th[t].rec)
  <2>2. longer \in Seq(Records) /\ longer # <<>>
    BY <1>ty, <2>1
  <2>3. history' = Newest(longer)
    BY <1>1 DEF AppendRecord
  <2> HIDE DEF longer
  <2> QED BY <2>2, <2>3, NewestType
<1>2. ASSUME Scan(t), history' = <<>> PROVE history = <<>>
  <2>1. PICK s \in th[t].left :
          \/ history' = Newest(history \o First(lists[s], MaxScope))
          \/ UNCHANGED history
    BY <1>2 DEF Scan
  <2>2. First(lists[s], MaxScope) \in Seq(Records)
    BY <1>ty, <1>as, FirstType DEF Thread
  <2> DEFINE longer == history \o First(lists[s], MaxScope)
  <2>3. longer \in Seq(Records) /\ (longer = <<>> => history = <<>>)
    BY <1>ty, <2>2
  <2>4. history' = Newest(longer) \/ UNCHANGED history
    BY <2>1
  <2> HIDE DEF longer
  <2> QED BY <1>2, <2>3, <2>4, NewestType
<1> QED BY <1>1, <1>2

LEMMA SyncStep == TypeOK /\ RecInv /\ LockInv /\ SyncInv /\ [Next]_vars => SyncInv'
<1> SUFFICES ASSUME TypeOK, RecInv, LockInv, SyncInv, [Next]_vars,
                    NEW s \in Threads, th'[s].at \in {"lrange", "relock"}
             PROVE  history' = <<>> /\ (th'[s].at = "relock" => kept' # <<>>)
  BY DEF SyncInv, At
<1> USE DEF memory
<1>no. None \notin Threads
  BY TelemetryAssumption
<1>mh. MaxHistory \in Nat \ {0}
  BY TelemetryAssumption
<1>ty. kept \in Seq(Records)
  BY DEF TypeOK
<1>1. ASSUME NEW t \in Threads, s # t,
             \/ \E r \in Records : Record(t, r)
             \/ \E scope \in SUBSET Sessions : View(t, scope)
             \/ Step(t)
      PROVE  history' = <<>> /\ (th'[s].at = "relock" => kept' # <<>>)
  <2>1. th[s].at \in {"lrange", "relock"} /\ th'[s] = th[s]
    BY <1>1, OthersKeep
  <2>2. /\ history = <<>> /\ mu = s
        /\ th[s].at = "relock" => kept # <<>>
    BY <2>1 DEF SyncInv, LockInv, At
  <2>3. ~AppendRecord(t)
    BY <2>2, <1>no, PointsStep
  <2>4. ~Scan(t)
    BY <1>1, <2>2, ViewStep DEF LockInv
  <2>5. history' = <<>>
    BY <1>1, <2>2, <2>3, <2>4, PointsStep, ViewStep DEF Step
  <2>6. kept # <<>> => kept' # <<>>
    <3>1. ASSUME PushHistory(t) PROVE kept # <<>> => kept' # <<>>
      <4>1. th[t].rec \in Records /\ kept \in Seq(Records)
        BY <1>ty, <3>1 DEF PushHistory, At, RecInv
      <4> DEFINE longer == <<th[t].rec>> \o kept
      <4>2. longer \in Seq(Records) /\ longer # <<>>
        BY <4>1
      <4>3. kept' = First(longer, MaxHistory) \/ UNCHANGED kept
        BY <3>1 DEF PushHistory
      <4> HIDE DEF longer
      <4>4. First(longer, MaxHistory) # <<>>
        <5> DEFINE m == IF Len(longer) < MaxHistory THEN Len(longer) ELSE MaxHistory
        <5>1. Len(longer) \in Nat \ {0}
          BY <4>2
        <5>2. m \in Nat \ {0} /\ m <= Len(longer)
          BY <5>1, <1>mh
        <5>3. First(longer, MaxHistory) = SubSeq(longer, 1, m)
          BY DEF First
        <5> HIDE DEF m
        <5>4. Len(SubSeq(longer, 1, m)) = m
          BY <4>2, <5>2
        <5> QED BY <5>2, <5>3, <5>4
      <4> QED BY <4>3, <4>4
    <3>2. ASSUME ~PushHistory(t) PROVE UNCHANGED kept
      BY <1>1, <3>2 DEF redis, Step, Record, View, AppendRecord, IncrTotal, PushList,
                        Enter, Scan, Scanned, SyncWithRedis, SyncFails, Leave
    <3> QED BY <3>1, <3>2
  <2> QED BY <2>1, <2>2, <2>5, <2>6
<1>2. ASSUME \/ \E r \in Records : Record(s, r)
             \/ \E scope \in SUBSET Sessions : View(s, scope)
      PROVE  FALSE
  BY <1>2, PointsStep
<1>3. CASE Step(s)
  <2>1. CASE Enter(s)
    BY <2>1, ViewStep
  <2>2. CASE SyncWithRedis(s)
    <3>1. /\ th[s].at = "lrange" /\ UNCHANGED <<memory, redis>>
          /\ th'[s].at = "relock" => kept # <<>>
      BY <2>2, ViewStep
    <3>2. history = <<>>
      BY <3>1 DEF SyncInv
    <3> QED BY <3>1, <3>2 DEF redis
  <2>3. ~(AppendRecord(s) \/ PushHistory(s) \/ IncrTotal(s) \/ PushList(s))
    BY PointsStep
  <2>4. ~(Scan(s) \/ Scanned(s) \/ SyncFails(s) \/ Leave(s))
    BY ViewStep
  <2> QED BY <1>3, <2>1, <2>2, <2>3, <2>4 DEF Step
<1>4. CASE Restart
  BY <1>4 DEF Restart, NoThread
<1>5. CASE UNCHANGED vars
  BY <1>5 DEF vars, SyncInv, At
<1> QED BY <1>1, <1>2, <1>3, <1>4, <1>5 DEF Next

LEMMA FreshStep == IInv /\ [Next]_vars => FreshInv'
<1> SUFFICES ASSUME IInv, [Next]_vars, restarts' = 0 PROVE FreshInv'
  BY DEF FreshInv
<1> USE DEF memory, redis
<1>in. TypeOK /\ RecInv /\ LockInv /\ SyncInv /\ FreshInv
  BY DEF IInv
<1>na. restarts \in Nat
  BY <1>in, TelemetryAssumption DEF TypeOK
<1>no. ~Restart
  BY <1>na DEF Restart
<1>1. CASE UNCHANGED vars
  BY <1>1, <1>in DEF vars, FreshInv, At
<1>2. ASSUME NEW t \in Threads,
             \/ \E r \in Records : Record(t, r)
             \/ \E scope \in SUBSET Sessions : View(t, scope)
             \/ Step(t)
      PROVE  FreshInv'
  <2>0. restarts = 0
    BY <1>2 DEF Record, View, Step, AppendRecord, PushHistory, IncrTotal, PushList,
                Enter, Scan, Scanned, SyncWithRedis, SyncFails, Leave
  <2>1. \A s \in Threads : s # t => th'[s] = th[s]
    BY <1>in, <1>2, OthersKeep
  <2>2. history' = <<>> => history = <<>> /\ ~AppendRecord(t)
    <3>1. AppendRecord(t) => history' # <<>>
      BY <1>in, HistoryStep
    <3>2. Scan(t) => (history' = <<>> => history = <<>>)
      BY <1>in, HistoryStep
    <3>3. \/ AppendRecord(t) \/ Scan(t) \/ UNCHANGED history
      BY <1>in, <1>2, PointsStep, ViewStep DEF Step
    <3> QED BY <3>1, <3>2, <3>3
  <2>3. ASSUME history' = <<>>
        PROVE  /\ kept' = <<>> /\ \A s \in Sessions : lists'[s] = <<>>
               /\ \A s \in Threads : th'[s].at \notin {"push", "incr", "list"}
    <3>1. /\ kept = <<>> /\ \A s \in Sessions : lists[s] = <<>>
          /\ \A s \in Threads : th[s].at \notin {"push", "incr", "list"}
      BY <1>in, <2>0, <2>2, <2>3 DEF FreshInv
    <3>2. ~(PushHistory(t) \/ IncrTotal(t) \/ PushList(t))
      BY <1>in, <3>1, PointsStep
    <3>3. UNCHANGED redis /\ th'[t].at \notin {"push", "incr", "list"}
      BY <1>in, <1>2, <2>2, <2>3, <3>2, PointsStep, ViewStep DEF Step
    <3> QED BY <2>1, <3>1, <3>3
  <2>4. th'[t].at # "relock"
    <3>1. ASSUME SyncWithRedis(t) PROVE th'[t].at # "relock"
      <4>1. history = <<>>
        BY <1>in, <3>1, ViewStep DEF SyncInv, At
      <4>2. kept = <<>>
        BY <1>in, <2>0, <4>1 DEF FreshInv
      <4> QED BY <1>in, <3>1, <4>2, ViewStep
    <3> QED BY <1>in, <1>2, <3>1, PointsStep, ViewStep DEF Step
  <2>5. \A s \in Threads : ~At(s, "relock")'
    BY <1>in, <2>0, <2>1, <2>4 DEF FreshInv, At
  <2> QED BY <2>3, <2>5 DEF FreshInv
<1> QED BY <1>1, <1>2, <1>no DEF Next

-----------------------------------------------------------------------------
(* The records in memory and in the lists *)

\* What the deque keeps of distinct records are distinct records.
LEMMA NewestOnce ==
  ASSUME NEW s \in Seq(Records), IsInjective(s)
  PROVE  IsInjective(Newest(s)) /\ Range(Newest(s)) \subseteq Range(s)
<1>1. MaxHistory \in Nat
  BY TelemetryAssumption
<1>2. CASE Len(s) > MaxHistory
  <2> DEFINE n == Len(s) - MaxHistory
  <2>1. Newest(s) = SubSeq(s, n + 1, Len(s))
    BY <1>2 DEF Newest
  <2>2. /\ DOMAIN Newest(s) = 1..MaxHistory
        /\ \A i \in 1..MaxHistory : i + n \in DOMAIN s /\ Newest(s)[i] = s[i + n]
    BY <1>1, <1>2, <2>1
  <2>3. n \in Nat
    BY <1>1, <1>2
  <2> HIDE DEF n
  <2>4. \A i, j \in 1..MaxHistory : Newest(s)[i] = Newest(s)[j] => i = j
    BY <1>1, <2>2, <2>3 DEF IsInjective
  <2> QED BY <2>2, <2>4 DEF IsInjective, Range
<1>3. CASE ~(Len(s) > MaxHistory)
  BY <1>3 DEF Newest
<1> QED BY <1>2, <1>3

\* And so is the beginning of a list of distinct records.
LEMMA FirstOnce ==
  ASSUME NEW s \in Seq(Records), IsInjective(s), NEW n \in Nat
  PROVE  IsInjective(First(s, n)) /\ Range(First(s, n)) \subseteq Range(s)
<1> DEFINE m == IF Len(s) < n THEN Len(s) ELSE n
<1>1. m \in Nat /\ m <= Len(s)
  OBVIOUS
<1>2. First(s, n) = SubSeq(s, 1, m)
  BY DEF First
<1> HIDE DEF m
<1>3. /\ DOMAIN First(s, n) = 1..m
      /\ \A i \in 1..m : i \in DOMAIN s /\ First(s, n)[i] = s[i]
  BY <1>1, <1>2
<1> QED BY <1>3 DEF IsInjective, Range

\* Two sequences of distinct records that share none make one.
LEMMA JoinOnce ==
  ASSUME NEW s \in Seq(Records), NEW u \in Seq(Records), IsInjective(s), IsInjective(u),
         Range(s) \cap Range(u) = {}
  PROVE  IsInjective(s \o u) /\ Range(s \o u) = Range(s) \cup Range(u)
<1> DEFINE w == s \o u
<1>1. /\ w \in Seq(Records) /\ DOMAIN w = 1..(Len(s) + Len(u))
      /\ DOMAIN s = 1..Len(s) /\ DOMAIN u = 1..Len(u)
      /\ Len(s) \in Nat /\ Len(u) \in Nat
  OBVIOUS
<1>2. \A i \in DOMAIN w : \/ i \in DOMAIN s /\ w[i] = s[i]
                          \/ i - Len(s) \in DOMAIN u /\ w[i] = u[i - Len(s)]
  OBVIOUS
<1>3. /\ \A i \in DOMAIN s : i \in DOMAIN w /\ w[i] = s[i]
      /\ \A i \in DOMAIN u : i + Len(s) \in DOMAIN w /\ w[i + Len(s)] = u[i]
  OBVIOUS
<1>4. \A i \in DOMAIN s, j \in DOMAIN u : s[i] # u[j]
  BY DEF Range
<1> HIDE DEF w
<1>5. ASSUME NEW i \in DOMAIN w, NEW j \in DOMAIN w, w[i] = w[j] PROVE i = j
  <2>1. CASE i \in DOMAIN s /\ w[i] = s[i]
    <3>1. j \in DOMAIN s /\ w[j] = s[j]
      BY <1>2, <1>4, <1>5, <2>1
    <3> QED BY <1>5, <2>1, <3>1 DEF IsInjective
  <2>2. CASE i - Len(s) \in DOMAIN u /\ w[i] = u[i - Len(s)]
    <3>1. j - Len(s) \in DOMAIN u /\ w[j] = u[j - Len(s)]
      BY <1>2, <1>4, <1>5, <2>2
    <3>2. i - Len(s) = j - Len(s)
      BY <1>5, <2>2, <3>1 DEF IsInjective
    <3> QED BY <1>1, <1>5, <3>2
  <2> QED BY <1>2, <2>1, <2>2
<1>6. Range(w) = Range(s) \cup Range(u)
  <2>1. Range(w) \subseteq Range(s) \cup Range(u)
    BY <1>2 DEF Range
  <2>2. Range(s) \cup Range(u) \subseteq Range(w)
    BY <1>3 DEF Range
  <2> QED BY <2>1, <2>2
<1>7. IsInjective(w)
  BY <1>5 DEF IsInjective
<1> QED BY <1>6, <1>7 DEF w

LEMMA One ==
  ASSUME NEW r \in Records
  PROVE  /\ <<r>> \in Seq(Records) /\ IsInjective(<<r>>) /\ Range(<<r>>) = {r}
         /\ \A s \in Seq(Records) : Append(s, r) = s \o <<r>>
BY DEF IsInjective, Range

\* A step leaves a query with the thread that records it, and only the step
\* that begins a recording brings one to "append".
LEMMA RecordingStep ==
  ASSUME TypeOK, NEW a \in Threads, NEW t \in Threads, Recording(t)',
         \/ \E scope \in SUBSET Sessions : View(a, scope)
         \/ Step(a)
  PROVE  /\ Recording(t) /\ th'[t].rec = th[t].rec
         /\ At(t, "append")' => At(t, "append") /\ t # a
         /\ PushList(a) => t # a
<1>ty. th \in [Threads -> Thread]
  BY DEF TypeOK
<1>1. CASE t # a
  <2>1. th'[t] = th[t]
    BY <1>1, OthersKeep
  <2> QED BY <1>1, <2>1 DEF Recording, At
<1>2. CASE t = a
  <2>1. ~\E scope \in SUBSET Sessions : View(a, scope)
    BY <1>2, PointsStep DEF Recording
  <2>2. AppendRecord(a) \/ PushHistory(a) \/ IncrTotal(a) \/ PushList(a)
    BY <1>2, <2>1, ViewStep DEF Step, Recording
  <2>3. CASE AppendRecord(a)
    <3>1. Goto(a, "push")
      BY <1>2, <1>ty, <2>3 DEF AppendRecord, End, NoThread, Recording
    <3>2. th'[a].rec = th[a].rec /\ th'[a].at = "push"
      BY <1>ty, <3>1 DEF Goto, Thread, Points
    <3>3. th[a].at = "append"
      BY <2>3 DEF AppendRecord, At
    <3>4. ~PushList(a)
      BY <3>3, PointsStep
    <3> QED BY <1>2, <2>3, <3>2, <3>3, <3>4 DEF Recording, At
  <2>4. CASE PushHistory(a) \/ IncrTotal(a) \/ PushList(a)
    <3>1. ~PushList(a)
      BY <1>2, <1>ty DEF PushList, End, NoThread, Recording
    <3> QED BY <1>2, <2>4, <3>1, PointsStep DEF Recording, At
  <2> QED BY <2>2, <2>3, <2>4
<1> QED BY <1>1, <1>2

\* What a step adds to the history: the query it appends, or records of a
\* session that the history has none of.
LEMMA SourceStep ==
  ASSUME TypeOK, RecInv, SourceInv, PendingInv, NEW a \in Threads,
         \/ \E scope \in SUBSET Sessions : View(a, scope)
         \/ Step(a)
  PROVE  /\ IsInjective(history')
         /\ \/ Range(history') \subseteq Range(history)
            \/ /\ AppendRecord(a)
               /\ Range(history') \subseteq Range(history) \cup {th[a].rec}
            \/ \E s \in Sessions :
                  Range(history') \subseteq Range(history) \cup Range(lists[s])
<1>ty. /\ history \in Seq(Records) /\ lists \in [Sessions -> Seq(Records)]
       /\ th \in [Threads -> Thread]
  BY DEF TypeOK
<1>as. MaxScope \in Nat
  BY TelemetryAssumption
<1>1. CASE AppendRecord(a)
  <2>1. At(a, "append") /\ Recording(a) /\ th[a].rec \in Records
    BY <1>1 DEF AppendRecord, At, RecInv, Recording
  <2>2. th[a].rec \notin Range(history)
    BY <2>1 DEF PendingInv
  <2> DEFINE one == <<th[a].rec>>
             longer == history \o one
  <2>3. history' = Newest(longer)
    BY <1>1, <1>ty, <2>1, One DEF AppendRecord
  <2>4. one \in Seq(Records) /\ IsInjective(one) /\ Range(one) = {th[a].rec}
    BY <2>1, One
  <2> HIDE DEF one
  <2>5. IsInjective(longer) /\ Range(longer) = Range(history) \cup {th[a].rec}
    BY <1>ty, <2>2, <2>4, JoinOnce DEF SourceInv
  <2>6. longer \in Seq(Records)
    BY <1>ty, <2>4
  <2> HIDE DEF longer
  <2>7. IsInjective(history') /\ Range(history') \subseteq Range(longer)
    BY <2>3, <2>5, <2>6, NewestOnce
  <2> QED BY <1>1, <2>5, <2>7
<1>2. CASE Scan(a)
  <2>1. PICK s \in th[a].left :
          \/ ~InMemory(s) /\ history' = Newest(history \o First(lists[s], MaxScope))
          \/ UNCHANGED history
    BY <1>2 DEF Scan
  <2>2. s \in Sessions
    BY <1>ty DEF Thread
  <2> DEFINE more == First(lists[s], MaxScope)
             longer == history \o more
  <2>3. more \in Seq(Records) /\ IsInjective(more) /\ Range(more) \subseteq Range(lists[s])
    BY <1>ty, <1>as, <2>2, FirstType, FirstOnce DEF SourceInv
  <2>4. CASE ~InMemory(s) /\ history' = Newest(longer)
    <3>1. \A r \in Range(history) : SessionOf[r] # s
      BY <2>4 DEF InMemory
    <3>2. \A r \in Range(more) : SessionOf[r] = s
      BY <2>2, <2>3 DEF SourceInv
    <3>3. Range(history) \cap Range(more) = {}
      BY <3>1, <3>2
    <3> HIDE DEF more
    <3>4. IsInjective(longer) /\ Range(longer) = Range(history) \cup Range(more)
      BY <1>ty, <2>3, <3>3, JoinOnce DEF SourceInv
    <3>5. longer \in Seq(Records)
      BY <1>ty, <2>3
    <3> HIDE DEF longer
    <3>6. IsInjective(history') /\ Range(history') \subseteq Range(longer)
      BY <2>4, <3>4, <3>5, NewestOnce
    <3> QED BY <2>2, <2>3, <3>4, <3>6
  <2>5. CASE UNCHANGED history
    BY <2>5 DEF SourceInv
  <2> QED BY <2>1, <2>4, <2>5
<1>3. CASE ~AppendRecord(a) /\ ~Scan(a)
  <2>1. UNCHANGED history
    BY <1>3, PointsStep, ViewStep DEF Step, memory
  <2> QED BY <2>1 DEF SourceInv
<1> QED BY <1>1, <1>2, <1>3

\* What a step adds to a list: the query that is recorded, to its session's.
LEMMA ListStep ==
  ASSUME TypeOK, RecInv, SourceInv, PendingInv, NEW a \in Threads,
         \/ \E scope \in SUBSET Sessions : View(a, scope)
         \/ Step(a),
         NEW s \in Sessions
  PROVE  /\ IsInjective(lists'[s])
         /\ \/ Range(lists'[s]) \subseteq Range(lists[s])
            \/ /\ PushList(a) /\ s = SessionOf[th[a].rec] /\ Recording(a)
               /\ Range(lists'[s]) \subseteq Range(lists[s]) \cup {th[a].rec}
<1>ty. lists \in [Sessions -> Seq(Records)]
  BY DEF TypeOK
<1>as. MaxHistory \in Nat
  BY TelemetryAssumption
<1>1. CASE PushList(a) /\ s = SessionOf[th[a].rec] /\ lists' # lists
  <2>1. Recording(a) /\ th[a].rec \in Records
    BY <1>1 DEF PushList, At, RecInv, Recording
  <2> DEFINE one == <<th[a].rec>>
             longer == one \o lists[s]
  <2>2. lists'[s] = First(longer, MaxHistory)
    BY <1>1, <1>ty DEF PushList
  <2>3. Range(one) \cap Range(lists[s]) = {}
    BY <2>1, One DEF PendingInv
  <2>4. one \in Seq(Records) /\ IsInjective(one) /\ Range(one) = {th[a].rec}
    BY <2>1, One
  <2> HIDE DEF one
  <2>5. IsInjective(longer) /\ Range(longer) = Range(lists[s]) \cup {th[a].rec}
    BY <1>ty, <2>3, <2>4, JoinOnce DEF SourceInv
  <2>6. longer \in Seq(Records)
    BY <1>ty, <2>4
  <2> HIDE DEF longer
  <2>7. IsInjective(lists'[s]) /\ Range(lists'[s]) \subseteq Range(longer)
    BY <1>as, <2>2, <2>5, <2>6, FirstOnce
  <2> QED BY <1>1, <2>1, <2>5, <2>7
<1>2. CASE ~(PushList(a) /\ s = SessionOf[th[a].rec] /\ lists' # lists)
  <2>1. lists'[s] = lists[s]
    <3>1. PushList(a) \/ lists' = lists
      BY PointsStep, ViewStep DEF Step, PushHistory, IncrTotal, redis
    <3> QED BY <1>2, <1>ty, <3>1 DEF PushList
  <2> QED BY <2>1 DEF SourceInv
<1> QED BY <1>1, <1>2

LEMMA OnceStep ==
  TypeOK /\ RecInv /\ SourceInv /\ PendingInv /\ [Next]_vars => SourceInv' /\ PendingInv'
<1> SUFFICES ASSUME TypeOK, RecInv, SourceInv, PendingInv, [Next]_vars
             PROVE  SourceInv' /\ PendingInv'
  OBVIOUS
<1>ty. th \in [Threads -> Thread]
  BY DEF TypeOK
<1>1. ASSUME NEW a \in Threads, NEW r \in Records, Record(a, r)
      PROVE  SourceInv' /\ PendingInv'
  <2>1. /\ r \notin used /\ used' = used \cup {r}
        /\ th'[a].rec = r /\ UNCHANGED <<history, lists>>
    BY <1>1, PointsStep DEF Record, memory, redis
  <2>2. SourceInv'
    BY <2>1 DEF SourceInv
  <2>3. ASSUME NEW t \in Threads, t # a
        PROVE  /\ th'[t] = th[t] /\ Recording(t)' = Recording(t)
               /\ Recording(t) => th[t].rec # r
    BY <1>1, <2>1, <2>3, OthersKeep DEF Recording, PendingInv
  <2>4. /\ r \notin Range(history) /\ \A s \in Sessions : r \notin Range(lists[s])
    BY <2>1 DEF SourceInv
  <2>5. ASSUME NEW t \in Threads, Recording(t)'
        PROVE  /\ th'[t].rec \in used'
               /\ \A s \in Sessions : th'[t].rec \notin Range(lists'[s])
               /\ At(t, "append")' => th'[t].rec \notin Range(history')
               /\ \A u \in Threads : Recording(u)' /\ th'[u].rec = th'[t].rec => u = t
    <3>1. CASE t = a
      BY <2>1, <2>3, <2>4, <3>1
    <3>2. CASE t # a
      BY <2>1, <2>3, <2>5, <3>2 DEF PendingInv, At
    <3> QED BY <3>1, <3>2
  <2> QED BY <2>2, <2>5 DEF PendingInv
<1>2. ASSUME NEW a \in Threads,
             \/ \E scope \in SUBSET Sessions : View(a, scope)
             \/ Step(a)
      PROVE  SourceInv' /\ PendingInv'
  <2>1. UNCHANGED used
    BY <1>2 DEF View, Step, AppendRecord, PushHistory, IncrTotal, PushList,
                Enter, Scan, Scanned, SyncWithRedis, SyncFails, Leave
  <2>2. AppendRecord(a) => Recording(a)
    BY DEF AppendRecord, At, Recording
  <2>3. SourceInv'
    <3>1. IsInjective(history') /\ Range(history') \subseteq used
      BY <1>2, <2>2, SourceStep DEF SourceInv, PendingInv
    <3>2. ASSUME NEW s \in Sessions
          PROVE  /\ IsInjective(lists'[s])
                 /\ \A r \in Range(lists'[s]) : r \in used /\ SessionOf[r] = s
      BY <1>2, ListStep DEF SourceInv, PendingInv
    <3> QED BY <2>1, <3>1, <3>2 DEF SourceInv
  <2>4. ASSUME NEW t \in Threads, Recording(t)'
        PROVE  /\ th'[t].rec \in used'
               /\ \A s \in Sessions : th'[t].rec \notin Range(lists'[s])
               /\ At(t, "append")' => th'[t].rec \notin Range(history')
               /\ \A u \in Threads : Recording(u)' /\ th'[u].rec = th'[t].rec => u = t
    <3>1. /\ Recording(t) /\ th'[t].rec = th[t].rec
          /\ At(t, "append")' => At(t, "append") /\ t # a
          /\ PushList(a) => t # a
      BY <1>2, <2>4, RecordingStep
    <3>2. /\ th[t].rec \in used
          /\ \A s \in Sessions : th[t].rec \notin Range(lists[s])
          /\ At(t, "append") => th[t].rec \notin Range(history)
          /\ \A u \in Threads : Recording(u) /\ th[u].rec = th[t].rec => u = t
      BY <3>1 DEF PendingInv
    <3>3. ASSUME NEW s \in Sessions PROVE th'[t].rec \notin Range(lists'[s])
      BY <1>2, <3>1, <3>2, ListStep
    <3>4. At(t, "append")' => th'[t].rec \notin Range(history')
      BY <1>2, <2>2, <3>1, <3>2, SourceStep
    <3>5. ASSUME NEW u \in Threads, Recording(u)', th'[u].rec = th'[t].rec PROVE u = t
      BY <1>2, <3>1, <3>2, <3>5, RecordingStep
    <3> QED BY <2>1, <3>1, <3>2, <3>3, <3>4, <3>5
  <2> QED BY <2>3, <2>4 DEF PendingInv
<1>3. CASE Restart
  <2>1. history' = <<>> /\ UNCHANGED <<used, lists>> /\ \A t \in Threads : ~Recording(t)'
    BY <1>3 DEF Restart, redis, Recording, NoThread
  <2> QED BY <2>1 DEF SourceInv, PendingInv, IsInjective, Range
<1>4. CASE UNCHANGED vars
  BY <1>4 DEF vars, SourceInv, PendingInv, Recording, At
<1> QED BY <1>1, <1>2, <1>3, <1>4 DEF Next

-----------------------------------------------------------------------------
(* Theorems *)

\* The inductive invariant: types, the lock, and what memory and Redis hold.
THEOREM Invariance == Spec => []IInv
<1>1. Init => IInv
  <2>1. Init => RecInv /\ LockInv /\ SyncInv /\ FreshInv
    BY DEF Init, NoThread, RecInv, LockInv, SyncInv, FreshInv, At
  <2>2. Init => SourceInv /\ PendingInv
    BY DEF Init, NoThread, SourceInv, PendingInv, Recording, IsInjective, Range
  <2> QED BY <2>1, <2>2, TypeInit DEF IInv
<1>2. IInv /\ [Next]_vars => IInv'
  BY TypeStep, RecStep, LockStep, SyncStep, FreshStep, OnceStep DEF IInv
<1> QED BY <1>1, <1>2, PTL DEF Spec

\* Every variable keeps its type and the history its bound.
THEOREM TypeCorrect == Spec => []TypeOK
<1>1. IInv => TypeOK
  BY DEF IInv
<1> QED BY <1>1, Invariance, PTL

\* A view waits for the lock it holds only where a restart emptied the memory,
\* nothing was put there since and Redis has records, whatever the number of
\* threads, queries and sessions and whichever calls of Redis fail.
THEOREM BlocksOnlyForgotten == Spec => []OnlyForgottenBlocks
<1>1. IInv => OnlyForgottenBlocks
  BY DEF IInv, TypeOK, FreshInv, SyncInv, At, OnlyForgottenBlocks
<1> QED BY <1>1, Invariance, PTL

\* No query is counted twice in a view's averages, however recordings, views
\* and restarts interleave and wherever the records come from.
THEOREM CountedOnce == Spec => []NoRecordTwice
<1>1. IInv => NoRecordTwice
  BY DEF IInv, SourceInv, NoRecordTwice, IsInjective
<1> QED BY <1>1, Invariance, PTL
=============================================================================
