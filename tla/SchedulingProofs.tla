-------------------------- MODULE SchedulingProofs --------------------------
(***************************************************************************)
(* For any numbers of files, contents, threads, attempts and faults: what  *)
(* an attempt indexed last stays, and a file the scan claimed is           *)
(* dispatched, once, as far as the registry keeps its claim.               *)
(*                                                                         *)
(* The invariant has three parts, each kept by a step on its own: where    *)
(* the threads are (CoreInv), who indexes which document (IndexInv), and   *)
(* what the registry says of the runs (ScanInv).                          *)
(***************************************************************************)
EXTENDS Scheduling, WellFoundedInduction, TLAPS

-----------------------------------------------------------------------------
(* The helpers *)

\* Of the paths that hold a content one comes first.
LEMMA FirstIn ==
  ASSUME NEW c \in Contents, NEW p \in Paths, folder[p] = c
  PROVE  First(c) \in Paths
<1> DEFINE S == {q \in Paths : folder[q] = c}
<1>1. PICK x \in S : \A y \in S : ~ (<<y, x>> \in OpToRel(<, Nat))
  <2>1. IsWellFoundedOn(OpToRel(<, Nat), Nat)
    BY NatLessThanWellFounded
  <2>2. S \subseteq Nat /\ S # {}
    BY SchedulingAssumption
  <2> QED BY <2>1, <2>2, WFMin
<1>2. x \in Nat /\ \A y \in S : y \in Nat
  BY SchedulingAssumption
<1>3. \A y \in S : ~ (y < x)
  BY <1>1, <1>2 DEF OpToRel
<1>4. \A y \in S : x <= y
  BY <1>2, <1>3
<1>5. \E z \in Paths : folder[z] = c /\ \A q \in Paths : folder[q] = c => z <= q
  BY <1>4
<1> QED BY <1>5 DEF First

LEMMA Nothing ==
  /\ None \notin Paths /\ None \notin Ids /\ None \notin Contents
  /\ Torn \notin Registry /\ Mixed \notin Registry /\ Torn # Mixed
  /\ \A c \in Contents : <<c, 0>> \in Ids
  /\ \A c \in Contents, s \in Replays : <<c, s>> \in Ids /\ s # 0
<1>1. None \notin Paths /\ None \notin Ids /\ None \notin Contents
  BY SchedulingAssumption DEF Ids
<1>2. Torn \notin Registry /\ Mixed \notin Registry /\ Torn # Mixed
  BY SchedulingAssumption DEF Registry
<1>3. \A c \in Contents : <<c, 0>> \in Ids
  BY DEF Ids
<1>4. \A c \in Contents, s \in Replays : <<c, s>> \in Ids /\ s # 0
  BY SchedulingAssumption DEF Ids
<1> QED BY <1>1, <1>2, <1>3, <1>4

\* What a record with changed fields is.
LEMMA FlowTypes ==
  ASSUME NEW f \in Flow
  PROVE  /\ \A x \in {"none", "running", "completed", "failed"} :
              [f EXCEPT !.status = x] \in Flow
         /\ Counted(f) \in Flow /\ Counted(f).status = f.status
         /\ Counted(f).step = f.step /\ Counted(f).doc = f.doc
         /\ FailedFlow(f) \in Flow /\ FailedFlow(f).step = f.step /\ FailedFlow(f).doc = f.doc
         /\ FailedFlow(f).status \in {f.status, "failed"} /\ FailedFlow(f).path = f.path
<1>1. \A x \in {"none", "running", "completed", "failed"} : [f EXCEPT !.status = x] \in Flow
  BY DEF Flow
<1>2. /\ Counted(f) \in Flow /\ Counted(f).status = f.status
      /\ Counted(f).step = f.step /\ Counted(f).doc = f.doc
  BY DEF Flow, Counted
<1>3. /\ FailedFlow(f) \in Flow /\ FailedFlow(f).step = f.step /\ FailedFlow(f).doc = f.doc
      /\ FailedFlow(f).status \in {f.status, "failed"} /\ FailedFlow(f).path = f.path
  BY DEF Flow, FailedFlow
<1> QED BY <1>1, <1>2, <1>3

LEMMA NewFlows ==
  /\ NoFlow \in Flow /\ NoFlow.step = "ingest" /\ NoFlow.status = "none"
  /\ \A p \in Paths \cup {None} :
       Started(p) \in Flow /\ Started(p).step = "ingest" /\ Started(p).status = "running"
<1>1. NoFlow \in Flow /\ NoFlow.step = "ingest" /\ NoFlow.status = "none"
  BY DEF Flow, NoFlow
<1>2. ASSUME NEW p \in Paths \cup {None}
      PROVE  Started(p) \in Flow /\ Started(p).step = "ingest" /\ Started(p).status = "running"
  BY DEF Flow, NoFlow, Started
<1> QED BY <1>1, <1>2

LEMMA FreeType == Free \in Thread /\ Free.kind = "none" /\ ~Free.live /\ Fits(Free)
BY SchedulingAssumption DEF Free, Thread, Fits

-----------------------------------------------------------------------------
(* Steps that leave a part of the invariant alone *)

\* Threads that index go on, or end, and nothing they share changes.
LEMMA KeepIndex ==
  ASSUME IndexInv, UNCHANGED <<dense, latest, overlapped, attached>>,
         \A u \in Pool : thread'[u].kind = "index" =>
           thread[u].kind = "index" /\ thread'[u].doc = thread[u].doc /\ thread'[u].at = thread[u].at
  PROVE  IndexInv'
BY DEF IndexInv, LastSuccessStands

Scans(r) == r.at \in {"open", "dump", "return"}

\* The attempts of scans go on with what they have, or are given up with what
\* they have found dropped.
LEMMA KeepScan ==
  ASSUME CoreInv, CoreInv', ScanInv, UNCHANGED <<registry, lost>>, dropped \subseteq dropped',
         \A c \in Contents : Dispatched(c)' <=> Dispatched(c),
         \A u \in Pool : Scans(thread'[u]) =>
           /\ thread'[u].at = thread[u].at /\ thread'[u].seen = thread[u].seen
           /\ thread'[u].found = thread[u].found /\ (thread'[u].live => thread[u].live),
         \A u \in Pool : Scans(thread[u]) /\ thread[u].live /\ ~(Scans(thread'[u]) /\ thread'[u].live) =>
           ContentsOf(thread[u].found) \subseteq dropped',
         scan'.todo = scan.todo, scan.todo # {} => scan'.at = "dispatching"
  PROVE  ScanInv'
<1>1. ASSUME NEW c \in Contents, Accounted(c) PROVE Accounted(c)'
  <2>1. CASE Dispatched(c) \/ c \in dropped \/ c \in ContentsOf(scan.todo)
    BY <2>1 DEF Accounted, ContentsOf
  <2>2. CASE Coming(c)
    <3>1. PICK u \in Pool : thread[u].live /\ Scans(thread[u]) /\ c \in ContentsOf(thread[u].found)
      BY <2>2 DEF Coming, Scans
    <3>2. CASE Scans(thread'[u]) /\ thread'[u].live
      <4>1. thread'[u].found = thread[u].found
        BY <3>2
      <4> QED BY <3>1, <3>2, <4>1 DEF Accounted, Coming, Scans, ContentsOf
    <3>3. CASE ~(Scans(thread'[u]) /\ thread'[u].live)
      BY <3>1, <3>3 DEF Accounted
    <3> QED BY <3>2, <3>3
  <2> QED BY <1>1, <2>1, <2>2 DEF Accounted
<1>2. ASSUME NEW c \in Contents, InHand(c)' PROVE InHand(c)
  BY <1>2 DEF InHand, ContentsOf, Scans
<1>3. ClaimInv'
  <2>1. ASSUME NEW u \in Pool, Scans(thread'[u]) PROVE Scans(thread[u])
    BY <2>1 DEF Scans
  <2>2. \A u \in Pool : Scans(thread'[u]) => \A c \in Contents : thread'[u].seen[c] # None => Accounted(c)'
    BY <1>1, <2>1 DEF ScanInv, ClaimInv, Scans
  <2>3. \A u \in Pool : Scans(thread'[u]) /\ ~thread'[u].live => ContentsOf(thread'[u].found) \subseteq dropped'
    <3> SUFFICES ASSUME NEW u \in Pool, Scans(thread'[u]), ~thread'[u].live
                 PROVE  ContentsOf(thread'[u].found) \subseteq dropped'
      OBVIOUS
    <3>1. thread'[u].found = thread[u].found
      OBVIOUS
    <3>2. ~thread[u].live => ContentsOf(thread[u].found) \subseteq dropped
      BY <2>1 DEF ScanInv, ClaimInv, Scans
    <3>3. thread[u].live => ContentsOf(thread[u].found) \subseteq dropped'
      BY <2>1
    <3> QED BY <3>1, <3>2, <3>3
  <2>4. registry' \in Registry => \A c \in Contents : registry'[c] # None => Accounted(c)'
    BY <1>1 DEF ScanInv, ClaimInv
  <2> QED BY <2>2, <2>3, <2>4 DEF ClaimInv, Scans, Registry, ContentsOf
<1>4. KeptInv'
  <2>1. ASSUME NEW ds \in SUBSET Docs, NewInv(ds)
        PROVE  /\ \A d \in ds : ~Dispatched(d[2])' \/ d[2] \in lost'
               /\ \A d, e \in ds : d[2] = e[2] => d = e
    BY <2>1 DEF NewInv, Docs
  <2>2. ASSUME NEW u \in Pool, thread'[u].live, Scans(thread'[u])
        PROVE  /\ \A d \in thread'[u].found : ~Dispatched(d[2])' \/ d[2] \in lost'
               /\ \A d, e \in thread'[u].found : d[2] = e[2] => d = e
               /\ \A c \in Contents \ lost' :
                    Dispatched(c)' \/ c \in ContentsOf(thread'[u].found) => thread'[u].seen[c] # None
    <3>1. /\ thread[u].live /\ Scans(thread[u])
          /\ thread'[u].found = thread[u].found /\ thread'[u].seen = thread[u].seen
      BY <2>2 DEF Scans
    <3>2. PICK ds \in SUBSET Docs : ds = thread[u].found
      BY DEF CoreInv, TypeOK, Thread
    <3>3. NewInv(ds) /\ \A c \in Contents \ lost : Dispatched(c) \/ c \in ContentsOf(ds) => thread[u].seen[c] # None
      BY <3>1, <3>2 DEF ScanInv, KeptInv, Scans
    <3> QED BY <2>1, <3>1, <3>2, <3>3
  <2>3. PICK ds \in SUBSET Docs : ds = scan.todo /\ NewInv(ds)
    BY DEF CoreInv, TypeOK, ScanInv, KeptInv
  <2>4. NewInv(scan.todo)'
    BY <2>1, <2>3 DEF NewInv
  <2>5. registry' \in Registry => \A c \in Contents \ lost' : Dispatched(c)' \/ InHand(c)' => registry'[c] # None
    BY <1>2 DEF ScanInv, KeptInv
  <2> QED BY <2>2, <2>4, <2>5 DEF KeptInv, NewInv, Scans, Registry, ContentsOf
<1> QED BY <1>3, <1>4 DEF ScanInv

\* No scan moves, and what was dispatched is what is.
LEMMA KeepClaim ==
  ASSUME ScanInv, UNCHANGED <<registry, scan, lost, dropped>>,
         \A u \in Pool : thread[u].kind = "scan" \/ thread'[u].kind = "scan" => thread'[u] = thread[u],
         \A c \in Contents : Dispatched(c)' <=> Dispatched(c),
         CoreInv, CoreInv'
  PROVE  ScanInv'
<1>1. \A u \in Pool : Scans(thread'[u]) \/ Scans(thread[u]) => thread'[u] = thread[u]
  BY DEF Scans, CoreInv, ThreadInv, Fits
<1>2. scan.todo # {} => scan.at = "dispatching"
  BY DEF ScanInv, ClaimInv
<1> QED BY <1>1, <1>2, KeepScan

-----------------------------------------------------------------------------
(* One thread moves *)

\* The stores, which keep their types whatever the threads do.
StoresOK ==
  /\ folder \in [Paths -> Contents \cup {None}]
  /\ registry \in Registry \cup {Torn, Mixed}
  /\ scan \in [at : {"idle", "scanning", "dispatching"}, attempts : Nat, todo : SUBSET Docs]
  /\ converted \in [Docs -> {"none", "torn", "whole"}] /\ dense \subseteq Docs /\ attached \in BOOLEAN
  /\ replay \in [todo : SUBSET Ids, id : Ids \cup {None}]
  /\ latest \in [Docs -> {"none", "running", "cut", "empty", "indexed", "local"}]
  /\ overlapped \subseteq Docs /\ lost \subseteq Contents /\ dropped \subseteq Contents

\* What a step may do to the runs: the steps and documents they have are kept.
FlowsOK == flows \in [Ids -> Flow] /\ FlowInv

LEMMA Parts == CoreInv <=> StoresOK /\ FlowsOK /\ thread \in [Pool -> Thread] /\ ThreadInv /\ LiveInv
BY DEF CoreInv, TypeOK, StoresOK, FlowsOK

\* A thread goes on with what it does, or its attempt is over, and the
\* attempts of the other threads are for runs that stay open.
LEMMA MoveCore ==
  ASSUME CoreInv, NEW t \in Pool, NEW r \in Thread, Fits(r), thread' = [thread EXCEPT ![t] = r],
         r.live => thread[t].live, r.kind # "none" => r.kind = thread[t].kind /\ r.id = thread[t].id,
         StoresOK', FlowsOK', \A i \in Ids : flows[i].path \in Paths => flows'[i].path \in Paths,
         \A u \in Pool : (u # t \/ r.live) /\ thread[u].live =>
           IF thread[u].kind = "scan" THEN scan'.at = "scanning"
           ELSE flows'[thread[u].id].status = "running"
  PROVE  CoreInv'
<1>1. thread \in [Pool -> Thread] /\ ThreadInv /\ LiveInv
  BY Parts
<1>2. thread' \in [Pool -> Thread] /\ thread'[t] = r /\ \A u \in Pool \ {t} : thread'[u] = thread[u]
  BY <1>1
<1>3. ThreadInv'
  BY <1>1, <1>2 DEF ThreadInv
<1>4. \A u \in Pool : thread'[u].kind \in {"ingest", "index"} => flows'[thread'[u].id].path \in Paths
  <2> SUFFICES ASSUME NEW u \in Pool, thread'[u].kind \in {"ingest", "index"}
               PROVE  flows'[thread'[u].id].path \in Paths
    OBVIOUS
  <2>1. thread'[u].kind = thread[u].kind /\ thread'[u].id = thread[u].id
    BY <1>2
  <2>2. PICK i \in Ids : i = thread[u].id
    BY <1>1, <2>1 DEF ThreadInv, Fits
  <2> QED BY <1>1, <2>1, <2>2 DEF LiveInv
<1>5. LiveInv'
  BY <1>1, <1>2, <1>3, <1>4 DEF LiveInv, ThreadInv, Fits
<1> QED BY <1>2, <1>3, <1>5 DEF CoreInv, TypeOK, StoresOK, FlowsOK

\* The runs and the scan are left alone.
LEMMA KeepCore ==
  ASSUME CoreInv, NEW t \in Pool, NEW r \in Thread, Fits(r), thread' = [thread EXCEPT ![t] = r],
         r.live => thread[t].live, r.kind # "none" => r.kind = thread[t].kind /\ r.id = thread[t].id,
         StoresOK', UNCHANGED <<flows, scan>>
  PROVE  CoreInv'
<1>1. FlowsOK'
  BY Parts DEF FlowsOK, FlowInv
<1>2. \A u \in Pool : (u # t \/ r.live) /\ thread[u].live =>
           IF thread[u].kind = "scan" THEN scan'.at = "scanning"
           ELSE flows'[thread[u].id].status = "running"
  BY Parts DEF LiveInv
<1> QED BY <1>1, <1>2, MoveCore

\* No thread moves, and open runs stay open.
LEMMA StillCore ==
  ASSUME CoreInv, UNCHANGED thread, StoresOK', FlowsOK',
         \A i \in Ids : /\ flows[i].status = "running" => flows'[i].status = "running"
                        /\ flows[i].path \in Paths => flows'[i].path \in Paths,
         scan.at = "scanning" => scan'.at = "scanning"
  PROVE  CoreInv'
<1>1. thread \in [Pool -> Thread] /\ ThreadInv /\ LiveInv
  BY Parts
<1>2. ThreadInv'
  BY <1>1 DEF ThreadInv
<1>3. \A u \in Pool : /\ thread[u].live /\ thread[u].kind # "scan" => thread[u].id \in Ids
                      /\ thread[u].kind \in {"ingest", "index"} => thread[u].id \in Ids
  BY <1>1 DEF ThreadInv, Fits, Thread
<1>4. ASSUME NEW u \in Pool
      PROVE  /\ thread[u].kind \in {"ingest", "index"} => flows'[thread[u].id].path \in Paths
             /\ thread[u].live => IF thread[u].kind = "scan" THEN scan'.at = "scanning"
                                 ELSE flows'[thread[u].id].status = "running"
  <2>1. PICK j : j = thread[u].id
    OBVIOUS
  <2>2. /\ thread[u].kind \in {"ingest", "index"} => j \in Ids /\ flows[j].path \in Paths
        /\ thread[u].live /\ thread[u].kind # "scan" => j \in Ids /\ flows[j].status = "running"
        /\ thread[u].live /\ thread[u].kind = "scan" => scan.at = "scanning"
    <3>1. /\ thread[u].kind \in {"ingest", "index"} => flows[thread[u].id].path \in Paths
          /\ thread[u].live => IF thread[u].kind = "scan" THEN scan.at = "scanning"
                              ELSE flows[thread[u].id].status = "running"
      BY <1>1 DEF LiveInv
    <3> QED BY <1>3, <2>1, <3>1
  <2> QED BY <2>1, <2>2
<1>5. LiveInv'
  BY <1>1, <1>4 DEF LiveInv
<1> QED BY <1>1, <1>2, <1>5 DEF CoreInv, TypeOK, StoresOK, FlowsOK

\* What an attempt's end without a result does to its run and its scan.
LEMMA GivenUp ==
  ASSUME CoreInv, NEW ts \in SUBSET Pool, GiveUp(ts)
  PROVE  /\ FlowsOK'
         /\ \A i \in Ids : /\ flows'[i].status \in {flows[i].status, "failed"}
                           /\ flows'[i] # flows[i] =>
                                /\ flows[i].status = "running"
                                /\ \E t \in ts : thread[t].live /\ thread[t].id = i
                           /\ flows'[i].path = flows[i].path
         /\ \A c \in Contents : Dispatched(c)' <=> Dispatched(c)
         /\ scan' \in [at : {"idle", "scanning", "dispatching"}, attempts : Nat, todo : SUBSET Docs]
         /\ scan' # scan => \E t \in ts : thread[t].live /\ thread[t].kind = "scan"
         /\ scan.at # "scanning" => scan'.todo = scan.todo /\ scan'.at = scan.at
         /\ scan'.at # scan.at \/ scan'.todo # scan.todo => scan.at = "scanning" /\ scan'.todo = {}
         /\ dropped' \subseteq Contents /\ dropped \subseteq dropped' /\ lost' = lost
         /\ \A t \in ts : ContentsOf(thread[t].found) \subseteq dropped'
<1> DEFINE Hit(i) == \E t \in {t \in ts : thread[t].live} : thread[t].id = i
<1>1. flows' = [i \in Ids |-> IF Hit(i) THEN FailedFlow(flows[i]) ELSE flows[i]]
  BY DEF GiveUp
<1>2. flows \in [Ids -> Flow] /\ FlowInv
  BY Parts DEF FlowsOK
<1>3. \A i \in Ids : /\ FailedFlow(flows[i]) \in Flow
                     /\ FailedFlow(flows[i]).step = flows[i].step
                     /\ FailedFlow(flows[i]).doc = flows[i].doc
                     /\ FailedFlow(flows[i]).path = flows[i].path
                     /\ FailedFlow(flows[i]).status \in {flows[i].status, "failed"}
  BY <1>2, FlowTypes
<1>4. \A i \in Ids : Hit(i) => \E t \in ts : thread[t].live /\ thread[t].id = i
  OBVIOUS
<1>5. \A i \in Ids : Hit(i) => flows[i].status = "running"
  <2>1. ThreadInv /\ LiveInv /\ ts \subseteq Pool
    BY Parts
  <2> SUFFICES ASSUME NEW t \in ts, thread[t].live, thread[t].id \in Ids
               PROVE  flows[thread[t].id].status = "running"
    BY <1>4
  <2>2. thread[t].kind # "scan"
    BY <2>1, Nothing DEF ThreadInv, Fits
  <2> QED BY <2>1, <2>2 DEF LiveInv
<1> HIDE DEF Hit
<1>6. flows' \in [Ids -> Flow]
  BY <1>1, <1>2, <1>3
<1>7. \A i \in Ids : /\ flows'[i].step = flows[i].step /\ flows'[i].doc = flows[i].doc
                     /\ flows'[i].path = flows[i].path
  BY <1>1, <1>3
<1>8. \A i \in Ids : /\ flows'[i].status \in {flows[i].status, "failed"}
                     /\ flows'[i] # flows[i] => Hit(i)
  BY <1>1, <1>3
<1>9. FlowsOK'
  BY <1>2, <1>6, <1>7, <1>8 DEF FlowsOK, FlowInv
<1>10. \A c \in Contents : Dispatched(c)' <=> Dispatched(c)
  BY <1>5, <1>8, Nothing DEF Dispatched
<1>11. /\ scan' \in [at : {"idle", "scanning", "dispatching"}, attempts : Nat, todo : SUBSET Docs]
       /\ scan' # scan => \E t \in ts : thread[t].live /\ thread[t].kind = "scan"
  BY Parts DEF GiveUp, StoresOK, FailedScan, NoScan
<1>12. scan' # scan => scan' = NoScan /\ scan.at = "scanning"
  <2>1. scan' \in {scan, NoScan}
    BY DEF GiveUp, FailedScan
  <2>2. LiveInv /\ ts \subseteq Pool
    BY Parts
  <2> QED BY <1>11, <2>1, <2>2 DEF LiveInv
<1>13. /\ scan.at # "scanning" => scan'.todo = scan.todo /\ scan'.at = scan.at
       /\ scan'.at # scan.at \/ scan'.todo # scan.todo => scan.at = "scanning" /\ scan'.todo = {}
  BY <1>12 DEF NoScan
<1>14. \A t \in ts : ContentsOf(thread[t].found) \subseteq Contents
  <2> SUFFICES ASSUME NEW t \in ts PROVE ContentsOf(thread[t].found) \subseteq Contents
    OBVIOUS
  <2>1. PICK ds \in SUBSET Docs : ds = thread[t].found
    BY Parts DEF Thread
  <2> QED BY <2>1 DEF ContentsOf, Docs
<1>15. /\ dropped' = dropped \cup UNION {ContentsOf(thread[t].found) : t \in ts}
       /\ lost' = lost /\ dropped \subseteq Contents
  BY Parts DEF GiveUp, StoresOK
<1>16. /\ dropped' \subseteq Contents /\ dropped \subseteq dropped' /\ lost' = lost
       /\ \A t \in ts : ContentsOf(thread[t].found) \subseteq dropped'
  BY <1>14, <1>15
<1> QED BY <1>4, <1>5, <1>7, <1>8, <1>9, <1>10, <1>11, <1>13, <1>16

\* The attempts of other threads are for other runs.
LEMMA OthersGoOn ==
  ASSUME CoreInv, NEW t \in Pool, GiveUp({t})
  PROVE  \A u \in Pool \ {t} : thread[u].live =>
           IF thread[u].kind = "scan" THEN scan'.at = "scanning"
           ELSE flows'[thread[u].id].status = "running"
<1> SUFFICES ASSUME NEW u \in Pool \ {t}, thread[u].live
             PROVE  IF thread[u].kind = "scan" THEN scan'.at = "scanning"
                    ELSE flows'[thread[u].id].status = "running"
  OBVIOUS
<1>1. ThreadInv /\ LiveInv
  BY Parts
<1>2. thread[t].live => thread[t].id # thread[u].id
  BY <1>1 DEF LiveInv
<1>3. CASE thread[u].kind = "scan"
  <2>1. scan' = scan
    BY <1>1, <1>2, <1>3, GivenUp DEF ThreadInv, Fits
  <2> QED BY <1>1, <1>3, <2>1 DEF LiveInv
<1>4. CASE thread[u].kind # "scan"
  <2>1. thread[u].id \in Ids /\ flows[thread[u].id].status = "running"
    BY <1>1, <1>4, Parts DEF LiveInv, ThreadInv, Fits, Thread
  <2>2. PICK i \in Ids : i = thread[u].id
    BY <2>1
  <2>3. flows'[i].status = flows[i].status
    BY <1>2, <2>2, GivenUp
  <2> QED BY <1>4, <2>1, <2>2, <2>3
<1> QED BY <1>3, <1>4

-----------------------------------------------------------------------------
(* An attempt is over *)

\* What is left when a thread is free again.
LEMMA FreedThread ==
  ASSUME CoreInv, NEW t \in Pool, thread' = [thread EXCEPT ![t] = Free]
  PROVE  thread'[t] = Free /\ \A u \in Pool \ {t} : thread'[u] = thread[u]
BY Parts

LEMMA FreedIndex ==
  ASSUME CoreInv, IndexInv, NEW t \in Pool, thread' = [thread EXCEPT ![t] = Free],
         UNCHANGED <<dense, latest, overlapped, attached>>
  PROVE  IndexInv'
<1>1. \A u \in Pool : thread'[u].kind = "index" =>
           thread[u].kind = "index" /\ thread'[u].doc = thread[u].doc /\ thread'[u].at = thread[u].at
  BY FreedThread, FreeType
<1> QED BY <1>1, KeepIndex

LEMMA RaiseCore ==
  ASSUME CoreInv, NEW t \in Pool, Raise(t), UNCHANGED <<folder, registry, attached, replay>>,
         converted' \in [Docs -> {"none", "torn", "whole"}], dense' \subseteq Docs,
         latest' \in [Docs -> {"none", "running", "cut", "empty", "indexed", "local"}],
         overlapped' \subseteq Docs
  PROVE  CoreInv'
<1>1. GiveUp({t}) /\ thread' = [thread EXCEPT ![t] = Free]
  BY DEF Raise
<1>2. FlowsOK' /\ StoresOK'
  BY <1>1, Parts, GivenUp DEF StoresOK
<1>3. \A u \in Pool : (u # t \/ Free.live) /\ thread[u].live =>
           IF thread[u].kind = "scan" THEN scan'.at = "scanning"
           ELSE flows'[thread[u].id].status = "running"
  BY <1>1, OthersGoOn, FreeType
<1>4. \A i \in Ids : flows[i].path \in Paths => flows'[i].path \in Paths
  BY <1>1, GivenUp
<1> QED BY <1>1, <1>2, <1>3, <1>4, FreeType, MoveCore

\* Attempts that are given up, whether their threads go on or not.
LEMMA GiveUpScan ==
  ASSUME CoreInv, CoreInv', ScanInv, NEW ts \in SUBSET Pool, GiveUp(ts), UNCHANGED registry,
         \A u \in Pool \ ts : thread'[u] = thread[u],
         \A u \in ts : \/ ~Scans(thread'[u])
                       \/ /\ thread'[u].at = thread[u].at /\ thread'[u].seen = thread[u].seen
                          /\ thread'[u].found = thread[u].found /\ ~thread'[u].live
  PROVE  ScanInv'
<1>1. /\ lost' = lost /\ dropped \subseteq dropped'
      /\ \A c \in Contents : Dispatched(c)' <=> Dispatched(c)
      /\ \A u \in ts : ContentsOf(thread[u].found) \subseteq dropped'
  BY GivenUp
<1>2. scan.todo # {} => scan.at = "dispatching"
  BY DEF ScanInv, ClaimInv
<1>3. scan'.todo = scan.todo /\ (scan.todo # {} => scan'.at = "dispatching")
  BY <1>2, GivenUp
<1>4. \A u \in Pool : Scans(thread'[u]) =>
        /\ thread'[u].at = thread[u].at /\ thread'[u].seen = thread[u].seen
        /\ thread'[u].found = thread[u].found /\ (thread'[u].live => thread[u].live)
  OBVIOUS
<1>5. \A u \in Pool : Scans(thread[u]) /\ thread[u].live /\ ~(Scans(thread'[u]) /\ thread'[u].live) =>
        ContentsOf(thread[u].found) \subseteq dropped'
  BY <1>1
<1> QED BY <1>1, <1>3, <1>4, <1>5, KeepScan

LEMMA RaiseClaim ==
  ASSUME CoreInv, CoreInv', ScanInv, NEW t \in Pool, Raise(t), UNCHANGED registry
  PROVE  ScanInv'
<1>1. GiveUp({t}) /\ thread' = [thread EXCEPT ![t] = Free]
  BY DEF Raise
<1>2. thread'[t] = Free /\ \A u \in Pool \ {t} : thread'[u] = thread[u]
  BY <1>1, FreedThread
<1>3. ~Scans(Free)
  BY DEF Free, Scans
<1> QED BY <1>1, <1>2, <1>3, GiveUpScan

\* What an attempt's success does to its run.
LEMMA Advanced ==
  ASSUME CoreInv, NEW t \in Pool, thread[t].kind \in {"ingest", "index"}, Advance(t),
         thread[t].kind = "ingest" => thread[t].doc \in Docs
  PROVE  /\ FlowsOK'
         /\ \A i \in Ids : flows'[i] # flows[i] => thread[t].live /\ i = thread[t].id
         /\ \A i \in Ids : flows'[i].path = flows[i].path
         /\ \A c \in Contents : Dispatched(c)' <=> Dispatched(c)
         /\ thread[t].live => flows[thread[t].id].status = "running"
<1>1. PICK id \in Ids : id = thread[t].id
  BY Parts DEF ThreadInv, Fits
<1>2. thread[t].live => flows[id].status = "running"
  BY <1>1, Parts DEF LiveInv
<1>3. flows \in [Ids -> Flow] /\ FlowInv
  BY Parts DEF FlowsOK
<1>4. CASE ~thread[t].live
  <2>1. flows' = flows
    BY <1>4 DEF Advance
  <2> QED BY <1>3, <1>4, <2>1 DEF FlowsOK, FlowInv, Dispatched
<1>5. CASE thread[t].live /\ thread[t].kind = "ingest"
  <2>1. flows' = [flows EXCEPT ![id].step = "index", ![id].attempts = 0, ![id].doc = thread[t].doc]
    BY <1>1, <1>5 DEF Advance
  <2>2. PICK d \in Docs : d = thread[t].doc
    BY <1>5
  <2>3. /\ flows'[id] \in Flow /\ flows'[id].doc \in Docs
        /\ flows'[id].status = flows[id].status /\ flows'[id].path = flows[id].path
    BY <1>3, <2>1, <2>2 DEF Flow
  <2>4. \A i \in Ids \ {id} : flows'[i] = flows[i]
    BY <1>3, <2>1
  <2>5. flows' \in [Ids -> Flow]
    BY <1>3, <2>1, <2>3, <2>4
  <2> QED BY <1>1, <1>2, <1>3, <1>5, <2>3, <2>4, <2>5, Nothing DEF FlowsOK, FlowInv, Dispatched
<1>6. CASE thread[t].live /\ thread[t].kind = "index"
  <2>1. flows' = [flows EXCEPT ![id].status = "completed"]
    BY <1>1, <1>6 DEF Advance
  <2>2. /\ flows'[id] \in Flow /\ flows'[id].step = flows[id].step
        /\ flows'[id].doc = flows[id].doc /\ flows'[id].status = "completed"
        /\ flows'[id].path = flows[id].path
    BY <1>3, <2>1 DEF Flow
  <2>4. \A i \in Ids \ {id} : flows'[i] = flows[i]
    BY <1>3, <2>1
  <2>5. flows' \in [Ids -> Flow]
    BY <1>3, <2>1, <2>2, <2>4
  <2> QED BY <1>1, <1>2, <1>3, <1>6, <2>2, <2>4, <2>5, Nothing DEF FlowsOK, FlowInv, Dispatched
<1> QED BY <1>4, <1>5, <1>6

LEMMA AdvanceCore ==
  ASSUME CoreInv, NEW t \in Pool, thread[t].kind \in {"ingest", "index"}, Advance(t),
         thread[t].kind = "ingest" => thread[t].doc \in Docs,
         UNCHANGED <<folder, registry, attached, replay, converted, dense, overlapped>>,
         latest' \in [Docs -> {"none", "running", "cut", "empty", "indexed", "local"}]
  PROVE  CoreInv'
<1>1. thread' = [thread EXCEPT ![t] = Free] /\ UNCHANGED <<scan, lost, dropped>>
  BY DEF Advance
<1>2. StoresOK'
  BY <1>1, Parts DEF StoresOK
<1>3. \A u \in Pool : (u # t \/ Free.live) /\ thread[u].live =>
           IF thread[u].kind = "scan" THEN scan'.at = "scanning"
           ELSE flows'[thread[u].id].status = "running"
  <2> SUFFICES ASSUME NEW u \in Pool \ {t}, thread[u].live
               PROVE  IF thread[u].kind = "scan" THEN scan'.at = "scanning"
                      ELSE flows'[thread[u].id].status = "running"
    BY FreeType
  <2>1. LiveInv /\ ThreadInv /\ thread \in [Pool -> Thread]
    BY Parts
  <2>2. CASE thread[u].kind = "scan"
    BY <1>1, <2>1, <2>2 DEF LiveInv
  <2>3. CASE thread[u].kind # "scan"
    <3>1. PICK i \in Ids : i = thread[u].id
      BY <2>1, <2>3 DEF ThreadInv, Fits, Thread
    <3>2. flows'[i] = flows[i]
      BY <2>1, <3>1, Advanced DEF LiveInv
    <3> QED BY <2>1, <2>3, <3>1, <3>2 DEF LiveInv
  <2> QED BY <2>2, <2>3
<1> QED BY <1>1, <1>2, <1>3, Advanced, FreeType, MoveCore

LEMMA AdvanceClaim ==
  ASSUME CoreInv, CoreInv', ScanInv, NEW t \in Pool, Advance(t), UNCHANGED registry,
         thread[t].kind \in {"ingest", "index"}, thread[t].kind = "ingest" => thread[t].doc \in Docs
  PROVE  ScanInv'
<1>1. thread' = [thread EXCEPT ![t] = Free] /\ UNCHANGED <<scan, lost, dropped>>
  BY DEF Advance
<1>2. \A u \in Pool : thread[u].kind = "scan" \/ thread'[u].kind = "scan" => thread'[u] = thread[u]
  BY <1>1, FreedThread, FreeType
<1>3. \A c \in Contents : Dispatched(c)' <=> Dispatched(c)
  BY Advanced
<1> QED BY <1>1, <1>2, <1>3, KeepClaim DEF CoreInv

-----------------------------------------------------------------------------
(* The worker's steps on a document *)

\* A thread goes to its next statement.
LEMMA MoveAt ==
  ASSUME CoreInv, NEW t \in Pool, NEW a, thread' = [thread EXCEPT ![t].at = a],
         \/ thread[t].at = "open" /\ a \in {"dump", "return"}
         \/ thread[t].at = "dump" /\ a = "return"
         \/ thread[t].at = "convert" /\ a = "parse"
         \/ thread[t].at = "purge" /\ a = "upsert"
         \/ thread[t].at = "upsert" /\ a = "others",
         StoresOK', UNCHANGED <<flows, scan>>
  PROVE  /\ CoreInv'
         /\ thread'[t] = [thread[t] EXCEPT !.at = a]
         /\ \A u \in Pool \ {t} : thread'[u] = thread[u]
<1>1. thread \in [Pool -> Thread] /\ ThreadInv
  BY Parts
<1>2. PICK q \in Thread : q = thread[t]
  BY <1>1
<1>3. PICK r : r = [q EXCEPT !.at = a]
  OBVIOUS
<1>4. r \in Thread /\ r.kind = q.kind /\ r.id = q.id /\ r.live = q.live
      /\ r.at = a /\ r.seen = q.seen /\ r.doc = q.doc
  BY <1>2, <1>3 DEF Thread
<1>5. Fits(q)
  BY <1>1, <1>2 DEF ThreadInv
<1>6. Fits(r)
  BY <1>2, <1>4, <1>5 DEF Fits
<1>7. thread' = [thread EXCEPT ![t] = r]
  BY <1>2, <1>3
<1>8. CoreInv'
  BY <1>2, <1>4, <1>6, <1>7, KeepCore
<1> QED BY <1>1, <1>2, <1>3, <1>7, <1>8

\* It is no scan's thread.
LEMMA MoveClaim ==
  ASSUME CoreInv, CoreInv', ScanInv, NEW t \in Pool,
         thread[t].kind # "scan", thread'[t].kind # "scan",
         \A u \in Pool \ {t} : thread'[u] = thread[u], UNCHANGED <<registry, scan, flows, lost, dropped>>
  PROVE  ScanInv'
<1>1. \A u \in Pool : thread[u].kind = "scan" \/ thread'[u].kind = "scan" => thread'[u] = thread[u]
  OBVIOUS
<1>2. \A c \in Contents : Dispatched(c)' <=> Dispatched(c)
  BY DEF Dispatched
<1> QED BY <1>1, <1>2, KeepClaim DEF CoreInv

LEMMA ConvertStep ==
  ASSUME IInv, NEW t \in Pool, Convert(t)
  PROVE  IInv'
<1>1. CoreInv /\ IndexInv /\ ScanInv /\ thread[t].kind = "ingest" /\ thread[t].doc \in Docs
  BY Parts DEF IInv, Convert, ThreadInv, Fits
<1>2. StoresOK'
  BY <1>1, Parts DEF Convert, StoresOK
<1>3. CoreInv' /\ thread'[t].kind = "ingest" /\ \A u \in Pool \ {t} : thread'[u] = thread[u]
  <2>1. /\ CoreInv'
        /\ thread'[t] = [thread[t] EXCEPT !.at = "parse"]
        /\ \A u \in Pool \ {t} : thread'[u] = thread[u]
    BY <1>1, <1>2, MoveAt DEF Convert
  <2> QED BY <1>1, <2>1, Parts DEF Thread
<1>4. IndexInv'
  BY <1>1, <1>3, KeepIndex DEF Convert
<1>5. ScanInv'
  BY <1>1, <1>3, MoveClaim DEF Convert
<1> QED BY <1>3, <1>4, <1>5 DEF IInv

LEMMA TimeoutStep ==
  ASSUME IInv, NEW t \in Pool, Timeout(t)
  PROVE  IInv'
<1>1. CoreInv /\ IndexInv /\ ScanInv /\ thread \in [Pool -> Thread] /\ ThreadInv
  BY Parts DEF IInv
<1>2. GiveUp({t}) /\ thread' = [thread EXCEPT ![t].live = FALSE] /\ thread[t].live
  BY DEF Timeout
<1>3. PICK q \in Thread : q = thread[t]
  BY <1>1
<1>4. PICK r : r = [q EXCEPT !.live = FALSE]
  OBVIOUS
<1>5. r \in Thread /\ r.kind = q.kind /\ r.id = q.id /\ ~r.live
      /\ r.at = q.at /\ r.seen = q.seen /\ r.doc = q.doc
  BY <1>3, <1>4 DEF Thread
<1>6. Fits(r)
  BY <1>1, <1>3, <1>5 DEF ThreadInv, Fits
<1>7. thread' = [thread EXCEPT ![t] = r] /\ thread'[t] = r /\ \A u \in Pool \ {t} : thread'[u] = thread[u]
  BY <1>1, <1>2, <1>3, <1>4
<1>8. FlowsOK' /\ StoresOK'
  BY <1>1, <1>2, Parts, GivenUp DEF StoresOK, Timeout, stores
<1>9. CoreInv'
  <2>1. \A i \in Ids : flows[i].path \in Paths => flows'[i].path \in Paths
    BY <1>1, <1>2, GivenUp
  <2>2. \A u \in Pool : (u # t \/ r.live) /\ thread[u].live =>
           IF thread[u].kind = "scan" THEN scan'.at = "scanning"
           ELSE flows'[thread[u].id].status = "running"
    BY <1>1, <1>2, <1>5, OthersGoOn
  <2>3. r.kind # "none" => r.kind = thread[t].kind /\ r.id = thread[t].id
    BY <1>3, <1>5
  <2> QED BY <1>1, <1>5, <1>6, <1>7, <1>8, <2>1, <2>2, <2>3, MoveCore
<1>10. IndexInv'
  <2>1. \A u \in Pool : thread'[u].kind = "index" =>
           thread[u].kind = "index" /\ thread'[u].doc = thread[u].doc /\ thread'[u].at = thread[u].at
    BY <1>3, <1>5, <1>7
  <2> QED BY <1>1, <2>1, KeepIndex DEF Timeout, stores
<1>11. ScanInv'
  <2>1. r.found = q.found
    BY <1>4
  <2>2. \A u \in {t} : /\ thread'[u].at = thread[u].at /\ thread'[u].seen = thread[u].seen
                       /\ thread'[u].found = thread[u].found /\ ~thread'[u].live
    BY <1>3, <1>5, <1>7, <2>1
  <2>3. registry' = registry
    BY DEF Timeout
  <2> QED BY <1>1, <1>2, <1>7, <1>9, <2>2, <2>3, GiveUpScan
<1> QED BY <1>9, <1>10, <1>11 DEF IInv

LEMMA ReadFileStep ==
  ASSUME IInv, NEW t \in Pool, ReadFile(t)
  PROVE  IInv'
<1>1. CoreInv /\ IndexInv /\ ScanInv /\ thread \in [Pool -> Thread] /\ ThreadInv
      /\ thread[t].kind = "ingest"
  BY Parts DEF IInv, ReadFile, ThreadInv, Fits
<1>2. PICK p : p = flows[thread[t].id].path
  OBVIOUS
<1>3. CASE folder[p] = None
  <2>1. Raise(t) /\ UNCHANGED <<converted, folder, registry, dense, latest, overlapped, attached, replay>>
    BY <1>2, <1>3 DEF ReadFile
  <2>2. CoreInv'
    BY <1>1, <2>1, RaiseCore, Parts DEF StoresOK
  <2>3. IndexInv'
    BY <1>1, <2>1, FreedIndex DEF Raise
  <2>4. ScanInv'
    BY <1>1, <2>1, <2>2, RaiseClaim
  <2> QED BY <2>2, <2>3, <2>4 DEF IInv
<1>4. CASE folder[p] # None
  <2>1. p \in Paths
    BY <1>1, <1>2, Parts DEF LiveInv
  <2>2. PICK d \in Docs : d = <<p, folder[p]>>
    <3>1. folder[p] \in Contents
      BY <1>1, <1>4, <2>1, Parts DEF StoresOK
    <3> QED BY <2>1, <3>1 DEF Docs
  <2>3. PICK a \in {"convert", "parse"} :
          thread' = [thread EXCEPT ![t].doc = d, ![t].at = a]
    BY <1>2, <1>4, <2>2 DEF ReadFile
  <2>4. PICK q \in Thread : q = thread[t]
    BY <1>1
  <2>5. PICK r : r = [q EXCEPT !.doc = d, !.at = a]
    OBVIOUS
  <2>6. /\ r \in Thread /\ r.kind = q.kind /\ r.id = q.id /\ r.live = q.live
        /\ r.at = a /\ r.doc = d
    BY <2>4, <2>5 DEF Thread
  <2>7. Fits(r)
    BY <1>1, <2>4, <2>6 DEF ThreadInv, Fits
  <2>8. thread' = [thread EXCEPT ![t] = r] /\ thread'[t] = r /\ \A u \in Pool \ {t} : thread'[u] = thread[u]
    BY <1>1, <2>3, <2>4, <2>5
  <2>9. UNCHANGED <<flows, scan, lost, dropped, folder, registry, dense, latest, overlapped, attached, replay>>
    BY <1>2, <1>4 DEF ReadFile
  <2>10. converted' \in [Docs -> {"none", "torn", "whole"}]
    <3>1. converted' \in {converted, [converted EXCEPT ![d] = "torn"]}
      BY <1>2, <1>4, <2>2 DEF ReadFile
    <3> QED BY <1>1, <2>2, <3>1, Parts DEF StoresOK
  <2>11. StoresOK'
    BY <1>1, <2>9, <2>10, Parts DEF StoresOK
  <2>12. CoreInv'
    BY <1>1, <2>4, <2>6, <2>7, <2>8, <2>9, <2>11, KeepCore
  <2>13. IndexInv'
    BY <1>1, <2>4, <2>6, <2>8, <2>9, KeepIndex
  <2>14. ScanInv'
    BY <1>1, <2>4, <2>6, <2>8, <2>9, <2>12, MoveClaim
  <2> QED BY <2>12, <2>13, <2>14 DEF IInv
<1> QED BY <1>3, <1>4

LEMMA ParseStep ==
  ASSUME IInv, NEW t \in Pool, Parse(t) \/ ParseFails(t)
  PROVE  IInv'
<1>1. CoreInv /\ IndexInv /\ ScanInv /\ thread[t].kind = "ingest" /\ thread[t].doc \in Docs
  BY Parts DEF IInv, Parse, ParseFails, ThreadInv, Fits
<1>2. UNCHANGED <<folder, registry, converted, dense, latest, overlapped, attached, replay>>
  BY DEF Parse, ParseFails, stores
<1>3. CASE Raise(t)
  <2>1. CoreInv'
    BY <1>1, <1>2, <1>3, RaiseCore, Parts DEF StoresOK
  <2>2. IndexInv'
    BY <1>1, <1>2, <1>3, FreedIndex DEF Raise
  <2>3. ScanInv'
    BY <1>1, <1>2, <1>3, <2>1, RaiseClaim
  <2> QED BY <2>1, <2>2, <2>3 DEF IInv
<1>4. CASE Advance(t)
  <2>1. CoreInv'
    BY <1>1, <1>2, <1>4, AdvanceCore, Parts DEF StoresOK
  <2>2. IndexInv'
    BY <1>1, <1>2, <1>4, FreedIndex DEF Advance
  <2>3. ScanInv'
    BY <1>1, <1>2, <1>4, <2>1, AdvanceClaim
  <2> QED BY <2>1, <2>2, <2>3 DEF IInv
<1> QED BY <1>3, <1>4 DEF Parse, ParseFails

\* Purging and upserting, which a thread does alone with its document or has
\* found it to be shared.
LEMMA DenseStep ==
  ASSUME IInv, NEW t \in Pool, Purge(t) \/ PurgeSkipped(t) \/ Upsert(t)
  PROVE  IInv'
<1>1. CoreInv /\ IndexInv /\ ScanInv /\ thread[t].kind = "index" /\ thread[t].doc \in Docs
      /\ ThreadInv /\ thread \in [Pool -> Thread]
  BY Parts DEF IInv, Purge, PurgeSkipped, Upsert, ThreadInv, Fits
<1>2. PICK d \in Docs : d = thread[t].doc
  BY <1>1
<1>3. /\ UNCHANGED <<folder, registry, scan, flows, converted, latest, overlapped, attached, replay, lost, dropped>>
      /\ dense' \in {dense, dense \ {d}, dense \cup {d}}
      /\ \E a \in {"upsert", "others"} :
           /\ thread' = [thread EXCEPT ![t].at = a]
           /\ \/ thread[t].at = "purge" /\ a = "upsert"
              \/ thread[t].at = "upsert" /\ a = "others"
           /\ a = "others" /\ attached /\ d[2] \notin Blank => d \in dense'
  BY <1>2 DEF Purge, PurgeSkipped, Upsert, stores
<1>4. StoresOK'
  BY <1>1, <1>3, Parts DEF StoresOK
<1>5. PICK a \in {"upsert", "others"} :
        /\ thread' = [thread EXCEPT ![t].at = a]
        /\ \/ thread[t].at = "purge" /\ a = "upsert"
           \/ thread[t].at = "upsert" /\ a = "others"
        /\ a = "others" /\ attached /\ d[2] \notin Blank => d \in dense'
  BY <1>3
<1>6. /\ CoreInv'
      /\ thread'[t] = [thread[t] EXCEPT !.at = a]
      /\ \A u \in Pool \ {t} : thread'[u] = thread[u]
  BY <1>1, <1>3, <1>4, <1>5, MoveAt
<1>7. thread'[t].kind = "index" /\ thread'[t].doc = d /\ thread'[t].at = a
  <2>1. PICK q \in Thread : q = thread[t]
    BY <1>1
  <2> QED BY <1>1, <1>2, <1>6, <2>1 DEF Thread
<1>8. ASSUME d \notin overlapped
      PROVE  /\ \A u \in Pool \ {t} : ~(thread[u].kind = "index" /\ thread[u].doc = d)
             /\ latest[d] # "indexed"
  BY <1>1, <1>2, <1>8 DEF IndexInv
<1>9. \A e \in Docs \ {d} : e \in dense' <=> e \in dense
  BY <1>3
<1>10. LastSuccessStands'
  BY <1>1, <1>3, <1>8, <1>9 DEF IndexInv, LastSuccessStands
<1>11. ASSUME NEW u \in Pool, thread'[u].kind = "index", thread'[u].doc \notin overlapped'
       PROVE  /\ \A v \in Pool \ {u} : ~(thread'[v].kind = "index" /\ thread'[v].doc = thread'[u].doc)
              /\ latest'[thread'[u].doc] # "indexed"
              /\ thread'[u].at = "others" /\ attached' /\ thread'[u].doc[2] \notin Blank =>
                   thread'[u].doc \in dense'
  <2>1. \A v \in Pool : /\ thread'[v].kind = "index" <=> thread[v].kind = "index"
                        /\ thread[v].kind = "index" => thread'[v].doc = thread[v].doc
    BY <1>1, <1>2, <1>6, <1>7
  <2>2. PICK e : e = thread[u].doc
    OBVIOUS
  <2>3. thread[u].kind = "index" /\ e \notin overlapped /\ thread'[u].doc = e
    BY <1>3, <1>11, <2>1, <2>2
  <2>4. /\ \A v \in Pool \ {u} : ~(thread[v].kind = "index" /\ thread[v].doc = e)
        /\ latest[e] # "indexed"
        /\ thread[u].at = "others" /\ attached /\ e[2] \notin Blank => e \in dense
    BY <1>1, <2>2, <2>3 DEF IndexInv
  <2>5. e \in Docs
    BY <1>1, <2>2, <2>3 DEF ThreadInv, Fits
  <2>6. thread'[u].at = "others" /\ attached /\ e[2] \notin Blank => e \in dense'
    <3>1. CASE u = t
      BY <1>2, <1>5, <1>7, <2>2, <3>1
    <3>2. CASE u # t
      <4>1. e # d
        BY <1>1, <1>2, <2>4, <3>2
      <4> QED BY <1>6, <1>9, <2>4, <2>5, <3>2, <4>1
    <3> QED BY <3>1, <3>2
  <2> QED BY <1>3, <2>1, <2>3, <2>4, <2>6
<1>12. IndexInv'
  BY <1>10, <1>11 DEF IndexInv
<1>13. ScanInv'
  BY <1>1, <1>3, <1>6, <1>7, MoveClaim
<1> QED BY <1>6, <1>12, <1>13 DEF IInv

\* A thread that ends leaves the others to themselves.
LEMMA EndIndex ==
  ASSUME CoreInv, IndexInv, NEW t \in Pool, thread' = [thread EXCEPT ![t] = Free],
         NEW d \in Docs, d = thread[t].doc, thread[t].kind = "index",
         UNCHANGED <<dense, overlapped, attached>>,
         NEW how, latest' = [latest EXCEPT ![d] = how],
         how = "indexed" => attached /\ d[2] \notin Blank /\ thread[t].at = "others"
  PROVE  IndexInv'
<1>1. thread'[t].kind = "none" /\ \A u \in Pool \ {t} : thread'[u] = thread[u]
  BY FreedThread, FreeType
<1>2. latest \in [Docs -> {"none", "running", "cut", "empty", "indexed", "local"}] /\ ThreadInv
  BY Parts DEF StoresOK
<1>3. latest'[d] = how /\ \A e \in Docs \ {d} : latest'[e] = latest[e]
  BY <1>2
<1>4. LastSuccessStands'
  <2>1. how = "indexed" /\ d \notin overlapped => d \in dense
    BY DEF IndexInv
  <2> QED BY <1>3, <2>1 DEF IndexInv, LastSuccessStands
<1>5. ASSUME NEW u \in Pool, thread'[u].kind = "index", thread'[u].doc \notin overlapped'
      PROVE  /\ \A v \in Pool \ {u} : ~(thread'[v].kind = "index" /\ thread'[v].doc = thread'[u].doc)
             /\ latest'[thread'[u].doc] # "indexed"
             /\ thread'[u].at = "others" /\ attached' /\ thread'[u].doc[2] \notin Blank =>
                  thread'[u].doc \in dense'
  <2>1. u # t /\ thread'[u] = thread[u]
    BY <1>1, <1>5
  <2>2. PICK e \in Docs : e = thread[u].doc
    BY <1>2, <1>5, <2>1 DEF ThreadInv, Fits
  <2>3. /\ \A v \in Pool \ {u} : ~(thread[v].kind = "index" /\ thread[v].doc = e)
        /\ latest[e] # "indexed"
        /\ thread[u].at = "others" /\ attached /\ e[2] \notin Blank => e \in dense
    BY <1>5, <2>1, <2>2 DEF IndexInv
  <2>4. e # d
    BY <2>1, <2>3
  <2> QED BY <1>1, <1>3, <2>1, <2>2, <2>3, <2>4
<1> QED BY <1>4, <1>5 DEF IndexInv

LEMMA IndexOthersStep ==
  ASSUME IInv, NEW t \in Pool, IndexOthers(t)
  PROVE  IInv'
<1>1. CoreInv /\ IndexInv /\ ScanInv /\ thread[t].kind = "index" /\ thread[t].doc \in Docs
  BY Parts DEF IInv, IndexOthers, ThreadInv, Fits
<1>2. PICK d \in Docs : d = thread[t].doc
  BY <1>1
<1>3. PICK how \in {"empty", "indexed", "local"} :
        /\ latest' = [latest EXCEPT ![d] = how]
        /\ how = "indexed" => attached /\ d[2] \notin Blank
  BY <1>2 DEF IndexOthers
<1>4. CoreInv'
  <2>1. latest' \in [Docs -> {"none", "running", "cut", "empty", "indexed", "local"}]
    BY <1>1, <1>3, Parts DEF StoresOK
  <2> QED BY <1>1, <2>1, AdvanceCore DEF IndexOthers
<1>5. IndexInv'
  <2>1. thread[t].at = "others" /\ thread' = [thread EXCEPT ![t] = Free]
        /\ UNCHANGED <<dense, overlapped, attached>>
    BY DEF IndexOthers, Advance
  <2> QED BY <1>1, <1>2, <1>3, <2>1, EndIndex
<1>6. ScanInv'
  BY <1>1, <1>4, AdvanceClaim DEF IndexOthers
<1> QED BY <1>4, <1>5, <1>6 DEF IInv

LEMMA IndexFailsStep ==
  ASSUME IInv, NEW t \in Pool, IndexFails(t)
  PROVE  IInv'
<1>1. CoreInv /\ IndexInv /\ ScanInv /\ thread[t].kind = "index" /\ thread[t].doc \in Docs
  BY Parts DEF IInv, IndexFails, ThreadInv, Fits
<1>2. PICK d \in Docs : d = thread[t].doc
  BY <1>1
<1>3. latest' = [latest EXCEPT ![d] = "cut"]
  <2>1. latest' = [e \in Docs |-> IF thread[t].kind = "index" /\ thread[t].doc = e THEN "cut" ELSE latest[e]]
    BY DEF IndexFails, Cut
  <2>2. latest \in [Docs -> {"none", "running", "cut", "empty", "indexed", "local"}]
    BY <1>1, Parts DEF StoresOK
  <2> QED BY <1>1, <1>2, <2>1, <2>2
<1>4. CoreInv'
  <2>1. latest' \in [Docs -> {"none", "running", "cut", "empty", "indexed", "local"}]
    BY <1>1, <1>3, Parts DEF StoresOK
  <2>2. StoresOK
    BY <1>1, Parts
  <2> QED BY <1>1, <2>1, <2>2, RaiseCore DEF IndexFails, StoresOK
<1>5. IndexInv'
  <2>1. thread' = [thread EXCEPT ![t] = Free] /\ UNCHANGED <<dense, overlapped, attached>>
    BY DEF IndexFails, Raise
  <2> QED BY <1>1, <1>2, <1>3, <2>1, EndIndex
<1>6. ScanInv'
  BY <1>1, <1>4, RaiseClaim DEF IndexFails
<1> QED BY <1>4, <1>5, <1>6 DEF IInv

LEMMA RestartStep ==
  ASSUME IInv, Restart
  PROVE  IInv'
<1>1. CoreInv /\ IndexInv /\ ScanInv
  BY DEF IInv
<1>2. GiveUp(Pool) /\ thread' = [t \in Pool |-> Free] /\ Pool \in SUBSET Pool
  BY DEF Restart
<1>3. /\ latest' \in [Docs -> {"none", "running", "cut", "empty", "indexed", "local"}]
      /\ \A d \in Docs : latest'[d] = "indexed" => latest[d] = "indexed"
  BY <1>1, Parts DEF Restart, Cut, StoresOK
<1>4. FlowsOK' /\ StoresOK'
  BY <1>1, <1>2, <1>3, Parts, GivenUp DEF StoresOK, Restart
<1>5. CoreInv'
  <2>1. thread' \in [Pool -> Thread] /\ \A t \in Pool : thread'[t].kind = "none" /\ ~thread'[t].live
    BY <1>2, FreeType
  <2>2. ThreadInv'
    BY <1>2, FreeType DEF ThreadInv
  <2> QED BY <1>4, <2>1, <2>2 DEF CoreInv, TypeOK, StoresOK, FlowsOK, LiveInv
<1>6. IndexInv'
  BY <1>1, <1>2, <1>3, FreeType DEF IndexInv, LastSuccessStands, Restart
<1>7. ScanInv'
  <2>1. \A u \in Pool : thread'[u] = Free
    BY <1>2
  <2>2. ~Scans(Free) /\ registry' = registry
    BY DEF Free, Scans, Restart
  <2> QED BY <1>1, <1>2, <1>5, <2>1, <2>2, GiveUpScan
<1> QED BY <1>5, <1>6, <1>7 DEF IInv

-----------------------------------------------------------------------------
(* The steps of the server and of others *)

\* No thread moves and no document changes.
LEMMA StillIndex ==
  ASSUME IndexInv, UNCHANGED <<thread, dense, latest, overlapped, attached>>
  PROVE  IndexInv'
BY DEF IndexInv, LastSuccessStands

LEMMA DropStep ==
  ASSUME IInv, NEW p \in Paths, NEW c \in Contents \cup {None}, Drop(p, c)
  PROVE  IInv'
<1>1. CoreInv /\ IndexInv /\ ScanInv
  BY DEF IInv
<1>2. StoresOK' /\ FlowsOK'
  BY <1>1, Parts DEF Drop, stores, StoresOK, FlowsOK, FlowInv
<1>3. CoreInv'
  BY <1>1, <1>2, StillCore DEF Drop
<1>4. IndexInv'
  BY <1>1, StillIndex DEF Drop, stores
<1>5. ScanInv'
  <2>1. \A d \in Contents : Dispatched(d)' <=> Dispatched(d)
    BY DEF Drop, Dispatched
  <2> QED BY <1>1, <1>3, <2>1, KeepClaim DEF Drop, CoreInv
<1> QED BY <1>3, <1>4, <1>5 DEF IInv

LEMMA CallStep ==
  ASSUME IInv, \/ \E ids \in SUBSET Ids : CallReplay(ids)
               \/ \E id \in Ids : Describe(id)
  PROVE  IInv'
<1>1. CoreInv /\ IndexInv /\ ScanInv
  BY DEF IInv
<1>2. UNCHANGED <<folder, registry, scan, flows, thread, converted, dense, latest, overlapped, attached, lost, dropped>>
  BY DEF CallReplay, Describe, stores
<1>3. replay' \in [todo : SUBSET Ids, id : Ids \cup {None}]
  BY <1>1, Parts DEF CallReplay, Describe, NoReplay, StoresOK
<1>4. StoresOK' /\ FlowsOK'
  BY <1>1, <1>2, <1>3, Parts DEF StoresOK, FlowsOK, FlowInv
<1>5. CoreInv'
  BY <1>1, <1>2, <1>4, StillCore
<1>6. IndexInv'
  BY <1>1, <1>2, StillIndex
<1>7. ScanInv'
  <2>1. \A d \in Contents : Dispatched(d)' <=> Dispatched(d)
    BY <1>2 DEF Dispatched
  <2> QED BY <1>1, <1>2, <1>5, <2>1, KeepClaim DEF CoreInv
<1> QED BY <1>5, <1>6, <1>7 DEF IInv

\* A run starts, of a file and under an id that no open run has.
LEMMA StartedFlows ==
  ASSUME FlowsOK, NEW new \in Ids, NEW p \in Paths, flows' = [flows EXCEPT ![new] = Started(p)]
  PROVE  /\ FlowsOK' /\ flows'[new].status = "running"
         /\ \A i \in Ids \ {new} : flows'[i] = flows[i]
         /\ \A i \in Ids : /\ flows[i].status = "running" => flows'[i].status = "running"
                           /\ flows[i].path \in Paths => flows'[i].path \in Paths
<1>1. Started(p) \in Flow /\ Started(p).step = "ingest" /\ Started(p).status = "running" /\ Started(p).path = p
  BY NewFlows DEF Started, NoFlow
<1>2. flows \in [Ids -> Flow] /\ FlowInv
  BY DEF FlowsOK
<1>3. flows' \in [Ids -> Flow] /\ flows'[new] = Started(p) /\ \A i \in Ids \ {new} : flows'[i] = flows[i]
  BY <1>1, <1>2
<1>4. FlowsOK'
  BY <1>1, <1>2, <1>3 DEF FlowsOK, FlowInv
<1> QED BY <1>1, <1>3, <1>4

LEMMA ReplayStep ==
  ASSUME IInv, NEW s \in Replays, StartReplay(s)
  PROVE  IInv'
<1>1. CoreInv /\ IndexInv /\ ScanInv
  BY DEF IInv
<1>2. UNCHANGED <<folder, registry, scan, thread, converted, dense, latest, overlapped, attached, lost, dropped>>
  BY DEF StartReplay, stores
<1>3. PICK id \in Ids : id = replay.id
  BY <1>1, Parts DEF StartReplay, StoresOK
<1>4. id[1] \in Contents /\ <<id[1], s>> \in Ids /\ s # 0
  BY Nothing DEF Ids
<1>5. PICK new \in Ids : new = <<id[1], s>>
  BY <1>4
<1>6. replay' \in [todo : SUBSET Ids, id : Ids \cup {None}]
  <2>1. replay' \in {NoReplay, [replay EXCEPT !.id = None]}
    BY DEF StartReplay
  <2> QED BY <1>1, <2>1, Parts DEF NoReplay, StoresOK
<1>7. StoresOK'
  BY <1>1, <1>2, <1>6, Parts DEF StoresOK
<1>8. \/ flows' = flows
      \/ PathOf(id) # None /\ flows' = [flows EXCEPT ![new] = Started(PathOf(id))]
  BY <1>3, <1>5 DEF StartReplay, Restarted
<1>9. PathOf(id) \in Paths \cup {None}
  BY <1>1, <1>4, Parts DEF PathOf, Loaded, StoresOK, Registry
<1>10. /\ FlowsOK' /\ \A i \in Ids \ {new} : flows'[i] = flows[i]
       /\ \A i \in Ids : /\ flows[i].status = "running" => flows'[i].status = "running"
                         /\ flows[i].path \in Paths => flows'[i].path \in Paths
  <2>1. CASE flows' = flows
    BY <1>1, <2>1, Parts DEF FlowsOK, FlowInv
  <2>2. CASE PathOf(id) # None /\ flows' = [flows EXCEPT ![new] = Started(PathOf(id))]
    <3>1. PICK p \in Paths : p = PathOf(id)
      BY <1>9, <2>2
    <3> QED BY <1>1, <2>2, <3>1, Parts, StartedFlows
  <2> QED BY <1>8, <2>1, <2>2
<1>11. CoreInv'
  BY <1>1, <1>2, <1>7, <1>10, StillCore
<1>12. IndexInv'
  BY <1>1, <1>2, StillIndex
<1>13. ScanInv'
  <2>1. \A c \in Contents : <<c, 0>> \in Ids \ {new}
    BY <1>4, <1>5, Nothing
  <2>2. \A c \in Contents : Dispatched(c)' <=> Dispatched(c)
    BY <1>10, <2>1 DEF Dispatched
  <2> QED BY <1>1, <1>2, <1>11, <2>2, KeepClaim DEF CoreInv
<1> QED BY <1>11, <1>12, <1>13 DEF IInv

\* An attempt takes a free thread.
LEMMA Attempted ==
  ASSUME CoreInv, NEW t \in Pool, NEW kind \in {"scan", "ingest", "index"}, NEW id \in Ids \cup {None},
         NEW a \in {"load", "read", "purge"}, NEW doc \in Docs \cup {None}, Attempt(t, kind, id, a, doc),
         \/ kind = "scan" /\ a = "load" /\ id = None
         \/ kind = "ingest" /\ a = "read" /\ id \in Ids
         \/ kind = "index" /\ a = "purge" /\ id \in Ids /\ doc \in Docs,
         StoresOK', FlowsOK',
         \A i \in Ids : /\ flows'[i].status = flows[i].status
                        /\ flows'[i].path = flows[i].path,
         scan'.at = scan.at,
         kind = "scan" => scan.at = "scanning",
         kind # "scan" => flows[id].status = "running"
  PROVE  /\ CoreInv'
         /\ thread[t].kind = "none" /\ \A u \in Pool : thread[u].live => thread[u].id # id
         /\ \A u \in Pool \ {t} : thread'[u] = thread[u]
         /\ thread'[t].kind = kind /\ thread'[t].at = a /\ thread'[t].doc = doc
         /\ thread'[t].live /\ thread'[t].id = id
<1>1. thread \in [Pool -> Thread] /\ ThreadInv /\ LiveInv /\ FlowsOK
  BY Parts
<1>2. PICK r : r = [Free EXCEPT !.kind = kind, !.id = id, !.live = TRUE, !.at = a, !.doc = doc]
  OBVIOUS
<1>3. /\ r \in Thread /\ r.kind = kind /\ r.id = id /\ r.live /\ r.at = a /\ r.doc = doc
  BY <1>2, FreeType DEF Free, Thread
<1>4. Fits(r)
  BY <1>3 DEF Fits
<1>5. /\ thread' = [thread EXCEPT ![t] = r] /\ thread[t].kind = "none"
      /\ \A u \in Pool : thread[u].live => thread[u].id # id
  BY <1>2 DEF Attempt, Busy
<1>6. thread' \in [Pool -> Thread] /\ thread'[t] = r /\ \A u \in Pool \ {t} : thread'[u] = thread[u]
  BY <1>1, <1>3, <1>5
<1>7. ThreadInv'
  BY <1>1, <1>4, <1>6 DEF ThreadInv
<1>8. LiveInv'
  <2>1. ASSUME NEW u \in Pool, thread'[u].kind \in {"ingest", "index"}
        PROVE  flows'[thread'[u].id].path \in Paths
    <3>1. CASE u = t
      BY <1>1, <1>3, <1>6, <2>1, <3>1 DEF FlowsOK, FlowInv
    <3>2. CASE u # t
      <4>1. thread'[u] = thread[u] /\ thread[u].id \in Ids
        BY <1>1, <1>6, <2>1, <3>2 DEF ThreadInv, Fits
      <4> QED BY <1>1, <2>1, <4>1 DEF LiveInv
    <3> QED BY <3>1, <3>2
  <2>2. ASSUME NEW u \in Pool, thread'[u].live
        PROVE  IF thread'[u].kind = "scan" THEN scan'.at = "scanning"
               ELSE flows'[thread'[u].id].status = "running"
    <3>1. CASE u = t
      BY <1>3, <1>6, <3>1
    <3>2. CASE u # t
      <4>1. /\ thread'[u] = thread[u] /\ (thread[u].kind # "scan" => thread[u].id \in Ids)
        BY <1>1, <1>6, <2>2, <3>2 DEF ThreadInv, Fits, Thread
      <4> QED BY <1>1, <2>2, <4>1 DEF LiveInv
    <3> QED BY <3>1, <3>2
  <2>3. \A u, v \in Pool : thread'[u].live /\ thread'[v].live /\ thread'[u].id = thread'[v].id => u = v
    BY <1>1, <1>3, <1>5, <1>6 DEF LiveInv
  <2> QED BY <2>1, <2>2, <2>3 DEF LiveInv
<1> QED BY <1>3, <1>5, <1>6, <1>7, <1>8 DEF CoreInv, TypeOK, StoresOK, FlowsOK

LEMMA AttemptStepStep ==
  ASSUME IInv, NEW t \in Pool, NEW id \in Ids, AttemptStep(t, id)
  PROVE  IInv'
<1>1. CoreInv /\ IndexInv /\ ScanInv
  BY DEF IInv
<1>2. UNCHANGED <<folder, registry, scan, converted, dense, attached, replay, lost, dropped>>
      /\ flows[id].status = "running" /\ flows' = [flows EXCEPT ![id] = Counted(flows[id])]
  BY DEF AttemptStep
<1>3. flows \in [Ids -> Flow] /\ FlowInv
  BY <1>1, Parts DEF FlowsOK
<1>4. /\ FlowsOK'
      /\ \A i \in Ids : /\ flows'[i].status = flows[i].status
                        /\ flows'[i].path = flows[i].path
  <2>1. PICK f \in Flow : f = flows[id]
    BY <1>3
  <2>2. /\ Counted(f) \in Flow /\ Counted(f).status = f.status
        /\ Counted(f).step = f.step /\ Counted(f).doc = f.doc /\ Counted(f).path = f.path
    BY FlowTypes DEF Counted, Flow
  <2>3. flows' \in [Ids -> Flow] /\ flows'[id] = Counted(f) /\ \A i \in Ids \ {id} : flows'[i] = flows[i]
    BY <1>2, <1>3, <2>1, <2>2
  <2> QED BY <1>3, <2>1, <2>2, <2>3 DEF FlowsOK, FlowInv
<1>5. \A c \in Contents : Dispatched(c)' <=> Dispatched(c)
  BY <1>4, Nothing DEF Dispatched
<1>6. CASE flows[id].step = "ingest"
  <2>1. Attempt(t, "ingest", id, "read", None) /\ UNCHANGED <<latest, overlapped>>
    BY <1>6 DEF AttemptStep
  <2>2. StoresOK'
    BY <1>1, <1>2, <2>1, Parts DEF StoresOK
  <2>3. /\ CoreInv' /\ thread[t].kind = "none" /\ thread'[t].kind = "ingest"
        /\ \A u \in Pool \ {t} : thread'[u] = thread[u]
    BY <1>1, <1>2, <1>4, <2>1, <2>2, Attempted
  <2>4. IndexInv'
    BY <1>1, <1>2, <2>1, <2>3, KeepIndex
  <2>5. ScanInv'
    <3>1. \A u \in Pool : thread[u].kind = "scan" \/ thread'[u].kind = "scan" => thread'[u] = thread[u]
      BY <2>3
    <3> QED BY <1>1, <1>2, <1>5, <2>3, <3>1, KeepClaim DEF CoreInv
  <2> QED BY <2>3, <2>4, <2>5 DEF IInv
<1>7. CASE flows[id].step = "index"
  <2>1. PICK d \in Docs : d = flows[id].doc
    BY <1>3, <1>7 DEF FlowInv
  <2>2. /\ Attempt(t, "index", id, "purge", d)
        /\ latest' = [latest EXCEPT ![d] = "running"]
        /\ overlapped' = overlapped \cup ({d} \cap Indexing)
    BY <1>7, <2>1 DEF AttemptStep
  <2>3. StoresOK'
    BY <1>1, <1>2, <2>2, Parts DEF StoresOK
  <2>4. /\ CoreInv' /\ thread[t].kind = "none"
        /\ thread'[t].kind = "index" /\ thread'[t].at = "purge" /\ thread'[t].doc = d
        /\ \A u \in Pool \ {t} : thread'[u] = thread[u]
    BY <1>1, <1>2, <1>4, <2>2, <2>3, Attempted
  <2>5. latest'[d] = "running" /\ \A e \in Docs \ {d} : latest'[e] = latest[e]
    BY <1>1, <2>2, Parts DEF StoresOK
  <2>6. \A u \in Pool : thread[u].kind = "index" /\ thread[u].doc \notin overlapped' => thread[u].doc # d
    BY <2>2 DEF Indexing
  <2>7. d \notin overlapped' => \A u \in Pool : ~(thread[u].kind = "index" /\ thread[u].doc = d)
    BY <2>2 DEF Indexing
  <2>8. \A e : e \notin overlapped' => e \notin overlapped
    BY <2>2
  <2>9. LastSuccessStands'
    BY <1>1, <1>2, <2>5, <2>8 DEF IndexInv, LastSuccessStands
  <2>10. ASSUME NEW u \in Pool, thread'[u].kind = "index", thread'[u].doc \notin overlapped'
         PROVE  /\ \A v \in Pool \ {u} : ~(thread'[v].kind = "index" /\ thread'[v].doc = thread'[u].doc)
                /\ latest'[thread'[u].doc] # "indexed"
                /\ thread'[u].at = "others" /\ attached' /\ thread'[u].doc[2] \notin Blank =>
                     thread'[u].doc \in dense'
    <3>1. CASE u = t
      BY <2>4, <2>5, <2>7, <2>10, <3>1
    <3>2. CASE u # t
      <4>1. thread'[u] = thread[u]
        BY <2>4, <3>2
      <4>2. PICK e \in Docs : e = thread[u].doc
        BY <1>1, <2>10, <4>1, Parts DEF ThreadInv, Fits
      <4>3. e # d /\ e \notin overlapped
        BY <2>6, <2>8, <2>10, <4>1, <4>2
      <4>4. /\ \A v \in Pool \ {u} : ~(thread[v].kind = "index" /\ thread[v].doc = e)
            /\ latest[e] # "indexed"
            /\ thread[u].at = "others" /\ attached /\ e[2] \notin Blank => e \in dense
        BY <1>1, <2>10, <4>1, <4>2, <4>3 DEF IndexInv
      <4> QED BY <1>2, <2>4, <2>5, <4>1, <4>2, <4>3, <4>4
    <3> QED BY <3>1, <3>2
  <2>11. IndexInv'
    BY <2>9, <2>10 DEF IndexInv
  <2>12. ScanInv'
    <3>1. \A u \in Pool : thread[u].kind = "scan" \/ thread'[u].kind = "scan" => thread'[u] = thread[u]
      BY <2>4
    <3> QED BY <1>1, <1>2, <1>5, <2>4, <3>1, KeepClaim DEF CoreInv
  <2> QED BY <2>4, <2>11, <2>12 DEF IInv
<1> QED BY <1>3, <1>6, <1>7 DEF Flow

-----------------------------------------------------------------------------
(* The scan *)

\* The attempt whose result a scan awaits is the only one, and nothing is dispatched.
LEMMA SoloScan ==
  ASSUME CoreInv, ScanInv, NEW t \in Pool, thread[t].kind = "scan", thread[t].live
  PROVE  /\ scan.at = "scanning" /\ scan.todo = {}
         /\ \A u \in Pool \ {t} : ~(thread[u].kind = "scan" /\ thread[u].live)
         /\ \A u \in Pool \ {t} : ~(Scans(thread[u]) /\ thread[u].live)
<1>1. scan.at = "scanning"
  BY Parts DEF LiveInv
<1>2. scan.todo = {}
  BY <1>1 DEF ScanInv, ClaimInv
<1>3. \A u \in Pool \ {t} : ~(thread[u].kind = "scan" /\ thread[u].live)
  BY Parts DEF LiveInv, ThreadInv, Fits
<1>4. \A u \in Pool : Scans(thread[u]) => thread[u].kind = "scan"
  BY Parts DEF ThreadInv, Fits, Scans
<1> QED BY <1>1, <1>2, <1>3, <1>4

LEMMA StartScanStep ==
  ASSUME IInv, StartScan
  PROVE  IInv'
<1>1. CoreInv /\ IndexInv /\ ScanInv
  BY DEF IInv
<1>2. /\ UNCHANGED <<folder, registry, flows, thread, converted, dense, latest, overlapped, attached, replay, lost, dropped>>
      /\ scan.at = "idle" /\ scan' = [at |-> "scanning", attempts |-> 0, todo |-> {}]
  BY DEF StartScan, NoScan, stores
<1>3. StoresOK' /\ FlowsOK'
  BY <1>1, <1>2, Parts DEF StoresOK, FlowsOK, FlowInv
<1>4. CoreInv'
  BY <1>1, <1>2, <1>3, StillCore
<1>5. IndexInv'
  BY <1>1, <1>2, StillIndex
<1>6. ScanInv'
  <2>1. scan.todo = {} /\ scan'.todo = {}
    BY <1>1, <1>2 DEF ScanInv, ClaimInv
  <2>2. \A c \in Contents : Dispatched(c)' <=> Dispatched(c)
    BY <1>2 DEF Dispatched
  <2> QED BY <1>1, <1>2, <1>4, <2>1, <2>2, KeepScan DEF Scans
<1> QED BY <1>4, <1>5, <1>6 DEF IInv

LEMMA AttemptScanStep ==
  ASSUME IInv, NEW t \in Pool, AttemptScan(t)
  PROVE  IInv'
<1>1. CoreInv /\ IndexInv /\ ScanInv
  BY DEF IInv
<1>2. /\ UNCHANGED <<folder, registry, flows, converted, dense, latest, overlapped, attached, replay, lost, dropped>>
      /\ scan.at = "scanning" /\ scan' = [scan EXCEPT !.attempts = @ + 1]
      /\ Attempt(t, "scan", None, "load", None)
  BY DEF AttemptScan, stores
<1>3. /\ scan' \in [at : {"idle", "scanning", "dispatching"}, attempts : Nat, todo : SUBSET Docs]
      /\ scan'.at = "scanning"
  <2>1. scan \in [at : {"idle", "scanning", "dispatching"}, attempts : Nat, todo : SUBSET Docs]
    BY <1>1, Parts DEF StoresOK
  <2> QED BY <1>2, <2>1
<1>4. StoresOK' /\ FlowsOK'
  BY <1>1, <1>2, <1>3, Parts DEF StoresOK, FlowsOK, FlowInv
<1>5. /\ CoreInv' /\ thread[t].kind = "none"
      /\ \A u \in Pool : thread[u].live => thread[u].id # None
      /\ \A u \in Pool \ {t} : thread'[u] = thread[u]
      /\ thread'[t].kind = "scan" /\ thread'[t].at = "load" /\ thread'[t].live
  BY <1>1, <1>2, <1>3, <1>4, Attempted
<1>6. IndexInv'
  BY <1>1, <1>2, <1>5, KeepIndex
<1>7. ScanInv'
  <2>1. scan'.todo = scan.todo
    <3>1. PICK sc \in [at : {"idle", "scanning", "dispatching"}, attempts : Nat, todo : SUBSET Docs] : sc = scan
      BY <1>1, Parts DEF StoresOK
    <3> QED BY <1>2, <3>1
  <2>2. scan.todo # {} => scan.at = "dispatching"
    BY <1>1 DEF ScanInv, ClaimInv
  <2>3. \A c \in Contents : Dispatched(c)' <=> Dispatched(c)
    BY <1>2 DEF Dispatched
  <2>4. ~Scans(thread'[t]) /\ ~Scans(thread[t])
    BY <1>1, <1>5, Parts DEF Scans, ThreadInv, Fits
  <2>5. /\ \A u \in Pool : Scans(thread'[u]) => thread'[u] = thread[u]
        /\ \A u \in Pool : Scans(thread[u]) => thread'[u] = thread[u]
    BY <1>5, <2>4
  <2> QED BY <1>1, <1>2, <1>5, <2>1, <2>2, <2>3, <2>5, KeepScan
<1> QED BY <1>5, <1>6, <1>7 DEF IInv

FilesOf(loaded) == {<<First(c), c>> : c \in Unseen(loaded)}
ClaimsOf(loaded) == [c \in Contents |-> IF c \in Unseen(loaded) THEN First(c) ELSE loaded[c]]

\* What Unseen finds: one path for each content that was not claimed.
LEMMA Unclaimed ==
  ASSUME NEW loaded \in Registry, NEW found, found = Unseen(loaded),
         NEW fs, fs = FilesOf(loaded), NEW seen, seen = ClaimsOf(loaded)
  PROVE  /\ fs \in SUBSET Docs /\ seen \in Registry
         /\ \A d, e \in fs : d[2] = e[2] => d = e
         /\ \A d \in fs : d[2] \in found /\ d[2] \in Contents
         /\ \A c \in found : loaded[c] = None
         /\ \A c \in Contents : /\ c \in ContentsOf(fs) <=> c \in found
                                /\ c \in found => seen[c] # None
                                /\ c \notin found => seen[c] = loaded[c]
<1>0. /\ fs = {<<First(c), c>> : c \in found}
      /\ seen = [c \in Contents |-> IF c \in found THEN First(c) ELSE loaded[c]]
  BY DEF FilesOf, ClaimsOf
<1>1. \A c \in found : c \in Contents /\ loaded[c] = None /\ First(c) \in Paths
  <2> SUFFICES ASSUME NEW c \in found PROVE c \in Contents /\ loaded[c] = None /\ First(c) \in Paths
    OBVIOUS
  <2>1. c \in Contents /\ loaded[c] = None /\ \E p \in Paths : folder[p] = c
    BY DEF Unseen
  <2>2. PICK p \in Paths : folder[p] = c
    BY <2>1
  <2> QED BY <2>1, <2>2, FirstIn
<1>2. fs \in SUBSET Docs
  <2>1. \A c \in found : <<First(c), c>> \in Docs
    BY <1>1 DEF Docs
  <2> QED BY <1>0, <2>1
<1>3. \A c \in Contents : c \in ContentsOf(fs) <=> c \in found
  <2> SUFFICES ASSUME NEW c \in Contents PROVE c \in ContentsOf(fs) <=> c \in found
    OBVIOUS
  <2>1. ASSUME c \in found PROVE c \in ContentsOf(fs)
    <3>1. <<First(c), c>> \in fs /\ <<First(c), c>>[2] = c
      BY <1>0, <2>1
    <3> QED BY <3>1 DEF ContentsOf
  <2>2. ASSUME c \in ContentsOf(fs) PROVE c \in found
    <3>1. PICK d \in fs : d[2] = c
      BY <2>2 DEF ContentsOf
    <3>2. PICK e \in found : d = <<First(e), e>>
      BY <1>0, <3>1
    <3> QED BY <3>1, <3>2
  <2> QED BY <2>1, <2>2
<1>4. /\ \A d, e \in fs : d[2] = e[2] => d = e
      /\ \A d \in fs : d[2] \in found
  <2>1. ASSUME NEW d \in fs PROVE d[2] \in found /\ d = <<First(d[2]), d[2]>>
    <3>1. PICK e \in found : d = <<First(e), e>>
      BY <1>0, <2>1
    <3> QED BY <3>1
  <2> QED BY <2>1
<1>5. \A c \in Contents : /\ c \in found => seen[c] # None
                          /\ c \notin found => seen[c] = loaded[c]
  BY <1>0, <1>1, Nothing
<1>6. seen \in Registry
  BY <1>0, <1>1 DEF Registry
<1> QED BY <1>1, <1>2, <1>3, <1>4, <1>5, <1>6

LEMMA ScanFolderStep ==
  ASSUME IInv, NEW t \in Pool, ScanFolder(t)
  PROVE  IInv'
<1>1. CoreInv /\ IndexInv /\ ScanInv /\ thread \in [Pool -> Thread] /\ ThreadInv
      /\ thread[t].at = "load" /\ thread[t].kind = "scan" /\ thread[t].id = None
  BY Parts DEF IInv, ScanFolder, ThreadInv, Fits
<1>2. UNCHANGED <<folder, registry, scan, flows, converted, dense, latest, overlapped, attached, replay>>
  BY DEF ScanFolder, stores
<1>3. Loaded \in Registry
  BY <1>1, Parts DEF StoresOK, Loaded, Registry
<1>4. PICK loaded \in Registry : loaded = Loaded
  BY <1>3
<1>5. PICK found : found = Unseen(loaded)
  OBVIOUS
<1>6. PICK fs : fs = FilesOf(loaded)
  OBVIOUS
<1>7. PICK seen : seen = ClaimsOf(loaded)
  OBVIOUS
<1>8. PICK a \in {"open", "return"} :
        /\ a = "return" <=> found = {}
        /\ thread' = [thread EXCEPT ![t].at = a, ![t].seen = seen, ![t].found = fs]
  <2>1. thread' = [thread EXCEPT ![t].at = IF found = {} THEN "return" ELSE "open",
                                 ![t].seen = seen, ![t].found = fs]
    BY <1>4, <1>5, <1>6, <1>7 DEF ScanFolder, FilesOf, ClaimsOf
  <2> QED BY <2>1
<1>9. /\ fs \in SUBSET Docs /\ seen \in Registry
      /\ \A d, e \in fs : d[2] = e[2] => d = e
      /\ \A d \in fs : d[2] \in found /\ d[2] \in Contents
      /\ \A c \in found : loaded[c] = None
      /\ \A c \in Contents : /\ c \in ContentsOf(fs) <=> c \in found
                             /\ c \in found => seen[c] # None
                             /\ c \notin found => seen[c] = loaded[c]
  BY <1>4, <1>5, <1>6, <1>7, Unclaimed
<1>10. PICK q \in Thread : q = thread[t]
  BY <1>1
<1>11. PICK r : r = [q EXCEPT !.at = a, !.seen = seen, !.found = fs]
  OBVIOUS
<1>12. /\ r \in Thread /\ r.kind = "scan" /\ r.id = None /\ r.live = q.live
       /\ r.at = a /\ r.seen = seen /\ r.found = fs
  BY <1>1, <1>9, <1>10, <1>11 DEF Thread
<1>13. Fits(r)
  BY <1>9, <1>12 DEF Fits
<1>14. thread' = [thread EXCEPT ![t] = r] /\ thread'[t] = r /\ \A u \in Pool \ {t} : thread'[u] = thread[u]
  BY <1>1, <1>8, <1>10, <1>11
<1>20. \A c \in Contents : Dispatched(c)' <=> Dispatched(c)
  BY <1>2 DEF Dispatched
<1>21. ContentsOf(fs) \subseteq Contents
  BY <1>9 DEF ContentsOf
<1>22. /\ lost' = IF q.live /\ registry \in {Torn, Mixed}
                  THEN lost \cup {c \in Contents : Dispatched(c)} ELSE lost
       /\ dropped' = IF q.live THEN dropped ELSE dropped \cup ContentsOf(fs)
  BY <1>4, <1>6, <1>10 DEF ScanFolder, FilesOf
<1>23. lost \subseteq lost' /\ dropped \subseteq dropped' /\ lost' \subseteq Contents /\ dropped' \subseteq Contents
  BY <1>1, <1>21, <1>22, Parts DEF StoresOK
<1>15. CoreInv'
  <2>1. StoresOK'
    BY <1>1, <1>2, <1>23, Parts DEF StoresOK
  <2> QED BY <1>1, <1>2, <1>10, <1>12, <1>13, <1>14, <2>1, KeepCore
<1>16. IndexInv'
  BY <1>1, <1>2, <1>12, <1>14, KeepIndex
<1>17. ClaimInv /\ KeptInv
  BY <1>1 DEF ScanInv
<1>18. ASSUME NEW c \in Contents, Accounted(c) PROVE Accounted(c)'
  <2>1. CASE Dispatched(c) \/ c \in dropped \/ c \in ContentsOf(scan.todo)
    BY <1>2, <1>20, <1>23, <2>1 DEF Accounted, ContentsOf
  <2>2. CASE Coming(c)
    <3>1. PICK u \in Pool : thread[u].live /\ Scans(thread[u]) /\ c \in ContentsOf(thread[u].found)
      BY <2>2 DEF Coming, Scans
    <3>2. thread'[u] = thread[u]
      BY <1>1, <1>14, <3>1 DEF Scans
    <3> QED BY <3>1, <3>2 DEF Accounted, Coming, Scans, ContentsOf
  <2> QED BY <1>18, <2>1, <2>2 DEF Accounted
<1>19. ClaimInv'
  <2>1. registry' \in Registry => \A c \in Contents : registry'[c] # None => Accounted(c)'
    BY <1>2, <1>17, <1>18 DEF ClaimInv
  <2>2. ASSUME NEW c \in Contents, seen[c] # None PROVE Accounted(c)'
    <3>1. CASE c \in found
      <4>1. c \in ContentsOf(fs)
        BY <1>9, <3>1
      <4>2. CASE q.live
        <5>1. thread'[t].live /\ Scans(thread'[t]) /\ c \in ContentsOf(thread'[t].found)
          BY <1>12, <1>14, <4>1, <4>2 DEF Scans
        <5> QED BY <5>1 DEF Accounted, Coming, Scans, ContentsOf
      <4>3. CASE ~q.live
        BY <1>22, <4>1, <4>3 DEF Accounted
      <4> QED BY <4>2, <4>3
    <3>2. CASE c \notin found
      <4>1. loaded[c] # None
        BY <1>9, <2>2, <3>2
      <4>2. registry \in Registry /\ registry[c] # None
        BY <1>1, <1>4, <4>1, Parts DEF Loaded, StoresOK
      <4> QED BY <1>17, <1>18, <4>2 DEF ClaimInv
    <3> QED BY <3>1, <3>2
  <2>3. \A u \in Pool : Scans(thread'[u]) => \A c \in Contents : thread'[u].seen[c] # None => Accounted(c)'
    <3> SUFFICES ASSUME NEW u \in Pool, Scans(thread'[u]), NEW c \in Contents, thread'[u].seen[c] # None
                 PROVE  Accounted(c)'
      OBVIOUS
    <3>1. CASE u = t
      BY <1>12, <1>14, <2>2, <3>1
    <3>2. CASE u # t
      BY <1>14, <1>17, <1>18, <3>2 DEF ClaimInv, Scans
    <3> QED BY <3>1, <3>2
  <2>4. \A u \in Pool : Scans(thread'[u]) /\ ~thread'[u].live => ContentsOf(thread'[u].found) \subseteq dropped'
    <3> SUFFICES ASSUME NEW u \in Pool, Scans(thread'[u]), ~thread'[u].live
                 PROVE  ContentsOf(thread'[u].found) \subseteq dropped'
      OBVIOUS
    <3>1. CASE u = t
      BY <1>12, <1>14, <1>22, <3>1
    <3>2. CASE u # t
      BY <1>14, <1>17, <1>23, <3>2 DEF ClaimInv, Scans
    <3> QED BY <3>1, <3>2
  <2>5. scan'.todo # {} => scan'.at = "dispatching"
    BY <1>2, <1>17 DEF ClaimInv
  <2> QED BY <2>1, <2>3, <2>4, <2>5 DEF ClaimInv, Scans, Registry, ContentsOf
<1>24. KeptInv'
  <2>1. ASSUME NEW c \in Contents, InHand(c)' PROVE InHand(c)
    <3>1. CASE c \in ContentsOf(scan'.todo)
      BY <1>2, <3>1 DEF InHand, ContentsOf
    <3>2. CASE \E u \in Pool : thread'[u].live /\ thread'[u].at = "return" /\ c \in ContentsOf(thread'[u].found)
      <4>1. PICK u \in Pool : thread'[u].live /\ thread'[u].at = "return" /\ c \in ContentsOf(thread'[u].found)
        BY <3>2
      <4>2. u # t
        <5>1. a = "return" => c \notin ContentsOf(fs)
          BY <1>8, <1>9
        <5> QED BY <1>12, <1>14, <4>1, <5>1
      <4> QED BY <1>14, <4>1, <4>2 DEF InHand
    <3> QED BY <2>1, <3>1, <3>2 DEF InHand, ContentsOf
  <2>2. registry' \in Registry => \A c \in Contents \ lost' : Dispatched(c)' \/ InHand(c)' => registry'[c] # None
    BY <1>2, <1>17, <1>20, <1>23, <2>1 DEF KeptInv
  <2>3. ASSUME NEW ds \in SUBSET Docs, NewInv(ds)
        PROVE  /\ \A d \in ds : ~Dispatched(d[2])' \/ d[2] \in lost'
               /\ \A d, e \in ds : d[2] = e[2] => d = e
    BY <1>20, <1>23, <2>3 DEF NewInv, Docs
  <2>4. ASSUME q.live
        PROVE  /\ \A d \in fs : ~Dispatched(d[2])' \/ d[2] \in lost'
               /\ \A d, e \in fs : d[2] = e[2] => d = e
               /\ \A c \in Contents \ lost' : Dispatched(c)' \/ c \in ContentsOf(fs) => seen[c] # None
    <3>1. ASSUME NEW c \in Contents \ lost', Dispatched(c) PROVE loaded[c] # None
      <4>1. registry \in Registry
        BY <1>1, <1>22, <2>4, <3>1, Parts DEF StoresOK
      <4>2. loaded = registry
        BY <1>4, <4>1, Nothing DEF Loaded
      <4> QED BY <1>17, <1>23, <3>1, <4>1, <4>2 DEF KeptInv
    <3>2. \A d \in fs : ~Dispatched(d[2])' \/ d[2] \in lost'
      BY <1>9, <1>20, <3>1
    <3>3. \A c \in Contents \ lost' : Dispatched(c)' \/ c \in ContentsOf(fs) => seen[c] # None
      BY <1>9, <1>20, <3>1
    <3> QED BY <1>9, <3>2, <3>3
  <2>5. ASSUME NEW u \in Pool, thread'[u].live, Scans(thread'[u])
        PROVE  /\ \A d \in thread'[u].found : ~Dispatched(d[2])' \/ d[2] \in lost'
               /\ \A d, e \in thread'[u].found : d[2] = e[2] => d = e
               /\ \A c \in Contents \ lost' :
                    Dispatched(c)' \/ c \in ContentsOf(thread'[u].found) => thread'[u].seen[c] # None
    <3>1. CASE u = t
      BY <1>12, <1>14, <2>4, <2>5, <3>1
    <3>2. CASE u # t
      <4>1. PICK ds \in SUBSET Docs : ds = thread[u].found
        BY <1>1 DEF Thread
      <4>2. /\ NewInv(ds) /\ thread'[u] = thread[u]
            /\ \A c \in Contents \ lost : Dispatched(c) \/ c \in ContentsOf(ds) => thread[u].seen[c] # None
        BY <1>14, <1>17, <2>5, <3>2, <4>1 DEF KeptInv, Scans
      <4> QED BY <1>20, <1>23, <2>3, <4>1, <4>2
    <3> QED BY <3>1, <3>2
  <2>6. NewInv(scan.todo)'
    <3>1. PICK ds \in SUBSET Docs : ds = scan.todo /\ NewInv(ds)
      BY <1>1, <1>17, Parts DEF StoresOK, KeptInv
    <3> QED BY <1>2, <2>3, <3>1 DEF NewInv
  <2> QED BY <2>2, <2>5, <2>6 DEF KeptInv, NewInv, Scans, Registry, ContentsOf
<1> QED BY <1>15, <1>16, <1>19, <1>24 DEF IInv, ScanInv

\* A scan's attempt goes on with what it has read and found, and what it makes of
\* the registry agrees with the runs.
LEMMA MoveScan ==
  ASSUME CoreInv, ScanInv, NEW t \in Pool, Scans(thread[t]), Scans(thread'[t]),
         thread'[t].seen = thread[t].seen, thread'[t].found = thread[t].found,
         thread'[t].live = thread[t].live, \A u \in Pool \ {t} : thread'[u] = thread[u],
         UNCHANGED <<scan, dropped>>, lost \subseteq lost',
         \A c \in Contents : Dispatched(c)' <=> Dispatched(c),
         registry' \in Registry => \A c \in Contents : registry'[c] # None => Accounted(c),
         registry' \in Registry =>
           \A c \in Contents \ lost' : Dispatched(c) \/ InHand(c)' => registry'[c] # None
  PROVE  ScanInv'
<1>1. \A u \in Pool : /\ Scans(thread'[u]) <=> Scans(thread[u])
                      /\ thread'[u].seen = thread[u].seen /\ thread'[u].found = thread[u].found
                      /\ thread'[u].live = thread[u].live
  OBVIOUS
<1>2. ASSUME NEW c \in Contents, Accounted(c) PROVE Accounted(c)'
  <2>1. CASE Coming(c)
    <3>1. PICK u \in Pool : thread[u].live /\ Scans(thread[u]) /\ c \in ContentsOf(thread[u].found)
      BY <2>1 DEF Coming, Scans
    <3>2. thread'[u].live /\ Scans(thread'[u]) /\ thread'[u].found = thread[u].found
      BY <1>1, <3>1
    <3> QED BY <3>1, <3>2 DEF Accounted, Coming, Scans, ContentsOf
  <2>2. CASE ~Coming(c)
    BY <1>2, <2>2 DEF Accounted, ContentsOf
  <2> QED BY <2>1, <2>2
<1>3. ClaimInv /\ KeptInv
  BY DEF ScanInv
<1>4. ClaimInv'
  <2>1. \A u \in Pool : Scans(thread'[u]) => \A c \in Contents : thread'[u].seen[c] # None => Accounted(c)'
    BY <1>1, <1>2, <1>3 DEF ClaimInv, Scans
  <2>2. \A u \in Pool : Scans(thread'[u]) /\ ~thread'[u].live => ContentsOf(thread'[u].found) \subseteq dropped'
    BY <1>1, <1>3 DEF ClaimInv, Scans
  <2>3. scan'.todo # {} => scan'.at = "dispatching"
    BY <1>3 DEF ClaimInv
  <2>4. registry' \in Registry => \A c \in Contents : registry'[c] # None => Accounted(c)'
    BY <1>2
  <2> QED BY <2>1, <2>2, <2>3, <2>4 DEF ClaimInv, Scans, Registry, ContentsOf
<1>5. KeptInv'
  <2>1. ASSUME NEW ds \in SUBSET Docs, NewInv(ds)
        PROVE  /\ \A d \in ds : ~Dispatched(d[2])' \/ d[2] \in lost'
               /\ \A d, e \in ds : d[2] = e[2] => d = e
    BY <2>1 DEF NewInv, Docs
  <2>2. ASSUME NEW u \in Pool, thread'[u].live, Scans(thread'[u])
        PROVE  /\ \A d \in thread'[u].found : ~Dispatched(d[2])' \/ d[2] \in lost'
               /\ \A d, e \in thread'[u].found : d[2] = e[2] => d = e
               /\ \A c \in Contents \ lost' :
                    Dispatched(c)' \/ c \in ContentsOf(thread'[u].found) => thread'[u].seen[c] # None
    <3>1. PICK ds \in SUBSET Docs : ds = thread[u].found
      BY Parts DEF Thread
    <3>2. NewInv(ds) /\ \A c \in Contents \ lost : Dispatched(c) \/ c \in ContentsOf(ds) => thread[u].seen[c] # None
      BY <1>1, <1>3, <2>2, <3>1 DEF KeptInv, Scans
    <3> QED BY <1>1, <2>1, <3>1, <3>2
  <2>3. NewInv(scan.todo)'
    <3>1. PICK ds \in SUBSET Docs : ds = scan.todo /\ NewInv(ds)
      BY <1>3, Parts DEF StoresOK, KeptInv
    <3> QED BY <2>1, <3>1 DEF NewInv
  <2> QED BY <2>2, <2>3 DEF KeptInv, NewInv, Scans, Registry, ContentsOf
<1> QED BY <1>4, <1>5 DEF ScanInv

\* What is in hand afterwards was in hand, or is what the attempt returns.
LEMMA HandAfter ==
  ASSUME NEW t \in Pool, UNCHANGED scan, \A u \in Pool \ {t} : thread'[u] = thread[u],
         thread'[t].live = thread[t].live, thread'[t].found = thread[t].found,
         NEW c \in Contents, InHand(c)'
  PROVE  InHand(c) \/ (thread[t].live /\ c \in ContentsOf(thread[t].found))
<1>1. CASE c \in ContentsOf(scan'.todo)
  BY <1>1 DEF InHand, ContentsOf
<1>2. CASE \E u \in Pool : thread'[u].live /\ thread'[u].at = "return" /\ c \in ContentsOf(thread'[u].found)
  <2>1. PICK u \in Pool : thread'[u].live /\ thread'[u].at = "return" /\ c \in ContentsOf(thread'[u].found)
    BY <1>2
  <2>2. CASE u = t
    BY <2>1, <2>2
  <2>3. CASE u # t
    BY <2>1, <2>3 DEF InHand
  <2> QED BY <2>2, <2>3
<1> QED BY <1>1, <1>2 DEF InHand, ContentsOf

LEMMA OpenRegistryStep ==
  ASSUME IInv, NEW t \in Pool, OpenRegistry(t)
  PROVE  IInv'
<1>1. CoreInv /\ IndexInv /\ ScanInv /\ thread \in [Pool -> Thread] /\ ThreadInv
      /\ thread[t].at = "open" /\ thread[t].kind = "scan"
  BY Parts DEF IInv, OpenRegistry, ThreadInv, Fits
<1>2. PICK q \in Thread : q = thread[t]
  BY <1>1
<1>3. PICK a \in {"dump", "return"} :
        /\ thread' = [thread EXCEPT ![t].at = a]
        /\ a = "dump" => registry' = Torn /\ lost' = lost
        /\ a = "return" => /\ registry' = registry
                           /\ lost' = IF q.live THEN lost \cup ContentsOf(q.found) ELSE lost
  BY <1>2 DEF OpenRegistry
<1>4. UNCHANGED <<folder, scan, flows, converted, dense, latest, overlapped, attached, replay, dropped>>
  BY DEF OpenRegistry, stores
<1>5. lost \subseteq lost' /\ lost' \subseteq Contents
  <2>1. ContentsOf(q.found) \subseteq Contents
    BY DEF Thread, ContentsOf, Docs
  <2> QED BY <1>1, <1>3, <2>1, Parts DEF StoresOK
<1>6. StoresOK'
  BY <1>1, <1>3, <1>4, <1>5, Parts DEF StoresOK
<1>7. /\ CoreInv' /\ thread'[t] = [thread[t] EXCEPT !.at = a]
      /\ \A u \in Pool \ {t} : thread'[u] = thread[u]
  BY <1>1, <1>3, <1>4, <1>6, MoveAt
<1>8. /\ thread'[t].kind = "scan" /\ thread'[t].at = a /\ thread'[t].live = q.live
      /\ thread'[t].seen = q.seen /\ thread'[t].found = q.found
  BY <1>1, <1>2, <1>7 DEF Thread
<1>9. IndexInv'
  BY <1>1, <1>4, <1>7, <1>8, KeepIndex
<1>10. ScanInv'
  <2>1. \A c \in Contents : Dispatched(c)' <=> Dispatched(c)
    BY <1>4 DEF Dispatched
  <2>2. ASSUME registry' \in Registry
        PROVE  /\ \A c \in Contents : registry'[c] # None => Accounted(c)
               /\ \A c \in Contents \ lost' : Dispatched(c) \/ InHand(c)' => registry'[c] # None
    <3>1. a = "return" /\ registry' = registry /\ registry \in Registry
      BY <1>3, <2>2, Nothing
    <3>2. \A c \in Contents \ lost' : InHand(c)' => InHand(c)
      BY <1>2, <1>3, <1>4, <1>7, <1>8, <3>1, HandAfter
    <3> QED BY <1>1, <1>5, <3>1, <3>2 DEF ScanInv, ClaimInv, KeptInv
  <2>3. Scans(thread[t]) /\ Scans(thread'[t])
    BY <1>1, <1>8 DEF Scans
  <2> QED BY <1>1, <1>2, <1>4, <1>5, <1>7, <1>8, <2>1, <2>2, <2>3, MoveScan
<1> QED BY <1>7, <1>9, <1>10 DEF IInv

LEMMA DumpRegistryStep ==
  ASSUME IInv, NEW t \in Pool, DumpRegistry(t)
  PROVE  IInv'
<1>1. CoreInv /\ IndexInv /\ ScanInv /\ thread \in [Pool -> Thread] /\ ThreadInv
      /\ thread[t].at = "dump" /\ thread[t].kind = "scan" /\ thread[t].seen \in Registry
  BY Parts DEF IInv, DumpRegistry, ThreadInv, Fits
<1>2. /\ UNCHANGED <<folder, scan, flows, converted, dense, latest, overlapped, attached, replay, dropped>>
      /\ thread' = [thread EXCEPT ![t].at = "return"]
  BY DEF DumpRegistry, stores
<1>3. PICK q \in Thread : q = thread[t]
  BY <1>1
<1>4. /\ registry' \in {q.seen, Mixed}
      /\ lost' = IF q.live THEN lost
                 ELSE lost \cup {c \in Contents : q.seen[c] = None /\ (Dispatched(c) \/ InHand(c))}
  BY <1>3 DEF DumpRegistry
<1>5. lost \subseteq lost' /\ lost' \subseteq Contents
  BY <1>1, <1>4, Parts DEF StoresOK
<1>6. StoresOK'
  BY <1>1, <1>2, <1>3, <1>4, <1>5, Parts DEF StoresOK
<1>7. /\ CoreInv' /\ thread'[t] = [thread[t] EXCEPT !.at = "return"]
      /\ \A u \in Pool \ {t} : thread'[u] = thread[u]
  BY <1>1, <1>2, <1>6, MoveAt
<1>8. /\ thread'[t].kind = "scan" /\ thread'[t].at = "return" /\ thread'[t].live = q.live
      /\ thread'[t].seen = q.seen /\ thread'[t].found = q.found
  BY <1>1, <1>3, <1>7 DEF Thread
<1>9. IndexInv'
  BY <1>1, <1>2, <1>7, <1>8, KeepIndex
<1>10. ScanInv'
  <2>1. \A c \in Contents : Dispatched(c)' <=> Dispatched(c)
    BY <1>2 DEF Dispatched
  <2>2. Scans(thread[t]) /\ Scans(thread'[t])
    BY <1>1, <1>8 DEF Scans
  <2>3. ASSUME registry' \in Registry PROVE registry' = q.seen
    BY <1>4, <2>3, Nothing
  <2>4. registry' \in Registry => \A c \in Contents : registry'[c] # None => Accounted(c)
    BY <1>1, <1>3, <2>3 DEF ScanInv, ClaimInv
  <2>5. ASSUME registry' \in Registry, NEW c \in Contents \ lost', Dispatched(c) \/ InHand(c)'
        PROVE  registry'[c] # None
    <3>1. registry' = q.seen
      BY <2>3, <2>5
    <3>2. CASE q.live
      <4>1. \A d \in Contents \ lost : Dispatched(d) \/ d \in ContentsOf(q.found) => q.seen[d] # None
        BY <1>1, <1>3, <3>2 DEF ScanInv, KeptInv
      <4>2. ASSUME InHand(c) PROVE c \in ContentsOf(q.found)
        <5>1. /\ scan.todo = {} /\ \A u \in Pool \ {t} : ~(Scans(thread[u]) /\ thread[u].live)
          BY <1>1, <1>3, <3>2, SoloScan
        <5> QED BY <1>3, <4>2, <5>1 DEF InHand, ContentsOf, Scans
      <4>3. Dispatched(c) \/ c \in ContentsOf(q.found)
        BY <1>2, <1>3, <1>7, <1>8, <2>5, <4>2, HandAfter
      <4> QED BY <1>5, <3>1, <4>1, <4>3
    <3>3. CASE ~q.live
      <4>1. Dispatched(c) \/ InHand(c)
        BY <1>2, <1>3, <1>7, <1>8, <2>5, <3>3, HandAfter
      <4> QED BY <1>4, <3>1, <3>3, <4>1
    <3> QED BY <3>2, <3>3
  <2> QED BY <1>1, <1>2, <1>3, <1>5, <1>7, <1>8, <2>1, <2>2, <2>4, <2>5, MoveScan
<1> QED BY <1>7, <1>9, <1>10 DEF IInv

LEMMA ReturnScanStep ==
  ASSUME IInv, NEW t \in Pool, ReturnScan(t)
  PROVE  IInv'
<1>1. CoreInv /\ IndexInv /\ ScanInv /\ thread \in [Pool -> Thread] /\ ThreadInv
      /\ thread[t].at = "return" /\ thread[t].kind = "scan" /\ thread[t].seen \in Registry
  BY Parts DEF IInv, ReturnScan, ThreadInv, Fits
<1>2. /\ UNCHANGED <<folder, registry, flows, converted, dense, latest, overlapped, attached, replay, lost, dropped>>
      /\ thread' = [thread EXCEPT ![t] = Free]
  BY DEF ReturnScan, stores
<1>3. PICK q \in Thread : q = thread[t]
  BY <1>1
<1>4. scan' = IF q.live THEN [scan EXCEPT !.at = "dispatching", !.todo = q.found] ELSE scan
  BY <1>3 DEF ReturnScan
<1>5. PICK sc \in [at : {"idle", "scanning", "dispatching"}, attempts : Nat, todo : SUBSET Docs] : sc = scan
  BY <1>1, Parts DEF StoresOK
<1>6. /\ scan' \in [at : {"idle", "scanning", "dispatching"}, attempts : Nat, todo : SUBSET Docs]
      /\ q.live => scan'.at = "dispatching" /\ scan'.todo = q.found
      /\ ~q.live => scan' = scan
  BY <1>4, <1>5 DEF Thread
<1>7. StoresOK' /\ FlowsOK'
  BY <1>1, <1>2, <1>6, Parts DEF StoresOK, FlowsOK, FlowInv
<1>8. \A u \in Pool : (u # t \/ Free.live) /\ thread[u].live =>
           IF thread[u].kind = "scan" THEN scan'.at = "scanning"
           ELSE flows'[thread[u].id].status = "running"
  <2> SUFFICES ASSUME NEW u \in Pool \ {t}, thread[u].live
               PROVE  IF thread[u].kind = "scan" THEN scan'.at = "scanning"
                      ELSE flows'[thread[u].id].status = "running"
    BY FreeType
  <2>1. CASE thread[u].kind = "scan"
    <3>1. ~q.live
      BY <1>1, <1>3, <2>1, Parts DEF LiveInv, ThreadInv, Fits
    <3> QED BY <1>1, <1>6, <2>1, <3>1, Parts DEF LiveInv
  <2>2. CASE thread[u].kind # "scan"
    BY <1>1, <1>2, <2>2, Parts DEF LiveInv
  <2> QED BY <2>1, <2>2
<1>9. CoreInv'
  BY <1>1, <1>2, <1>7, <1>8, FreeType, MoveCore
<1>10. IndexInv'
  BY <1>1, <1>2, FreedIndex
<1>11. \A c \in Contents : Dispatched(c)' <=> Dispatched(c)
  BY <1>2 DEF Dispatched
<1>12. thread'[t] = Free /\ ~Scans(thread'[t]) /\ \A u \in Pool \ {t} : thread'[u] = thread[u]
  BY <1>1, <1>2, FreedThread DEF Free, Scans
<1>13. ClaimInv /\ KeptInv
  BY <1>1 DEF ScanInv
<1>14. CASE ~q.live
  <2>1. scan'.todo = scan.todo /\ (scan.todo # {} => scan'.at = "dispatching")
    BY <1>6, <1>13, <1>14 DEF ClaimInv
  <2>2. \A u \in Pool : Scans(thread'[u]) => thread'[u] = thread[u]
    BY <1>12
  <2>3. \A u \in Pool : Scans(thread[u]) /\ thread[u].live => thread'[u] = thread[u]
    BY <1>3, <1>12, <1>14
  <2>4. ScanInv'
    BY <1>1, <1>2, <1>9, <1>11, <2>1, <2>2, <2>3, KeepScan
  <2> QED BY <1>9, <1>10, <2>4 DEF IInv
<1>15. CASE q.live
  <2>1. /\ scan.todo = {} /\ scan'.todo = q.found /\ scan'.at = "dispatching"
        /\ \A u \in Pool \ {t} : ~(Scans(thread[u]) /\ thread[u].live)
    BY <1>1, <1>3, <1>6, <1>15, SoloScan
  <2>2. \A u \in Pool : ~(Scans(thread'[u]) /\ thread'[u].live)
    BY <1>12, <2>1
  <2>3. ASSUME NEW c \in Contents, Accounted(c) PROVE Accounted(c)'
    <3>1. CASE Coming(c)
      <4>1. c \in ContentsOf(q.found)
        BY <1>3, <2>1, <3>1 DEF Coming, Scans
      <4> QED BY <2>1, <4>1 DEF Accounted, ContentsOf
    <3>2. CASE Dispatched(c) \/ c \in dropped
      BY <1>2, <1>11, <3>2 DEF Accounted
    <3> QED BY <2>1, <2>3, <3>1, <3>2 DEF Accounted, ContentsOf
  <2>4. ASSUME NEW c \in Contents, InHand(c)' PROVE InHand(c)
    <3>1. c \in ContentsOf(scan'.todo)
      BY <2>2, <2>4 DEF InHand, Scans, ContentsOf
    <3> QED BY <1>1, <1>3, <1>15, <2>1, <3>1 DEF InHand
  <2>5. ClaimInv'
    <3>1. registry' \in Registry => \A c \in Contents : registry'[c] # None => Accounted(c)'
      BY <1>2, <1>13, <2>3 DEF ClaimInv
    <3>2. \A u \in Pool : Scans(thread'[u]) =>
            /\ \A c \in Contents : thread'[u].seen[c] # None => Accounted(c)'
            /\ ~thread'[u].live => ContentsOf(thread'[u].found) \subseteq dropped'
      BY <1>2, <1>12, <1>13, <2>3 DEF ClaimInv, Scans
    <3> QED BY <2>1, <3>1, <3>2 DEF ClaimInv, Scans, Registry, ContentsOf
  <2>6. KeptInv'
    <3>1. registry' \in Registry => \A c \in Contents \ lost' : Dispatched(c)' \/ InHand(c)' => registry'[c] # None
      BY <1>2, <1>11, <1>13, <2>4 DEF KeptInv
    <3>2. PICK ds \in SUBSET Docs : ds = q.found
      BY DEF Thread
    <3>3. NewInv(ds)
      BY <1>1, <1>3, <1>13, <1>15, <3>2 DEF KeptInv
    <3>4. /\ \A d \in ds : ~Dispatched(d[2])' \/ d[2] \in lost'
          /\ \A d, e \in ds : d[2] = e[2] => d = e
      BY <1>2, <1>11, <3>3 DEF NewInv, Docs
    <3>5. NewInv(scan.todo)'
      BY <2>1, <3>2, <3>4 DEF NewInv
    <3> QED BY <2>2, <3>1, <3>5 DEF KeptInv, Scans, Registry
  <2> QED BY <1>9, <1>10, <2>5, <2>6 DEF IInv, ScanInv
<1> QED BY <1>14, <1>15

\* What the scan dispatches next, or why it stops.
LEMMA Dispatching ==
  ASSUME CoreInv, Dispatch
  PROVE  /\ scan.at = "dispatching"
         /\ \/ scan' = NoScan /\ flows' = flows /\ scan.todo = {} /\ dropped' = dropped
            \/ scan' = NoScan /\ flows' = flows /\ dropped' = dropped \cup ContentsOf(scan.todo)
            \/ \E d \in scan.todo : /\ flows' = [flows EXCEPT ![<<d[2], 0>>] = Started(d[1])]
                                    /\ flows[<<d[2], 0>>].status # "running"
                                    /\ scan' = [scan EXCEPT !.todo = @ \ {d}]
                                    /\ scan'.at = "dispatching" /\ dropped' = dropped
<1>1. scan.at = "dispatching" /\ dropped' = IF scan.todo # {} /\ scan' = NoScan
                                            THEN dropped \cup ContentsOf(scan.todo) ELSE dropped
  BY DEF Dispatch
<1>2. CASE scan.todo = {}
  BY <1>1, <1>2 DEF Dispatch
<1>3. CASE scan.todo # {} /\ scan' = NoScan /\ UNCHANGED flows
  BY <1>1, <1>3
<1>4. CASE scan.todo # {} /\ \E d \in scan.todo :
              /\ flows[<<d[2], 0>>].status # "running"
              /\ flows' = [flows EXCEPT ![<<d[2], 0>>] = Started(d[1])]
              /\ scan' = [scan EXCEPT !.todo = @ \ {d}]
  <2>1. PICK d \in scan.todo : /\ flows[<<d[2], 0>>].status # "running"
                               /\ flows' = [flows EXCEPT ![<<d[2], 0>>] = Started(d[1])]
                               /\ scan' = [scan EXCEPT !.todo = @ \ {d}]
    BY <1>4
  <2>2. PICK sc \in [at : {"idle", "scanning", "dispatching"}, attempts : Nat, todo : SUBSET Docs] : sc = scan
    BY Parts DEF StoresOK
  <2>3. scan'.at = "dispatching"
    BY <1>1, <2>1, <2>2
  <2>4. dropped' = dropped
    BY <1>1, <2>3 DEF NoScan
  <2> QED BY <1>1, <2>1, <2>3, <2>4
<1>5. scan.todo # {} =>
        \/ scan' = NoScan /\ UNCHANGED flows
        \/ \E d \in scan.todo : /\ flows[<<d[2], 0>>].status # "running"
                                /\ flows' = [flows EXCEPT ![<<d[2], 0>>] = Started(d[1])]
                                /\ scan' = [scan EXCEPT !.todo = @ \ {d}]
  BY DEF Dispatch
<1> QED BY <1>2, <1>3, <1>4, <1>5

LEMMA DispatchStep ==
  ASSUME IInv, Dispatch
  PROVE  IInv'
<1>1. CoreInv /\ IndexInv /\ ScanInv /\ ClaimInv /\ KeptInv
  BY DEF IInv, ScanInv
<1>2. /\ UNCHANGED <<folder, registry, thread, converted, dense, latest, overlapped, attached, replay, lost>>
      /\ scan.at = "dispatching"
  BY DEF Dispatch, stores
<1>3. PICK sc \in [at : {"idle", "scanning", "dispatching"}, attempts : Nat, todo : SUBSET Docs] : sc = scan
  BY <1>1, Parts DEF StoresOK
<1>4. /\ NoScan \in [at : {"idle", "scanning", "dispatching"}, attempts : Nat, todo : SUBSET Docs]
      /\ NoScan.at = "idle" /\ NoScan.todo = {}
  BY DEF NoScan
<1>5. \A u \in Pool : ~(Scans(thread[u]) /\ thread[u].live)
  BY <1>1, <1>2, Parts DEF LiveInv, ThreadInv, Fits, Scans
<1>6. ContentsOf(sc.todo) \subseteq Contents
  BY DEF ContentsOf, Docs
<1>7. dropped \subseteq dropped' /\ dropped' \subseteq Contents
  BY <1>1, <1>3, <1>6, Dispatching, Parts DEF StoresOK
<1>8. IndexInv'
  BY <1>1, <1>2, StillIndex
<1>9. ASSUME \A c \in Contents : Accounted(c) => Accounted(c)',
             \A c \in Contents : Dispatched(c)' \/ InHand(c)' => Dispatched(c) \/ InHand(c),
             scan'.todo # {} => scan'.at = "dispatching", NewInv(scan.todo)'
      PROVE  ScanInv'
  <2>1. ClaimInv'
    <3>1. registry' \in Registry => \A c \in Contents : registry'[c] # None => Accounted(c)'
      BY <1>1, <1>2, <1>9 DEF ClaimInv
    <3>2. \A u \in Pool : Scans(thread'[u]) =>
            /\ \A c \in Contents : thread'[u].seen[c] # None => Accounted(c)'
            /\ ~thread'[u].live => ContentsOf(thread'[u].found) \subseteq dropped'
      BY <1>1, <1>2, <1>7, <1>9 DEF ClaimInv, Scans
    <3> QED BY <1>9, <3>1, <3>2 DEF ClaimInv, Scans, Registry, ContentsOf
  <2>2. KeptInv'
    <3>1. registry' \in Registry => \A c \in Contents \ lost' : Dispatched(c)' \/ InHand(c)' => registry'[c] # None
      BY <1>1, <1>2, <1>9 DEF KeptInv
    <3>2. \A u \in Pool : ~(Scans(thread'[u]) /\ thread'[u].live)
      BY <1>2, <1>5
    <3> QED BY <1>9, <3>1, <3>2 DEF KeptInv, Scans, Registry
  <2> QED BY <2>1, <2>2 DEF ScanInv
<1>10. ASSUME NEW c \in Contents, Coming(c) PROVE FALSE
  BY <1>5, <1>10 DEF Coming, Scans
<1>11. ASSUME NEW c \in Contents, InHand(c)' PROVE c \in ContentsOf(scan'.todo)
  BY <1>2, <1>5, <1>11 DEF InHand, Scans, ContentsOf
<1>12. CASE scan' = NoScan /\ flows' = flows
  <2>1. StoresOK' /\ FlowsOK'
    BY <1>1, <1>2, <1>4, <1>7, <1>12, Parts DEF StoresOK, FlowsOK, FlowInv
  <2>2. CoreInv'
    BY <1>1, <1>2, <1>12, <2>1, StillCore
  <2>3. \A c \in Contents : Dispatched(c)' <=> Dispatched(c)
    BY <1>12 DEF Dispatched
  <2>4. scan.todo = {} \/ dropped' = dropped \cup ContentsOf(scan.todo)
    <3>1. scan'.at # "dispatching"
      BY <1>4, <1>12
    <3> QED BY <1>1, <3>1, Dispatching
  <2>5. \A c \in Contents : Accounted(c) => Accounted(c)'
    BY <1>7, <1>10, <2>3, <2>4 DEF Accounted, ContentsOf
  <2>6. \A c \in Contents : Dispatched(c)' \/ InHand(c)' => Dispatched(c) \/ InHand(c)
    BY <1>4, <1>11, <1>12, <2>3 DEF ContentsOf
  <2>7. (scan'.todo # {} => scan'.at = "dispatching") /\ NewInv(scan.todo)'
    BY <1>4, <1>12 DEF NewInv
  <2>8. ScanInv'
    BY <1>9, <2>5, <2>6, <2>7
  <2> QED BY <1>8, <2>2, <2>8 DEF IInv
<1>13. CASE \E d \in scan.todo : /\ flows' = [flows EXCEPT ![<<d[2], 0>>] = Started(d[1])]
                                 /\ scan' = [scan EXCEPT !.todo = @ \ {d}]
  <2>1. PICK d \in sc.todo : /\ flows' = [flows EXCEPT ![<<d[2], 0>>] = Started(d[1])]
                             /\ scan' = [sc EXCEPT !.todo = sc.todo \ {d}]
    BY <1>3, <1>13
  <2>2. d \in Docs /\ d[1] \in Paths /\ d[2] \in Contents /\ <<d[2], 0>> \in Ids
    BY Nothing DEF Docs
  <2>3. PICK new \in Ids : new = <<d[2], 0>>
    BY <2>2
  <2>4. flows' = [flows EXCEPT ![new] = Started(d[1])] /\ FlowsOK
    BY <1>1, <2>1, <2>3, Parts
  <2>5. /\ FlowsOK' /\ flows'[new].status = "running"
        /\ \A i \in Ids \ {new} : flows'[i] = flows[i]
        /\ \A i \in Ids : /\ flows[i].status = "running" => flows'[i].status = "running"
                          /\ flows[i].path \in Paths => flows'[i].path \in Paths
    BY <2>2, <2>4, StartedFlows
  <2>6. /\ scan' \in [at : {"idle", "scanning", "dispatching"}, attempts : Nat, todo : SUBSET Docs]
        /\ scan'.at = "dispatching" /\ scan'.todo = sc.todo \ {d}
    BY <1>2, <1>3, <2>1
  <2>7. StoresOK'
    BY <1>1, <1>2, <1>7, <2>6, Parts DEF StoresOK
  <2>8. CoreInv'
    BY <1>1, <1>2, <2>5, <2>6, <2>7, StillCore
  <2>9. \A c \in Contents : Dispatched(c)' <=> Dispatched(c) \/ c = d[2]
    <3> SUFFICES ASSUME NEW c \in Contents PROVE Dispatched(c)' <=> Dispatched(c) \/ c = d[2]
      OBVIOUS
    <3>1. CASE c = d[2]
      BY <2>3, <2>5, <3>1 DEF Dispatched
    <3>2. CASE c # d[2]
      <4>1. <<c, 0>> \in Ids \ {new}
        BY <2>3, <3>2, Nothing
      <4> QED BY <2>5, <3>2, <4>1 DEF Dispatched
    <3> QED BY <3>1, <3>2
  <2>10. \A c \in Contents : c \in ContentsOf(sc.todo) => c = d[2] \/ c \in ContentsOf(scan'.todo)
    BY <2>6 DEF ContentsOf
  <2>11. \A c \in Contents : Accounted(c) => Accounted(c)'
    BY <1>3, <1>7, <1>10, <2>9, <2>10 DEF Accounted, ContentsOf
  <2>12. \A c \in Contents : Dispatched(c)' \/ InHand(c)' => Dispatched(c) \/ InHand(c)
    <3>1. \A c \in Contents : c = d[2] \/ c \in ContentsOf(scan'.todo) => c \in ContentsOf(sc.todo)
      BY <2>6 DEF ContentsOf
    <3> QED BY <1>3, <1>11, <2>9, <3>1 DEF InHand
  <2>13. NewInv(scan.todo)'
    <3>1. NewInv(sc.todo)
      BY <1>1, <1>3 DEF KeptInv
    <3>2. \A e \in scan'.todo : ~Dispatched(e[2])' \/ e[2] \in lost'
      <4> SUFFICES ASSUME NEW e \in sc.todo \ {d} PROVE ~Dispatched(e[2])' \/ e[2] \in lost'
        BY <2>6
      <4>1. e[2] \in Contents
        BY DEF Docs
      <4>2. (~Dispatched(e[2]) \/ e[2] \in lost) /\ e[2] # d[2]
        BY <3>1 DEF NewInv
      <4> QED BY <1>2, <2>9, <4>1, <4>2
    <3>3. \A e, f \in scan'.todo : e[2] = f[2] => e = f
      BY <2>6, <3>1 DEF NewInv
    <3> QED BY <3>2, <3>3 DEF NewInv
  <2>14. ScanInv'
    BY <1>9, <2>6, <2>11, <2>12, <2>13
  <2> QED BY <1>8, <2>8, <2>14 DEF IInv
<1> QED BY <1>1, <1>12, <1>13, Dispatching

-----------------------------------------------------------------------------
(* The invariant *)

LEMMA InitInv ==
  ASSUME Init
  PROVE  IInv
<1>1. TypeOK
  <2>1. NoFlow \in Flow /\ Free \in Thread
    BY NewFlows, FreeType
  <2>2. flows \in [Ids -> Flow] /\ thread \in [Pool -> Thread]
    BY <2>1 DEF Init
  <2>3. registry \in Registry
    BY DEF Init, Registry
  <2> QED BY <2>2, <2>3 DEF Init, TypeOK, NoScan, NoReplay
<1>2. \A t \in Pool : thread[t] = Free
  BY DEF Init
<1>3. \A i \in Ids : flows[i] = NoFlow
  BY DEF Init
<1>4. CoreInv
  BY <1>1, <1>2, <1>3, FreeType, NewFlows DEF CoreInv, ThreadInv, FlowInv, LiveInv
<1>5. IndexInv
  BY <1>2, FreeType DEF Init, IndexInv, LastSuccessStands
<1>6. ScanInv
  <2>1. \A c \in Contents : ~Dispatched(c)
    BY <1>3, NewFlows, Nothing DEF Dispatched
  <2>2. \A t \in Pool : ~Scans(thread[t])
    BY <1>2 DEF Free, Scans
  <2>3. \A c \in Contents : ~InHand(c)
    BY <2>2 DEF Init, InHand, NoScan, ContentsOf, Scans
  <2>4. registry \in Registry /\ (\A c \in Contents : registry[c] = None) /\ scan.todo = {}
    BY DEF Init, Registry, NoScan
  <2>5. ClaimInv
    BY <2>2, <2>4 DEF ClaimInv, Scans
  <2>6. KeptInv
    BY <2>1, <2>2, <2>3, <2>4 DEF KeptInv, NewInv, Scans
  <2> QED BY <2>5, <2>6 DEF ScanInv
<1> QED BY <1>4, <1>5, <1>6 DEF IInv

LEMMA NextInv ==
  ASSUME IInv, Next
  PROVE  IInv'
<1>1. ASSUME NEW p \in Paths, NEW c \in Contents \cup {None}, Drop(p, c) PROVE IInv'
  BY <1>1, DropStep
<1>2. ASSUME StartScan \/ Dispatch PROVE IInv'
  BY <1>2, StartScanStep, DispatchStep
<1>3. ASSUME Serve PROVE IInv'
  BY <1>3, AttemptScanStep, AttemptStepStep DEF Serve
<1>4. ASSUME NEW t \in Pool, WorkOf(t) PROVE IInv'
  BY <1>4, ScanFolderStep, OpenRegistryStep, DumpRegistryStep, ReturnScanStep, ReadFileStep,
     ConvertStep, ParseStep, DenseStep, IndexOthersStep DEF WorkOf
<1>5. ASSUME Faults PROVE IInv'
  BY <1>5, RestartStep, TimeoutStep, ParseStep, DenseStep, IndexFailsStep DEF Faults
<1>6. ASSUME CallReplay(Dead) \/ \E id \in Ids : CallReplay({id}) \/ Describe(id) PROVE IInv'
  <2>1. Dead \in SUBSET Ids /\ \A id \in Ids : {id} \in SUBSET Ids
    BY DEF Dead
  <2>2. (\E ids \in SUBSET Ids : CallReplay(ids)) \/ (\E id \in Ids : Describe(id))
    BY <1>6, <2>1
  <2> QED BY <2>2, CallStep
<1>7. ASSUME NEW s \in Replays, StartReplay(s) PROVE IInv'
  BY <1>7, ReplayStep
<1> QED BY <1>1, <1>2, <1>3, <1>4, <1>5, <1>6, <1>7 DEF Next

LEMMA StutterInv ==
  ASSUME IInv, UNCHANGED vars
  PROVE  IInv'
<1>1. CoreInv'
  BY DEF IInv, CoreInv, TypeOK, ThreadInv, FlowInv, LiveInv, vars
<1>2. IndexInv'
  BY DEF IInv, IndexInv, LastSuccessStands, vars
<1>3. ScanInv'
  <2>1. \A c \in Contents : Dispatched(c)' <=> Dispatched(c)
    BY DEF vars, Dispatched
  <2>2. CoreInv /\ ScanInv /\ UNCHANGED <<registry, scan, thread, lost, dropped>>
    BY DEF IInv, vars
  <2> QED BY <1>1, <2>1, <2>2, KeepClaim
<1> QED BY <1>1, <1>2, <1>3 DEF IInv

\* The three parts of the invariant hold in every reachable state.
THEOREM Invariance == Spec => []IInv
<1>1. Init => IInv
  BY InitInv
<1>2. IInv /\ [Next]_vars => IInv'
  BY NextInv, StutterInv
<1> QED BY <1>1, <1>2, PTL DEF Spec

-----------------------------------------------------------------------------
(* What it gives *)

\* Every variable keeps its type, whatever fails and however often it is retried.
THEOREM TypeCorrect == Spec => []TypeOK
<1>1. IInv => TypeOK
  BY DEF IInv, CoreInv
<1> QED BY <1>1, Invariance, PTL

\* The points of a document whose latest attempt succeeded are there, unless two
\* threads had indexed it at once, however many attempts raised, timed out or
\* died (IngestionActivities.index_document, QdrantStore.index).
THEOREM SuccessStands == Spec => []LastSuccessStands
<1>1. IInv => LastSuccessStands
  BY DEF IInv, IndexInv
<1> QED BY <1>1, Invariance, PTL

\* While no scan is under way, what the registry claims was dispatched, but for what
\* an attempt found that timed out or died, and what a scan left that met an open run
\* (IngestionActivities.scan_directory, DirectoryScanWorkflow.run).
THEOREM ClaimsAreDispatched == Spec => []ClaimedIsDispatched
<1>1. ASSUME IInv PROVE ClaimedIsDispatched
  <2> SUFFICES ASSUME scan.at = "idle", NEW c \in Contents, Loaded[c] # None
               PROVE  Dispatched(c) \/ c \in dropped
    BY DEF ClaimedIsDispatched
  <2>1. CoreInv /\ ClaimInv
    BY <1>1 DEF IInv, ScanInv
  <2>2. registry \in Registry /\ registry[c] # None
    BY <2>1, Parts DEF Loaded, StoresOK
  <2>3. Accounted(c) /\ scan.todo = {}
    BY <2>1, <2>2 DEF ClaimInv
  <2>4. \A t \in Pool : Scans(thread[t]) => ~thread[t].live
    BY <2>1, Parts DEF LiveInv, ThreadInv, Fits, Scans
  <2> QED BY <2>3, <2>4 DEF Accounted, Coming, Scans, ContentsOf
<1> QED BY <1>1, Invariance, PTL

\* A step changes the run of a content only while it is open or was not started.
LEMMA ClosedStays ==
  ASSUME IInv, [Next]_vars, NEW c \in Contents, c \notin lost,
         flows[<<c, 0>>].status \in {"completed", "failed"}
  PROVE  flows'[<<c, 0>>] = flows[<<c, 0>>]
<1>1. PICK id \in Ids : id = <<c, 0>>
  BY Nothing
<1>2. CoreInv /\ KeptInv /\ flows[id].status # "running"
  BY <1>1 DEF IInv, ScanInv
<1>3. ASSUME NEW ts \in SUBSET Pool, GiveUp(ts) PROVE flows'[id] = flows[id]
  BY <1>2, <1>3, GivenUp
<1>4. ASSUME NEW t \in Pool, Advance(t), thread[t].kind \in {"ingest", "index"},
             thread[t].kind = "ingest" => thread[t].doc \in Docs
      PROVE  flows'[id] = flows[id]
  BY <1>2, <1>4, Advanced
<1>5. ASSUME UNCHANGED flows PROVE flows'[id] = flows[id]
  BY <1>5
<1>6. ASSUME Dispatch PROVE flows'[id] = flows[id]
  <2>1. CASE flows' = flows
    BY <2>1
  <2>2. CASE \E d \in scan.todo : flows' = [flows EXCEPT ![<<d[2], 0>>] = Started(d[1])]
    <3>1. PICK d \in scan.todo : flows' = [flows EXCEPT ![<<d[2], 0>>] = Started(d[1])]
      BY <2>2
    <3>2. flows[<<d[2], 0>>].status = "none" \/ d[2] \in lost
      BY <1>2 DEF KeptInv, NewInv, Dispatched
    <3>3. PICK j : j = <<d[2], 0>>
      OBVIOUS
    <3>4. j # id
      BY <1>1, <3>2, <3>3
    <3> QED BY <1>2, <3>1, <3>3, <3>4, Parts DEF FlowsOK
  <2> QED BY <1>2, <1>6, <2>1, <2>2, Dispatching
<1>7. ASSUME NEW t \in Pool, NEW i \in Ids, AttemptStep(t, i) PROVE flows'[id] = flows[id]
  BY <1>2, <1>7, Parts DEF AttemptStep, FlowsOK
<1>8. ASSUME NEW t \in Pool, WorkOf(t) PROVE flows'[id] = flows[id]
  <2>1. ThreadInv
    BY <1>2, Parts
  <2>2. CASE Raise(t)
    BY <1>3, <2>2 DEF Raise
  <2>3. CASE Parse(t) /\ Advance(t)
    BY <1>4, <2>1, <2>3 DEF Parse, ThreadInv, Fits
  <2>4. CASE IndexOthers(t)
    BY <1>4, <2>1, <2>4 DEF IndexOthers, ThreadInv, Fits
  <2>5. CASE ScanFolder(t) \/ OpenRegistry(t) \/ DumpRegistry(t) \/ ReturnScan(t) \/ Convert(t) \/ Purge(t) \/ Upsert(t)
    BY <1>5, <2>5 DEF ScanFolder, OpenRegistry, DumpRegistry, ReturnScan, Convert, Purge, Upsert
  <2>6. CASE ReadFile(t) /\ UNCHANGED flows
    BY <1>5, <2>6
  <2> QED BY <1>8, <2>2, <2>3, <2>4, <2>5, <2>6 DEF WorkOf, Parse, ReadFile
<1>9. ASSUME Faults PROVE flows'[id] = flows[id]
  BY <1>3, <1>5, <1>9 DEF Faults, Restart, Timeout, ParseFails, PurgeSkipped, IndexFails, Raise
<1>10. ASSUME NEW s \in Replays, StartReplay(s) PROVE flows'[id] = flows[id]
  <2>1. CASE flows' = flows
    BY <2>1
  <2>2. CASE \E p : flows' = [flows EXCEPT ![<<replay.id[1], s>>] = Started(p)]
    <3>1. PICK p : flows' = [flows EXCEPT ![<<replay.id[1], s>>] = Started(p)]
      BY <2>2
    <3>2. PICK j : j = <<replay.id[1], s>>
      OBVIOUS
    <3>3. j # id
      BY <1>1, <3>2, Nothing
    <3> QED BY <1>2, <3>1, <3>2, <3>3, Parts DEF FlowsOK
  <2> QED BY <1>10, <2>1, <2>2 DEF StartReplay, Restarted
<1>11. ASSUME \/ \E p \in Paths, d \in Contents \cup {None} : Drop(p, d)
              \/ StartScan \/ \E t \in Pool : AttemptScan(t)
              \/ CallReplay(Dead) \/ \E i \in Ids : CallReplay({i}) \/ Describe(i)
              \/ UNCHANGED vars
       PROVE  flows'[id] = flows[id]
  BY <1>5, <1>11 DEF Drop, StartScan, AttemptScan, CallReplay, Describe, vars
<1>12. flows'[id] = flows[id]
  BY <1>6, <1>7, <1>8, <1>9, <1>10, <1>11 DEF Next, Serve
<1> QED BY <1>1, <1>12

\* A file's run that ended is not started again by a scan, beside attempts that go on
\* after their time, as long as its claim was not lost (DirectoryScanWorkflow.run).
THEOREM StartedOnce == Spec => DispatchedOnce
<1>1. IInv /\ [Next]_vars =>
        [\A c \in Contents :
           flows[<<c, 0>>].status \in {"completed", "failed"} /\ c \notin lost =>
             flows'[<<c, 0>>] = flows[<<c, 0>>]]_vars
  BY ClosedStays
<1> QED BY <1>1, Invariance, PTL DEF Spec, DispatchedOnce
=============================================================================
