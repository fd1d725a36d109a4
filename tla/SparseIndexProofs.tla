------------------------- MODULE SparseIndexProofs -------------------------
(***************************************************************************)
(* What is proved of SparseIndex, for any documents, threads and calls of  *)
(* both processes: the types, and, of callers, reloads and restarts that   *)
(* take turns, that a search finds what was indexed and that the files are *)
(* the DocumentSet they are meant to be.  That premise is TurnsTaken, and  *)
(* README section 4 says what happens without it.                          *)
(***************************************************************************)
EXTENDS SparseIndex, FiniteSetTheorems, SequenceTheorems, TLAPS

-----------------------------------------------------------------------------
(* Lists of chunks                                                           *)

\* The kept chunks are the others, once each if they were, and all of them if
\* the document has none.
LEMMA OthersFacts ==
  ASSUME NEW S, NEW s \in Seq(S), NEW d
  PROVE  /\ Others(s, d) \in Seq(S)
         /\ Range(Others(s, d)) = Range(s) \ {d}
         /\ IsInjective(s) => IsInjective(Others(s, d))
         /\ d \notin Range(s) => Others(s, d) = s
PROOF
<1> DEFINE keep == {i \in DOMAIN s : s[i] # d}
<1> DEFINE upto(i) == {j \in keep : j <= i}
<1> DEFINE rank == [i \in keep |-> Cardinality(upto(i))]
<1> DEFINE size == Cardinality(keep)
<1> DEFINE at(n) == CHOOSE i \in keep : rank[i] = n
<1> HIDE DEF upto, rank, size, at
<1>1. DOMAIN s = 1 .. Len(s) /\ Len(s) \in Nat /\ \A i \in DOMAIN s : s[i] \in S
  BY LenProperties, ElementOfSeq
<1>2. IsFiniteSet(keep) /\ size \in Nat /\ keep \subseteq Nat
  <2>1. IsFiniteSet(1 .. Len(s))
    BY <1>1, FS_Interval
  <2>2. keep \in SUBSET (1 .. Len(s))
    BY <1>1
  <2>3. IsFiniteSet(keep)
    BY <2>1, <2>2, FS_Subset
  <2> QED BY <1>1, <2>3, FS_CardinalityType DEF size
<1>3. \A i \in keep : IsFiniteSet(upto(i)) /\ Cardinality(upto(i)) \in 1 .. size
  <2> SUFFICES ASSUME NEW i \in keep
               PROVE  IsFiniteSet(upto(i)) /\ Cardinality(upto(i)) \in 1 .. size
    OBVIOUS
  <2>1. upto(i) \in SUBSET keep /\ i \in upto(i)
    BY <1>2 DEF upto
  <2>2. IsFiniteSet(upto(i)) /\ Cardinality(upto(i)) <= size
    BY <2>1, <1>2, FS_Subset DEF size
  <2>3. Cardinality(upto(i)) \in Nat /\ Cardinality(upto(i)) # 0
    BY <2>1, <2>2, FS_CardinalityType, FS_EmptySet
  <2> QED BY <2>2, <2>3, <1>2
<1>4. \A i, j \in keep : i < j => rank[i] < rank[j]
  <2> SUFFICES ASSUME NEW i \in keep, NEW j \in keep, i < j
               PROVE  Cardinality(upto(i)) < Cardinality(upto(j))
    BY DEF rank
  <2>1. upto(i) \in SUBSET upto(j) /\ j \in upto(j) /\ j \notin upto(i)
    BY <1>2 DEF upto
  <2>2. Cardinality(upto(i)) <= Cardinality(upto(j)) /\ Cardinality(upto(i)) # Cardinality(upto(j))
    BY <2>1, <1>3, FS_Subset
  <2>3. Cardinality(upto(i)) \in Int /\ Cardinality(upto(j)) \in Int
    BY <1>2, <1>3
  <2> QED BY <2>2, <2>3
<1>5. rank \in [keep -> 1 .. size]
  BY <1>3 DEF rank
<1>6. \A i, j \in keep : rank[i] = rank[j] => i = j
  <2>1. \A i \in keep : rank[i] \in Int /\ i \in Int
    BY <1>2, <1>5
  <2> QED BY <1>4, <2>1
<1>7. \A n \in 1 .. size : \E i \in keep : rank[i] = n
  <2>1. rank \in Injection(keep, 1 .. size)
    BY <1>5, <1>6 DEF Injection, IsInjective
  <2>2. IsFiniteSet(1 .. size) /\ Cardinality(1 .. size) = size
    BY <1>2, FS_Interval
  <2>3. rank \in Surjection(keep, 1 .. size)
    BY <2>1, <2>2, FS_Injection DEF size
  <2> QED BY <2>3 DEF Surjection
<1>8. \A n \in 1 .. size : at(n) \in keep /\ rank[at(n)] = n
  BY <1>7 DEF at
<1>9. \A i \in keep : at(rank[i]) = i
  BY <1>5, <1>6, <1>8
<1>10. Others(s, d) = [n \in 1 .. size |-> s[at(n)]]
  BY DEF Others, at, rank, upto, size
<1>11. Others(s, d) \in Seq(S) /\ DOMAIN Others(s, d) = 1 .. size
  <2>1. [n \in 1 .. size |-> s[at(n)]] \in [1 .. size -> S]
    BY <1>1, <1>8
  <2> QED BY <1>2, <1>10, <2>1, IsASeq
<1>12. Range(Others(s, d)) = Range(s) \ {d}
  <2>1. ASSUME NEW n \in 1 .. size PROVE s[at(n)] \in Range(s) \ {d}
    BY <1>8, <2>1 DEF Range
  <2>2. ASSUME NEW i \in keep PROVE s[i] \in Range(Others(s, d))
    BY <1>5, <1>9, <1>10, <2>2 DEF Range
  <2>3. Range(s) \ {d} = {s[i] : i \in keep}
    BY DEF Range
  <2> QED BY <1>10, <2>1, <2>2, <2>3 DEF Range
<1>13. IsInjective(s) => IsInjective(Others(s, d))
  <2> SUFFICES ASSUME IsInjective(s), NEW m \in 1 .. size, NEW n \in 1 .. size, s[at(m)] = s[at(n)]
               PROVE  m = n
    BY <1>10 DEF IsInjective
  <2>1. at(m) = at(n)
    BY <1>8 DEF IsInjective
  <2> QED BY <1>8, <2>1
<1>14. ASSUME d \notin Range(s) PROVE Others(s, d) = s
  <2>1. keep = 1 .. Len(s)
    BY <1>1, <1>14 DEF Range
  <2>2. size = Len(s)
    <3>1. Cardinality(1 .. Len(s)) = Len(s)
      BY <1>1, FS_Interval
    <3> QED BY <2>1, <3>1 DEF size
  <2>3. ASSUME NEW i \in 1 .. Len(s) PROVE at(i) = i
    <3>1. upto(i) = 1 .. i
      BY <1>1, <2>1, <2>3 DEF upto
    <3>2. Cardinality(1 .. i) = i
      BY <1>1, <2>3, FS_Interval
    <3>3. rank[i] = i
      BY <2>1, <2>3, <3>1, <3>2 DEF rank
    <3> QED BY <1>9, <2>1, <2>3, <3>3
  <2>4. s = [n \in 1 .. Len(s) |-> s[n]]
    BY <1>1, LenProperties
  <2> QED BY <1>10, <2>2, <2>3, <2>4
<1> QED BY <1>11, <1>12, <1>13, <1>14

\* An injective list with a new last element.
LEMMA AppendFacts ==
  ASSUME NEW S, NEW s \in Seq(S), NEW d \in S
  PROVE  /\ Append(s, d) \in Seq(S) /\ Append(s, d) # <<>>
         /\ Range(Append(s, d)) = Range(s) \union {d}
         /\ IsInjective(s) /\ d \notin Range(s) => IsInjective(Append(s, d))
PROOF
<1>1. /\ Append(s, d) \in Seq(S) /\ Append(s, d) # <<>> /\ Len(s) \in Nat
      /\ DOMAIN Append(s, d) = 1 .. Len(s) + 1 /\ DOMAIN s = 1 .. Len(s)
      /\ \A i \in 1 .. Len(s) : Append(s, d)[i] = s[i]
      /\ Append(s, d)[Len(s) + 1] = d
  BY AppendProperties, LenProperties
<1>2. DOMAIN Append(s, d) = DOMAIN s \union {Len(s) + 1}
  BY <1>1
<1>3. Range(Append(s, d)) = Range(s) \union {d}
  BY <1>1, <1>2 DEF Range
<1>4. ASSUME IsInjective(s), d \notin Range(s) PROVE IsInjective(Append(s, d))
  <2> SUFFICES ASSUME NEW i \in DOMAIN Append(s, d), NEW j \in DOMAIN Append(s, d),
                      Append(s, d)[i] = Append(s, d)[j]
               PROVE  i = j
    BY DEF IsInjective
  <2>1. \A k \in DOMAIN s : Append(s, d)[k] = s[k] /\ s[k] # d
    BY <1>1, <1>4 DEF Range
  <2> QED BY <1>1, <1>2, <1>4, <2>1 DEF IsInjective
<1> QED BY <1>1, <1>3, <1>4

-----------------------------------------------------------------------------
(* The types                                                                 *)

LEMMA NoCallType == NoCall \in Call
BY EmptySeq DEF NoCall, Call, Points

\* A call under way has its document.
DocsInv == \A t \in Threads : call[t].at # "idle" => call[t].doc \in Docs

LEMMA CallStepTypes ==
  ASSUME TypeOK, DocsInv, NEW t \in Threads, CallStep(t)
  PROVE  TypeOK'
PROOF
<1> DEFINE p == Proc(t)
<1>1. p \in Procs /\ call[t] \in Call /\ corpus[p] \in Seq(Docs) /\ retriever[p] \in Seq(Docs)
  BY DEF TypeOK, Proc, Procs
<1>2. CASE ReadCorpus(t)
  <2>1. Others(corpus[p], call[t].doc) \in Seq(Docs)
    BY <1>1, OthersFacts
  <2> DEFINE hit == call[t].doc \in Range(corpus[p])
  <2>2. [call[t] EXCEPT !.at = "assign", !.kept = Others(corpus[p], call[t].doc), !.hit = hit] \in Call
    <3>1. hit \in BOOLEAN
      OBVIOUS
    <3> HIDE DEF hit
    <3> QED BY <1>1, <2>1, <3>1 DEF Call, Points
  <2> QED BY <1>1, <1>2, <2>2 DEF ReadCorpus, TypeOK, memory, rest
<1>3. CASE AssignCorpus(t)
  BY <1>1, <1>3, NoCallType DEF AssignCorpus, TypeOK, rest, Call, Points
<1>4. CASE AppendChunks(t)
  <2>1. Append(corpus[p], call[t].doc) \in Seq(Docs)
    BY <1>1, <1>4, AppendFacts DEF AppendChunks, DocsInv
  <2> QED BY <1>1, <1>4, <2>1 DEF AppendChunks, TypeOK, rest, Call, Points
<1>5. CASE Build(t)
  BY <1>1, <1>5 DEF Build, TypeOK, rest, Call, Points
<1>6. CASE SaveIndex(t)
  BY <1>1, <1>6 DEF SaveIndex, TypeOK, memory, rest, Call, Points, Disk
<1>7. CASE CallRaises(t)
  BY <1>1, <1>7, NoCallType DEF CallRaises, Release, TypeOK, memory, rest
<1>8. CASE OpenMeta(t)
  BY <1>1, <1>8 DEF OpenMeta, TypeOK, memory, rest, Call, Points, Disk
<1>9. CASE DumpMeta(t)
  <2>1. acked' \subseteq Docs
    BY <1>9 DEF DumpMeta, DocsInv, TypeOK
  <2>2. disk' \in Disk
    BY <1>1, <1>9 DEF DumpMeta, TypeOK, Disk
  <2>3. call' \in [Threads -> Call] /\ lock' \in Routes \cup {None}
    BY <1>9, NoCallType DEF DumpMeta, Release, TypeOK
  <2> QED BY <1>9, <2>1, <2>2, <2>3 DEF DumpMeta, TypeOK, memory, rest
<1> QED BY <1>2, <1>3, <1>4, <1>5, <1>6, <1>7, <1>8, <1>9 DEF CallStep

LEMMA StepDocs == TypeOK /\ DocsInv /\ [Next]_vars => DocsInv'
PROOF
<1> SUFFICES ASSUME TypeOK, DocsInv, [Next]_vars, NEW u \in Threads, call'[u].at # "idle"
             PROVE  call'[u].doc \in Docs
  BY DEF DocsInv
<1>1. call \in [Threads -> Call] /\ (call[u].at # "idle" => call[u].doc \in Docs)
  BY DEF TypeOK, DocsInv
<1>2. ASSUME NEW t \in Threads, NEW d \in Docs, StartIndex(t, d) \/ StartRemove(t, d)
      PROVE  call'[u].doc \in Docs
  BY <1>1, <1>2 DEF StartIndex, StartRemove, Begin, NewCall, NoCall
<1>3. ASSUME NEW t \in Threads, Acquire(t) \/ CallStep(t) PROVE call'[u].doc \in Docs
  <2>1. call[t] \in Call /\ (t # u => call'[u] = call[u])
    BY <1>1, <1>3 DEF Acquire, CallStep, ReadCorpus, AssignCorpus, AppendChunks, Build, SaveIndex,
                      CallRaises, OpenMeta, DumpMeta
  <2>2. CASE t = u
    <3>1. CASE Acquire(t) \/ ReadCorpus(t) \/ AppendChunks(t) \/ Build(t) \/ SaveIndex(t) \/ OpenMeta(t)
      <4>1. call[t].at # "idle" /\ call'[t].doc = call[t].doc
        BY <1>1, <2>1, <3>1 DEF Acquire, ReadCorpus, AppendChunks, Build, SaveIndex, OpenMeta, Call
      <4> QED BY <1>1, <2>2, <4>1
    <3>2. CASE AssignCorpus(t)
      <4>1. call[t].at # "idle" /\ (call'[t] = NoCall \/ call'[t].doc = call[t].doc)
        BY <1>1, <2>1, <3>2 DEF AssignCorpus, Call
      <4> QED BY <1>1, <2>2, <4>1 DEF NoCall
    <3>3. CASE CallRaises(t) \/ DumpMeta(t)
      <4>1. call'[t] = NoCall
        BY <1>1, <3>3 DEF CallRaises, DumpMeta
      <4> QED BY <2>2, <4>1 DEF NoCall
    <3> QED BY <1>3, <3>1, <3>2, <3>3 DEF CallStep
  <2> QED BY <1>1, <2>1, <2>2
<1>4. ASSUME NEW p \in Procs, Restart(p) PROVE call'[u].doc \in Docs
  BY <1>1, <1>4 DEF Restart, NoCall
<1>5. CASE Reload
  BY <1>1, <1>5 DEF Reload, StartReload, LoadIndex, LoadMeta
<1>6. ASSUME NEW s \in Searchers, StartSearch(s) \/ SearchReads(s) PROVE call'[u].doc \in Docs
  BY <1>1, <1>6 DEF StartSearch, SearchReads
<1>7. CASE UNCHANGED vars
  BY <1>1, <1>7 DEF vars
<1> QED BY <1>2, <1>3, <1>4, <1>5, <1>6, <1>7 DEF Next, Threads

LEMMA StepTypes == TypeOK /\ DocsInv /\ [Next]_vars => TypeOK'
PROOF
<1> SUFFICES ASSUME TypeOK, DocsInv, [Next]_vars PROVE TypeOK'
  OBVIOUS
<1>1. CASE \E t \in Threads, d \in Docs : StartIndex(t, d)
  <2>1. PICK t \in Threads, d \in Docs : StartIndex(t, d)
    BY <1>1
  <2>2. [NewCall("index", d) EXCEPT !.at = IF t \in Routes THEN "waiting" ELSE "read"] \in Call
    BY EmptySeq DEF NewCall, NoCall, Call, Points
  <2> QED BY <2>1, <2>2, SparseAssumption DEF StartIndex, Begin, TypeOK, memory, rest
<1>2. CASE \E t \in Connectors, d \in Docs : StartRemove(t, d)
  <2>1. PICK t \in Connectors, d \in Docs : StartRemove(t, d)
    BY <1>2
  <2>2. NewCall("remove", d) \in Call
    BY EmptySeq DEF NewCall, NoCall, Call, Points
  <2>3. t \in Threads
    BY DEF Threads
  <2> QED BY <2>1, <2>2, <2>3, SparseAssumption DEF StartRemove, Begin, TypeOK, memory, rest
<1>3. CASE \E t \in Routes : Acquire(t)
  <2>1. PICK t \in Routes : Acquire(t)
    BY <1>3
  <2>2. t \in Threads /\ [call[t] EXCEPT !.at = "read"] \in Call
    BY <2>1 DEF TypeOK, Call, Points, Threads
  <2> QED BY <2>1, <2>2 DEF Acquire, TypeOK, memory, rest
<1>4. CASE \E t \in Threads : CallStep(t)
  BY <1>4, CallStepTypes
<1>5. CASE Reload
  <2>1. CASE StartReload
    BY <2>1, EmptySeq DEF StartReload, TypeOK
  <2>2. CASE LoadIndex
    BY <2>2 DEF LoadIndex, TypeOK, Disk
  <2>3. CASE LoadMeta
    BY <2>3 DEF LoadMeta, TypeOK, Disk
  <2> QED BY <1>5, <2>1, <2>2, <2>3 DEF Reload
<1>6. CASE \E s \in Searchers : StartSearch(s) \/ SearchReads(s)
  <2>1. PICK s \in Searchers : StartSearch(s) \/ SearchReads(s)
    BY <1>6
  <2>2. corpus["gateway"] \in Seq(Docs) /\ retriever["gateway"] \in Seq(Docs) /\ search[s] \in Search
    BY DEF TypeOK, Procs
  <2>3. CASE StartSearch(s)
    <3>1. [at |-> "ranked", scored |-> retriever["gateway"], chunks |-> <<>>] \in Search
      BY <2>2, EmptySeq DEF Search
    <3> QED BY <2>3, <3>1 DEF StartSearch, TypeOK, memory
  <2>4. CASE SearchReads(s)
    <3>1. [search[s] EXCEPT !.at = "returned", !.chunks = corpus["gateway"]] \in Search
      BY <2>2 DEF Search
    <3> QED BY <2>4, <3>1 DEF SearchReads, TypeOK, memory
  <2> QED BY <2>1, <2>3, <2>4
<1>7. CASE \E p \in Procs : Restart(p)
  <2>1. PICK p \in Procs : Restart(p)
    BY <1>7
  <2>2. <<>> \in Seq(Docs) /\ NoSearch \in Search
    BY EmptySeq DEF NoSearch, Search
  <2> QED BY <2>1, <2>2, NoCallType, SparseAssumption DEF Restart, TypeOK, Disk
<1>8. CASE UNCHANGED vars
  BY <1>8 DEF vars, TypeOK
<1> QED BY <1>1, <1>2, <1>3, <1>4, <1>5, <1>6, <1>7, <1>8 DEF Next

\* Every variable of both stores, their files and their callers keeps its type, and a
\* call that runs has its document, with any threads, reloads and restarts.
THEOREM SparseTypes == Spec => [](TypeOK /\ DocsInv)
PROOF
<1>1. Init => TypeOK
  BY NoCallType, EmptySeq, SparseAssumption
     DEF Init, TypeOK, NoFiles, Disk, NoSearch, Search
<1>2. Init => DocsInv
  BY DEF Init, DocsInv, NoCall
<1> QED BY <1>1, <1>2, StepTypes, StepDocs, PTL DEF Spec

-----------------------------------------------------------------------------
(* Calls that take turns                                                     *)

\* What a process has in memory ranks what it holds.
Paired(p) == corpus[p] # <<>> => retriever[p] = corpus[p]

\* The two files agree, and are there when they hold anything.
Filed ==
  /\ disk.meta # "torn"
  /\ disk.meta = "missing" => disk.chunks = <<>>
  /\ disk.chunks # <<>> => disk.index = disk.chunks

\* The chunks c will write.
New(c) == LET others == Others(disk.chunks, c.doc) IN
  IF c.op = "index" THEN Append(others, c.doc) ELSE others

\* What c has done so far, in the memory of p, of turning the chunks in the files into
\* those it will write.
Stage(c, p) ==
  /\ c.op = "remove" => c.doc \notin acked
  /\ c.at = "assign" => /\ Filed /\ Paired(p) /\ corpus[p] = disk.chunks
                        /\ c.kept = Others(corpus[p], c.doc) /\ c.hit = (c.doc \in Range(corpus[p]))
  /\ c.at = "append" => c.op = "index" /\ corpus[p] = Others(disk.chunks, c.doc)
  /\ c.at \in {"build", "saveIndex", "openMeta", "dumpMeta"} => corpus[p] = New(c)
  /\ c.at \in {"append", "build", "saveIndex", "openMeta"} => disk.meta # "torn"
  /\ c.at = "saveIndex" => corpus[p] # <<>> /\ retriever[p] = corpus[p]
  /\ c.at \in {"openMeta", "dumpMeta"} /\ corpus[p] # <<>> =>
       retriever[p] = corpus[p] /\ disk.index = corpus[p]
  /\ c.at = "dumpMeta" => disk.meta = "torn"

\* One call at a time is amid its work, and none while the gateway reloads.
OneInv ==
  /\ \A s, t \in Threads : Amid(s) /\ Amid(t) => s = t
  /\ \A t \in Threads : Amid(t) => reloading = "idle"

\* The chunks in the files are always in order.
FileInv == IsInjective(disk.chunks) /\ acked \subseteq Range(disk.chunks)

StageInv == \A t \in Threads : Amid(t) => Stage(call[t], Proc(t))

FiledInv == (\A t \in Threads : ~Amid(t)) => Filed

PairInv ==
  \A p \in Procs :
    (\A t \in Threads : Amid(t) => Proc(t) # p) /\ (p = "gateway" => reloading = "idle") => Paired(p)

\* What the gateway has read back so far.
LoadInv ==
  /\ reloading = "index" => corpus["gateway"] = <<>> /\ retriever["gateway"] = <<>>
  /\ reloading = "meta" =>
       /\ corpus["gateway"] = <<>> /\ retriever["gateway"] = disk.index /\ disk.meta # "missing"

\* A gateway with no worker beside it.
HeldInv == Workers = {} /\ Settled => corpus["gateway"] = disk.chunks

TurnInv == OneInv /\ FileInv /\ StageInv /\ FiledInv /\ PairInv /\ LoadInv /\ HeldInv

\* What c will write is what was in the files with its document, or without it.
LEMMA NewFacts ==
  ASSUME TypeOK, FileInv, NEW c, c.doc \in Docs
  PROVE  /\ New(c) \in Seq(Docs) /\ IsInjective(New(c))
         /\ Range(New(c)) = IF c.op = "index" THEN Range(disk.chunks) \union {c.doc}
                                              ELSE Range(disk.chunks) \ {c.doc}
         /\ c.op = "index" => New(c) # <<>>
PROOF
<1> DEFINE others == Others(disk.chunks, c.doc)
<1>1. disk.chunks \in Seq(Docs)
  BY DEF TypeOK, Disk
<1>2. others \in Seq(Docs) /\ Range(others) = Range(disk.chunks) \ {c.doc} /\ IsInjective(others)
  BY <1>1, OthersFacts DEF FileInv
<1> HIDE DEF others
<1>3. /\ Append(others, c.doc) \in Seq(Docs) /\ Append(others, c.doc) # <<>>
      /\ Range(Append(others, c.doc)) = Range(others) \union {c.doc} /\ IsInjective(Append(others, c.doc))
  BY <1>2, AppendFacts
<1>4. New(c) = IF c.op = "index" THEN Append(others, c.doc) ELSE others
  BY DEF New, others
<1> QED BY <1>2, <1>3, <1>4

\* What is stored when no file is torn, and when one call is about to dump.
LEMMA StoredWhole == ASSUME disk.meta # "torn" PROVE stored = Range(disk.chunks)
BY DEF stored

LEMMA StoredTorn ==
  ASSUME disk.meta = "torn", NEW t \in Threads, \A u \in Threads : call[u].at = "dumpMeta" <=> u = t
  PROVE  stored = Range(corpus[Proc(t)])
<1>1. {u \in Threads : call[u].at = "dumpMeta"} = {t}
  OBVIOUS
<1>2. {Range(corpus[Proc(u)]) : u \in {t}} = {Range(corpus[Proc(t)])}
  OBVIOUS
<1>3. UNION {Range(corpus[Proc(t)])} = Range(corpus[Proc(t)])
  OBVIOUS
<1> QED BY <1>1, <1>2, <1>3 DEF stored

\* A step of a call: only it is amid its work, and other calls stay.
LEMMA OneMovesOn ==
  ASSUME TypeOK, TurnInv, TurnsTaken, NEW t \in Threads, CallStep(t)
  PROVE  /\ \A s \in Threads \ {t} : call'[s] = call[s] /\ ~Amid(s)
         /\ reloading = "idle" /\ reloading' = "idle"
         /\ ReadCorpus(t) \/ Amid(t)
PROOF
<1>1. \A s \in Threads \ {t} : call'[s] = call[s]
  BY DEF CallStep, ReadCorpus, AssignCorpus, AppendChunks, Build, SaveIndex, CallRaises,
         OpenMeta, DumpMeta, TypeOK
<1>2. reloading' = reloading
  BY DEF CallStep, ReadCorpus, AssignCorpus, AppendChunks, Build, SaveIndex, CallRaises,
         OpenMeta, DumpMeta, rest
<1>3. ReadCorpus(t) \/ Amid(t)
  BY DEF CallStep, AssignCorpus, AppendChunks, Build, SaveIndex, CallRaises, OpenMeta, DumpMeta, Amid
<1>4. CASE ReadCorpus(t)
  BY <1>1, <1>2, <1>4 DEF TurnsTaken, Settled
<1>5. CASE Amid(t)
  BY <1>1, <1>2, <1>3, <1>5 DEF TurnInv, OneInv
<1> QED BY <1>3, <1>4, <1>5

\* What a call does to the store, and how far it gets.
LEMMA CallStepTurn ==
  ASSUME TypeOK, DocsInv, TurnInv, TurnsTaken, NEW t \in Threads, CallStep(t)
  PROVE  /\ FileInv' /\ (Amid(t)' => Stage(call[t], Proc(t))')
         /\ ~Amid(t)' => Filed' /\ Paired(Proc(t))' /\ corpus'[Proc(t)] = disk'.chunks
         /\ Library!Next \/ stored' = stored
PROOF
<1> DEFINE c == call[t]
<1> DEFINE p == Proc(t)
<1> DEFINE m == corpus[p]
<1>1. /\ p \in Procs /\ c \in Call /\ c.doc \in Docs /\ FileInv
      /\ disk \in Disk /\ corpus \in [Procs -> Seq(Docs)] /\ retriever \in [Procs -> Seq(Docs)]
      /\ call \in [Threads -> Call] /\ m \in Seq(Docs)
  <2>1. c.at # "idle"
    BY DEF CallStep, ReadCorpus, AssignCorpus, AppendChunks, Build, SaveIndex, CallRaises,
           OpenMeta, DumpMeta
  <2> QED BY <2>1 DEF Proc, Procs, TypeOK, DocsInv, TurnInv
<1>2. Amid(t) => Stage(c, p)
  BY DEF TurnInv, StageInv
<1>3. \A u \in Threads \ {t} : call'[u] = call[u] /\ ~Amid(u)
  BY OneMovesOn
<1> HIDE DEF p
<1>4. CASE ReadCorpus(t)
  <2>1. Settled /\ (Workers = {} \/ m = disk.chunks) /\ c.at = "read"
    BY <1>4 DEF TurnsTaken, Current, ReadCorpus, p
  <2>2. Workers = {} => m = disk.chunks
    BY <2>1 DEF TurnInv, HeldInv, Proc, p
  <2>3. Filed /\ Paired(p) /\ m = disk.chunks
    BY <1>1, <2>1, <2>2 DEF TurnInv, FiledInv, PairInv, Settled
  <2>4. call'[t] = [c EXCEPT !.at = "assign", !.kept = Others(m, c.doc), !.hit = c.doc \in Range(m)]
    BY <1>1, <1>4 DEF ReadCorpus, p
  <2>5. /\ call'[t].at = "assign" /\ call'[t].op = c.op /\ call'[t].doc = c.doc
        /\ call'[t].kept = Others(m, c.doc) /\ call'[t].hit = (c.doc \in Range(m))
    BY <1>1, <2>4 DEF Call
  <2>6. /\ corpus' = corpus /\ retriever' = retriever /\ disk' = disk
        /\ acked' = IF c.op = "remove" THEN acked \ {c.doc} ELSE acked
    BY <1>4 DEF ReadCorpus, memory
  <2>7. Filed' /\ Paired(p)' /\ Amid(t)'
    BY <2>3, <2>5, <2>6 DEF Filed, Paired, Amid
  <2>8. Stage(call[t], p)'
    BY <1>1, <2>3, <2>5, <2>6, <2>7 DEF Stage
  <2>9. FileInv' /\ stored' = stored
    <3>1. stored = Range(disk.chunks)
      BY <2>3, StoredWhole DEF Filed
    <3>2. stored' = Range(disk.chunks)
      BY <2>3, <2>6 DEF Filed, stored
    <3> QED BY <1>1, <2>6, <3>1, <3>2 DEF FileInv
  <2> QED BY <2>7, <2>8, <2>9 DEF p
<1>5. CASE AssignCorpus(t)
  <2>1. /\ c.at = "assign" /\ Filed /\ Paired(p) /\ m = disk.chunks
        /\ c.kept = Others(m, c.doc) /\ c.hit = (c.doc \in Range(m)) /\ Stage(c, p)
    BY <1>2, <1>5 DEF Stage, AssignCorpus, Amid
  <2>2. corpus'[p] = c.kept /\ retriever' = retriever /\ disk' = disk /\ acked' = acked
    BY <1>1, <1>5 DEF AssignCorpus, p
  <2>3. stored' = stored /\ FileInv' /\ Filed'
    <3>1. stored = Range(disk.chunks)
      BY <2>1, StoredWhole DEF Filed
    <3>2. stored' = Range(disk.chunks)
      BY <2>1, <2>2 DEF Filed, stored
    <3> QED BY <1>1, <2>1, <2>2, <3>1, <3>2 DEF FileInv, Filed
  <2>4. CASE c.op = "index"
    <3>1. call'[t] = [c EXCEPT !.at = "append"]
      BY <1>1, <1>5, <2>4 DEF AssignCorpus
    <3>2. call'[t].at = "append" /\ call'[t].op = c.op /\ call'[t].doc = c.doc
      BY <1>1, <3>1 DEF Call
    <3>3. Stage(call[t], p)' /\ Amid(t)'
      BY <2>1, <2>2, <2>4, <3>2 DEF Stage, Amid, Filed
    <3> QED BY <2>3, <3>3 DEF p
  <2>5. CASE c.op = "remove" /\ c.hit
    <3>1. call'[t] = [c EXCEPT !.at = "build"]
      BY <1>1, <1>5, <2>5 DEF AssignCorpus
    <3>2. call'[t].at = "build" /\ call'[t].op = c.op /\ call'[t].doc = c.doc
      BY <1>1, <3>1 DEF Call
    <3>3. Stage(call[t], p)' /\ Amid(t)'
      BY <2>1, <2>2, <2>5, <3>2 DEF Stage, Amid, Filed, New
    <3> QED BY <2>3, <3>3 DEF p
  <2>6. CASE c.op = "remove" /\ ~c.hit
    <3>1. call'[t] = NoCall
      BY <1>1, <1>5, <2>6 DEF AssignCorpus
    <3>2. corpus'[p] = m
      BY <1>1, <2>1, <2>2, <2>6, OthersFacts
    <3>3. Paired(p)' /\ corpus'[p] = disk'.chunks
      BY <2>1, <2>2, <3>2 DEF Paired
    <3> QED BY <2>3, <3>1, <3>3 DEF Amid, NoCall, p
  <2> QED BY <1>1, <2>4, <2>5, <2>6 DEF Call
<1>6. CASE AppendChunks(t)
  <2>1. m = Others(disk.chunks, c.doc) /\ c.op = "index" /\ disk.meta # "torn"
    BY <1>2, <1>6 DEF Stage, AppendChunks, Amid
  <2>2. corpus'[p] = Append(m, c.doc) /\ retriever' = retriever /\ disk' = disk /\ acked' = acked
    BY <1>1, <1>6 DEF AppendChunks, p
  <2>3. call'[t] = [c EXCEPT !.at = "build"]
    BY <1>1, <1>6 DEF AppendChunks
  <2>4. call'[t].at = "build" /\ call'[t].op = c.op /\ call'[t].doc = c.doc
    BY <1>1, <2>3 DEF Call
  <2>5. Stage(call[t], p)' /\ Amid(t)'
    BY <2>1, <2>2, <2>4 DEF Stage, Amid, New
  <2>6. stored' = stored
    BY <2>1, <2>2 DEF stored
  <2> QED BY <1>1, <2>2, <2>5, <2>6 DEF FileInv, p
<1>7. CASE Build(t)
  <2>1. m = New(c) /\ disk.meta # "torn" /\ (c.op = "remove" => c.doc \notin acked)
    BY <1>2, <1>7 DEF Stage, Build, Amid
  <2>2. corpus' = corpus /\ retriever'[p] = m /\ disk' = disk /\ acked' = acked
    BY <1>1, <1>7 DEF Build, p
  <2>3. call'[t] = [c EXCEPT !.at = IF m = <<>> THEN "openMeta" ELSE "saveIndex"]
    BY <1>1, <1>7 DEF Build, p
  <2>4. /\ call'[t].at = (IF m = <<>> THEN "openMeta" ELSE "saveIndex")
        /\ call'[t].op = c.op /\ call'[t].doc = c.doc
    BY <1>1, <2>3 DEF Call
  <2>5. Stage(call[t], p)' /\ Amid(t)'
    BY <1>1, <2>1, <2>2, <2>4 DEF Stage, Amid, New
  <2>6. stored' = stored
    BY <2>1, <2>2 DEF stored
  <2> QED BY <1>1, <2>2, <2>5, <2>6 DEF FileInv, p
<1>8. CASE SaveIndex(t)
  <2>1. /\ m = New(c) /\ m # <<>> /\ retriever[p] = m /\ disk.meta # "torn"
        /\ c.op = "remove" => c.doc \notin acked
    BY <1>2, <1>8 DEF Stage, SaveIndex, Amid
  <2>2. corpus' = corpus /\ retriever' = retriever /\ acked' = acked
        /\ disk'.index = m /\ disk'.meta = disk.meta /\ disk'.chunks = disk.chunks
    BY <1>1, <1>8, <2>1 DEF SaveIndex, Disk, memory, p
  <2>3. call'[t] = [c EXCEPT !.at = "openMeta"]
    BY <1>1, <1>8 DEF SaveIndex
  <2>4. call'[t].at = "openMeta" /\ call'[t].op = c.op /\ call'[t].doc = c.doc
    BY <1>1, <2>3 DEF Call
  <2>5. Stage(call[t], p)' /\ Amid(t)'
    BY <1>1, <2>1, <2>2, <2>4 DEF Stage, Amid, New
  <2>6. stored' = stored
    BY <2>1, <2>2 DEF stored
  <2> QED BY <1>1, <2>2, <2>5, <2>6 DEF FileInv, p
<1>9. CASE CallRaises(t)
  <2>1. c.at = "build" => m = New(c)
    BY <1>2 DEF Stage, Amid
  <2>2. c.op = "index" => New(c) # <<>>
    BY <1>1, NewFacts
  <2>3. c.at = "saveIndex" => retriever[p] # <<>>
    BY <1>2 DEF Stage, Amid
  <2> QED BY <1>1, <1>9, <2>1, <2>2, <2>3 DEF CallRaises, p
<1>10. CASE OpenMeta(t)
  <2>1. /\ m = New(c) /\ disk.meta # "torn" /\ (m # <<>> => retriever[p] = m /\ disk.index = m)
        /\ c.op = "remove" => c.doc \notin acked
    BY <1>2, <1>10 DEF Stage, OpenMeta, Amid
  <2>2. corpus' = corpus /\ retriever' = retriever /\ acked' = acked
        /\ disk'.index = disk.index /\ disk'.meta = "torn" /\ disk'.chunks = disk.chunks
    BY <1>1, <1>10 DEF OpenMeta, Disk, memory
  <2>3. call'[t] = [c EXCEPT !.at = "dumpMeta"]
    BY <1>1, <1>10 DEF OpenMeta
  <2>4. call'[t].at = "dumpMeta" /\ call'[t].op = c.op /\ call'[t].doc = c.doc
    BY <1>1, <2>3 DEF Call
  <2>5. Stage(call[t], p)' /\ Amid(t)'
    BY <1>1, <2>1, <2>2, <2>4 DEF Stage, Amid, New
  <2>6. stored = Range(disk.chunks) /\ stored' = Range(New(c))
    <3>1. \A u \in Threads : call'[u].at = "dumpMeta" <=> u = t
      BY <1>3, <2>4 DEF Amid
    <3>2. stored' = Range(corpus'[p])
      <4>1. {u \in Threads : call'[u].at = "dumpMeta"} = {t}
        BY <3>1
      <4>2. stored' = UNION {Range(corpus'[Proc(u)]) : u \in {t}}
        BY <2>2, <4>1 DEF stored
      <4> QED BY <4>2 DEF p
    <3> QED BY <2>1, <2>2, <3>2, StoredWhole
  <2>7. c.op = "index" \/ c.op = "remove"
    BY <1>1 DEF Call
  <2>8. Library!IndexDocument(c.doc) \/ Library!RemoveDocument(c.doc)
    BY <1>1, <2>6, <2>7, NewFacts DEF Library!IndexDocument, Library!RemoveDocument
  <2>9. Library!Next
    BY <1>1, <2>8 DEF Library!Next
  <2> QED BY <1>1, <2>2, <2>5, <2>9 DEF FileInv, p
<1>11. CASE DumpMeta(t)
  <2>1. /\ m = New(c) /\ disk.meta = "torn" /\ (m # <<>> => retriever[p] = m /\ disk.index = m)
        /\ c.op = "remove" => c.doc \notin acked
    BY <1>2, <1>11 DEF Stage, DumpMeta, Amid
  <2>2. ~ \E u \in Threads \ {t} : call[u].at = "dumpMeta"
    BY <1>3 DEF Amid
  <2>3. disk'.meta = "whole" /\ disk'.chunks = m /\ disk'.index = disk.index
        /\ corpus' = corpus /\ retriever' = retriever
        /\ acked' = (IF c.op = "index" THEN acked \cup {c.doc} ELSE acked)
    BY <1>1, <1>11, <2>2 DEF DumpMeta, Disk, memory, p
  <2>4. call'[t] = NoCall
    BY <1>1, <1>11 DEF DumpMeta
  <2>5. FileInv'
    <3>1. IsInjective(New(c)) /\ Range(New(c)) = IF c.op = "index" THEN Range(disk.chunks) \union {c.doc}
                                                                    ELSE Range(disk.chunks) \ {c.doc}
      BY <1>1, NewFacts
    <3>2. c.op = "index" \/ c.op = "remove"
      BY <1>1 DEF Call
    <3> QED BY <1>1, <2>1, <2>3, <3>1, <3>2 DEF FileInv
  <2>6. Filed' /\ Paired(p)' /\ corpus'[p] = disk'.chunks
    BY <2>1, <2>3 DEF Filed, Paired
  <2>7. stored' = stored
    <3>1. \A u \in Threads : call[u].at = "dumpMeta" <=> u = t
      BY <1>11, <2>2 DEF DumpMeta
    <3>2. stored = Range(m)
      BY <2>1, <3>1, StoredTorn DEF p
    <3> QED BY <2>3, <3>2 DEF stored
  <2> QED BY <2>4, <2>5, <2>6, <2>7 DEF Amid, NoCall, p
<1> QED BY <1>4, <1>5, <1>6, <1>7, <1>8, <1>9, <1>10, <1>11 DEF CallStep

\* The invariant over a step of a call.
LEMMA CallKeepsTurns ==
  ASSUME TypeOK, DocsInv, TurnInv, TurnsTaken, NEW t \in Threads, CallStep(t)
  PROVE  TurnInv'
PROOF
<1>1. /\ FileInv' /\ (Amid(t)' => Stage(call[t], Proc(t))')
      /\ ~Amid(t)' => Filed' /\ Paired(Proc(t))' /\ corpus'[Proc(t)] = disk'.chunks
  BY CallStepTurn
<1>2. /\ \A s \in Threads \ {t} : ~Amid(s)'
      /\ reloading = "idle" /\ reloading' = "idle"
      /\ \A s \in Threads \ {t} : ~Amid(s)
  BY OneMovesOn DEF Amid
<1>3. \A q \in Procs \ {Proc(t)} : corpus'[q] = corpus[q] /\ retriever'[q] = retriever[q]
  BY DEF CallStep, ReadCorpus, AssignCorpus, AppendChunks, Build, SaveIndex, CallRaises,
         OpenMeta, DumpMeta, TypeOK, memory
<1>4. OneInv' /\ StageInv' /\ FiledInv' /\ LoadInv'
  BY <1>1, <1>2 DEF OneInv, StageInv, FiledInv, LoadInv
<1>5. PairInv'
  <2> SUFFICES ASSUME NEW q \in Procs, \A s \in Threads : Amid(s)' => Proc(s) # q
               PROVE  Paired(q)'
    BY DEF PairInv, Proc
  <2>1. CASE q = Proc(t)
    BY <1>1, <2>1
  <2>2. CASE q # Proc(t)
    BY <1>2, <1>3, <2>2 DEF TurnInv, PairInv, Paired
  <2> QED BY <2>1, <2>2
<1>6. HeldInv'
  <2> SUFFICES ASSUME Workers = {}, ~Amid(t)' PROVE corpus'["gateway"] = disk'.chunks
    BY DEF HeldInv, Settled
  <2> QED BY <1>1 DEF Proc
<1> QED BY <1>1, <1>4, <1>5, <1>6 DEF TurnInv

\* A step that moves no call into or out of its work and leaves the store alone.
LEMMA StoreStays ==
  ASSUME TurnInv, UNCHANGED <<corpus, retriever, disk, reloading, acked>>,
         \A t \in Threads : call'[t] = call[t] \/ (~Amid(t) /\ ~Amid(t)')
  PROVE  TurnInv' /\ stored' = stored
<1>1. \A t \in Threads : /\ Amid(t)' <=> Amid(t)
                         /\ Amid(t) => call'[t] = call[t]
                         /\ call'[t].at = "dumpMeta" <=> call[t].at = "dumpMeta"
  BY DEF Amid
<1>2. Filed' <=> Filed
  BY DEF Filed
<1>3. \A p : Paired(p)' <=> Paired(p)
  BY DEF Paired
<1>4. StageInv'
  <2> SUFFICES ASSUME NEW t \in Threads, Amid(t)' PROVE Stage(call[t], Proc(t))'
    BY DEF StageInv
  <2>1. call'[t] = call[t] /\ Stage(call[t], Proc(t))
    BY <1>1 DEF TurnInv, StageInv
  <2> QED BY <1>2, <1>3, <2>1 DEF Stage, New, Proc, Filed, Paired
<1>5. {u \in Threads : call'[u].at = "dumpMeta"} = {u \in Threads : call[u].at = "dumpMeta"}
  BY <1>1
<1>6. stored' = stored
  BY <1>5 DEF stored
<1>7. OneInv' /\ FileInv' /\ FiledInv' /\ PairInv' /\ LoadInv' /\ HeldInv'
  BY <1>1, <1>2, <1>3 DEF TurnInv, OneInv, FileInv, FiledInv, PairInv, LoadInv, HeldInv, Settled
<1> QED BY <1>4, <1>6, <1>7 DEF TurnInv

\* The gateway forgets its store and reads back what is in the files.
LEMMA ReloadKeepsTurns ==
  ASSUME TypeOK, TurnInv, TurnsTaken, Reload
  PROVE  TurnInv' /\ stored' = stored
PROOF
<1>1. UNCHANGED <<disk, call, acked>> /\ corpus'["worker"] = corpus["worker"]
      /\ retriever'["worker"] = retriever["worker"]
  BY DEF Reload, StartReload, LoadIndex, LoadMeta, TypeOK, Procs
<1>2. \A t \in Threads : ~Amid(t) /\ ~Amid(t)'
  <2>1. CASE StartReload
    BY <1>1, <2>1 DEF TurnsTaken, Settled, Amid
  <2>2. CASE LoadIndex \/ LoadMeta
    BY <1>1, <2>2 DEF LoadIndex, LoadMeta, TurnInv, OneInv, Amid
  <2> QED BY <2>1, <2>2 DEF Reload
<1>3. Filed /\ Filed'
  BY <1>1, <1>2 DEF TurnInv, FiledInv, Filed
<1>4. OneInv' /\ FileInv' /\ StageInv' /\ FiledInv'
  BY <1>1, <1>2, <1>3 DEF TurnInv, OneInv, FileInv, StageInv, FiledInv
<1>5. stored' = stored
  BY <1>1, <1>3 DEF stored, Filed
<1>6. Paired("worker")'
  BY <1>1, <1>2 DEF TurnInv, PairInv, Paired, Procs
<1>7. LoadInv'
  <2>1. CASE StartReload
    BY <2>1 DEF StartReload, LoadInv, TypeOK, Procs
  <2>2. CASE LoadIndex
    BY <2>2 DEF LoadIndex, LoadInv, TurnInv, TypeOK, Procs
  <2>3. CASE LoadMeta
    BY <2>3 DEF LoadMeta, LoadInv
  <2> QED BY <2>1, <2>2, <2>3 DEF Reload
<1>8. reloading' = "idle" => Paired("gateway")' /\ corpus'["gateway"] = disk'.chunks
  <2>1. CASE StartReload
    BY <2>1 DEF StartReload
  <2>2. CASE LoadIndex
    BY <1>1, <1>3, <2>2 DEF LoadIndex, TurnInv, LoadInv, Filed, Paired
  <2>3. CASE LoadMeta
    <3>1. disk.meta = "whole" /\ retriever' = retriever /\ retriever["gateway"] = disk.index
      BY <1>3, <2>3 DEF LoadMeta, TurnInv, LoadInv, Filed, TypeOK, Disk
    <3>2. corpus'["gateway"] = disk.chunks
      BY <2>3, <3>1 DEF LoadMeta, TypeOK, Procs
    <3> QED BY <1>1, <1>3, <3>1, <3>2 DEF Filed, Paired
  <2> QED BY <2>1, <2>2, <2>3 DEF Reload
<1>9. PairInv' /\ HeldInv'
  BY <1>6, <1>8 DEF PairInv, HeldInv, Settled, Procs
<1> QED BY <1>4, <1>5, <1>7, <1>9 DEF TurnInv

\* A process starts again and loads what is in the files.
LEMMA RestartKeepsTurns ==
  ASSUME TypeOK, TurnInv, TurnsTaken, NEW p \in Procs, Restart(p)
  PROVE  TurnInv' /\ stored' = stored
PROOF
<1>1. /\ UNCHANGED <<disk, acked>> /\ reloading = "idle" /\ reloading' = "idle"
      /\ \A t \in Threads : ~Amid(t) /\ (call'[t] = call[t] \/ call'[t] = NoCall)
  BY DEF Restart, TurnsTaken, Settled
<1>2. \A t \in Threads : ~Amid(t)'
  BY <1>1 DEF Amid, NoCall
<1>3. Filed /\ Filed'
  BY <1>1 DEF TurnInv, FiledInv, Filed
<1>4. OneInv' /\ FileInv' /\ StageInv' /\ FiledInv' /\ LoadInv'
  BY <1>1, <1>2, <1>3 DEF TurnInv, OneInv, FileInv, StageInv, FiledInv, LoadInv
<1>5. stored' = stored
  BY <1>1, <1>3 DEF stored, Filed
<1>6. corpus'[p] = disk.chunks /\ Paired(p)'
  <2>1. disk.meta \in {"whole", "missing"}
    BY <1>3 DEF Filed, TypeOK, Disk
  <2>2. corpus'[p] = disk.chunks
    BY <1>3, <2>1 DEF Restart, TypeOK, Filed
  <2>3. retriever'[p] = IF disk.meta = "missing" THEN <<>> ELSE disk.index
    BY DEF Restart, TypeOK
  <2> QED BY <1>3, <2>1, <2>2, <2>3 DEF Filed, Paired
<1>7. \A q \in Procs \ {p} : corpus'[q] = corpus[q] /\ retriever'[q] = retriever[q]
  BY DEF Restart, TypeOK
<1>8. PairInv'
  BY <1>1, <1>6, <1>7 DEF TurnInv, PairInv, Paired
<1>9. HeldInv'
  <2>1. Workers = {} => corpus["gateway"] = disk.chunks
    BY <1>1 DEF TurnInv, HeldInv, Settled
  <2> QED BY <1>1, <1>6, <1>7, <2>1 DEF HeldInv, Procs
<1> QED BY <1>4, <1>5, <1>8, <1>9 DEF TurnInv

LEMMA StepTurn ==
  ASSUME TypeOK, DocsInv, TurnInv, [Next]_vars, [TurnsTaken]_vars
  PROVE  TurnInv' /\ [Library!Next]_stored
PROOF
<1>1. CASE UNCHANGED vars
  <2>1. UNCHANGED <<corpus, retriever, disk, call, reloading, acked>>
    BY <1>1 DEF vars
  <2> QED BY <2>1, StoreStays
<1>2. CASE Next /\ TurnsTaken
  <2>1. ASSUME NEW t \in Threads, NEW d \in Docs, StartIndex(t, d) \/ StartRemove(t, d)
        PROVE  TurnInv' /\ stored' = stored
    <3>1. PICK c : Begin(t, c) /\ c.at \in {"waiting", "read"}
      <4>1. NewCall("remove", d).at = "read"
            /\ \A a : [NewCall("index", d) EXCEPT !.at = a].at = a
        BY DEF NewCall, NoCall
      <4>2. CASE StartIndex(t, d)
        <5> DEFINE c == [NewCall("index", d) EXCEPT !.at = IF t \in Routes THEN "waiting" ELSE "read"]
        <5>1. Begin(t, c)
          BY <4>2 DEF StartIndex
        <5>2. c.at \in {"waiting", "read"}
          BY <4>1
        <5> HIDE DEF c
        <5> QED BY <5>1, <5>2
      <4>3. CASE StartRemove(t, d)
        <5> DEFINE c == NewCall("remove", d)
        <5>1. Begin(t, c)
          BY <4>3 DEF StartRemove
        <5>2. c.at \in {"waiting", "read"}
          BY <4>1
        <5> HIDE DEF c
        <5> QED BY <5>1, <5>2
      <4> QED BY <2>1, <4>2, <4>3
    <3>2. UNCHANGED <<corpus, retriever, disk, reloading, acked>>
          /\ \A s \in Threads : call'[s] = call[s] \/ (s = t /\ call'[s] = c /\ call[s].at = "idle")
      BY <3>1 DEF Begin, memory, rest, TypeOK
    <3>3. \A s \in Threads : call'[s] = call[s] \/ (~Amid(s) /\ ~Amid(s)')
      BY <3>1, <3>2 DEF Amid
    <3> QED BY <3>2, <3>3, StoreStays
  <2>2. ASSUME NEW t \in Routes, Acquire(t) PROVE TurnInv' /\ stored' = stored
    <3>1. t \in Threads
      BY DEF Threads
    <3>2. UNCHANGED <<corpus, retriever, disk, reloading, acked>>
          /\ \A s \in Threads : call'[s] = call[s] \/ (s = t /\ call'[s].at = "read" /\ call[s].at = "waiting")
      BY <2>2, <3>1 DEF Acquire, memory, rest, TypeOK, Call
    <3>3. \A s \in Threads : call'[s] = call[s] \/ (~Amid(s) /\ ~Amid(s)')
      BY <3>2 DEF Amid
    <3> QED BY <3>2, <3>3, StoreStays
  <2>3. ASSUME NEW t \in Threads, CallStep(t) PROVE TurnInv' /\ (Library!Next \/ stored' = stored)
    BY <1>2, <2>3, CallStepTurn, CallKeepsTurns
  <2>4. CASE Reload
    BY <1>2, <2>4, ReloadKeepsTurns
  <2>5. ASSUME NEW s \in Searchers, StartSearch(s) \/ SearchReads(s) PROVE TurnInv' /\ stored' = stored
    <3>1. UNCHANGED <<corpus, retriever, disk, call, reloading, acked>>
      BY <2>5 DEF StartSearch, SearchReads, memory
    <3> QED BY <3>1, StoreStays
  <2>6. ASSUME NEW p \in Procs, Restart(p) PROVE TurnInv' /\ stored' = stored
    BY <1>2, <2>6, RestartKeepsTurns
  <2> QED BY <1>2, <2>1, <2>2, <2>3, <2>4, <2>5, <2>6 DEF Next, Threads
<1> QED BY <1>1, <1>2

LEMMA InitTurn == Init => TurnInv /\ Library!Init
PROOF
<1> SUFFICES ASSUME Init PROVE TurnInv /\ Library!Init
  OBVIOUS
<1>1. /\ corpus["gateway"] = <<>> /\ \A p \in Procs : corpus[p] = <<>>
      /\ disk.meta = "missing" /\ disk.chunks = <<>> /\ acked = {} /\ reloading = "idle"
  BY DEF Init, NoFiles, Procs
<1>2. \A t \in Threads : ~Amid(t)
  BY DEF Init, NoCall, Amid
<1>3. DOMAIN <<>> = {} /\ Range(<<>>) = {} /\ IsInjective(<<>>)
  BY DEF Range, IsInjective
<1>4. FileInv /\ Filed /\ \A p \in Procs : Paired(p)
  BY <1>1, <1>3 DEF FileInv, Filed, Paired
<1>5. Library!Init
  BY <1>1, <1>3 DEF Library!Init, stored
<1> QED BY <1>1, <1>2, <1>4, <1>5
        DEF TurnInv, OneInv, StageInv, FiledInv, PairInv, LoadInv, HeldInv

\* Of any callers of both processes, reloads and restarts that take turns, what a search
\* reads by position is what its retriever ranks, in memory as in the files, each chunk is
\* there once, and every document whose indexing returned and that nobody removed is found.
THEOREM SearchFindsWhatWasIndexed ==
  Spec /\ [][TurnsTaken]_vars => []AlignedWhenQuiet
PROOF
<1>1. TurnInv => AlignedWhenQuiet
  <2> SUFFICES ASSUME TurnInv, Quiet PROVE AlignedWhenQuiet
    BY DEF AlignedWhenQuiet
  <2>1. reloading = "idle" /\ \A t \in Threads : ~Amid(t)
    BY DEF Quiet, Amid
  <2>2. Filed /\ Paired("gateway") /\ Settled
    BY <2>1 DEF TurnInv, FiledInv, PairInv, Procs, Settled
  <2> QED BY <2>2 DEF TurnInv, FileInv, HeldInv, AlignedWhenQuiet, Filed, Paired
<1> QED BY <1>1, InitTurn, StepTurn, SparseTypes, PTL DEF Spec

\* Such callers implement DocumentSet: the files change by whole documents, one document
\* at a time, and by nothing else, whatever reloads and restarts come in between.
THEOREM TurnsAreDocumentSet ==
  Spec /\ [][TurnsTaken]_vars => ImplementsDocumentSet
BY InitTurn, StepTurn, SparseTypes, PTL DEF Spec, ImplementsDocumentSet, Library!Spec
=============================================================================
