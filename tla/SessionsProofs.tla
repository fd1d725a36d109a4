--------------------------- MODULE SessionsProofs ---------------------------
(***************************************************************************)
(* What is proved of Sessions, for any requests, processes and bounds:     *)
(* the types, the two promises about messages, the one default             *)
(* conversation, and that requests served one at a time are steps of       *)
(* Project.  The argument: a request appends its question and its answer   *)
(* once each, since where its thread stands says what it has appended      *)
(* (PushInv); whatever else runs, a list only grows or is emptied after    *)
(* its conversation was dropped.  The thread that may save a default holds *)
(* the claim with the conversation it made (ClaimInv), which nobody else   *)
(* made (OwnInv).  And what the only thread has read is still so when it   *)
(* writes it back (Alone).                                                 *)
(***************************************************************************)
EXTENDS Sessions, FiniteSetTheorems, TLAPS

Titles == {"new", "auto", "given"}
Metas == [files : SUBSET File, count : Nat, title : Titles, workspace : BOOLEAN]
ConvRecs == [born : Nat, count : Nat, title : Titles]

Resolving == {"resolve", "lock", "recheck", "legacy", "copy", "claim", "wait", "saveDefault"}
AfterPush == {"findConv", "bumpConv", "findMeta", "bumpMeta"}
Pcs == Resolving \union AfterPush \union
       {"idle", "done", "meta", "update", "guard", "create", "model", "push", "generate", "rename",
        "renameSave", "stamp", "stampSave", "hdel", "delete", "ids", "delMeta", "delConvs", "delLists"}

Thread ==
  [op : AllOps \union {None}, pc : Pcs, conv : ConvIds \union {None}, arg : SUBSET File,
   role : {"user", "assistant"}, snap : Metas \union ConvRecs \union {None}, read : SUBSET ConvIds,
   own : ConvIds \union {None}, old : Seq(OldMessages), tries : Nat]

Pushes == Request \X {"user", "assistant"} \X ConvIds

\* The types, of what the proofs use.
TypeOK ==
  /\ meta \in Metas \union {None}
  /\ convs \in [ConvIds -> ConvRecs \union {None}]
  /\ msgs \in [ConvIds -> Seq(Messages)]
  /\ legacy \in Seq(OldMessages)
  /\ made \in 0 .. MaxConvs
  /\ th \in [Request -> Thread]
  /\ recorded \subseteq Request

\* What the history is.
SeenOK ==
  /\ DOMAIN seen = {"defaults", "gaveUp", "expired", "emptied", "dropped", "pushed"}
  /\ seen.pushed \subseteq Pushes

\* What a thread knows at each of its places.
Good(r, t, rec, pushed, dropped) ==
  /\ t.pc \in Resolving => t.op \in {"open", "list", "chat", "attach", "detach", "update", "delConv"}
  /\ t.pc = "meta" => t.op \in {"open", "attach", "detach", "update", "newConv"}
  /\ t.pc = "update" => t.op \in {"attach", "detach", "update"}
  /\ t.op \in {"attach", "detach", "update"} /\ t.pc \in Resolving \union {"update"} => t.snap \in Metas
  /\ t.pc \in {"stampSave", "bumpMeta"} => t.snap \in Metas
  /\ t.pc \in {"renameSave", "bumpConv"} => t.snap \in ConvRecs
  /\ t.pc \in {"copy", "claim", "wait", "saveDefault"} => t.own \in ConvIds
  /\ t.pc \in Resolving /\ t.op = "delConv" => t.conv \in ConvIds
  /\ t.pc \in AfterPush \union {"model", "push", "generate", "rename", "renameSave", "guard", "hdel", "delete"}
       => t.conv \in ConvIds
  /\ t.pc = "delete" => t.conv \in dropped
  /\ t.role = "assistant" => t.pc \in AfterPush \union {"push", "done"} /\ r \in rec
  /\ t.pc \in AfterPush \union {"generate"} \/ (t.pc = "push" /\ t.role = "assistant")
       => <<r, "user", t.conv>> \in pushed

ThreadsInv == \A r \in Request : Good(r, th[r], recorded, seen.pushed, seen.dropped)

\* The question, or the answer, was appended.
HasAsked(t) == t.role = "assistant" \/ t.pc \in AfterPush \union {"generate", "done"}
HasAnswered(t) == t.pc = "done" \/ (t.role = "assistant" /\ t.pc \in AfterPush)

PushInv ==
  \A p \in seen.pushed : IF p[2] = "user" THEN HasAsked(th[p[1]]) ELSE HasAnswered(th[p[1]])

\* Every message of a turn that is in a list was appended, is in it once, and stays.
ListsInv ==
  /\ \A c \in ConvIds : \A i \in DOMAIN msgs[c] :
       msgs[c][i].role # "old" => <<msgs[c][i].turn, msgs[c][i].role, c>> \in seen.pushed
  /\ \A c \in ConvIds : \A i, j \in DOMAIN msgs[c] :
       msgs[c][i].role # "old" /\ msgs[c][i] = msgs[c][j] => i = j
  /\ \A p \in seen.pushed : p[3] \in seen.dropped \/
       \E i \in DOMAIN msgs[p[3]] : msgs[p[3]][i] = Message(p[1], p[2])

IInv == TypeOK /\ SeenOK /\ ThreadsInv /\ PushInv /\ ListsInv /\ AnswersFollowQuestions

-----------------------------------------------------------------------------
(* Steps that leave the message lists alone.                                 *)

\* The other threads keep what they know, since what they know of only grows.
LEMMA ThreadStep ==
  ASSUME TypeOK, SeenOK, ThreadsInv, PushInv, NEW r \in Request, NEW t \in Thread,
         th' = [th EXCEPT ![r] = t],
         Good(r, t, recorded', seen'.pushed, seen'.dropped),
         HasAsked(th[r]) => HasAsked(t), HasAnswered(th[r]) => HasAnswered(t),
         recorded \subseteq recorded', seen'.pushed = seen.pushed, seen.dropped \subseteq seen'.dropped
  PROVE  th' \in [Request -> Thread] /\ ThreadsInv' /\ PushInv'
PROOF
<1>1. th' \in [Request -> Thread] /\ th'[r] = t /\ \A q \in Request \ {r} : th'[q] = th[q]
  BY DEF TypeOK
<1>2. ThreadsInv'
  <2> SUFFICES ASSUME NEW q \in Request
               PROVE  Good(q, th'[q], recorded', seen'.pushed, seen'.dropped)
    BY DEF ThreadsInv
  <2>1. CASE q = r
    BY <1>1, <2>1
  <2>2. CASE q # r
    <3>1. Good(q, th[q], recorded, seen.pushed, seen.dropped) /\ th'[q] = th[q]
      BY <1>1, <2>2 DEF ThreadsInv
    <3> QED BY <3>1 DEF Good
  <2> QED BY <2>1, <2>2
<1>3. PushInv'
  <2> SUFFICES ASSUME NEW p \in seen.pushed
               PROVE  IF p[2] = "user" THEN HasAsked(th'[p[1]]) ELSE HasAnswered(th'[p[1]])
    BY DEF PushInv
  <2>1. p[1] \in Request /\ (IF p[2] = "user" THEN HasAsked(th[p[1]]) ELSE HasAnswered(th[p[1]]))
    BY DEF PushInv, SeenOK, Pushes
  <2> QED BY <1>1, <2>1
<1> QED BY <1>1, <1>2, <1>3

LEMMA SameLists ==
  ASSUME ListsInv, AnswersFollowQuestions, msgs' = msgs, seen'.pushed = seen.pushed,
         seen.dropped \subseteq seen'.dropped, recorded \subseteq recorded'
  PROVE  ListsInv' /\ AnswersFollowQuestions'
BY DEF ListsInv, AnswersFollowQuestions

LEMMA QuietStep ==
  ASSUME IInv, NEW r \in Request, NEW t \in Thread,
         th' = [th EXCEPT ![r] = t],
         Good(r, t, recorded', seen'.pushed, seen'.dropped),
         HasAsked(th[r]) => HasAsked(t), HasAnswered(th[r]) => HasAnswered(t),
         recorded \subseteq recorded', recorded' \subseteq Request,
         DOMAIN seen' = DOMAIN seen, seen'.pushed = seen.pushed, seen.dropped \subseteq seen'.dropped,
         meta' \in Metas \union {None}, convs' \in [ConvIds -> ConvRecs \union {None}],
         legacy' \in Seq(OldMessages), made' \in 0 .. MaxConvs, msgs' = msgs
  PROVE  IInv'
PROOF
<1>1. th' \in [Request -> Thread] /\ ThreadsInv' /\ PushInv'
  BY ThreadStep DEF IInv
<1>2. ListsInv' /\ AnswersFollowQuestions'
  BY SameLists DEF IInv
<1>3. TypeOK' /\ SeenOK'
  BY <1>1 DEF IInv, TypeOK, SeenOK
<1> QED BY <1>1, <1>2, <1>3 DEF IInv

\* One message more is still a record of its kind.
LEMMA BumpedTypes ==
  ASSUME NEW role
  PROVE  /\ \A m \in Metas : Bumped(m, role) \in Metas
         /\ \A c \in ConvRecs : Bumped(c, role) \in ConvRecs
PROOF
<1>1. ASSUME NEW m \in Metas PROVE Bumped(m, role) \in Metas
  <2> DEFINE n == m.count + 1
  <2> DEFINE l == IF m.title = "new" /\ role = "user" THEN "auto" ELSE m.title
  <2>1. n \in Nat /\ l \in Titles
    BY DEF Metas, Titles
  <2>2. Bumped(m, role) = [m EXCEPT !.count = n, !.title = l]
    BY DEF Bumped, Metas
  <2> HIDE DEF n, l
  <2> QED BY <2>1, <2>2 DEF Metas
<1>2. ASSUME NEW c \in ConvRecs PROVE Bumped(c, role) \in ConvRecs
  <2> DEFINE n == c.count + 1
  <2> DEFINE l == IF c.title = "new" /\ role = "user" THEN "auto" ELSE c.title
  <2>1. n \in Nat /\ l \in Titles
    BY DEF ConvRecs, Titles
  <2>2. Bumped(c, role) = [c EXCEPT !.count = n, !.title = l]
    BY DEF Bumped, ConvRecs
  <2> HIDE DEF n, l
  <2> QED BY <2>1, <2>2 DEF ConvRecs
<1> QED BY <1>1, <1>2

LEMMA ReadMetaStep == ASSUME IInv, NEW r \in Request, ReadMeta(r) PROVE IInv'
PROOF
<1> DEFINE p == IF meta = None THEN "done" ELSE AfterMeta(th[r].op)
<1> DEFINE t == [th[r] EXCEPT !.snap = meta, !.pc = p]
<1>1. th[r] \in Thread /\ Good(r, th[r], recorded, seen.pushed, seen.dropped) /\ meta \in Metas \union {None}
  BY DEF IInv, TypeOK, ThreadsInv
<1>b. p \in Pcs
  BY <1>1 DEF ReadMeta, At, Good, Thread, Pcs, Resolving, AfterPush, AfterMeta
<1>c. t \in Thread
  <2> HIDE DEF p
  <2> QED BY <1>1, <1>b DEF Thread
<1>2. th' = [th EXCEPT ![r] = t]
  BY DEF ReadMeta, Goto, Become
<1>3. Good(r, t, recorded', seen'.pushed, seen'.dropped) /\ (HasAsked(th[r]) => HasAsked(t)) /\ (HasAnswered(th[r]) => HasAnswered(t))
  BY <1>1 DEF ReadMeta, At, Thread, Resolving, AfterPush, Good, HasAsked, HasAnswered, IInv, TypeOK, SeenOK, AfterMeta
<1>4. /\ recorded \subseteq recorded' /\ recorded' \subseteq Request
      /\ DOMAIN seen' = DOMAIN seen /\ seen'.pushed = seen.pushed /\ seen.dropped \subseteq seen'.dropped
      /\ meta' \in Metas \union {None} /\ convs' \in [ConvIds -> ConvRecs \union {None}]
      /\ legacy' \in Seq(OldMessages) /\ made' \in 0 .. MaxConvs /\ msgs' = msgs
  BY <1>1, SessionsAssumption DEF ReadMeta, At, store, IInv, TypeOK, SeenOK, Good, AfterMeta
<1> QED BY <1>2, <1>3, <1>4, <1>c, QuietStep

LEMMA TakeLockStep == ASSUME IInv, NEW r \in Request, TakeLock(r) PROVE IInv'
PROOF
<1> DEFINE p == "recheck"
<1> DEFINE t == [th[r] EXCEPT !.pc = p]
<1>1. th[r] \in Thread /\ Good(r, th[r], recorded, seen.pushed, seen.dropped) /\ meta \in Metas \union {None}
  BY DEF IInv, TypeOK, ThreadsInv
<1>b. p \in Pcs
  BY <1>1 DEF TakeLock, At, Good, Thread, Pcs, Resolving, AfterPush
<1>c. t \in Thread
  <2> HIDE DEF p
  <2> QED BY <1>1, <1>b DEF Thread
<1>2. th' = [th EXCEPT ![r] = t]
  BY DEF TakeLock, Goto, Become
<1>3. Good(r, t, recorded', seen'.pushed, seen'.dropped) /\ (HasAsked(th[r]) => HasAsked(t)) /\ (HasAnswered(th[r]) => HasAnswered(t))
  BY <1>1 DEF TakeLock, At, Thread, Resolving, AfterPush, Good, HasAsked, HasAnswered, IInv, TypeOK, SeenOK
<1>4. /\ recorded \subseteq recorded' /\ recorded' \subseteq Request
      /\ DOMAIN seen' = DOMAIN seen /\ seen'.pushed = seen.pushed /\ seen.dropped \subseteq seen'.dropped
      /\ meta' \in Metas \union {None} /\ convs' \in [ConvIds -> ConvRecs \union {None}]
      /\ legacy' \in Seq(OldMessages) /\ made' \in 0 .. MaxConvs /\ msgs' = msgs
  BY <1>1, SessionsAssumption DEF TakeLock, At, store, IInv, TypeOK, SeenOK, Good
<1> QED BY <1>2, <1>3, <1>4, <1>c, QuietStep

LEMMA ReadLegacyStep == ASSUME IInv, NEW r \in Request, ReadLegacy(r) PROVE IInv'
PROOF
<1> DEFINE p == IF legacy = <<>> THEN "claim" ELSE "copy"
<1> DEFINE t == [th[r] EXCEPT !.old = legacy, !.own = made + 1, !.pc = p]
<1>1. th[r] \in Thread /\ Good(r, th[r], recorded, seen.pushed, seen.dropped) /\ meta \in Metas \union {None}
  BY DEF IInv, TypeOK, ThreadsInv
<1>a. made + 1 \in ConvIds /\ legacy \in Seq(OldMessages)
  BY <1>1, SessionsAssumption DEF ReadLegacy, ConvIds, IInv, TypeOK
<1>b. p \in Pcs
  BY <1>1 DEF ReadLegacy, At, Good, Thread, Pcs, Resolving, AfterPush
<1>c. t \in Thread
  <2> HIDE DEF p
  <2> QED BY <1>1, <1>b, <1>a DEF Thread
<1>2. th' = [th EXCEPT ![r] = t]
  BY DEF ReadLegacy, Goto, Become
<1>3. Good(r, t, recorded', seen'.pushed, seen'.dropped) /\ (HasAsked(th[r]) => HasAsked(t)) /\ (HasAnswered(th[r]) => HasAnswered(t))
  BY <1>1, <1>a DEF ReadLegacy, At, Thread, Resolving, AfterPush, Good, HasAsked, HasAnswered, IInv, TypeOK, SeenOK
<1>4. /\ recorded \subseteq recorded' /\ recorded' \subseteq Request
      /\ DOMAIN seen' = DOMAIN seen /\ seen'.pushed = seen.pushed /\ seen.dropped \subseteq seen'.dropped
      /\ meta' \in Metas \union {None} /\ convs' \in [ConvIds -> ConvRecs \union {None}]
      /\ legacy' \in Seq(OldMessages) /\ made' \in 0 .. MaxConvs /\ msgs' = msgs
  BY <1>1, SessionsAssumption, <1>a DEF ReadLegacy, At, store, IInv, TypeOK, SeenOK, Good
<1> QED BY <1>2, <1>3, <1>4, <1>c, QuietStep

LEMMA ClaimStep == ASSUME IInv, NEW r \in Request, Claim(r) PROVE IInv'
PROOF
<1> DEFINE t == IF claim = None THEN [th[r] EXCEPT !.pc = "saveDefault"] ELSE [th[r] EXCEPT !.pc = "wait", !.tries = 0]
<1>1. th[r] \in Thread /\ Good(r, th[r], recorded, seen.pushed, seen.dropped)
  BY DEF IInv, TypeOK, ThreadsInv
<1>2. t \in Thread /\ th' = [th EXCEPT ![r] = t]
  BY <1>1 DEF Claim, At, Goto, Become, Thread, Pcs, Resolving, AfterPush, Good, IInv, TypeOK
<1>3. Good(r, t, recorded', seen'.pushed, seen'.dropped) /\ (HasAsked(th[r]) => HasAsked(t)) /\ (HasAnswered(th[r]) => HasAnswered(t))
  BY <1>1 DEF Claim, At, Thread, Resolving, AfterPush, Good, HasAsked, HasAnswered, IInv, TypeOK, SeenOK
<1>4. /\ recorded \subseteq recorded' /\ recorded' \subseteq Request
      /\ DOMAIN seen' = DOMAIN seen /\ seen'.pushed = seen.pushed /\ seen.dropped \subseteq seen'.dropped
      /\ meta' \in Metas \union {None} /\ convs' \in [ConvIds -> ConvRecs \union {None}]
      /\ legacy' \in Seq(OldMessages) /\ made' \in 0 .. MaxConvs /\ msgs' = msgs
  BY <1>1, SessionsAssumption DEF Claim, At, store, IInv, TypeOK, SeenOK, Good
<1> QED BY <1>2, <1>3, <1>4, QuietStep

LEMMA UpdateStep == ASSUME IInv, NEW r \in Request, Update(r) PROVE IInv'
PROOF
<1> DEFINE p == "done"
<1> DEFINE t == [th[r] EXCEPT !.pc = p]
<1>1. th[r] \in Thread /\ Good(r, th[r], recorded, seen.pushed, seen.dropped) /\ meta \in Metas \union {None}
  BY DEF IInv, TypeOK, ThreadsInv
<1>a. Changed(th[r]) \in Metas
  BY <1>1 DEF Update, At, Thread, Good, Changed, Metas, Titles
<1>b. p \in Pcs
  BY <1>1 DEF Update, At, Good, Thread, Pcs, Resolving, AfterPush
<1>c. t \in Thread
  <2> HIDE DEF p
  <2> QED BY <1>1, <1>b, <1>a DEF Thread
<1>2. th' = [th EXCEPT ![r] = t]
  BY DEF Update, Goto, Become
<1>3. Good(r, t, recorded', seen'.pushed, seen'.dropped) /\ (HasAsked(th[r]) => HasAsked(t)) /\ (HasAnswered(th[r]) => HasAnswered(t))
  BY <1>1, <1>a DEF Update, At, Thread, Resolving, AfterPush, Good, HasAsked, HasAnswered, IInv, TypeOK, SeenOK
<1>4. /\ recorded \subseteq recorded' /\ recorded' \subseteq Request
      /\ DOMAIN seen' = DOMAIN seen /\ seen'.pushed = seen.pushed /\ seen.dropped \subseteq seen'.dropped
      /\ meta' \in Metas \union {None} /\ convs' \in [ConvIds -> ConvRecs \union {None}]
      /\ legacy' \in Seq(OldMessages) /\ made' \in 0 .. MaxConvs /\ msgs' = msgs
  BY <1>1, SessionsAssumption, <1>a DEF Update, At, store, IInv, TypeOK, SeenOK, Good
<1> QED BY <1>2, <1>3, <1>4, <1>c, QuietStep

LEMMA ListForStampStep == ASSUME IInv, NEW r \in Request, ListForStamp(r) PROVE IInv'
PROOF
<1> DEFINE p == IF meta = None \/ (meta # None /\ meta.workspace) THEN "done" ELSE "stampSave"
<1> DEFINE t == [th[r] EXCEPT !.snap = meta, !.pc = p]
<1>1. th[r] \in Thread /\ Good(r, th[r], recorded, seen.pushed, seen.dropped) /\ meta \in Metas \union {None}
  BY DEF IInv, TypeOK, ThreadsInv
<1>b. p \in Pcs
  BY <1>1 DEF ListForStamp, At, Good, Thread, Pcs, Resolving, AfterPush
<1>c. t \in Thread
  <2> HIDE DEF p
  <2> QED BY <1>1, <1>b DEF Thread
<1>2. th' = [th EXCEPT ![r] = t]
  BY DEF ListForStamp, Goto, Become
<1>3. Good(r, t, recorded', seen'.pushed, seen'.dropped) /\ (HasAsked(th[r]) => HasAsked(t)) /\ (HasAnswered(th[r]) => HasAnswered(t))
  BY <1>1 DEF ListForStamp, At, Thread, Resolving, AfterPush, Good, HasAsked, HasAnswered, IInv, TypeOK, SeenOK
<1>4. /\ recorded \subseteq recorded' /\ recorded' \subseteq Request
      /\ DOMAIN seen' = DOMAIN seen /\ seen'.pushed = seen.pushed /\ seen.dropped \subseteq seen'.dropped
      /\ meta' \in Metas \union {None} /\ convs' \in [ConvIds -> ConvRecs \union {None}]
      /\ legacy' \in Seq(OldMessages) /\ made' \in 0 .. MaxConvs /\ msgs' = msgs
  BY <1>1, SessionsAssumption DEF ListForStamp, At, store, IInv, TypeOK, SeenOK, Good
<1> QED BY <1>2, <1>3, <1>4, <1>c, QuietStep

LEMMA StampStep == ASSUME IInv, NEW r \in Request, Stamp(r) PROVE IInv'
PROOF
<1> DEFINE t == [th[r] EXCEPT !.pc = "done"]
<1>1. th[r] \in Thread /\ Good(r, th[r], recorded, seen.pushed, seen.dropped)
  BY DEF IInv, TypeOK, ThreadsInv
<1>2. t \in Thread /\ th' = [th EXCEPT ![r] = t]
  BY <1>1 DEF Stamp, At, Goto, Become, Thread, Pcs, Resolving, AfterPush, Good, IInv, TypeOK, Metas
<1>3. Good(r, t, recorded', seen'.pushed, seen'.dropped) /\ (HasAsked(th[r]) => HasAsked(t)) /\ (HasAnswered(th[r]) => HasAnswered(t))
  BY <1>1 DEF Stamp, At, Thread, Resolving, AfterPush, Good, HasAsked, HasAnswered, IInv, TypeOK, SeenOK, Metas
<1>4. /\ recorded \subseteq recorded' /\ recorded' \subseteq Request
      /\ DOMAIN seen' = DOMAIN seen /\ seen'.pushed = seen.pushed /\ seen.dropped \subseteq seen'.dropped
      /\ meta' \in Metas \union {None} /\ convs' \in [ConvIds -> ConvRecs \union {None}]
      /\ legacy' \in Seq(OldMessages) /\ made' \in 0 .. MaxConvs /\ msgs' = msgs
  BY <1>1, SessionsAssumption DEF Stamp, At, store, IInv, TypeOK, SeenOK, Good, Metas
<1> QED BY <1>2, <1>3, <1>4, QuietStep

LEMMA CreateConversationStep == ASSUME IInv, NEW r \in Request, CreateConversation(r) PROVE IInv'
PROOF
<1> DEFINE t == [th[r] EXCEPT !.pc = "done"]
<1>1. th[r] \in Thread /\ Good(r, th[r], recorded, seen.pushed, seen.dropped)
  BY DEF IInv, TypeOK, ThreadsInv
<1>2. t \in Thread /\ th' = [th EXCEPT ![r] = t]
  BY <1>1 DEF CreateConversation, At, Goto, Become, Thread, Pcs, Resolving, AfterPush, Good, IInv, TypeOK, Save, NewConv, ConvRecs, Titles, ConvIds
<1>3. Good(r, t, recorded', seen'.pushed, seen'.dropped) /\ (HasAsked(th[r]) => HasAsked(t)) /\ (HasAnswered(th[r]) => HasAnswered(t))
  BY <1>1 DEF CreateConversation, At, Thread, Resolving, AfterPush, Good, HasAsked, HasAnswered, IInv, TypeOK, SeenOK, Save, NewConv, ConvRecs, Titles, ConvIds
<1>4. /\ recorded \subseteq recorded' /\ recorded' \subseteq Request
      /\ DOMAIN seen' = DOMAIN seen /\ seen'.pushed = seen.pushed /\ seen.dropped \subseteq seen'.dropped
      /\ meta' \in Metas \union {None} /\ convs' \in [ConvIds -> ConvRecs \union {None}]
      /\ legacy' \in Seq(OldMessages) /\ made' \in 0 .. MaxConvs /\ msgs' = msgs
  BY <1>1, SessionsAssumption DEF CreateConversation, At, store, IInv, TypeOK, SeenOK, Good, Save, NewConv, ConvRecs, Titles, ConvIds
<1> QED BY <1>2, <1>3, <1>4, QuietStep

LEMMA FindForRenameStep == ASSUME IInv, NEW r \in Request, FindForRename(r) PROVE IInv'
PROOF
<1> DEFINE t == IF th[r].conv \in Present THEN [th[r] EXCEPT !.snap = convs[th[r].conv], !.pc = "renameSave"] ELSE [th[r] EXCEPT !.pc = "done"]
<1>1. th[r] \in Thread /\ Good(r, th[r], recorded, seen.pushed, seen.dropped)
  BY DEF IInv, TypeOK, ThreadsInv
<1>2. t \in Thread /\ th' = [th EXCEPT ![r] = t]
  BY <1>1 DEF FindForRename, At, Goto, Become, Thread, Pcs, Resolving, AfterPush, Good, IInv, TypeOK, Present, ConvIds
<1>3. Good(r, t, recorded', seen'.pushed, seen'.dropped) /\ (HasAsked(th[r]) => HasAsked(t)) /\ (HasAnswered(th[r]) => HasAnswered(t))
  BY <1>1 DEF FindForRename, At, Thread, Resolving, AfterPush, Good, HasAsked, HasAnswered, IInv, TypeOK, SeenOK, Present, ConvIds
<1>4. /\ recorded \subseteq recorded' /\ recorded' \subseteq Request
      /\ DOMAIN seen' = DOMAIN seen /\ seen'.pushed = seen.pushed /\ seen.dropped \subseteq seen'.dropped
      /\ meta' \in Metas \union {None} /\ convs' \in [ConvIds -> ConvRecs \union {None}]
      /\ legacy' \in Seq(OldMessages) /\ made' \in 0 .. MaxConvs /\ msgs' = msgs
  BY <1>1, SessionsAssumption DEF FindForRename, At, store, IInv, TypeOK, SeenOK, Good, Present, ConvIds
<1> QED BY <1>2, <1>3, <1>4, QuietStep

LEMMA RenameStep == ASSUME IInv, NEW r \in Request, Rename(r) PROVE IInv'
PROOF
<1> DEFINE t == [th[r] EXCEPT !.pc = "done"]
<1>1. th[r] \in Thread /\ Good(r, th[r], recorded, seen.pushed, seen.dropped)
  BY DEF IInv, TypeOK, ThreadsInv
<1>2. t \in Thread /\ th' = [th EXCEPT ![r] = t]
  BY <1>1 DEF Rename, At, Goto, Become, Thread, Pcs, Resolving, AfterPush, Good, IInv, TypeOK, Save, ConvRecs, Titles
<1>3. Good(r, t, recorded', seen'.pushed, seen'.dropped) /\ (HasAsked(th[r]) => HasAsked(t)) /\ (HasAnswered(th[r]) => HasAnswered(t))
  BY <1>1 DEF Rename, At, Thread, Resolving, AfterPush, Good, HasAsked, HasAnswered, IInv, TypeOK, SeenOK, Save, ConvRecs, Titles
<1>4. /\ recorded \subseteq recorded' /\ recorded' \subseteq Request
      /\ DOMAIN seen' = DOMAIN seen /\ seen'.pushed = seen.pushed /\ seen.dropped \subseteq seen'.dropped
      /\ meta' \in Metas \union {None} /\ convs' \in [ConvIds -> ConvRecs \union {None}]
      /\ legacy' \in Seq(OldMessages) /\ made' \in 0 .. MaxConvs /\ msgs' = msgs
  BY <1>1, SessionsAssumption DEF Rename, At, store, IInv, TypeOK, SeenOK, Good, Save, ConvRecs, Titles
<1> QED BY <1>2, <1>3, <1>4, QuietStep

LEMMA GuardDeleteStep == ASSUME IInv, NEW r \in Request, GuardDelete(r) PROVE IInv'
PROOF
<1> DEFINE p == IF Cardinality(Present) <= 1 \/ th[r].conv \notin Present THEN "done" ELSE "hdel"
<1> DEFINE t == [th[r] EXCEPT !.pc = p]
<1>1. th[r] \in Thread /\ Good(r, th[r], recorded, seen.pushed, seen.dropped) /\ meta \in Metas \union {None}
  BY DEF IInv, TypeOK, ThreadsInv
<1>b. p \in Pcs
  BY <1>1 DEF GuardDelete, At, Good, Thread, Pcs, Resolving, AfterPush
<1>c. t \in Thread
  <2> HIDE DEF p
  <2> QED BY <1>1, <1>b DEF Thread
<1>2. th' = [th EXCEPT ![r] = t]
  BY DEF GuardDelete, Goto, Become
<1>3. Good(r, t, recorded', seen'.pushed, seen'.dropped) /\ (HasAsked(th[r]) => HasAsked(t)) /\ (HasAnswered(th[r]) => HasAnswered(t))
  BY <1>1 DEF GuardDelete, At, Thread, Resolving, AfterPush, Good, HasAsked, HasAnswered, IInv, TypeOK, SeenOK
<1>4. /\ recorded \subseteq recorded' /\ recorded' \subseteq Request
      /\ DOMAIN seen' = DOMAIN seen /\ seen'.pushed = seen.pushed /\ seen.dropped \subseteq seen'.dropped
      /\ meta' \in Metas \union {None} /\ convs' \in [ConvIds -> ConvRecs \union {None}]
      /\ legacy' \in Seq(OldMessages) /\ made' \in 0 .. MaxConvs /\ msgs' = msgs
  BY <1>1, SessionsAssumption DEF GuardDelete, At, store, IInv, TypeOK, SeenOK, Good
<1> QED BY <1>2, <1>3, <1>4, <1>c, QuietStep

LEMMA DropConversationStep == ASSUME IInv, NEW r \in Request, DropConversation(r) PROVE IInv'
PROOF
<1> DEFINE t == [th[r] EXCEPT !.pc = "delete"]
<1>1. th[r] \in Thread /\ Good(r, th[r], recorded, seen.pushed, seen.dropped)
  BY DEF IInv, TypeOK, ThreadsInv
<1>2. t \in Thread /\ th' = [th EXCEPT ![r] = t]
  BY <1>1 DEF DropConversation, At, Goto, Become, Thread, Pcs, Resolving, AfterPush, Good, IInv, TypeOK, Save, Emptied
<1>3. Good(r, t, recorded', seen'.pushed, seen'.dropped) /\ (HasAsked(th[r]) => HasAsked(t)) /\ (HasAnswered(th[r]) => HasAnswered(t))
  BY <1>1 DEF DropConversation, At, Thread, Resolving, AfterPush, Good, HasAsked, HasAnswered, IInv, TypeOK, SeenOK, Save, Emptied
<1>4. /\ recorded \subseteq recorded' /\ recorded' \subseteq Request
      /\ DOMAIN seen' = DOMAIN seen /\ seen'.pushed = seen.pushed /\ seen.dropped \subseteq seen'.dropped
      /\ meta' \in Metas \union {None} /\ convs' \in [ConvIds -> ConvRecs \union {None}]
      /\ legacy' \in Seq(OldMessages) /\ made' \in 0 .. MaxConvs /\ msgs' = msgs
  BY <1>1, SessionsAssumption DEF DropConversation, At, store, IInv, TypeOK, SeenOK, Good, Save, Emptied
<1> QED BY <1>2, <1>3, <1>4, QuietStep

LEMMA ListIdsStep == ASSUME IInv, NEW r \in Request, ListIds(r) PROVE IInv'
PROOF
<1> DEFINE t == [th[r] EXCEPT !.read = Present, !.pc = "delMeta"]
<1>1. th[r] \in Thread /\ Good(r, th[r], recorded, seen.pushed, seen.dropped)
  BY DEF IInv, TypeOK, ThreadsInv
<1>2. t \in Thread /\ th' = [th EXCEPT ![r] = t]
  BY <1>1 DEF ListIds, At, Goto, Become, Thread, Pcs, Resolving, AfterPush, Good, IInv, TypeOK, Present
<1>3. Good(r, t, recorded', seen'.pushed, seen'.dropped) /\ (HasAsked(th[r]) => HasAsked(t)) /\ (HasAnswered(th[r]) => HasAnswered(t))
  BY <1>1 DEF ListIds, At, Thread, Resolving, AfterPush, Good, HasAsked, HasAnswered, IInv, TypeOK, SeenOK, Present
<1>4. /\ recorded \subseteq recorded' /\ recorded' \subseteq Request
      /\ DOMAIN seen' = DOMAIN seen /\ seen'.pushed = seen.pushed /\ seen.dropped \subseteq seen'.dropped
      /\ meta' \in Metas \union {None} /\ convs' \in [ConvIds -> ConvRecs \union {None}]
      /\ legacy' \in Seq(OldMessages) /\ made' \in 0 .. MaxConvs /\ msgs' = msgs
  BY <1>1, SessionsAssumption DEF ListIds, At, store, IInv, TypeOK, SeenOK, Good, Present
<1> QED BY <1>2, <1>3, <1>4, QuietStep

LEMMA DeleteMetaStep == ASSUME IInv, NEW r \in Request, DeleteMeta(r) PROVE IInv'
PROOF
<1> DEFINE t == [th[r] EXCEPT !.pc = "delConvs"]
<1>1. th[r] \in Thread /\ Good(r, th[r], recorded, seen.pushed, seen.dropped)
  BY DEF IInv, TypeOK, ThreadsInv
<1>2. t \in Thread /\ th' = [th EXCEPT ![r] = t]
  BY <1>1 DEF DeleteMeta, At, Goto, Become, Thread, Pcs, Resolving, AfterPush, Good, IInv, TypeOK
<1>3. Good(r, t, recorded', seen'.pushed, seen'.dropped) /\ (HasAsked(th[r]) => HasAsked(t)) /\ (HasAnswered(th[r]) => HasAnswered(t))
  BY <1>1 DEF DeleteMeta, At, Thread, Resolving, AfterPush, Good, HasAsked, HasAnswered, IInv, TypeOK, SeenOK
<1>4. /\ recorded \subseteq recorded' /\ recorded' \subseteq Request
      /\ DOMAIN seen' = DOMAIN seen /\ seen'.pushed = seen.pushed /\ seen.dropped \subseteq seen'.dropped
      /\ meta' \in Metas \union {None} /\ convs' \in [ConvIds -> ConvRecs \union {None}]
      /\ legacy' \in Seq(OldMessages) /\ made' \in 0 .. MaxConvs /\ msgs' = msgs
  BY <1>1, SessionsAssumption DEF DeleteMeta, At, store, IInv, TypeOK, SeenOK, Good
<1> QED BY <1>2, <1>3, <1>4, QuietStep

LEMMA DeleteConvsStep == ASSUME IInv, NEW r \in Request, DeleteConvs(r) PROVE IInv'
PROOF
<1> DEFINE t == [th[r] EXCEPT !.pc = "delLists"]
<1>1. th[r] \in Thread /\ Good(r, th[r], recorded, seen.pushed, seen.dropped)
  BY DEF IInv, TypeOK, ThreadsInv
<1>2. t \in Thread /\ th' = [th EXCEPT ![r] = t]
  BY <1>1 DEF DeleteConvs, At, Goto, Become, Thread, Pcs, Resolving, AfterPush, Good, IInv, TypeOK, Emptied
<1>3. Good(r, t, recorded', seen'.pushed, seen'.dropped) /\ (HasAsked(th[r]) => HasAsked(t)) /\ (HasAnswered(th[r]) => HasAnswered(t))
  BY <1>1 DEF DeleteConvs, At, Thread, Resolving, AfterPush, Good, HasAsked, HasAnswered, IInv, TypeOK, SeenOK, Emptied
<1>4. /\ recorded \subseteq recorded' /\ recorded' \subseteq Request
      /\ DOMAIN seen' = DOMAIN seen /\ seen'.pushed = seen.pushed /\ seen.dropped \subseteq seen'.dropped
      /\ meta' \in Metas \union {None} /\ convs' \in [ConvIds -> ConvRecs \union {None}]
      /\ legacy' \in Seq(OldMessages) /\ made' \in 0 .. MaxConvs /\ msgs' = msgs
  BY <1>1, SessionsAssumption DEF DeleteConvs, At, store, IInv, TypeOK, SeenOK, Good, Emptied
<1> QED BY <1>2, <1>3, <1>4, QuietStep

LEMMA CheckModelStep == ASSUME IInv, NEW r \in Request, CheckModel(r) PROVE IInv'
PROOF
<1> DEFINE t == [th[r] EXCEPT !.pc = "push"]
<1>1. th[r] \in Thread /\ Good(r, th[r], recorded, seen.pushed, seen.dropped)
  BY DEF IInv, TypeOK, ThreadsInv
<1>2. t \in Thread /\ th' = [th EXCEPT ![r] = t]
  BY <1>1 DEF CheckModel, At, Goto, Become, Thread, Pcs, Resolving, AfterPush, Good, IInv, TypeOK
<1>3. Good(r, t, recorded', seen'.pushed, seen'.dropped) /\ (HasAsked(th[r]) => HasAsked(t)) /\ (HasAnswered(th[r]) => HasAnswered(t))
  BY <1>1 DEF CheckModel, At, Thread, Resolving, AfterPush, Good, HasAsked, HasAnswered, IInv, TypeOK, SeenOK
<1>4. /\ recorded \subseteq recorded' /\ recorded' \subseteq Request
      /\ DOMAIN seen' = DOMAIN seen /\ seen'.pushed = seen.pushed /\ seen.dropped \subseteq seen'.dropped
      /\ meta' \in Metas \union {None} /\ convs' \in [ConvIds -> ConvRecs \union {None}]
      /\ legacy' \in Seq(OldMessages) /\ made' \in 0 .. MaxConvs /\ msgs' = msgs
  BY <1>1, SessionsAssumption DEF CheckModel, At, store, IInv, TypeOK, SeenOK, Good
<1> QED BY <1>2, <1>3, <1>4, QuietStep

LEMMA RejectModelStep == ASSUME IInv, NEW r \in Request, RejectModel(r) PROVE IInv'
PROOF
<1> DEFINE t == [th[r] EXCEPT !.pc = "done"]
<1>1. th[r] \in Thread /\ Good(r, th[r], recorded, seen.pushed, seen.dropped)
  BY DEF IInv, TypeOK, ThreadsInv
<1>2. t \in Thread /\ th' = [th EXCEPT ![r] = t]
  BY <1>1 DEF RejectModel, At, Goto, Become, Thread, Pcs, Resolving, AfterPush, Good, IInv, TypeOK
<1>3. Good(r, t, recorded', seen'.pushed, seen'.dropped) /\ (HasAsked(th[r]) => HasAsked(t)) /\ (HasAnswered(th[r]) => HasAnswered(t))
  BY <1>1 DEF RejectModel, At, Thread, Resolving, AfterPush, Good, HasAsked, HasAnswered, IInv, TypeOK, SeenOK
<1>4. /\ recorded \subseteq recorded' /\ recorded' \subseteq Request
      /\ DOMAIN seen' = DOMAIN seen /\ seen'.pushed = seen.pushed /\ seen.dropped \subseteq seen'.dropped
      /\ meta' \in Metas \union {None} /\ convs' \in [ConvIds -> ConvRecs \union {None}]
      /\ legacy' \in Seq(OldMessages) /\ made' \in 0 .. MaxConvs /\ msgs' = msgs
  BY <1>1, SessionsAssumption DEF RejectModel, At, store, IInv, TypeOK, SeenOK, Good
<1> QED BY <1>2, <1>3, <1>4, QuietStep

LEMMA FindConversationStep == ASSUME IInv, NEW r \in Request, FindConversation(r) PROVE IInv'
PROOF
<1> DEFINE t == IF th[r].conv \in Present THEN [th[r] EXCEPT !.snap = convs[th[r].conv], !.pc = "bumpConv"] ELSE [th[r] EXCEPT !.pc = "findMeta"]
<1>1. th[r] \in Thread /\ Good(r, th[r], recorded, seen.pushed, seen.dropped)
  BY DEF IInv, TypeOK, ThreadsInv
<1>2. t \in Thread /\ th' = [th EXCEPT ![r] = t]
  BY <1>1 DEF FindConversation, At, Goto, Become, Thread, Pcs, Resolving, AfterPush, Good, IInv, TypeOK, Present
<1>3. Good(r, t, recorded', seen'.pushed, seen'.dropped) /\ (HasAsked(th[r]) => HasAsked(t)) /\ (HasAnswered(th[r]) => HasAnswered(t))
  BY <1>1 DEF FindConversation, At, Thread, Resolving, AfterPush, Good, HasAsked, HasAnswered, IInv, TypeOK, SeenOK, Present
<1>4. /\ recorded \subseteq recorded' /\ recorded' \subseteq Request
      /\ DOMAIN seen' = DOMAIN seen /\ seen'.pushed = seen.pushed /\ seen.dropped \subseteq seen'.dropped
      /\ meta' \in Metas \union {None} /\ convs' \in [ConvIds -> ConvRecs \union {None}]
      /\ legacy' \in Seq(OldMessages) /\ made' \in 0 .. MaxConvs /\ msgs' = msgs
  BY <1>1, SessionsAssumption DEF FindConversation, At, store, IInv, TypeOK, SeenOK, Good, Present
<1> QED BY <1>2, <1>3, <1>4, QuietStep

LEMMA BumpConversationStep == ASSUME IInv, NEW r \in Request, BumpConversation(r) PROVE IInv'
PROOF
<1> DEFINE p == "findMeta"
<1> DEFINE t == [th[r] EXCEPT !.pc = p]
<1>1. th[r] \in Thread /\ Good(r, th[r], recorded, seen.pushed, seen.dropped) /\ meta \in Metas \union {None}
  BY DEF IInv, TypeOK, ThreadsInv
<1>a. Bumped(th[r].snap, th[r].role) \in ConvRecs
  BY <1>1, BumpedTypes DEF BumpConversation, At, Thread, Good
<1>b. p \in Pcs
  BY <1>1 DEF BumpConversation, At, Good, Thread, Pcs, Resolving, AfterPush
<1>c. t \in Thread
  <2> HIDE DEF p
  <2> QED BY <1>1, <1>b, <1>a DEF Thread
<1>2. th' = [th EXCEPT ![r] = t]
  BY DEF BumpConversation, Goto, Become
<1>3. Good(r, t, recorded', seen'.pushed, seen'.dropped) /\ (HasAsked(th[r]) => HasAsked(t)) /\ (HasAnswered(th[r]) => HasAnswered(t))
  BY <1>1, <1>a DEF BumpConversation, At, Thread, Resolving, AfterPush, Good, HasAsked, HasAnswered, IInv, TypeOK, SeenOK
<1>4. /\ recorded \subseteq recorded' /\ recorded' \subseteq Request
      /\ DOMAIN seen' = DOMAIN seen /\ seen'.pushed = seen.pushed /\ seen.dropped \subseteq seen'.dropped
      /\ meta' \in Metas \union {None} /\ convs' \in [ConvIds -> ConvRecs \union {None}]
      /\ legacy' \in Seq(OldMessages) /\ made' \in 0 .. MaxConvs /\ msgs' = msgs
  BY <1>1, SessionsAssumption, <1>a DEF BumpConversation, At, store, IInv, TypeOK, SeenOK, Good, Save
<1> QED BY <1>2, <1>3, <1>4, <1>c, QuietStep

LEMMA FindMetaStep == ASSUME IInv, NEW r \in Request, FindMeta(r) PROVE IInv'
PROOF
<1> DEFINE p == IF meta = None THEN AfterAppend(th[r].role) ELSE "bumpMeta"
<1> DEFINE t == [th[r] EXCEPT !.snap = meta, !.pc = p]
<1>1. th[r] \in Thread /\ Good(r, th[r], recorded, seen.pushed, seen.dropped) /\ meta \in Metas \union {None}
  BY DEF IInv, TypeOK, ThreadsInv
<1>b. p \in Pcs
  BY <1>1 DEF FindMeta, At, Good, Thread, Pcs, Resolving, AfterPush, AfterAppend
<1>c. t \in Thread
  <2> HIDE DEF p
  <2> QED BY <1>1, <1>b DEF Thread
<1>2. th' = [th EXCEPT ![r] = t]
  BY DEF FindMeta, Goto, Become
<1>3. Good(r, t, recorded', seen'.pushed, seen'.dropped) /\ (HasAsked(th[r]) => HasAsked(t)) /\ (HasAnswered(th[r]) => HasAnswered(t))
  BY <1>1 DEF FindMeta, At, Thread, Resolving, AfterPush, Good, HasAsked, HasAnswered, IInv, TypeOK, SeenOK, AfterAppend
<1>4. /\ recorded \subseteq recorded' /\ recorded' \subseteq Request
      /\ DOMAIN seen' = DOMAIN seen /\ seen'.pushed = seen.pushed /\ seen.dropped \subseteq seen'.dropped
      /\ meta' \in Metas \union {None} /\ convs' \in [ConvIds -> ConvRecs \union {None}]
      /\ legacy' \in Seq(OldMessages) /\ made' \in 0 .. MaxConvs /\ msgs' = msgs
  BY <1>1, SessionsAssumption DEF FindMeta, At, store, IInv, TypeOK, SeenOK, Good, AfterAppend
<1> QED BY <1>2, <1>3, <1>4, <1>c, QuietStep

LEMMA BumpMetaStep == ASSUME IInv, NEW r \in Request, BumpMeta(r) PROVE IInv'
PROOF
<1> DEFINE p == AfterAppend(th[r].role)
<1> DEFINE t == [th[r] EXCEPT !.pc = p]
<1>1. th[r] \in Thread /\ Good(r, th[r], recorded, seen.pushed, seen.dropped) /\ meta \in Metas \union {None}
  BY DEF IInv, TypeOK, ThreadsInv
<1>a. Bumped(th[r].snap, th[r].role) \in Metas
  BY <1>1, BumpedTypes DEF BumpMeta, At, Thread, Good
<1>b. p \in Pcs
  BY <1>1 DEF BumpMeta, At, Good, Thread, Pcs, Resolving, AfterPush, AfterAppend
<1>c. t \in Thread
  <2> HIDE DEF p
  <2> QED BY <1>1, <1>b, <1>a DEF Thread
<1>2. th' = [th EXCEPT ![r] = t]
  BY DEF BumpMeta, Goto, Become
<1>3. Good(r, t, recorded', seen'.pushed, seen'.dropped) /\ (HasAsked(th[r]) => HasAsked(t)) /\ (HasAnswered(th[r]) => HasAnswered(t))
  BY <1>1, <1>a DEF BumpMeta, At, Thread, Resolving, AfterPush, Good, HasAsked, HasAnswered, IInv, TypeOK, SeenOK, AfterAppend
<1>4. /\ recorded \subseteq recorded' /\ recorded' \subseteq Request
      /\ DOMAIN seen' = DOMAIN seen /\ seen'.pushed = seen.pushed /\ seen.dropped \subseteq seen'.dropped
      /\ meta' \in Metas \union {None} /\ convs' \in [ConvIds -> ConvRecs \union {None}]
      /\ legacy' \in Seq(OldMessages) /\ made' \in 0 .. MaxConvs /\ msgs' = msgs
  BY <1>1, SessionsAssumption, <1>a DEF BumpMeta, At, store, IInv, TypeOK, SeenOK, Good
<1> QED BY <1>2, <1>3, <1>4, <1>c, QuietStep

LEMMA GenerateStep == ASSUME IInv, NEW r \in Request, Generate(r) PROVE IInv'
PROOF
<1> DEFINE t == [th[r] EXCEPT !.role = "assistant", !.pc = "push"]
<1>1. th[r] \in Thread /\ Good(r, th[r], recorded, seen.pushed, seen.dropped)
  BY DEF IInv, TypeOK, ThreadsInv
<1>2. t \in Thread /\ th' = [th EXCEPT ![r] = t]
  BY <1>1 DEF Generate, At, Goto, Become, Thread, Pcs, Resolving, AfterPush, Good, IInv, TypeOK
<1>3. Good(r, t, recorded', seen'.pushed, seen'.dropped) /\ (HasAsked(th[r]) => HasAsked(t)) /\ (HasAnswered(th[r]) => HasAnswered(t))
  BY <1>1 DEF Generate, At, Thread, Resolving, AfterPush, Good, HasAsked, HasAnswered, IInv, TypeOK, SeenOK
<1>4. /\ recorded \subseteq recorded' /\ recorded' \subseteq Request
      /\ DOMAIN seen' = DOMAIN seen /\ seen'.pushed = seen.pushed /\ seen.dropped \subseteq seen'.dropped
      /\ meta' \in Metas \union {None} /\ convs' \in [ConvIds -> ConvRecs \union {None}]
      /\ legacy' \in Seq(OldMessages) /\ made' \in 0 .. MaxConvs /\ msgs' = msgs
  BY <1>1, SessionsAssumption DEF Generate, At, store, IInv, TypeOK, SeenOK, Good
<1> QED BY <1>2, <1>3, <1>4, QuietStep

LEMMA RefuseStep == ASSUME IInv, NEW r \in Request, Refuse(r) PROVE IInv'
PROOF
<1> DEFINE t == [th[r] EXCEPT !.role = "assistant", !.pc = "push"]
<1>1. th[r] \in Thread /\ Good(r, th[r], recorded, seen.pushed, seen.dropped)
  BY DEF IInv, TypeOK, ThreadsInv
<1>2. t \in Thread /\ th' = [th EXCEPT ![r] = t]
  BY <1>1 DEF Refuse, At, Goto, Become, Thread, Pcs, Resolving, AfterPush, Good, IInv, TypeOK
<1>3. Good(r, t, recorded', seen'.pushed, seen'.dropped) /\ (HasAsked(th[r]) => HasAsked(t)) /\ (HasAnswered(th[r]) => HasAnswered(t))
  BY <1>1 DEF Refuse, At, Thread, Resolving, AfterPush, Good, HasAsked, HasAnswered, IInv, TypeOK, SeenOK
<1>4. /\ recorded \subseteq recorded' /\ recorded' \subseteq Request
      /\ DOMAIN seen' = DOMAIN seen /\ seen'.pushed = seen.pushed /\ seen.dropped \subseteq seen'.dropped
      /\ meta' \in Metas \union {None} /\ convs' \in [ConvIds -> ConvRecs \union {None}]
      /\ legacy' \in Seq(OldMessages) /\ made' \in 0 .. MaxConvs /\ msgs' = msgs
  BY <1>1, SessionsAssumption DEF Refuse, At, store, IInv, TypeOK, SeenOK, Good
<1> QED BY <1>2, <1>3, <1>4, QuietStep

LEMMA ClientLeavesStep == ASSUME IInv, NEW r \in Request, ClientLeaves(r) PROVE IInv'
PROOF
<1> DEFINE t == [th[r] EXCEPT !.pc = "done"]
<1>1. th[r] \in Thread /\ Good(r, th[r], recorded, seen.pushed, seen.dropped)
  BY DEF IInv, TypeOK, ThreadsInv
<1>2. t \in Thread /\ th' = [th EXCEPT ![r] = t]
  BY <1>1 DEF ClientLeaves, At, Goto, Become, Thread, Pcs, Resolving, AfterPush, Good, IInv, TypeOK
<1>3. Good(r, t, recorded', seen'.pushed, seen'.dropped) /\ (HasAsked(th[r]) => HasAsked(t)) /\ (HasAnswered(th[r]) => HasAnswered(t))
  BY <1>1 DEF ClientLeaves, At, Thread, Resolving, AfterPush, Good, HasAsked, HasAnswered, IInv, TypeOK, SeenOK
<1>4. /\ recorded \subseteq recorded' /\ recorded' \subseteq Request
      /\ DOMAIN seen' = DOMAIN seen /\ seen'.pushed = seen.pushed /\ seen.dropped \subseteq seen'.dropped
      /\ meta' \in Metas \union {None} /\ convs' \in [ConvIds -> ConvRecs \union {None}]
      /\ legacy' \in Seq(OldMessages) /\ made' \in 0 .. MaxConvs /\ msgs' = msgs
  BY <1>1, SessionsAssumption DEF ClientLeaves, At, store, IInv, TypeOK, SeenOK, Good
<1> QED BY <1>2, <1>3, <1>4, QuietStep

\* The thread that knows the default conversation.
LEMMA ResolvedGood ==
  ASSUME IInv, NEW r \in Request, NEW c \in ConvIds, th[r].pc \in Resolving
  PROVE  /\ Resolved(r, c) \in Thread
         /\ \A dropped : Good(r, Resolved(r, c), recorded, seen.pushed, dropped)
         /\ ~HasAsked(th[r]) /\ ~HasAnswered(th[r])
PROOF
<1> DEFINE p == AfterResolve(th[r].op)
<1> DEFINE d == IF th[r].op = "delConv" THEN th[r].conv ELSE c
<1>1. th[r] \in Thread /\ Good(r, th[r], recorded, seen.pushed, seen.dropped)
  BY DEF IInv, TypeOK, ThreadsInv
<1>2. p \in {"done", "update", "guard", "model"} /\ d \in ConvIds
  BY <1>1 DEF Good, AfterResolve
<1>3. Resolved(r, c) = [th[r] EXCEPT !.pc = p, !.conv = d]
  BY <1>1 DEF Resolved, Thread
<1>4. th[r].role = "user"
  BY <1>1 DEF Good, Thread, Resolving, AfterPush
<1>5. \A dropped : Good(r, Resolved(r, c), recorded, seen.pushed, dropped)
  <2>1. p = "update" => th[r].op \in {"attach", "detach", "update"} /\ th[r].snap \in Metas
    BY <1>1 DEF Good, AfterResolve
  <2> HIDE DEF p, d
  <2> QED BY <1>1, <1>2, <1>3, <1>4, <2>1 DEF Good, Thread, Resolving, AfterPush
<1>6. Resolved(r, c) \in Thread
  <2> HIDE DEF p, d
  <2> QED BY <1>1, <1>2, <1>3 DEF Thread, Pcs
<1> QED BY <1>4, <1>5, <1>6 DEF HasAsked, HasAnswered, Resolving, AfterPush

\* A step after which the default conversation is known.
LEMMA ResolveStep ==
  ASSUME IInv, NEW r \in Request, NEW c \in ConvIds, th[r].pc \in Resolving, Become(r, Resolved(r, c)),
         convs' \in [ConvIds -> ConvRecs \union {None}], UNCHANGED <<meta, msgs, legacy, made, recorded>>,
         DOMAIN seen' = DOMAIN seen, seen'.pushed = seen.pushed, seen'.dropped = seen.dropped
  PROVE  IInv'
PROOF
<1> DEFINE t == Resolved(r, c)
<1>1. t \in Thread /\ Good(r, t, recorded', seen'.pushed, seen'.dropped) /\ ~HasAsked(th[r]) /\ ~HasAnswered(th[r])
  BY ResolvedGood
<1>2. th' = [th EXCEPT ![r] = t]
  BY DEF Become
<1>3. /\ recorded \subseteq recorded' /\ recorded' \subseteq Request
      /\ meta' \in Metas \union {None} /\ legacy' \in Seq(OldMessages) /\ made' \in 0 .. MaxConvs
      /\ seen.dropped \subseteq seen'.dropped
  BY DEF IInv, TypeOK
<1> HIDE DEF t
<1> QED BY <1>1, <1>2, <1>3, QuietStep

\* A step of the resolution that leaves the store alone and goes on to the place p.
LEMMA ResolvingStep ==
  ASSUME IInv, NEW r \in Request, NEW p \in {"lock", "legacy", "saveDefault", "wait"}, NEW n \in Nat,
         th[r].pc \in {"resolve", "recheck", "wait"}, th' = [th EXCEPT ![r] = [th[r] EXCEPT !.pc = p, !.tries = n]],
         p \in {"saveDefault", "wait"} => th[r].pc = "wait",
         UNCHANGED <<store, made, recorded>>,
         DOMAIN seen' = DOMAIN seen, seen'.pushed = seen.pushed, seen'.dropped = seen.dropped
  PROVE  IInv'
PROOF
<1> DEFINE t == [th[r] EXCEPT !.pc = p, !.tries = n]
<1>1. th[r] \in Thread /\ Good(r, th[r], recorded, seen.pushed, seen.dropped)
  BY DEF IInv, TypeOK, ThreadsInv
<1>2. t \in Thread
  BY <1>1 DEF Thread, Pcs, Resolving
<1>3. Good(r, t, recorded', seen'.pushed, seen'.dropped)
  BY <1>1 DEF Good, Thread, Resolving, AfterPush
<1>4. ~HasAsked(th[r]) /\ ~HasAnswered(th[r])
  BY <1>1 DEF Good, Thread, Resolving, AfterPush, HasAsked, HasAnswered
<1>5. /\ recorded \subseteq recorded' /\ recorded' \subseteq Request /\ seen.dropped \subseteq seen'.dropped
      /\ meta' \in Metas \union {None} /\ convs' \in [ConvIds -> ConvRecs \union {None}]
      /\ legacy' \in Seq(OldMessages) /\ made' \in 0 .. MaxConvs /\ msgs' = msgs
  BY DEF store, IInv, TypeOK
<1> HIDE DEF t
<1> QED BY <1>2, <1>3, <1>4, <1>5, QuietStep DEF t

LEMMA LookForDefaultStep == ASSUME IInv, NEW r \in Request, LookForDefault(r) PROVE IInv'
PROOF
<1>1. CASE \E c \in Oldest : Become(r, Resolved(r, c))
  <2> PICK c \in Oldest : Become(r, Resolved(r, c))
    BY <1>1
  <2>1. c \in ConvIds /\ th[r].pc \in Resolving
    BY DEF Oldest, Present, LookForDefault, At, Resolving
  <2> QED BY <2>1, ResolveStep DEF LookForDefault, store, IInv, TypeOK
<1>2. CASE Goto(r, "lock")
  <2>1. th[r] \in Thread /\ th[r].tries \in Nat
    BY DEF IInv, TypeOK, Thread
  <2>2. th' = [th EXCEPT ![r] = [th[r] EXCEPT !.pc = "lock", !.tries = th[r].tries]]
    BY <1>2, <2>1 DEF Goto, Become, Thread
  <2> QED BY <2>1, <2>2, ResolvingStep DEF LookForDefault, At
<1> QED BY <1>1, <1>2 DEF LookForDefault

LEMMA RecheckDefaultStep == ASSUME IInv, NEW r \in Request, RecheckDefault(r) PROVE IInv'
PROOF
<1>1. CASE \E c \in Oldest : Become(r, Resolved(r, c))
  <2> PICK c \in Oldest : Become(r, Resolved(r, c))
    BY <1>1
  <2>1. c \in ConvIds /\ th[r].pc \in Resolving
    BY DEF Oldest, Present, RecheckDefault, At, Resolving
  <2> QED BY <2>1, ResolveStep DEF RecheckDefault, store, IInv, TypeOK
<1>2. CASE Goto(r, "legacy")
  <2>1. th[r] \in Thread /\ th[r].tries \in Nat
    BY DEF IInv, TypeOK, Thread
  <2>2. th' = [th EXCEPT ![r] = [th[r] EXCEPT !.pc = "legacy", !.tries = th[r].tries]]
    BY <1>2, <2>1 DEF Goto, Become, Thread
  <2> QED BY <2>1, <2>2, ResolvingStep DEF RecheckDefault, At
<1> QED BY <1>1, <1>2 DEF RecheckDefault

LEMMA WaitForWinnerStep == ASSUME IInv, NEW r \in Request, WaitForWinner(r) PROVE IInv'
PROOF
<1>1. /\ DOMAIN seen' = DOMAIN seen /\ seen'.pushed = seen.pushed /\ seen'.dropped = seen.dropped
      /\ UNCHANGED <<store, made, recorded>> /\ th[r].pc = "wait"
      /\ th[r] \in Thread /\ th[r].tries \in Nat
  BY DEF WaitForWinner, At, IInv, TypeOK, SeenOK, Thread
<1>2. CASE \E c \in Oldest : Become(r, Resolved(r, c))
  <2> PICK c \in Oldest : Become(r, Resolved(r, c))
    BY <1>2
  <2>1. c \in ConvIds /\ th[r].pc \in Resolving
    BY <1>1 DEF Oldest, Present, Resolving
  <2> QED BY <1>1, <2>1, ResolveStep DEF store, IInv, TypeOK
<1>3. CASE Goto(r, "saveDefault")
  <2>1. th' = [th EXCEPT ![r] = [th[r] EXCEPT !.pc = "saveDefault", !.tries = th[r].tries]]
    BY <1>1, <1>3 DEF Goto, Become, Thread
  <2> QED BY <1>1, <2>1, ResolvingStep
<1>4. CASE Become(r, [th[r] EXCEPT !.tries = @ + 1])
  <2>1. th' = [th EXCEPT ![r] = [th[r] EXCEPT !.pc = "wait", !.tries = th[r].tries + 1]]
    BY <1>1, <1>4 DEF Become, Thread
  <2>2. th[r].tries + 1 \in Nat
    BY <1>1
  <2> QED BY <1>1, <2>1, <2>2, ResolvingStep
<1> QED BY <1>2, <1>3, <1>4 DEF WaitForWinner

LEMMA SaveDefaultStep == ASSUME IInv, NEW r \in Request, SaveDefault(r) PROVE IInv'
PROOF
<1>1. th[r].own \in ConvIds /\ th[r].pc \in Resolving /\ th[r].old \in Seq(OldMessages)
  BY DEF SaveDefault, At, IInv, TypeOK, ThreadsInv, Good, Thread, Resolving
<1>2. NewConv(IF th[r].old = <<>> THEN th[r].own ELSE 0, Len(th[r].old)) \in ConvRecs
  BY <1>1 DEF NewConv, ConvRecs, Titles, ConvIds
<1>3. convs' \in [ConvIds -> ConvRecs \union {None}]
  BY <1>2 DEF SaveDefault, Save, IInv, TypeOK
<1>4. DOMAIN seen' = DOMAIN seen /\ seen'.pushed = seen.pushed /\ seen'.dropped = seen.dropped
  BY DEF SaveDefault, IInv, SeenOK
<1>5. Become(r, Resolved(r, th[r].own)) /\ UNCHANGED <<meta, msgs, legacy, made, recorded>>
  BY DEF SaveDefault
<1> QED BY <1>1, <1>3, <1>4, <1>5, ResolveStep

LEMMA BeginStep == ASSUME IInv, NEW r \in Request, Begin(r) PROVE IInv'
PROOF
<1>1. /\ th[r] \in Thread /\ Good(r, th[r], recorded, seen.pushed, seen.dropped) /\ th[r].pc = "idle"
      /\ UNCHANGED <<store, made, recorded, seen>>
  BY DEF IInv, TypeOK, ThreadsInv, Begin, At
<1>2. ~HasAsked(th[r]) /\ ~HasAnswered(th[r])
  BY <1>1 DEF Good, Thread, AfterPush, HasAsked, HasAnswered
<1>3. ASSUME NEW t \in Thread, th' = [th EXCEPT ![r] = t], Good(r, t, recorded, seen.pushed, seen.dropped)
      PROVE  IInv'
  <2>1. /\ recorded \subseteq recorded' /\ recorded' \subseteq Request
        /\ seen' = seen /\ meta' \in Metas \union {None} /\ convs' \in [ConvIds -> ConvRecs \union {None}]
        /\ legacy' \in Seq(OldMessages) /\ made' \in 0 .. MaxConvs /\ msgs' = msgs
    BY <1>1 DEF store, IInv, TypeOK
  <2> QED BY <1>1, <1>2, <1>3, <2>1, QuietStep
<1>4. CASE Goto(r, "done")
  <2> DEFINE t == [th[r] EXCEPT !.pc = "done"]
  <2>1. t \in Thread /\ Good(r, t, recorded, seen.pushed, seen.dropped) /\ th' = [th EXCEPT ![r] = t]
    BY <1>1, <1>4 DEF Goto, Become, Thread, Pcs, Good, Resolving, AfterPush
  <2> QED BY <1>3, <2>1
<1>5. ASSUME NEW op \in Ops[r], NEW F \in SUBSET File, NEW c \in Present \union {None},
             op \in {"rename", "delConv"} => c # None,
             Become(r, [IdleThread EXCEPT !.op = op, !.pc = FirstPc(op, c), !.conv = c, !.arg = F])
      PROVE  IInv'
  <2> DEFINE p == FirstPc(op, c)
  <2> DEFINE t == [IdleThread EXCEPT !.op = op, !.pc = p, !.conv = c, !.arg = F]
  <2>1. op \in AllOps /\ c \in ConvIds \union {None}
    BY SessionsAssumption DEF Present
  <2>2. p \in {"meta", "resolve", "model", "rename", "stamp", "ids"}
    BY <2>1 DEF FirstPc, AllOps
  <2>3. IdleThread \in Thread
    BY DEF IdleThread, Thread, Pcs
  <2>4. t \in Thread /\ t.role = "user" /\ t.pc = p /\ t.op = op /\ t.conv = c
    <3> HIDE DEF p
    <3> QED BY <2>1, <2>2, <2>3 DEF IdleThread, Thread, Pcs, Resolving
  <2>5. /\ p = "meta" => op \in {"open", "attach", "detach", "update", "newConv"}
        /\ p = "resolve" => op \in {"list", "delConv", "chat"} /\ (op = "delConv" => c \in ConvIds)
        /\ p \in {"model", "rename"} => c \in ConvIds
    BY <2>1, <1>5 DEF FirstPc, AllOps
  <2>6. Good(r, t, recorded, seen.pushed, seen.dropped)
    <3> HIDE DEF p, t
    <3> QED BY <2>2, <2>4, <2>5 DEF Good, Resolving, AfterPush
  <2>7. th' = [th EXCEPT ![r] = t]
    BY <1>5 DEF Become
  <2> QED BY <1>3, <2>4, <2>6, <2>7
<1> QED BY <1>4, <1>5 DEF Begin

-----------------------------------------------------------------------------
(* Steps that change a message list.                                         *)

\* What appending does to the places of a list.
LEMMA Appended ==
  ASSUME NEW S, NEW s \in Seq(S), NEW u \in Seq(S)
  PROVE  /\ s \o u \in Seq(S)
         /\ \A i \in DOMAIN s : i \in DOMAIN (s \o u) /\ (s \o u)[i] = s[i]
         /\ \A i \in DOMAIN (s \o u) : i \in DOMAIN s \/ (i - Len(s) \in DOMAIN u /\ (s \o u)[i] = u[i - Len(s)])
OBVIOUS

LEMMA OldIsMessage ==
  ASSUME NEW s \in Seq(OldMessages)
  PROVE  s \in Seq(Messages) /\ \A i \in DOMAIN s : s[i].role = "old"
PROOF
<1>1. \A i \in DOMAIN s : s[i] \in OldMessages
  OBVIOUS
<1>2. OldMessages \subseteq Messages
  BY DEF Messages
<1>3. \A i \in DOMAIN s : s[i].role = "old"
  BY <1>1 DEF OldMessages
<1>4. s \in Seq(Messages)
  BY <1>2
<1> QED BY <1>3, <1>4

\* A list is emptied once its conversation is dropped.
LEMMA EmptyList ==
  ASSUME IInv, NEW c \in ConvIds, msgs' = [msgs EXCEPT ![c] = <<>>], c \in seen'.dropped,
         seen'.pushed = seen.pushed, seen.dropped \subseteq seen'.dropped, recorded' = recorded
  PROVE  msgs' \in [ConvIds -> Seq(Messages)] /\ ListsInv' /\ AnswersFollowQuestions'
PROOF
<1>1. /\ msgs' \in [ConvIds -> Seq(Messages)] /\ msgs'[c] = <<>>
      /\ \A d \in ConvIds \ {c} : msgs'[d] = msgs[d]
  BY DEF IInv, TypeOK
<1>2. \A p \in seen.pushed : p[3] \in ConvIds
  BY DEF IInv, SeenOK, Pushes
<1>3. ListsInv'
  BY <1>1, <1>2 DEF IInv, ListsInv
<1>4. AnswersFollowQuestions'
  BY <1>1 DEF IInv, AnswersFollowQuestions
<1> QED BY <1>1, <1>3, <1>4

LEMMA DropMessagesStep == ASSUME IInv, NEW r \in Request, DropMessages(r) PROVE IInv'
PROOF
<1> DEFINE t == [th[r] EXCEPT !.pc = "done"]
<1>1. th[r] \in Thread /\ Good(r, th[r], recorded, seen.pushed, seen.dropped) /\ th[r].pc = "delete"
  BY DEF IInv, TypeOK, ThreadsInv, DropMessages, At
<1>2. t \in Thread /\ Good(r, t, recorded', seen'.pushed, seen'.dropped) /\ th' = [th EXCEPT ![r] = t]
  BY <1>1 DEF DropMessages, Goto, Become, Thread, Pcs, Good, Resolving, AfterPush
<1>3. HasAsked(t) /\ HasAnswered(t) /\ recorded' = recorded /\ seen' = seen
  BY <1>1 DEF HasAsked, HasAnswered, Thread, DropMessages
<1>4. th' \in [Request -> Thread] /\ ThreadsInv' /\ PushInv'
  <2> HIDE DEF t
  <2> QED BY <1>2, <1>3, ThreadStep DEF IInv
<1>5. msgs' \in [ConvIds -> Seq(Messages)] /\ ListsInv' /\ AnswersFollowQuestions'
  BY <1>1, <1>3, EmptyList DEF DropMessages, Good
<1>6. TypeOK' /\ SeenOK'
  BY <1>3, <1>4, <1>5 DEF DropMessages, IInv, TypeOK, SeenOK
<1> QED BY <1>4, <1>5, <1>6 DEF IInv

LEMMA DeleteListStep == ASSUME IInv, NEW r \in Request, DeleteList(r) PROVE IInv'
PROOF
<1>1. th[r] \in Thread /\ Good(r, th[r], recorded, seen.pushed, seen.dropped) /\ th[r].pc = "delLists"
      /\ recorded' = recorded /\ meta' = meta /\ convs' = convs /\ made' = made
  BY DEF IInv, TypeOK, ThreadsInv, DeleteList, At
<1>2. CASE legacy' = <<>> /\ Goto(r, "done") /\ UNCHANGED <<msgs, seen>>
  <2> DEFINE t == [th[r] EXCEPT !.pc = "done"]
  <2>1. t \in Thread /\ Good(r, t, recorded', seen'.pushed, seen'.dropped) /\ th' = [th EXCEPT ![r] = t]
    BY <1>1, <1>2 DEF Goto, Become, Thread, Pcs, Good, Resolving, AfterPush
  <2>2. HasAsked(t) /\ HasAnswered(t)
    BY <1>1 DEF HasAsked, HasAnswered, Thread
  <2>3. /\ recorded \subseteq recorded' /\ recorded' \subseteq Request /\ seen' = seen
        /\ meta' \in Metas \union {None} /\ convs' \in [ConvIds -> ConvRecs \union {None}]
        /\ legacy' \in Seq(OldMessages) /\ made' \in 0 .. MaxConvs /\ msgs' = msgs
    BY <1>1, <1>2 DEF IInv, TypeOK
  <2> HIDE DEF t
  <2> QED BY <2>1, <2>2, <2>3, QuietStep
<1>3. ASSUME NEW c \in th[r].read, msgs' = [msgs EXCEPT ![c] = <<>>],
             Become(r, [th[r] EXCEPT !.read = @ \ {c}]),
             seen' = [seen EXCEPT !.dropped = @ \union {c}], legacy' = legacy
      PROVE  IInv'
  <2> DEFINE t == [th[r] EXCEPT !.read = th[r].read \ {c}]
  <2>1. c \in ConvIds /\ th' = [th EXCEPT ![r] = t]
    BY <1>1, <1>3 DEF Become, Thread
  <2>2. t \in Thread /\ t.pc = "delLists" /\ t.role = th[r].role
    BY <1>1 DEF Thread
  <2>3. /\ DOMAIN seen' = DOMAIN seen /\ seen'.pushed = seen.pushed
        /\ seen.dropped \subseteq seen'.dropped /\ c \in seen'.dropped
    BY <1>3 DEF IInv, SeenOK
  <2>4. Good(r, t, recorded', seen'.pushed, seen'.dropped) /\ ~HasAsked(th[r]) /\ ~HasAnswered(th[r])
    BY <1>1, <2>2 DEF Good, Thread, Resolving, AfterPush, HasAsked, HasAnswered
  <2>5. th' \in [Request -> Thread] /\ ThreadsInv' /\ PushInv'
    <3> HIDE DEF t
    <3> QED BY <1>1, <2>1, <2>2, <2>3, <2>4, ThreadStep DEF IInv
  <2>6. msgs' \in [ConvIds -> Seq(Messages)] /\ ListsInv' /\ AnswersFollowQuestions'
    BY <1>1, <1>3, <2>1, <2>3, EmptyList
  <2>7. TypeOK' /\ SeenOK'
    BY <1>1, <1>3, <2>3, <2>5, <2>6 DEF IInv, TypeOK, SeenOK
  <2> QED BY <2>5, <2>6, <2>7 DEF IInv
<1> QED BY <1>2, <1>3 DEF DeleteList

\* The flat history is no message of a turn.
LEMMA CopyLegacyStep == ASSUME IInv, NEW r \in Request, CopyLegacy(r) PROVE IInv'
PROOF
<1> DEFINE t == [th[r] EXCEPT !.pc = "claim"]
<1> DEFINE c == th[r].own
<1> DEFINE u == th[r].old
<1>1. /\ th[r] \in Thread /\ Good(r, th[r], recorded, seen.pushed, seen.dropped) /\ th[r].pc = "copy"
      /\ UNCHANGED <<meta, convs, legacy, made, recorded, seen>> /\ msgs' = [msgs EXCEPT ![c] = @ \o u]
  BY DEF IInv, TypeOK, ThreadsInv, CopyLegacy, At, Push
<1>2. t \in Thread /\ Good(r, t, recorded', seen'.pushed, seen'.dropped) /\ th' = [th EXCEPT ![r] = t]
  BY <1>1 DEF CopyLegacy, Goto, Become, Thread, Pcs, Good, Resolving, AfterPush
<1>3. ~HasAsked(th[r]) /\ ~HasAnswered(th[r])
  BY <1>1 DEF Good, Thread, Resolving, AfterPush, HasAsked, HasAnswered
<1>4. th' \in [Request -> Thread] /\ ThreadsInv' /\ PushInv'
  <2> HIDE DEF t
  <2> QED BY <1>1, <1>2, <1>3, ThreadStep DEF IInv
<1>5. c \in ConvIds /\ u \in Seq(Messages) /\ \A i \in DOMAIN u : u[i].role = "old"
  BY <1>1, OldIsMessage DEF Good, Thread
<1>6. msgs[c] \in Seq(Messages)
  BY <1>5 DEF IInv, TypeOK
<1>7. /\ msgs' \in [ConvIds -> Seq(Messages)] /\ msgs'[c] = msgs[c] \o u
      /\ \A d \in ConvIds \ {c} : msgs'[d] = msgs[d]
  BY <1>1, <1>5, <1>6, Appended DEF IInv, TypeOK
<1>8. /\ \A i \in DOMAIN msgs[c] : i \in DOMAIN msgs'[c] /\ msgs'[c][i] = msgs[c][i]
      /\ \A i \in DOMAIN msgs'[c] : i \in DOMAIN msgs[c] \/ msgs'[c][i].role = "old"
  <2>1. /\ \A i \in DOMAIN msgs[c] : i \in DOMAIN (msgs[c] \o u) /\ (msgs[c] \o u)[i] = msgs[c][i]
        /\ \A i \in DOMAIN (msgs[c] \o u) :
             i \in DOMAIN msgs[c]
               \/ (i - Len(msgs[c]) \in DOMAIN u /\ (msgs[c] \o u)[i] = u[i - Len(msgs[c])])
    <3> DEFINE v == msgs[c]
    <3>1. v \in Seq(Messages) /\ u \in Seq(Messages)
      BY <1>5, <1>6
    <3> HIDE DEF c, u, v
    <3>2. /\ \A i \in DOMAIN v : i \in DOMAIN (v \o u) /\ (v \o u)[i] = v[i]
          /\ \A i \in DOMAIN (v \o u) :
               i \in DOMAIN v \/ (i - Len(v) \in DOMAIN u /\ (v \o u)[i] = u[i - Len(v)])
      BY <3>1, Appended
    <3> QED BY <3>2 DEF v
  <2> HIDE DEF c, u, t
  <2> QED BY <1>5, <1>7, <2>1
<1> HIDE DEF c, u, t
<1>9. ListsInv'
  <2>1. \A p \in seen.pushed : p[3] \in ConvIds
    BY DEF IInv, SeenOK, Pushes
  <2>2. \A d \in ConvIds : \A i \in DOMAIN msgs[d] : i \in DOMAIN msgs'[d] /\ msgs'[d][i] = msgs[d][i]
    BY <1>7, <1>8
  <2>3. \A d \in ConvIds : \A i \in DOMAIN msgs'[d] :
          msgs'[d][i].role # "old" => i \in DOMAIN msgs[d] /\ msgs'[d][i] = msgs[d][i]
    BY <1>7, <1>8
  <2>4. \A d \in ConvIds : \A i \in DOMAIN msgs'[d] :
          msgs'[d][i].role # "old" => <<msgs'[d][i].turn, msgs'[d][i].role, d>> \in seen'.pushed
    BY <1>1, <2>3 DEF IInv, ListsInv
  <2>5. \A d \in ConvIds : \A i, j \in DOMAIN msgs'[d] :
          msgs'[d][i].role # "old" /\ msgs'[d][i] = msgs'[d][j] => i = j
    <3> SUFFICES ASSUME NEW d \in ConvIds, NEW i \in DOMAIN msgs'[d], NEW j \in DOMAIN msgs'[d],
                        msgs'[d][i].role # "old", msgs'[d][i] = msgs'[d][j]
                 PROVE  i = j
      OBVIOUS
    <3>1. i \in DOMAIN msgs[d] /\ j \in DOMAIN msgs[d] /\ msgs[d][i] = msgs[d][j] /\ msgs[d][i].role # "old"
      BY <2>3
    <3> QED BY <3>1 DEF IInv, ListsInv
  <2>6. \A p \in seen'.pushed : p[3] \in seen'.dropped \/
          \E i \in DOMAIN msgs'[p[3]] : msgs'[p[3]][i] = Message(p[1], p[2])
    BY <1>1, <2>1, <2>2 DEF IInv, ListsInv
  <2> QED BY <2>4, <2>5, <2>6 DEF ListsInv
<1>10. AnswersFollowQuestions'
  <2>1. \A d \in ConvIds : \A i \in DOMAIN msgs'[d] : msgs'[d][i].role = "assistant" =>
          i \in DOMAIN msgs[d] /\ msgs'[d][i] = msgs[d][i] /\ \A j \in 1 .. (i - 1) : msgs'[d][j] = msgs[d][j]
    <3> SUFFICES ASSUME NEW d \in ConvIds, NEW i \in DOMAIN msgs'[d], msgs'[d][i].role = "assistant"
                 PROVE  i \in DOMAIN msgs[d] /\ msgs'[d][i] = msgs[d][i] /\ \A j \in 1 .. (i - 1) : msgs'[d][j] = msgs[d][j]
      OBVIOUS
    <3>1. i \in DOMAIN msgs[d] /\ msgs[d] \in Seq(Messages)
      BY <1>7, <1>8 DEF IInv, TypeOK
    <3>2. \A j \in 1 .. (i - 1) : j \in DOMAIN msgs[d]
      BY <3>1
    <3> QED BY <1>7, <1>8, <3>1, <3>2
  <2> QED BY <1>1, <2>1 DEF IInv, AnswersFollowQuestions
<1>11. TypeOK' /\ SeenOK'
  BY <1>1, <1>4, <1>7 DEF IInv, TypeOK, SeenOK
<1> QED BY <1>4, <1>9, <1>10, <1>11 DEF IInv

\* A request appends a question or an answer that it has not appended yet.
LEMMA PushMessageStep == ASSUME IInv, NEW r \in Request, PushMessage(r) PROVE IInv'
PROOF
<1> DEFINE t == [th[r] EXCEPT !.pc = "findConv"]
<1> DEFINE c == th[r].conv
<1> DEFINE m == Message(r, th[r].role)
<1> DEFINE e == <<r, th[r].role, c>>
<1>1. /\ th[r] \in Thread /\ Good(r, th[r], recorded, seen.pushed, seen.dropped) /\ th[r].pc = "push"
      /\ UNCHANGED <<meta, convs, legacy, made, recorded>> /\ msgs' = [msgs EXCEPT ![c] = @ \o <<m>>]
      /\ th' = [th EXCEPT ![r] = t] /\ seen' = [seen EXCEPT !.pushed = @ \union {e}]
  BY DEF IInv, TypeOK, ThreadsInv, PushMessage, At, Push, Goto, Become
<1>2. /\ DOMAIN seen' = DOMAIN seen /\ seen'.pushed = seen.pushed \union {e} /\ seen'.dropped = seen.dropped
  BY <1>1 DEF IInv, SeenOK
<1>3. c \in ConvIds /\ th[r].role \in {"user", "assistant"} /\ e \in Pushes
  BY <1>1 DEF Good, Thread, Pushes
<1>4. m \in Messages /\ m.role = th[r].role /\ m.turn = r /\ m.role # "old"
  BY <1>3 DEF Message, Messages
<1>5. t \in Thread /\ t.pc = "findConv" /\ t.role = th[r].role /\ t.conv = c
  BY <1>1 DEF Thread, Pcs, AfterPush
<1>6. th' \in [Request -> Thread] /\ th'[r] = t /\ \A q \in Request \ {r} : th'[q] = th[q]
  BY <1>1, <1>5 DEF IInv, TypeOK
<1>7. \A p \in seen.pushed : p[1] = r => p[2] # th[r].role
  <2> SUFFICES ASSUME NEW p \in seen.pushed, p[1] = r, p[2] = th[r].role PROVE FALSE
    OBVIOUS
  <2>1. IF p[2] = "user" THEN HasAsked(th[r]) ELSE HasAnswered(th[r])
    BY DEF IInv, PushInv
  <2> QED BY <1>1, <1>3, <2>1 DEF HasAsked, HasAnswered, AfterPush
<1>8. Good(r, t, recorded', seen'.pushed, seen'.dropped)
  <2>1. th[r].role = "assistant" => r \in recorded /\ <<r, "user", c>> \in seen.pushed
    BY <1>1 DEF Good
  <2>2. <<r, "user", c>> \in seen'.pushed
    BY <1>2, <1>3, <2>1
  <2> HIDE DEF t, c
  <2> QED BY <1>1, <1>3, <1>5, <2>1, <2>2 DEF Good, Resolving, AfterPush
<1>9. ThreadsInv'
  <2> SUFFICES ASSUME NEW q \in Request
               PROVE  Good(q, th'[q], recorded', seen'.pushed, seen'.dropped)
    BY DEF ThreadsInv
  <2>1. CASE q = r
    BY <1>6, <1>8, <2>1
  <2>2. CASE q # r
    <3>1. Good(q, th[q], recorded, seen.pushed, seen.dropped) /\ th'[q] = th[q]
      BY <1>6, <2>2 DEF IInv, ThreadsInv
    <3> HIDE DEF t, c, m, e
    <3> QED BY <1>1, <1>2, <3>1 DEF Good
  <2> QED BY <2>1, <2>2
<1>10. PushInv'
  <2> SUFFICES ASSUME NEW p \in seen'.pushed
               PROVE  IF p[2] = "user" THEN HasAsked(th'[p[1]]) ELSE HasAnswered(th'[p[1]])
    BY DEF PushInv
  <2>1. CASE p = e
    <3>1. p[1] = r /\ p[2] = th[r].role
      BY <2>1
    <3> HIDE DEF t
    <3> QED BY <1>3, <1>5, <1>6, <3>1 DEF HasAsked, HasAnswered, AfterPush
  <2>2. CASE p \in seen.pushed
    <3>1. p[1] \in Request /\ (IF p[2] = "user" THEN HasAsked(th[p[1]]) ELSE HasAnswered(th[p[1]]))
      BY <2>2 DEF IInv, PushInv, SeenOK, Pushes
    <3>2. CASE p[1] = r
      <4> HIDE DEF t
      <4> QED BY <1>1, <1>3, <1>5, <1>6, <3>1, <3>2 DEF HasAsked, HasAnswered, AfterPush
    <3> QED BY <1>6, <3>1, <3>2
  <2> QED BY <1>2, <2>1, <2>2
<1>11. msgs[c] \in Seq(Messages)
  BY <1>3 DEF IInv, TypeOK
<1>12. /\ msgs' \in [ConvIds -> Seq(Messages)] /\ msgs'[c] = msgs[c] \o <<m>>
       /\ \A d \in ConvIds \ {c} : msgs'[d] = msgs[d]
  <2>1. msgs[c] \o <<m>> \in Seq(Messages)
    BY <1>4, <1>11
  <2> HIDE DEF m, c
  <2> QED BY <1>1, <1>3, <2>1 DEF IInv, TypeOK
<1> DEFINE n == Len(msgs[c]) + 1
<1>13. /\ \A i \in DOMAIN msgs[c] : i \in DOMAIN msgs'[c] /\ msgs'[c][i] = msgs[c][i] /\ i \in 1 .. (n - 1)
       /\ n \in DOMAIN msgs'[c] /\ msgs'[c][n] = m /\ n \notin DOMAIN msgs[c]
       /\ \A i \in DOMAIN msgs'[c] : i \in DOMAIN msgs[c] \/ i = n
  <2> HIDE DEF m, c
  <2> QED BY <1>4, <1>11, <1>12
<1>14. \A i \in DOMAIN msgs[c] : msgs[c][i] # m
  <2> SUFFICES ASSUME NEW i \in DOMAIN msgs[c], msgs[c][i] = m PROVE FALSE
    OBVIOUS
  <2>1. <<m.turn, m.role, c>> \in seen.pushed
    BY <1>3, <1>4 DEF IInv, ListsInv
  <2> QED BY <1>4, <1>7, <2>1
<1>15. e[1] = r /\ e[2] = th[r].role /\ e[3] = c /\ Message(e[1], e[2]) = m
  OBVIOUS
<1> HIDE DEF t, c, n, m, e
<1>16. ListsInv'
  <2>1. \A d \in ConvIds : \A i \in DOMAIN msgs'[d] :
          msgs'[d][i].role # "old" => <<msgs'[d][i].turn, msgs'[d][i].role, d>> \in seen'.pushed
    <3> SUFFICES ASSUME NEW d \in ConvIds, NEW i \in DOMAIN msgs'[d], msgs'[d][i].role # "old"
                 PROVE  <<msgs'[d][i].turn, msgs'[d][i].role, d>> \in seen'.pushed
      OBVIOUS
    <3>1. CASE d = c /\ i = n
      BY <1>2, <1>4, <1>13, <3>1 DEF e
    <3>2. CASE ~(d = c /\ i = n)
      <4>1. i \in DOMAIN msgs[d] /\ msgs'[d][i] = msgs[d][i]
        BY <1>12, <1>13, <3>2
      <4> QED BY <1>2, <4>1 DEF IInv, ListsInv
    <3> QED BY <3>1, <3>2
  <2>2. \A d \in ConvIds : \A i, j \in DOMAIN msgs'[d] :
          msgs'[d][i].role # "old" /\ msgs'[d][i] = msgs'[d][j] => i = j
    <3> SUFFICES ASSUME NEW d \in ConvIds, NEW i \in DOMAIN msgs'[d], NEW j \in DOMAIN msgs'[d],
                        msgs'[d][i].role # "old", msgs'[d][i] = msgs'[d][j]
                 PROVE  i = j
      OBVIOUS
    <3>1. CASE i \in DOMAIN msgs[d] /\ j \in DOMAIN msgs[d]
      <4>1. msgs'[d][i] = msgs[d][i] /\ msgs'[d][j] = msgs[d][j]
        BY <1>12, <1>13, <3>1
      <4> QED BY <3>1, <4>1 DEF IInv, ListsInv
    <3>2. CASE ~(i \in DOMAIN msgs[d] /\ j \in DOMAIN msgs[d])
      <4>1. d = c
        BY <1>12, <3>2
      <4> QED BY <1>13, <1>14, <3>2, <4>1
    <3> QED BY <3>1, <3>2
  <2>3. \A p \in seen'.pushed : p[3] \in seen'.dropped \/
          \E i \in DOMAIN msgs'[p[3]] : msgs'[p[3]][i] = Message(p[1], p[2])
    <3> SUFFICES ASSUME NEW p \in seen'.pushed, p[3] \notin seen'.dropped
                 PROVE  \E i \in DOMAIN msgs'[p[3]] : msgs'[p[3]][i] = Message(p[1], p[2])
      OBVIOUS
    <3>1. CASE p = e
      BY <1>13, <1>15, <3>1
    <3>2. CASE p \in seen.pushed
      <4>1. p[3] \in ConvIds
        BY <3>2 DEF IInv, SeenOK, Pushes
      <4>2. PICK i \in DOMAIN msgs[p[3]] : msgs[p[3]][i] = Message(p[1], p[2])
        BY <1>2, <3>2 DEF IInv, ListsInv
      <4>3. i \in DOMAIN msgs'[p[3]] /\ msgs'[p[3]][i] = msgs[p[3]][i]
        BY <1>12, <1>13, <4>1
      <4> QED BY <4>2, <4>3
    <3> QED BY <1>2, <3>1, <3>2
  <2> QED BY <2>1, <2>2, <2>3 DEF ListsInv
<1>17. AnswersFollowQuestions'
  <2> SUFFICES ASSUME NEW d \in ConvIds \ seen'.dropped, NEW i \in DOMAIN msgs'[d],
                      msgs'[d][i].role = "assistant"
               PROVE  /\ msgs'[d][i].turn \in recorded'
                      /\ \E j \in 1 .. (i - 1) : msgs'[d][j] = Message(msgs'[d][i].turn, "user")
    BY DEF AnswersFollowQuestions
  <2>1. CASE d = c /\ i = n
    <3>1. msgs'[d][i] = m /\ th[r].role = "assistant"
      BY <1>4, <1>13, <2>1
    <3>2. r \in recorded /\ <<r, "user", c>> \in seen.pushed
      BY <1>1, <3>1 DEF Good, c
    <3>3. PICK j \in DOMAIN msgs[c] : msgs[c][j] = Message(r, "user")
      <4>1. \A p \in seen.pushed : p[3] \in seen.dropped \/
              \E j \in DOMAIN msgs[p[3]] : msgs[p[3]][j] = Message(p[1], p[2])
        BY DEF IInv, ListsInv
      <4> QED BY <1>2, <2>1, <3>2, <4>1
    <3>4. j \in 1 .. (i - 1) /\ msgs'[d][j] = Message(r, "user")
      BY <1>13, <2>1, <3>3
    <3> QED BY <1>1, <1>4, <3>1, <3>2, <3>4
  <2>2. CASE ~(d = c /\ i = n)
    <3>1. i \in DOMAIN msgs[d] /\ msgs'[d][i] = msgs[d][i] /\ msgs[d] \in Seq(Messages)
      BY <1>12, <1>13, <2>2 DEF IInv, TypeOK
    <3>2. PICK j \in 1 .. (i - 1) : msgs[d][j] = Message(msgs[d][i].turn, "user")
      BY <1>2, <2>2, <3>1 DEF IInv, AnswersFollowQuestions
    <3>3. msgs[d][i].turn \in recorded
      BY <1>2, <2>2, <3>1 DEF IInv, AnswersFollowQuestions
    <3>4. j \in DOMAIN msgs[d]
      BY <3>1
    <3>5. msgs'[d][j] = msgs[d][j]
      BY <1>12, <1>13, <3>4
    <3> QED BY <1>1, <3>1, <3>2, <3>3, <3>5
  <2> QED BY <2>1, <2>2
<1>18. TypeOK' /\ SeenOK'
  BY <1>1, <1>2, <1>3, <1>6, <1>12 DEF IInv, TypeOK, SeenOK
<1> QED BY <1>9, <1>10, <1>16, <1>17, <1>18 DEF IInv

-----------------------------------------------------------------------------
(* The theorems.                                                             *)

LEMMA InitIInv == Init => IInv
PROOF
<1> SUFFICES ASSUME Init PROVE IInv
  OBVIOUS
<1>1. PICK s \in Starts : Created(s)
  BY DEF Init
<1>2. /\ s.lists \in Seq(Seq(OldMessages)) /\ s.legacy \in Seq(OldMessages) /\ Len(s.lists) \in 0 .. MaxConvs
  BY SessionsAssumption
<1>3. \A c \in DOMAIN s.lists : s.lists[c] \in Seq(OldMessages)
  BY <1>2
<1>4. \A c \in ConvIds : msgs[c] \in Seq(OldMessages)
  BY <1>1, <1>3 DEF Created
<1>5. \A c \in ConvIds : msgs[c] \in Seq(Messages) /\ \A i \in DOMAIN msgs[c] : msgs[c][i].role = "old"
  BY <1>4, OldIsMessage
<1>6. convs \in [ConvIds -> ConvRecs \union {None}]
  <2>1. \A c \in ConvIds : c \in DOMAIN s.lists => NewConv(c - 1, Len(s.lists[c])) \in ConvRecs
    BY <1>3 DEF NewConv, ConvRecs, Titles, ConvIds
  <2> QED BY <1>1, <2>1 DEF Created
<1>7. IdleThread \in Thread
  BY DEF IdleThread, Thread, Pcs
<1>8. TypeOK
  <2>1. meta \in Metas /\ legacy \in Seq(OldMessages) /\ made \in 0 .. MaxConvs
    BY <1>1, <1>2 DEF Created, NewMeta, Metas, Titles
  <2>2. msgs \in [ConvIds -> Seq(Messages)]
    BY <1>1, <1>5 DEF Created
  <2>3. th \in [Request -> Thread] /\ recorded \subseteq Request
    BY <1>7 DEF Init
  <2> QED BY <1>6, <2>1, <2>2, <2>3 DEF TypeOK
<1>9. SeenOK /\ seen.pushed = {}
  BY DEF Init, SeenOK
<1>10. ThreadsInv
  BY DEF Init, ThreadsInv, Good, IdleThread, Resolving, AfterPush
<1>11. PushInv /\ ListsInv /\ AnswersFollowQuestions
  BY <1>5, <1>9 DEF PushInv, ListsInv, AnswersFollowQuestions
<1> QED BY <1>8, <1>9, <1>10, <1>11 DEF IInv

LEMMA ClaimExpiresStep == ASSUME IInv, ClaimExpires PROVE IInv'
PROOF
<1>1. /\ DOMAIN seen' = DOMAIN seen /\ seen'.pushed = seen.pushed /\ seen'.dropped = seen.dropped
      /\ UNCHANGED <<meta, convs, msgs, legacy, made, th, recorded>>
  BY DEF ClaimExpires, store, IInv, SeenOK
<1> QED BY <1>1 DEF IInv, TypeOK, SeenOK, ThreadsInv, PushInv, ListsInv, AnswersFollowQuestions

LEMMA StepIInv == IInv /\ [Next]_vars => IInv'
PROOF
<1> SUFFICES ASSUME IInv, [Next]_vars PROVE IInv'
  OBVIOUS
<1>1. CASE UNCHANGED vars
  BY <1>1 DEF vars, store, IInv, TypeOK, SeenOK, ThreadsInv, PushInv, ListsInv, AnswersFollowQuestions
<1>2. CASE ClaimExpires
  BY <1>2, ClaimExpiresStep
<1>3. ASSUME NEW r \in Request, Step(r) \/ ClientLeaves(r) PROVE IInv'
  BY <1>3, BeginStep, ReadMetaStep, LookForDefaultStep, TakeLockStep, RecheckDefaultStep, ReadLegacyStep,
     CopyLegacyStep, ClaimStep, WaitForWinnerStep, SaveDefaultStep, UpdateStep, ListForStampStep, StampStep,
     CreateConversationStep, FindForRenameStep, RenameStep, GuardDeleteStep, DropConversationStep,
     DropMessagesStep, ListIdsStep, DeleteMetaStep, DeleteConvsStep, DeleteListStep, CheckModelStep,
     RejectModelStep, PushMessageStep, FindConversationStep, BumpConversationStep, FindMetaStep,
     BumpMetaStep, GenerateStep, RefuseStep, ClientLeavesStep, Zenon
     DEF Step
<1> QED BY <1>1, <1>2, <1>3 DEF Next

\* The types of the project's record, its conversations and lists, and of the
\* threads, with what each knows where it stands, in every reachable state.
THEOREM SessionsTypes == Spec => []IInv
BY InitIInv, StepIInv, PTL DEF Spec

\* What a request appended with rpush is in its list once, unless the list was
\* deleted, however many requests, processes, attachments and deletions run with it.
THEOREM MessagesAlwaysStay == Spec => []MessagesStay
PROOF
<1>1. IInv => MessagesStay
  <2> SUFFICES ASSUME IInv, NEW p \in seen.pushed, p[3] \notin seen.dropped
               PROVE  Cardinality({i \in DOMAIN msgs[p[3]] : msgs[p[3]][i] = Message(p[1], p[2])}) = 1
    BY DEF MessagesStay
  <2>1. p[3] \in ConvIds /\ p[2] \in {"user", "assistant"}
    BY DEF IInv, SeenOK, Pushes
  <2>2. PICK i \in DOMAIN msgs[p[3]] : msgs[p[3]][i] = Message(p[1], p[2])
    BY DEF IInv, ListsInv
  <2>3. msgs[p[3]][i].role # "old"
    BY <2>1, <2>2 DEF Message
  <2>4. {j \in DOMAIN msgs[p[3]] : msgs[p[3]][j] = Message(p[1], p[2])} = {i}
    BY <2>1, <2>2, <2>3 DEF IInv, ListsInv
  <2> QED BY <2>4, FS_Singleton
<1> QED BY <1>1, SessionsTypes, PTL

\* An answer, or a refusal, stands behind the question of its own request and was
\* recorded before it was kept, also when the turns of many requests interleave.
THEOREM AnswersAlwaysFollow == Spec => []AnswersFollowQuestions
PROOF
<1>1. IInv => AnswersFollowQuestions
  BY DEF IInv
<1> QED BY <1>1, SessionsTypes, PTL
-----------------------------------------------------------------------------
(* One default conversation.  Of the threads that found no conversation, one *)
(* takes the claim; unless it runs out, the others see what that one saved.  *)

Holders == {"copy", "claim", "wait", "saveDefault"}

\* A reason for which a second default may be made.
Excused == seen.gaveUp \/ seen.expired \/ seen.emptied

\* No two threads made the same conversation object.
OwnInv ==
  /\ \A r \in Request : th[r].pc \in Holders => th[r].own <= made
  /\ \A r, q \in Request : th[r].pc \in Holders /\ th[q].pc \in Holders /\ th[r].own = th[q].own => r = q

\* Whoever may save a default holds the claim; after it has saved, nobody may,
\* and whoever is still to take the claim finds it taken.
ClaimInv ==
  /\ seen.defaults = {} \/ \E c \in ConvIds : seen.defaults = {c}
  /\ \A r \in Request : th[r].pc = "saveDefault" => claim = th[r].own
  /\ seen.defaults # {} =>
       /\ Present # {}
       /\ \A r \in Request : th[r].pc # "saveDefault" /\ (th[r].pc \in {"legacy", "copy", "claim"} => claim # None)

OneInv == OwnInv /\ (Excused \/ ClaimInv)

\* Conversations are numbered.
LEMMA OwnIsNumber ==
  ASSUME ThreadsInv, NEW q \in Request, th[q].pc \in Holders
  PROVE  th[q].own \in ConvIds /\ th[q].own \in Int
PROOF
<1>1. Good(q, th[q], recorded, seen.pushed, seen.dropped)
  BY DEF ThreadsInv
<1>2. th[q].own \in ConvIds
  BY <1>1 DEF Good, Holders
<1>3. \A c \in ConvIds : c \in Int
  BY DEF ConvIds
<1> QED BY <1>2, <1>3

\* A step of a thread that is not on its way to a default.
LEMMA OffStep ==
  ASSUME IInv, OneInv, NEW r \in Request, NEW t, th' = [th EXCEPT ![r] = t],
         t.pc \notin Holders \union {"legacy"}, claim' = claim, made' \in {made, made + 1},
         seen'.defaults = seen.defaults, Excused => Excused', Present # {} => Present' # {} \/ Excused'
  PROVE  OneInv'
PROOF
<1>1. th'[r] = t /\ \A q \in Request \ {r} : th'[q] = th[q]
  BY DEF IInv, TypeOK
<1>2. made \in Int /\ \A q \in Request : th[q].pc \in Holders => th[q].own \in Int
  BY OwnIsNumber DEF IInv, TypeOK
<1>3. OwnInv'
  BY <1>1, <1>2 DEF OneInv, OwnInv
<1>4. ClaimInv \/ Excused'
  BY DEF OneInv
<1>5. ASSUME ClaimInv, ~Excused' PROVE ClaimInv'
  BY <1>1, <1>5 DEF ClaimInv, Holders
<1> QED BY <1>3, <1>4, <1>5 DEF OneInv

LEMMA ReadMetaOne == ASSUME IInv, OneInv, NEW r \in Request, ReadMeta(r) PROVE OneInv'
PROOF
<1> DEFINE p == IF meta = None THEN "done" ELSE AfterMeta(th[r].op)
<1> DEFINE t == [th[r] EXCEPT !.snap = meta, !.pc = p]
<1>1. th[r] \in Thread /\ Good(r, th[r], recorded, seen.pushed, seen.dropped)
  BY DEF IInv, TypeOK, ThreadsInv
<1>2. th' = [th EXCEPT ![r] = t] /\ t.pc \notin Holders \union {"legacy"}
  BY <1>1 DEF ReadMeta, At, Goto, Become, Good, Thread, Holders, AfterMeta
<1>3. claim' = claim /\ made' \in {made, made + 1} /\ seen'.defaults = seen.defaults
  BY DEF ReadMeta, store, IInv, SeenOK
<1>4. Present' = Present
  BY DEF ReadMeta, store, Present
<1>5. Excused => Excused'
  BY DEF ReadMeta, Excused
<1> HIDE DEF t
<1> QED BY <1>2, <1>3, <1>4, <1>5, OffStep

LEMMA TakeLockOne == ASSUME IInv, OneInv, NEW r \in Request, TakeLock(r) PROVE OneInv'
PROOF
<1> DEFINE p == "recheck"
<1> DEFINE t == [th[r] EXCEPT !.pc = p]
<1>1. th[r] \in Thread /\ Good(r, th[r], recorded, seen.pushed, seen.dropped)
  BY DEF IInv, TypeOK, ThreadsInv
<1>2. th' = [th EXCEPT ![r] = t] /\ t.pc \notin Holders \union {"legacy"}
  BY <1>1 DEF TakeLock, At, Goto, Become, Good, Thread, Holders
<1>3. claim' = claim /\ made' \in {made, made + 1} /\ seen'.defaults = seen.defaults
  BY DEF TakeLock, store, IInv, SeenOK
<1>4. Present' = Present
  BY DEF TakeLock, store, Present
<1>5. Excused => Excused'
  BY DEF TakeLock, Excused
<1> HIDE DEF t
<1> QED BY <1>2, <1>3, <1>4, <1>5, OffStep

LEMMA UpdateOne == ASSUME IInv, OneInv, NEW r \in Request, Update(r) PROVE OneInv'
PROOF
<1> DEFINE p == "done"
<1> DEFINE t == [th[r] EXCEPT !.pc = p]
<1>1. th[r] \in Thread /\ Good(r, th[r], recorded, seen.pushed, seen.dropped)
  BY DEF IInv, TypeOK, ThreadsInv
<1>2. th' = [th EXCEPT ![r] = t] /\ t.pc \notin Holders \union {"legacy"}
  BY <1>1 DEF Update, At, Goto, Become, Good, Thread, Holders
<1>3. claim' = claim /\ made' \in {made, made + 1} /\ seen'.defaults = seen.defaults
  BY DEF Update, store, IInv, SeenOK
<1>4. Present' = Present
  BY DEF Update, store, Present
<1>5. Excused => Excused'
  BY DEF Update, Excused
<1> HIDE DEF t
<1> QED BY <1>2, <1>3, <1>4, <1>5, OffStep

LEMMA ListForStampOne == ASSUME IInv, OneInv, NEW r \in Request, ListForStamp(r) PROVE OneInv'
PROOF
<1> DEFINE p == IF meta = None \/ (meta # None /\ meta.workspace) THEN "done" ELSE "stampSave"
<1> DEFINE t == [th[r] EXCEPT !.snap = meta, !.pc = p]
<1>1. th[r] \in Thread /\ Good(r, th[r], recorded, seen.pushed, seen.dropped)
  BY DEF IInv, TypeOK, ThreadsInv
<1>2. th' = [th EXCEPT ![r] = t] /\ t.pc \notin Holders \union {"legacy"}
  BY <1>1 DEF ListForStamp, At, Goto, Become, Good, Thread, Holders
<1>3. claim' = claim /\ made' \in {made, made + 1} /\ seen'.defaults = seen.defaults
  BY DEF ListForStamp, store, IInv, SeenOK
<1>4. Present' = Present
  BY DEF ListForStamp, store, Present
<1>5. Excused => Excused'
  BY DEF ListForStamp, Excused
<1> HIDE DEF t
<1> QED BY <1>2, <1>3, <1>4, <1>5, OffStep

LEMMA StampOne == ASSUME IInv, OneInv, NEW r \in Request, Stamp(r) PROVE OneInv'
PROOF
<1> DEFINE t == [th[r] EXCEPT !.pc = "done"]
<1>1. th[r] \in Thread /\ Good(r, th[r], recorded, seen.pushed, seen.dropped)
  BY DEF IInv, TypeOK, ThreadsInv
<1>2. th' = [th EXCEPT ![r] = t] /\ t.pc \notin Holders \union {"legacy"}
  BY <1>1 DEF Stamp, At, Goto, Become, Good, Thread, Holders
<1>3. claim' = claim /\ made' \in {made, made + 1} /\ seen'.defaults = seen.defaults
  BY DEF Stamp, store, IInv, SeenOK
<1>4. Present' = Present
  BY DEF Stamp, store, Present
<1>5. Excused => Excused'
  BY DEF Stamp, Excused
<1> HIDE DEF t
<1> QED BY <1>2, <1>3, <1>4, <1>5, OffStep

LEMMA CreateConversationOne == ASSUME IInv, OneInv, NEW r \in Request, CreateConversation(r) PROVE OneInv'
PROOF
<1> DEFINE t == [th[r] EXCEPT !.pc = "done"]
<1>1. th[r] \in Thread /\ Good(r, th[r], recorded, seen.pushed, seen.dropped)
  BY DEF IInv, TypeOK, ThreadsInv
<1>2. th' = [th EXCEPT ![r] = t] /\ t.pc \notin Holders \union {"legacy"}
  BY <1>1 DEF CreateConversation, At, Goto, Become, Good, Thread, Holders
<1>3. claim' = claim /\ made' \in {made, made + 1} /\ seen'.defaults = seen.defaults
  BY DEF CreateConversation, store, IInv, SeenOK
<1>4. Present # {} => Present' # {}
  <2>1. NewConv(made + 1, 0) # None
    <3>1. NewConv(made + 1, 0) \in ConvRecs
      BY DEF NewConv, ConvRecs, Titles, IInv, TypeOK
    <3> QED BY <3>1, SessionsAssumption DEF ConvRecs, Titles
  <2> QED BY <2>1 DEF CreateConversation, Save, Present, IInv, TypeOK
<1>5. Excused => Excused'
  BY DEF CreateConversation, Excused
<1> HIDE DEF t
<1> QED BY <1>2, <1>3, <1>4, <1>5, OffStep

LEMMA FindForRenameOne == ASSUME IInv, OneInv, NEW r \in Request, FindForRename(r) PROVE OneInv'
PROOF
<1> DEFINE t == IF th[r].conv \in Present THEN [th[r] EXCEPT !.snap = convs[th[r].conv], !.pc = "renameSave"] ELSE [th[r] EXCEPT !.pc = "done"]
<1>1. th[r] \in Thread /\ Good(r, th[r], recorded, seen.pushed, seen.dropped)
  BY DEF IInv, TypeOK, ThreadsInv
<1>2. th' = [th EXCEPT ![r] = t] /\ t.pc \notin Holders \union {"legacy"}
  BY <1>1 DEF FindForRename, At, Goto, Become, Good, Thread, Holders
<1>3. claim' = claim /\ made' \in {made, made + 1} /\ seen'.defaults = seen.defaults
  BY DEF FindForRename, store, IInv, SeenOK
<1>4. Present' = Present
  BY DEF FindForRename, store, Present
<1>5. Excused => Excused'
  BY DEF FindForRename, Excused
<1> HIDE DEF t
<1> QED BY <1>2, <1>3, <1>4, <1>5, OffStep

LEMMA RenameOne == ASSUME IInv, OneInv, NEW r \in Request, Rename(r) PROVE OneInv'
PROOF
<1> DEFINE t == [th[r] EXCEPT !.pc = "done"]
<1>1. th[r] \in Thread /\ Good(r, th[r], recorded, seen.pushed, seen.dropped)
  BY DEF IInv, TypeOK, ThreadsInv
<1>2. th' = [th EXCEPT ![r] = t] /\ t.pc \notin Holders \union {"legacy"}
  BY <1>1 DEF Rename, At, Goto, Become, Good, Thread, Holders
<1>3. claim' = claim /\ made' \in {made, made + 1} /\ seen'.defaults = seen.defaults
  BY DEF Rename, store, IInv, SeenOK
<1>4. Present # {} => Present' # {}
  <2>1. [th[r].snap EXCEPT !.title = "given"] # None
    <3>1. [th[r].snap EXCEPT !.title = "given"] \in ConvRecs
      BY <1>1 DEF Rename, At, Good, ConvRecs, Titles
    <3> QED BY <3>1, SessionsAssumption DEF ConvRecs, Titles
  <2> QED BY <2>1 DEF Rename, Save, Present, IInv, TypeOK
<1>5. Excused => Excused'
  BY DEF Rename, Excused
<1> HIDE DEF t
<1> QED BY <1>2, <1>3, <1>4, <1>5, OffStep

LEMMA GuardDeleteOne == ASSUME IInv, OneInv, NEW r \in Request, GuardDelete(r) PROVE OneInv'
PROOF
<1> DEFINE p == IF Cardinality(Present) <= 1 \/ th[r].conv \notin Present THEN "done" ELSE "hdel"
<1> DEFINE t == [th[r] EXCEPT !.pc = p]
<1>1. th[r] \in Thread /\ Good(r, th[r], recorded, seen.pushed, seen.dropped)
  BY DEF IInv, TypeOK, ThreadsInv
<1>2. th' = [th EXCEPT ![r] = t] /\ t.pc \notin Holders \union {"legacy"}
  BY <1>1 DEF GuardDelete, At, Goto, Become, Good, Thread, Holders
<1>3. claim' = claim /\ made' \in {made, made + 1} /\ seen'.defaults = seen.defaults
  BY DEF GuardDelete, store, IInv, SeenOK
<1>4. Present' = Present
  BY DEF GuardDelete, store, Present
<1>5. Excused => Excused'
  BY DEF GuardDelete, Excused
<1> HIDE DEF t
<1> QED BY <1>2, <1>3, <1>4, <1>5, OffStep

LEMMA DropConversationOne == ASSUME IInv, OneInv, NEW r \in Request, DropConversation(r) PROVE OneInv'
PROOF
<1> DEFINE t == [th[r] EXCEPT !.pc = "delete"]
<1>1. th[r] \in Thread /\ Good(r, th[r], recorded, seen.pushed, seen.dropped)
  BY DEF IInv, TypeOK, ThreadsInv
<1>2. th' = [th EXCEPT ![r] = t] /\ t.pc \notin Holders \union {"legacy"}
  BY <1>1 DEF DropConversation, At, Goto, Become, Good, Thread, Holders
<1>3. claim' = claim /\ made' \in {made, made + 1} /\ seen'.defaults = seen.defaults
  BY DEF DropConversation, store, IInv, SeenOK, Emptied
<1>4. seen'.gaveUp = seen.gaveUp /\ seen'.expired = seen.expired
      /\ seen'.emptied = (seen.emptied \/ (Present # {} /\ Present' = {}))
  BY DEF DropConversation, Emptied, IInv, SeenOK
<1>5. (Excused => Excused') /\ (Present # {} => Present' # {} \/ Excused')
  BY <1>4 DEF Excused
<1> HIDE DEF t
<1> QED BY <1>2, <1>3, <1>4, <1>5, OffStep

LEMMA ListIdsOne == ASSUME IInv, OneInv, NEW r \in Request, ListIds(r) PROVE OneInv'
PROOF
<1> DEFINE t == [th[r] EXCEPT !.read = Present, !.pc = "delMeta"]
<1>1. th[r] \in Thread /\ Good(r, th[r], recorded, seen.pushed, seen.dropped)
  BY DEF IInv, TypeOK, ThreadsInv
<1>2. th' = [th EXCEPT ![r] = t] /\ t.pc \notin Holders \union {"legacy"}
  BY <1>1 DEF ListIds, At, Goto, Become, Good, Thread, Holders
<1>3. claim' = claim /\ made' \in {made, made + 1} /\ seen'.defaults = seen.defaults
  BY DEF ListIds, store, IInv, SeenOK
<1>4. Present' = Present
  BY DEF ListIds, store, Present
<1>5. Excused => Excused'
  BY DEF ListIds, Excused
<1> HIDE DEF t
<1> QED BY <1>2, <1>3, <1>4, <1>5, OffStep

LEMMA DeleteMetaOne == ASSUME IInv, OneInv, NEW r \in Request, DeleteMeta(r) PROVE OneInv'
PROOF
<1> DEFINE t == [th[r] EXCEPT !.pc = "delConvs"]
<1>1. th[r] \in Thread /\ Good(r, th[r], recorded, seen.pushed, seen.dropped)
  BY DEF IInv, TypeOK, ThreadsInv
<1>2. th' = [th EXCEPT ![r] = t] /\ t.pc \notin Holders \union {"legacy"}
  BY <1>1 DEF DeleteMeta, At, Goto, Become, Good, Thread, Holders
<1>3. claim' = claim /\ made' \in {made, made + 1} /\ seen'.defaults = seen.defaults
  BY DEF DeleteMeta, store, IInv, SeenOK
<1>4. Present' = Present
  BY DEF DeleteMeta, store, Present
<1>5. Excused => Excused'
  BY DEF DeleteMeta, Excused
<1> HIDE DEF t
<1> QED BY <1>2, <1>3, <1>4, <1>5, OffStep

LEMMA DeleteConvsOne == ASSUME IInv, OneInv, NEW r \in Request, DeleteConvs(r) PROVE OneInv'
PROOF
<1> DEFINE t == [th[r] EXCEPT !.pc = "delLists"]
<1>1. th[r] \in Thread /\ Good(r, th[r], recorded, seen.pushed, seen.dropped)
  BY DEF IInv, TypeOK, ThreadsInv
<1>2. th' = [th EXCEPT ![r] = t] /\ t.pc \notin Holders \union {"legacy"}
  BY <1>1 DEF DeleteConvs, At, Goto, Become, Good, Thread, Holders
<1>3. claim' = claim /\ made' \in {made, made + 1} /\ seen'.defaults = seen.defaults
  BY DEF DeleteConvs, store, IInv, SeenOK, Emptied
<1>4. seen'.gaveUp = seen.gaveUp /\ seen'.expired = seen.expired
      /\ seen'.emptied = (seen.emptied \/ (Present # {} /\ Present' = {}))
  BY DEF DeleteConvs, Emptied, IInv, SeenOK
<1>5. (Excused => Excused') /\ (Present # {} => Present' # {} \/ Excused')
  BY <1>4 DEF Excused
<1> HIDE DEF t
<1> QED BY <1>2, <1>3, <1>4, <1>5, OffStep

LEMMA CheckModelOne == ASSUME IInv, OneInv, NEW r \in Request, CheckModel(r) PROVE OneInv'
PROOF
<1> DEFINE t == [th[r] EXCEPT !.pc = "push"]
<1>1. th[r] \in Thread /\ Good(r, th[r], recorded, seen.pushed, seen.dropped)
  BY DEF IInv, TypeOK, ThreadsInv
<1>2. th' = [th EXCEPT ![r] = t] /\ t.pc \notin Holders \union {"legacy"}
  BY <1>1 DEF CheckModel, At, Goto, Become, Good, Thread, Holders
<1>3. claim' = claim /\ made' \in {made, made + 1} /\ seen'.defaults = seen.defaults
  BY DEF CheckModel, store, IInv, SeenOK
<1>4. Present' = Present
  BY DEF CheckModel, store, Present
<1>5. Excused => Excused'
  BY DEF CheckModel, Excused
<1> HIDE DEF t
<1> QED BY <1>2, <1>3, <1>4, <1>5, OffStep

LEMMA RejectModelOne == ASSUME IInv, OneInv, NEW r \in Request, RejectModel(r) PROVE OneInv'
PROOF
<1> DEFINE t == [th[r] EXCEPT !.pc = "done"]
<1>1. th[r] \in Thread /\ Good(r, th[r], recorded, seen.pushed, seen.dropped)
  BY DEF IInv, TypeOK, ThreadsInv
<1>2. th' = [th EXCEPT ![r] = t] /\ t.pc \notin Holders \union {"legacy"}
  BY <1>1 DEF RejectModel, At, Goto, Become, Good, Thread, Holders
<1>3. claim' = claim /\ made' \in {made, made + 1} /\ seen'.defaults = seen.defaults
  BY DEF RejectModel, store, IInv, SeenOK
<1>4. Present' = Present
  BY DEF RejectModel, store, Present
<1>5. Excused => Excused'
  BY DEF RejectModel, Excused
<1> HIDE DEF t
<1> QED BY <1>2, <1>3, <1>4, <1>5, OffStep

LEMMA FindConversationOne == ASSUME IInv, OneInv, NEW r \in Request, FindConversation(r) PROVE OneInv'
PROOF
<1> DEFINE t == IF th[r].conv \in Present THEN [th[r] EXCEPT !.snap = convs[th[r].conv], !.pc = "bumpConv"] ELSE [th[r] EXCEPT !.pc = "findMeta"]
<1>1. th[r] \in Thread /\ Good(r, th[r], recorded, seen.pushed, seen.dropped)
  BY DEF IInv, TypeOK, ThreadsInv
<1>2. th' = [th EXCEPT ![r] = t] /\ t.pc \notin Holders \union {"legacy"}
  BY <1>1 DEF FindConversation, At, Goto, Become, Good, Thread, Holders
<1>3. claim' = claim /\ made' \in {made, made + 1} /\ seen'.defaults = seen.defaults
  BY DEF FindConversation, store, IInv, SeenOK
<1>4. Present' = Present
  BY DEF FindConversation, store, Present
<1>5. Excused => Excused'
  BY DEF FindConversation, Excused
<1> HIDE DEF t
<1> QED BY <1>2, <1>3, <1>4, <1>5, OffStep

LEMMA BumpConversationOne == ASSUME IInv, OneInv, NEW r \in Request, BumpConversation(r) PROVE OneInv'
PROOF
<1> DEFINE p == "findMeta"
<1> DEFINE t == [th[r] EXCEPT !.pc = p]
<1>1. th[r] \in Thread /\ Good(r, th[r], recorded, seen.pushed, seen.dropped)
  BY DEF IInv, TypeOK, ThreadsInv
<1>2. th' = [th EXCEPT ![r] = t] /\ t.pc \notin Holders \union {"legacy"}
  BY <1>1 DEF BumpConversation, At, Goto, Become, Good, Thread, Holders
<1>3. claim' = claim /\ made' \in {made, made + 1} /\ seen'.defaults = seen.defaults
  BY DEF BumpConversation, store, IInv, SeenOK
<1>4. Present # {} => Present' # {}
  <2>1. Bumped(th[r].snap, th[r].role) # None
    <3>1. Bumped(th[r].snap, th[r].role) \in ConvRecs
      BY <1>1, BumpedTypes DEF BumpConversation, At, Good
    <3> QED BY <3>1, SessionsAssumption DEF ConvRecs, Titles
  <2> QED BY <2>1 DEF BumpConversation, Save, Present, IInv, TypeOK
<1>5. Excused => Excused'
  BY DEF BumpConversation, Excused
<1> HIDE DEF t
<1> QED BY <1>2, <1>3, <1>4, <1>5, OffStep

LEMMA FindMetaOne == ASSUME IInv, OneInv, NEW r \in Request, FindMeta(r) PROVE OneInv'
PROOF
<1> DEFINE p == IF meta = None THEN AfterAppend(th[r].role) ELSE "bumpMeta"
<1> DEFINE t == [th[r] EXCEPT !.snap = meta, !.pc = p]
<1>1. th[r] \in Thread /\ Good(r, th[r], recorded, seen.pushed, seen.dropped)
  BY DEF IInv, TypeOK, ThreadsInv
<1>2. th' = [th EXCEPT ![r] = t] /\ t.pc \notin Holders \union {"legacy"}
  BY <1>1 DEF FindMeta, At, Goto, Become, Good, Thread, Holders, AfterAppend
<1>3. claim' = claim /\ made' \in {made, made + 1} /\ seen'.defaults = seen.defaults
  BY DEF FindMeta, store, IInv, SeenOK
<1>4. Present' = Present
  BY DEF FindMeta, store, Present
<1>5. Excused => Excused'
  BY DEF FindMeta, Excused
<1> HIDE DEF t
<1> QED BY <1>2, <1>3, <1>4, <1>5, OffStep

LEMMA BumpMetaOne == ASSUME IInv, OneInv, NEW r \in Request, BumpMeta(r) PROVE OneInv'
PROOF
<1> DEFINE p == AfterAppend(th[r].role)
<1> DEFINE t == [th[r] EXCEPT !.pc = p]
<1>1. th[r] \in Thread /\ Good(r, th[r], recorded, seen.pushed, seen.dropped)
  BY DEF IInv, TypeOK, ThreadsInv
<1>2. th' = [th EXCEPT ![r] = t] /\ t.pc \notin Holders \union {"legacy"}
  BY <1>1 DEF BumpMeta, At, Goto, Become, Good, Thread, Holders, AfterAppend
<1>3. claim' = claim /\ made' \in {made, made + 1} /\ seen'.defaults = seen.defaults
  BY DEF BumpMeta, store, IInv, SeenOK
<1>4. Present' = Present
  BY DEF BumpMeta, store, Present
<1>5. Excused => Excused'
  BY DEF BumpMeta, Excused
<1> HIDE DEF t
<1> QED BY <1>2, <1>3, <1>4, <1>5, OffStep

LEMMA GenerateOne == ASSUME IInv, OneInv, NEW r \in Request, Generate(r) PROVE OneInv'
PROOF
<1> DEFINE t == [th[r] EXCEPT !.role = "assistant", !.pc = "push"]
<1>1. th[r] \in Thread /\ Good(r, th[r], recorded, seen.pushed, seen.dropped)
  BY DEF IInv, TypeOK, ThreadsInv
<1>2. th' = [th EXCEPT ![r] = t] /\ t.pc \notin Holders \union {"legacy"}
  BY <1>1 DEF Generate, At, Goto, Become, Good, Thread, Holders
<1>3. claim' = claim /\ made' \in {made, made + 1} /\ seen'.defaults = seen.defaults
  BY DEF Generate, store, IInv, SeenOK
<1>4. Present' = Present
  BY DEF Generate, store, Present
<1>5. Excused => Excused'
  BY DEF Generate, Excused
<1> HIDE DEF t
<1> QED BY <1>2, <1>3, <1>4, <1>5, OffStep

LEMMA RefuseOne == ASSUME IInv, OneInv, NEW r \in Request, Refuse(r) PROVE OneInv'
PROOF
<1> DEFINE t == [th[r] EXCEPT !.role = "assistant", !.pc = "push"]
<1>1. th[r] \in Thread /\ Good(r, th[r], recorded, seen.pushed, seen.dropped)
  BY DEF IInv, TypeOK, ThreadsInv
<1>2. th' = [th EXCEPT ![r] = t] /\ t.pc \notin Holders \union {"legacy"}
  BY <1>1 DEF Refuse, At, Goto, Become, Good, Thread, Holders
<1>3. claim' = claim /\ made' \in {made, made + 1} /\ seen'.defaults = seen.defaults
  BY DEF Refuse, store, IInv, SeenOK
<1>4. Present' = Present
  BY DEF Refuse, store, Present
<1>5. Excused => Excused'
  BY DEF Refuse, Excused
<1> HIDE DEF t
<1> QED BY <1>2, <1>3, <1>4, <1>5, OffStep

LEMMA ClientLeavesOne == ASSUME IInv, OneInv, NEW r \in Request, ClientLeaves(r) PROVE OneInv'
PROOF
<1> DEFINE t == [th[r] EXCEPT !.pc = "done"]
<1>1. th[r] \in Thread /\ Good(r, th[r], recorded, seen.pushed, seen.dropped)
  BY DEF IInv, TypeOK, ThreadsInv
<1>2. th' = [th EXCEPT ![r] = t] /\ t.pc \notin Holders \union {"legacy"}
  BY <1>1 DEF ClientLeaves, At, Goto, Become, Good, Thread, Holders
<1>3. claim' = claim /\ made' \in {made, made + 1} /\ seen'.defaults = seen.defaults
  BY DEF ClientLeaves, store, IInv, SeenOK
<1>4. Present' = Present
  BY DEF ClientLeaves, store, Present
<1>5. Excused => Excused'
  BY DEF ClientLeaves, Excused
<1> HIDE DEF t
<1> QED BY <1>2, <1>3, <1>4, <1>5, OffStep

LEMMA BeginOne == ASSUME IInv, OneInv, NEW r \in Request, Begin(r) PROVE OneInv'
PROOF
<1>1. claim' = claim /\ made' = made /\ seen' = seen /\ Present' = Present /\ th[r] \in Thread
  BY DEF Begin, store, Present, IInv, TypeOK
<1>2. Excused => Excused'
  BY <1>1 DEF Excused
<1>3. PICK t : th' = [th EXCEPT ![r] = t] /\ t.pc \notin Holders \union {"legacy"}
  <2>1. CASE Goto(r, "done")
    <3>1. [th[r] EXCEPT !.pc = "done"].pc = "done"
      BY <1>1 DEF Thread
    <3> QED BY <2>1, <3>1 DEF Goto, Become, Holders
  <2>2. ASSUME NEW op \in Ops[r], NEW F \in SUBSET File, NEW c \in Present \union {None},
               Become(r, [IdleThread EXCEPT !.op = op, !.pc = FirstPc(op, c), !.conv = c, !.arg = F])
        PROVE  \E t : th' = [th EXCEPT ![r] = t] /\ t.pc \notin Holders \union {"legacy"}
    <3> DEFINE p == FirstPc(op, c)
    <3>1. op \in AllOps
      BY SessionsAssumption
    <3>2. p \in {"meta", "resolve", "model", "rename", "stamp", "ids"}
      BY <3>1 DEF FirstPc, AllOps
    <3> HIDE DEF p
    <3>3. [IdleThread EXCEPT !.op = op, !.pc = p, !.conv = c, !.arg = F].pc = p
      BY DEF IdleThread
    <3> QED BY <2>2, <3>2, <3>3 DEF Become, Holders, p
  <2> QED BY <2>1, <2>2 DEF Begin
<1> QED BY <1>1, <1>2, <1>3, OffStep

LEMMA DropMessagesOne == ASSUME IInv, OneInv, NEW r \in Request, DropMessages(r) PROVE OneInv'
PROOF
<1>1. claim' = claim /\ made' = made /\ seen' = seen /\ Present' = Present /\ th[r] \in Thread
  BY DEF DropMessages, Present, IInv, TypeOK
<1>2. [th[r] EXCEPT !.pc = "done"].pc \notin Holders \union {"legacy"}
  BY <1>1 DEF Thread, Holders
<1>3. (Excused => Excused') /\ th' = [th EXCEPT ![r] = [th[r] EXCEPT !.pc = "done"]]
  BY <1>1 DEF Excused, DropMessages, Goto, Become
<1> QED BY <1>1, <1>2, <1>3, OffStep

LEMMA DeleteListOne == ASSUME IInv, OneInv, NEW r \in Request, DeleteList(r) PROVE OneInv'
PROOF
<1>1. /\ claim' = claim /\ made' = made /\ Present' = Present /\ th[r] \in Thread /\ th[r].pc = "delLists"
      /\ seen'.defaults = seen.defaults
      /\ seen'.gaveUp = seen.gaveUp /\ seen'.expired = seen.expired /\ seen'.emptied = seen.emptied
  BY DEF DeleteList, At, Present, IInv, TypeOK, SeenOK
<1>2. Excused => Excused'
  BY <1>1 DEF Excused
<1>3. PICK t : th' = [th EXCEPT ![r] = t] /\ t.pc \notin Holders \union {"legacy"}
  BY <1>1 DEF DeleteList, Goto, Become, Thread, Holders
<1> QED BY <1>1, <1>2, <1>3, OffStep

LEMMA PushMessageOne == ASSUME IInv, OneInv, NEW r \in Request, PushMessage(r) PROVE OneInv'
PROOF
<1>1. /\ claim' = claim /\ made' = made /\ Present' = Present /\ th[r] \in Thread
      /\ seen'.defaults = seen.defaults
      /\ seen'.gaveUp = seen.gaveUp /\ seen'.expired = seen.expired /\ seen'.emptied = seen.emptied
  BY DEF PushMessage, Present, IInv, TypeOK, SeenOK
<1>2. [th[r] EXCEPT !.pc = "findConv"].pc \notin Holders \union {"legacy"}
  BY <1>1 DEF Thread, Holders
<1>3. (Excused => Excused') /\ th' = [th EXCEPT ![r] = [th[r] EXCEPT !.pc = "findConv"]]
  BY <1>1 DEF Excused, PushMessage, Goto, Become
<1> QED BY <1>1, <1>2, <1>3, OffStep

\* A thread that finds a default goes where its operation does.
LEMMA ResolvedOff ==
  ASSUME IInv, NEW r \in Request, NEW c, th[r].pc \in Resolving
  PROVE  Resolved(r, c).pc \notin Holders \union {"legacy"}
PROOF
<1>1. th[r] \in Thread /\ Good(r, th[r], recorded, seen.pushed, seen.dropped)
  BY DEF IInv, TypeOK, ThreadsInv
<1>2. AfterResolve(th[r].op) \in {"done", "update", "guard", "model"}
  BY <1>1 DEF Good, AfterResolve
<1>3. Resolved(r, c).pc = AfterResolve(th[r].op)
  BY <1>1 DEF Resolved, Thread
<1> QED BY <1>2, <1>3 DEF Holders

LEMMA LookForDefaultOne == ASSUME IInv, OneInv, NEW r \in Request, LookForDefault(r) PROVE OneInv'
PROOF
<1>1. claim' = claim /\ made' = made /\ seen' = seen /\ Present' = Present /\ th[r].pc \in Resolving
  BY DEF LookForDefault, store, Present, At, Resolving
<1>2. th[r] \in Thread /\ (Excused => Excused')
  BY <1>1 DEF IInv, TypeOK, Excused
<1>3. PICK t : th' = [th EXCEPT ![r] = t] /\ t.pc \notin Holders \union {"legacy"}
  <2>1. CASE \E c \in Oldest : Become(r, Resolved(r, c))
    BY <1>1, <2>1, ResolvedOff DEF Become
  <2>2. CASE Goto(r, "lock")
    <3>1. [th[r] EXCEPT !.pc = "lock"].pc = "lock"
      BY <1>2 DEF Thread
    <3> QED BY <2>2, <3>1 DEF Goto, Become, Holders
  <2> QED BY <2>1, <2>2 DEF LookForDefault
<1> QED BY <1>1, <1>2, <1>3, OffStep

\* Only a thread that finds no conversation goes on to make a default.
LEMMA RecheckDefaultOne == ASSUME IInv, OneInv, NEW r \in Request, RecheckDefault(r) PROVE OneInv'
PROOF
<1>1. claim' = claim /\ made' = made /\ seen' = seen /\ Present' = Present /\ th[r].pc \in Resolving
  BY DEF RecheckDefault, store, Present, At, Resolving
<1>2. th[r] \in Thread /\ (Excused' <=> Excused)
  BY <1>1 DEF IInv, TypeOK, Excused
<1>3. CASE \E c \in Oldest : Become(r, Resolved(r, c))
  <2>1. PICK t : th' = [th EXCEPT ![r] = t] /\ t.pc \notin Holders \union {"legacy"}
    BY <1>1, <1>3, ResolvedOff DEF Become
  <2> QED BY <1>1, <1>2, <2>1, OffStep
<1>4. CASE Present = {} /\ Goto(r, "legacy")
  <2>1. th'[r].pc = "legacy" /\ \A q \in Request \ {r} : th'[q] = th[q]
    BY <1>2, <1>4 DEF Goto, Become, IInv, TypeOK, Thread
  <2>2. OwnInv'
    BY <1>1, <2>1 DEF OneInv, OwnInv, Holders
  <2>3. ClaimInv => ClaimInv'
    BY <1>1, <1>4, <2>1 DEF ClaimInv
  <2> QED BY <1>2, <2>2, <2>3 DEF OneInv
<1> QED BY <1>3, <1>4 DEF RecheckDefault

LEMMA ReadLegacyOne == ASSUME IInv, OneInv, NEW r \in Request, ReadLegacy(r) PROVE OneInv'
PROOF
<1>1. claim' = claim /\ made' = made + 1 /\ seen' = seen /\ Present' = Present /\ th[r].pc = "legacy"
  BY DEF ReadLegacy, store, Present, At
<1>2. th[r] \in Thread /\ made \in Int /\ (Excused' <=> Excused)
  BY <1>1 DEF IInv, TypeOK, Excused
<1>3. \A q \in Request : th[q].pc \in Holders => th[q].own \in Int
  BY OwnIsNumber DEF IInv
<1>4. /\ th'[r].pc \in {"claim", "copy"} /\ th'[r].own = made + 1
      /\ \A q \in Request \ {r} : th'[q] = th[q]
  BY <1>2 DEF ReadLegacy, Become, IInv, TypeOK, Thread
<1>5. OwnInv'
  BY <1>1, <1>2, <1>3, <1>4 DEF OneInv, OwnInv
<1>6. ClaimInv => ClaimInv'
  BY <1>1, <1>4 DEF ClaimInv
<1> QED BY <1>2, <1>5, <1>6 DEF OneInv

LEMMA CopyLegacyOne == ASSUME IInv, OneInv, NEW r \in Request, CopyLegacy(r) PROVE OneInv'
PROOF
<1>1. claim' = claim /\ made' = made /\ seen' = seen /\ Present' = Present /\ th[r].pc = "copy"
  BY DEF CopyLegacy, Present, At
<1>2. th[r] \in Thread /\ (Excused' <=> Excused)
  BY <1>1 DEF IInv, TypeOK, Excused
<1>3. /\ th'[r].pc = "claim" /\ th'[r].own = th[r].own
      /\ \A q \in Request \ {r} : th'[q] = th[q]
  BY <1>2 DEF CopyLegacy, Goto, Become, IInv, TypeOK, Thread
<1>4. OwnInv'
  BY <1>1, <1>3 DEF OneInv, OwnInv, Holders
<1>5. ClaimInv => ClaimInv'
  BY <1>1, <1>3 DEF ClaimInv
<1> QED BY <1>2, <1>4, <1>5 DEF OneInv

\* The claim is taken by one thread; nobody can once a default is saved.
LEMMA ClaimOne == ASSUME IInv, OneInv, NEW r \in Request, Claim(r) PROVE OneInv'
PROOF
<1>1. made' = made /\ seen' = seen /\ Present' = Present /\ th[r].pc = "claim"
  BY DEF Claim, store, Present, At
<1>2. th[r] \in Thread /\ (Excused' <=> Excused) /\ th[r].own \in ConvIds
  BY <1>1 DEF IInv, TypeOK, ThreadsInv, Good, Excused
<1>3. CASE claim = None /\ claim' = th[r].own /\ Goto(r, "saveDefault")
  <2>1. /\ th'[r].pc = "saveDefault" /\ th'[r].own = th[r].own
        /\ \A q \in Request \ {r} : th'[q] = th[q]
    BY <1>2, <1>3 DEF Goto, Become, IInv, TypeOK, Thread
  <2>2. OwnInv'
    BY <1>1, <2>1 DEF OneInv, OwnInv, Holders
  <2>3. ASSUME ClaimInv PROVE ClaimInv'
    <3>1. seen.defaults = {}
      BY <1>1, <1>3, <2>3 DEF ClaimInv
    <3>2. \A q \in Request : th[q].pc # "saveDefault"
      <4>1. \A q \in Request : th[q].pc = "saveDefault" => th[q].own \in ConvIds
        BY DEF IInv, ThreadsInv, Good
      <4> QED BY <1>3, <2>3, <4>1, SessionsAssumption DEF ClaimInv, ConvIds
    <3> QED BY <1>1, <1>3, <2>1, <3>1, <3>2 DEF ClaimInv
  <2> QED BY <1>2, <2>2, <2>3 DEF OneInv
<1>4. CASE UNCHANGED claim /\ Become(r, [th[r] EXCEPT !.pc = "wait", !.tries = 0])
  <2>1. /\ th'[r].pc = "wait" /\ th'[r].own = th[r].own
        /\ \A q \in Request \ {r} : th'[q] = th[q]
    BY <1>2, <1>4 DEF Become, IInv, TypeOK, Thread
  <2>2. OwnInv'
    BY <1>1, <2>1 DEF OneInv, OwnInv, Holders
  <2>3. ClaimInv => ClaimInv'
    BY <1>1, <1>4, <2>1 DEF ClaimInv
  <2> QED BY <1>2, <2>2, <2>3 DEF OneInv
<1> QED BY <1>3, <1>4 DEF Claim

LEMMA WaitForWinnerOne == ASSUME IInv, OneInv, NEW r \in Request, WaitForWinner(r) PROVE OneInv'
PROOF
<1>1. claim' = claim /\ made' = made /\ Present' = Present /\ th[r].pc = "wait" /\ th[r] \in Thread
  BY DEF WaitForWinner, store, Present, At, IInv, TypeOK
<1>2. CASE Goto(r, "saveDefault") /\ seen' = [seen EXCEPT !.gaveUp = TRUE]
  <2>1. /\ th'[r].pc = "saveDefault" /\ th'[r].own = th[r].own
        /\ \A q \in Request \ {r} : th'[q] = th[q]
    BY <1>1, <1>2 DEF Goto, Become, IInv, TypeOK, Thread
  <2>2. OwnInv'
    BY <1>1, <2>1 DEF OneInv, OwnInv, Holders
  <2>3. seen'.gaveUp = TRUE
    BY <1>2 DEF IInv, SeenOK
  <2> QED BY <2>2, <2>3 DEF OneInv, Excused
<1>3. CASE seen' = seen /\ \E c \in Oldest : Become(r, Resolved(r, c))
  <2>1. PICK t : th' = [th EXCEPT ![r] = t] /\ t.pc \notin Holders \union {"legacy"}
    <3>1. th[r].pc \in Resolving
      BY <1>1 DEF Resolving
    <3> QED BY <1>3, <3>1, ResolvedOff DEF Become
  <2>2. Excused => Excused'
    BY <1>3 DEF Excused
  <2> QED BY <1>1, <1>3, <2>1, <2>2, OffStep
<1>4. CASE seen' = seen /\ Become(r, [th[r] EXCEPT !.tries = @ + 1])
  <2>1. /\ th'[r].pc = "wait" /\ th'[r].own = th[r].own
        /\ \A q \in Request \ {r} : th'[q] = th[q]
    BY <1>1, <1>4 DEF Become, IInv, TypeOK, Thread
  <2>2. OwnInv'
    BY <1>1, <2>1 DEF OneInv, OwnInv, Holders
  <2>3. ClaimInv => ClaimInv'
    BY <1>1, <1>4, <2>1 DEF ClaimInv
  <2>4. Excused' <=> Excused
    BY <1>4 DEF Excused
  <2> QED BY <2>2, <2>3, <2>4 DEF OneInv
<1> QED BY <1>2, <1>3, <1>4 DEF WaitForWinner

\* The holder of the claim saves; nobody saved before and nobody else is about to.
LEMMA SaveDefaultOne == ASSUME IInv, OneInv, NEW r \in Request, SaveDefault(r) PROVE OneInv'
PROOF
<1> DEFINE own == th[r].own
<1> DEFINE rec == NewConv(IF th[r].old = <<>> THEN own ELSE 0, Len(th[r].old))
<1>1. claim' = claim /\ made' = made /\ th[r].pc = "saveDefault" /\ th[r] \in Thread
      /\ th' = [th EXCEPT ![r] = Resolved(r, own)] /\ convs' = [convs EXCEPT ![own] = rec]
  BY DEF SaveDefault, Become, Save, At, IInv, TypeOK
<1>2. /\ seen'.defaults = seen.defaults \union {own}
      /\ seen'.gaveUp = seen.gaveUp /\ seen'.expired = seen.expired /\ seen'.emptied = seen.emptied
  BY DEF SaveDefault, IInv, SeenOK
<1>3. own \in ConvIds /\ Resolved(r, own).pc \notin Holders \union {"legacy"}
  <2>1. th[r].pc \in Holders /\ th[r].pc \in Resolving
    BY <1>1 DEF Holders, Resolving
  <2> QED BY <2>1, OwnIsNumber, ResolvedOff DEF IInv
<1>4. th'[r] = Resolved(r, own) /\ \A q \in Request \ {r} : th'[q] = th[q]
  BY <1>1 DEF IInv, TypeOK
<1>5. rec # None
  <2>1. rec \in ConvRecs
    BY <1>1, <1>3 DEF NewConv, ConvRecs, Titles, Thread, ConvIds
  <2> QED BY <2>1, SessionsAssumption DEF ConvRecs, Titles
<1>6. Present' # {}
  <2> HIDE DEF own, rec
  <2> QED BY <1>1, <1>3, <1>5 DEF Present, IInv, TypeOK
<1>7. OwnInv'
  BY <1>1, <1>3, <1>4 DEF OneInv, OwnInv
<1>8. Excused' <=> Excused
  BY <1>2 DEF Excused
<1>9. ASSUME ClaimInv PROVE ClaimInv'
  <2>1. seen.defaults = {} /\ claim = own
    BY <1>1, <1>9 DEF ClaimInv
  <2>2. \A q \in Request \ {r} : th[q].pc # "saveDefault"
    <3> SUFFICES ASSUME NEW q \in Request \ {r}, th[q].pc = "saveDefault" PROVE FALSE
      OBVIOUS
    <3>1. th[q].own = own
      BY <1>9, <2>1 DEF ClaimInv
    <3> QED BY <1>1, <3>1 DEF OneInv, OwnInv, Holders
  <2>3. claim # None
    BY <1>3, <2>1, SessionsAssumption DEF ConvIds
  <2>4. seen'.defaults = {own}
    BY <1>2, <2>1
  <2> HIDE DEF own
  <2> QED BY <1>1, <1>3, <1>4, <1>6, <2>2, <2>3, <2>4 DEF ClaimInv, Holders
<1> QED BY <1>7, <1>8, <1>9 DEF OneInv

LEMMA ClaimExpiresOne == ASSUME IInv, OneInv, ClaimExpires PROVE OneInv'
PROOF
<1>1. made' = made /\ th' = th /\ Present' = Present
  BY DEF ClaimExpires, store, Present
<1>2. /\ seen'.defaults = seen.defaults /\ seen'.gaveUp = seen.gaveUp /\ seen'.emptied = seen.emptied
      /\ seen'.expired = (seen.expired \/ \E r \in Request : th[r].pc \in {"legacy", "copy", "claim", "saveDefault"})
  BY DEF ClaimExpires, IInv, SeenOK
<1>3. OwnInv'
  BY <1>1 DEF OneInv, OwnInv
<1>4. Excused => Excused'
  BY <1>2 DEF Excused
<1>5. ASSUME ClaimInv, ~Excused' PROVE ClaimInv'
  <2>1. \A r \in Request : th[r].pc \notin {"legacy", "copy", "claim", "saveDefault"}
    BY <1>2, <1>5 DEF Excused
  <2> QED BY <1>1, <1>2, <1>5, <2>1 DEF ClaimInv
<1> QED BY <1>3, <1>4, <1>5 DEF OneInv

LEMMA StepOne == IInv /\ OneInv /\ [Next]_vars => OneInv'
PROOF
<1> SUFFICES ASSUME IInv, OneInv, [Next]_vars PROVE OneInv'
  OBVIOUS
<1>1. CASE UNCHANGED vars
  BY <1>1 DEF vars, store, OneInv, OwnInv, ClaimInv, Excused, Present
<1>2. CASE ClaimExpires
  BY <1>2, ClaimExpiresOne
<1>3. ASSUME NEW r \in Request, Step(r) \/ ClientLeaves(r) PROVE OneInv'
  BY <1>3, BeginOne, ReadMetaOne, LookForDefaultOne, TakeLockOne, RecheckDefaultOne, ReadLegacyOne,
     CopyLegacyOne, ClaimOne, WaitForWinnerOne, SaveDefaultOne, UpdateOne, ListForStampOne, StampOne,
     CreateConversationOne, FindForRenameOne, RenameOne, GuardDeleteOne, DropConversationOne,
     DropMessagesOne, ListIdsOne, DeleteMetaOne, DeleteConvsOne, DeleteListOne, CheckModelOne,
     RejectModelOne, PushMessageOne, FindConversationOne, BumpConversationOne, FindMetaOne,
     BumpMetaOne, GenerateOne, RefuseOne, ClientLeavesOne, Zenon
     DEF Step
<1> QED BY <1>1, <1>2, <1>3 DEF Next

\* The claim in Redis makes one request create the default conversation, whatever
\* processes look for it at once, unless a loser gave up waiting, the claim ran out
\* under a thread on its way, or deletions left no conversation.
THEOREM OneDefaultOnly == Spec => []OneDefault
PROOF
<1>1. Init => OneInv
  BY DEF Init, OneInv, OwnInv, ClaimInv, Holders, IdleThread
<1>2. OneInv => OneDefault
  <2>1. Cardinality({}) = 0 /\ \A c : Cardinality({c}) = 1
    BY FS_EmptySet, FS_Singleton
  <2>2. ASSUME ClaimInv PROVE Cardinality(seen.defaults) <= 1
    <3>1. CASE seen.defaults = {}
      BY <2>1, <3>1
    <3>2. CASE \E c \in ConvIds : seen.defaults = {c}
      <4>1. PICK c \in ConvIds : seen.defaults = {c}
        BY <3>2
      <4>2. Cardinality(seen.defaults) = 1
        BY <2>1, <4>1
      <4> QED BY <4>2
    <3> QED BY <2>2, <3>1, <3>2 DEF ClaimInv
  <2> QED BY <2>2 DEF OneInv, Excused, OneDefault
<1> QED BY <1>1, <1>2, SessionsTypes, StepOne, PTL DEF Spec

-----------------------------------------------------------------------------
(* Requests that are served one at a time are steps of Project.              *)

\* What the thread of the only request knows of the project: what it read is
\* still so, and its question is the last message where its answer will go.
Alone(r, t) ==
  /\ t.pc \in {"delConvs", "delLists"} <=> meta = None
  /\ t.op \in {"attach", "detach"} => \E f \in File : t.arg = {f}
  /\ t.op \notin {"attach", "detach", "update"} => t.arg = {}
  /\ t.pc \in AfterPush \union {"model", "push", "generate"} => t.op = "chat"
  /\ t.pc \in {"guard", "hdel"} => t.op = "delConv"
  /\ t.pc = "create" => t.op = "newConv"
  /\ t.pc \in {"ids", "delMeta"} => t.op = "delSession"
  /\ t.op \in {"attach", "detach", "update"} /\ t.pc \in Resolving \union {"update"} => t.snap = meta
  /\ t.pc \in {"stampSave", "bumpMeta"} => t.snap = meta
  /\ t.conv # None => t.conv <= made
  /\ t.pc \in Holders \union {"legacy"} => Present = {}
  /\ t.pc \in Holders => t.own <= made
  /\ t.pc = "copy" => t.old = legacy /\ msgs[t.own] = <<>>
  /\ t.pc \in Holders \ {"copy"} => msgs[t.own] = legacy
  /\ t.pc \in AfterPush \union {"model", "push", "generate", "renameSave", "hdel"} => t.conv \in Present
  /\ t.pc = "hdel" => Cardinality(Present) > 1
  /\ t.pc = "delete" => t.conv \notin Present
  /\ (t.pc \in AfterPush /\ t.role = "user") \/ t.pc = "generate" \/ (t.pc = "push" /\ t.role = "assistant")
       => msgs[t.conv] # <<>> /\ msgs[t.conv][Len(msgs[t.conv])] = Message(r, "user")

\* No conversation has an id that is still to be given.
FreshInv == \A c \in ConvIds : c > made => convs[c] = None /\ msgs[c] = <<>>

AloneInv ==
  serial => /\ \A q, r \in Request : Active(q) /\ Active(r) => q = r
            /\ \A r \in Request : Active(r) => Alone(r, th[r])
            /\ FreshInv

\* A step keeps the invariant and is one of Project or changes nothing it shows.
Follows == AloneInv' /\ (P!Next \/ UNCHANGED <<meta, convs, msgs>>)

LEMMA AloneStep ==
  ASSUME IInv, AloneInv, serial, serial' = serial, NEW r \in Request, NEW t, th' = [th EXCEPT ![r] = t],
         Active(r) \/ \A q \in Request : ~Active(q),
         t.pc \notin {"idle", "done"} => Alone(r, t)', FreshInv'
  PROVE  AloneInv'
PROOF
<1>1. th'[r] = t /\ \A q \in Request \ {r} : th'[q] = th[q]
  BY DEF IInv, TypeOK
<1>2. \A q \in Request \ {r} : ~Active(q)
  BY DEF AloneInv
<1>3. \A q \in Request \ {r} : ~Active(q)'
  BY <1>1, <1>2 DEF Active
<1>4. Active(r)' => Alone(r, th[r])'
  <2>1. Active(r)' => t.pc \notin {"idle", "done"}
    BY <1>1 DEF Active
  <2> QED BY <1>1, <2>1 DEF Alone
<1> QED BY <1>3, <1>4 DEF AloneInv

\* A step that changes nothing but its thread.
LEMMA QuietAlone ==
  ASSUME IInv, AloneInv, serial, serial' = serial, NEW r \in Request, NEW t, th' = [th EXCEPT ![r] = t],
         UNCHANGED <<store, made>>, Active(r) \/ \A q \in Request : ~Active(q),
         t.pc \notin {"idle", "done"} => Alone(r, t)
  PROVE  Follows
PROOF
<1>1. FreshInv'
  BY DEF AloneInv, FreshInv, store
<1>2. t.pc \notin {"idle", "done"} => Alone(r, t)'
  BY DEF Alone, Present, store
<1> QED BY <1>1, <1>2, AloneStep DEF Follows, store

\* What a step may use of its thread.
LEMMA AloneFacts ==
  ASSUME IInv, AloneInv, serial, NEW r \in Request, th[r].pc \notin {"idle", "done"}
  PROVE  /\ th[r] \in Thread /\ Good(r, th[r], recorded, seen.pushed, seen.dropped)
         /\ Active(r) /\ Alone(r, th[r]) /\ FreshInv
BY DEF IInv, TypeOK, ThreadsInv, AloneInv, Active


LEMMA PresentIsFinite == IsFiniteSet(Present) /\ Cardinality(Present) \in Nat
PROOF
<1>1. MaxConvs \in Nat /\ Present \subseteq 1 .. MaxConvs
  BY SessionsAssumption DEF Present, ConvIds
<1>2. IsFiniteSet(1 .. MaxConvs)
  BY <1>1, FS_Interval
<1>3. IsFiniteSet(Present)
  BY <1>1, <1>2, FS_Subset
<1> QED BY <1>3, FS_CardinalityType

LEMMA ReadMetaAlone == ASSUME IInv, AloneInv, serial, NEW r \in Request, ReadMeta(r) PROVE Follows
PROOF
<1> DEFINE t == [th[r] EXCEPT !.snap = meta, !.pc = IF meta = None THEN "done" ELSE AfterMeta(th[r].op)]
<1>1. th[r].pc = "meta" /\ th' = [th EXCEPT ![r] = t] /\ UNCHANGED <<store, made, serial>>
  BY DEF ReadMeta, At, Goto, Become
<1>2. th[r] \in Thread /\ Good(r, th[r], recorded, seen.pushed, seen.dropped) /\ Active(r) /\ Alone(r, th[r])
  BY <1>1, AloneFacts
<1>3. t.pc \notin {"idle", "done"} => Alone(r, t)
  BY <1>1, <1>2 DEF Thread, Good, Alone, Resolving, AfterPush, Holders, AfterMeta
<1> QED BY <1>1, <1>2, <1>3, QuietAlone

LEMMA TakeLockAlone == ASSUME IInv, AloneInv, serial, NEW r \in Request, TakeLock(r) PROVE Follows
PROOF
<1> DEFINE t == [th[r] EXCEPT !.pc = "recheck"]
<1>1. th[r].pc = "lock" /\ th' = [th EXCEPT ![r] = t] /\ UNCHANGED <<store, made, serial>>
  BY DEF TakeLock, At, Goto, Become
<1>2. th[r] \in Thread /\ Good(r, th[r], recorded, seen.pushed, seen.dropped) /\ Active(r) /\ Alone(r, th[r])
  BY <1>1, AloneFacts
<1>3. t.pc \notin {"idle", "done"} => Alone(r, t)
  BY <1>1, <1>2 DEF Thread, Good, Alone, Resolving, AfterPush, Holders
<1> QED BY <1>1, <1>2, <1>3, QuietAlone

LEMMA ListForStampAlone == ASSUME IInv, AloneInv, serial, NEW r \in Request, ListForStamp(r) PROVE Follows
PROOF
<1> DEFINE t == [th[r] EXCEPT !.snap = meta, !.pc = IF meta = None \/ (meta # None /\ meta.workspace) THEN "done" ELSE "stampSave"]
<1>1. th[r].pc = "stamp" /\ th' = [th EXCEPT ![r] = t] /\ UNCHANGED <<store, made, serial>>
  BY DEF ListForStamp, At, Goto, Become
<1>2. th[r] \in Thread /\ Good(r, th[r], recorded, seen.pushed, seen.dropped) /\ Active(r) /\ Alone(r, th[r])
  BY <1>1, AloneFacts
<1>3. t.pc \notin {"idle", "done"} => Alone(r, t)
  BY <1>1, <1>2 DEF Thread, Good, Alone, Resolving, AfterPush, Holders
<1> QED BY <1>1, <1>2, <1>3, QuietAlone

LEMMA ListIdsAlone == ASSUME IInv, AloneInv, serial, NEW r \in Request, ListIds(r) PROVE Follows
PROOF
<1> DEFINE t == [th[r] EXCEPT !.read = Present, !.pc = "delMeta"]
<1>1. th[r].pc = "ids" /\ th' = [th EXCEPT ![r] = t] /\ UNCHANGED <<store, made, serial>>
  BY DEF ListIds, At, Goto, Become
<1>2. th[r] \in Thread /\ Good(r, th[r], recorded, seen.pushed, seen.dropped) /\ Active(r) /\ Alone(r, th[r])
  BY <1>1, AloneFacts
<1>3. t.pc \notin {"idle", "done"} => Alone(r, t)
  BY <1>1, <1>2 DEF Thread, Good, Alone, Resolving, AfterPush, Holders
<1> QED BY <1>1, <1>2, <1>3, QuietAlone

LEMMA GuardDeleteAlone == ASSUME IInv, AloneInv, serial, NEW r \in Request, GuardDelete(r) PROVE Follows
PROOF
<1> DEFINE t == [th[r] EXCEPT !.pc = IF Cardinality(Present) <= 1 \/ th[r].conv \notin Present THEN "done" ELSE "hdel"]
<1>1. th[r].pc = "guard" /\ th' = [th EXCEPT ![r] = t] /\ UNCHANGED <<store, made, serial>>
  BY DEF GuardDelete, At, Goto, Become
<1>2. th[r] \in Thread /\ Good(r, th[r], recorded, seen.pushed, seen.dropped) /\ Active(r) /\ Alone(r, th[r])
  BY <1>1, AloneFacts
<1>3. t.pc \notin {"idle", "done"} => Alone(r, t)
  BY <1>1, <1>2, PresentIsFinite DEF Thread, Good, Alone, Resolving, AfterPush, Holders
<1> QED BY <1>1, <1>2, <1>3, QuietAlone

LEMMA CheckModelAlone == ASSUME IInv, AloneInv, serial, NEW r \in Request, CheckModel(r) PROVE Follows
PROOF
<1> DEFINE t == [th[r] EXCEPT !.pc = "push"]
<1>1. th[r].pc = "model" /\ th' = [th EXCEPT ![r] = t] /\ UNCHANGED <<store, made, serial>>
  BY DEF CheckModel, At, Goto, Become
<1>2. th[r] \in Thread /\ Good(r, th[r], recorded, seen.pushed, seen.dropped) /\ Active(r) /\ Alone(r, th[r])
  BY <1>1, AloneFacts
<1>3. t.pc \notin {"idle", "done"} => Alone(r, t)
  BY <1>1, <1>2 DEF Thread, Good, Alone, Resolving, AfterPush, Holders
<1> QED BY <1>1, <1>2, <1>3, QuietAlone

LEMMA RejectModelAlone == ASSUME IInv, AloneInv, serial, NEW r \in Request, RejectModel(r) PROVE Follows
PROOF
<1> DEFINE t == [th[r] EXCEPT !.pc = "done"]
<1>1. th[r].pc = "model" /\ th' = [th EXCEPT ![r] = t] /\ UNCHANGED <<store, made, serial>>
  BY DEF RejectModel, At, Goto, Become
<1>2. th[r] \in Thread /\ Good(r, th[r], recorded, seen.pushed, seen.dropped) /\ Active(r) /\ Alone(r, th[r])
  BY <1>1, AloneFacts
<1>3. t.pc \notin {"idle", "done"} => Alone(r, t)
  BY <1>1, <1>2 DEF Thread, Good, Alone, Resolving, AfterPush, Holders
<1> QED BY <1>1, <1>2, <1>3, QuietAlone

LEMMA FindMetaAlone == ASSUME IInv, AloneInv, serial, NEW r \in Request, FindMeta(r) PROVE Follows
PROOF
<1> DEFINE t == [th[r] EXCEPT !.snap = meta, !.pc = IF meta = None THEN AfterAppend(th[r].role) ELSE "bumpMeta"]
<1>1. th[r].pc = "findMeta" /\ th' = [th EXCEPT ![r] = t] /\ UNCHANGED <<store, made, serial>>
  BY DEF FindMeta, At, Goto, Become
<1>2. th[r] \in Thread /\ Good(r, th[r], recorded, seen.pushed, seen.dropped) /\ Active(r) /\ Alone(r, th[r])
  BY <1>1, AloneFacts
<1>3. t.pc \notin {"idle", "done"} => Alone(r, t)
  BY <1>1, <1>2 DEF Thread, Good, Alone, Resolving, AfterPush, Holders, AfterAppend
<1> QED BY <1>1, <1>2, <1>3, QuietAlone

LEMMA GenerateAlone == ASSUME IInv, AloneInv, serial, NEW r \in Request, Generate(r) PROVE Follows
PROOF
<1> DEFINE t == [th[r] EXCEPT !.role = "assistant", !.pc = "push"]
<1>1. th[r].pc = "generate" /\ th' = [th EXCEPT ![r] = t] /\ UNCHANGED <<store, made, serial>>
  BY DEF Generate, At, Goto, Become
<1>2. th[r] \in Thread /\ Good(r, th[r], recorded, seen.pushed, seen.dropped) /\ Active(r) /\ Alone(r, th[r])
  BY <1>1, AloneFacts
<1>3. t.pc \notin {"idle", "done"} => Alone(r, t)
  BY <1>1, <1>2 DEF Thread, Good, Alone, Resolving, AfterPush, Holders
<1> QED BY <1>1, <1>2, <1>3, QuietAlone

LEMMA RefuseAlone == ASSUME IInv, AloneInv, serial, NEW r \in Request, Refuse(r) PROVE Follows
PROOF
<1> DEFINE t == [th[r] EXCEPT !.role = "assistant", !.pc = "push"]
<1>1. th[r].pc = "generate" /\ th' = [th EXCEPT ![r] = t] /\ UNCHANGED <<store, made, serial>>
  BY DEF Refuse, At, Goto, Become
<1>2. th[r] \in Thread /\ Good(r, th[r], recorded, seen.pushed, seen.dropped) /\ Active(r) /\ Alone(r, th[r])
  BY <1>1, AloneFacts
<1>3. t.pc \notin {"idle", "done"} => Alone(r, t)
  BY <1>1, <1>2 DEF Thread, Good, Alone, Resolving, AfterPush, Holders
<1> QED BY <1>1, <1>2, <1>3, QuietAlone

LEMMA ResolvedAlone ==
  ASSUME IInv, AloneInv, serial, NEW r \in Request, th[r].pc \in Resolving, NEW c \in Oldest,
         th' = [th EXCEPT ![r] = Resolved(r, c)], UNCHANGED <<store, made, serial>>
  PROVE  Follows
PROOF
<1> DEFINE t == Resolved(r, c)
<1>1. th[r] \in Thread /\ Good(r, th[r], recorded, seen.pushed, seen.dropped) /\ Active(r) /\ Alone(r, th[r]) /\ FreshInv
  BY AloneFacts DEF Resolving
<1>2. c \in Present /\ c <= made
  BY <1>1 DEF Oldest, Present, FreshInv, ConvIds, IInv, TypeOK
<1>3. th[r].op \in {"open", "list", "chat", "attach", "detach", "update", "delConv"}
  BY <1>1 DEF Good
<1>4. /\ t.op = th[r].op /\ t.role = th[r].role /\ t.arg = th[r].arg /\ t.snap = th[r].snap
      /\ t.pc = AfterResolve(th[r].op) /\ t.conv = IF th[r].op = "delConv" THEN th[r].conv ELSE c
  BY <1>1 DEF Resolved, Thread
<1>5. t.pc \notin {"idle", "done"} => Alone(r, t)
  <2> HIDE DEF t
  <2> QED BY <1>1, <1>2, <1>3, <1>4 DEF Alone, Resolving, AfterPush, Holders, AfterResolve
<1> QED BY <1>1, <1>5, QuietAlone

LEMMA LookForDefaultAlone == ASSUME IInv, AloneInv, serial, NEW r \in Request, LookForDefault(r) PROVE Follows
PROOF
<1>1. th[r].pc = "resolve" /\ UNCHANGED <<store, made, serial>>
  BY DEF LookForDefault, At
<1>2. CASE \E c \in Oldest : Become(r, Resolved(r, c))
  BY <1>1, <1>2, ResolvedAlone DEF Become, Resolving
<1>3. CASE Present = {} /\ Goto(r, "lock")
  <2> DEFINE t == [th[r] EXCEPT !.pc = "lock"]
  <2>1. th[r] \in Thread /\ Active(r) /\ Alone(r, th[r]) /\ th' = [th EXCEPT ![r] = t]
    BY <1>1, <1>3, AloneFacts DEF Goto, Become
  <2>2. Alone(r, t)
    BY <1>1, <2>1 DEF Thread, Alone, Resolving, AfterPush, Holders
  <2> QED BY <1>1, <2>1, <2>2, QuietAlone
<1> QED BY <1>2, <1>3 DEF LookForDefault

LEMMA RecheckDefaultAlone == ASSUME IInv, AloneInv, serial, NEW r \in Request, RecheckDefault(r) PROVE Follows
PROOF
<1>1. th[r].pc = "recheck" /\ UNCHANGED <<store, made, serial>>
  BY DEF RecheckDefault, At
<1>2. CASE \E c \in Oldest : Become(r, Resolved(r, c))
  BY <1>1, <1>2, ResolvedAlone DEF Become, Resolving
<1>3. CASE Present = {} /\ Goto(r, "legacy")
  <2> DEFINE t == [th[r] EXCEPT !.pc = "legacy"]
  <2>1. th[r] \in Thread /\ Active(r) /\ Alone(r, th[r]) /\ th' = [th EXCEPT ![r] = t]
    BY <1>1, <1>3, AloneFacts DEF Goto, Become
  <2>2. Alone(r, t)
    BY <1>1, <1>3, <2>1 DEF Thread, Alone, Resolving, AfterPush, Holders
  <2> QED BY <1>1, <2>1, <2>2, QuietAlone
<1> QED BY <1>2, <1>3 DEF RecheckDefault

LEMMA ClaimAlone == ASSUME IInv, AloneInv, serial, NEW r \in Request, Claim(r) PROVE Follows
PROOF
<1>1. th[r].pc = "claim" /\ UNCHANGED <<store, made, serial>>
  BY DEF Claim, At
<1>2. th[r] \in Thread /\ Active(r) /\ Alone(r, th[r])
  BY <1>1, AloneFacts
<1>3. ASSUME NEW t \in {[th[r] EXCEPT !.pc = "saveDefault"], [th[r] EXCEPT !.pc = "wait", !.tries = 0]},
             th' = [th EXCEPT ![r] = t]
      PROVE  Follows
  <2>0. /\ t.pc \in {"saveDefault", "wait"} /\ t.op = th[r].op /\ t.role = th[r].role /\ t.arg = th[r].arg
        /\ t.snap = th[r].snap /\ t.conv = th[r].conv /\ t.own = th[r].own /\ t.old = th[r].old
    BY <1>2 DEF Thread
  <2>1. Alone(r, t)
    BY <1>1, <1>2, <2>0 DEF Alone, Resolving, AfterPush, Holders
  <2> QED BY <1>1, <1>2, <1>3, <2>1, QuietAlone
<1> QED BY <1>3 DEF Claim, Goto, Become

LEMMA WaitForWinnerAlone == ASSUME IInv, AloneInv, serial, NEW r \in Request, WaitForWinner(r) PROVE Follows
PROOF
<1>1. th[r].pc = "wait" /\ UNCHANGED <<store, made, serial>>
  BY DEF WaitForWinner, At
<1>2. th[r] \in Thread /\ Active(r) /\ Alone(r, th[r])
  BY <1>1, AloneFacts
<1>3. CASE \E c \in Oldest : Become(r, Resolved(r, c))
  BY <1>1, <1>3, ResolvedAlone DEF Become, Resolving
<1>4. ASSUME NEW t \in {[th[r] EXCEPT !.pc = "saveDefault"], [th[r] EXCEPT !.tries = @ + 1]},
             th' = [th EXCEPT ![r] = t]
      PROVE  Follows
  <2>1. Alone(r, t)
    BY <1>1, <1>2, <1>4 DEF Thread, Alone, Resolving, AfterPush, Holders
  <2> QED BY <1>1, <1>2, <1>4, <2>1, QuietAlone
<1> QED BY <1>3, <1>4 DEF WaitForWinner, Goto, Become

LEMMA FindForRenameAlone == ASSUME IInv, AloneInv, serial, NEW r \in Request, FindForRename(r) PROVE Follows
PROOF
<1> DEFINE t == IF th[r].conv \in Present THEN [th[r] EXCEPT !.snap = convs[th[r].conv], !.pc = "renameSave"]
                 ELSE [th[r] EXCEPT !.pc = "done"]
<1>1. th[r].pc = "rename" /\ th' = [th EXCEPT ![r] = t] /\ UNCHANGED <<store, made, serial>>
  BY DEF FindForRename, At, Goto, Become
<1>2. th[r] \in Thread /\ Good(r, th[r], recorded, seen.pushed, seen.dropped) /\ Active(r) /\ Alone(r, th[r])
  BY <1>1, AloneFacts
<1>3. t.pc \notin {"idle", "done"} => Alone(r, t)
  BY <1>1, <1>2 DEF Thread, Good, Alone, Resolving, AfterPush, Holders
<1> QED BY <1>1, <1>2, <1>3, QuietAlone

LEMMA FindConversationAlone == ASSUME IInv, AloneInv, serial, NEW r \in Request, FindConversation(r) PROVE Follows
PROOF
<1> DEFINE t == IF th[r].conv \in Present THEN [th[r] EXCEPT !.snap = convs[th[r].conv], !.pc = "bumpConv"]
                 ELSE [th[r] EXCEPT !.pc = "findMeta"]
<1>1. th[r].pc = "findConv" /\ th' = [th EXCEPT ![r] = t] /\ UNCHANGED <<store, made, serial>>
  BY DEF FindConversation, At, Goto, Become
<1>2. th[r] \in Thread /\ Good(r, th[r], recorded, seen.pushed, seen.dropped) /\ Active(r) /\ Alone(r, th[r])
  BY <1>1, AloneFacts
<1>3. t.pc \notin {"idle", "done"} => Alone(r, t)
  BY <1>1, <1>2 DEF Thread, Good, Alone, Resolving, AfterPush, Holders
<1> QED BY <1>1, <1>2, <1>3, QuietAlone

LEMMA ClientLeavesAlone == ASSUME IInv, AloneInv, serial, NEW r \in Request, ClientLeaves(r) PROVE Follows
PROOF
<1> DEFINE t == [th[r] EXCEPT !.pc = "done"]
<1>1. th[r].pc \in {"model", "generate"} /\ th' = [th EXCEPT ![r] = t] /\ UNCHANGED <<store, made, serial>>
  BY DEF ClientLeaves, Goto, Become
<1>2. th[r] \in Thread /\ Active(r)
  BY <1>1, AloneFacts
<1>3. t.pc = "done"
  BY <1>2 DEF Thread
<1> QED BY <1>1, <1>2, <1>3, QuietAlone

LEMMA BeginAlone == ASSUME IInv, AloneInv, serial, NEW r \in Request, Begin(r) PROVE Follows
PROOF
<1>1. /\ th[r] \in Thread /\ th[r].pc = "idle" /\ UNCHANGED <<store, made, serial>>
      /\ \A q \in Request : ~Active(q)
  BY DEF IInv, TypeOK, Begin, At
<1>2. CASE Goto(r, "done")
  <2> DEFINE t == [th[r] EXCEPT !.pc = "done"]
  <2>1. t.pc = "done" /\ th' = [th EXCEPT ![r] = t]
    BY <1>1, <1>2 DEF Goto, Become, Thread
  <2> QED BY <1>1, <2>1, QuietAlone
<1>3. ASSUME meta # None, NEW op \in Ops[r], NEW F \in SUBSET File, NEW c \in Present \union {None},
             op \in {"attach", "detach"} => Cardinality(F) = 1,
             op \notin {"attach", "detach", "update"} => F = {},
             op \in {"rename", "delConv"} => c # None,
             Become(r, [IdleThread EXCEPT !.op = op, !.pc = FirstPc(op, c), !.conv = c, !.arg = F])
      PROVE  Follows
  <2> DEFINE p == FirstPc(op, c)
  <2> DEFINE t == [IdleThread EXCEPT !.op = op, !.pc = p, !.conv = c, !.arg = F]
  <2>1. op \in AllOps /\ (c # None => c \in Present /\ c <= made)
    <3>1. op \in AllOps
      BY SessionsAssumption
    <3>2. FreshInv /\ made \in Nat
      BY DEF AloneInv, IInv, TypeOK
    <3> QED BY <3>1, <3>2 DEF FreshInv, Present, ConvIds
  <2>2. op \in {"attach", "detach"} => \E f \in File : F = {f}
    <3>1. IsFiniteSet(F)
      BY SessionsAssumption, FS_Subset
    <3>2. Cardinality(F) = 1 => \E f : F = {f}
      BY <3>1, FS_Singleton
    <3> QED BY <1>3, <3>2
  <2>3. /\ p \in {"meta", "resolve", "model", "rename", "stamp", "ids"}
        /\ p = "meta" => op \in {"open", "attach", "detach", "update", "newConv"}
        /\ p = "resolve" => op \in {"list", "delConv", "chat"}
        /\ p \in {"model", "rename"} => c # None
        /\ p = "model" => op = "chat"
        /\ p = "ids" => op = "delSession"
    BY <2>1, <1>3 DEF FirstPc, AllOps
  <2>4. t.role = "user" /\ t.pc = p /\ t.op = op /\ t.conv = c /\ t.arg = F
    <3> HIDE DEF p
    <3> QED BY DEF IdleThread
  <2>5. Alone(r, t)
    <3> HIDE DEF p, t
    <3> QED BY <1>3, <2>1, <2>2, <2>3, <2>4 DEF Alone, Resolving, AfterPush, Holders
  <2>6. th' = [th EXCEPT ![r] = t]
    BY <1>3 DEF Become
  <2> QED BY <1>1, <2>5, <2>6, QuietAlone
<1> QED BY <1>2, <1>3 DEF Begin

-----------------------------------------------------------------------------
(* Steps that write to the project, each as what Project calls it.           *)

\* A record is not a missing one.
LEMMA RecordsAre == (\A m \in Metas : m # None) /\ (\A c \in ConvRecs : c # None)
BY SessionsAssumption DEF Metas, ConvRecs, Titles

\* What a request that is served may do.
LEMMA Asking ==
  ASSUME NEW r \in Request, Active(r) PROVE <<th[r].op, th[r].arg>> \in Asked
BY DEF Asked

LEMMA UpdateAlone == ASSUME IInv, AloneInv, serial, NEW r \in Request, Update(r) PROVE Follows
PROOF
<1> DEFINE t == [th[r] EXCEPT !.pc = "done"]
<1>1. /\ th[r].pc = "update" /\ th' = [th EXCEPT ![r] = t] /\ meta' = Changed(th[r])
      /\ UNCHANGED <<convs, msgs, legacy, made, serial>>
  BY DEF Update, At, Goto, Become
<1>2. th[r] \in Thread /\ Good(r, th[r], recorded, seen.pushed, seen.dropped) /\ Active(r) /\ Alone(r, th[r]) /\ FreshInv
  BY <1>1, AloneFacts
<1>3. t.pc = "done" /\ FreshInv'
  BY <1>1, <1>2 DEF Thread, FreshInv
<1>4. AloneInv'
  BY <1>1, <1>2, <1>3, AloneStep
<1>5. /\ th[r].op \in {"attach", "detach", "update"} /\ th[r].snap = meta /\ meta \in Metas
      /\ th[r].arg \in SUBSET File
  BY <1>1, <1>2 DEF Good, Alone, Thread
<1>6. meta' \in Metas /\ meta # None /\ meta' # None
  <2>1. CASE th[r].op = "update"
    BY <1>1, <1>5, <2>1, RecordsAre DEF Changed, Metas, Titles
  <2>2. CASE th[r].op \in {"attach", "detach"}
    <3>1. meta' = [meta EXCEPT !.files = IF th[r].op = "attach" THEN @ \union th[r].arg ELSE @ \ th[r].arg]
      BY <1>1, <1>5, <2>2 DEF Changed
    <3> QED BY <1>5, <3>1, RecordsAre DEF Metas
  <2> QED BY <1>5, <2>1, <2>2
<1>7. UNCHANGED <<Alive, Log, legacy>> /\ Files = meta.files /\ Files' = meta'.files /\ Alive
  BY <1>1, <1>6 DEF Alive, Log, Files, Present
<1>8. <<th[r].op, th[r].arg>> \in Asked
  BY <1>2, Asking
<1>9. CASE th[r].op = "update"
  <2>1. meta'.files = th[r].arg
    BY <1>1, <1>5, <1>9 DEF Changed, Metas
  <2>2. P!SetFiles
    BY <1>5, <1>7, <1>8, <1>9, <2>1 DEF P!SetFiles, P!Asks
  <2> QED BY <1>4, <1>7, <2>2 DEF Follows, P!Next
<1>10. ASSUME NEW f \in File, th[r].arg = {f}, th[r].op \in {"attach", "detach"} PROVE Follows
  <2>1. meta' = [meta EXCEPT !.files = IF th[r].op = "attach" THEN @ \union {f} ELSE @ \ {f}]
    BY <1>1, <1>5, <1>10 DEF Changed
  <2>2. IF th[r].op = "attach" THEN meta'.files = meta.files \union {f} ELSE meta'.files = meta.files \ {f}
    BY <1>5, <2>1 DEF Metas
  <2>3. P!Attach \/ P!Detach
    BY <1>7, <1>8, <1>10, <2>2 DEF P!Attach, P!Detach, P!Asks
  <2> QED BY <1>4, <1>7, <2>3 DEF Follows, P!Next
<1> QED BY <1>2, <1>5, <1>9, <1>10 DEF Alone

LEMMA StampAlone == ASSUME IInv, AloneInv, serial, NEW r \in Request, Stamp(r) PROVE Follows
PROOF
<1> DEFINE t == [th[r] EXCEPT !.pc = "done"]
<1>1. /\ th[r].pc = "stampSave" /\ th' = [th EXCEPT ![r] = t] /\ meta' = [th[r].snap EXCEPT !.workspace = TRUE]
      /\ UNCHANGED <<convs, msgs, legacy, made, serial>>
  BY DEF Stamp, At, Goto, Become
<1>2. th[r] \in Thread /\ Good(r, th[r], recorded, seen.pushed, seen.dropped) /\ Active(r) /\ Alone(r, th[r]) /\ FreshInv
  BY <1>1, AloneFacts
<1>3. t.pc = "done" /\ FreshInv'
  BY <1>1, <1>2 DEF Thread, FreshInv
<1>4. AloneInv'
  BY <1>1, <1>2, <1>3, AloneStep
<1>5. th[r].snap = meta /\ meta \in Metas
  BY <1>1, <1>2 DEF Good, Alone
<1>6. meta' \in Metas /\ meta'.files = meta.files
  BY <1>1, <1>5 DEF Metas
<1>7. P!Next
  BY <1>1, <1>5, <1>6, RecordsAre DEF P!Next, Alive, Files, Log, Present
<1> QED BY <1>4, <1>7 DEF Follows

LEMMA BumpMetaAlone == ASSUME IInv, AloneInv, serial, NEW r \in Request, BumpMeta(r) PROVE Follows
PROOF
<1>0. PICK t : t = [th[r] EXCEPT !.pc = AfterAppend(th[r].role)]
  OBVIOUS
<1>1. /\ th[r].pc = "bumpMeta" /\ th' = [th EXCEPT ![r] = t] /\ meta' = Bumped(th[r].snap, th[r].role)
      /\ UNCHANGED <<convs, msgs, legacy, made, serial>>
  BY <1>0 DEF BumpMeta, At, Goto, Become
<1>2. th[r] \in Thread /\ Good(r, th[r], recorded, seen.pushed, seen.dropped) /\ Active(r) /\ Alone(r, th[r]) /\ FreshInv
  BY <1>1, AloneFacts
<1>3. th[r].snap = meta /\ meta \in Metas
  BY <1>1, <1>2 DEF Good, Alone
<1>4. meta' \in Metas /\ meta'.files = meta.files
  <2>1. meta' = Bumped(meta, th[r].role)
    BY <1>1, <1>3
  <2> QED BY <1>3, <2>1, BumpedTypes DEF Bumped, Metas
<1>5. FreshInv' /\ meta' # None /\ Present' = Present
  BY <1>1, <1>2, <1>4, RecordsAre DEF FreshInv, Present
<1>6. t.pc \notin {"idle", "done"} => Alone(r, t)'
  BY <1>0, <1>1, <1>2, <1>5 DEF Alone, Thread, AfterAppend, Resolving, AfterPush, Holders
<1>7. AloneInv'
  <2> QED BY <1>1, <1>2, <1>5, <1>6, AloneStep
<1>8. P!Next
  BY <1>1, <1>3, <1>4, RecordsAre DEF P!Next, Alive, Files, Log, Present
<1> QED BY <1>7, <1>8 DEF Follows

\* A record of a conversation is written over another.
LEMMA RecordWritten ==
  ASSUME IInv, NEW c \in Present, NEW rec \in ConvRecs, Save(c, rec), UNCHANGED <<meta, msgs, legacy>>
  PROVE  Present' = Present /\ P!Next
PROOF
<1>1. Present' = Present
  BY RecordsAre DEF Save, Present, IInv, TypeOK
<1> QED BY <1>1 DEF P!Next, Alive, Files, Log

LEMMA RenameAlone == ASSUME IInv, AloneInv, serial, NEW r \in Request, Rename(r) PROVE Follows
PROOF
<1> DEFINE t == [th[r] EXCEPT !.pc = "done"]
<1> DEFINE rec == [th[r].snap EXCEPT !.title = "given"]
<1>1. /\ th[r].pc = "renameSave" /\ th' = [th EXCEPT ![r] = t] /\ Save(th[r].conv, rec)
      /\ UNCHANGED <<meta, msgs, legacy, made, serial>>
  BY DEF Rename, At, Goto, Become
<1>2. th[r] \in Thread /\ Good(r, th[r], recorded, seen.pushed, seen.dropped) /\ Active(r) /\ Alone(r, th[r]) /\ FreshInv
  BY <1>1, AloneFacts
<1>3. th[r].conv \in Present /\ rec \in ConvRecs
  BY <1>1, <1>2 DEF Good, Alone, ConvRecs, Titles
<1>4. Present' = Present /\ P!Next
  <2> HIDE DEF rec
  <2> QED BY <1>1, <1>3, RecordWritten
<1>5. t.pc = "done" /\ FreshInv'
  BY <1>1, <1>2, <1>3, <1>4 DEF Thread, FreshInv, Save, Present, IInv, TypeOK, ConvIds
<1>6. AloneInv'
  BY <1>1, <1>2, <1>5, AloneStep
<1> QED BY <1>4, <1>6 DEF Follows

LEMMA BumpConversationAlone ==
  ASSUME IInv, AloneInv, serial, NEW r \in Request, BumpConversation(r) PROVE Follows
PROOF
<1> DEFINE rec == Bumped(th[r].snap, th[r].role)
<1>0. PICK t : t = [th[r] EXCEPT !.pc = "findMeta"]
  OBVIOUS
<1>1. /\ th[r].pc = "bumpConv" /\ th' = [th EXCEPT ![r] = t] /\ Save(th[r].conv, rec)
      /\ UNCHANGED <<meta, msgs, legacy, made, serial>>
  BY <1>0 DEF BumpConversation, At, Goto, Become
<1>2. th[r] \in Thread /\ Good(r, th[r], recorded, seen.pushed, seen.dropped) /\ Active(r) /\ Alone(r, th[r]) /\ FreshInv
  BY <1>1, AloneFacts
<1>3. th[r].conv \in Present /\ rec \in ConvRecs
  BY <1>1, <1>2, BumpedTypes DEF Good, Alone, AfterPush
<1>4. Present' = Present /\ P!Next
  <2> HIDE DEF rec
  <2> QED BY <1>1, <1>3, RecordWritten
<1>5. FreshInv'
  BY <1>1, <1>2, <1>3, <1>4 DEF FreshInv, Save, Present, IInv, TypeOK, ConvIds
<1>6. Alone(r, t)'
  BY <1>0, <1>1, <1>2, <1>4 DEF Alone, Thread, Resolving, AfterPush, Holders
<1>7. AloneInv'
  BY <1>1, <1>2, <1>5, <1>6, AloneStep
<1> QED BY <1>4, <1>7 DEF Follows

\* A step of a project that is gone, or of lists that no conversation has.
LEMMA Unshown ==
  ASSUME UNCHANGED meta, UNCHANGED convs, \A c \in Present : msgs'[c] = msgs[c] \/ meta = None
  PROVE  P!Next
PROOF
<1>1. Present' = Present
  BY DEF Present
<1>2. CASE meta = None
  BY <1>2 DEF P!Next, Alive, Files, Log
<1>3. CASE meta # None
  <2>1. [c \in Present' |-> msgs'[c]] = [c \in Present |-> msgs[c]]
    BY <1>1, <1>3
  <2> QED BY <1>3, <2>1 DEF P!Next, Alive, Files, Log
<1> QED BY <1>2, <1>3

LEMMA ReadLegacyAlone == ASSUME IInv, AloneInv, serial, NEW r \in Request, ReadLegacy(r) PROVE Follows
PROOF
<1>0. PICK t : t = [th[r] EXCEPT !.old = legacy, !.own = made + 1, !.pc = IF legacy = <<>> THEN "claim" ELSE "copy"]
  OBVIOUS
<1>1. /\ th[r].pc = "legacy" /\ th' = [th EXCEPT ![r] = t] /\ made < MaxConvs /\ made' = made + 1
      /\ UNCHANGED <<meta, convs, msgs, legacy, serial>>
  BY <1>0 DEF ReadLegacy, At, Become, store
<1>2. th[r] \in Thread /\ Good(r, th[r], recorded, seen.pushed, seen.dropped) /\ Active(r) /\ Alone(r, th[r]) /\ FreshInv
  BY <1>1, AloneFacts
<1>3. made \in Nat /\ made + 1 \in ConvIds /\ msgs[made + 1] = <<>>
  BY <1>1, <1>2, SessionsAssumption DEF FreshInv, ConvIds, IInv, TypeOK
<1>4. \A c \in ConvIds \union {None} : c # None => c \in Int
  BY DEF ConvIds
<1>5. FreshInv'
  BY <1>1, <1>2, <1>3 DEF FreshInv, ConvIds
<1>6. Alone(r, t)'
  <2>1. /\ t.pc = IF legacy = <<>> THEN "claim" ELSE "copy"
        /\ t.old = legacy /\ t.own = made + 1 /\ t.op = th[r].op /\ t.arg = th[r].arg
        /\ t.snap = th[r].snap /\ t.conv = th[r].conv /\ t.role = th[r].role
    BY <1>0, <1>2 DEF Thread
  <2>2. Present' = Present /\ (th[r].conv # None => th[r].conv <= made /\ th[r].conv \in Int)
    BY <1>0, <1>1, <1>2, <1>4 DEF Present, Alone, Thread
  <2> QED BY <1>0, <1>1, <1>2, <1>3, <2>1, <2>2 DEF Alone, Resolving, AfterPush, Holders
<1>7. AloneInv'
  BY <1>1, <1>2, <1>5, <1>6, AloneStep
<1> QED BY <1>1, <1>7 DEF Follows

LEMMA CopyLegacyAlone == ASSUME IInv, AloneInv, serial, NEW r \in Request, CopyLegacy(r) PROVE Follows
PROOF
<1>0. PICK t : t = [th[r] EXCEPT !.pc = "claim"]
  OBVIOUS
<1>1. /\ th[r].pc = "copy" /\ th' = [th EXCEPT ![r] = t]
      /\ msgs' = [msgs EXCEPT ![th[r].own] = @ \o th[r].old]
      /\ UNCHANGED <<meta, convs, legacy, made, serial>>
  BY <1>0 DEF CopyLegacy, At, Goto, Become, Push
<1>2. th[r] \in Thread /\ Good(r, th[r], recorded, seen.pushed, seen.dropped) /\ Active(r) /\ Alone(r, th[r]) /\ FreshInv
  BY <1>1, AloneFacts
<1>3. /\ th[r].own \in ConvIds /\ th[r].own <= made /\ msgs[th[r].own] = <<>> /\ th[r].old = legacy
      /\ Present = {} /\ legacy \in Seq(OldMessages) /\ made \in Nat
  BY <1>1, <1>2 DEF Good, Alone, Holders, IInv, TypeOK
<1>4. msgs'[th[r].own] = legacy /\ \A c \in ConvIds \ {th[r].own} : msgs'[c] = msgs[c]
  <2>1. <<>> \o legacy = legacy
    BY <1>3
  <2> QED BY <1>1, <1>3, <2>1 DEF IInv, TypeOK
<1>5. FreshInv' /\ Present' = Present
  BY <1>1, <1>2, <1>3, <1>4 DEF FreshInv, Present, ConvIds
<1>6. Alone(r, t)'
  BY <1>0, <1>1, <1>2, <1>3, <1>4, <1>5 DEF Alone, Thread, Resolving, AfterPush, Holders
<1>7. AloneInv'
  BY <1>1, <1>2, <1>5, <1>6, AloneStep
<1> QED BY <1>1, <1>3, <1>7, Unshown DEF Follows

LEMMA SaveDefaultAlone == ASSUME IInv, AloneInv, serial, NEW r \in Request, SaveDefault(r) PROVE Follows
PROOF
<1> DEFINE own == th[r].own
<1> DEFINE rec == NewConv(IF th[r].old = <<>> THEN own ELSE 0, Len(th[r].old))
<1>0. PICK t : t = Resolved(r, own)
  OBVIOUS
<1>1. /\ th[r].pc = "saveDefault" /\ th' = [th EXCEPT ![r] = t] /\ convs' = [convs EXCEPT ![own] = rec]
      /\ UNCHANGED <<meta, msgs, legacy, made, serial>>
  BY <1>0 DEF SaveDefault, At, Become, Save
<1>2. th[r] \in Thread /\ Good(r, th[r], recorded, seen.pushed, seen.dropped) /\ Active(r) /\ Alone(r, th[r]) /\ FreshInv
  BY <1>1, AloneFacts
<1>3. own \in ConvIds /\ own <= made /\ msgs[own] = legacy /\ Present = {} /\ made \in Nat /\ meta # None
  BY <1>1, <1>2 DEF Good, Alone, Holders, IInv, TypeOK
<1>4. rec # None
  <2>1. th[r].old \in Seq(OldMessages) /\ own \in Nat
    BY <1>2, <1>3 DEF Thread, ConvIds
  <2>2. rec \in ConvRecs
    BY <2>1 DEF NewConv, ConvRecs, Titles
  <2> QED BY <2>2, RecordsAre
<1>5. Present' = {own}
  <2> HIDE DEF rec
  <2> QED BY <1>1, <1>3, <1>4 DEF Present, IInv, TypeOK
<1>6. FreshInv'
  <2> HIDE DEF rec
  <2> QED BY <1>1, <1>2, <1>3 DEF FreshInv, ConvIds, IInv, TypeOK
<1>7. /\ th[r].op \in {"open", "list", "chat", "attach", "detach", "update", "delConv"}
      /\ t.op = th[r].op /\ t.role = th[r].role /\ t.arg = th[r].arg /\ t.snap = th[r].snap
      /\ t.pc = AfterResolve(th[r].op) /\ t.conv = IF th[r].op = "delConv" THEN th[r].conv ELSE own
  BY <1>0, <1>1, <1>2 DEF Good, Resolving, Resolved, Thread
<1>8. t.pc \notin {"idle", "done"} => Alone(r, t)'
  <2> HIDE DEF own
  <2> QED BY <1>0, <1>1, <1>2, <1>3, <1>5, <1>7 DEF Alone, Resolving, AfterPush, Holders, AfterResolve
<1>9. AloneInv'
  <2> QED BY <1>1, <1>2, <1>6, <1>8, AloneStep
<1>10. P!FirstLook
  <2> HIDE DEF own
  <2>1. Log = <<>>
    BY <1>3 DEF Log
  <2>2. Log' = [c \in {own} |-> legacy]
    BY <1>1, <1>3, <1>5 DEF Log
  <2>3. own \in DOMAIN Log'
    BY <2>2
  <2>4. UNCHANGED <<Alive, Files, legacy>>
    BY <1>1 DEF Alive, Files
  <2> QED BY <2>1, <2>2, <2>3, <2>4 DEF P!FirstLook
<1> QED BY <1>3, <1>9, <1>10 DEF Follows, P!Next, Alive

LEMMA CreateConversationAlone ==
  ASSUME IInv, AloneInv, serial, NEW r \in Request, CreateConversation(r) PROVE Follows
PROOF
<1> DEFINE t == [th[r] EXCEPT !.pc = "done"]
<1> DEFINE rec == NewConv(made + 1, 0)
<1>1. /\ th[r].pc = "create" /\ th' = [th EXCEPT ![r] = t] /\ convs' = [convs EXCEPT ![made + 1] = rec]
      /\ made < MaxConvs /\ made' = made + 1 /\ UNCHANGED <<meta, msgs, legacy, serial>>
  BY DEF CreateConversation, At, Goto, Become, Save
<1>2. th[r] \in Thread /\ Good(r, th[r], recorded, seen.pushed, seen.dropped) /\ Active(r) /\ Alone(r, th[r]) /\ FreshInv
  BY <1>1, AloneFacts
<1>3. made \in Nat /\ made + 1 \in ConvIds /\ msgs[made + 1] = <<>> /\ convs[made + 1] = None
  BY <1>1, <1>2, SessionsAssumption DEF FreshInv, ConvIds, IInv, TypeOK
<1>4. rec # None
  BY <1>3, RecordsAre DEF NewConv, ConvRecs, Titles
<1>5. Present' = Present \union {made + 1} /\ made + 1 \notin Present
  <2> HIDE DEF rec
  <2> QED BY <1>1, <1>3, <1>4 DEF Present, IInv, TypeOK
<1>6. FreshInv' /\ t.pc = "done"
  <2> HIDE DEF rec
  <2> QED BY <1>1, <1>2, <1>3 DEF FreshInv, Thread, ConvIds, IInv, TypeOK
<1>7. AloneInv'
  <2> HIDE DEF rec
  <2> QED BY <1>1, <1>2, <1>6, AloneStep
<1>8. meta # None /\ <<"newConv", {}>> \in Asked
  BY <1>1, <1>2, Asking DEF Alone
<1>9. P!NewConversation
  <2> HIDE DEF rec
  <2>1. [c \in Present' |-> msgs'[c]]
          = [d \in DOMAIN [c \in Present |-> msgs[c]] \union {made + 1} |->
              IF d = made + 1 THEN <<>> ELSE [c \in Present |-> msgs[c]][d]]
    BY <1>1, <1>3, <1>5
  <2> QED BY <1>1, <1>5, <1>8, <2>1 DEF P!NewConversation, P!Asks, Alive, Files, Log
<1> QED BY <1>7, <1>8, <1>9 DEF Follows, P!Next, Alive

LEMMA DropConversationAlone ==
  ASSUME IInv, AloneInv, serial, NEW r \in Request, DropConversation(r) PROVE Follows
PROOF
<1>0. PICK t : t = [th[r] EXCEPT !.pc = "delete"]
  OBVIOUS
<1> DEFINE c == th[r].conv
<1>1. /\ th[r].pc = "hdel" /\ th' = [th EXCEPT ![r] = t] /\ convs' = [convs EXCEPT ![c] = None]
      /\ UNCHANGED <<meta, msgs, legacy, made, serial>>
  BY <1>0 DEF DropConversation, At, Goto, Become, Save
<1>2. th[r] \in Thread /\ Good(r, th[r], recorded, seen.pushed, seen.dropped) /\ Active(r) /\ Alone(r, th[r]) /\ FreshInv
  BY <1>1, AloneFacts
<1>3. c \in Present /\ Cardinality(Present) > 1 /\ meta # None /\ <<"delConv", {}>> \in Asked
  BY <1>1, <1>2, Asking DEF Alone
<1>4. Present' = Present \ {c}
  BY <1>1, <1>3 DEF Present, IInv, TypeOK
<1>5. FreshInv'
  BY <1>1, <1>2, <1>3 DEF FreshInv, Present, IInv, TypeOK
<1>6. Alone(r, t)'
  BY <1>0, <1>1, <1>2, <1>4 DEF Alone, Thread, Resolving, AfterPush, Holders
<1>7. AloneInv'
  BY <1>1, <1>2, <1>5, <1>6, AloneStep
<1>8. P!DeleteConversation
  <2> HIDE DEF c
  <2>1. DOMAIN Log = Present
    BY <1>3 DEF Log
  <2>2. Log' = [d \in DOMAIN Log \ {c} |-> Log[d]]
    BY <1>1, <1>3, <1>4, <2>1 DEF Log
  <2>3. UNCHANGED <<Alive, Files, legacy>>
    BY <1>1 DEF Alive, Files
  <2>4. DOMAIN Log # {c} /\ c \in DOMAIN Log
    BY <1>3, <2>1, FS_Singleton
  <2> QED BY <1>3, <2>2, <2>3, <2>4 DEF P!DeleteConversation, P!Asks
<1> QED BY <1>3, <1>7, <1>8 DEF Follows, P!Next, Alive

LEMMA DropMessagesAlone ==
  ASSUME IInv, AloneInv, serial, NEW r \in Request, DropMessages(r) PROVE Follows
PROOF
<1>0. PICK t : t = [th[r] EXCEPT !.pc = "done"]
  OBVIOUS
<1>1. /\ th[r].pc = "delete" /\ th' = [th EXCEPT ![r] = t] /\ msgs' = [msgs EXCEPT ![th[r].conv] = <<>>]
      /\ UNCHANGED <<meta, convs, legacy, made, serial>>
  BY <1>0 DEF DropMessages, At, Goto, Become
<1>2. th[r] \in Thread /\ Good(r, th[r], recorded, seen.pushed, seen.dropped) /\ Active(r) /\ Alone(r, th[r]) /\ FreshInv
  BY <1>1, AloneFacts
<1>3. t.pc = "done" /\ th[r].conv \notin Present
  BY <1>0, <1>1, <1>2 DEF Thread, Alone
<1>4. FreshInv'
  BY <1>1, <1>2 DEF FreshInv, IInv, TypeOK
<1>5. AloneInv'
  BY <1>1, <1>2, <1>3, <1>4, AloneStep
<1>6. P!Next
  BY <1>1, <1>3, Unshown DEF Present, IInv, TypeOK
<1> QED BY <1>5, <1>6 DEF Follows

LEMMA DeleteMetaAlone == ASSUME IInv, AloneInv, serial, NEW r \in Request, DeleteMeta(r) PROVE Follows
PROOF
<1>0. PICK t : t = [th[r] EXCEPT !.pc = "delConvs"]
  OBVIOUS
<1>1. /\ th[r].pc = "delMeta" /\ th' = [th EXCEPT ![r] = t] /\ meta' = None
      /\ UNCHANGED <<convs, msgs, legacy, made, serial>>
  BY <1>0 DEF DeleteMeta, At, Goto, Become
<1>2. th[r] \in Thread /\ Active(r) /\ Alone(r, th[r]) /\ FreshInv
  BY <1>1, AloneFacts
<1>3. FreshInv' /\ Present' = Present
  BY <1>1, <1>2 DEF FreshInv, Present
<1>4. Alone(r, t)'
  BY <1>0, <1>1, <1>2, <1>3 DEF Alone, Thread, Resolving, AfterPush, Holders
<1>5. AloneInv'
  BY <1>1, <1>2, <1>3, <1>4, AloneStep
<1>6. meta # None /\ <<"delSession", {}>> \in Asked
  BY <1>1, <1>2, Asking DEF Alone
<1>7. P!Delete
  BY <1>1, <1>6 DEF P!Delete, P!Asks, Alive, Files, Log
<1> QED BY <1>5, <1>6, <1>7 DEF Follows, P!Next, Alive

LEMMA DeleteConvsAlone == ASSUME IInv, AloneInv, serial, NEW r \in Request, DeleteConvs(r) PROVE Follows
PROOF
<1>0. PICK t : t = [th[r] EXCEPT !.pc = "delLists"]
  OBVIOUS
<1>1. /\ th[r].pc = "delConvs" /\ th' = [th EXCEPT ![r] = t] /\ convs' = [c \in ConvIds |-> None]
      /\ UNCHANGED <<meta, msgs, legacy, made, serial>>
  BY <1>0 DEF DeleteConvs, At, Goto, Become
<1>2. th[r] \in Thread /\ Active(r) /\ Alone(r, th[r]) /\ FreshInv
  BY <1>1, AloneFacts
<1>3. FreshInv' /\ Present' = {} /\ meta = None
  BY <1>1, <1>2 DEF FreshInv, Present, Alone
<1>4. Alone(r, t)'
  BY <1>0, <1>1, <1>2, <1>3 DEF Alone, Thread, Resolving, AfterPush, Holders
<1>5. AloneInv'
  BY <1>1, <1>2, <1>3, <1>4, AloneStep
<1>6. P!Next
  BY <1>1, <1>3 DEF P!Next, Alive, Files, Log
<1> QED BY <1>5, <1>6 DEF Follows

LEMMA DeleteListAlone == ASSUME IInv, AloneInv, serial, NEW r \in Request, DeleteList(r) PROVE Follows
PROOF
<1>1. th[r].pc = "delLists" /\ UNCHANGED <<meta, convs, made, serial>>
  BY DEF DeleteList, At
<1>2. th[r] \in Thread /\ Active(r) /\ Alone(r, th[r]) /\ FreshInv
  BY <1>1, AloneFacts
<1>3. meta = None /\ P!Next
  BY <1>1, <1>2, Unshown DEF Alone
<1>4. Present' = Present
  BY <1>1 DEF Present
<1>5. CASE UNCHANGED msgs /\ Goto(r, "done")
  <2>0. PICK t : t = [th[r] EXCEPT !.pc = "done"]
    OBVIOUS
  <2>1. t.pc = "done" /\ FreshInv' /\ th' = [th EXCEPT ![r] = t]
    BY <1>1, <1>2, <1>5, <2>0 DEF Goto, Become, FreshInv, Thread
  <2> QED BY <1>1, <1>2, <1>3, <2>1, AloneStep DEF Follows
<1>6. ASSUME NEW c \in th[r].read, msgs' = [msgs EXCEPT ![c] = <<>>],
             Become(r, [th[r] EXCEPT !.read = @ \ {c}])
      PROVE  Follows
  <2>0. PICK t : t = [th[r] EXCEPT !.read = @ \ {c}]
    OBVIOUS
  <2>1. th' = [th EXCEPT ![r] = t] /\ FreshInv'
    BY <1>1, <1>2, <1>6, <2>0 DEF Become, FreshInv, IInv, TypeOK
  <2>2. Alone(r, t)'
    BY <1>1, <1>2, <1>3, <1>4, <2>0 DEF Alone, Thread, Resolving, AfterPush, Holders
  <2> QED BY <1>1, <1>2, <1>3, <2>1, <2>2, AloneStep DEF Follows
<1> QED BY <1>5, <1>6 DEF DeleteList

LEMMA PushMessageAlone ==
  ASSUME IInv, AloneInv, serial, NEW r \in Request, PushMessage(r) PROVE Follows
PROOF
<1>0. PICK t : t = [th[r] EXCEPT !.pc = "findConv"]
  OBVIOUS
<1>1. PICK m : m = Message(r, th[r].role)
  OBVIOUS
<1>2. PICK c : c = th[r].conv
  OBVIOUS
<1>3. /\ th[r].pc = "push" /\ th' = [th EXCEPT ![r] = t] /\ msgs' = [msgs EXCEPT ![c] = @ \o <<m>>]
      /\ UNCHANGED <<meta, convs, legacy, made, serial>>
  BY <1>0, <1>1, <1>2 DEF PushMessage, At, Goto, Become, Push
<1>4. th[r] \in Thread /\ Good(r, th[r], recorded, seen.pushed, seen.dropped) /\ Active(r) /\ Alone(r, th[r]) /\ FreshInv
  BY <1>3, AloneFacts
<1>5. c \in Present /\ meta # None /\ <<"chat", {}>> \in Asked
  BY <1>2, <1>3, <1>4, Asking DEF Alone
<1>6. PICK s \in Seq(Messages) : s = msgs[c]
  BY <1>5 DEF Present, IInv, TypeOK
<1>7. m \in Messages /\ m.role = th[r].role /\ th[r].role \in {"user", "assistant"}
  BY <1>1, <1>4 DEF Thread, Message, Messages
<1>8. /\ s \o <<m>> = Append(s, m) /\ Append(s, m) # <<>>
      /\ Len(Append(s, m)) = Len(s) + 1 /\ Append(s, m)[Len(s) + 1] = m
  BY <1>7
<1>9. msgs' = [msgs EXCEPT ![c] = Append(s, m)] /\ Present' = Present
  BY <1>3, <1>6, <1>8 DEF Present
<1>10. msgs'[c] = Append(s, m) /\ \A d \in ConvIds \ {c} : msgs'[d] = msgs[d]
  BY <1>5, <1>9 DEF Present, IInv, TypeOK
<1>11. FreshInv'
  BY <1>3, <1>4, <1>5, <1>10 DEF FreshInv, Present
<1>12. Alone(r, t)'
  <2>1. /\ t.pc = "findConv" /\ t.conv = c /\ t.role = th[r].role /\ t.op = th[r].op
        /\ t.arg = th[r].arg /\ t.snap = th[r].snap
    BY <1>0, <1>2, <1>4 DEF Thread
  <2>2. t.role = "user" => m = Message(r, "user")
    BY <1>1, <2>1
  <2>3. msgs'[c][Len(msgs'[c])] = m /\ msgs'[c] # <<>>
    BY <1>8, <1>10
  <2> QED BY <1>2, <1>3, <1>4, <1>5, <1>9, <2>1, <2>2, <2>3
          DEF Alone, Resolving, AfterPush, Holders
<1>13. AloneInv'
  BY <1>3, <1>4, <1>11, <1>12, AloneStep
<1>14. \/ m.role = "user" /\ \A i \in DOMAIN s : s[i] # m
       \/ m.role = "assistant" /\ s # <<>> /\ s[Len(s)] = [m EXCEPT !.role = "user"]
  <2>1. CASE th[r].role = "user"
    <3>1. <<r, "user", c>> \notin seen.pushed
      <4>1. ~HasAsked(th[r])
        BY <1>3, <2>1 DEF HasAsked, AfterPush
      <4> QED BY <4>1 DEF IInv, PushInv
    <3>2. m.turn = r /\ m.role = "user"
      BY <1>1, <2>1 DEF Message
    <3>3. \A i \in DOMAIN s : s[i].role # "old" => <<s[i].turn, s[i].role, c>> \in seen.pushed
      BY <1>5, <1>6 DEF IInv, ListsInv, Present
    <3> QED BY <3>1, <3>2, <3>3
  <2>2. CASE th[r].role = "assistant"
    <3>1. s # <<>> /\ s[Len(s)] = Message(r, "user")
      BY <1>2, <1>3, <1>4, <1>6, <2>2 DEF Alone
    <3>2. [m EXCEPT !.role = "user"] = Message(r, "user")
      BY <1>1 DEF Message
    <3> QED BY <1>7, <2>2, <3>1, <3>2
  <2> QED BY <1>7, <2>1, <2>2
<1>15. P!AppendMessage
  <2>1. DOMAIN Log = Present /\ DOMAIN Log' = Present /\ Log[c] = s /\ Log'[c] = Append(s, m)
    BY <1>3, <1>5, <1>6, <1>9, <1>10 DEF Log
  <2>2. Log' = [Log EXCEPT ![c] = Append(s, m)]
    BY <1>3, <1>5, <1>6, <1>9, <1>10 DEF Log, Present
  <2>3. UNCHANGED <<Alive, Files, legacy>>
    BY <1>3 DEF Alive, Files
  <2> QED BY <1>5, <1>8, <1>14, <2>1, <2>2, <2>3 DEF P!AppendMessage, P!Asks
<1> QED BY <1>5, <1>13, <1>15 DEF Follows, P!Next, Alive

LEMMA ClaimExpiresAlone == ASSUME IInv, AloneInv, serial, ClaimExpires PROVE Follows
PROOF
<1>1. UNCHANGED <<meta, convs, msgs, legacy, made, th, serial>>
  BY DEF ClaimExpires, store
<1> QED BY <1>1 DEF Follows, AloneInv, Active, Alone, FreshInv, Present

LEMMA StepAlone == IInv /\ AloneInv /\ serial /\ [Next]_vars => Follows
PROOF
<1> SUFFICES ASSUME IInv, AloneInv, serial, [Next]_vars PROVE Follows
  OBVIOUS
<1>1. CASE UNCHANGED vars
  BY <1>1 DEF vars, store, Follows, AloneInv, Active, Alone, FreshInv, Present
<1>2. CASE ClaimExpires
  BY <1>2, ClaimExpiresAlone
<1>3. ASSUME NEW r \in Request, Step(r) \/ ClientLeaves(r) PROVE Follows
  BY <1>3, BeginAlone, ReadMetaAlone, LookForDefaultAlone, TakeLockAlone, RecheckDefaultAlone,
     ReadLegacyAlone, CopyLegacyAlone, ClaimAlone, WaitForWinnerAlone, SaveDefaultAlone, UpdateAlone,
     ListForStampAlone, StampAlone, CreateConversationAlone, FindForRenameAlone, RenameAlone,
     GuardDeleteAlone, DropConversationAlone, DropMessagesAlone, ListIdsAlone, DeleteMetaAlone,
     DeleteConvsAlone, DeleteListAlone, CheckModelAlone, RejectModelAlone, PushMessageAlone,
     FindConversationAlone, BumpConversationAlone, FindMetaAlone, BumpMetaAlone, GenerateAlone,
     RefuseAlone, ClientLeavesAlone, Zenon
     DEF Step
<1> QED BY <1>1, <1>2, <1>3 DEF Next

\* Whether requests are served one at a time does not change.
LEMMA SerialStays == [Next]_vars => UNCHANGED serial
PROOF
<1> SUFFICES ASSUME [Next]_vars PROVE UNCHANGED serial
  OBVIOUS
<1>1. CASE UNCHANGED vars \/ ClaimExpires
  BY <1>1 DEF vars, ClaimExpires
<1>2. ASSUME NEW r \in Request, Step(r) \/ ClientLeaves(r) PROVE UNCHANGED serial
  BY <1>2 DEF Step, Begin, ReadMeta, LookForDefault, TakeLock, RecheckDefault, ReadLegacy, CopyLegacy,
     Claim, WaitForWinner, SaveDefault, Update, ListForStamp, Stamp, CreateConversation, FindForRename,
     Rename, GuardDelete, DropConversation, DropMessages, ListIds, DeleteMeta, DeleteConvs, DeleteList,
     CheckModel, RejectModel, PushMessage, FindConversation, BumpConversation, FindMeta, BumpMeta,
     Generate, Refuse, ClientLeaves
<1> QED BY <1>1, <1>2 DEF Next

\* A user who waits for each answer has the project that Project promises: every
\* Redis call of every request, the first look at a project from before
\* conversations and the deletions too, is a step of it or changes nothing it shows.
THEOREM OneByOneIsProject == Spec => ServedOneByOne
PROOF
<1>1. Init => AloneInv
  <2> SUFFICES ASSUME Init PROVE AloneInv
    OBVIOUS
  <2>1. \A r \in Request : ~Active(r)
    BY DEF Init, Active, IdleThread
  <2>2. PICK s \in Starts : Created(s)
    BY DEF Init
  <2>3. s.lists \in Seq(Seq(OldMessages)) /\ DOMAIN s.lists = 1 .. Len(s.lists)
    BY SessionsAssumption
  <2>4. FreshInv
    BY <2>2, <2>3 DEF Created, FreshInv, ConvIds
  <2> QED BY <2>1, <2>4 DEF AloneInv
<1>2. IInv /\ AloneInv /\ [Next]_vars => AloneInv'
  BY StepAlone, SerialStays DEF Follows, AloneInv
<1>3. IInv /\ AloneInv /\ [Next]_vars => [serial => P!Next]_<<meta, convs, msgs>>
  BY StepAlone DEF Follows
<1> QED BY <1>1, <1>2, <1>3, SessionsTypes, PTL DEF Spec, ServedOneByOne
=============================================================================
