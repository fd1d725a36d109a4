------------------------------ MODULE Sessions ------------------------------
(***************************************************************************)
(* One project (ChatSession) in Redis, its conversations, their message    *)
(* lists, and the requests that share them: the methods of SessionManager  *)
(* and the chat turn of ChatPipeline.run.  Each request is one thread of   *)
(* a server process; every read or write of Redis is a step of its own,    *)
(* so a record read is as old as the steps between the read and the write. *)
(* Conversation ids are numbers in the order the objects were created.     *)
(***************************************************************************)
EXTENDS Integers, FiniteSets, Sequences

CONSTANTS
  Request,        \* requests, each served once by one thread
  Process,        \* server processes
  File,           \* documents that can be attached
  MaxConvs,       \* bound on the conversation objects of a run
  MaxWaits,       \* looks of a loser of the claim before it gives up (20 in the code)
  Ops,            \* the operations each request may ask for
  Starts,         \* the projects a run starts from: records [lists, legacy]
  None

AllOps == {"open", "list", "chat", "attach", "detach", "update", "stamp",
           "newConv", "rename", "delConv", "delSession"}

\* An old message of the flat history that predates conversations, or one of a turn.
OldMessages == [turn : {None}, role : {"old"}, n : Nat]
Message(r, role) == [turn |-> r, role |-> role, n |-> 0]
Messages == OldMessages \union {Message(r, role) : r \in Request, role \in {"user", "assistant"}}

ASSUME SessionsAssumption ==
  /\ MaxConvs \in Nat /\ MaxWaits \in Nat
  /\ Ops \in [Request -> SUBSET AllOps]
  /\ None \notin Request \union Process \union (1 .. MaxConvs)
  /\ IsFiniteSet(File)
  /\ None \notin [born : Nat, count : Nat, title : {"new", "auto", "given"}]
  /\ None \notin [files : SUBSET File, count : Nat, title : {"new", "auto", "given"}, workspace : BOOLEAN]
  /\ Starts \subseteq [lists : Seq(Seq(OldMessages)), legacy : Seq(OldMessages)]
  /\ \A s \in Starts : Len(s.lists) <= MaxConvs

VARIABLES
  meta,       \* the project's record in rag:sessions:meta, or None
  convs,      \* rag:sessions:<id>:conversations: the record of each id, or None
  msgs,       \* rag:sessions:<id>:conv:<conv>:messages: Redis has no empty list,
              \* so a key that is missing is <<>>
  legacy,     \* rag:sessions:<id>:messages, the flat history
  claim,      \* rag:sessions:<id>:default_conv_claim, or None
  lock,       \* _default_conv_lock of each process: its holder, or None
  made,       \* conversation objects created so far
  th,         \* the thread of each request
  recorded,   \* turns whose telemetry is recorded
  where,      \* the process that serves a request
  serial,     \* whether requests are served one at a time
  seen        \* history: what has happened, for the properties only

store == <<meta, convs, msgs, legacy>>
vars == <<store, claim, lock, made, th, recorded, where, serial, seen>>

ConvIds == 1 .. MaxConvs
NewMeta == [files |-> {}, count |-> 0, title |-> "new", workspace |-> FALSE]
NewConv(born, count) == [born |-> born, count |-> count, title |-> "new"]

\* The thread of a request: what it was asked, where it is, what it has read.
IdleThread == [op |-> None, pc |-> "idle", conv |-> None, arg |-> {}, role |-> "user",
               snap |-> None, read |-> {}, own |-> None, old |-> <<>>, tries |-> 0]

\* create_session saved the record; what its conversations hold by now is s.
Created(s) ==
  /\ meta = NewMeta
  /\ convs = [c \in ConvIds |-> IF c \in DOMAIN s.lists THEN NewConv(c - 1, Len(s.lists[c])) ELSE None]
  /\ msgs = [c \in ConvIds |-> IF c \in DOMAIN s.lists THEN s.lists[c] ELSE <<>>]
  /\ legacy = s.legacy
  /\ made = Len(s.lists)

Init ==
  /\ \E s \in Starts : Created(s)
  /\ claim = None
  /\ lock = [p \in Process |-> None]
  /\ th = [r \in Request |-> IdleThread]
  /\ recorded = {}
  /\ where \in [Request -> Process]
  /\ serial \in BOOLEAN
  /\ seen = [defaults |-> {}, gaveUp |-> FALSE, expired |-> FALSE, emptied |-> FALSE,
             dropped |-> {}, pushed |-> {}]

At(r, pc) == th[r].pc = pc
Active(r) == th[r].pc \notin {"idle", "done"}
Become(r, t) == th' = [th EXCEPT ![r] = t]
Goto(r, pc) == Become(r, [th[r] EXCEPT !.pc = pc])
Present == {c \in ConvIds : convs[c] # None}
\* The oldest conversation, if any; a migrated one is older than every new one.
Oldest == {c \in Present : \A d \in Present :
             convs[c].born < convs[d].born \/ (convs[c].born = convs[d].born /\ c <= d)}

Push(c, s) == msgs' = [msgs EXCEPT ![c] = @ \o s]      \* rpush
Save(c, rec) == convs' = [convs EXCEPT ![c] = rec]      \* hset

-----------------------------------------------------------------------------
(* A request begins, with its arguments.  A conversation of None is the     *)
(* default one.                                                              *)
FirstPc(op, c) ==
  CASE op \in {"open", "attach", "detach", "update", "newConv"} -> "meta"
    [] op \in {"list", "delConv"} -> "resolve"
    [] op = "chat" -> IF c = None THEN "resolve" ELSE "model"
    [] op = "rename" -> "rename"
    [] op = "stamp" -> "stamp"
    [] op = "delSession" -> "ids"

\* A route first reads the project: one that is not there is a 404.
Begin(r) ==
  /\ At(r, "idle")
  /\ serial => \A s \in Request : ~Active(s)
  /\ IF meta = None THEN Goto(r, "done") ELSE \E op \in Ops[r], F \in SUBSET File, c \in Present \union {None} :
       /\ op \in {"attach", "detach"} => Cardinality(F) = 1
       /\ op \notin {"attach", "detach", "update"} => F = {}
       /\ op \in {"rename", "delConv"} => c # None
       /\ op \notin {"rename", "delConv", "chat"} => c = None
       /\ Become(r, [IdleThread EXCEPT !.op = op, !.pc = FirstPc(op, c), !.conv = c, !.arg = F])
  /\ UNCHANGED <<store, claim, lock, made, recorded, where, serial, seen>>

\* _get_session_meta, and the early return of a project that is not there.
AfterMeta(op) == IF op = "newConv" THEN "create" ELSE "resolve"
ReadMeta(r) ==
  /\ At(r, "meta")
  /\ Become(r, [th[r] EXCEPT !.snap = meta,
                             !.pc = IF meta = None THEN "done" ELSE AfterMeta(th[r].op)])
  /\ UNCHANGED <<store, claim, lock, made, recorded, where, serial, seen>>

-----------------------------------------------------------------------------
(* _resolve_default_conversation                                             *)
AfterResolve(op) ==
  CASE op \in {"open", "list"} -> "done"
    [] op \in {"attach", "detach", "update"} -> "update"
    [] op = "delConv" -> "guard"
    [] op = "chat" -> "model"

\* The thread once it knows the default conversation c (delConv keeps its own argument).
Resolved(r, c) == [th[r] EXCEPT !.pc = AfterResolve(th[r].op),
                                !.conv = IF th[r].op = "delConv" THEN @ ELSE c]

Unlock(r) == lock' = [lock EXCEPT ![where[r]] = None]

LookForDefault(r) ==
  /\ At(r, "resolve")
  /\ \/ \E c \in Oldest : Become(r, Resolved(r, c))
     \/ Present = {} /\ Goto(r, "lock")
  /\ UNCHANGED <<store, claim, lock, made, recorded, where, serial, seen>>

TakeLock(r) ==
  /\ At(r, "lock")
  /\ lock[where[r]] = None
  /\ lock' = [lock EXCEPT ![where[r]] = r]
  /\ Goto(r, "recheck")
  /\ UNCHANGED <<store, claim, made, recorded, where, serial, seen>>

\* Mutation of RecheckDefault: the waiter for the lock does not look again.
NoRecheck(r) ==
  /\ At(r, "recheck")
  /\ Goto(r, "legacy")
  /\ UNCHANGED <<store, claim, lock, made, recorded, where, serial, seen>>

RecheckDefault(r) ==
  /\ At(r, "recheck")
  /\ \/ \E c \in Oldest : Become(r, Resolved(r, c)) /\ Unlock(r)
     \/ Present = {} /\ Goto(r, "legacy") /\ UNCHANGED lock
  /\ UNCHANGED <<store, claim, made, recorded, where, serial, seen>>

\* The flat history is read and a conversation object made for it.
ReadLegacy(r) ==
  /\ At(r, "legacy") /\ made < MaxConvs
  /\ made' = made + 1
  /\ Become(r, [th[r] EXCEPT !.old = legacy, !.own = made + 1,
                             !.pc = IF legacy = <<>> THEN "claim" ELSE "copy"])
  /\ UNCHANGED <<store, claim, lock, recorded, where, serial, seen>>

CopyLegacy(r) ==
  /\ At(r, "copy")
  /\ Push(th[r].own, th[r].old)
  /\ Goto(r, "claim")
  /\ UNCHANGED <<meta, convs, legacy, claim, lock, made, recorded, where, serial, seen>>

Claim(r) ==
  /\ At(r, "claim")
  /\ IF claim = None THEN claim' = th[r].own /\ Goto(r, "saveDefault")
                     ELSE UNCHANGED claim /\ Become(r, [th[r] EXCEPT !.pc = "wait", !.tries = 0])
  /\ UNCHANGED <<store, lock, made, recorded, where, serial, seen>>

\* The loser of the claim looks again; out of patience, it saves its own.
WaitForWinner(r) ==
  /\ At(r, "wait")
  /\ \/ /\ th[r].tries = MaxWaits
        /\ Goto(r, "saveDefault")
        /\ seen' = [seen EXCEPT !.gaveUp = TRUE]
        /\ UNCHANGED lock
     \/ /\ th[r].tries < MaxWaits
        /\ \/ \E c \in Oldest : Become(r, Resolved(r, c)) /\ Unlock(r)
           \/ Present = {} /\ Become(r, [th[r] EXCEPT !.tries = @ + 1]) /\ UNCHANGED lock
        /\ UNCHANGED seen
  /\ UNCHANGED <<store, claim, made, recorded, where, serial>>

\* Mutation of SaveDefault: this way out keeps the lock.
KeepsLock(r) ==
  LET own == th[r].own  old == th[r].old IN
  /\ At(r, "saveDefault")
  /\ Save(own, NewConv(IF old = <<>> THEN own ELSE 0, Len(old)))
  /\ Become(r, Resolved(r, own))
  /\ seen' = [seen EXCEPT !.defaults = @ \union {own}]
  /\ UNCHANGED <<meta, msgs, legacy, claim, lock, made, recorded, where, serial>>

SaveDefault(r) ==
  LET own == th[r].own  old == th[r].old IN
  /\ At(r, "saveDefault")
  /\ Save(own, NewConv(IF old = <<>> THEN own ELSE 0, Len(old)))
  /\ Become(r, Resolved(r, own))
  /\ Unlock(r)
  /\ seen' = [seen EXCEPT !.defaults = @ \union {own}]
  /\ UNCHANGED <<meta, msgs, legacy, claim, made, recorded, where, serial>>

\* The claim's 30 seconds are over, possibly before its holder has saved.
ClaimExpires ==
  /\ claim # None
  /\ claim' = None
  /\ seen' = [seen EXCEPT !.expired = @ \/ \E r \in Request :
                         th[r].pc \in {"legacy", "copy", "claim", "saveDefault"}]
  /\ UNCHANGED <<store, lock, made, th, recorded, where, serial>>

-----------------------------------------------------------------------------
(* attach_files, detach_file, update_session: the record read at the start,  *)
(* changed and written back whole.                                           *)

Changed(t) ==
  CASE t.op = "attach" -> [t.snap EXCEPT !.files = @ \union t.arg]
    [] t.op = "detach" -> [t.snap EXCEPT !.files = @ \ t.arg]
    [] t.op = "update" -> [t.snap EXCEPT !.files = t.arg, !.title = "given"]

Update(r) ==
  /\ At(r, "update")
  /\ meta' = Changed(th[r])
  /\ Goto(r, "done")
  /\ UNCHANGED <<convs, msgs, legacy, claim, lock, made, recorded, where, serial, seen>>

\* stamp_workspace_for_owner at start: the records are listed, then saved one by one.
ListForStamp(r) ==
  /\ At(r, "stamp")
  /\ Become(r, [th[r] EXCEPT !.snap = meta,
                             !.pc = IF meta = None \/ (meta # None /\ meta.workspace) THEN "done" ELSE "stampSave"])
  /\ UNCHANGED <<store, claim, lock, made, recorded, where, serial, seen>>

Stamp(r) ==
  /\ At(r, "stampSave")
  /\ meta' = [th[r].snap EXCEPT !.workspace = TRUE]
  /\ Goto(r, "done")
  /\ UNCHANGED <<convs, msgs, legacy, claim, lock, made, recorded, where, serial, seen>>

CreateConversation(r) ==
  /\ At(r, "create") /\ made < MaxConvs
  /\ made' = made + 1
  /\ Save(made + 1, NewConv(made + 1, 0))
  /\ Goto(r, "done")
  /\ UNCHANGED <<meta, msgs, legacy, claim, lock, recorded, where, serial, seen>>

\* rename_conversation: found in the list, saved whole.
FindForRename(r) ==
  /\ At(r, "rename")
  /\ IF th[r].conv \in Present
     THEN Become(r, [th[r] EXCEPT !.snap = convs[th[r].conv], !.pc = "renameSave"])
     ELSE Goto(r, "done")
  /\ UNCHANGED <<store, claim, lock, made, recorded, where, serial, seen>>

Rename(r) ==
  /\ At(r, "renameSave")
  /\ Save(th[r].conv, [th[r].snap EXCEPT !.title = "given"])
  /\ Goto(r, "done")
  /\ UNCHANGED <<meta, msgs, legacy, claim, lock, made, recorded, where, serial, seen>>

-----------------------------------------------------------------------------
(* delete_conversation and delete_session                                    *)
Emptied == [seen EXCEPT !.emptied = @ \/ (Present # {} /\ Present' = {})]

\* Mutation of GuardDelete: the last one may go.
DeletesLast(r) ==
  /\ At(r, "guard")
  /\ Goto(r, IF th[r].conv \notin Present THEN "done" ELSE "hdel")
  /\ UNCHANGED <<store, claim, lock, made, recorded, where, serial, seen>>

GuardDelete(r) ==
  /\ At(r, "guard")
  /\ Goto(r, IF Cardinality(Present) <= 1 \/ th[r].conv \notin Present THEN "done" ELSE "hdel")
  /\ UNCHANGED <<store, claim, lock, made, recorded, where, serial, seen>>

DropConversation(r) ==
  /\ At(r, "hdel")
  /\ Save(th[r].conv, None)
  /\ Goto(r, "delete")
  /\ seen' = [Emptied EXCEPT !.dropped = @ \union {th[r].conv}]
  /\ UNCHANGED <<meta, msgs, legacy, claim, lock, made, recorded, where, serial>>

DropMessages(r) ==
  /\ At(r, "delete")
  /\ msgs' = [msgs EXCEPT ![th[r].conv] = <<>>]
  /\ Goto(r, "done")
  /\ UNCHANGED <<meta, convs, legacy, claim, lock, made, recorded, where, serial, seen>>

ListIds(r) ==
  /\ At(r, "ids")
  /\ Become(r, [th[r] EXCEPT !.read = Present, !.pc = "delMeta"])
  /\ UNCHANGED <<store, claim, lock, made, recorded, where, serial, seen>>

DeleteMeta(r) ==
  /\ At(r, "delMeta")
  /\ meta' = None
  /\ Goto(r, "delConvs")
  /\ UNCHANGED <<convs, msgs, legacy, claim, lock, made, recorded, where, serial, seen>>

DeleteConvs(r) ==
  /\ At(r, "delConvs")
  /\ convs' = [c \in ConvIds |-> None]
  /\ Goto(r, "delLists")
  /\ seen' = Emptied
  /\ UNCHANGED <<meta, msgs, legacy, claim, lock, made, recorded, where, serial>>

\* One key after the other, in the order listed.
DeleteList(r) ==
  /\ At(r, "delLists")
  /\ \/ th[r].read = {} /\ legacy' = <<>> /\ Goto(r, "done") /\ UNCHANGED <<msgs, seen>>
     \/ \E c \in th[r].read :
          /\ \A d \in th[r].read : c <= d
          /\ msgs' = [msgs EXCEPT ![c] = <<>>]
          /\ Become(r, [th[r] EXCEPT !.read = @ \ {c}])
          /\ seen' = [seen EXCEPT !.dropped = @ \union {c}]
          /\ UNCHANGED legacy
  /\ UNCHANGED <<meta, convs, claim, lock, made, recorded, where, serial>>

-----------------------------------------------------------------------------
(* ChatPipeline.run: a model that cannot chat ends the turn with nothing     *)
(* kept; otherwise the question is appended, an outcome follows, is          *)
(* recorded, and its text (a refusal, an answer or what there was of one     *)
(* when generation failed) is appended.                                      *)
CheckModel(r) ==
  /\ At(r, "model")
  /\ Goto(r, "push")
  /\ UNCHANGED <<store, claim, lock, made, recorded, where, serial, seen>>

RejectModel(r) ==
  /\ At(r, "model")
  /\ Goto(r, "done")
  /\ UNCHANGED <<store, claim, lock, made, recorded, where, serial, seen>>

\* Mutation of PushMessage: the list is written anew, as _write_raw_messages does in memory.
WritesList(r) ==
  /\ At(r, "push")
  /\ msgs' = [msgs EXCEPT ![th[r].conv] = <<Message(r, th[r].role)>>]
  /\ Goto(r, "findConv")
  /\ seen' = [seen EXCEPT !.pushed = @ \union {<<r, th[r].role, th[r].conv>>}]
  /\ UNCHANGED <<meta, convs, legacy, claim, lock, made, recorded, where, serial>>

\* append_message: the list first, then the conversation's record, then the project's.
PushMessage(r) ==
  /\ At(r, "push")
  /\ Push(th[r].conv, <<Message(r, th[r].role)>>)
  /\ Goto(r, "findConv")
  /\ seen' = [seen EXCEPT !.pushed = @ \union {<<r, th[r].role, th[r].conv>>}]
  /\ UNCHANGED <<meta, convs, legacy, claim, lock, made, recorded, where, serial>>

FindConversation(r) ==
  /\ At(r, "findConv")
  /\ Become(r, IF th[r].conv \in Present
               THEN [th[r] EXCEPT !.snap = convs[th[r].conv], !.pc = "bumpConv"]
               ELSE [th[r] EXCEPT !.pc = "findMeta"])
  /\ UNCHANGED <<store, claim, lock, made, recorded, where, serial, seen>>

\* The counter, and the first question as title of an untitled record.
Bumped(rec, role) == [rec EXCEPT !.count = @ + 1,
                                 !.title = IF @ = "new" /\ role = "user" THEN "auto" ELSE @]

BumpConversation(r) ==
  /\ At(r, "bumpConv")
  /\ Save(th[r].conv, Bumped(th[r].snap, th[r].role))
  /\ Goto(r, "findMeta")
  /\ UNCHANGED <<meta, msgs, legacy, claim, lock, made, recorded, where, serial, seen>>

AfterAppend(role) == IF role = "user" THEN "generate" ELSE "done"
FindMeta(r) ==
  /\ At(r, "findMeta")
  /\ Become(r, [th[r] EXCEPT !.snap = meta,
                             !.pc = IF meta = None THEN AfterAppend(th[r].role) ELSE "bumpMeta"])
  /\ UNCHANGED <<store, claim, lock, made, recorded, where, serial, seen>>

BumpMeta(r) ==
  /\ At(r, "bumpMeta")
  /\ meta' = Bumped(th[r].snap, th[r].role)
  /\ Goto(r, AfterAppend(th[r].role))
  /\ UNCHANGED <<convs, msgs, legacy, claim, lock, made, recorded, where, serial, seen>>

\* Mutation of Generate: a turn is recorded after its answer, or never.
RecordsLater(r) ==
  /\ At(r, "generate")
  /\ Become(r, [th[r] EXCEPT !.role = "assistant", !.pc = "push"])
  /\ UNCHANGED <<store, claim, lock, made, recorded, where, serial, seen>>

Generate(r) ==
  /\ At(r, "generate")
  /\ recorded' = recorded \union {r}
  /\ Become(r, [th[r] EXCEPT !.role = "assistant", !.pc = "push"])
  /\ UNCHANGED <<store, claim, lock, made, where, serial, seen>>

\* _refuse: as an answer, the refusal is recorded before it is kept.
Refuse(r) ==
  /\ At(r, "generate")
  /\ recorded' = recorded \union {r}
  /\ Become(r, [th[r] EXCEPT !.role = "assistant", !.pc = "push"])
  /\ UNCHANGED <<store, claim, lock, made, where, serial, seen>>

\* The client closes the stream: the generator is closed where it yields.
ClientLeaves(r) ==
  /\ th[r].op = "chat"
  /\ th[r].pc \in {"model", "generate"}
  /\ Goto(r, "done")
  /\ UNCHANGED <<store, claim, lock, made, recorded, where, serial, seen>>

-----------------------------------------------------------------------------
Step(r) ==
  \/ Begin(r) \/ ReadMeta(r)
  \/ LookForDefault(r) \/ TakeLock(r) \/ RecheckDefault(r) \/ ReadLegacy(r) \/ CopyLegacy(r)
  \/ Claim(r) \/ WaitForWinner(r) \/ SaveDefault(r)
  \/ Update(r) \/ ListForStamp(r) \/ Stamp(r)
  \/ CreateConversation(r) \/ FindForRename(r) \/ Rename(r)
  \/ GuardDelete(r) \/ DropConversation(r) \/ DropMessages(r)
  \/ ListIds(r) \/ DeleteMeta(r) \/ DeleteConvs(r) \/ DeleteList(r)
  \/ CheckModel(r) \/ RejectModel(r) \/ PushMessage(r) \/ FindConversation(r) \/ BumpConversation(r)
  \/ FindMeta(r) \/ BumpMeta(r) \/ Generate(r) \/ Refuse(r)

Next == ClaimExpires \/ \E r \in Request : Step(r) \/ ClientLeaves(r)
\* Threads run; nothing makes a client leave or a claim expire.
Fairness == \A r \in Request : WF_vars(Step(r))
Spec == Init /\ [][Next]_vars /\ Fairness

-----------------------------------------------------------------------------

\* rpush and whole-key deletion are the only writers of a list: what a request
\* appended is there once, unless the list was deleted, whatever else ran.
MessagesStay ==
  \A p \in seen.pushed : p[3] \in seen.dropped \/
    Cardinality({i \in DOMAIN msgs[p[3]] : msgs[p[3]][i] = Message(p[1], p[2])}) = 1

\* An answer stands behind its own question and was recorded before it was kept;
\* a question may stay without an answer (the client left), never the reverse.
AnswersFollowQuestions ==
  \A c \in ConvIds \ seen.dropped : \A i \in DOMAIN msgs[c] :
    LET a == msgs[c][i] IN a.role = "assistant" =>
      /\ a.turn \in recorded
      /\ \E j \in 1 .. (i - 1) : msgs[c][j] = Message(a.turn, "user")

\* The lock of a process and the claim across processes let one request make the
\* default conversation (and so fold the flat history in once).  The three ways
\* out are named: a loser ran out of patience, the claim ran out under a holder,
\* or deletions took the last conversation away.
OneDefault ==
  Cardinality(seen.defaults) <= 1 \/ seen.gaveUp \/ seen.expired \/ seen.emptied

\* Every request ends: the waits are bounded, and every way out of the resolution
\* of the default gives the lock back.
RequestsEnd == \A r \in Request : <>(th[r].pc = "done")

\* What the project shows: the documents attached and the messages of each conversation.
Alive == meta # None
Files == IF meta = None THEN {} ELSE meta.files
Log == IF meta = None THEN <<>> ELSE [c \in Present |-> msgs[c]]
Asked == {<<th[r].op, th[r].arg>> : r \in {q \in Request : Active(q)}}

\* What one request at a time does is one step of Project.
P == INSTANCE Project WITH alive <- Alive, files <- Files, log <- Log, old <- legacy, asked <- Asked

ServedOneByOne == [][serial => P!Next]_<<meta, convs, msgs>>
=============================================================================
