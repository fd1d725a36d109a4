------------------------------- MODULE Project -------------------------------
(***************************************************************************)
(* What SessionManager promises of one project to a user who waits for     *)
(* each answer: documents attached stay attached until they are detached,  *)
(* a conversation only grows, the last one is kept, and a project that is  *)
(* deleted is gone.                                                        *)
(***************************************************************************)
EXTENDS Integers, Sequences

CONSTANT File
VARIABLES
  alive, files, log, old,
  asked       \* what is being asked: the operation and the documents of each request

vars == <<alive, files, log, old>>

Asks(op, F) == <<op, F>> \in asked

Attach == \E f \in File : Asks("attach", {f}) /\ files' = files \union {f} /\ UNCHANGED <<alive, log, old>>
Detach == \E f \in File : Asks("detach", {f}) /\ files' = files \ {f} /\ UNCHANGED <<alive, log, old>>
SetFiles == \E F \in SUBSET File : Asks("update", F) /\ files' = F /\ UNCHANGED <<alive, log, old>>

\* The first look at a project without conversations gives it one, with the
\* flat history it had.
FirstLook ==
  /\ log = <<>>
  /\ \E c \in DOMAIN log' : log' = [d \in {c} |-> old]
  /\ UNCHANGED <<alive, files, old>>
NewConversation ==
  /\ Asks("newConv", {})
  /\ \E c \in DOMAIN log' \ DOMAIN log :
       log' = [d \in DOMAIN log \union {c} |-> IF d = c THEN <<>> ELSE log[d]]
  /\ UNCHANGED <<alive, files, old>>
\* A question nobody asked here before, or the answer right behind its question.
AppendMessage ==
  /\ Asks("chat", {})
  /\ \E c \in DOMAIN log :
       LET s == log[c]  m == log'[c][Len(s) + 1] IN
       /\ DOMAIN log' = DOMAIN log /\ Len(log'[c]) = Len(s) + 1
       /\ log' = [log EXCEPT ![c] = Append(s, m)]
       /\ \/ m.role = "user" /\ \A i \in DOMAIN s : s[i] # m
          \/ m.role = "assistant" /\ s # <<>> /\ s[Len(s)] = [m EXCEPT !.role = "user"]
  /\ UNCHANGED <<alive, files, old>>
DeleteConversation ==
  /\ Asks("delConv", {})
  /\ \E c \in DOMAIN log : DOMAIN log # {c} /\ log' = [d \in DOMAIN log \ {c} |-> log[d]]
  /\ UNCHANGED <<alive, files, old>>
Delete == Asks("delSession", {}) /\ ~alive' /\ files' = {} /\ log' = <<>> /\ UNCHANGED old

Next ==
  \/ alive /\ (Attach \/ Detach \/ SetFiles \/ FirstLook \/ NewConversation
                \/ AppendMessage \/ DeleteConversation \/ Delete)
  \/ UNCHANGED <<alive, files, log>>    \* reads, titles, and what a deletion leaves behind
=============================================================================
