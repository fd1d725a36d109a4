----------------------------- MODULE DocumentSet -----------------------------
(***************************************************************************)
(* What BM25Store promises those who call it: a set of documents, one      *)
(* added or removed at a time, that nothing else changes.                  *)
(***************************************************************************)
CONSTANT Docs

VARIABLE docs

Init == docs = {}

IndexDocument(d) == docs' = docs \cup {d}
RemoveDocument(d) == docs' = docs \ {d}

Next == \E d \in Docs : IndexDocument(d) \/ RemoveDocument(d)

Spec == Init /\ [][Next]_docs
=============================================================================
