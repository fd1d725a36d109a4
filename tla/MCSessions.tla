----------------------------- MODULE MCSessions -----------------------------
EXTENDS Sessions, TLC

CONSTANTS r1, r2

MCOps == (r1 :> AllOps) @@ (r2 :> AllOps)

\* A project from before conversations, and one with two of them.
Old(i) == [turn |-> None, role |-> "old", n |-> i]
OldTurn == <<Old(1), Old(2)>>
MCStarts ==
  { [lists |-> <<>>, legacy |-> OldTurn],
    [lists |-> <<OldTurn, <<>>>>, legacy |-> OldTurn] }
=============================================================================
