--------------------------- MODULE MCWebConnector ---------------------------
(* Sites and owners for the runs of WebConnector. *)
EXTENDS WebConnector, TLC

CONSTANTS u1, u2, u3, c1, c2, o1, o2

\* Pages link to one another and, in their menus, to themselves.
AllPages == [u \in Urls |-> Urls]

\* One page is where another's redirect ends.
Redirect == [u \in Urls |-> IF u = u3 THEN u2 ELSE u]

OneOwner == [c \in Connectors |-> o1]
TwoOwners == [c \in Connectors |-> IF c = c1 THEN o1 ELSE o2]

Symmetry == Permutations(Handlers) \cup Permutations(Contents)
=============================================================================
