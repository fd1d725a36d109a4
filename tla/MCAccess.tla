------------------------------ MODULE MCAccess ------------------------------
EXTENDS Access, TLC

CONSTANTS u1, u2, d1, p1, p2, s1, n1, r1, r2

MCNameOf == [d \in Doc |-> n1]
MCSymmetry == Permutations({u1, u2}) \union Permutations({r1, r2}) \union Permutations({p1, p2})
=============================================================================
