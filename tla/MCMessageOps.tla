----------------------------- MODULE MCMessageOps -----------------------------
EXTENDS MessageOps, TLC
CONSTANTS p, g, e1, e2, e3, r1, r2, s1, t1, t2, a1, a2, a3, a4, i1, i2, c1, c2, c3

\* A private message p with two edits, one at each instance, and a group message
\* g with one; each is recalled once.
OnDef(q) == IF q \in {e3, r2, a3, a4} THEN g ELSE p
AtDef(q) == IF q \in {e2, t2, a2, a4} THEN i2 ELSE i1
PoolDef(i) == IF i = i1 THEN {c1, c2} ELSE {c3}
SeatDef(m) == i1
Symmetric == Permutations({c1, c2})
===============================================================================
