----------------------------- MODULE MCStackScan -----------------------------
EXTENDS StackScan, TLC

CONSTANTS t1, t2, m1, m2

MCMain == [t \in OSThreads |-> IF t = t1 THEN m1 ELSE m2]

Symmetry == Permutations(UThreads \ {m1, m2})
==============================================================================
