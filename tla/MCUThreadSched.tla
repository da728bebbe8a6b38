---------------------------- MODULE MCUThreadSched ----------------------------
EXTENDS UThreadSched

CONSTANTS t1, t2, m1, m2

MCMain == [t \in OSThreads |-> IF t = t1 THEN m1 ELSE m2]

MCInitCount == [s \in Semas |-> IF s \in Locks THEN 1 ELSE 0]
==============================================================================
