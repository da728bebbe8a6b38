----------------------------- MODULE MCSyncEvent -----------------------------
EXTENDS SyncEvent, TLC

CONSTANTS t1, t2, a, b, c

MCTwoOSThreads == [u \in UThreads |-> IF u = a THEN t1 ELSE t2]
==============================================================================
