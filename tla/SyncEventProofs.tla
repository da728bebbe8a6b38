--------------------------- MODULE SyncEventProofs ---------------------------
(***************************************************************************)
(* Proofs about SyncEvent: nobody is suspended outside the queue, and on a *)
(* single OS thread nobody waits for an event that is set.                 *)
(***************************************************************************)
EXTENDS SyncEvent, QueueLemmas

\* All users of the event belong to one OS thread.
OneOSThread == \A u, v \in UThreads : OSThread[u] = OSThread[v]

\* SetFlag, Clear and WaitTest need an OS thread that is in no call, so that a
\* UThread that has read s = 0 still finds it so when it queues up.
TestHolds == \A u \in UThreads : pc[u] = "enqueue" => s = 0

\* Sync.cpp:82-118: whoever wait() suspends is in the queue, once, until a
\* set() takes it out.
THEOREM SuspendedIsInQueue == Spec => [](TypeOK /\ SuspendedIsQueued)
<1> DEFINE Inv == TypeOK /\ SuspendedIsQueued
<1>1. Init => Inv
  <2> SUFFICES ASSUME Init PROVE Inv
    OBVIOUS
  <2>1. TypeOK
    BY EmptySeq DEF Init, TypeOK, PCs
  <2>2. SuspendedIsQueued
    BY DEF Init, SuspendedIsQueued, IsInjective, Range
  <2> QED
    BY <2>1, <2>2
<1>2. Inv /\ [Next]_vars => Inv'
  <2> SUFFICES ASSUME Inv, [Next]_vars PROVE Inv'
    OBVIOUS
  <2> USE DEF TypeOK, SuspendedIsQueued
  <2>1. CASE UNCHANGED vars
    BY <2>1 DEF vars
  <2>2. ASSUME NEW u \in UThreads, SetFlag(u) PROVE Inv'
    <3>1. Range(waiting) \subseteq UThreads
      OBVIOUS
    <3> QED
      BY <2>2, <3>1 DEF SetFlag, Goto, PCs
  <2>3. ASSUME NEW u \in UThreads, SetLock(u) PROVE Inv'
    BY <2>3 DEF SetLock, Goto, PCs
  <2>4. ASSUME NEW u \in UThreads, SetWake(u) PROVE Inv'
    <3>1. /\ Tail(waiting) \in Seq(UThreads) /\ IsInjective(Tail(waiting))
          /\ Head(waiting) \in Range(waiting)
          /\ Range(Tail(waiting)) = Range(waiting) \ {Head(waiting)}
      BY <2>4, DistinctTail DEF SetWake
    <3> QED
      BY <2>4, <3>1 DEF SetWake, Goto, PCs
  <2>5. ASSUME NEW u \in UThreads, SetDone(u) PROVE Inv'
    BY <2>5 DEF SetDone, Goto, PCs
  <2>6. ASSUME NEW u \in UThreads, Clear(u) PROVE Inv'
    BY <2>6 DEF Clear
  <2>7. ASSUME NEW u \in UThreads, WaitTest(u) PROVE Inv'
    BY <2>7 DEF WaitTest, Goto, PCs
  <2>8. ASSUME NEW u \in UThreads, WaitEnqueue(u) PROVE Inv'
    <3>1. u \notin Range(waiting)
      BY <2>8 DEF WaitEnqueue
    <3>2. /\ Append(waiting, u) \in Seq(UThreads)
          /\ IsInjective(Append(waiting, u))
          /\ Range(Append(waiting, u)) = Range(waiting) \union {u}
      BY <3>1, DistinctAppend
    <3> QED
      BY <2>8, <3>2 DEF WaitEnqueue, Goto, PCs
  <2>9. ASSUME NEW u \in UThreads, WaitReturn(u) PROVE Inv'
    BY <2>9 DEF WaitReturn, Goto, PCs
  <2> QED
    BY <2>1, <2>2, <2>3, <2>4, <2>5, <2>6, <2>7, <2>8, <2>9 DEF Next, Internal
<1> QED
  BY <1>1, <1>2, PTL DEF Spec

\* The queue holds UThreads and the lock one of them, whatever calls overlap.
THEOREM TypeCorrect == Spec => []TypeOK
BY SuspendedIsInQueue, PTL

\* Sync.h:83-84 holds as long as all users of an event belong to one OS thread,
\* however many they are: nobody waits for an event that is set.
THEOREM OneThreadNeverStalls ==
  ASSUME OneOSThread
  PROVE  Spec => []NobodyWaitsWhenSet
<1> DEFINE Queue == TypeOK /\ SuspendedIsQueued
           Inv == NobodyWaitsWhenSet /\ TestHolds
<1>1. Init => Inv
  BY DEF Init, NobodyWaitsWhenSet, TestHolds
<1>2. Queue /\ Inv /\ [Next]_vars => Inv'
  <2> SUFFICES ASSUME Queue, Inv, [Next]_vars PROVE Inv'
    OBVIOUS
  <2> USE DEF NobodyWaitsWhenSet, TestHolds
  <2>0. pc \in [UThreads -> PCs]
    BY DEF TypeOK
  <2>1. CASE UNCHANGED vars
    BY <2>1 DEF vars
  <2>2. ASSUME NEW u \in UThreads, SetFlag(u) PROVE Inv'
    <3>1. \A v \in UThreads \ {u} : pc[v] # "enqueue"
      BY <2>2, OneOSThread DEF OneOSThread, SetFlag, Runs, InCall
    <3> QED
      BY <2>0, <2>2, <3>1 DEF SetFlag, Goto
  <2>3. ASSUME NEW u \in UThreads, SetLock(u) PROVE Inv'
    BY <2>0, <2>3 DEF SetLock, Goto
  <2>4. ASSUME NEW u \in UThreads, SetWake(u) PROVE Inv'
    <3>1. Head(waiting) \in Range(waiting)
      BY <2>4, DistinctTail DEF SetWake, TypeOK, SuspendedIsQueued
    <3>2. Head(waiting) \in UThreads /\ pc[Head(waiting)] = "suspended"
      BY <3>1 DEF SuspendedIsQueued
    <3> QED
      BY <2>0, <2>4, <3>2 DEF SetWake, Goto
  <2>5. ASSUME NEW u \in UThreads, SetDone(u) PROVE Inv'
    BY <2>0, <2>5 DEF SetDone, Goto
  <2>6. ASSUME NEW u \in UThreads, Clear(u) PROVE Inv'
    BY <2>0, <2>6 DEF Clear
  <2>7. ASSUME NEW u \in UThreads, WaitTest(u) PROVE Inv'
    BY <2>0, <2>7 DEF WaitTest, Goto
  <2>8. ASSUME NEW u \in UThreads, WaitEnqueue(u) PROVE Inv'
    BY <2>0, <2>8 DEF WaitEnqueue, Goto
  <2>9. ASSUME NEW u \in UThreads, WaitReturn(u) PROVE Inv'
    BY <2>0, <2>9 DEF WaitReturn, Goto
  <2> QED
    BY <2>1, <2>2, <2>3, <2>4, <2>5, <2>6, <2>7, <2>8, <2>9 DEF Next, Internal
<1>3. Inv => NobodyWaitsWhenSet
  OBVIOUS
<1> QED
  BY <1>1, <1>2, <1>3, SuspendedIsInQueue, PTL DEF Spec
==============================================================================
