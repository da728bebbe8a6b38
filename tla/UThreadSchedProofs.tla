-------------------------- MODULE UThreadSchedProofs --------------------------
(***************************************************************************)
(* Theorems about the cooperative scheduler, for every number of OS        *)
(* threads, UThreads, semaphores and locks: first that no permit and no    *)
(* wake-up of a semaphore is lost, then where the UThreads are: that each  *)
(* is in one list at most, that none is used after its exit, that a permit *)
(* has one owner and is never left unused, that the sleepers are in order  *)
(* and that the count of the UThreads of an OS thread is right.            *)
(***************************************************************************)
EXTENDS UThreadSched, QueueLemmas, FiniteSetTheorems

LEMMA InitType == Init => TypeOK
BY SchedAssumption DEF Init, TypeOK, PCs, Sleeper

\* The steps that move sleepers to the ready list.
LEMMA WakeThreadsType ==
  ASSUME TypeOK, NEW t \in OSThreads, WakeThreads(t)
  PROVE  /\ ready' \in [OSThreads -> Seq(UThreads)]
         /\ sleeping' \in [OSThreads -> Seq(Sleeper)]
         /\ token' \in [OSThreads -> BOOLEAN]
<1>1. PICK k \in 0..Len(sleeping[t]) :
        /\ CutAt(sleeping[t], k, now + 1)
        /\ ready' = [ready EXCEPT ![t] = @ \o [i \in 1..k |-> sleeping[t][i].who]]
        /\ sleeping' = [sleeping EXCEPT ![t] = SubSeq(@, k + 1, Len(@))]
        /\ token' = [token EXCEPT ![t] = @ \/ k > 0]
  BY DEF WakeThreads
<1>2. sleeping[t] \in Seq(Sleeper) /\ ready[t] \in Seq(UThreads)
  BY DEF TypeOK
<1>3. SubSeq(sleeping[t], k + 1, Len(sleeping[t])) \in Seq(Sleeper)
  BY <1>2
<1>4. [i \in 1..k |-> sleeping[t][i].who] \in Seq(UThreads)
  <2>1. \A i \in 1..k : sleeping[t][i].who \in UThreads
    <3>1. TAKE i \in 1..k
    <3>2. i \in 1..Len(sleeping[t])
      BY <1>2
    <3>3. sleeping[t][i] \in Sleeper
      BY <1>2, <3>2, ElementOfSeq
    <3> QED BY <3>3 DEF Sleeper
  <2>2. [i \in 1..k |-> sleeping[t][i].who] \in [1..k -> UThreads]
    BY <2>1
  <2>3. k \in Nat
    BY <1>2
  <2> QED BY <2>2, <2>3, SeqDef
<1>5. ready[t] \o [i \in 1..k |-> sleeping[t][i].who] \in Seq(UThreads)
  BY <1>2, <1>4
<1> QED BY <1>1, <1>3, <1>5 DEF TypeOK

LEMMA StepType == TypeOK /\ [Next]_vars => TypeOK'
<1> SUFFICES ASSUME TypeOK, [Next]_vars PROVE TypeOK'
  OBVIOUS
<1> USE SchedAssumption
<1>1. ASSUME NEW t \in OSThreads, NEW u \in UThreads, WakePush(t, u) PROVE TypeOK'
  <2>1. target[u] \in UThreads
    BY <1>1 DEF WakePush, At, TypeOK
  <2>2. \A t2 \in OSThreads : Append(ready[t2], target[u]) \in Seq(UThreads)
    BY <2>1 DEF TypeOK
  <2>3. ready' \in [OSThreads -> Seq(UThreads)]
    BY <1>1, <2>2 DEF WakePush, TypeOK
  <2> QED BY <1>1, <2>1, <2>3 DEF WakePush, At, Goto, TypeOK, PCs, semaVars
<1>2. ASSUME NEW t \in OSThreads, NEW u \in UThreads, WakeSignal(t, u) PROVE TypeOK'
  BY <1>2 DEF WakeSignal, At, Goto, TypeOK, PCs, semaVars
<1>3. ASSUME NEW t \in OSThreads, NEW u \in UThreads, Unlock(t, u) PROVE TypeOK'
  BY <1>3 DEF Unlock, At, Goto, TypeOK, PCs, schedVars
<1>4. ASSUME NEW t \in OSThreads, NEW u \in UThreads, LeaveSwitch(t, u) PROVE TypeOK'
  BY <1>4 DEF LeaveSwitch, At, Goto, TypeOK, PCs, semaVars
<1>5. ASSUME NEW t \in OSThreads, NEW u \in UThreads, LeaveNothing(t, u) PROVE TypeOK'
  BY <1>5 DEF LeaveNothing, At, Goto, TypeOK, PCs, schedVars, semaVars
<1>6. ASSUME NEW t \in OSThreads, NEW u \in UThreads, Resume(t, u) PROVE TypeOK'
  <2>1. /\ ready' \in [OSThreads -> Seq(UThreads)]
        /\ sleeping' \in [OSThreads -> Seq(Sleeper)]
        /\ token' \in [OSThreads -> BOOLEAN]
    BY <1>6, WakeThreadsType DEF Resume, ReapTo
  <2>2. exited' \in [OSThreads -> Seq(UThreads)]
    BY <1>6 DEF Resume, ReapTo, TypeOK
  <2> QED BY <1>6, <2>1, <2>2 DEF Resume, ReapTo, At, TypeOK, PCs, semaVars
<1>7. ASSUME NEW t \in OSThreads, NEW u \in UThreads, WaitSwitch(t, u) PROVE TypeOK'
  BY <1>7 DEF WaitSwitch, At, Goto, TypeOK, PCs, semaVars
<1>8. ASSUME NEW t \in OSThreads, NEW u \in UThreads, ExitSwitch(t, u) PROVE TypeOK'
  BY <1>8 DEF ExitSwitch, At, Goto, TypeOK, PCs, semaVars
<1>9. ASSUME NEW t \in OSThreads, NEW u \in UThreads, Block(t, u) PROVE TypeOK'
  BY <1>9 DEF Block, At, Goto, TypeOK, PCs, schedVars, semaVars
<1>10. ASSUME NEW t \in OSThreads, NEW u \in UThreads,
              PollToken(t, u) \/ PollTimer(t, u) \/ PollIo(t, u) PROVE TypeOK'
  BY <1>10 DEF PollToken, PollTimer, PollIo, Polled, AfterPoll, Polling, Goto,
               TypeOK, PCs, semaVars
<1>11. ASSUME NEW t \in OSThreads, NEW u \in UThreads, PollDone(t, u) PROVE TypeOK'
  <2>1. /\ ready' \in [OSThreads -> Seq(UThreads)]
        /\ sleeping' \in [OSThreads -> Seq(Sleeper)]
        /\ token' \in [OSThreads -> BOOLEAN]
    BY <1>11, WakeThreadsType DEF PollDone
  <2>2. pc' \in [UThreads -> PCs]
    BY <1>11 DEF PollDone, Goto, TypeOK, PCs
  <2>3. \A v \in UThreads : pc'[v] \in {"wakePush", "wakeSignal"} =>
                              pc[v] \in {"wakePush", "wakeSignal"}
    BY <1>11 DEF PollDone, Goto, TypeOK
  <2> QED BY <1>11, <2>1, <2>2, <2>3 DEF PollDone, TypeOK, semaVars
<1>12. ASSUME NEW t \in OSThreads, NEW u \in UThreads, LeaveReap(t, u) PROVE TypeOK'
  BY <1>12, WakeThreadsType DEF LeaveReap, ReapTo, At, TypeOK, PCs, semaVars
<1>13. ASSUME NEW t \in OSThreads, NEW u \in UThreads, Exit(t, u) PROVE TypeOK'
  BY <1>13 DEF Exit, At, Goto, TypeOK, PCs, schedVars, semaVars
<1>14. ASSUME NEW t \in OSThreads, NEW u \in UThreads, NEW v \in UThreads,
              NEW d \in OSThreads, Spawn(t, u, v, d) PROVE TypeOK'
  <2>1. u # v
    BY <1>14 DEF Spawn, At
  <2>2. pc' \in [UThreads -> PCs]
    BY <1>14 DEF Spawn, TypeOK, PCs
  <2>3. owner' \in [UThreads -> OSThreads \union {NoOSThread}]
    BY <1>14 DEF Spawn, TypeOK
  <2>4. aliveCount' \in [OSThreads -> Int]
    BY <1>14 DEF Spawn, TypeOK
  <2> QED BY <1>14, <2>1, <2>2, <2>3, <2>4 DEF Spawn, TypeOK, semaVars
<1>15. ASSUME NEW t \in OSThreads, NEW u \in UThreads, NEW s \in Semas,
              DownTake(t, u, s) PROVE TypeOK'
  BY <1>15 DEF DownTake, At, TypeOK, schedVars
<1>16. ASSUME NEW t \in OSThreads, NEW u \in UThreads, NEW s \in Semas,
              DownWait(t, u, s) PROVE TypeOK'
  BY <1>16 DEF DownWait, At, Goto, TypeOK, PCs, schedVars
<1>17. ASSUME NEW t \in OSThreads, NEW u \in UThreads, NEW s \in Semas,
              UpCount(t, u, s) PROVE TypeOK'
  BY <1>17 DEF UpCount, At, TypeOK, schedVars
<1>18. ASSUME NEW t \in OSThreads, NEW u \in UThreads, NEW s \in Semas,
              UpPop(t, u, s) PROVE TypeOK'
  BY <1>18 DEF UpPop, At, Goto, TypeOK, PCs, schedVars
<1>19. ASSUME NEW t \in OSThreads, NEW u \in UThreads, NEW d \in Delays,
              Sleep(t, u, d) PROVE TypeOK'
  <2>1. PICK k \in 0..Len(sleeping[t]) :
          sleeping' = [sleeping EXCEPT ![t] =
            SubSeq(@, 1, k) \o <<[who |-> u, until |-> now + d]>>
                            \o SubSeq(@, k + 1, Len(@))]
    BY <1>19 DEF Sleep
  <2>2. sleeping[t] \in Seq(Sleeper)
    BY DEF TypeOK
  <2>3. [who |-> u, until |-> now + d] \in Sleeper
    BY DEF TypeOK, Sleeper
  <2>4. SubSeq(sleeping[t], 1, k) \o <<[who |-> u, until |-> now + d]>>
          \o SubSeq(sleeping[t], k + 1, Len(sleeping[t])) \in Seq(Sleeper)
    BY <2>2, <2>3
  <2>5. sleeping' \in [OSThreads -> Seq(Sleeper)]
    BY <2>1, <2>4 DEF TypeOK
  <2> QED BY <1>19, <2>5 DEF Sleep, At, Goto, TypeOK, PCs, semaVars
<1>20. CASE Tick
  BY <1>20 DEF Tick, TypeOK, schedVars, semaVars, localVars
<1>21. CASE UNCHANGED vars
  BY <1>21 DEF vars, TypeOK, schedVars, semaVars, localVars
<1> QED
  BY <1>1, <1>2, <1>3, <1>4, <1>5, <1>6, <1>7, <1>8, <1>9, <1>10, <1>11, <1>12,
     <1>13, <1>14, <1>15, <1>16, <1>17, <1>18, <1>19, <1>20, <1>21
  DEF Next, Internal, Client, Down, Up

\* The types of the variables of UThreadState, UThreadData and Sema.
THEOREM TypeCorrect == Spec => []TypeOK
BY InitType, StepType, PTL DEF Spec

-----------------------------------------------------------------------------
(* No lost wake-up.  The property speaks of the running UThread of an OS     *)
(* thread, and a switch replaces it by the head of a ready list: so the      *)
(* invariant says whose UThreads the lists hold, that nobody but the running *)
(* UThread is asleep in waitForWork, and that reap() gives up nobody who is  *)
(* still doing something.                                                    *)

Mine(t) == {u \in UThreads : owner[u] = t}

MySleeper(t) == [who : Mine(t), until : Nat]

MyDead(t) == {u \in Mine(t) : pc[u] = "dead"}

Owned ==
  /\ \A t \in OSThreads :
       /\ running[t] \in Mine(t)
       /\ ready[t] \in Seq(Mine(t))
       /\ sleeping[t] \in Seq(MySleeper(t))
       /\ exited[t] \in Seq(MyDead(t))
  /\ \A u \in UThreads : pc[u] = "unborn" => owner[u] = NoOSThread

PollersRun ==
  \A u \in UThreads :
    pc[u] \in Polling => owner[u] \in OSThreads /\ running[owner[u]] = u

WakeInv == TypeOK /\ Owned /\ PollersRun /\ NoLostWakeup

LEMMA InitWake == Init => WakeInv
<1> SUFFICES ASSUME Init PROVE WakeInv
  OBVIOUS
<1> USE SchedAssumption
<1>1. TypeOK
  BY InitType
<1>2. \A t \in OSThreads : Main[t] \in Mine(t)
  BY DEF Init, Mine
<1>3. Owned
  BY <1>2 DEF Init, Owned
<1>4. PollersRun
  BY DEF Init, PollersRun, Polling
<1>5. NoLostWakeup
  BY DEF Init, NoLostWakeup
<1> QED BY <1>1, <1>3, <1>4, <1>5 DEF WakeInv

\* Moving sleepers to the ready list keeps them on their OS thread.
LEMMA WakeThreadsOwned ==
  ASSUME TypeOK, Owned, NEW t \in OSThreads, WakeThreads(t)
  PROVE  /\ \A t2 \in OSThreads : ready'[t2] \in Seq(Mine(t2))
         /\ \A t2 \in OSThreads : sleeping'[t2] \in Seq(MySleeper(t2))
         /\ \A t2 \in OSThreads \ {t} : ready'[t2] = ready[t2] /\ token'[t2] = token[t2]
<1>1. PICK k \in 0..Len(sleeping[t]) :
        /\ ready' = [ready EXCEPT ![t] = @ \o [i \in 1..k |-> sleeping[t][i].who]]
        /\ sleeping' = [sleeping EXCEPT ![t] = SubSeq(@, k + 1, Len(@))]
        /\ token' = [token EXCEPT ![t] = @ \/ k > 0]
  BY DEF WakeThreads
<1> DEFINE w == [i \in 1..k |-> sleeping[t][i].who]
<1>2. sleeping[t] \in Seq(MySleeper(t)) /\ ready[t] \in Seq(Mine(t)) /\ k \in Nat
  BY DEF Owned
<1>3. w \in Seq(Mine(t))
  <2>1. ASSUME NEW i \in 1..k PROVE sleeping[t][i].who \in Mine(t)
    <3>1. i \in 1..Len(sleeping[t])
      BY <1>2
    <3>2. sleeping[t][i] \in MySleeper(t)
      BY <1>2, <3>1, ElementOfSeq
    <3> QED BY <3>2 DEF MySleeper
  <2>2. w \in [1..k -> Mine(t)]
    BY <2>1
  <2> QED BY <2>2, <1>2, SeqDef
<1> HIDE DEF w
<1>4. ready[t] \o w \in Seq(Mine(t))
  BY <1>2, <1>3
<1>5. SubSeq(sleeping[t], k + 1, Len(sleeping[t])) \in Seq(MySleeper(t))
  BY <1>2
<1>6. ready' = [ready EXCEPT ![t] = ready[t] \o w]
  BY <1>1 DEF w
<1>7. \A t2 \in OSThreads : ready'[t2] \in Seq(Mine(t2))
  BY <1>4, <1>6 DEF Owned, TypeOK
<1>8. \A t2 \in OSThreads : sleeping'[t2] \in Seq(MySleeper(t2))
  BY <1>1, <1>5 DEF Owned, TypeOK
<1>9. \A t2 \in OSThreads \ {t} : ready'[t2] = ready[t2] /\ token'[t2] = token[t2]
  BY <1>1, <1>6 DEF TypeOK
<1> QED BY <1>7, <1>8, <1>9

\* A step that moves nobody to another OS thread, and lets the dead be, only has
\* to account for what it puts into the lists.
LEMMA OwnedStep ==
  ASSUME TypeOK, Owned, UNCHANGED owner,
         \A t \in OSThreads : running'[t] \in Mine(t),
         \A t \in OSThreads : ready'[t] \in Seq(Mine(t)),
         \A t \in OSThreads : sleeping'[t] \in Seq(MySleeper(t)),
         \A t \in OSThreads :
           \/ exited'[t] \in Seq(MyDead(t)')
           \/ exited'[t] = exited[t] /\ MyDead(t) \subseteq MyDead(t)',
         \A u \in UThreads : pc'[u] = "unborn" => pc[u] = "unborn"
  PROVE  Owned'
<1>1. \A t \in OSThreads : Mine(t)' = Mine(t) /\ MySleeper(t)' = MySleeper(t)
  BY DEF Mine, MySleeper
<1>2. \A t \in OSThreads : exited'[t] \in Seq(MyDead(t)')
  <2> SUFFICES ASSUME NEW t \in OSThreads PROVE exited'[t] \in Seq(MyDead(t)')
    OBVIOUS
  <2>1. CASE exited'[t] \in Seq(MyDead(t)')
    BY <2>1
  <2>2. CASE exited'[t] = exited[t] /\ MyDead(t) \subseteq MyDead(t)'
    BY <2>2, SeqMonotonic DEF Owned
  <2> QED BY <2>1, <2>2
<1> QED BY <1>1, <1>2 DEF Owned

\* What keeps an OS thread signalled.
LEMMA StaysSignalled ==
  ASSUME TypeOK, NEW t \in OSThreads, Signalled(t), token'[t] = token[t],
         \A x \in UThreads : pc[x] = "wakeSignal" =>
           /\ pc'[x] = "wakeSignal" /\ target'[x] = target[x]
           /\ owner[target[x]] = t => owner'[target[x]] = t
  PROVE  Signalled(t)'
BY DEF Signalled

LEMMA StepWake == WakeInv /\ [Next]_vars => WakeInv'
<1> SUFFICES ASSUME WakeInv, [Next]_vars PROVE Owned' /\ PollersRun' /\ NoLostWakeup'
  BY StepType DEF WakeInv
<1> USE SchedAssumption
<1>0. TypeOK /\ Owned /\ PollersRun /\ NoLostWakeup
  BY DEF WakeInv
<1>1. ASSUME NEW t \in OSThreads, NEW u \in UThreads, WakePush(t, u)
      PROVE  Owned' /\ PollersRun' /\ NoLostWakeup'
  <2> DEFINE v == target[u]
  <2>1. /\ UNCHANGED <<running, exited, sleeping, owner, token, target>>
        /\ pc[u] = "wakePush" /\ pc'[u] = "wakeSignal" /\ v \in UThreads
        /\ \A x \in UThreads \ {u} : pc'[x] = pc[x]
        /\ ready' = [ready EXCEPT ![owner[v]] = Append(@, v)]
    BY <1>0, <1>1 DEF WakePush, At, Goto, TypeOK
  <2>2. Owned'
    <3>1. v \in Mine(owner[v])
      BY <2>1 DEF Mine
    <3>2. \A t2 \in OSThreads : ready'[t2] \in Seq(Mine(t2))
      BY <1>0, <2>1, <3>1 DEF Owned, TypeOK
    <3>3. \A t2 \in OSThreads : MyDead(t2) \subseteq MyDead(t2)'
      BY <2>1 DEF MyDead, Mine
    <3> QED BY <1>0, <2>1, <3>2, <3>3, OwnedStep DEF Owned
  <2>3. PollersRun'
    BY <1>0, <2>1 DEF PollersRun, Polling
  <2>4. NoLostWakeup'
    <3> SUFFICES ASSUME NEW t2 \in OSThreads, pc'[running'[t2]] \in Polling,
                        ready'[t2] # <<>>
                 PROVE  Signalled(t2)'
      BY DEF NoLostWakeup
    <3>1. CASE t2 = owner[v]
      BY <2>1, <3>1 DEF Signalled
    <3>2. CASE t2 # owner[v]
      <4>1. pc[running[t2]] \in Polling /\ ready[t2] # <<>>
        BY <1>0, <2>1, <3>2 DEF Polling, TypeOK
      <4>2. Signalled(t2)
        BY <1>0, <4>1 DEF NoLostWakeup
      <4> QED BY <1>0, <2>1, <4>2, StaysSignalled
    <3> QED BY <3>1, <3>2
  <2> QED BY <2>2, <2>3, <2>4
<1>2. ASSUME NEW t \in OSThreads, NEW u \in UThreads, WakeSignal(t, u)
      PROVE  Owned' /\ PollersRun' /\ NoLostWakeup'
  <2>1. /\ UNCHANGED <<running, ready, exited, sleeping, owner>>
        /\ token' = [token EXCEPT ![owner[target[u]]] = TRUE]
        /\ pc[u] = "wakeSignal" /\ pc'[u] \in {"run", "unlock"}
        /\ \A x \in UThreads \ {u} : pc'[x] = pc[x] /\ target'[x] = target[x]
    BY <1>0, <1>2 DEF WakeSignal, At, Goto, TypeOK
  <2>2. Owned'
    <3>1. \A t2 \in OSThreads : MyDead(t2) \subseteq MyDead(t2)'
      BY <2>1 DEF MyDead, Mine
    <3> QED BY <1>0, <2>1, <3>1, OwnedStep DEF Owned
  <2>3. PollersRun'
    BY <1>0, <2>1 DEF PollersRun, Polling
  <2>4. NoLostWakeup'
    <3> SUFFICES ASSUME NEW t2 \in OSThreads, pc'[running'[t2]] \in Polling,
                        ready'[t2] # <<>>
                 PROVE  Signalled(t2)'
      BY DEF NoLostWakeup
    <3>1. CASE owner[target[u]] = t2
      BY <1>0, <2>1, <3>1 DEF Signalled, TypeOK
    <3>2. CASE owner[target[u]] # t2
      <4>1. pc[running[t2]] \in Polling /\ ready[t2] # <<>>
        BY <1>0, <2>1 DEF Polling, TypeOK
      <4>2. Signalled(t2)
        BY <1>0, <4>1 DEF NoLostWakeup
      <4>3. token'[t2] = token[t2]
        BY <1>0, <2>1, <3>2 DEF TypeOK
      <4> QED BY <2>1, <3>2, <4>2, <4>3 DEF Signalled
    <3> QED BY <3>1, <3>2
  <2> QED BY <2>2, <2>3, <2>4
(* Steps that take the head of a ready list. *)
<1>3. ASSUME NEW t \in OSThreads, NEW u \in UThreads,
             LeaveSwitch(t, u) \/ WaitSwitch(t, u) \/ ExitSwitch(t, u)
      PROVE  Owned' /\ PollersRun' /\ NoLostWakeup'
  <2> DEFINE h == Head(ready[t])
  <2>1. /\ running[t] = u /\ owner[u] = t /\ ready[t] # <<>>
        /\ running' = [running EXCEPT ![t] = h]
        /\ UNCHANGED <<owner, sleeping, token, target>>
        /\ \/ ready' = [ready EXCEPT ![t] = Tail(@)]
           \/ ready' = [ready EXCEPT ![t] = Append(Tail(@), u)]
        /\ pc[u] \in {"leavePop", "wait", "exit"} /\ pc'[u] \in {"reap", "dead"}
        /\ \A x \in UThreads \ {u} : pc'[x] = pc[x]
        /\ \/ exited' = exited
           \/ pc'[u] = "dead" /\ exited' = [exited EXCEPT ![t] = Append(@, u)]
    BY <1>0, <1>3 DEF LeaveSwitch, WaitSwitch, ExitSwitch, At, Goto, TypeOK
  <2>2. ready[t] \in Seq(Mine(t)) /\ u \in Mine(t)
    BY <1>0, <2>1 DEF Owned, Mine
  <2>3. h \in Mine(t) /\ Tail(ready[t]) \in Seq(Mine(t))
    BY <2>1, <2>2
  <2>4. h \in UThreads /\ owner[h] = t
    BY <2>3 DEF Mine
  <2>5. Owned'
    <3>1. \A t2 \in OSThreads : ready'[t2] \in Seq(Mine(t2))
      <4>1. Append(Tail(ready[t]), u) \in Seq(Mine(t))
        BY <2>2, <2>3
      <4>2. \E q \in Seq(Mine(t)) : ready' = [ready EXCEPT ![t] = q]
        BY <2>1, <2>3, <4>1
      <4> QED BY <1>0, <4>2 DEF Owned, TypeOK
    <3>2. \A t2 \in OSThreads : running'[t2] \in Mine(t2)
      BY <1>0, <2>1, <2>3 DEF Owned, TypeOK
    <3>3. \A t2 \in OSThreads : MyDead(t2) \subseteq MyDead(t2)'
      BY <2>1 DEF MyDead, Mine
    <3>4. ASSUME NEW t2 \in OSThreads
          PROVE  exited'[t2] = exited[t2] \/ exited'[t2] \in Seq(MyDead(t2)')
      <4>1. CASE exited' = exited
        BY <4>1
      <4>2. CASE pc'[u] = "dead" /\ exited' = [exited EXCEPT ![t] = Append(@, u)]
        <5>1. u \in MyDead(t)'
          BY <2>1, <4>2 DEF MyDead, Mine
        <5>2. exited[t] \in Seq(MyDead(t)')
          BY <1>0, <3>3, SeqMonotonic DEF Owned
        <5> QED BY <1>0, <4>2, <5>1, <5>2 DEF TypeOK
      <4> QED BY <2>1, <4>1, <4>2
    <3>5. \A x \in UThreads : pc'[x] = "unborn" => pc[x] = "unborn"
      BY <2>1
    <3> QED BY <1>0, <2>1, <3>1, <3>2, <3>3, <3>4, <3>5, OwnedStep DEF Owned
  <2>6. pc'[h] \notin Polling
    BY <1>0, <2>1, <2>4 DEF PollersRun, Polling
  <2>7. PollersRun'
    BY <1>0, <2>1, <2>6 DEF PollersRun, Polling, TypeOK
  <2>8. NoLostWakeup'
    <3> SUFFICES ASSUME NEW t2 \in OSThreads, pc'[running'[t2]] \in Polling,
                        ready'[t2] # <<>>
                 PROVE  Signalled(t2)'
      BY DEF NoLostWakeup
    <3>1. pc[running[t2]] \in Polling /\ ready[t2] # <<>>
      BY <1>0, <2>1, <2>4, <2>6 DEF Polling, TypeOK
    <3>2. Signalled(t2)
      BY <1>0, <3>1 DEF NoLostWakeup
    <3>3. token'[t2] = token[t2]
      BY <1>0, <2>1, <2>4, <2>6, <3>1 DEF Polling, TypeOK
    <3>4. \A x \in UThreads : pc[x] = "wakeSignal" =>
            /\ pc'[x] = "wakeSignal" /\ target'[x] = target[x]
            /\ owner[target[x]] = t2 => owner'[target[x]] = t2
      BY <1>0, <2>1, <2>4, <2>6 DEF Polling, TypeOK
    <3> QED BY <1>0, <3>2, <3>3, <3>4, StaysSignalled
  <2> QED BY <2>5, <2>7, <2>8
(* Steps that only reap, or wake the sleepers. *)
<1>4. ASSUME NEW t \in OSThreads, NEW u \in UThreads,
             LeaveReap(t, u) \/ Resume(t, u) \/ PollDone(t, u)
      PROVE  Owned' /\ PollersRun' /\ NoLostWakeup'
  <2>1. /\ running[t] = u /\ owner[u] = t /\ WakeThreads(t)
        /\ UNCHANGED <<running, owner, target>>
        /\ pc[u] \in {"run", "reap", "idleWake", "waitWake", "exitWake"}
        /\ pc'[u] \in {"leavePop", "run", "wait", "exit"}
        /\ \A x \in UThreads \ {u} :
             pc'[x] = pc[x] \/ (x \in Range(exited[t]) /\ pc'[x] = "released")
        /\ exited' = exited \/ exited' = [exited EXCEPT ![t] = <<>>]
        /\ (\A x \in UThreads \ {u} : pc'[x] = pc[x]) \/ exited' = [exited EXCEPT ![t] = <<>>]
    <3>1. CASE LeaveReap(t, u)
      BY <1>0, <3>1 DEF LeaveReap, ReapTo, At, TypeOK
    <3>2. CASE Resume(t, u)
      BY <1>0, <3>2 DEF Resume, ReapTo, At, TypeOK
    <3>3. CASE PollDone(t, u)
      BY <1>0, <3>3 DEF PollDone, At, Goto, TypeOK
    <3> QED BY <1>4, <3>1, <3>2, <3>3
  <2>2. \A x \in Range(exited[t]) : x \in MyDead(t)
    <3>1. exited[t] \in Seq(MyDead(t))
      BY <1>0 DEF Owned
    <3> QED BY <3>1, ElementOfSeq, LenProperties DEF Range
  <2>3. Owned'
    <3>1. ASSUME NEW t2 \in OSThreads
          PROVE  \/ exited'[t2] \in Seq(MyDead(t2)')
                 \/ exited'[t2] = exited[t2] /\ MyDead(t2) \subseteq MyDead(t2)'
      <4>1. CASE t2 = t /\ exited' = [exited EXCEPT ![t] = <<>>]
        BY <1>0, <4>1 DEF TypeOK
      <4>2. CASE t2 # t \/ \A x \in UThreads \ {u} : pc'[x] = pc[x]
        <5>1. exited'[t2] = exited[t2] \/ (t2 = t /\ exited'[t2] = <<>>)
          <6>1. CASE exited' = exited
            BY <6>1
          <6>2. CASE exited' = [exited EXCEPT ![t] = <<>>]
            BY <1>0, <6>2 DEF TypeOK
          <6> QED BY <2>1, <6>1, <6>2
        <5>2. MyDead(t2) \subseteq MyDead(t2)'
          BY <2>1, <2>2, <4>2 DEF MyDead, Mine
        <5>3. CASE exited'[t2] = exited[t2]
          BY <5>2, <5>3
        <5>4. CASE exited'[t2] = <<>>
          BY <5>4
        <5> QED BY <5>1, <5>3, <5>4
      <4> QED BY <2>1, <4>1, <4>2
    <3>2. \A x \in UThreads : pc'[x] = "unborn" => pc[x] = "unborn"
      BY <2>1
    <3> QED BY <1>0, <2>1, <3>1, <3>2, WakeThreadsOwned, OwnedStep DEF Owned
  <2>4. PollersRun'
    BY <1>0, <2>1 DEF PollersRun, Polling
  <2>5. NoLostWakeup'
    <3> SUFFICES ASSUME NEW t2 \in OSThreads, pc'[running[t2]] \in Polling,
                        ready'[t2] # <<>>
                 PROVE  Signalled(t2)'
      BY <2>1 DEF NoLostWakeup
    <3>1. t2 # t
      BY <2>1 DEF Polling
    <3>2. ready'[t2] = ready[t2] /\ token'[t2] = token[t2]
      BY <1>0, <2>1, <3>1, WakeThreadsOwned
    <3>3. running[t2] \in UThreads /\ running[t2] # u
      BY <1>0, <2>1, <3>1 DEF Owned, Mine
    <3>4. pc[running[t2]] \in Polling
      BY <2>1, <3>3 DEF Polling
    <3>5. Signalled(t2)
      BY <1>0, <3>2, <3>4 DEF NoLostWakeup
    <3>6. \A x \in UThreads : pc[x] = "wakeSignal" => pc'[x] = "wakeSignal"
      BY <2>1, <2>2 DEF MyDead
    <3> QED BY <1>0, <2>1, <3>2, <3>5, <3>6, StaysSignalled
  <2> QED BY <2>3, <2>4, <2>5
(* Steps that leave the lists and the owners alone: falling asleep, waking up, *)
(* and the calls on semaphores.                                                *)
<1>5. ASSUME UNCHANGED <<running, ready, sleeping, exited, owner>>,
             NEW u \in UThreads, running[owner[u]] = u, owner[u] \in OSThreads,
             pc[u] \notin {"unborn", "dead"}, pc'[u] # "unborn",
             \A x \in UThreads \ {u} : pc'[x] = pc[x]
      PROVE  Owned' /\ PollersRun'
  <2>1. \A t2 \in OSThreads : MyDead(t2) \subseteq MyDead(t2)'
    BY <1>5 DEF MyDead, Mine
  <2>2. Owned'
    BY <1>0, <1>5, <2>1, OwnedStep DEF Owned
  <2>3. PollersRun'
    BY <1>0, <1>5 DEF PollersRun
  <2> QED BY <2>2, <2>3
<1>6. ASSUME NEW t \in OSThreads, NEW u \in UThreads, LeaveNothing(t, u) \/ Block(t, u)
      PROVE  Owned' /\ PollersRun' /\ NoLostWakeup'
  <2>1. /\ running[t] = u /\ owner[u] = t /\ ready[t] = <<>>
        /\ UNCHANGED <<running, ready, sleeping, exited, token, owner, target>>
        /\ pc[u] \in {"leavePop", "wait", "exit"} /\ pc'[u] \in Polling \union {"run"}
        /\ \A x \in UThreads \ {u} : pc'[x] = pc[x]
    BY <1>0, <1>6 DEF LeaveNothing, Block, At, Goto, Polling, TypeOK, schedVars
  <2>2. Owned' /\ PollersRun'
    BY <1>5, <2>1 DEF Polling
  <2>3. NoLostWakeup'
    <3> SUFFICES ASSUME NEW t2 \in OSThreads, pc'[running'[t2]] \in Polling,
                        ready'[t2] # <<>>
                 PROVE  Signalled(t2)'
      BY DEF NoLostWakeup
    <3>1. pc[running[t2]] \in Polling /\ ready[t2] # <<>>
      BY <1>0, <2>1 DEF Polling, TypeOK, Owned, Mine
    <3>2. Signalled(t2)
      BY <1>0, <3>1 DEF NoLostWakeup
    <3>3. token'[t2] = token[t2]
      BY <1>0, <2>1, <3>1 DEF Polling, TypeOK, Owned, Mine
    <3>4. \A x \in UThreads : pc[x] = "wakeSignal" =>
            /\ pc'[x] = "wakeSignal" /\ target'[x] = target[x]
            /\ owner[target[x]] = t2 => owner'[target[x]] = t2
      BY <1>0, <2>1 DEF Polling, TypeOK, Owned, Mine
    <3> QED BY <1>0, <3>2, <3>3, <3>4, StaysSignalled
  <2> QED BY <2>2, <2>3
<1>7. ASSUME NEW t \in OSThreads, NEW u \in UThreads,
             PollToken(t, u) \/ PollTimer(t, u) \/ PollIo(t, u)
      PROVE  Owned' /\ PollersRun' /\ NoLostWakeup'
  <2>1. /\ running[t] = u /\ owner[u] = t /\ pc[u] \in Polling
        /\ UNCHANGED <<running, ready, sleeping, exited, owner, target>>
        /\ token' = token \/ token' = [token EXCEPT ![t] = FALSE]
        /\ pc'[u] \in {"idleWake", "waitWake", "exitWake"}
        /\ \A x \in UThreads \ {u} : pc'[x] = pc[x]
    BY <1>0, <1>7 DEF PollToken, PollTimer, PollIo, Polled, AfterPoll, Goto, Polling, TypeOK
  <2>2. Owned' /\ PollersRun'
    BY <1>5, <2>1 DEF Polling
  <2>3. NoLostWakeup'
    <3> SUFFICES ASSUME NEW t2 \in OSThreads, pc'[running'[t2]] \in Polling,
                        ready'[t2] # <<>>
                 PROVE  Signalled(t2)'
      BY DEF NoLostWakeup
    <3>1. pc[running[t2]] \in Polling /\ ready[t2] # <<>>
      BY <1>0, <2>1 DEF Polling, TypeOK, Owned, Mine
    <3>2. Signalled(t2)
      BY <1>0, <3>1 DEF NoLostWakeup
    <3>3. token'[t2] = token[t2]
      BY <1>0, <2>1, <3>1 DEF Polling, TypeOK, Owned, Mine
    <3>4. \A x \in UThreads : pc[x] = "wakeSignal" =>
            /\ pc'[x] = "wakeSignal" /\ target'[x] = target[x]
            /\ owner[target[x]] = t2 => owner'[target[x]] = t2
      BY <1>0, <2>1 DEF Polling, TypeOK, Owned, Mine
    <3> QED BY <1>0, <3>2, <3>3, <3>4, StaysSignalled
  <2> QED BY <2>2, <2>3
<1>8. ASSUME NEW t \in OSThreads, NEW u \in UThreads,
             \/ Unlock(t, u) \/ Exit(t, u)
             \/ \E s \in Semas : Down(t, u, s) \/ Up(t, u, s)
      PROVE  Owned' /\ PollersRun' /\ NoLostWakeup'
  <2>1. /\ running[t] = u /\ owner[u] = t
        /\ UNCHANGED <<running, ready, sleeping, exited, token, owner>>
        /\ pc[u] \in {"run", "unlock"} /\ pc'[u] \in {"run", "wait", "wakePush", "exit"}
        /\ \A x \in UThreads \ {u} : pc'[x] = pc[x] /\ target'[x] = target[x]
    BY <1>0, <1>8 DEF Unlock, Exit, Down, DownTake, DownWait, Up, UpCount, UpPop,
                      At, Goto, TypeOK, schedVars
  <2>2. Owned' /\ PollersRun'
    BY <1>5, <2>1
  <2>3. NoLostWakeup'
    <3> SUFFICES ASSUME NEW t2 \in OSThreads, pc'[running'[t2]] \in Polling,
                        ready'[t2] # <<>>
                 PROVE  Signalled(t2)'
      BY DEF NoLostWakeup
    <3>1. pc[running[t2]] \in Polling /\ ready[t2] # <<>>
      BY <1>0, <2>1 DEF Polling, TypeOK, Owned, Mine
    <3>2. Signalled(t2)
      BY <1>0, <3>1 DEF NoLostWakeup
    <3>3. token'[t2] = token[t2]
      BY <1>0, <2>1, <3>1 DEF Polling, TypeOK, Owned, Mine
    <3>4. \A x \in UThreads : pc[x] = "wakeSignal" =>
            /\ pc'[x] = "wakeSignal" /\ target'[x] = target[x]
            /\ owner[target[x]] = t2 => owner'[target[x]] = t2
      BY <1>0, <2>1 DEF Polling, TypeOK, Owned, Mine
    <3> QED BY <1>0, <3>2, <3>3, <3>4, StaysSignalled
  <2> QED BY <2>2, <2>3
<1>9. ASSUME NEW t \in OSThreads, NEW u \in UThreads, NEW v \in UThreads,
             NEW d \in OSThreads, Spawn(t, u, v, d)
      PROVE  Owned' /\ PollersRun' /\ NoLostWakeup'
  <2>1. /\ owner[u] = t /\ running[t] = u /\ pc[u] = "run"
        /\ pc[v] = "unborn" /\ owner[v] = NoOSThread /\ u # v
        /\ UNCHANGED <<running, ready, sleeping, exited, token>>
        /\ \A x \in UThreads : owner'[x] = IF x = v THEN d ELSE owner[x]
        /\ \A x \in UThreads : target'[x] = IF x = u THEN v ELSE target[x]
        /\ pc'[u] = "wakePush" /\ pc'[v] = "run"
        /\ \A x \in UThreads \ {u, v} : pc'[x] = pc[x]
    BY <1>0, <1>9 DEF Spawn, Owned, At, TypeOK
  <2>2. Owned'
    <3>1. \A t2 \in OSThreads : /\ Mine(t2) \subseteq Mine(t2)'
                              /\ MySleeper(t2) \subseteq MySleeper(t2)'
                              /\ MyDead(t2) \subseteq MyDead(t2)'
      BY <2>1 DEF Mine, MySleeper, MyDead
    <3>2. ASSUME NEW t2 \in OSThreads
          PROVE  /\ running[t2] \in Mine(t2)'
                 /\ ready[t2] \in Seq(Mine(t2)')
                 /\ sleeping[t2] \in Seq(MySleeper(t2)')
                 /\ exited[t2] \in Seq(MyDead(t2)')
      <4>1. /\ running[t2] \in Mine(t2) /\ ready[t2] \in Seq(Mine(t2))
            /\ sleeping[t2] \in Seq(MySleeper(t2)) /\ exited[t2] \in Seq(MyDead(t2))
        BY <1>0 DEF Owned
      <4> QED BY <3>1, <4>1, SeqMonotonic
    <3>3. \A x \in UThreads : pc'[x] = "unborn" => owner'[x] = NoOSThread
      BY <1>0, <2>1 DEF Owned
    <3> QED BY <2>1, <3>2, <3>3 DEF Owned
  <2>3. PollersRun'
    BY <1>0, <2>1 DEF PollersRun, Polling
  <2>4. NoLostWakeup'
    <3> SUFFICES ASSUME NEW t2 \in OSThreads, pc'[running'[t2]] \in Polling,
                        ready'[t2] # <<>>
                 PROVE  Signalled(t2)'
      BY DEF NoLostWakeup
    <3>1. pc[running[t2]] \in Polling /\ ready[t2] # <<>>
      BY <1>0, <2>1 DEF Polling, TypeOK
    <3>2. Signalled(t2)
      BY <1>0, <3>1 DEF NoLostWakeup
    <3>3. token'[t2] = token[t2]
      BY <1>0, <2>1, <3>1 DEF Polling, TypeOK
    <3>4. \A x \in UThreads : pc[x] = "wakeSignal" =>
            /\ pc'[x] = "wakeSignal" /\ target'[x] = target[x]
            /\ owner[target[x]] = t2 => owner'[target[x]] = t2
      BY <1>0, <2>1 DEF Polling, TypeOK
    <3> QED BY <1>0, <3>2, <3>3, <3>4, StaysSignalled
  <2> QED BY <2>2, <2>3, <2>4
<1>10. ASSUME NEW t \in OSThreads, NEW u \in UThreads, NEW d \in Delays, Sleep(t, u, d)
       PROVE  Owned' /\ PollersRun' /\ NoLostWakeup'
  <2>1. PICK k \in 0..Len(sleeping[t]) :
          sleeping' = [sleeping EXCEPT ![t] =
            SubSeq(@, 1, k) \o <<[who |-> u, until |-> now + d]>>
                            \o SubSeq(@, k + 1, Len(@))]
    BY <1>10 DEF Sleep
  <2>2. /\ owner[u] = t /\ running[t] = u /\ pc[u] = "run" /\ pc'[u] = "wait"
        /\ UNCHANGED <<running, ready, exited, token, owner, target>>
        /\ \A x \in UThreads \ {u} : pc'[x] = pc[x]
    BY <1>0, <1>10 DEF Sleep, Goto, At, TypeOK
  <2>3. [who |-> u, until |-> now + d] \in MySleeper(t) /\ sleeping[t] \in Seq(MySleeper(t))
    <3>1. u \in Mine(t) /\ now + d \in Nat
      BY <1>0, <2>2 DEF Mine, TypeOK
    <3> QED BY <1>0, <3>1 DEF MySleeper, Owned
  <2>4. SubSeq(sleeping[t], 1, k) \o <<[who |-> u, until |-> now + d]>>
          \o SubSeq(sleeping[t], k + 1, Len(sleeping[t])) \in Seq(MySleeper(t))
    BY <2>3
  <2>5. \A t2 \in OSThreads : sleeping'[t2] \in Seq(MySleeper(t2))
    BY <1>0, <2>1, <2>4 DEF Owned, TypeOK
  <2>6. Owned'
    <3>1. \A t2 \in OSThreads : MyDead(t2) \subseteq MyDead(t2)'
      BY <2>2 DEF MyDead, Mine
    <3> QED BY <1>0, <2>2, <2>5, <3>1, OwnedStep DEF Owned
  <2>7. PollersRun'
    BY <1>0, <2>2 DEF PollersRun, Polling
  <2>8. NoLostWakeup'
    <3> SUFFICES ASSUME NEW t2 \in OSThreads, pc'[running'[t2]] \in Polling,
                        ready'[t2] # <<>>
                 PROVE  Signalled(t2)'
      BY DEF NoLostWakeup
    <3>1. pc[running[t2]] \in Polling /\ ready[t2] # <<>>
      BY <1>0, <2>2 DEF Polling, TypeOK
    <3>2. Signalled(t2)
      BY <1>0, <3>1 DEF NoLostWakeup
    <3>3. token'[t2] = token[t2]
      BY <1>0, <2>2, <3>1 DEF Polling, TypeOK
    <3>4. \A x \in UThreads : pc[x] = "wakeSignal" =>
            /\ pc'[x] = "wakeSignal" /\ target'[x] = target[x]
            /\ owner[target[x]] = t2 => owner'[target[x]] = t2
      BY <1>0, <2>2 DEF Polling, TypeOK
    <3> QED BY <1>0, <3>2, <3>3, <3>4, StaysSignalled
  <2> QED BY <2>6, <2>7, <2>8
<1>11. CASE Tick \/ UNCHANGED vars
  <2>1. UNCHANGED <<schedVars, localVars>>
    BY <1>11 DEF Tick, vars
  <2>2. Owned'
    <3>1. \A t2 \in OSThreads : MyDead(t2) \subseteq MyDead(t2)'
      BY <2>1 DEF MyDead, Mine, localVars
    <3> QED BY <1>0, <2>1, <3>1, OwnedStep DEF Owned, schedVars, localVars
  <2>3. PollersRun'
    BY <1>0, <2>1 DEF PollersRun, schedVars, localVars
  <2>4. NoLostWakeup'
    BY <1>0, <2>1 DEF NoLostWakeup, Signalled, schedVars, localVars
  <2> QED BY <2>2, <2>3, <2>4
<1> QED
  BY <1>1, <1>2, <1>3, <1>4, <1>6, <1>7, <1>8, <1>9, <1>10, <1>11
  DEF Next, Internal, Client

\* No OS thread sleeps on a UThread that has been made ready, whatever the
\* other OS threads do between its last look and its sleep.
THEOREM WakeupsAreNotLost == Spec => []NoLostWakeup
<1>1. WakeInv => NoLostWakeup
  BY DEF WakeInv
<1> QED BY InitWake, StepWake, <1>1, PTL DEF Spec

-----------------------------------------------------------------------------
(* The queue of an OS thread's sleepers. *)

\* The UThreads in it.
Whos(q) == {q[i].who : i \in 1..Len(q)}

\* No UThread sleeps twice.
WhoDistinct(q) == \A i, j \in 1..Len(q) : q[i].who = q[j].who => i = j

\* It is sorted.
Ascending(q) == \A i, j \in 1..Len(q) : i <= j => q[i].until <= q[j].until

\* r is q without the first k, and w are those.
Taken(q, k, r, w) ==
  /\ Len(r) = Len(q) - k
  /\ \A i \in 1..Len(q) - k : r[i] = q[k + i]
  /\ w \in Seq(UThreads) /\ Len(w) = k
  /\ \A i \in 1..k : w[i] = q[i].who

\* What sleep() makes of the queue.
LEMMA InsertSleeper ==
  ASSUME NEW q \in Seq(Sleeper), NEW k \in 0..Len(q), NEW e \in Sleeper,
         NEW r, Inserted(q, k, e, r)
  PROVE  /\ Whos(r) = Whos(q) \union {e.who}
         /\ WhoDistinct(q) /\ e.who \notin Whos(q) => WhoDistinct(r)
         /\ Ascending(q) /\ CutAt(q, k, e.until) => Ascending(r)
<1> DEFINE Src(i, m) == (i <= k /\ m = i) \/ (i > k + 1 /\ m = i - 1)
<1>1. Len(q) \in Nat /\ k \in Nat /\ k <= Len(q)
  BY LenProperties
<1>2. /\ Len(r) = Len(q) + 1
      /\ \A i \in 1..k : r[i] = q[i]
      /\ r[k + 1] = e
      /\ \A i \in k + 2..Len(q) + 1 : r[i] = q[i - 1]
  BY DEF Inserted
<1>3. ASSUME NEW i \in 1..Len(q) + 1
      PROVE  \/ i = k + 1 /\ r[i] = e
             \/ \E m \in 1..Len(q) : r[i] = q[m] /\ Src(i, m)
  <2>1. CASE i <= k
    <3>1. i \in 1..k /\ i \in 1..Len(q)
      BY <1>1, <2>1
    <3>2. r[i] = q[i]
      BY <1>2, <3>1
    <3> QED BY <2>1, <3>1, <3>2
  <2>2. CASE i > k + 1
    <3>1. i \in k + 2..Len(q) + 1 /\ i - 1 \in 1..Len(q)
      BY <1>1, <2>2
    <3>2. r[i] = q[i - 1]
      BY <1>2, <3>1
    <3> QED BY <2>2, <3>1, <3>2
  <2> QED BY <1>1, <1>2, <2>1, <2>2
<1>4. ASSUME NEW m \in 1..Len(q)
      PROVE  \E i \in 1..Len(q) + 1 : r[i] = q[m]
  <2>1. CASE m <= k
    <3>1. m \in 1..k /\ m \in 1..Len(q) + 1
      BY <1>1, <2>1
    <3> QED BY <1>2, <3>1
  <2>2. CASE m > k
    <3>1. m + 1 \in k + 2..Len(q) + 1 /\ m + 1 \in 1..Len(q) + 1 /\ (m + 1) - 1 = m
      BY <1>1, <2>2
    <3>2. r[m + 1] = q[m]
      BY <1>2, <3>1
    <3> QED BY <3>1, <3>2
  <2> QED BY <1>1, <2>1, <2>2
<1>5. Whos(r) = Whos(q) \union {e.who}
  <2>1. ASSUME NEW i \in 1..Len(q) + 1 PROVE r[i].who \in Whos(q) \union {e.who}
    BY <1>3 DEF Whos
  <2>2. ASSUME NEW x \in Whos(q) PROVE x \in Whos(r)
    <3>1. PICK m \in 1..Len(q) : x = q[m].who
      BY DEF Whos
    <3> QED BY <1>2, <1>4, <3>1 DEF Whos
  <2>3. e.who \in Whos(r)
    <3>1. k + 1 \in 1..Len(r) /\ r[k + 1] = e
      BY <1>1, <1>2
    <3> QED BY <3>1 DEF Whos
  <2>4. ASSUME NEW x \in Whos(r) PROVE x \in Whos(q) \union {e.who}
    BY <1>2, <2>1 DEF Whos
  <2> QED BY <2>2, <2>3, <2>4
<1>6. ASSUME WhoDistinct(q), e.who \notin Whos(q) PROVE WhoDistinct(r)
  <2> SUFFICES ASSUME NEW i \in 1..Len(q) + 1, NEW j \in 1..Len(q) + 1,
                      r[i].who = r[j].who
               PROVE  i = j
    BY <1>1, <1>2 DEF WhoDistinct
  <2>1. \A m \in 1..Len(q) : q[m].who # e.who
    BY <1>6 DEF Whos
  <2>2. CASE i = k + 1
    BY <1>3, <2>1, <2>2
  <2>3. CASE j = k + 1
    BY <1>3, <2>1, <2>3
  <2>4. CASE i # k + 1 /\ j # k + 1
    <3>1. PICK m \in 1..Len(q) : r[i] = q[m] /\ Src(i, m)
      BY <1>3, <2>4
    <3>2. PICK n \in 1..Len(q) : r[j] = q[n] /\ Src(j, n)
      BY <1>3, <2>4
    <3>3. q[m].who = q[n].who
      BY <3>1, <3>2
    <3>4. m = n
      BY <1>6, <3>3 DEF WhoDistinct
    <3> QED BY <1>1, <3>1, <3>2, <3>4
  <2> QED BY <2>2, <2>3, <2>4
<1>7. ASSUME Ascending(q), CutAt(q, k, e.until) PROVE Ascending(r)
  <2> SUFFICES ASSUME NEW i \in 1..Len(q) + 1, NEW j \in 1..Len(q) + 1, i <= j
               PROVE  r[i].until <= r[j].until
    BY <1>1, <1>2 DEF Ascending
  <2>1. \A m \in 1..Len(q) : q[m].until \in Nat
    <3>1. \A m \in 1..Len(q) : q[m] \in Sleeper
      BY ElementOfSeq
    <3> QED BY <3>1 DEF Sleeper
  <2>2. e.until \in Nat
    BY DEF Sleeper
  <2>3. \A m \in 1..k : q[m].until < e.until
    BY <1>7 DEF CutAt
  <2>4. ASSUME NEW m \in k + 1..Len(q) PROVE e.until <= q[m].until
    <3>1. k + 1 \in 1..Len(q) /\ m \in 1..Len(q) /\ k + 1 <= m
      BY <1>1
    <3>2. e.until <= q[k + 1].until
      BY <1>1, <1>7, <3>1 DEF CutAt
    <3>3. q[k + 1].until <= q[m].until
      BY <1>7, <3>1 DEF Ascending
    <3> QED BY <2>1, <2>2, <3>1, <3>2, <3>3
  <2>5. CASE i = k + 1 /\ j = k + 1
    BY <1>2, <2>2, <2>5
  <2>6. CASE i = k + 1 /\ j # k + 1
    <3>1. PICK n \in 1..Len(q) : r[j] = q[n] /\ n = j - 1
      <4>1. ~(j <= k)
        BY <1>1, <2>6
      <4> QED BY <1>1, <1>3, <2>6, <4>1
    <3>2. n \in k + 1..Len(q)
      BY <1>1, <2>6, <3>1
    <3> QED BY <1>2, <2>4, <2>6, <3>1, <3>2
  <2>7. CASE i # k + 1 /\ j = k + 1
    <3>1. PICK m \in 1..Len(q) : r[i] = q[m] /\ m = i
      <4>1. i <= k
        BY <1>1, <2>7
      <4> QED BY <1>1, <1>3, <2>7, <4>1
    <3>2. m \in 1..k
      BY <1>1, <2>7, <3>1
    <3>3. q[m].until < e.until
      BY <2>3, <3>2
    <3> QED BY <1>2, <2>1, <2>2, <2>7, <3>1, <3>3
  <2>8. CASE i # k + 1 /\ j # k + 1
    <3>1. PICK m \in 1..Len(q) : r[i] = q[m] /\ Src(i, m)
      BY <1>3, <2>8
    <3>2. PICK n \in 1..Len(q) : r[j] = q[n] /\ Src(j, n)
      BY <1>3, <2>8
    <3>3. m <= n
      BY <1>1, <3>1, <3>2
    <3>4. q[m].until <= q[n].until
      BY <1>7, <3>3 DEF Ascending
    <3> QED BY <3>1, <3>2, <3>4
  <2> QED BY <2>5, <2>6, <2>7, <2>8
<1> QED BY <1>5, <1>6, <1>7

\* What wakeThreads() makes of it.
LEMMA TakeSleepers ==
  ASSUME NEW q \in Seq(Sleeper), NEW k \in 0..Len(q), NEW r, NEW w, Taken(q, k, r, w)
  PROVE  /\ Range(w) \union Whos(r) = Whos(q)
         /\ WhoDistinct(q) => /\ IsInjective(w) /\ WhoDistinct(r)
                              /\ Range(w) \intersect Whos(r) = {}
         /\ Ascending(q) => Ascending(r)
<1>1. Len(q) \in Nat /\ k \in Nat /\ k <= Len(q)
  BY LenProperties
<1>2. \A i \in 1..Len(q) : q[i] \in Sleeper
  BY ElementOfSeq
<1>3. Len(r) = Len(q) - k /\ \A i \in 1..Len(q) - k : r[i] = q[k + i]
  BY DEF Taken
<1>5. DOMAIN w = 1..k /\ \A i \in 1..k : w[i] = q[i].who
  BY LenProperties DEF Taken
<1>6. Range(w) = {q[i].who : i \in 1..k}
  BY <1>5 DEF Range
<1>7. Whos(r) = {q[i].who : i \in k + 1..Len(q)}
  <2>1. ASSUME NEW i \in 1..Len(q) - k PROVE k + i \in k + 1..Len(q) /\ r[i] = q[k + i]
    BY <1>1, <1>3
  <2>2. ASSUME NEW i \in k + 1..Len(q) PROVE i - k \in 1..Len(q) - k /\ r[i - k] = q[i]
    BY <1>1, <1>3
  <2>3. Whos(r) = {r[i].who : i \in 1..Len(q) - k}
    BY <1>3 DEF Whos
  <2>4. ASSUME NEW x \in Whos(r) PROVE x \in {q[i].who : i \in k + 1..Len(q)}
    BY <2>1, <2>3
  <2>5. ASSUME NEW x \in {q[i].who : i \in k + 1..Len(q)} PROVE x \in Whos(r)
    BY <2>2, <2>3
  <2> QED BY <2>4, <2>5
<1>8. Range(w) \union Whos(r) = Whos(q)
  <2>1. \A i \in 1..Len(q) : i \in 1..k \/ i \in k + 1..Len(q)
    BY <1>1
  <2>2. 1..k \subseteq 1..Len(q) /\ k + 1..Len(q) \subseteq 1..Len(q)
    BY <1>1
  <2> QED BY <1>6, <1>7, <2>1, <2>2 DEF Whos
<1>9. ASSUME WhoDistinct(q)
      PROVE  IsInjective(w) /\ WhoDistinct(r) /\ Range(w) \intersect Whos(r) = {}
  <2>1. IsInjective(w)
    BY <1>1, <1>5, <1>9 DEF IsInjective, WhoDistinct
  <2>2. WhoDistinct(r)
    <3> SUFFICES ASSUME NEW i \in 1..Len(q) - k, NEW j \in 1..Len(q) - k,
                        r[i].who = r[j].who
                 PROVE  i = j
      BY <1>3 DEF WhoDistinct
    <3>1. k + i \in 1..Len(q) /\ k + j \in 1..Len(q) /\ q[k + i].who = q[k + j].who
      BY <1>1, <1>3
    <3>2. k + i = k + j
      BY <1>9, <3>1 DEF WhoDistinct
    <3> QED BY <1>1, <3>2
  <2>3. \A i \in 1..k, j \in k + 1..Len(q) : q[i].who # q[j].who
    BY <1>1, <1>9 DEF WhoDistinct
  <2> QED BY <1>6, <1>7, <2>1, <2>2, <2>3
<1>10. ASSUME Ascending(q) PROVE Ascending(r)
  <2> SUFFICES ASSUME NEW i \in 1..Len(q) - k, NEW j \in 1..Len(q) - k, i <= j
               PROVE  r[i].until <= r[j].until
    BY <1>3 DEF Ascending
  <2>1. k + i \in 1..Len(q) /\ k + j \in 1..Len(q) /\ k + i <= k + j
    BY <1>1
  <2>2. q[k + i].until <= q[k + j].until
    BY <1>10, <2>1 DEF Ascending
  <2> QED BY <1>3, <2>2
<1> QED BY <1>8, <1>9, <1>10

-----------------------------------------------------------------------------
(* One place for each UThread.  It is in a ready list, among the sleepers, in  *)
(* the queue of a semaphore, on its way to a ready list (its waker is between  *)
(* taking it out of one list and pushing it on the other), or it runs.  Only   *)
(* suspended UThreads are in the first four, and "running" names none that has *)
(* ended: so that what wakes, switches or exits meets nobody twice.            *)

Gone == {"unborn", "dead", "released"}

\* In wait(), before another UThread runs in its place.
InWait == {"wait", "waitPoll", "waitWake"}

ReadyOnes == {u \in UThreads : \E t \in OSThreads : u \in Range(ready[t])}
Sleepers == {u \in UThreads : \E t \in OSThreads : u \in Whos(sleeping[t])}
Queued == {u \in UThreads : \E s \in Semas : u \in Range(waiting[s])}
Called == {u \in UThreads : \E x \in UThreads : pc[x] = "wakePush" /\ target[x] = u}

Suspended ==
  {u \in UThreads : \/ pc[u] \in InWait
                    \/ pc[u] \in {"run", "reap"} /\ running[owner[u]] # u}

Running ==
  /\ \A u \in UThreads : pc[u] # "unborn" => owner[u] \in OSThreads
  /\ \A u \in UThreads :
       pc[u] \notin Gone \union {"run", "reap"} => running[owner[u]] = u
  /\ \A t \in OSThreads : pc[running[t]] \notin Gone

OnePlace ==
  /\ ReadyOnes \union Sleepers \union Queued \union Called \subseteq Suspended
  /\ ReadyOnes \intersect (Sleepers \union Queued \union Called) = {}
  /\ Sleepers \intersect (Queued \union Called) = {}
  /\ Queued \intersect Called = {}

OnceEach ==
  /\ \A t \in OSThreads : /\ IsInjective(ready[t]) /\ IsInjective(exited[t])
                          /\ WhoDistinct(sleeping[t])
  /\ \A s \in Semas : IsInjective(waiting[s])
  /\ \A x, y \in UThreads :
       pc[x] = "wakePush" /\ pc[y] = "wakePush" /\ target[x] = target[y] => x = y

\* A UThread operates on the semaphore it waits for, and on none when it is free
\* to call what it likes.
Args ==
  /\ \A s \in Semas : \A u \in Range(waiting[s]) : arg[u] = s
  /\ \A u \in UThreads :
       pc[u] \in {"unborn", "run", "leavePop", "idlePoll", "idleWake"} => arg[u] = NoSema

PlaceInv == Running /\ OnePlace /\ OnceEach /\ Args

\* Whose UThreads the lists hold.
LEMMA InLists ==
  ASSUME TypeOK, Owned
  PROVE  /\ \A t \in OSThreads : \A u \in Range(ready[t]) : u \in UThreads /\ owner[u] = t
         /\ \A t \in OSThreads : \A u \in Whos(sleeping[t]) : u \in UThreads /\ owner[u] = t
         /\ \A t \in OSThreads : \A u \in Range(exited[t]) :
              u \in UThreads /\ owner[u] = t /\ pc[u] = "dead"
         /\ \A s \in Semas : \A u \in Range(waiting[s]) : u \in UThreads
<1>1. ASSUME NEW S, NEW q \in Seq(S), NEW u \in Range(q) PROVE u \in S
  BY ElementOfSeq, LenProperties DEF Range
<1>2. ASSUME NEW t \in OSThreads, NEW u \in Range(ready[t]) PROVE u \in Mine(t)
  BY <1>1 DEF Owned
<1>3. ASSUME NEW t \in OSThreads, NEW u \in Whos(sleeping[t]) PROVE u \in Mine(t)
  <2>1. PICK i \in 1..Len(sleeping[t]) : u = sleeping[t][i].who
    BY DEF Whos
  <2>2. sleeping[t] \in Seq(MySleeper(t))
    BY DEF Owned
  <2>3. sleeping[t][i] \in MySleeper(t)
    BY <2>1, <2>2, ElementOfSeq
  <2> QED BY <2>1, <2>3 DEF MySleeper
<1>4. ASSUME NEW t \in OSThreads, NEW u \in Range(exited[t]) PROVE u \in MyDead(t)
  BY <1>1 DEF Owned
<1>5. ASSUME NEW x \in Semas, NEW u \in Range(waiting[x]) PROVE u \in UThreads
  <2>1. waiting[x] \in Seq(UThreads)
    BY DEF TypeOK
  <2> QED BY <1>1, <2>1
<1> QED BY <1>2, <1>3, <1>4, <1>5 DEF Mine, MyDead

LEMMA InitPlace == Init => PlaceInv
<1> SUFFICES ASSUME Init PROVE PlaceInv
  OBVIOUS
<1> USE SchedAssumption
<1>1. /\ \A t \in OSThreads : ready[t] = <<>> /\ exited[t] = <<>> /\ sleeping[t] = <<>>
      /\ \A x \in Semas : waiting[x] = <<>>
      /\ \A u \in UThreads : pc[u] \in {"run", "unborn"} /\ arg[u] = NoSema
  BY DEF Init
<1>2. Range(<<>>) = {} /\ Whos(<<>>) = {} /\ IsInjective(<<>>) /\ WhoDistinct(<<>>)
  BY DEF Range, Whos, IsInjective, WhoDistinct
<1>3. Running
  BY DEF Init, Running, Gone
<1>4. OnePlace
  <2>1. ReadyOnes = {} /\ Sleepers = {} /\ Queued = {} /\ Called = {}
    BY <1>1, <1>2 DEF ReadyOnes, Sleepers, Queued, Called
  <2> QED BY <2>1 DEF OnePlace
<1>5. OnceEach
  BY <1>1, <1>2 DEF OnceEach
<1>6. Args
  BY <1>1, <1>2 DEF Args
<1> QED BY <1>3, <1>4, <1>5, <1>6 DEF PlaceInv

\* A step that leaves the lists and the calls alone.
LEMMA QuietStep ==
  ASSUME TypeOK, Owned, PlaceInv, NEW u \in UThreads,
         owner[u] \in OSThreads, running[owner[u]] = u, pc[u] # "wakePush",
         pc'[u] \notin Gone \union {"wakePush"},
         UNCHANGED <<running, ready, exited, sleeping, owner, waiting>>,
         \A x \in UThreads \ {u} : /\ pc'[x] = pc[x] /\ target'[x] = target[x]
                                   /\ arg'[x] = arg[x],
         pc[u] \in InWait => pc'[u] \in InWait,
         pc[u] \in InWait => arg'[u] = arg[u],
         pc'[u] \in {"run", "leavePop", "idlePoll", "idleWake"} => arg'[u] = NoSema
  PROVE  PlaceInv'
<1>0. Running /\ OnePlace /\ OnceEach /\ Args
  BY DEF PlaceInv
<1>1. Running'
  BY <1>0 DEF Running, TypeOK
<1>2. OnePlace'
  <2>1. ReadyOnes' = ReadyOnes /\ Sleepers' = Sleepers /\ Queued' = Queued
    BY DEF ReadyOnes, Sleepers, Queued
  <2>2. Called' = Called
    BY DEF Called
  <2>3. Suspended \subseteq Suspended'
    BY DEF Suspended
  <2> QED BY <1>0, <2>1, <2>2, <2>3 DEF OnePlace
<1>3. OnceEach'
  BY <1>0 DEF OnceEach
<1>4. Args'
  <2>1. u \in Queued => arg'[u] = arg[u]
    BY <1>0 DEF OnePlace, Suspended, InWait
  <2>2. \A s \in Semas : \A x \in Range(waiting[s]) : x \in UThreads
    BY InLists
  <2>3. \A s \in Semas : \A x \in Range(waiting'[s]) : arg'[x] = s
    BY <1>0, <2>1, <2>2 DEF Args, Queued
  <2> QED BY <1>0, <2>3 DEF Args, Gone
<1> QED BY <1>1, <1>2, <1>3, <1>4 DEF PlaceInv

\* wake() and insert() put the UThread they were called for in the ready list.
LEMMA PushStep ==
  ASSUME TypeOK, Owned, PlaceInv, NEW t \in OSThreads, NEW u \in UThreads, WakePush(t, u)
  PROVE  PlaceInv'
<1> DEFINE v == target[u]
           d == owner[v]
<1>0. Running /\ OnePlace /\ OnceEach /\ Args
  BY DEF PlaceInv
<1>1. /\ owner[u] = t /\ running[t] = u /\ pc[u] = "wakePush" /\ pc'[u] = "wakeSignal"
      /\ v \in UThreads
      /\ UNCHANGED <<running, exited, sleeping, waiting, owner, arg, target>>
      /\ \A x \in UThreads \ {u} : pc'[x] = pc[x]
      /\ ready' = [ready EXCEPT ![d] = Append(@, v)]
  BY DEF WakePush, At, Goto, TypeOK, semaVars
<1>2. v \in Called /\ v \in Suspended /\ v \notin ReadyOnes
  BY <1>0, <1>1 DEF Called, OnePlace
<1>3. d \in OSThreads
  BY <1>0, <1>1, <1>2 DEF Running, Suspended, InWait
<1>4. v \notin Range(ready[d])
  BY <1>1, <1>2, <1>3 DEF ReadyOnes
<1> HIDE DEF v, d
<1>5. IsInjective(Append(ready[d], v)) /\ Range(Append(ready[d], v)) = Range(ready[d]) \union {v}
  BY <1>0, <1>1, <1>3, <1>4, DistinctAppend DEF OnceEach, TypeOK
<1>6. /\ ready'[d] = Append(ready[d], v)
      /\ \A t2 \in OSThreads \ {d} : ready'[t2] = ready[t2]
  BY <1>1, <1>3 DEF TypeOK
<1>7. Running'
  BY <1>0, <1>1 DEF Running, Gone, TypeOK
<1>8. OnePlace'
  <2>1. ReadyOnes' = ReadyOnes \union {v}
    BY <1>1, <1>3, <1>5, <1>6 DEF ReadyOnes
  <2>2. Sleepers' = Sleepers /\ Queued' = Queued
    BY <1>1 DEF Sleepers, Queued
  <2>3. Called' \subseteq Called \ {v}
    <3>1. \A x \in UThreads : pc[x] = "wakePush" /\ target[x] = v => x = u
      BY <1>0, <1>1 DEF OnceEach, v
    <3> QED BY <1>1, <3>1 DEF Called
  <2>4. Suspended \subseteq Suspended'
    BY <1>1 DEF Suspended, InWait
  <2> QED BY <1>0, <1>2, <2>1, <2>2, <2>3, <2>4 DEF OnePlace
<1>9. OnceEach'
  <2>1. \A t2 \in OSThreads : IsInjective(ready'[t2])
    BY <1>0, <1>5, <1>6 DEF OnceEach
  <2> QED BY <1>0, <1>1, <2>1 DEF OnceEach
<1>10. Args'
  BY <1>0, <1>1 DEF Args
<1> QED BY <1>7, <1>8, <1>9, <1>10 DEF PlaceInv

\* spawn() makes a UThread, and is about to put it in a ready list.
LEMMA SpawnStep ==
  ASSUME TypeOK, Owned, PlaceInv, NEW t \in OSThreads, NEW u \in UThreads,
         NEW v \in UThreads, NEW d \in OSThreads, Spawn(t, u, v, d)
  PROVE  PlaceInv'
<1>0. Running /\ OnePlace /\ OnceEach /\ Args
  BY DEF PlaceInv
<1>1. /\ owner[u] = t /\ running[t] = u /\ pc[u] = "run" /\ pc[v] = "unborn" /\ u # v
      /\ pc'[u] = "wakePush" /\ pc'[v] = "run"
      /\ UNCHANGED <<running, ready, exited, sleeping, waiting, arg>>
      /\ \A x \in UThreads \ {u, v} : pc'[x] = pc[x]
      /\ \A x \in UThreads \ {v} : owner'[x] = owner[x]
      /\ \A x \in UThreads \ {u} : target'[x] = target[x]
      /\ owner'[v] = d /\ target'[u] = v
  BY DEF Spawn, At, TypeOK, semaVars
<1>2. v \notin ReadyOnes \union Sleepers \union Queued \union Called
  BY <1>0, <1>1 DEF OnePlace, Suspended, InWait
<1>3. \A t2 \in OSThreads : running[t2] # v
  BY <1>0, <1>1 DEF Running, Gone
<1>4. Running'
  <2>1. \A x \in UThreads : pc'[x] # "unborn" => owner'[x] \in OSThreads
    BY <1>0, <1>1 DEF Running
  <2>2. \A x \in UThreads :
          pc'[x] \notin Gone \union {"run", "reap"} => running'[owner'[x]] = x
    BY <1>0, <1>1 DEF Running, Gone
  <2>3. \A t2 \in OSThreads : running[t2] \in UThreads \ {v}
    BY <1>3 DEF TypeOK
  <2>4. \A t2 \in OSThreads : pc'[running'[t2]] \notin Gone
    BY <1>0, <1>1, <2>3 DEF Running, Gone
  <2> QED BY <2>1, <2>2, <2>4 DEF Running
<1>5. OnePlace'
  <2>1. ReadyOnes' = ReadyOnes /\ Sleepers' = Sleepers /\ Queued' = Queued
    BY <1>1 DEF ReadyOnes, Sleepers, Queued
  <2>2. Called' \subseteq Called \union {v}
    BY <1>1 DEF Called
  <2>3. Suspended \union {v} \subseteq Suspended'
    BY <1>1, <1>3 DEF Suspended, InWait
  <2> QED BY <1>0, <1>2, <2>1, <2>2, <2>3 DEF OnePlace
<1>6. OnceEach'
  <2>1. ASSUME NEW x \in UThreads, pc[x] = "wakePush" PROVE target[x] # v /\ target'[x] # v
    BY <1>1, <1>2, <2>1 DEF Called
  <2>2. \A x, y \in UThreads :
          pc'[x] = "wakePush" /\ pc'[y] = "wakePush" /\ target'[x] = target'[y] => x = y
    BY <1>0, <1>1, <2>1 DEF OnceEach
  <2> QED BY <1>0, <1>1, <2>2 DEF OnceEach
<1>7. Args'
  BY <1>0, <1>1 DEF Args
<1> QED BY <1>4, <1>5, <1>6, <1>7 DEF PlaceInv

\* down() puts the running UThread in the queue of the semaphore.
LEMMA QueueStep ==
  ASSUME TypeOK, Owned, PlaceInv, NEW t \in OSThreads, NEW u \in UThreads,
         NEW s \in Semas, DownWait(t, u, s)
  PROVE  PlaceInv'
<1>0. Running /\ OnePlace /\ OnceEach /\ Args
  BY DEF PlaceInv
<1>1. /\ owner[u] = t /\ running[t] = u /\ pc[u] = "run" /\ pc'[u] = "wait"
      /\ UNCHANGED <<running, ready, exited, sleeping, owner, target>>
      /\ \A x \in UThreads \ {u} : pc'[x] = pc[x] /\ arg'[x] = arg[x]
      /\ arg'[u] = s
      /\ waiting'[s] = Append(waiting[s], u)
      /\ \A x \in Semas \ {s} : waiting'[x] = waiting[x]
  BY DEF DownWait, At, Goto, TypeOK, schedVars
<1>2. u \notin ReadyOnes \union Sleepers \union Queued \union Called
  BY <1>0, <1>1 DEF OnePlace, Suspended, InWait
<1>3. u \notin Range(waiting[s])
  BY <1>2 DEF Queued
<1>4. /\ IsInjective(Append(waiting[s], u))
      /\ Range(Append(waiting[s], u)) = Range(waiting[s]) \union {u}
  BY <1>0, <1>3, DistinctAppend DEF OnceEach, TypeOK
<1>5. Running'
  BY <1>0, <1>1 DEF Running, Gone, TypeOK
<1>6. OnePlace'
  <2>1. ReadyOnes' = ReadyOnes /\ Sleepers' = Sleepers
    BY <1>1 DEF ReadyOnes, Sleepers
  <2>2. Queued' \subseteq Queued \union {u}
    BY <1>1, <1>4 DEF Queued
  <2>3. Called' = Called
    BY <1>1 DEF Called
  <2>4. Suspended \union {u} \subseteq Suspended'
    BY <1>1 DEF Suspended, InWait
  <2> QED BY <1>0, <1>2, <2>1, <2>2, <2>3, <2>4 DEF OnePlace
<1>7. OnceEach'
  <2>1. \A x \in Semas : IsInjective(waiting'[x])
    BY <1>0, <1>1, <1>4 DEF OnceEach
  <2> QED BY <1>0, <1>1, <2>1 DEF OnceEach
<1>8. Args'
  <2>1. ASSUME NEW x \in Semas, NEW y \in Range(waiting'[x]) PROVE arg'[y] = x
    <3>1. CASE y = u
      BY <1>1, <1>2, <2>1, <3>1 DEF Queued
    <3>2. CASE y # u
      <4>1. y \in Range(waiting[x])
        <5>1. CASE x = s
          <6>1. y \in Range(waiting[s]) \union {u}
            BY <1>1, <1>4, <5>1
          <6> QED BY <3>2, <5>1, <6>1
        <5>2. CASE x # s
          BY <1>1, <5>2
        <5> QED BY <5>1, <5>2
      <4>2. y \in UThreads /\ arg[y] = x
        BY <1>0, <4>1, InLists DEF Args
      <4> QED BY <1>1, <3>2, <4>2
    <3> QED BY <3>1, <3>2
  <2> QED BY <1>0, <1>1, <2>1 DEF Args
<1> QED BY <1>5, <1>6, <1>7, <1>8 DEF PlaceInv

\* up() takes the first out of the queue of the semaphore.
LEMMA PopStep ==
  ASSUME TypeOK, Owned, PlaceInv, NEW t \in OSThreads, NEW u \in UThreads,
         NEW s \in Semas, UpPop(t, u, s)
  PROVE  PlaceInv'
<1> DEFINE h == Head(waiting[s])
<1>0. Running /\ OnePlace /\ OnceEach /\ Args
  BY DEF PlaceInv
<1>1. /\ owner[u] = t /\ running[t] = u /\ pc[u] = "run" /\ pc'[u] = "wakePush"
      /\ UNCHANGED <<running, ready, exited, sleeping, owner>>
      /\ \A x \in UThreads \ {u} : /\ pc'[x] = pc[x] /\ arg'[x] = arg[x]
                                /\ target'[x] = target[x]
      /\ target'[u] = h /\ waiting[s] # <<>>
      /\ waiting'[s] = Tail(waiting[s])
      /\ \A x \in Semas \ {s} : waiting'[x] = waiting[x]
  BY DEF UpPop, At, Goto, TypeOK, schedVars
<1> HIDE DEF h
<1>2. u \notin ReadyOnes \union Sleepers \union Queued \union Called
  BY <1>0, <1>1 DEF OnePlace, Suspended, InWait
<1>3. /\ IsInjective(Tail(waiting[s])) /\ h \in Range(waiting[s])
      /\ Range(Tail(waiting[s])) = Range(waiting[s]) \ {h}
  BY <1>0, <1>1, DistinctTail DEF OnceEach, TypeOK, h
<1>4. h \in UThreads /\ h \in Queued /\ arg[h] = s
  BY <1>0, <1>3, InLists DEF Queued, Args
<1>5. \A x \in Semas \ {s} : h \notin Range(waiting[x])
  BY <1>0, <1>4 DEF Args
<1>6. Running'
  BY <1>0, <1>1 DEF Running, Gone, TypeOK
<1>7. OnePlace'
  <2>1. ReadyOnes' = ReadyOnes /\ Sleepers' = Sleepers
    BY <1>1 DEF ReadyOnes, Sleepers
  <2>2. Queued' \subseteq Queued \ {h}
    BY <1>1, <1>3, <1>5 DEF Queued
  <2>3. Called' \subseteq Called \union {h}
    BY <1>1 DEF Called
  <2>4. Suspended \subseteq Suspended'
    BY <1>1 DEF Suspended, InWait
  <2> QED BY <1>0, <1>4, <2>1, <2>2, <2>3, <2>4 DEF OnePlace
<1>8. OnceEach'
  <2>1. \A x \in Semas : IsInjective(waiting'[x])
    BY <1>0, <1>1, <1>3 DEF OnceEach
  <2>2. \A x \in UThreads : pc[x] = "wakePush" => target[x] # h
    BY <1>0, <1>4 DEF Called, OnePlace
  <2>3. \A x, y \in UThreads :
          pc'[x] = "wakePush" /\ pc'[y] = "wakePush" /\ target'[x] = target'[y] => x = y
    BY <1>0, <1>1, <2>2 DEF OnceEach
  <2> QED BY <1>0, <1>1, <2>1, <2>3 DEF OnceEach
<1>9. Args'
  <2>1. ASSUME NEW x \in Semas, NEW y \in Range(waiting'[x]) PROVE arg'[y] = x
    <3>1. y \in Range(waiting[x])
      <4>1. CASE x = s
        <5>1. y \in Range(waiting[s])
          BY <1>1, <1>3, <4>1
        <5> QED BY <4>1, <5>1
      <4>2. CASE x # s
        BY <1>1, <4>2
      <4> QED BY <4>1, <4>2
    <3>2. y \in UThreads /\ arg[y] = x /\ y \in Queued
      BY <1>0, <3>1, InLists DEF Args, Queued
    <3> QED BY <1>1, <1>2, <3>2
  <2> QED BY <1>0, <1>1, <2>1 DEF Args
<1> QED BY <1>6, <1>7, <1>8, <1>9 DEF PlaceInv

\* wakeThreads() takes the first sleepers, those that are due.
LEMMA WakeThreadsTakes ==
  ASSUME TypeOK, NEW t \in OSThreads, WakeThreads(t)
  PROVE  \E k \in 0..Len(sleeping[t]), w \in Seq(UThreads) :
           /\ Taken(sleeping[t], k, sleeping'[t], w)
           /\ ready'[t] = ready[t] \o w
           /\ \A t2 \in OSThreads \ {t} :
                ready'[t2] = ready[t2] /\ sleeping'[t2] = sleeping[t2]
<1>1. PICK k \in 0..Len(sleeping[t]) :
        /\ ready' = [ready EXCEPT ![t] = @ \o [i \in 1..k |-> sleeping[t][i].who]]
        /\ sleeping' = [sleeping EXCEPT ![t] = SubSeq(@, k + 1, Len(@))]
  BY DEF WakeThreads
<1> DEFINE q == sleeping[t]
           w == [i \in 1..k |-> q[i].who]
           r == SubSeq(q, k + 1, Len(q))
<1>2. q \in Seq(Sleeper) /\ k \in 0..Len(q)
  BY DEF TypeOK
<1>3. /\ ready'[t] = ready[t] \o w /\ sleeping'[t] = r
      /\ \A t2 \in OSThreads \ {t} : ready'[t2] = ready[t2] /\ sleeping'[t2] = sleeping[t2]
  BY <1>1 DEF TypeOK
<1> HIDE DEF q
<1>4. Taken(q, k, r, w)
  <2>1. Len(q) \in Nat /\ k \in Nat /\ k <= Len(q)
    BY <1>2, LenProperties
  <2>2. \A i \in 1..Len(q) : q[i] \in Sleeper
    BY <1>2, ElementOfSeq
  <2>3. Len(r) = Len(q) - k /\ \A i \in 1..Len(q) - k : r[i] = q[k + i]
    BY <2>1, <2>2, SubSeqProperties
  <2>4. \A i \in 1..k : q[i].who \in UThreads
    BY <2>1, <2>2 DEF Sleeper
  <2>5. w \in Seq(UThreads) /\ Len(w) = k /\ \A i \in 1..k : w[i] = q[i].who
    <3>1. w \in [1..k -> UThreads]
      BY <2>4
    <3>2. w \in Seq(UThreads)
      BY <2>1, <3>1, SeqDef
    <3>3. DOMAIN w = 1..k
      OBVIOUS
    <3>4. Len(w) = k
      BY <2>1, <3>2, <3>3, LenProperties
    <3> QED BY <3>2, <3>4
  <2> HIDE DEF r, w
  <2> QED BY <2>3, <2>5 DEF Taken
<1> HIDE DEF r, w
<1>5. w \in Seq(UThreads)
  BY <1>4 DEF Taken
<1>6. Taken(sleeping[t], k, sleeping'[t], w) /\ k \in 0..Len(sleeping[t])
  BY <1>2, <1>3, <1>4 DEF q
<1> QED BY <1>3, <1>5, <1>6

\* It moves them to the ready list of their OS thread.
LEMMA WakeThreadsPlaces ==
  ASSUME TypeOK, Owned, PlaceInv, NEW t \in OSThreads, WakeThreads(t)
  PROVE  /\ ReadyOnes' \union Sleepers' \subseteq ReadyOnes \union Sleepers
         /\ ReadyOnes' \intersect Sleepers' = {}
         /\ \A t2 \in OSThreads : IsInjective(ready'[t2]) /\ WhoDistinct(sleeping'[t2])
<1> DEFINE q == sleeping[t]
           r == sleeping'[t]
<1>0. OnePlace /\ OnceEach
  BY DEF PlaceInv
<1>1. PICK k \in 0..Len(q), w \in Seq(UThreads) :
        /\ Taken(q, k, r, w)
        /\ ready'[t] = ready[t] \o w
        /\ \A t2 \in OSThreads \ {t} :
             ready'[t2] = ready[t2] /\ sleeping'[t2] = sleeping[t2]
  BY WakeThreadsTakes
<1>2. q \in Seq(Sleeper) /\ WhoDistinct(q)
  BY <1>0 DEF TypeOK, OnceEach
<1>3. /\ ready'[t] = ready[t] \o w /\ sleeping'[t] = r
      /\ \A t2 \in OSThreads \ {t} : ready'[t2] = ready[t2] /\ sleeping'[t2] = sleeping[t2]
  BY <1>1
<1> HIDE DEF q, r
<1>5. /\ Range(w) \union Whos(r) = Whos(q)
      /\ IsInjective(w) /\ WhoDistinct(r)
      /\ Range(w) \intersect Whos(r) = {}
      /\ w \in Seq(UThreads)
  BY <1>1, <1>2, TakeSleepers
<1>6. Whos(q) \subseteq Sleepers /\ \A x \in Whos(q) : owner[x] = t
  BY InLists DEF q, Sleepers
<1>7. Range(ready[t]) \subseteq ReadyOnes
  BY InLists DEF ReadyOnes
<1>8. Range(ready[t]) \intersect Range(w) = {}
  BY <1>0, <1>5, <1>6, <1>7 DEF OnePlace
<1>9. /\ IsInjective(ready[t] \o w)
      /\ Range(ready[t] \o w) = Range(ready[t]) \union Range(w)
  BY <1>0, <1>5, <1>8, DistinctConcat DEF OnceEach, TypeOK
<1>10. \A t2 \in OSThreads : IsInjective(ready'[t2]) /\ WhoDistinct(sleeping'[t2])
  BY <1>0, <1>5, <1>3, <1>9 DEF OnceEach
<1>11. ReadyOnes' \subseteq ReadyOnes \union Range(w)
  BY <1>3, <1>9 DEF ReadyOnes
<1>12. Sleepers' \subseteq Sleepers
  BY <1>5, <1>3 DEF Sleepers, q
<1>13. ReadyOnes' \intersect Sleepers' = {}
  <2> SUFFICES ASSUME NEW x \in Range(w), x \in Sleepers' PROVE FALSE
    BY <1>0, <1>11, <1>12 DEF OnePlace
  <2>1. PICK t2 \in OSThreads : x \in Whos(sleeping'[t2])
    BY DEF Sleepers
  <2>2. owner[x] = t
    BY <1>5, <1>6
  <2>3. CASE t2 = t
    BY <1>5, <1>3, <2>1, <2>3
  <2>4. CASE t2 # t
    BY <1>3, <2>1, <2>2, <2>4, InLists
  <2> QED BY <2>3, <2>4
<1> QED BY <1>5, <1>6, <1>10, <1>11, <1>12, <1>13

\* The steps that reap, or only wake the sleepers.
LEMMA WakeStep ==
  ASSUME TypeOK, Owned, PlaceInv, NEW t \in OSThreads, NEW u \in UThreads,
         LeaveReap(t, u) \/ Resume(t, u) \/ PollDone(t, u)
  PROVE  PlaceInv'
<1>0. Running /\ OnePlace /\ OnceEach /\ Args
  BY DEF PlaceInv
<1>1. /\ owner[u] = t /\ running[t] = u /\ WakeThreads(t)
      /\ UNCHANGED <<running, waiting, owner, target>>
      /\ pc[u] \in {"run", "reap", "idleWake", "waitWake", "exitWake"}
      /\ pc'[u] \in {"leavePop", "run", "wait", "exit"}
      /\ pc[u] \in InWait => pc'[u] \in InWait
      /\ \A x \in UThreads \ {u} :
           pc'[x] = pc[x] \/ (x \in Range(exited[t]) /\ pc'[x] = "released")
      /\ \A x \in UThreads \ {u} : arg'[x] = arg[x]
      /\ pc[u] \in InWait => arg'[u] = arg[u]
      /\ pc'[u] \in {"leavePop", "run"} => arg'[u] = NoSema
      /\ exited' = exited \/ exited' = [exited EXCEPT ![t] = <<>>]
  <2>1. CASE LeaveReap(t, u)
    BY <1>0, <2>1 DEF LeaveReap, ReapTo, At, TypeOK, semaVars, InWait, Args
  <2>2. CASE Resume(t, u)
    BY <2>2 DEF Resume, ReapTo, At, TypeOK, semaVars, InWait
  <2>3. CASE PollDone(t, u)
    BY <1>0, <2>3 DEF PollDone, At, Goto, TypeOK, semaVars, InWait, Args
  <2> QED BY <2>1, <2>2, <2>3
<1>2. \A x \in Range(exited[t]) : x \in UThreads /\ pc[x] = "dead"
  BY InLists
<1>3. \A x \in UThreads \ {u} : pc'[x] = pc[x] \/ (pc[x] = "dead" /\ pc'[x] = "released")
  BY <1>1, <1>2
<1>4. Running'
  BY <1>0, <1>1, <1>3 DEF Running, Gone, TypeOK
<1>5. OnePlace'
  <2>1. /\ ReadyOnes' \union Sleepers' \subseteq ReadyOnes \union Sleepers
        /\ ReadyOnes' \intersect Sleepers' = {}
    BY <1>1, WakeThreadsPlaces
  <2>2. Queued' = Queued
    BY <1>1 DEF Queued
  <2>3. Called' = Called
    <3>1. \A x \in UThreads : pc'[x] = "wakePush" <=> pc[x] = "wakePush"
      BY <1>1, <1>3
    <3> QED BY <1>1, <3>1 DEF Called
  <2>4. Suspended \subseteq Suspended'
    BY <1>1, <1>3 DEF Suspended, InWait
  <2> QED BY <1>0, <2>1, <2>2, <2>3, <2>4 DEF OnePlace
<1>6. OnceEach'
  <2>1. \A t2 \in OSThreads : IsInjective(ready'[t2]) /\ WhoDistinct(sleeping'[t2])
    BY <1>1, WakeThreadsPlaces
  <2>2. \A t2 \in OSThreads : IsInjective(exited'[t2])
    <3>1. IsInjective(<<>>)
      BY DEF IsInjective
    <3>2. \A t2 \in OSThreads : exited'[t2] \in {exited[t2], <<>>}
      BY <1>1 DEF TypeOK
    <3> QED BY <1>0, <3>1, <3>2 DEF OnceEach
  <2>3. \A x, y \in UThreads :
          pc'[x] = "wakePush" /\ pc'[y] = "wakePush" /\ target'[x] = target'[y] => x = y
    BY <1>0, <1>1, <1>3 DEF OnceEach
  <2> QED BY <1>0, <1>1, <2>1, <2>2, <2>3 DEF OnceEach
<1>7. Args'
  <2>1. ASSUME NEW x \in Semas, NEW y \in Range(waiting'[x]) PROVE arg'[y] = x
    <3>1. y \in UThreads /\ arg[y] = x /\ y \in Queued
      BY <1>0, <1>1, InLists DEF Args, Queued
    <3>2. y = u => pc[u] \in InWait
      BY <1>0, <1>1, <3>1 DEF OnePlace, Suspended
    <3> QED BY <1>1, <3>1, <3>2
  <2>2. ASSUME NEW x \in UThreads,
               pc'[x] \in {"unborn", "run", "leavePop", "idlePoll", "idleWake"}
        PROVE  arg'[x] = NoSema
    BY <1>0, <1>1, <1>3, <2>2 DEF Args
  <2> QED BY <2>1, <2>2 DEF Args
<1> QED BY <1>4, <1>5, <1>6, <1>7 DEF PlaceInv

\* The steps that take the head of a ready list and run it.
LEMMA SwitchStep ==
  ASSUME TypeOK, Owned, PlaceInv, NEW t \in OSThreads, NEW u \in UThreads,
         LeaveSwitch(t, u) \/ WaitSwitch(t, u) \/ ExitSwitch(t, u)
  PROVE  PlaceInv'
<1> DEFINE h == Head(ready[t])
<1>0. Running /\ OnePlace /\ OnceEach /\ Args
  BY DEF PlaceInv
<1>1. /\ owner[u] = t /\ running[t] = u /\ ready[t] # <<>>
      /\ running' = [running EXCEPT ![t] = h]
      /\ UNCHANGED <<sleeping, waiting, owner, target, arg>>
      /\ \A x \in UThreads \ {u} : pc'[x] = pc[x]
      /\ \A t2 \in OSThreads \ {t} : ready'[t2] = ready[t2] /\ exited'[t2] = exited[t2]
  BY DEF LeaveSwitch, WaitSwitch, ExitSwitch, At, Goto, TypeOK, semaVars
<1>2. \/ /\ pc[u] = "leavePop" /\ pc'[u] = "reap"
         /\ ready'[t] = Append(Tail(ready[t]), u) /\ exited'[t] = exited[t]
      \/ /\ pc[u] = "wait" /\ pc'[u] = "reap"
         /\ ready'[t] = Tail(ready[t]) /\ exited'[t] = exited[t]
      \/ /\ pc[u] = "exit" /\ pc'[u] = "dead"
         /\ ready'[t] = Tail(ready[t]) /\ exited'[t] = Append(exited[t], u)
  BY DEF LeaveSwitch, WaitSwitch, ExitSwitch, At, Goto, TypeOK
<1> HIDE DEF h
<1>3. /\ Tail(ready[t]) \in Seq(UThreads) /\ IsInjective(Tail(ready[t]))
      /\ h \in Range(ready[t]) /\ Range(Tail(ready[t])) = Range(ready[t]) \ {h}
  BY <1>0, <1>1, DistinctTail DEF OnceEach, TypeOK, h
<1>4. h \in UThreads /\ owner[h] = t /\ h \in ReadyOnes /\ h \in Suspended
  BY <1>0, <1>3, InLists DEF ReadyOnes, OnePlace
<1>5. /\ running'[t] = h /\ \A t2 \in OSThreads \ {t} : running'[t2] = running[t2]
  BY <1>1 DEF TypeOK
<1>6. pc[u] # "wait" => u \notin Suspended
  BY <1>1, <1>2 DEF Suspended, InWait
<1>7. \A t2 \in OSThreads \ {t} : h \notin Range(ready[t2])
  BY <1>4, InLists
<1>8. Running'
  <2>1. \A x \in UThreads : pc'[x] # "unborn" => owner'[x] \in OSThreads
    BY <1>0, <1>1, <1>2 DEF Running
  <2>2. ASSUME NEW x \in UThreads, pc'[x] \notin Gone \union {"run", "reap"}
        PROVE  running'[owner'[x]] = x
    <3>1. x # u /\ pc[x] \notin Gone \union {"run", "reap"}
      BY <1>1, <1>2, <2>2 DEF Gone
    <3>2. running[owner[x]] = x /\ owner[x] \in OSThreads
      BY <1>0, <3>1 DEF Running, Gone
    <3> QED BY <1>1, <1>5, <3>1, <3>2
  <2>3. ASSUME NEW t2 \in OSThreads PROVE pc'[running'[t2]] \notin Gone
    <3>1. CASE t2 = t
      <4>1. pc[h] \notin Gone
        BY <1>4 DEF Suspended, InWait, Gone
      <4>2. h = u => pc'[u] = "reap"
        BY <1>2, <1>4, <1>6
      <4> QED BY <1>1, <1>4, <1>5, <3>1, <4>1, <4>2 DEF Gone
    <3>2. CASE t2 # t
      <4>1. running[t2] \in UThreads /\ running[t2] # u
        BY <1>1, <3>2 DEF Owned, Mine
      <4> QED BY <1>0, <1>1, <1>5, <3>2, <4>1 DEF Running
    <3> QED BY <3>1, <3>2
  <2> QED BY <2>1, <2>2, <2>3 DEF Running
<1>9. /\ IsInjective(ready'[t])
      /\ Range(ready'[t]) \subseteq (Range(ready[t]) \ {h})
                                    \union (IF pc[u] = "leavePop" THEN {u} ELSE {})
  <2>1. CASE pc[u] = "leavePop"
    <3>1. u \notin Range(Tail(ready[t]))
      BY <1>0, <1>1, <1>3, <1>6, <2>1 DEF OnePlace, ReadyOnes
    <3>2. /\ IsInjective(Append(Tail(ready[t]), u))
          /\ Range(Append(Tail(ready[t]), u)) = Range(Tail(ready[t])) \union {u}
      <4> DEFINE p == Tail(ready[t])
      <4>1. p \in Seq(UThreads) /\ IsInjective(p) /\ u \notin Range(p)
        BY <1>3, <3>1
      <4> HIDE DEF p
      <4>2. IsInjective(Append(p, u)) /\ Range(Append(p, u)) = Range(p) \union {u}
        BY <4>1, DistinctAppend
      <4> QED BY <4>2 DEF p
    <3>3. ready'[t] = Append(Tail(ready[t]), u)
      BY <1>2, <2>1
    <3> QED BY <1>3, <2>1, <3>2, <3>3
  <2>2. CASE pc[u] # "leavePop"
    BY <1>2, <1>3, <2>2
  <2> QED BY <2>1, <2>2
<1>10. OnePlace'
  <2>1. ReadyOnes' \subseteq (ReadyOnes \ {h}) \union (IF pc[u] = "leavePop" THEN {u} ELSE {})
    BY <1>1, <1>7, <1>9 DEF ReadyOnes
  <2>2. Sleepers' = Sleepers /\ Queued' = Queued
    BY <1>1 DEF Sleepers, Queued
  <2>3. Called' = Called
    <3>1. \A x \in UThreads : pc'[x] = "wakePush" <=> pc[x] = "wakePush"
      BY <1>1, <1>2
    <3> QED BY <1>1, <3>1 DEF Called
  <2>4. ASSUME NEW x \in Suspended \ {h} PROVE x \in Suspended'
    <3>1. x # u => running'[owner'[x]] = running[owner[x]] \/ running'[owner'[x]] = h
      BY <1>1, <1>5 DEF TypeOK
    <3>2. CASE x # u
      BY <1>1, <3>1, <3>2 DEF Suspended
    <3>3. CASE x = u
      BY <1>1, <1>2, <1>5, <1>6, <3>3 DEF Suspended
    <3> QED BY <3>2, <3>3
  <2>5. pc[u] = "leavePop" => u \in Suspended' /\ u # h /\ u \notin Suspended
    BY <1>1, <1>2, <1>4, <1>5, <1>6 DEF Suspended
  <2>6. h \notin Sleepers \union Queued \union Called
    BY <1>0, <1>4 DEF OnePlace
  <2> QED BY <1>0, <2>1, <2>2, <2>3, <2>4, <2>5, <2>6 DEF OnePlace
<1>11. OnceEach'
  <2>1. \A t2 \in OSThreads : IsInjective(ready'[t2])
    BY <1>0, <1>1, <1>9 DEF OnceEach
  <2>2. IsInjective(exited'[t])
    <3>1. CASE exited'[t] = exited[t]
      BY <1>0, <3>1 DEF OnceEach
    <3>2. CASE pc[u] = "exit" /\ exited'[t] = Append(exited[t], u)
      <4>1. u \notin Range(exited[t])
        BY <3>2, InLists
      <4> QED BY <1>0, <3>2, <4>1, DistinctAppend DEF OnceEach, TypeOK
    <3> QED BY <1>2, <3>1, <3>2
  <2>3. \A t2 \in OSThreads : IsInjective(exited'[t2])
    BY <1>0, <1>1, <2>2 DEF OnceEach
  <2>4. \A x, y \in UThreads :
          pc'[x] = "wakePush" /\ pc'[y] = "wakePush" /\ target'[x] = target'[y] => x = y
    BY <1>0, <1>1, <1>2 DEF OnceEach
  <2> QED BY <1>0, <1>1, <2>1, <2>3, <2>4 DEF OnceEach
<1>12. Args'
  BY <1>0, <1>1, <1>2 DEF Args
<1> QED BY <1>8, <1>10, <1>11, <1>12 DEF PlaceInv

\* sleep() puts the running UThread among the sleepers.
LEMMA SleepStep ==
  ASSUME TypeOK, Owned, PlaceInv, NEW t \in OSThreads, NEW u \in UThreads,
         NEW d \in Delays, Sleep(t, u, d)
  PROVE  PlaceInv'
<1> USE SchedAssumption
<1>0. Running /\ OnePlace /\ OnceEach /\ Args
  BY DEF PlaceInv
<1> DEFINE e == [who |-> u, until |-> now + d]
           q == sleeping[t]
<1>1. PICK k \in 0..Len(q) :
        sleeping' = [sleeping EXCEPT ![t] =
          SubSeq(@, 1, k) \o <<e>> \o SubSeq(@, k + 1, Len(@))]
  BY DEF Sleep
<1> DEFINE r == SubSeq(q, 1, k) \o <<e>> \o SubSeq(q, k + 1, Len(q))
<1>2. sleeping'[t] = r /\ \A t2 \in OSThreads \ {t} : sleeping'[t2] = sleeping[t2]
  BY <1>1 DEF TypeOK
<1>3. q \in Seq(Sleeper) /\ e \in Sleeper /\ e.who = u
  <2>1. now + d \in Nat
    BY DEF TypeOK
  <2>2. e \in Sleeper /\ e.who = u
    BY <2>1 DEF Sleeper
  <2>3. q \in Seq(Sleeper)
    BY DEF TypeOK
  <2> QED BY <2>2, <2>3
<1>4. Inserted(q, k, e, r)
  <2> HIDE DEF q, e
  <2> QED BY <1>1, <1>3, InsertBehind
<1> HIDE DEF e, r
<1>5. /\ owner[u] = t /\ running[t] = u /\ pc[u] = "run" /\ pc'[u] = "wait"
      /\ UNCHANGED <<running, ready, exited, waiting, owner, arg, target>>
      /\ \A x \in UThreads \ {u} : pc'[x] = pc[x]
  BY DEF Sleep, At, Goto, TypeOK, semaVars
<1>6. u \notin ReadyOnes \union Sleepers \union Queued \union Called
  BY <1>0, <1>5 DEF OnePlace, Suspended, InWait
<1>7. WhoDistinct(q) /\ u \notin Whos(q)
  BY <1>0, <1>6 DEF OnceEach, Sleepers
<1> HIDE DEF q
<1>8. Whos(r) = Whos(q) \union {u} /\ WhoDistinct(r)
  BY <1>1, <1>3, <1>4, <1>7, InsertSleeper
<1>9. Running'
  BY <1>0, <1>5 DEF Running, Gone, TypeOK
<1>10. OnePlace'
  <2>1. ReadyOnes' = ReadyOnes /\ Queued' = Queued
    BY <1>5 DEF ReadyOnes, Queued
  <2>2. Sleepers' \subseteq Sleepers \union {u}
    BY <1>2, <1>8 DEF Sleepers, q
  <2>3. Called' = Called
    BY <1>5 DEF Called
  <2>4. Suspended \union {u} \subseteq Suspended'
    BY <1>5 DEF Suspended, InWait
  <2> QED BY <1>0, <1>6, <2>1, <2>2, <2>3, <2>4 DEF OnePlace
<1>11. OnceEach'
  <2>1. \A t2 \in OSThreads : WhoDistinct(sleeping'[t2])
    BY <1>0, <1>2, <1>8 DEF OnceEach
  <2> QED BY <1>0, <1>5, <2>1 DEF OnceEach
<1>12. Args'
  BY <1>0, <1>5 DEF Args
<1> QED BY <1>9, <1>10, <1>11, <1>12 DEF PlaceInv

LEMMA StepPlace == TypeOK /\ Owned /\ PlaceInv /\ [Next]_vars => PlaceInv'
<1> SUFFICES ASSUME TypeOK, Owned, PlaceInv, [Next]_vars PROVE PlaceInv'
  OBVIOUS
<1>0. Args
  BY DEF PlaceInv
<1>1. ASSUME NEW t \in OSThreads, NEW u \in UThreads, WakeSignal(t, u) PROVE PlaceInv'
  <2>1. /\ owner[u] = t /\ running[t] = u /\ pc[u] = "wakeSignal"
        /\ pc'[u] \in {"run", "unlock"}
        /\ pc'[u] = "run" => arg[u] = NoSema
        /\ UNCHANGED <<running, ready, exited, sleeping, owner, waiting, arg>>
        /\ \A x \in UThreads \ {u} : pc'[x] = pc[x] /\ target'[x] = target[x]
    BY <1>1 DEF WakeSignal, At, Goto, TypeOK, semaVars
  <2> QED BY <2>1, QuietStep DEF InWait, Gone
<1>2. ASSUME NEW t \in OSThreads, NEW u \in UThreads, Unlock(t, u) PROVE PlaceInv'
  <2>1. /\ owner[u] = t /\ running[t] = u /\ pc[u] = "unlock" /\ pc'[u] = "run"
        /\ UNCHANGED <<running, ready, exited, sleeping, owner, waiting, target>>
        /\ \A x \in UThreads \ {u} : pc'[x] = pc[x] /\ arg'[x] = arg[x]
        /\ arg'[u] = NoSema
    BY <1>2 DEF Unlock, At, Goto, TypeOK, schedVars
  <2> QED BY <2>1, QuietStep DEF InWait, Gone
<1>3. ASSUME NEW t \in OSThreads, NEW u \in UThreads,
             LeaveNothing(t, u) \/ Block(t, u) \/ Exit(t, u) PROVE PlaceInv'
  <2>1. /\ owner[u] = t /\ running[t] = u
        /\ \/ pc[u] = "leavePop" /\ pc'[u] \in {"run", "idlePoll"}
           \/ pc[u] = "wait" /\ pc'[u] = "waitPoll"
           \/ pc[u] = "exit" /\ pc'[u] = "exitPoll"
           \/ pc[u] = "run" /\ pc'[u] = "exit"
        /\ UNCHANGED <<running, ready, exited, sleeping, owner, waiting, arg, target>>
        /\ \A x \in UThreads \ {u} : pc'[x] = pc[x]
    BY <1>3 DEF LeaveNothing, Block, Exit, At, Goto, TypeOK, schedVars, semaVars
  <2> QED BY <1>0, <2>1, QuietStep DEF InWait, Gone, Args
<1>4. ASSUME NEW t \in OSThreads, NEW u \in UThreads,
             PollToken(t, u) \/ PollTimer(t, u) \/ PollIo(t, u) PROVE PlaceInv'
  <2>1. /\ owner[u] = t /\ running[t] = u
        /\ \/ pc[u] = "idlePoll" /\ pc'[u] = "idleWake"
           \/ pc[u] = "waitPoll" /\ pc'[u] = "waitWake"
           \/ pc[u] = "exitPoll" /\ pc'[u] = "exitWake"
        /\ UNCHANGED <<running, ready, exited, sleeping, owner, waiting, arg, target>>
        /\ \A x \in UThreads \ {u} : pc'[x] = pc[x]
    BY <1>4 DEF PollToken, PollTimer, PollIo, Polled, AfterPoll, Polling, Goto, TypeOK, semaVars
  <2> QED BY <1>0, <2>1, QuietStep DEF InWait, Gone, Args
<1>5. ASSUME NEW t \in OSThreads, NEW u \in UThreads, NEW s \in Semas,
             DownTake(t, u, s) \/ UpCount(t, u, s) PROVE PlaceInv'
  <2>1. /\ owner[u] = t /\ running[t] = u /\ pc[u] = "run"
        /\ UNCHANGED <<running, ready, exited, sleeping, owner, waiting, pc, arg, target>>
    BY <1>5 DEF DownTake, UpCount, At, schedVars
  <2> QED BY <1>0, <2>1, QuietStep DEF InWait, Gone, Args
<1>6. CASE Tick \/ UNCHANGED vars
  <2>1. UNCHANGED <<schedVars, localVars, waiting>>
    BY <1>6 DEF Tick, vars, semaVars
  <2>2. UNCHANGED <<running, ready, exited, sleeping, owner, waiting, pc, arg, target>>
    BY <2>1 DEF schedVars, localVars
  <2> QED BY <2>2 DEF PlaceInv, Running, OnePlace, OnceEach, Args, ReadyOnes, Sleepers,
                      Queued, Called, Suspended
<1> QED
  BY <1>1, <1>2, <1>3, <1>4, <1>5, <1>6, PushStep, SpawnStep, QueueStep, PopStep,
     WakeStep, SwitchStep, SleepStep
  DEF Next, Internal, Client, Down, Up

THEOREM PlacesHold == Spec => [](WakeInv /\ PlaceInv)
<1>1. WakeInv => TypeOK /\ Owned
  BY DEF WakeInv
<1> QED BY InitWake, StepWake, InitPlace, StepPlace, <1>1, PTL DEF Spec

\* Whatever is pushed on a list was in none before ("Can not push an element
\* into more than one list", OS/InlineList.h:35).
THEOREM ListsAreDisjoint == Spec => []OneList
<1>1. TypeOK /\ Owned /\ PlaceInv => OneList
  <2> SUFFICES ASSUME TypeOK, Owned, PlaceInv PROVE OneList
    OBVIOUS
  <2>0. OnePlace /\ OnceEach /\ Args
    BY DEF PlaceInv
  <2>1. ASSUME NEW u \in UThreads
        PROVE  /\ \A t \in OSThreads : u \in Range(ready[t]) => u \in ReadyOnes /\ t = owner[u]
               /\ \A t \in OSThreads : u \in Range(exited[t]) => pc[u] = "dead" /\ t = owner[u]
               /\ \A t \in OSThreads : (\E e \in Range(sleeping[t]) : e.who = u) =>
                                         u \in Sleepers /\ t = owner[u]
               /\ \A s \in Semas : u \in Range(waiting[s]) => u \in Queued /\ s = arg[u]
    <3>1. ASSUME NEW t \in OSThreads, NEW e \in Range(sleeping[t]) PROVE e.who \in Whos(sleeping[t])
      <4>1. sleeping[t] \in Seq(Sleeper)
        BY DEF TypeOK
      <4> QED BY <4>1, LenProperties DEF Range, Whos
    <3> QED BY <2>0, <3>1, InLists DEF ReadyOnes, Sleepers, Queued, Args
  <2>2. ASSUME NEW u \in UThreads, NEW a \in Lists(u), NEW b \in Lists(u) PROVE a = b
    <3>1. a \in {<<"ready", owner[u]>>, <<"exited", owner[u]>>, <<"sleep", owner[u]>>,
                 <<"waiting", arg[u]>>}
      BY <2>1 DEF Lists
    <3>2. b \in {<<"ready", owner[u]>>, <<"exited", owner[u]>>, <<"sleep", owner[u]>>,
                 <<"waiting", arg[u]>>}
      BY <2>1 DEF Lists
    <3>3. \A c \in Lists(u) :
            /\ c = <<"ready", owner[u]>> => u \in ReadyOnes
            /\ c = <<"exited", owner[u]>> => pc[u] = "dead"
            /\ c = <<"sleep", owner[u]>> => u \in Sleepers
            /\ c = <<"waiting", arg[u]>> => u \in Queued
      BY <2>1 DEF Lists
    <3>4. pc[u] = "dead" => u \notin ReadyOnes \union Sleepers \union Queued
      BY <2>0 DEF OnePlace, Suspended, InWait
    <3> QED BY <2>0, <3>1, <3>2, <3>3, <3>4 DEF OnePlace
  <2>3. ASSUME NEW u \in UThreads PROVE Cardinality(Lists(u)) <= 1
    <3>1. CASE Lists(u) = {}
      BY <3>1, FS_EmptySet
    <3>2. CASE Lists(u) # {}
      <4>1. PICK a : a \in Lists(u)
        BY <3>2
      <4>2. Lists(u) = {a}
        BY <2>2, <4>1
      <4>3. Cardinality(Lists(u)) = 1
        BY <4>2, FS_Singleton
      <4> QED BY <4>3
    <3> QED BY <3>1, <3>2
  <2>4. ASSUME NEW u \in UThreads, pc[u] = "wakePush" PROVE Lists(target[u]) = {}
    <3>1. target[u] \in UThreads /\ target[u] \in Called
      BY <2>4 DEF TypeOK, Called
    <3>2. pc[target[u]] # "dead" /\ target[u] \notin ReadyOnes \union Sleepers \union Queued
      BY <2>0, <3>1 DEF OnePlace, Suspended, InWait
    <3> QED BY <2>1, <3>1, <3>2 DEF Lists
  <2> QED BY <2>0, <2>3, <2>4 DEF OneList, OnceEach
<1>2. WakeInv => TypeOK /\ Owned
  BY DEF WakeInv
<1> QED BY PlacesHold, <1>1, <1>2, PTL

\* No UThread is switched to, queued or woken when its stack may already have
\* been given back, and none runs again after exit().
THEOREM NoneIsUsedAfterExit == Spec => []NoUseAfterExit
<1>1. TypeOK /\ Owned /\ PlaceInv => NoUseAfterExit
  <2> SUFFICES ASSUME TypeOK, Owned, PlaceInv PROVE NoUseAfterExit
    OBVIOUS
  <2>0. Running /\ OnePlace
    BY DEF PlaceInv
  <2>1. \A u \in Suspended : pc[u] \notin Gone
    BY DEF Suspended, InWait, Gone
  <2>2. \A t \in OSThreads : running[t] \in UThreads /\ pc[running[t]] \notin Gone
    BY <2>0 DEF Running, TypeOK
  <2>3. ASSUME NEW t \in OSThreads, NEW u \in Range(ready[t]) PROVE u \in Suspended
    BY <2>0, InLists DEF OnePlace, ReadyOnes
  <2>4. ASSUME NEW s \in Semas, NEW u \in Range(waiting[s]) PROVE u \in Suspended
    BY <2>0, InLists DEF OnePlace, Queued
  <2>5. ASSUME NEW u \in UThreads, pc[u] = "wakePush" PROVE target[u] \in Suspended
    BY <2>0, <2>5 DEF OnePlace, Called, TypeOK
  <2> QED BY <2>1, <2>2, <2>3, <2>4, <2>5 DEF NoUseAfterExit, Gone
<1>2. WakeInv => TypeOK /\ Owned
  BY DEF WakeInv
<1> QED BY PlacesHold, <1>1, <1>2, PTL

-----------------------------------------------------------------------------
(* One owner for the permit of a lock.  It is passed on without being counted: *)
(* from the moment up() takes a UThread out of the queue, the permit is that   *)
(* UThread's, although it has not run yet and the guard of its Lock::L does    *)
(* not exist.                                                                  *)

Owners(l) ==
  {u \in UThreads :
     \/ l \in held[u]
     \/ arg[u] = l /\ pc[u] \in InWait \union {"reap"} /\ u \notin Range(waiting[l])}

OnePermit ==
  \A l \in Locks : /\ count[l] \in {0, 1}
                   /\ count[l] = 1 => Owners(l) = {}
                   /\ \A x, y \in Owners(l) : x = y

PermitInv == OnePermit /\ NoIdlePermit

LEMMA InitPermit == Init => PermitInv
<1> SUFFICES ASSUME Init PROVE PermitInv
  OBVIOUS
<1> USE SchedAssumption
<1>1. \A l \in Locks : Owners(l) = {}
  BY DEF Init, Owners
<1>2. OnePermit
  BY <1>1 DEF Init, OnePermit
<1>3. NoIdlePermit
  BY DEF Init, NoIdlePermit
<1> QED BY <1>2, <1>3 DEF PermitInv

\* A step that makes nobody an owner.
LEMMA SameOwners ==
  ASSUME PermitInv, UNCHANGED <<count, waiting>>,
         \A l \in Locks : Owners(l)' \subseteq Owners(l)
  PROVE  PermitInv'
<1>1. OnePermit'
  BY DEF PermitInv, OnePermit
<1>2. NoIdlePermit'
  BY DEF PermitInv, NoIdlePermit
<1> QED BY <1>1, <1>2 DEF PermitInv

\* down() with a permit left.
LEMMA TakeStep ==
  ASSUME TypeOK, PermitInv, NEW t \in OSThreads, NEW u \in UThreads, NEW s \in Semas,
         DownTake(t, u, s)
  PROVE  PermitInv'
<1>0. OnePermit /\ NoIdlePermit
  BY DEF PermitInv
<1>1. /\ UNCHANGED <<waiting, pc, arg>>
      /\ count[s] > 0 /\ count[s] \in Nat /\ count'[s] = count[s] - 1
      /\ \A x \in Semas \ {s} : count'[x] = count[x]
      /\ \A x \in UThreads \ {u} : held'[x] = held[x]
      /\ held'[u] = held[u] \union ({s} \intersect Locks)
  BY DEF DownTake, TypeOK
<1>2. OnePermit'
  <2> SUFFICES ASSUME NEW l \in Locks
               PROVE  /\ count'[l] \in {0, 1}
                      /\ count'[l] = 1 => Owners(l)' = {}
                      /\ \A x, y \in Owners(l)' : x = y
    BY DEF OnePermit
  <2>1. CASE l = s
    <3>1. count[l] = 1 /\ count'[l] = 0
      BY <1>0, <1>1, <2>1 DEF OnePermit
    <3>2. Owners(l)' \subseteq Owners(l) \union {u}
      BY <1>1 DEF Owners
    <3> QED BY <1>0, <3>1, <3>2 DEF OnePermit
  <2>2. CASE l # s
    <3>1. Owners(l)' \subseteq Owners(l)
      BY <1>1, <2>2 DEF Owners
    <3>2. count'[l] = count[l]
      BY <1>1, <2>2, SchedAssumption
    <3> QED BY <1>0, <3>1, <3>2 DEF OnePermit
  <2> QED BY <2>1, <2>2
<1>3. NoIdlePermit'
  BY <1>0, <1>1 DEF NoIdlePermit
<1> QED BY <1>2, <1>3 DEF PermitInv

\* down() without.
LEMMA DownWaitPermit ==
  ASSUME TypeOK, Owned, PlaceInv, PermitInv, NEW t \in OSThreads, NEW u \in UThreads, NEW s \in Semas,
         DownWait(t, u, s)
  PROVE  PermitInv'
<1>0. OnePermit /\ NoIdlePermit /\ OnePlace /\ OnceEach
  BY DEF PermitInv, PlaceInv
<1>1. /\ UNCHANGED <<count, held>> /\ count[s] = 0
      /\ owner[u] = t /\ running[t] = u /\ pc[u] = "run"
      /\ waiting'[s] = Append(waiting[s], u)
      /\ \A x \in Semas \ {s} : waiting'[x] = waiting[x]
      /\ \A x \in UThreads \ {u} : pc'[x] = pc[x] /\ arg'[x] = arg[x]
      /\ arg'[u] = s
  BY DEF DownWait, At, Goto, TypeOK
<1>2. Range(Append(waiting[s], u)) = Range(waiting[s]) \union {u}
  <2>1. u \notin Range(waiting[s])
    BY <1>0, <1>1 DEF OnePlace, Suspended, InWait, Queued
  <2> QED BY <1>0, <2>1, DistinctAppend DEF OnceEach, TypeOK
<1>3. \A l \in Locks : Owners(l)' \subseteq Owners(l)
  <2> SUFFICES ASSUME NEW l \in Locks, NEW x \in Owners(l)' PROVE x \in Owners(l)
    OBVIOUS
  <2>1. l \in Semas
    BY SchedAssumption
  <2>2. CASE l \in held'[x]
    BY <1>1, <2>2 DEF Owners
  <2>3. CASE /\ l \notin held'[x] /\ arg'[x] = l /\ x \notin Range(waiting'[l])
             /\ pc'[x] \in InWait \union {"reap"}
    <3>1. x # u
      BY <1>1, <1>2, <2>3
    <3>2. x \notin Range(waiting[l])
      BY <1>1, <1>2, <2>1, <2>3
    <3> QED BY <1>1, <2>3, <3>1, <3>2 DEF Owners
  <2> QED BY <2>2, <2>3 DEF Owners
<1>4. OnePermit'
  BY <1>0, <1>1, <1>3 DEF OnePermit
<1>5. NoIdlePermit'
  BY <1>0, <1>1 DEF NoIdlePermit
<1> QED BY <1>4, <1>5 DEF PermitInv

\* up() with nobody in the queue.
LEMMA CountStep ==
  ASSUME TypeOK, PermitInv, NEW t \in OSThreads, NEW u \in UThreads, NEW s \in Semas,
         UpCount(t, u, s)
  PROVE  PermitInv'
<1>0. OnePermit /\ NoIdlePermit
  BY DEF PermitInv
<1>1. /\ UNCHANGED <<waiting, pc, arg>> /\ pc[u] = "run"
      /\ s \in Locks => s \in held[u]
      /\ waiting[s] = <<>> /\ count[s] \in Nat /\ count'[s] = count[s] + 1
      /\ \A x \in Semas \ {s} : count'[x] = count[x]
      /\ \A x \in UThreads \ {u} : held'[x] = held[x]
      /\ held'[u] = held[u] \ {s}
  BY DEF UpCount, At, TypeOK
<1>2. OnePermit'
  <2> SUFFICES ASSUME NEW l \in Locks
               PROVE  /\ count'[l] \in {0, 1}
                      /\ count'[l] = 1 => Owners(l)' = {}
                      /\ \A x, y \in Owners(l)' : x = y
    BY DEF OnePermit
  <2>1. Owners(l)' \subseteq Owners(l)
    BY <1>1 DEF Owners
  <2>2. CASE l = s
    <3>1. u \in Owners(l) /\ u \notin Owners(l)'
      BY <1>1, <2>2 DEF Owners, InWait
    <3>2. count[l] = 0 /\ count'[l] = 1
      BY <1>0, <1>1, <2>2, <3>1 DEF OnePermit
    <3>3. Owners(l)' = {}
      BY <1>0, <2>1, <3>1 DEF OnePermit
    <3> QED BY <3>2, <3>3
  <2>3. CASE l # s
    <3>1. count'[l] = count[l]
      BY <1>1, <2>3, SchedAssumption
    <3> QED BY <1>0, <2>1, <3>1 DEF OnePermit
  <2> QED BY <2>2, <2>3
<1>3. NoIdlePermit'
  BY <1>0, <1>1 DEF NoIdlePermit
<1> QED BY <1>2, <1>3 DEF PermitInv

\* up() with somebody in the queue.
LEMMA HandOverStep ==
  ASSUME TypeOK, Owned, PlaceInv, PermitInv, NEW t \in OSThreads, NEW u \in UThreads,
         NEW s \in Semas, UpPop(t, u, s)
  PROVE  PermitInv'
<1> DEFINE h == Head(waiting[s])
<1>0. OnePermit /\ NoIdlePermit /\ OnePlace /\ OnceEach /\ Args
  BY DEF PermitInv, PlaceInv
<1>1. /\ UNCHANGED count /\ pc[u] = "run" /\ pc'[u] = "wakePush"
      /\ s \in Locks => s \in held[u]
      /\ waiting[s] # <<>> /\ waiting'[s] = Tail(waiting[s])
      /\ \A x \in Semas \ {s} : waiting'[x] = waiting[x]
      /\ \A x \in UThreads \ {u} : /\ pc'[x] = pc[x] /\ arg'[x] = arg[x]
                                /\ held'[x] = held[x]
      /\ held'[u] = held[u] \ {s}
  BY DEF UpPop, At, Goto, TypeOK
<1>2. h \in Range(waiting[s]) /\ Range(Tail(waiting[s])) = Range(waiting[s]) \ {h}
  BY <1>0, <1>1, DistinctTail DEF OnceEach, TypeOK
<1> HIDE DEF h
<1>3. OnePermit'
  <2> SUFFICES ASSUME NEW l \in Locks
               PROVE  /\ count'[l] \in {0, 1}
                      /\ count'[l] = 1 => Owners(l)' = {}
                      /\ \A x, y \in Owners(l)' : x = y
    BY DEF OnePermit
  <2>1. l \in Semas
    BY SchedAssumption
  <2>2. CASE l = s
    <3>1. u \in Owners(l)
      BY <1>1, <2>2 DEF Owners
    <3>2. count[l] = 0
      BY <1>0, <3>1 DEF OnePermit
    <3>3. ASSUME NEW x \in Owners(l)' PROVE x = h
      <4>1. x # u
        BY <1>1, <2>2 DEF Owners, InWait
      <4>2. x \notin Owners(l)
        BY <1>0, <3>1, <4>1 DEF OnePermit
      <4> QED BY <1>1, <1>2, <2>2, <4>1, <4>2 DEF Owners
    <3> QED BY <1>1, <3>2, <3>3
  <2>3. CASE l # s
    <3>1. Owners(l)' \subseteq Owners(l)
      BY <1>1, <2>1, <2>3 DEF Owners, InWait
    <3> QED BY <1>0, <1>1, <3>1 DEF OnePermit
  <2> QED BY <2>2, <2>3
<1>4. NoIdlePermit'
  BY <1>0, <1>1 DEF NoIdlePermit
<1> QED BY <1>3, <1>4 DEF PermitInv

\* wait() returns to a UThread that was handed a permit.
LEMMA ResumeStep ==
  ASSUME TypeOK, Owned, PlaceInv, PermitInv, NEW t \in OSThreads, NEW u \in UThreads,
         Resume(t, u)
  PROVE  PermitInv'
<1>1. /\ owner[u] = t /\ running[t] = u /\ pc[u] = "reap" /\ pc'[u] = "run"
      /\ UNCHANGED <<count, waiting>>
      /\ \A x \in UThreads \ {u} : /\ pc'[x] = pc[x] \/ pc'[x] = "released"
                                /\ arg'[x] = arg[x] /\ held'[x] = held[x]
      /\ held'[u] = held[u] \union ({arg[u]} \intersect Locks)
  BY DEF Resume, ReapTo, At, TypeOK, semaVars
<1>2. u \notin Queued
  BY <1>1 DEF PlaceInv, OnePlace, Suspended, InWait
<1>3. ASSUME NEW l \in Locks, NEW x \in Owners(l)' PROVE x \in Owners(l)
  <2>1. l \in Semas
    BY SchedAssumption
  <2>2. CASE x = u
    BY <1>1, <1>2, <2>1, <2>2 DEF Owners, Queued, InWait
  <2>3. CASE x # u
    BY <1>1, <2>3 DEF Owners, InWait
  <2> QED BY <2>2, <2>3
<1> QED BY <1>1, <1>3, SameOwners

\* The steps that touch no semaphore.
LEMMA NoPermitStep ==
  ASSUME PermitInv, UNCHANGED <<count, waiting, held>>,
         \A x \in UThreads : pc'[x] \in InWait \union {"reap"} =>
           \/ arg'[x] = NoSema
           \/ arg'[x] = arg[x] /\ pc[x] \in InWait \union {"reap"}
  PROVE  PermitInv'
<1>1. ASSUME NEW l \in Locks, NEW x \in Owners(l)' PROVE x \in Owners(l)
  <2>1. l # NoSema
    BY SchedAssumption
  <2> QED BY <2>1 DEF Owners
<1> QED BY <1>1, SameOwners

LEMMA StepPermit == TypeOK /\ Owned /\ PlaceInv /\ PermitInv /\ [Next]_vars => PermitInv'
<1> SUFFICES ASSUME TypeOK, Owned, PlaceInv, PermitInv, [Next]_vars PROVE PermitInv'
  OBVIOUS
<1>0. Args
  BY DEF PlaceInv
<1>1. ASSUME NEW t \in OSThreads, NEW u \in UThreads,
             WakePush(t, u) \/ WakeSignal(t, u) \/ Unlock(t, u) PROVE PermitInv'
  <2>1. /\ UNCHANGED <<count, waiting, held>>
        /\ \A x \in UThreads \ {u} : pc'[x] = pc[x] /\ arg'[x] = arg[x]
        /\ pc'[u] \in {"wakeSignal", "run", "unlock"}
    BY <1>1 DEF WakePush, WakeSignal, Unlock, Goto, TypeOK, semaVars
  <2> QED BY <2>1, NoPermitStep DEF InWait
<1>2. ASSUME NEW t \in OSThreads, NEW u \in UThreads,
             \/ LeaveSwitch(t, u) \/ WaitSwitch(t, u) \/ ExitSwitch(t, u)
             \/ LeaveNothing(t, u) \/ Block(t, u) \/ Exit(t, u) PROVE PermitInv'
  <2>1. /\ UNCHANGED <<count, waiting, held, arg>>
        /\ \A x \in UThreads \ {u} : pc'[x] = pc[x]
        /\ \/ pc[u] = "leavePop" /\ pc'[u] = "reap"
           \/ pc[u] = "wait" /\ pc'[u] \in {"reap", "waitPoll"}
           \/ pc'[u] \in {"dead", "run", "idlePoll", "exitPoll", "exit"}
    BY <1>2 DEF LeaveSwitch, WaitSwitch, ExitSwitch, LeaveNothing, Block, Exit, At, Goto,
                TypeOK, semaVars, schedVars
  <2>2. pc[u] = "leavePop" => arg[u] = NoSema
    BY <1>0 DEF Args
  <2> QED BY <2>1, <2>2, NoPermitStep DEF InWait
<1>3. ASSUME NEW t \in OSThreads, NEW u \in UThreads,
             PollToken(t, u) \/ PollTimer(t, u) \/ PollIo(t, u) PROVE PermitInv'
  <2>1. /\ UNCHANGED <<count, waiting, held, arg>>
        /\ \A x \in UThreads \ {u} : pc'[x] = pc[x]
        /\ \/ pc[u] = "waitPoll" /\ pc'[u] = "waitWake"
           \/ pc'[u] \in {"idleWake", "exitWake"}
    BY <1>3 DEF PollToken, PollTimer, PollIo, Polled, AfterPoll, Polling, Goto, TypeOK, semaVars
  <2> QED BY <2>1, NoPermitStep DEF InWait
<1>4. ASSUME NEW t \in OSThreads, NEW u \in UThreads, PollDone(t, u) PROVE PermitInv'
  <2>1. /\ UNCHANGED <<count, waiting, held, arg>>
        /\ \A x \in UThreads \ {u} : pc'[x] = pc[x]
        /\ \/ pc[u] = "waitWake" /\ pc'[u] = "wait"
           \/ pc'[u] \in {"run", "exit"}
    BY <1>4 DEF PollDone, At, Goto, TypeOK, semaVars
  <2> QED BY <2>1, NoPermitStep DEF InWait
<1>5. ASSUME NEW t \in OSThreads, NEW u \in UThreads, LeaveReap(t, u) PROVE PermitInv'
  <2>1. /\ UNCHANGED <<count, waiting, held, arg>>
        /\ \A x \in UThreads : pc'[x] \in {pc[x], "released", "leavePop"}
    BY <1>5 DEF LeaveReap, ReapTo, semaVars
  <2> QED BY <2>1, NoPermitStep DEF InWait
<1>6. ASSUME NEW t \in OSThreads, NEW u \in UThreads, NEW v \in UThreads,
             NEW d \in OSThreads, Spawn(t, u, v, d) PROVE PermitInv'
  <2>1. /\ UNCHANGED <<count, waiting, held, arg>>
        /\ \A x \in UThreads : pc'[x] \in {pc[x], "wakePush", "run"}
    BY <1>6 DEF Spawn, TypeOK, semaVars
  <2> QED BY <2>1, NoPermitStep DEF InWait
<1>7. ASSUME NEW t \in OSThreads, NEW u \in UThreads, NEW d \in Delays, Sleep(t, u, d)
      PROVE  PermitInv'
  <2>1. /\ UNCHANGED <<count, waiting, held, arg>>
        /\ \A x \in UThreads \ {u} : pc'[x] = pc[x]
        /\ pc[u] = "run"
    BY <1>7 DEF Sleep, At, Goto, TypeOK, semaVars
  <2>2. arg[u] = NoSema
    BY <1>0, <2>1 DEF Args
  <2> QED BY <2>1, <2>2, NoPermitStep
<1>8. CASE Tick \/ UNCHANGED vars
  <2>1. UNCHANGED <<count, waiting, held, arg, pc>>
    BY <1>8 DEF Tick, vars, semaVars, localVars
  <2> QED BY <2>1, NoPermitStep
<1> QED
  BY <1>1, <1>2, <1>3, <1>4, <1>5, <1>6, <1>7, <1>8, TakeStep, DownWaitPermit, CountStep,
     HandOverStep, ResumeStep
  DEF Next, Internal, Client, Down, Up

LEMMA PermitsHold == Spec => []PermitInv
<1>1. WakeInv /\ PlaceInv => TypeOK /\ Owned /\ PlaceInv
  BY DEF WakeInv
<1> QED BY InitPermit, StepPermit, PlacesHold, <1>1, PTL DEF Spec

\* At most one UThread has a guard of an os::Lock, although the lock is passed
\* from one to the next without ever being free.
THEOREM LocksExclude == Spec => []MutualExclusion
<1>1. PermitInv => MutualExclusion
  BY DEF PermitInv, OnePermit, MutualExclusion, Owners
<1> QED BY PermitsHold, <1>1, PTL

\* up() leaves no permit behind for a UThread that is in the queue, nor does
\* down() queue up for a permit that is there.
THEOREM PermitsAreUsed == Spec => []NoIdlePermit
<1>1. PermitInv => NoIdlePermit
  BY DEF PermitInv
<1> QED BY PermitsHold, <1>1, PTL

-----------------------------------------------------------------------------
(* The order of the sleepers.  wait() and threadMain sleep until the first of *)
(* them is due, so that one behind it with an earlier time would wake late.   *)

Sorted == \A t \in OSThreads : Ascending(sleeping[t])

LEMMA SleepSorted ==
  ASSUME TypeOK, Sorted, NEW t \in OSThreads, NEW u \in UThreads, NEW d \in Delays,
         Sleep(t, u, d)
  PROVE  Sorted'
<1> DEFINE e == [who |-> u, until |-> now + d]
           q == sleeping[t]
<1>1. PICK k \in 0..Len(q) :
        /\ CutAt(q, k, e.until)
        /\ sleeping' = [sleeping EXCEPT ![t] =
             SubSeq(@, 1, k) \o <<e>> \o SubSeq(@, k + 1, Len(@))]
  BY DEF Sleep
<1> DEFINE r == SubSeq(q, 1, k) \o <<e>> \o SubSeq(q, k + 1, Len(q))
<1>2. sleeping'[t] = r /\ \A t2 \in OSThreads \ {t} : sleeping'[t2] = sleeping[t2]
  BY <1>1 DEF TypeOK
<1>3. q \in Seq(Sleeper) /\ e \in Sleeper
  <2>1. now + d \in Nat
    BY SchedAssumption DEF TypeOK
  <2> QED BY <2>1 DEF Sleeper, TypeOK
<1>4. Ascending(q)
  BY DEF Sorted
<1> HIDE DEF q, e
<1>5. Inserted(q, k, e, r)
  BY <1>1, <1>3, InsertBehind
<1> HIDE DEF r
<1>6. Ascending(r)
  BY <1>1, <1>3, <1>4, <1>5, InsertSleeper
<1> QED BY <1>2, <1>6 DEF Sorted

LEMMA WakeSorted ==
  ASSUME TypeOK, Sorted, NEW t \in OSThreads, WakeThreads(t)
  PROVE  Sorted'
<1> DEFINE q == sleeping[t]
           r == sleeping'[t]
<1>1. PICK k \in 0..Len(q), w \in Seq(UThreads) :
        /\ Taken(q, k, r, w)
        /\ \A t2 \in OSThreads \ {t} : sleeping'[t2] = sleeping[t2]
  BY WakeThreadsTakes
<1>2. q \in Seq(Sleeper) /\ Ascending(q)
  BY DEF TypeOK, Sorted
<1> HIDE DEF q, r
<1>3. Ascending(r)
  BY <1>1, <1>2, TakeSleepers
<1> QED BY <1>1, <1>3 DEF Sorted, r

LEMMA StepSorted == TypeOK /\ Sorted /\ [Next]_vars => Sorted'
<1> SUFFICES ASSUME TypeOK, Sorted, [Next]_vars PROVE Sorted'
  OBVIOUS
<1>1. ASSUME NEW t \in OSThreads, NEW u \in UThreads,
             LeaveReap(t, u) \/ Resume(t, u) \/ PollDone(t, u) PROVE Sorted'
  BY <1>1, WakeSorted DEF LeaveReap, Resume, PollDone, ReapTo
<1>2. ASSUME NEW t \in OSThreads, NEW u \in UThreads,
             \/ WakePush(t, u) \/ WakeSignal(t, u) \/ Unlock(t, u) \/ LeaveSwitch(t, u)
             \/ LeaveNothing(t, u) \/ WaitSwitch(t, u) \/ ExitSwitch(t, u)
             \/ Block(t, u) \/ Exit(t, u) \/ PollToken(t, u) \/ PollTimer(t, u)
             \/ PollIo(t, u) \/ (\E v \in UThreads, d \in OSThreads : Spawn(t, u, v, d))
             \/ (\E s \in Semas : Down(t, u, s) \/ Up(t, u, s))
      PROVE  Sorted'
  <2>1. UNCHANGED sleeping
    BY <1>2 DEF WakePush, WakeSignal, Unlock, LeaveSwitch, LeaveNothing, WaitSwitch,
                ExitSwitch, Block, Exit, PollToken, PollTimer, PollIo, Polled, Spawn,
                Down, DownTake, DownWait, Up, UpCount, UpPop, schedVars
  <2> QED BY <2>1 DEF Sorted
<1>3. CASE Tick \/ UNCHANGED vars
  BY <1>3 DEF Tick, vars, schedVars, Sorted
<1> QED BY <1>1, <1>2, <1>3, SleepSorted DEF Next, Internal, Client

\* nextWake looks at the first sleeper only, and that is enough: when the time
\* of any of them has come, that of the first has.
THEOREM FirstSleeperIsEnough == Spec => []NoOversleep
<1>1. Init => Sorted
  BY DEF Init, Sorted, Ascending
<1>2. TypeOK /\ Sorted => NoOversleep
  <2> SUFFICES ASSUME TypeOK, Sorted, NEW t \in OSThreads, NEW e \in Range(sleeping[t]),
                      e.until <= now
               PROVE  Head(sleeping[t]).until <= now
    BY DEF NoOversleep
  <2> DEFINE q == sleeping[t]
  <2>1. q \in Seq(Sleeper) /\ now \in Nat
    BY DEF TypeOK
  <2>2. PICK i \in 1..Len(q) : e = q[i]
    BY <2>1, LenProperties DEF Range
  <2>3. Len(q) \in Nat /\ \A j \in 1..Len(q) : q[j] \in Sleeper
    BY <2>1, LenProperties, ElementOfSeq
  <2>4. 1 \in 1..Len(q) /\ 1 <= i
    BY <2>3
  <2>5. q[1].until <= q[i].until
    BY <2>4 DEF Sorted, Ascending
  <2>6. q[1].until \in Nat /\ q[i].until \in Nat
    BY <2>3, <2>4 DEF Sleeper
  <2> HIDE DEF q
  <2>7. Head(q) = q[1]
    BY <2>1, <2>4
  <2>8. Head(q).until <= now
    BY <2>1, <2>2, <2>5, <2>6, <2>7
  <2> QED BY <2>8 DEF q
<1> QED BY InitType, StepType, StepSorted, <1>1, <1>2, PTL DEF Spec

-----------------------------------------------------------------------------
(* The count of the UThreads of an OS thread.  It is incremented by whoever   *)
(* spawns, maybe on another OS thread, and decremented by exit().             *)

Alive(t) == {u \in UThreads : owner[u] = t /\ pc[u] \notin Gone}

\* The cardinality says something of a finite set only.
Counted ==
  \A t \in OSThreads : IsFiniteSet(Alive(t)) /\ aliveCount[t] = Cardinality(Alive(t))

LEMMA InitCounted == Init => Counted
<1> SUFFICES ASSUME Init, NEW t \in OSThreads
             PROVE  IsFiniteSet(Alive(t)) /\ aliveCount[t] = Cardinality(Alive(t))
  BY DEF Counted
<1> USE SchedAssumption
<1>1. ASSUME NEW u \in Alive(t) PROVE u = Main[t]
  <2>1. \E s \in OSThreads : Main[s] = u
    BY DEF Init, Alive, Gone
  <2>2. owner[u] = CHOOSE s \in OSThreads : Main[s] = u
    BY <2>1 DEF Init, Alive
  <2>3. Main[owner[u]] = u
    BY <2>1, <2>2
  <2> QED BY <2>3 DEF Alive
<1>2. Main[t] \in Alive(t)
  <2>1. pc[Main[t]] = "run"
    BY DEF Init
  <2>2. owner[Main[t]] = CHOOSE s \in OSThreads : Main[s] = Main[t]
    BY DEF Init
  <2>3. owner[Main[t]] = t
    BY <2>2
  <2> QED BY <2>1, <2>3 DEF Alive, Gone
<1>3. Alive(t) = {Main[t]}
  BY <1>1, <1>2
<1>4. IsFiniteSet(Alive(t)) /\ Cardinality(Alive(t)) = 1
  <2>1. IsFiniteSet({Main[t]}) /\ Cardinality({Main[t]}) = 1
    BY FS_Singleton
  <2> QED BY <1>3, <2>1
<1> QED BY <1>4 DEF Init

\* A step in which nobody is born or exits.
LEMMA SameCount ==
  ASSUME Counted, UNCHANGED <<aliveCount, owner>>,
         \A x \in UThreads : pc'[x] \in Gone <=> pc[x] \in Gone
  PROVE  Counted'
<1>1. \A t \in OSThreads : Alive(t)' = Alive(t)
  BY DEF Alive
<1> QED BY <1>1 DEF Counted

LEMMA SpawnCounted ==
  ASSUME TypeOK, Owned, Counted, NEW t \in OSThreads, NEW u \in UThreads,
         NEW v \in UThreads, NEW d \in OSThreads, Spawn(t, u, v, d)
  PROVE  Counted'
<1>1. /\ pc[u] = "run" /\ pc[v] = "unborn" /\ pc'[u] = "wakePush" /\ pc'[v] = "run"
      /\ \A x \in UThreads \ {u, v} : pc'[x] = pc[x]
      /\ owner'[v] = d /\ \A x \in UThreads \ {v} : owner'[x] = owner[x]
      /\ aliveCount'[d] = aliveCount[d] + 1
      /\ \A x \in OSThreads \ {d} : aliveCount'[x] = aliveCount[x]
  BY DEF Spawn, At, TypeOK
<1>2. owner[v] \notin OSThreads
  BY <1>1, SchedAssumption DEF Owned
<1>3. \A x \in OSThreads \ {d} : Alive(x)' = Alive(x)
  BY <1>1, <1>2 DEF Alive, Gone
<1>4. Alive(d)' = Alive(d) \union {v} /\ v \notin Alive(d)
  BY <1>1, <1>2 DEF Alive, Gone
<1>5. IsFiniteSet(Alive(d)') /\ Cardinality(Alive(d)') = Cardinality(Alive(d)) + 1
  BY <1>4, FS_AddElement DEF Counted
<1> QED BY <1>1, <1>3, <1>5 DEF Counted

LEMMA ExitCounted ==
  ASSUME TypeOK, Counted, NEW t \in OSThreads, NEW u \in UThreads, ExitSwitch(t, u)
  PROVE  Counted'
<1>1. /\ owner[u] = t /\ pc[u] = "exit" /\ pc'[u] = "dead" /\ UNCHANGED owner
      /\ \A x \in UThreads \ {u} : pc'[x] = pc[x]
      /\ aliveCount'[t] = aliveCount[t] - 1
      /\ \A x \in OSThreads \ {t} : aliveCount'[x] = aliveCount[x]
  BY DEF ExitSwitch, At, Goto, TypeOK
<1>2. \A x \in OSThreads \ {t} : Alive(x)' = Alive(x)
  BY <1>1 DEF Alive, Gone
<1>3. Alive(t)' = Alive(t) \ {u} /\ u \in Alive(t)
  BY <1>1 DEF Alive, Gone
<1>4. IsFiniteSet(Alive(t)') /\ Cardinality(Alive(t)') = Cardinality(Alive(t)) - 1
  BY <1>3, FS_RemoveElement DEF Counted
<1> QED BY <1>1, <1>2, <1>4 DEF Counted

LEMMA StepCounted == TypeOK /\ Owned /\ Counted /\ [Next]_vars => Counted'
<1> SUFFICES ASSUME TypeOK, Owned, Counted, [Next]_vars PROVE Counted'
  OBVIOUS
<1>1. ASSUME NEW t \in OSThreads, NEW u \in UThreads,
             LeaveReap(t, u) \/ Resume(t, u) PROVE Counted'
  <2>1. /\ UNCHANGED <<aliveCount, owner>> /\ pc[u] \in {"run", "reap"}
        /\ pc'[u] \in {"leavePop", "run"}
        /\ \A x \in UThreads \ {u} :
             pc'[x] = pc[x] \/ (x \in Range(exited[t]) /\ pc'[x] = "released")
    BY <1>1 DEF LeaveReap, Resume, ReapTo, At
  <2>2. \A x \in Range(exited[t]) : pc[x] = "dead"
    BY InLists
  <2> QED BY <2>1, <2>2, SameCount DEF Gone
<1>2. ASSUME NEW t \in OSThreads, NEW u \in UThreads,
             \/ WakePush(t, u) \/ WakeSignal(t, u) \/ Unlock(t, u) \/ LeaveSwitch(t, u)
             \/ LeaveNothing(t, u) \/ WaitSwitch(t, u) \/ PollDone(t, u)
             \/ Block(t, u) \/ Exit(t, u)
             \/ (\E d \in Delays : Sleep(t, u, d))
      PROVE  Counted'
  <2>1. /\ UNCHANGED <<aliveCount, owner>> /\ pc[u] \notin Gone /\ pc'[u] \notin Gone
        /\ \A x \in UThreads \ {u} : pc'[x] = pc[x]
    BY <1>2 DEF WakePush, WakeSignal, Unlock, LeaveSwitch, LeaveNothing, WaitSwitch, PollDone,
                Block, Exit, Sleep, At, Goto, TypeOK, schedVars, Gone
  <2> QED BY <2>1, SameCount
<1>3. ASSUME NEW t \in OSThreads, NEW u \in UThreads,
             PollToken(t, u) \/ PollTimer(t, u) \/ PollIo(t, u) PROVE Counted'
  <2>1. /\ UNCHANGED <<aliveCount, owner>> /\ pc[u] \notin Gone /\ pc'[u] \notin Gone
        /\ \A x \in UThreads \ {u} : pc'[x] = pc[x]
    BY <1>3 DEF PollToken, PollTimer, PollIo, Polled, AfterPoll, Polling, Goto, TypeOK, Gone
  <2> QED BY <2>1, SameCount
<1>4. ASSUME NEW t \in OSThreads, NEW u \in UThreads, NEW s \in Semas,
             Down(t, u, s) \/ Up(t, u, s) PROVE Counted'
  <2>1. /\ UNCHANGED <<aliveCount, owner>> /\ pc[u] \notin Gone /\ pc'[u] \notin Gone
        /\ \A x \in UThreads \ {u} : pc'[x] = pc[x]
    BY <1>4 DEF Down, DownTake, DownWait, Up, UpCount, UpPop, At, Goto, TypeOK, schedVars, Gone
  <2> QED BY <2>1, SameCount
<1>5. CASE Tick \/ UNCHANGED vars
  <2>1. UNCHANGED <<aliveCount, owner, pc>>
    BY <1>5 DEF Tick, vars, schedVars, localVars
  <2> QED BY <2>1, SameCount
<1> QED BY <1>1, <1>2, <1>3, <1>4, <1>5, SpawnCounted, ExitCounted DEF Next, Internal, Client

\* UThread::any() is right: the count of an OS thread is that of the UThreads
\* that will run on it, those included that others are only about to push on
\* its ready list.
THEOREM AliveCountIsExact == Spec => []AliveIsExact
<1>1. Counted => AliveIsExact
  BY DEF Counted, Alive, AliveIsExact, Gone
<1>2. WakeInv => TypeOK /\ Owned
  BY DEF WakeInv
<1> QED BY InitWake, StepWake, InitCounted, StepCounted, <1>1, <1>2, PTL DEF Spec
==============================================================================
