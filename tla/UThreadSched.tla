----------------------------- MODULE UThreadSched -----------------------------
(***************************************************************************)
(* The cooperative scheduler of OS/UThread.cpp with the primitives of      *)
(* OS/Sync.cpp that suspend and resume UThreads (Sema, and Lock, which is  *)
(* a Sema of one permit used through the scope guard Lock::L).             *)
(*                                                                         *)
(* Every UThread belongs to one OS thread.  All code runs on behalf of the *)
(* UThread that "running" names; when nothing is ready, the UThread that   *)
(* is about to be suspended goes to sleep inside wait() or exit() itself,  *)
(* and may well be the one that is woken.  OS threads run in parallel and  *)
(* touch each other's state only through ready lists, semaphores and the   *)
(* token of IOCondition (WakeToken; IOCondition.tla implements it).        *)
(*                                                                         *)
(* A step of this module is what one OS thread does between two points     *)
(* where another can interfere: one critical section of a util::Lock, or   *)
(* accesses to data that only its own OS thread uses.                      *)
(***************************************************************************)
EXTENDS Integers, Sequences, FiniteSets, Functions

CONSTANTS
  OSThreads,     \* os::ThreadData
  UThreads,      \* os::UThreadData
  Main,          \* The UThread that every OS thread starts with.
  Semas,         \* os::Sema objects shared between UThreads.
  Locks,         \* Those of them that are the semaphore of an os::Lock.
  InitCount,     \* The permits each semaphore is created with.
  Delays,        \* The durations UThreads sleep for.
  MaxCount,      \* Bound of the model: permits clients store in a semaphore.
  MaxTime,       \* Bound of the model: the clock stops here.
  NoUThread, NoSema, NoOSThread

ASSUME SchedAssumption ==
  /\ Main \in [OSThreads -> UThreads]
  /\ \A s, t \in OSThreads : Main[s] = Main[t] => s = t
  /\ Locks \subseteq Semas
  /\ InitCount \in [Semas -> Nat]
  /\ \A l \in Locks : InitCount[l] = 1
  /\ Delays \subseteq Nat
  /\ MaxCount \in Nat /\ MaxTime \in Nat
  /\ NoUThread \notin UThreads
  /\ NoSema \notin Semas
  /\ NoOSThread \notin OSThreads

VARIABLES
  running,     \* UThreadState::running
  ready,       \* UThreadState::ready
  exited,      \* UThreadState::exited
  sleeping,    \* UThreadState::sleeping, sorted by "until"
  aliveCount,  \* UThreadState::aliveCount
  token,       \* ThreadData::wakeCond: a signal not yet answered
  owner,       \* UThreadData::owner
  count,       \* Sema::count
  waiting,     \* Sema::waiting
  lock,        \* Who is inside Sema::lock for more than one step
  pc,          \* Where each UThread is, see PCs
  arg,         \* The semaphore it is operating on
  target,      \* The UThread it is about to make ready
  held,        \* The Lock::L guards that are alive in each UThread
  now          \* The clock

schedVars == <<running, ready, exited, sleeping, aliveCount, token>>
semaVars == <<count, waiting, lock>>
localVars == <<owner, pc, arg, target, held>>
vars == <<schedVars, semaVars, localVars, now>>

PCs == {
  "unborn",      \* not created yet
  "run",         \* client code (or created, and not run yet)
  "wakePush",    \* wake() or insert(), before ready.push
  "wakeSignal",  \* wake() or insert(), before owner->reportWake
  "unlock",      \* up(), before the guard of Sema::lock is destroyed
  "leavePop",    \* leave(), after the first reap()
  "wait",        \* wait(), at the head of its loop
  "waitPoll",    \* wait(), asleep in waitForWork
  "waitWake",    \* wait(), in waitForWork, before wakeThreads
  "reap",        \* leave() or wait(), before the last reap()
  "exit", "exitPoll", "exitWake",  \* the same points of exit()
  "idlePoll", "idleWake",          \* and of threadMain's own loop
  "dead",        \* in the exited list
  "released" }   \* no longer known to the scheduler

Sleeper == [who : UThreads, until : Nat]

Init ==
  /\ running = Main
  /\ ready = [t \in OSThreads |-> <<>>]
  /\ exited = [t \in OSThreads |-> <<>>]
  /\ sleeping = [t \in OSThreads |-> <<>>]
  /\ aliveCount = [t \in OSThreads |-> 1]
  /\ token = [t \in OSThreads |-> FALSE]
  /\ owner = [u \in UThreads |-> IF \E t \in OSThreads : Main[t] = u
                                 THEN CHOOSE t \in OSThreads : Main[t] = u
                                 ELSE NoOSThread]
  /\ count = InitCount
  /\ waiting = [s \in Semas |-> <<>>]
  /\ lock = [s \in Semas |-> NoUThread]
  /\ pc = [u \in UThreads |-> IF \E t \in OSThreads : Main[t] = u
                              THEN "run" ELSE "unborn"]
  /\ arg = [u \in UThreads |-> NoSema]
  /\ target = [u \in UThreads |-> NoUThread]
  /\ held = [u \in UThreads |-> {}]
  /\ now = 0

-----------------------------------------------------------------------------
(* UThread u executes on its OS thread t, at point p. *)

At(t, u, p) == owner[u] = t /\ running[t] = u /\ pc[u] = p

Goto(u, p) == pc' = [pc EXCEPT ![u] = p]

-----------------------------------------------------------------------------
(* Making another UThread ready: UThreadState::wake and UThreadState::insert. *)

\* Under the lock of the target's OS thread.
WakePush(t, u) ==
  LET v == target[u] IN
  /\ At(t, u, "wakePush")
  /\ ready' = [ready EXCEPT ![owner[v]] = Append(@, v)]
  /\ Goto(u, "wakeSignal")
  /\ UNCHANGED <<running, exited, sleeping, aliveCount, token, semaVars,
                 owner, arg, target, held, now>>

\* owner->reportWake(): from here on nothing of the target is used any more.
WakeSignal(t, u) ==
  /\ At(t, u, "wakeSignal")
  /\ token' = [token EXCEPT ![owner[target[u]]] = TRUE]
  /\ target' = [target EXCEPT ![u] = NoUThread]
  /\ Goto(u, IF arg[u] = NoSema THEN "run" ELSE "unlock")
  /\ UNCHANGED <<running, ready, exited, sleeping, aliveCount, semaVars,
                 owner, arg, held, now>>

\* Variant: the new UThread counts for the OS thread of its creator.
SpawnCountsHere(t, u, v, d) ==
  /\ At(t, u, "run")
  /\ pc[v] = "unborn"
  /\ owner' = [owner EXCEPT ![v] = d]
  /\ aliveCount' = [aliveCount EXCEPT ![t] = @ + 1]
  /\ pc' = [pc EXCEPT ![u] = "wakePush", ![v] = "run"]
  /\ target' = [target EXCEPT ![u] = v]
  /\ UNCHANGED <<running, ready, exited, sleeping, token, semaVars,
                 arg, held, now>>

\* UThread::spawn: create the UThreadData for OS thread d, count it as alive
\* and continue in insert().
Spawn(t, u, v, d) ==
  /\ At(t, u, "run")
  /\ pc[v] = "unborn"
  /\ owner' = [owner EXCEPT ![v] = d]
  /\ aliveCount' = [aliveCount EXCEPT ![d] = @ + 1]
  /\ pc' = [pc EXCEPT ![u] = "wakePush", ![v] = "run"]
  /\ target' = [target EXCEPT ![u] = v]
  /\ UNCHANGED <<running, ready, exited, sleeping, token, semaVars,
                 arg, held, now>>

-----------------------------------------------------------------------------
(* Sema and Lock.  Lock::L calls up only for a lock it has taken. *)

\* Variant: the count is not looked at under the lock.
DownTakeUnchecked(t, u, s) ==
  /\ At(t, u, "run")
  /\ s \notin held[u]
  /\ lock[s] = NoUThread
  /\ count' = [count EXCEPT ![s] = @ - 1]
  /\ held' = [held EXCEPT ![u] = @ \union ({s} \intersect Locks)]
  /\ UNCHANGED <<schedVars, waiting, lock, owner, pc, arg, target, now>>

\* Sema::down with a permit left.
DownTake(t, u, s) ==
  /\ At(t, u, "run")
  /\ s \notin held[u]
  /\ lock[s] = NoUThread
  /\ count[s] > 0
  /\ count' = [count EXCEPT ![s] = @ - 1]
  /\ held' = [held EXCEPT ![u] = @ \union ({s} \intersect Locks)]
  /\ UNCHANGED <<schedVars, waiting, lock, owner, pc, arg, target, now>>

\* Variant: the count is not looked at under the lock, and it queues up.
DownWaitUnchecked(t, u, s) ==
  /\ At(t, u, "run")
  /\ s \notin held[u]
  /\ lock[s] = NoUThread
  /\ waiting' = [waiting EXCEPT ![s] = Append(@, u)]
  /\ arg' = [arg EXCEPT ![u] = s]
  /\ Goto(u, "wait")
  /\ UNCHANGED <<schedVars, count, lock, owner, target, held, now>>

\* Sema::down without: queue up, release the lock, and only then wait().
DownWait(t, u, s) ==
  /\ At(t, u, "run")
  /\ s \notin held[u]
  /\ lock[s] = NoUThread
  /\ count[s] = 0
  /\ waiting' = [waiting EXCEPT ![s] = Append(@, u)]
  /\ arg' = [arg EXCEPT ![u] = s]
  /\ Goto(u, "wait")
  /\ UNCHANGED <<schedVars, count, lock, owner, target, held, now>>

\* Sema::up with nobody waiting.
UpCount(t, u, s) ==
  /\ At(t, u, "run")
  /\ s \in Locks => s \in held[u]
  /\ lock[s] = NoUThread
  /\ waiting[s] = <<>>
  /\ count[s] < MaxCount
  /\ count' = [count EXCEPT ![s] = @ + 1]
  /\ held' = [held EXCEPT ![u] = @ \ {s}]
  /\ UNCHANGED <<schedVars, waiting, lock, owner, pc, arg, target, now>>

\* Variant: the permit is handed over and counted as well.
UpPopCounts(t, u, s) ==
  /\ At(t, u, "run")
  /\ s \in Locks => s \in held[u]
  /\ lock[s] = NoUThread
  /\ waiting[s] # <<>>
  /\ count' = [count EXCEPT ![s] = @ + 1]
  /\ waiting' = [waiting EXCEPT ![s] = Tail(@)]
  /\ lock' = [lock EXCEPT ![s] = u]
  /\ arg' = [arg EXCEPT ![u] = s]
  /\ target' = [target EXCEPT ![u] = Head(waiting[s])]
  /\ held' = [held EXCEPT ![u] = @ \ {s}]
  /\ Goto(u, "wakePush")
  /\ UNCHANGED <<schedVars, owner, now>>

\* Variant: the last in the queue comes first.
UpPopLast(t, u, s) ==
  LET n == Len(waiting[s]) IN
  /\ At(t, u, "run")
  /\ s \in Locks => s \in held[u]
  /\ lock[s] = NoUThread
  /\ waiting[s] # <<>>
  /\ waiting' = [waiting EXCEPT ![s] = SubSeq(@, 1, n - 1)]
  /\ lock' = [lock EXCEPT ![s] = u]
  /\ arg' = [arg EXCEPT ![u] = s]
  /\ target' = [target EXCEPT ![u] = waiting[s][n]]
  /\ held' = [held EXCEPT ![u] = @ \ {s}]
  /\ Goto(u, "wakePush")
  /\ UNCHANGED <<schedVars, count, owner, now>>

\* Sema::up hands the permit to the first in the queue; Sema::lock is held
\* until that UThread has been made ready.
UpPop(t, u, s) ==
  /\ At(t, u, "run")
  /\ s \in Locks => s \in held[u]
  /\ lock[s] = NoUThread
  /\ waiting[s] # <<>>
  /\ waiting' = [waiting EXCEPT ![s] = Tail(@)]
  /\ lock' = [lock EXCEPT ![s] = u]
  /\ arg' = [arg EXCEPT ![u] = s]
  /\ target' = [target EXCEPT ![u] = Head(waiting[s])]
  /\ held' = [held EXCEPT ![u] = @ \ {s}]
  /\ Goto(u, "wakePush")
  /\ UNCHANGED <<schedVars, count, owner, now>>

Unlock(t, u) ==
  /\ At(t, u, "unlock")
  /\ lock' = [lock EXCEPT ![arg[u]] = NoUThread]
  /\ arg' = [arg EXCEPT ![u] = NoSema]
  /\ Goto(u, "run")
  /\ UNCHANGED <<schedVars, count, waiting, owner, target, held, now>>

-----------------------------------------------------------------------------
(* reap(): forget the UThreads that have exited, wake the sleepers whose     *)
(* time has come.  The time is read once, and nobody sees the intermediate   *)
(* states but for the order in which others push on the same ready list.     *)

\* The first k sleepers of q, and no more, come before time d.
CutAt(q, k, d) ==
  /\ \A i \in 1..k : q[i].until < d
  /\ k < Len(q) => d <= q[k + 1].until

\* Variant: of several sleepers that are due, one is woken.
WakeThreadsOne(t) ==
  \E k \in 0..Len(sleeping[t]) :
    /\ CutAt(sleeping[t], k, now + 1)
    /\ ready' = [ready EXCEPT ![t] =
         @ \o [i \in 1..(IF k > 0 THEN 1 ELSE 0) |-> sleeping[t][i].who]]
    /\ sleeping' = [sleeping EXCEPT ![t] = SubSeq(@, k + 1, Len(@))]
    /\ token' = [token EXCEPT ![t] = @ \/ k > 0]

\* wakeThreads: signal() is the up() of the Sema in sleep(), and so a wake().
WakeThreads(t) ==
  \E k \in 0..Len(sleeping[t]) :
    /\ CutAt(sleeping[t], k, now + 1)
    /\ ready' = [ready EXCEPT ![t] = @ \o [i \in 1..k |-> sleeping[t][i].who]]
    /\ sleeping' = [sleeping EXCEPT ![t] = SubSeq(@, k + 1, Len(@))]
    /\ token' = [token EXCEPT ![t] = @ \/ k > 0]

\* The rest of reap, when UThread u goes on at p.
ReapTo(t, u, p) ==
  /\ WakeThreads(t)
  /\ exited' = [exited EXCEPT ![t] = <<>>]
  /\ pc' = [v \in UThreads |-> IF v = u THEN p
                               ELSE IF v \in Range(exited[t]) THEN "released"
                               ELSE pc[v]]

-----------------------------------------------------------------------------
(* leave(): let the others run, stay ready. *)

LeaveReap(t, u) ==
  /\ At(t, u, "run")
  /\ ReapTo(t, u, "leavePop")
  /\ UNCHANGED <<running, aliveCount, semaVars, owner, arg, target, held, now>>

\* Variant: the UThread that leaves is pushed first, at the front of the list,
\* and so is the next one.
LeaveSwitchFront(t, u) ==
  /\ At(t, u, "leavePop")
  /\ ready[t] # <<>>
  /\ running' = [running EXCEPT ![t] = u]
  /\ Goto(u, "reap")
  /\ UNCHANGED <<ready, exited, sleeping, aliveCount, token, semaVars,
                 owner, arg, target, held, now>>

\* Variant: the next one is not removed from the list.
LeaveSwitchPeeks(t, u) ==
  /\ At(t, u, "leavePop")
  /\ ready[t] # <<>>
  /\ running' = [running EXCEPT ![t] = Head(ready[t])]
  /\ ready' = [ready EXCEPT ![t] = Append(@, u)]
  /\ Goto(u, "reap")
  /\ UNCHANGED <<exited, sleeping, aliveCount, token, semaVars,
                 owner, arg, target, held, now>>

LeaveSwitch(t, u) ==
  /\ At(t, u, "leavePop")
  /\ ready[t] # <<>>
  /\ running' = [running EXCEPT ![t] = Head(ready[t])]
  /\ ready' = [ready EXCEPT ![t] = Append(Tail(@), u)]
  /\ Goto(u, "reap")
  /\ UNCHANGED <<exited, sleeping, aliveCount, token, semaVars,
                 owner, arg, target, held, now>>

\* Nothing else is ready: leave() returns false, and threadMain goes to sleep
\* then, between two rounds of the ThreadWait's work() or after its function.
LeaveNothing(t, u) ==
  /\ At(t, u, "leavePop")
  /\ ready[t] = <<>>
  /\ \/ Goto(u, "run")
     \/ u = Main[t] /\ held[u] = {} /\ Goto(u, "idlePoll")
  /\ UNCHANGED <<schedVars, semaVars, owner, arg, target, held, now>>

\* The last reap of leave() and wait(), by a UThread that runs again.  If it
\* was waiting for a lock, it owns the lock now.
Resume(t, u) ==
  /\ At(t, u, "reap")
  /\ ReapTo(t, u, "run")
  /\ held' = [held EXCEPT ![u] = @ \union ({arg[u]} \intersect Locks)]
  /\ arg' = [arg EXCEPT ![u] = NoSema]
  /\ UNCHANGED <<running, aliveCount, semaVars, owner, target, now>>

-----------------------------------------------------------------------------
(* sleep(): the list is sorted, and of equal deadlines the last comes first. *)

\* Variant: the list is not sorted.
SleepAppends(t, u, d) ==
  /\ At(t, u, "run")
  /\ now + d <= MaxTime
  /\ sleeping' = [sleeping EXCEPT ![t] = Append(@, [who |-> u, until |-> now + d])]
  /\ Goto(u, "wait")
  /\ UNCHANGED <<running, ready, exited, aliveCount, token, semaVars,
                 owner, arg, target, held, now>>

Sleep(t, u, d) ==
  /\ At(t, u, "run")
  /\ now + d <= MaxTime
  /\ \E k \in 0..Len(sleeping[t]) :
       /\ CutAt(sleeping[t], k, now + d)
       /\ sleeping' = [sleeping EXCEPT ![t] =
            SubSeq(@, 1, k) \o <<[who |-> u, until |-> now + d]>>
                            \o SubSeq(@, k + 1, Len(@))]
  /\ Goto(u, "wait")
  /\ UNCHANGED <<running, ready, exited, aliveCount, token, semaVars,
                 owner, arg, target, held, now>>

-----------------------------------------------------------------------------
(* wait(): run someone else, or this UThread itself if it is made ready      *)
(* before it went to sleep.                                                  *)

WaitSwitch(t, u) ==
  /\ At(t, u, "wait")
  /\ ready[t] # <<>>
  /\ running' = [running EXCEPT ![t] = Head(ready[t])]
  /\ ready' = [ready EXCEPT ![t] = Tail(@)]
  /\ Goto(u, "reap")
  /\ UNCHANGED <<exited, sleeping, aliveCount, token, semaVars,
                 owner, arg, target, held, now>>

\* Variant: as in leave(), the UThread that exits stays ready.
ExitSwitchReady(t, u) ==
  /\ At(t, u, "exit")
  /\ ready[t] # <<>>
  /\ running' = [running EXCEPT ![t] = Head(ready[t])]
  /\ ready' = [ready EXCEPT ![t] = Append(Tail(@), u)]
  /\ aliveCount' = [aliveCount EXCEPT ![t] = @ - 1]
  /\ exited' = [exited EXCEPT ![t] = Append(@, u)]
  /\ Goto(u, "dead")
  /\ UNCHANGED <<sleeping, token, semaVars, owner, arg, target, held, now>>

\* exit(): the same, but this UThread never runs again.
ExitSwitch(t, u) ==
  /\ At(t, u, "exit")
  /\ ready[t] # <<>>
  /\ running' = [running EXCEPT ![t] = Head(ready[t])]
  /\ ready' = [ready EXCEPT ![t] = Tail(@)]
  /\ aliveCount' = [aliveCount EXCEPT ![t] = @ - 1]
  /\ exited' = [exited EXCEPT ![t] = Append(@, u)]
  /\ Goto(u, "dead")
  /\ UNCHANGED <<sleeping, token, semaVars, owner, arg, target, held, now>>

Exit(t, u) ==
  /\ At(t, u, "run")
  /\ u # Main[t]
  /\ held[u] = {}
  /\ Goto(u, "exit")
  /\ UNCHANGED <<schedVars, semaVars, owner, arg, target, held, now>>

\* Variant: the list is not looked at again before it sleeps.
BlockUnchecked(t, u) ==
  /\ \/ At(t, u, "wait") /\ Goto(u, "waitPoll")
     \/ At(t, u, "exit") /\ Goto(u, "exitPoll")
  /\ UNCHANGED <<schedVars, semaVars, owner, arg, target, held, now>>

\* Nothing is ready: ThreadData::waitForWork.
Block(t, u) ==
  /\ ready[t] = <<>>
  /\ \/ At(t, u, "wait") /\ Goto(u, "waitPoll")
     \/ At(t, u, "exit") /\ Goto(u, "exitPoll")
  /\ UNCHANGED <<schedVars, semaVars, owner, arg, target, held, now>>

-----------------------------------------------------------------------------
(* waitForWork(): sleep until signalled, until the first sleeper is due, or  *)
(* until a descriptor is ready; then wake the sleepers.                      *)

Polling == {"idlePoll", "waitPoll", "exitPoll"}

AfterPoll(p) == CASE p = "idlePoll" -> "idleWake"
                  [] p = "waitPoll" -> "waitWake"
                  [] p = "exitPoll" -> "exitWake"

Polled(t, u) ==
  /\ owner[u] = t /\ running[t] = u /\ pc[u] \in Polling
  /\ Goto(u, AfterPoll(pc[u]))
  /\ UNCHANGED <<running, ready, exited, sleeping, aliveCount, semaVars,
                 owner, arg, target, held, now>>

PollToken(t, u) == token[t] /\ Polled(t, u) /\ token' = [token EXCEPT ![t] = FALSE]

\* nextWake looks at the head of the list only.
PollTimer(t, u) ==
  /\ sleeping[t] # <<>>
  /\ Head(sleeping[t]).until <= now
  /\ Polled(t, u)
  /\ UNCHANGED token

PollIo(t, u) == Polled(t, u) /\ UNCHANGED token

\* The end of waitForWork, and back to the loop it was called from.
PollDone(t, u) ==
  /\ \/ At(t, u, "idleWake") /\ Goto(u, "run")
     \/ At(t, u, "waitWake") /\ Goto(u, "wait")
     \/ At(t, u, "exitWake") /\ Goto(u, "exit")
  /\ WakeThreads(t)
  /\ UNCHANGED <<running, exited, aliveCount, semaVars,
                 owner, arg, target, held, now>>

Tick ==
  /\ now < MaxTime
  /\ now' = now + 1
  /\ UNCHANGED <<schedVars, semaVars, localVars>>

-----------------------------------------------------------------------------
\* What the scheduler does of itself, once a client has called it.
Internal(t, u) ==
  \/ WakePush(t, u) \/ WakeSignal(t, u) \/ Unlock(t, u)
  \/ LeaveSwitch(t, u) \/ LeaveNothing(t, u) \/ Resume(t, u)
  \/ WaitSwitch(t, u) \/ ExitSwitch(t, u) \/ Block(t, u)
  \/ PollToken(t, u) \/ PollTimer(t, u) \/ PollDone(t, u)

Down(t, u, s) == DownTake(t, u, s) \/ DownWait(t, u, s)

Up(t, u, s) == UpCount(t, u, s) \/ UpPop(t, u, s)

\* What clients call.
Client(t, u) ==
  \/ LeaveReap(t, u) \/ Exit(t, u)
  \/ \E v \in UThreads, d \in OSThreads : Spawn(t, u, v, d)
  \/ \E s \in Semas : Down(t, u, s) \/ Up(t, u, s)
  \/ \E d \in Delays : Sleep(t, u, d)

Next ==
  \/ \E t \in OSThreads, u \in UThreads :
       Internal(t, u) \/ Client(t, u) \/ PollIo(t, u)
  \/ Tick

Spec == Init /\ [][Next]_vars

\* Every OS thread executes what it has begun, and time passes.  UThreads are
\* cooperative: they leave again and again, and they release the locks they
\* take.  Nothing makes them call anything else, and no IO is assumed.
Fairness ==
  /\ WF_vars(Tick)
  /\ \A u \in UThreads :
       /\ WF_vars(\E t \in OSThreads : Internal(t, u))
       /\ SF_vars(\E t \in OSThreads : LeaveReap(t, u))
       /\ SF_vars(\E t \in OSThreads, l \in Locks : Up(t, u, l))

FairSpec == Spec /\ Fairness

-----------------------------------------------------------------------------
TypeOK ==
  /\ running \in [OSThreads -> UThreads]
  /\ ready \in [OSThreads -> Seq(UThreads)]
  /\ exited \in [OSThreads -> Seq(UThreads)]
  /\ sleeping \in [OSThreads -> Seq(Sleeper)]
  /\ aliveCount \in [OSThreads -> Int]
  /\ token \in [OSThreads -> BOOLEAN]
  /\ owner \in [UThreads -> OSThreads \union {NoOSThread}]
  /\ count \in [Semas -> Nat]
  /\ waiting \in [Semas -> Seq(UThreads)]
  /\ lock \in [Semas -> UThreads \union {NoUThread}]
  /\ pc \in [UThreads -> PCs]
  /\ arg \in [UThreads -> Semas \union {NoSema}]
  /\ target \in [UThreads -> UThreads \union {NoUThread}]
  /\ held \in [UThreads -> SUBSET Locks]
  /\ now \in Nat
  /\ \A u \in UThreads :
       pc[u] \in {"wakePush", "wakeSignal"} => target[u] \in UThreads

\* At most one UThread is inside a section that an os::Lock protects, although
\* the lock passes from one to the next without ever being free.
MutualExclusion ==
  \A l \in Locks, u, v \in UThreads : l \in held[u] /\ l \in held[v] => u = v

\* The lists that UThread u is in (UThreadData has a single "next").  A sleeper
\* is in the queue of the semaphore of its own sleep().
Lists(u) ==
  {<<"ready", t>> : t \in {t \in OSThreads : u \in Range(ready[t])}}
  \union {<<"exited", t>> : t \in {t \in OSThreads : u \in Range(exited[t])}}
  \union {<<"sleep", t>> : t \in {t \in OSThreads :
                                 \E e \in Range(sleeping[t]) : e.who = u}}
  \union {<<"waiting", s>> : s \in {s \in Semas : u \in Range(waiting[s])}}

\* InlineList.h:35, "Can not push an element into more than one list": no
\* UThread is in two lists, or twice in one, or in a list when someone is about
\* to make it ready.
OneList ==
  /\ \A t \in OSThreads : IsInjective(ready[t]) /\ IsInjective(exited[t])
  /\ \A s \in Semas : IsInjective(waiting[s])
  /\ \A u \in UThreads : Cardinality(Lists(u)) <= 1
  /\ \A u \in UThreads : pc[u] = "wakePush" => Lists(target[u]) = {}

Signalled(t) ==
  token[t] \/ \E u \in UThreads : pc[u] = "wakeSignal" /\ owner[target[u]] = t

\* No lost wake-up (UThread.cpp:516-551, "Make sure we're not waiting for
\* something that has already happened"): an OS thread does not sleep on a
\* UThread that is ready, unless its signal is there or being sent.
NoLostWakeup ==
  \A t \in OSThreads :
    pc[running[t]] \in Polling /\ ready[t] # <<>> => Signalled(t)

\* A permit of a semaphore is never left unused while a UThread waits for one.
NoIdlePermit == \A s \in Semas : count[s] > 0 => waiting[s] = <<>>

\* No UThread runs, is queued or is about to be made ready when its stack may
\* already be freed, and none is resumed after exit().
NoUseAfterExit ==
  LET Gone == {u \in UThreads : pc[u] \in {"unborn", "dead", "released"}} IN
  /\ \A t \in OSThreads : running[t] \notin Gone /\ Range(ready[t]) \intersect Gone = {}
  /\ \A s \in Semas : Range(waiting[s]) \intersect Gone = {}
  /\ \A u \in UThreads : pc[u] = "wakePush" => target[u] \notin Gone

\* nextWake looks at the first sleeper only: when an OS thread sleeps past
\* somebody's deadline, the deadline of the first has passed as well.
NoOversleep ==
  \A t \in OSThreads :
    (\E e \in Range(sleeping[t]) : e.until <= now) => Head(sleeping[t]).until <= now

\* UThread::any() decides whether an OS thread may terminate: the count is that
\* of the UThreads that will still run on it.
AliveIsExact ==
  \A t \in OSThreads :
    aliveCount[t] = Cardinality({u \in UThreads :
      owner[u] = t /\ pc[u] \notin {"unborn", "dead", "released"}})

\* A UThread that is ready runs, whichever way it became ready and whatever its
\* OS thread was doing.
ReadyRuns ==
  \A t \in OSThreads, u \in UThreads :
    u \in Range(ready[t]) ~> running[t] = u

\* A lock is handed over in the order of the queue: whoever waits gets it.
LockIsGranted ==
  \A l \in Locks, u \in UThreads : u \in Range(waiting[l]) ~> l \in held[u]

\* Whoever sleeps runs again.
SleeperWakes ==
  \A t \in OSThreads, u \in UThreads :
    (\E e \in Range(sleeping[t]) : e.who = u) ~> running[t] = u /\ pc[u] = "run"
==============================================================================
