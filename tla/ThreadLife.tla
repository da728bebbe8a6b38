------------------------------ MODULE ThreadLife ------------------------------
(***************************************************************************)
(* The life of the OS threads of one ThreadGroup (OS/Thread.cpp and        *)
(* OS/ThreadGroup.cpp): threadMain keeps an OS thread running while        *)
(* somebody holds a Thread that refers to it or UThreads remain on it, and *)
(* then takes it out of the group and destroys its ThreadData, which lives *)
(* on its own stack.                                                       *)
(*                                                                         *)
(* An OS thread may be started with a ThreadWait, a class of Gui or Sound  *)
(* that sleeps in its own way and decides how long the thread shall stay.  *)
(* The UThreads of an OS thread are counted: UThreadSched.tla has their    *)
(* scheduling.  Clients are UThreads of other OS threads.                  *)
(***************************************************************************)
EXTENDS Integers, FiniteSets

CONSTANTS
  Threads,      \* os::ThreadData, each started at most once.
  WithWait,     \* Those of them that are started with a ThreadWait.
  Clients,
  Listers,      \* The clients that call ThreadGroup::threads.
  Joiner,       \* The client that calls ThreadGroup::join.
  MaxUThreads,  \* Bound of the model: UThreads on one OS thread.
  NoThread

ASSUME LifeAssumption ==
  /\ IsFiniteSet(Threads) /\ IsFiniteSet(Clients)
  /\ WithWait \subseteq Threads /\ Listers \subseteq Clients
  /\ Joiner \in Clients
  /\ MaxUThreads \in Nat
  /\ NoThread \notin Threads

VARIABLES
  phase,     \* Where each OS thread is in threadMain.
  refs,      \* ThreadData::references
  token,     \* ThreadData::wakeCond, see WakeToken.tla
  alive,     \* UThreadState::aliveCount, less one for threadMain itself
  ready,     \* How many of those are in UThreadState::ready,
  blocked,   \*   and how many wait for a Sema or the like.
  waits,     \* The threads with ThreadData::wait # null.
  roused,    \* Those whose ThreadWait has been signalled.
  running,   \* ThreadGroupData::running
  attached,  \* ThreadGroupData::attached
  sema,      \* ThreadGroupData::sema
  handles,   \* The Thread objects each client holds.
  cpc,       \* Where each client is
  carg       \*   and the OS thread it is dealing with.

dataVars == <<refs, token, alive, ready, blocked>>
waitVars == <<waits, roused>>
groupVars == <<running, attached, sema>>
clientVars == <<handles, cpc, carg>>
vars == <<phase, dataVars, waitVars, groupVars, clientVars>>

Phases == {
  "none",         \* not started
  "boot",         \* startThread was called
  "attached",     \* in threadStarted, before the thread is in the set
  "report",       \* in threadStarted's caller, before start.sema.up
  "fn",           \* in the function it was started with
  "waiting",      \*   or the loop after it, in ThreadWait::wait
  "loop",         \* at the head of the loop that ends threadMain
  "zero",         \* in it, saw no references
  "alone",        \* in it, saw no UThreads either
  "asleep",       \* in it, in waitForWork
  "unreachable",  \* out of it, no longer in the group's set
  "terminated",   \* has reported its termination to the group
  "gone" }        \* the ThreadData has been destroyed

CPCs == {"idle",      \* client code
         "starting",  \* Thread::spawn, waiting for ThreadStart::sema
         "zero",      \* ThreadData::release, before reportZero
         "push",      \* UThreadState::wake or insert, before ready.push
         "signal",    \* the same, before owner->reportWake
         "rouse",     \*   and in it, before wait->signal
         "joining",   \* join, at the head of its loop
         "joinDown",  \* join, before sema.down
         "joined" }   \* join is about to return

Init ==
  /\ phase = [d \in Threads |-> "none"]
  /\ refs = [d \in Threads |-> 0]
  /\ token = [d \in Threads |-> FALSE]
  /\ alive = [d \in Threads |-> 0]
  /\ ready = [d \in Threads |-> 0]
  /\ blocked = [d \in Threads |-> 0]
  /\ waits = {} /\ roused = {}
  /\ running = {}
  /\ attached = 0
  /\ sema = 0
  /\ handles = [c \in Clients |-> {}]
  /\ cpc = [c \in Clients |-> "idle"]
  /\ carg = [c \in Clients |-> NoThread]

-----------------------------------------------------------------------------
(* threadMain *)

\* OS thread d goes from one point of threadMain to another.
Moves(d, p, q) == phase[d] = p /\ phase' = [phase EXCEPT ![d] = q]

\* Variant: there is no reference for the function that runs.
StartWithTwo(d) ==
  /\ Moves(d, "boot", "attached")
  /\ refs' = [refs EXCEPT ![d] = 2]
  /\ waits' = waits \union ({d} \cap WithWait)
  /\ attached' = attached + 1
  /\ UNCHANGED <<roused, token, alive, ready, blocked, running, sema, clientVars>>

\* One reference until the function returns, two for Thread::spawn to release.
Start(d) ==
  /\ Moves(d, "boot", "attached")
  /\ refs' = [refs EXCEPT ![d] = 3]
  /\ waits' = waits \union ({d} \cap WithWait)
  /\ attached' = attached + 1
  /\ UNCHANGED <<roused, token, alive, ready, blocked, running, sema, clientVars>>

Insert(d) ==
  /\ Moves(d, "attached", "report")
  /\ running' = running \union {d}
  /\ UNCHANGED <<waitVars, dataVars, attached, sema, clientVars>>

\* start.sema.up(): the client that waits for it may go on.
Report(d) ==
  /\ Moves(d, "report", "fn")
  /\ UNCHANGED <<waitVars, dataVars, groupVars, clientVars>>

\* Without a ThreadWait, or once that is done, the function returns, and d.release() signals
\* d's own condition at zero.
FnDone(d) ==
  /\ d \notin waits
  /\ Moves(d, "fn", "loop")
  /\ refs' = [refs EXCEPT ![d] = @ - 1]
  /\ token' = [token EXCEPT ![d] = @ \/ refs[d] = 1]
  /\ UNCHANGED <<waitVars, alive, ready, blocked, groupVars, clientVars>>

\* leave() found nothing to run, then atomicRead(d.references) == 0.
CheckRefs(d) ==
  /\ Moves(d, "loop", IF refs[d] = 0 THEN "zero" ELSE "asleep")
  /\ ready[d] = 0
  /\ UNCHANGED <<waitVars, dataVars, groupVars, clientVars>>

\* UThread::any()
CheckAny(d) ==
  /\ Moves(d, "zero", IF alive[d] = 0 THEN "alone" ELSE "asleep")
  /\ UNCHANGED <<waitVars, dataVars, groupVars, clientVars>>

\* Variant: the references are not looked at again under the lock.
UnreachableUnchecked(d) ==
  /\ Moves(d, "alone", "unreachable")
  /\ running' = running \ {d}
  /\ UNCHANGED <<waitVars, dataVars, attached, sema, clientVars>>

\* threadUnreachable, all of it under runningLock.
Unreachable(d) ==
  /\ Moves(d, "alone", IF refs[d] > 0 THEN "asleep" ELSE "unreachable")
  /\ running' = IF refs[d] > 0 THEN running ELSE running \ {d}
  /\ UNCHANGED <<waitVars, dataVars, attached, sema, clientVars>>

\* Variant: the group is not told.
TerminateSilent(d) ==
  /\ Moves(d, "unreachable", "terminated")
  /\ UNCHANGED <<waitVars, dataVars, groupVars, clientVars>>

Terminate(d) ==
  /\ Moves(d, "unreachable", "terminated")
  /\ sema' = sema + 1
  /\ UNCHANGED <<waitVars, dataVars, running, attached, clientVars>>

\* Variant: the group is told twice.
DestroyReports(d) ==
  /\ Moves(d, "terminated", "gone")
  /\ sema' = sema + 1
  /\ UNCHANGED <<waitVars, dataVars, running, attached, clientVars>>

\* threadMain returns.
Destroy(d) ==
  /\ Moves(d, "terminated", "gone")
  /\ UNCHANGED <<waitVars, dataVars, groupVars, clientVars>>

\* waitForWork, woken by a signal or else by a descriptor that is ready.
WakeUp(d) ==
  /\ token[d]
  /\ Moves(d, "asleep", "loop")
  /\ token' = [token EXCEPT ![d] = FALSE]
  /\ UNCHANGED <<waitVars, refs, alive, ready, blocked, groupVars, clientVars>>

IoWakeUp(d) ==
  /\ Moves(d, "asleep", "loop")
  /\ UNCHANGED <<waitVars, dataVars, groupVars, clientVars>>

\* The function itself waits for something, and takes the signal with it.
FnWaits(d) ==
  /\ phase[d] = "fn" /\ d \notin waits
  /\ ready[d] = 0
  /\ token[d]
  /\ token' = [token EXCEPT ![d] = FALSE]
  /\ UNCHANGED <<waitVars, phase, refs, alive, ready, blocked, groupVars, clientVars>>

\* leave() or wait() found nothing to run: waitForWork, with a ThreadWait.
WaitBegin(d) ==
  /\ d \in waits /\ ready[d] = 0
  /\ Moves(d, "fn", "waiting")
  /\ UNCHANGED <<dataVars, waitVars, groupVars, clientVars>>

\* ThreadWait::wait returns for a signal or anything else, and false for good.
WaitReturn(d) ==
  /\ Moves(d, "waiting", "fn")
  /\ roused' = roused \ {d}
  /\ waits' \in {waits, waits \ {d}}
  /\ UNCHANGED <<dataVars, groupVars, clientVars>>

-----------------------------------------------------------------------------
(* The UThreads of d, when threadMain or the function lets them run.        *)

RunsUThread(d) == phase[d] \in {"fn", "loop"} /\ ready[d] > 0

UThreadExits(d) ==
  /\ RunsUThread(d)
  /\ ready' = [ready EXCEPT ![d] = @ - 1]
  /\ alive' = [alive EXCEPT ![d] = @ - 1]
  /\ UNCHANGED <<waitVars, phase, refs, token, blocked, groupVars, clientVars>>

UThreadBlocks(d) ==
  /\ RunsUThread(d)
  /\ ready' = [ready EXCEPT ![d] = @ - 1]
  /\ blocked' = [blocked EXCEPT ![d] = @ + 1]
  /\ UNCHANGED <<waitVars, phase, refs, token, alive, groupVars, clientVars>>

\* It passes Thread::current() to a client.
UThreadShares(d, c) ==
  /\ RunsUThread(d)
  /\ d \notin handles[c]
  /\ handles' = [handles EXCEPT ![c] = @ \union {d}]
  /\ refs' = [refs EXCEPT ![d] = @ + 1]
  /\ UNCHANGED <<waitVars, phase, token, alive, ready, blocked, groupVars, cpc, carg>>

-----------------------------------------------------------------------------
(* Clients.  Calls return before the same client makes another. *)

Client(c, p, q, d) ==
  /\ cpc[c] = p
  /\ cpc' = [cpc EXCEPT ![c] = q]
  /\ carg' = [carg EXCEPT ![c] = IF q \in {"idle", "joining", "joinDown", "joined"}
                                 THEN NoThread ELSE d]

\* Thread::spawn, until start.sema.down().  ThreadGroup.h:13-16: no thread is
\* added during a join.
NewThread(c, d) ==
  /\ cpc[Joiner] \notin {"joining", "joinDown", "joined"}
  /\ Client(c, "idle", "starting", d)
  /\ Moves(d, "none", "boot")
  /\ UNCHANGED <<waitVars, dataVars, groupVars, handles>>

\* The rest of spawn: one reference more for the Thread it returns, then two
\* less, by spawn itself and by ~ThreadStart.
Adopt(c) ==
  LET d == carg[c] IN
  /\ Client(c, "starting", "idle", d)
  /\ phase[d] \notin {"boot", "attached", "report"}
  /\ refs' = [refs EXCEPT ![d] = @ - IF d \in handles[c] THEN 2 ELSE 1]
  /\ handles' = [handles EXCEPT ![c] = @ \union {d}]
  /\ UNCHANGED <<waitVars, phase, token, alive, ready, blocked, groupVars>>

\* Variant: nobody is told that the last reference is gone.
ReleaseSilent(c, d) ==
  /\ d \in handles[c]
  /\ Client(c, "idle", "idle", d)
  /\ handles' = [handles EXCEPT ![c] = @ \ {d}]
  /\ refs' = [refs EXCEPT ![d] = @ - 1]
  /\ UNCHANGED <<waitVars, phase, token, alive, ready, blocked, groupVars>>

\* ~Thread: ThreadData::release, which goes on with reportZero at zero.
Release(c, d) ==
  /\ d \in handles[c]
  /\ Client(c, "idle", IF refs[d] = 1 THEN "zero" ELSE "idle", d)
  /\ handles' = [handles EXCEPT ![c] = @ \ {d}]
  /\ refs' = [refs EXCEPT ![d] = @ - 1]
  /\ UNCHANGED <<waitVars, phase, token, alive, ready, blocked, groupVars>>

\* UThread::spawn on a thread the client holds, until ready.push in insert.
SpawnOn(c, d) ==
  /\ d \in handles[c]
  /\ alive[d] < MaxUThreads
  /\ Client(c, "idle", "push", d)
  /\ alive' = [alive EXCEPT ![d] = @ + 1]
  /\ UNCHANGED <<waitVars, phase, refs, token, ready, blocked, groupVars, handles>>

\* UThreadState::wake, through a Sema and not through a Thread.
WakeUThread(c, d) ==
  /\ blocked[d] > 0
  /\ Client(c, "idle", "push", d)
  /\ blocked' = [blocked EXCEPT ![d] = @ - 1]
  /\ UNCHANGED <<waitVars, phase, refs, token, alive, ready, groupVars, handles>>

Push(c) ==
  LET d == carg[c] IN
  /\ Client(c, "push", "signal", d)
  /\ ready' = [ready EXCEPT ![d] = @ + 1]
  /\ UNCHANGED <<waitVars, phase, refs, token, alive, blocked, groupVars, handles>>

\* Variant: only the condition is signalled, also by reportWake.
SignalCondition(c) ==
  LET d == carg[c] IN
  /\ \E p \in {"signal", "zero"} : Client(c, p, "idle", d)
  /\ token' = [token EXCEPT ![d] = TRUE]
  /\ UNCHANGED <<waitVars, phase, refs, alive, ready, blocked, groupVars, handles>>

\* wakeCond.signal(), of reportWake, which looks at wait then, or of reportZero.
Signal(c) ==
  LET d == carg[c] IN
  /\ Client(c, "signal", IF d \in waits THEN "rouse" ELSE "idle", d)
     \/ Client(c, "zero", "idle", d)
  /\ token' = [token EXCEPT ![d] = TRUE]
  /\ UNCHANGED <<waitVars, phase, refs, alive, ready, blocked, groupVars, handles>>

\* wait->signal()
Rouse(c) ==
  LET d == carg[c] IN
  /\ Client(c, "rouse", "idle", d)
  /\ roused' = roused \union {d}
  /\ UNCHANGED <<waits, phase, dataVars, groupVars, handles>>

\* ThreadGroup::threads, all of it under runningLock.
ListThreads(c) ==
  /\ c \in Listers
  /\ cpc[c] = "idle"
  /\ handles' = [handles EXCEPT ![c] = @ \union running]
  /\ refs' = [d \in Threads |->
                refs[d] + IF d \in running \ handles[c] THEN 1 ELSE 0]
  /\ UNCHANGED <<waitVars, phase, token, alive, ready, blocked, groupVars, cpc, carg>>

-----------------------------------------------------------------------------
(* ThreadGroup::join: called when no spawn is under way. *)

JoinCall ==
  /\ \A c \in Clients : cpc[c] # "starting"
  /\ Client(Joiner, "idle", "joining", NoThread)
  /\ UNCHANGED <<waitVars, phase, dataVars, groupVars, handles>>

JoinNext ==
  /\ attached > 0
  /\ Client(Joiner, "joining", "joinDown", NoThread)
  /\ attached' = attached - 1
  /\ UNCHANGED <<waitVars, phase, dataVars, running, sema, handles>>

JoinDown ==
  /\ sema > 0
  /\ Client(Joiner, "joinDown", "joining", NoThread)
  /\ sema' = sema - 1
  /\ UNCHANGED <<waitVars, phase, dataVars, running, attached, handles>>

JoinEnd ==
  /\ attached = 0
  /\ Client(Joiner, "joining", "joined", NoThread)
  /\ UNCHANGED <<waitVars, phase, dataVars, groupVars, handles>>

JoinReturn ==
  /\ Client(Joiner, "joined", "idle", NoThread)
  /\ UNCHANGED <<waitVars, phase, dataVars, groupVars, handles>>

-----------------------------------------------------------------------------
\* What an OS thread does of itself.
ThreadMain(d) ==
  \/ Start(d) \/ Insert(d) \/ Report(d)
  \/ CheckRefs(d) \/ CheckAny(d) \/ Unreachable(d) \/ Terminate(d) \/ Destroy(d)
  \/ WakeUp(d)

\* What its function and its UThreads may do.
ThreadCode(d) ==
  \/ FnDone(d) \/ FnWaits(d) \/ WaitBegin(d) \/ WaitReturn(d) \/ UThreadExits(d) \/ UThreadBlocks(d)
  \/ \E c \in Clients : UThreadShares(d, c)

\* Calls of client c that go on without anyone's doing.
InCall(c) == Adopt(c) \/ Push(c) \/ Signal(c) \/ Rouse(c)

Calls(c, d) ==
  NewThread(c, d) \/ Release(c, d) \/ SpawnOn(c, d) \/ WakeUThread(c, d)

Join == JoinNext \/ JoinDown \/ JoinEnd \/ JoinReturn

Next ==
  \/ \E d \in Threads : ThreadMain(d) \/ ThreadCode(d) \/ IoWakeUp(d)
  \/ \E c \in Clients : InCall(c) \/ ListThreads(c) \/ \E d \in Threads : Calls(c, d)
  \/ JoinCall \/ Join

Spec == Init /\ [][Next]_vars

\* Calls and threadMain go on once begun.  A ThreadWait returns when it has been
\* signalled (ThreadWait, OS/Thread.h:28-57).  No client has to call anything, no
\* UThread and no function has to end.
Fairness ==
  /\ \A d \in Threads : WF_vars(ThreadMain(d)) /\ WF_vars(d \in roused /\ WaitReturn(d))
  /\ \A c \in Clients : WF_vars(InCall(c))
  /\ WF_vars(Join)

FairSpec == Spec /\ Fairness

-----------------------------------------------------------------------------
TypeOK ==
  /\ phase \in [Threads -> Phases]
  /\ refs \in [Threads -> Nat]
  /\ token \in [Threads -> BOOLEAN]
  /\ alive \in [Threads -> Nat]
  /\ ready \in [Threads -> Nat]
  /\ blocked \in [Threads -> Nat]
  /\ waits \subseteq WithWait /\ roused \subseteq WithWait
  /\ running \subseteq Threads
  /\ attached \in Nat
  /\ sema \in Nat
  /\ handles \in [Clients -> SUBSET Threads]
  /\ cpc \in [Clients -> CPCs]
  /\ carg \in [Clients -> Threads \union {NoThread}]
  /\ \A c \in Clients : cpc[c] \in {"starting", "zero", "push", "signal", "rouse"}
                        => carg[c] \in Threads

Terminates(d) == phase[d] \in {"unreachable", "terminated", "gone"}

Starting(d) == \E c \in Clients : cpc[c] = "starting" /\ carg[c] = d

\* A Thread object refers to an OS thread that has not begun to terminate,
\* however it was obtained; so does the Thread::spawn that started it.  The
\* references are what says so.
HandleKeepsAlive ==
  \A d \in Threads : Starting(d) \/ (\E c \in Clients : d \in handles[c])
                     => ~Terminates(d)

Signalling(d) == \E c \in Clients : carg[c] = d /\ cpc[c] \in {"push", "signal", "zero"}

\* Somebody is about to signal d's ThreadWait, as far as it has one.
Rousing(d) == \E c \in Clients : carg[c] = d /\ cpc[c] \in {"push", "signal", "rouse"}

\* No OS thread sleeps through its own end, nor with a UThread ready to run:
\* its signal is there, or somebody is about to send it, also when it changes
\* from one way to sleep to the other meanwhile (Thread.cpp:262-267).
NoLostTermination ==
  \A d \in Threads :
    /\ phase[d] = "asleep" /\ (ready[d] > 0 \/ (refs[d] = 0 /\ alive[d] = 0))
         => token[d] \/ Signalling(d)
    /\ phase[d] = "waiting" /\ ready[d] > 0 => d \in roused \/ Rousing(d)

\* ThreadGroup.h:39-40: join returns when all threads of the group have exited
\* (no thread is added meanwhile), although it counts them and does not name them.
JoinWaitsForAll ==
  cpc[Joiner] = "joined" =>
    \A d \in Threads : phase[d] \in {"none", "terminated", "gone"}

\* UThread.cpp:366: "An OS thread tried to terminate before all its UThreads
\* terminated."
TerminatesAlone == \A d \in Threads : Terminates(d) => alive[d] = 0

\* Thread.cpp:247: "Now, no one has any knowledge of our existence": nobody is
\* in a call that is about to use the ThreadData, nor the ThreadWait in it.
NobodyKnows ==
  \A d \in Threads : phase[d] = "gone" => ~Signalling(d) /\ ~Rousing(d)

\* Nobody refers to d and no UThread is left on it, now.
Abandoned(d) ==
  /\ phase[d] \notin {"boot", "attached", "report", "fn", "waiting"}
  /\ ~Starting(d) /\ \A c \in Clients : d \notin handles[c]
  /\ alive[d] = 0

\* An OS thread that is abandoned for good terminates.
AbandonedEnds ==
  \A d \in Threads :
    <>[](phase[d] # "none" /\ Abandoned(d)) => <>(phase[d] = "gone")

\* join returns when all threads are abandoned for good.
JoinReturns ==
  <>[](\A d \in Threads : Abandoned(d))
    => []<>(cpc[Joiner] \notin {"joining", "joinDown"})
==============================================================================
