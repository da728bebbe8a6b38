------------------------------ MODULE SyncEvent ------------------------------
(***************************************************************************)
(* os::Event (OS/Sync.cpp): a flag that UThreads wait for.  The flag is    *)
(* read and written without the lock that protects the queue of waiting    *)
(* UThreads.                                                               *)
(*                                                                         *)
(* UThreads of one OS thread are cooperative: one that is inside a call of *)
(* this module keeps its OS thread until the call returns or suspends it.  *)
(* Calls on different OS threads interleave freely.                        *)
(***************************************************************************)
EXTENDS Naturals, Sequences, Functions

CONSTANTS
  UThreads,      \* The UThreads that use the event.
  OSThread,      \* The OS thread that each of them belongs to.
  NoUThread

ASSUME EventAssumption == NoUThread \notin UThreads /\ DOMAIN OSThread = UThreads

VARIABLES
  s,        \* Event::s
  waiting,  \* Event::waiting
  lock,     \* Who holds Event::lock for more than one step
  pc,       \* Where each UThread is
  owed      \* UThreads that were in the queue when a set() was called

vars == <<s, waiting, lock, pc, owed>>

PCs == {"idle",       \* client code
        "enqueue",    \* wait(), has read s = 0
        "suspended",  \* wait(), in the queue or already ready again
        "ready",      \* wait(), made ready by a set()
        "drain",      \* set(), before it takes the lock
        "draining" }  \* set(), with the lock

Init ==
  /\ s = 0
  /\ waiting = <<>>
  /\ lock = NoUThread
  /\ pc = [u \in UThreads |-> "idle"]
  /\ owed = {}

\* Between the points where its OS thread may run another UThread.
InCall(u) == pc[u] \in {"enqueue", "drain", "draining"}

\* u may execute: no other UThread of its OS thread is in the middle of a call.
Runs(u) == \A v \in UThreads \ {u} : OSThread[v] = OSThread[u] => ~InCall(v)

Goto(u, p) == pc' = [pc EXCEPT ![u] = p]

-----------------------------------------------------------------------------
(* set() *)

\* Variant: the flag is counted up.
SetFlagCounts(u) ==
  /\ Runs(u) /\ pc[u] = "idle"
  /\ s' = s + 1
  /\ owed' = owed \union Range(waiting)
  /\ Goto(u, "drain")
  /\ UNCHANGED <<waiting, lock>>

SetFlag(u) ==
  /\ Runs(u) /\ pc[u] = "idle"
  /\ s' = 1
  /\ owed' = owed \union Range(waiting)
  /\ Goto(u, "drain")
  /\ UNCHANGED <<waiting, lock>>

SetLock(u) ==
  /\ pc[u] = "drain"
  /\ lock = NoUThread
  /\ lock' = u
  /\ Goto(u, "draining")
  /\ UNCHANGED <<s, waiting, owed>>

\* Variant: the first in the queue is woken and not removed.
SetWakePeeks(u) ==
  /\ pc[u] = "draining"
  /\ waiting # <<>>
  /\ Goto(Head(waiting), "ready")
  /\ owed' = owed \ {Head(waiting)}
  /\ UNCHANGED <<s, waiting, lock>>

SetWake(u) ==
  /\ pc[u] = "draining"
  /\ waiting # <<>>
  /\ waiting' = Tail(waiting)
  /\ Goto(Head(waiting), "ready")
  /\ owed' = owed \ {Head(waiting)}
  /\ UNCHANGED <<s, lock>>

\* Variant: set() wakes one, or none.
SetDoneEarly(u) ==
  /\ pc[u] = "draining"
  /\ lock' = NoUThread
  /\ Goto(u, "idle")
  /\ UNCHANGED <<s, waiting, owed>>

SetDone(u) ==
  /\ pc[u] = "draining"
  /\ waiting = <<>>
  /\ lock' = NoUThread
  /\ Goto(u, "idle")
  /\ UNCHANGED <<s, waiting, owed>>

-----------------------------------------------------------------------------
(* clear() *)

Clear(u) ==
  /\ Runs(u) /\ pc[u] = "idle"
  /\ s' = 0
  /\ UNCHANGED <<waiting, lock, pc, owed>>

-----------------------------------------------------------------------------
(* wait(): when the flag is set there is nothing to do. *)

WaitTest(u) ==
  /\ Runs(u) /\ pc[u] = "idle"
  /\ s = 0
  /\ Goto(u, "enqueue")
  /\ UNCHANGED <<s, waiting, lock, owed>>

WaitEnqueue(u) ==
  /\ pc[u] = "enqueue"
  /\ lock = NoUThread
  /\ waiting' = Append(waiting, u)
  /\ Goto(u, "suspended")
  /\ UNCHANGED <<s, lock, owed>>

WaitReturn(u) ==
  /\ Runs(u) /\ pc[u] = "ready"
  /\ Goto(u, "idle")
  /\ UNCHANGED <<s, waiting, lock, owed>>

-----------------------------------------------------------------------------
Internal(u) ==
  SetLock(u) \/ SetWake(u) \/ SetDone(u) \/ WaitEnqueue(u) \/ WaitReturn(u)

Next == \E u \in UThreads : Internal(u) \/ SetFlag(u) \/ Clear(u) \/ WaitTest(u)

Spec == Init /\ [][Next]_vars

\* Calls that have begun go on; nobody has to call anything.
FairSpec == Spec /\ \A u \in UThreads : WF_vars(Internal(u))

-----------------------------------------------------------------------------
TypeOK ==
  /\ s \in {0, 1}
  /\ waiting \in Seq(UThreads)
  /\ lock \in UThreads \union {NoUThread}
  /\ pc \in [UThreads -> PCs]
  /\ owed \subseteq UThreads

\* A UThread that is suspended can still be woken: it is in the queue, once.
SuspendedIsQueued ==
  /\ IsInjective(waiting)
  /\ Range(waiting) = {u \in UThreads : pc[u] = "suspended"}

\* "calls to 'wait' will block until the event is 'set'" (Sync.h:83): nobody
\* waits for an event that is set, except for the set() that is under way.
NobodyWaitsWhenSet ==
  s = 1 /\ waiting # <<>> => \E u \in UThreads : pc[u] \in {"drain", "draining"}

\* A set() wakes everyone who was waiting when it was called, even if the event
\* is cleared at once and while others set it and queue up again.
SetWakesAll == \A u \in UThreads : u \in owed ~> u \notin owed
==============================================================================
