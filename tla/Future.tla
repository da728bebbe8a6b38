-------------------------------- MODULE Future --------------------------------
(***************************************************************************)
(* One future, with all who share it: os::FutureBase and os::FutureSema    *)
(* (OS/Future.cpp, OS/Future.h) and the reference counted                  *)
(* storm::FutureBase around them (Core/Future.cpp).  Everyone may run on   *)
(* an OS thread of its own.                                                *)
(*                                                                         *)
(* The Sema inside is OS/Sync.cpp.  Its lock is explicit where up() holds  *)
(* it: the UThread that up() wakes runs at once on another OS thread and   *)
(* may destroy the future, with the Sema, before up() lets go of the lock. *)
(* A UThread that is blocked and popped from the queue runs again, see     *)
(* UThreadSched.tla.                                                       *)
(***************************************************************************)
EXTENDS Naturals, Sequences, FiniteSets

CONSTANTS
  Clients,  \* UThreads that may hold a storm::Future.
  Worker,   \* The UThread that spawnRaw starts to compute the result.
  NoOne,
  Kinds     \* The uses of a future to look at, see AllKinds.

\* "stack":   os::Future, owned by the one who waits; the worker points to it.
\* "spawned": storm::Future whose rawFuture() is given to the worker.
\* "posted":  storm::Future that is posted by one of those who hold it.
AllKinds == {"stack", "spawned", "posted"}

ASSUME FutureAssumption ==
  /\ IsFiniteSet(Clients)
  /\ Worker \notin Clients
  /\ NoOne \notin Clients \union {Worker}
  /\ Kinds \subseteq AllKinds

VARIABLES
  kind,       \* Which use this is.
  holds,      \* The clients with a storm::Future, or the owner of the os::Future.
  refs,       \* Data::refs; without Data, one while the owner lives.
  release,    \* Data::releaseOnResult
  filled,     \* result->filled
  posted,     \* os::FutureBase::resultPosted
  stored,     \* What the memory of the result and the exception holds.
  read,       \* os::FutureBase::resultRead = readOnce
  count,      \* Sema::count
  waiting,    \* Sema::waiting
  lock,       \* Sema::lock, while up() has it.
  destroyed,  \* ~FutureBase has run.
  pc

dataVars == <<refs, release, holds>>
resultVars == <<filled, posted, stored>>
semaVars == <<count, waiting, lock>>
vars == <<kind, read, destroyed, pc, dataVars, resultVars, semaVars>>

Users == Clients \union {Worker}
Results == {"empty", "value", "error", "gone"}

PCs == {"idle",       \* in code that is not modelled
        "none",       \* the worker has not been spawned
        "function",   \* the worker runs the function
        "store",      \* the result is about to be copied into its place
        "publish",    \* in posted(), before the atomicCAS
        "fail",       \* in error(), before the atomicCAS
        "save",       \* in error(), before saveError
        "notify",     \* in notify(), before Sema::up
        "notifying",  \*   and in it, with its lock
        "release",    \*   and after it, in Data::resultPosted
        "down",       \* in wait(), before Sema::down
        "blocked",    \*   and in it, suspended
        "again",      \*   and before Sema::up
        "passing",    \*   and in that, with its lock
        "read",       \* result() may look at what was posted
        "destroy",    \* the last reference is gone, before ~FutureBase
        "done"}       \* the worker is finished with the future

Init ==
  /\ kind \in Kinds
  /\ \E c \in Clients : holds = {c}
  /\ refs = 1
  /\ release = 0
  /\ filled = 0
  /\ posted = "empty" /\ stored = "empty"
  /\ read = FALSE
  /\ count = 0 /\ waiting = <<>> /\ lock = NoOne
  /\ destroyed = FALSE
  /\ pc = [p \in Users |-> IF p = Worker THEN "none" ELSE "idle"]

\* p goes from one point of its code to another.
Goes(p, from, to) == pc[p] = from /\ pc' = [pc EXCEPT ![p] = to]

\* What a user is at when its call returns.
Returned(p) == IF p = Worker THEN "done" ELSE "idle"

-----------------------------------------------------------------------------
(* Objects and references. *)

\* Variant: the worker is given the future without a reference.
SpawnUnreferenced(c) ==
  /\ c \in holds /\ pc[c] = "idle"
  /\ kind # "posted"
  /\ Goes(Worker, "none", "function")
  /\ UNCHANGED <<kind, read, destroyed, dataVars, resultVars, semaVars>>

\* spawnRaw, with rawFuture(): the reference is there before the worker is.
Spawn(c) ==
  /\ c \in holds /\ pc[c] = "idle"
  /\ kind # "posted"
  /\ Goes(Worker, "none", "function")
  /\ release' = IF kind = "spawned" THEN 1 ELSE release
  /\ refs' = IF kind = "spawned" THEN refs + 1 ELSE refs
  /\ UNCHANGED <<kind, read, destroyed, holds, resultVars, semaVars>>

Copy(c, d) ==
  /\ kind # "stack"
  /\ c \in holds /\ pc[c] = "idle"
  /\ d \notin holds /\ pc[d] = "idle"
  /\ holds' = holds \union {d}
  /\ refs' = refs + 1
  /\ UNCHANGED <<kind, read, destroyed, pc, release, resultVars, semaVars>>

\* ~storm::FutureBase until atomicDecrement.  An os::Future is destroyed by its
\* owner, who has called result() before, see OS/Future.h:200.
Drop(c) ==
  /\ c \in holds
  /\ kind = "stack" => read
  /\ Goes(c, "idle", IF refs = 1 THEN "destroy" ELSE "idle")
  /\ holds' = holds \ {c}
  /\ refs' = refs - 1
  /\ UNCHANGED <<kind, read, destroyed, release, resultVars, semaVars>>

\* ~Data and ~os::FutureBase.  Only a client destroys the result too.
Destroy(p) ==
  /\ Goes(p, "destroy", Returned(p))
  /\ destroyed' = TRUE
  /\ stored' = IF p \in Clients /\ (filled = 1 \/ (kind = "stack" /\ posted = "value"))
               THEN "gone" ELSE stored
  /\ UNCHANGED <<kind, read, dataVars, filled, posted, semaVars>>

-----------------------------------------------------------------------------
(* posted(), error() and notify() *)

\* The function returns or throws.
FunctionEnds ==
  /\ Goes(Worker, "function", "store") \/ Goes(Worker, "function", "fail")
  /\ UNCHANGED <<kind, read, destroyed, dataVars, resultVars, semaVars>>

\* Variant: whoever posts does not look whether somebody else has.
PostTwice(c) ==
  /\ kind = "posted" /\ c \in holds
  /\ Goes(c, "idle", "store") \/ Goes(c, "idle", "fail")
  /\ filled' = 1
  /\ UNCHANGED <<kind, read, destroyed, dataVars, posted, stored, semaVars>>

\* postRaw and error: atomicCAS(filled, 0, 1), and nothing if that fails.
Post(c) ==
  /\ kind = "posted" /\ c \in holds
  /\ filled = 0
  /\ Goes(c, "idle", "store") \/ Goes(c, "idle", "fail")
  /\ filled' = 1
  /\ UNCHANGED <<kind, read, destroyed, dataVars, posted, stored, semaVars>>

Store(p) ==
  /\ Goes(p, "store", "publish")
  /\ stored' = "value"
  /\ UNCHANGED <<kind, read, destroyed, dataVars, filled, posted, semaVars>>

Publish(p) ==
  /\ Goes(p, "publish", "notify")
  /\ posted' = IF posted = "empty" THEN "value" ELSE posted
  /\ UNCHANGED <<kind, read, destroyed, dataVars, filled, stored, semaVars>>

\* Variant: whoever waits is notified before the error is saved.
FailEarly(p) ==
  /\ Goes(p, "fail", "notify")
  /\ posted' = IF posted = "empty" THEN "error" ELSE posted
  /\ UNCHANGED <<kind, read, destroyed, dataVars, filled, stored, semaVars>>

Fail(p) ==
  /\ Goes(p, "fail", "save")
  /\ posted' = IF posted = "empty" THEN "error" ELSE posted
  /\ UNCHANGED <<kind, read, destroyed, dataVars, filled, stored, semaVars>>

Save(p) ==
  /\ Goes(p, "save", "notify")
  /\ stored' = "error"
  /\ UNCHANGED <<kind, read, destroyed, dataVars, filled, posted, semaVars>>

\* Sema::up until the unlock: wakes the first in the queue or counts.
Up(p, from, to) ==
  /\ pc[p] = from
  /\ lock = NoOne
  /\ lock' = p
  /\ IF waiting = <<>>
     THEN /\ count' = count + 1
          /\ pc' = [pc EXCEPT ![p] = to]
          /\ UNCHANGED waiting
     ELSE /\ waiting' = Tail(waiting)
          /\ pc' = [pc EXCEPT ![p] = to, ![Head(waiting)] = "again"]
          /\ UNCHANGED count
  /\ UNCHANGED <<kind, read, destroyed, dataVars, resultVars>>

Notify(p) == Up(p, "notify", "notifying")

\* The Sema is unlocked.  A storm::Future then looks at its Data once more.
Notified(p) ==
  /\ Goes(p, "notifying", IF kind = "stack" THEN Returned(p) ELSE "release")
  /\ lock' = NoOne
  /\ UNCHANGED <<kind, read, destroyed, dataVars, resultVars, count, waiting>>

\* Variant: the reference taken for the result is kept.
ResultPostedKeeps(p) ==
  /\ Goes(p, "release", Returned(p))
  /\ release' = 0
  /\ UNCHANGED <<kind, read, destroyed, holds, refs, resultVars, semaVars>>

\* Variant: the reference is given up without the CAS on releaseOnResult.
ResultPostedAlways(p) ==
  /\ Goes(p, "release", IF refs = 1 THEN "destroy" ELSE Returned(p))
  /\ release' = 0
  /\ refs' = refs - 1
  /\ UNCHANGED <<kind, read, destroyed, holds, resultVars, semaVars>>

\* Data::resultPosted
ResultPosted(p) ==
  /\ Goes(p, "release",
          IF release = 1 /\ refs = 1 THEN "destroy" ELSE Returned(p))
  /\ release' = 0
  /\ refs' = refs - release
  /\ UNCHANGED <<kind, read, destroyed, holds, resultVars, semaVars>>

-----------------------------------------------------------------------------
(* result() *)

Result(c) ==
  /\ c \in holds
  /\ Goes(c, "idle", "down")
  /\ UNCHANGED <<kind, read, destroyed, dataVars, resultVars, semaVars>>

Down(c) ==
  /\ pc[c] = "down"
  /\ lock = NoOne
  /\ IF count > 0
     THEN /\ count' = count - 1
          /\ pc' = [pc EXCEPT ![c] = "again"]
          /\ UNCHANGED waiting
     ELSE /\ waiting' = Append(waiting, c)
          /\ pc' = [pc EXCEPT ![c] = "blocked"]
          /\ UNCHANGED count
  /\ UNCHANGED <<kind, read, destroyed, dataVars, resultVars, lock>>

\* Variant: wait() is a down() and no up().
AgainSkipped(c) ==
  /\ Goes(c, "again", "read")
  /\ UNCHANGED <<kind, read, destroyed, dataVars, resultVars, semaVars>>

\* sema.up(), so that the next one can pass.
Again(c) == Up(c, "again", "passing")

Passed(c) ==
  /\ Goes(c, "passing", "read")
  /\ lock' = NoOne
  /\ UNCHANGED <<kind, read, destroyed, dataVars, resultVars, count, waiting>>

\* A copy of the value is returned, or the exception thrown.
Read(c) ==
  /\ Goes(c, "read", "idle")
  /\ read' = TRUE
  /\ UNCHANGED <<kind, destroyed, dataVars, resultVars, semaVars>>

-----------------------------------------------------------------------------
\* Calls that have begun, and what the worker does once its function has ended.
Posting(p) ==
  \/ Store(p) \/ Publish(p) \/ Fail(p) \/ Save(p)
  \/ Notify(p) \/ Notified(p) \/ ResultPosted(p) \/ Destroy(p)

Waiting(c) == Down(c) \/ Again(c) \/ Passed(c) \/ Read(c)

Calls(c) ==
  \/ Spawn(c) \/ Drop(c) \/ Post(c) \/ Result(c)
  \/ \E d \in Clients : Copy(c, d)

Next ==
  \/ FunctionEnds
  \/ \E p \in Users : Posting(p)
  \/ \E c \in Clients : Waiting(c) \/ Calls(c)

Spec == Init /\ [][Next]_vars

\* Calls run on.  The lock of the Sema is held for a moment at a time, and
\* whoever wants it gets it at last, though others take it again and again:
\* hence strong fairness.  Nothing makes the function end or anybody call.
Fairness ==
  /\ SF_vars(Posting(Worker))
  /\ \A c \in Clients : SF_vars(Posting(c) \/ Waiting(c))

FairSpec == Spec /\ Fairness

-----------------------------------------------------------------------------
TypeOK ==
  /\ kind \in Kinds
  /\ holds \subseteq Clients
  /\ refs \in Nat
  /\ release \in {0, 1} /\ filled \in {0, 1}
  /\ posted \in Results \ {"gone"} /\ stored \in Results
  /\ read \in BOOLEAN /\ destroyed \in BOOLEAN
  /\ count \in Nat
  /\ waiting \in Seq(Clients)
  /\ lock \in Users \union {NoOne}
  /\ pc \in [Users -> PCs]

\* Not using the future, or not yet or no longer.
Outside == {"idle", "none", "done"}

\* Nobody is inside a call on a future that has been destroyed, in particular
\* not in the Sema whose up() let the last one go (OS/Future.h:184-187), nor in
\* Data::resultPosted (Core/Future.cpp:87-90), and it is destroyed once.
NoUseAfterDestroy == destroyed => \A p \in Users : pc[p] \in Outside

\* Whoever comes out of wait() finds the result complete, although error()
\* announces the error before it has saved it (OS/Future.cpp:76-91).
ResultIsComplete ==
  \A c \in Clients :
    pc[c] = "read" => stored = posted /\ posted \in {"value", "error"}

\* The result is settled once, however many post it (Core/Future.cpp:31-51):
\* what has been announced does not change, and its memory is not written again.
OneResult ==
  [][/\ posted # "empty" => posted' = posted
     /\ stored # "empty" => stored' \in {stored, "gone"}]_vars

\* Once there is a result everyone who waits for it gets it: each passes the
\* permit of the Sema on to the next (OS/Future.h:184-187).
WaitersReturn ==
  \A c \in Clients :
    posted # "empty" /\ pc[c] \in {"down", "blocked"} ~> pc[c] = "idle"

\* A future that nobody holds is destroyed once its result has been posted,
\* also when the objects went first (Core/Future.cpp:17-25, 79-90, 106-123).
AbandonedIsDestroyed == holds = {} /\ posted # "empty" ~> destroyed
==============================================================================
