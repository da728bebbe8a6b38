------------------------------ MODULE StackScan ------------------------------
(***************************************************************************)
(* The stacks of UThreads as the collector sees them (OS/UThread.cpp,      *)
(* OS/InlineSet.h and Gc/Scan.h).  The collector stops every OS thread     *)
(* between two machine instructions, whatever it holds, and scans the      *)
(* stacks in its set.  The set is a linked list that other OS threads add  *)
(* to, one stack is in use while its saved stack pointer is null, and a    *)
(* detour runs a UThread of one OS thread on another.                      *)
(*                                                                         *)
(* A step is an instruction that writes what the scan reads.  Which        *)
(* UThread runs next is arbitrary: UThreadSched.tla has the ready list.    *)
(* A detour copies parameters or walks a stack, without throwing and       *)
(* without giving up the OS thread: the code does not survive either.      *)
(* The scan is that of Gc/MPS/Impl.cpp too.                                *)
(***************************************************************************)
EXTENDS Naturals, FiniteSets

CONSTANTS
  OSThreads,
  UThreads,     \* os::UThreadData, each created at most once.
  Main,         \* The first UThread of each OS thread.
  NoUThread,
  NoOSThread

ASSUME ScanAssumption ==
  /\ IsFiniteSet(UThreads)
  /\ Main \in [OSThreads -> UThreads]
  /\ \A s, t \in OSThreads : Main[s] = Main[t] => s = t
  /\ NoUThread \notin UThreads /\ NoOSThread \notin OSThreads

VARIABLES
  first, last,    \* UThreadState::stacks, of each OS thread
  next, prev,     \*   and the links of SetMember.
  lock,           \* UThreadState::lock, and who holds it.
  home,           \* The OS thread in whose set a UThread is.
  initializing,   \* UThreadStack::initializing
  saved,          \* The UThreads with UThreadStack::desc # null.
  detourActive,   \* UThreadStack::detourActive
  detourTo,       \* UThreadStack::detourTo
  detourOrigin,   \* UThreadData::detourOrigin
  owner,          \* UThreadData::owner
  cpu,            \* The UThread on whose stack an OS thread is
  to,             \*   and the one it is switching to.
  pc, arg         \* Where each UThread is, and the UThread it deals with.

setVars == <<first, last, next, prev, lock, home>>
stackVars == <<initializing, saved, detourActive, detourTo>>
runVars == <<detourOrigin, owner, cpu, to>>
vars == <<setVars, stackVars, runVars, pc, arg>>

PCs == {
  "none",      \* not created
  "code",      \* client code
  "insert",    \* UThreadData's constructor, before stacks.insert
  "link", "head", "tail",      \* in insert, before each write
  "desc", "ready",             \* in create, before desc and initializing
  "push",      \* UThread::insert, before ready.push
  "adopt", "active", "switch", "inactive", "release",   \* in startDetour
  "new",       \* made, not handed over yet
  "copy",      \* the same, in the detour that copies its parameters
  "walk",      \* suspended, in a detour that walks its stack
  "last", "next", "prev", "clear",   \* in erase, before each write
  "exit",      \* exit, before the switch
  "gone" }     \* has ended

Init ==
  /\ first = Main /\ last = Main
  /\ next = [u \in UThreads |-> NoUThread] /\ prev = next
  /\ lock = [t \in OSThreads |-> NoUThread]
  /\ home = [u \in UThreads |->
               IF \E t \in OSThreads : Main[t] = u
               THEN CHOOSE t \in OSThreads : Main[t] = u ELSE NoOSThread]
  /\ initializing = {} /\ saved = {} /\ detourActive = {}
  /\ detourTo = [u \in UThreads |-> NoUThread] /\ detourOrigin = detourTo
  /\ owner = home
  /\ cpu = Main /\ to = [t \in OSThreads |-> NoUThread]
  /\ pc = [u \in UThreads |-> IF home[u] = NoOSThread THEN "none" ELSE "code"]
  /\ arg = detourTo

\* UThread u, which OS thread t is running, goes on.
At(t, u, p) == cpu[t] = u /\ to[t] = NoUThread /\ pc[u] = p

Goes(t, u, p, q) == At(t, u, p) /\ pc' = [pc EXCEPT ![u] = q]

\* The UThreads that t may run instead.
Suspended(t) == {v \in UThreads : owner[v] = t /\ v # cpu[t] /\ pc[v] = "code"}

-----------------------------------------------------------------------------
(* The scan of a stopped OS thread, Scan::stacks *)

\* What following the pointers f from u leads to: the smallest set with u in it
\* that f does not lead out of.
Along(f, u) ==
  LET Closed == {S \in SUBSET UThreads :
                   /\ u \in S \union {NoUThread}
                   /\ \A w \in S : f[w] \in S \union {NoUThread}}
  IN  {v \in UThreads : \A S \in Closed : v \in S}

\* Following them ends: they stay in no part of it for ever.
Ends(f, u) == \A S \in SUBSET Along(f, u) : S # {} => \E v \in S : f[v] \notin S

\* The stacks that an iteration over t's set yields.
Stacks(t) == Along(next, first[t])

\* The stacks that the scan of t looks at, with where it came from.
Visits(t) ==
  UNION {{s} \X (Along(detourTo, s) \ initializing) : s \in Stacks(t) \ detourActive}

\* Those that it takes for the one t is running.
Mains(t) == {v \in Visits(t) : v[2] \notin saved}

\* Those that it scans from where their stack pointer is.
Scanned(t) == {v[2] : v \in {w \in Visits(t) : w[2] \in saved \union {cpu[t]}}}

-----------------------------------------------------------------------------
(* doSwitch: the old stack pointer is saved, the new one loaded, then cleared *)

\* u stores its stack pointer and will go on at q.
Save(t, u, v, q) ==
  /\ to' = [to EXCEPT ![t] = v]
  /\ saved' = saved \union {u}
  /\ pc' = [pc EXCEPT ![u] = q]

Load(t) ==
  /\ to[t] \notin {NoUThread, cpu[t]}
  /\ cpu' = [cpu EXCEPT ![t] = to[t]]
  /\ UNCHANGED <<setVars, stackVars, detourOrigin, owner, to, pc, arg>>

\* The collector uses the stack pointer from now on.
Clear(t) ==
  /\ to[t] = cpu[t]
  /\ saved' = saved \ {cpu[t]}
  /\ to' = [to EXCEPT ![t] = NoUThread]
  /\ UNCHANGED <<setVars, initializing, detourActive, detourTo, detourOrigin, owner, cpu,
                 pc, arg>>

Leave(t, u) ==
  /\ At(t, u, "code") /\ lock[t] = NoUThread
  /\ \E v \in Suspended(t) : Save(t, u, v, "code")
  /\ UNCHANGED <<setVars, initializing, detourActive, detourTo, detourOrigin, owner, cpu, arg>>

-----------------------------------------------------------------------------
(* UThreadData::create, on any OS thread *)

Create(t, u, d, v) ==
  /\ pc[v] = "none" /\ At(t, u, "code")
  /\ pc' = [pc EXCEPT ![u] = "insert", ![v] = "new"]
  /\ arg' = [arg EXCEPT ![u] = v]
  /\ home' = [home EXCEPT ![v] = d]
  /\ initializing' = initializing \union {v}
  /\ UNCHANGED <<first, last, next, prev, lock, saved, detourActive, detourTo, runVars>>

\* InlineSet::insert, under the lock of the other OS thread.
InsertPrev(t, u) ==
  LET d == home[arg[u]] IN
  /\ Goes(t, u, "insert", "link")
  /\ lock[d] = NoUThread /\ lock' = [lock EXCEPT ![d] = u]
  /\ prev' = [prev EXCEPT ![arg[u]] = last[d]]
  /\ UNCHANGED <<first, last, next, home, stackVars, runVars, arg>>

InsertLink(t, u) ==
  LET d == home[arg[u]] IN
  /\ Goes(t, u, "link", "head")
  /\ next' = IF last[d] = NoUThread THEN next ELSE [next EXCEPT ![last[d]] = arg[u]]
  /\ UNCHANGED <<first, last, prev, lock, home, stackVars, runVars, arg>>

InsertFirst(t, u) ==
  LET d == home[arg[u]] IN
  /\ Goes(t, u, "head", "tail")
  /\ first' = [first EXCEPT ![d] = IF @ = NoUThread THEN arg[u] ELSE @]
  /\ UNCHANGED <<last, next, prev, lock, home, stackVars, runVars, arg>>

InsertLast(t, u) ==
  LET d == home[arg[u]] IN
  /\ Goes(t, u, "tail", "desc")
  /\ last' = [last EXCEPT ![d] = arg[u]]
  /\ lock' = [lock EXCEPT ![d] = NoUThread]
  /\ UNCHANGED <<first, next, prev, home, stackVars, runVars, arg>>

SetDesc(t, u) ==
  /\ Goes(t, u, "desc", "ready")
  /\ saved' = saved \union {arg[u]}
  /\ UNCHANGED <<setVars, initializing, detourActive, detourTo, runVars, arg>>

\* UThread::spawn hands the UThread over, spawnRaw runs it as a detour before.
Initialized(t, u) ==
  /\ At(t, u, "ready")
  /\ initializing' = initializing \ {arg[u]}
  /\ pc' \in {[pc EXCEPT ![u] = "push"], [pc EXCEPT ![u] = "adopt", ![arg[u]] = "copy"]}
  /\ UNCHANGED <<setVars, saved, detourActive, detourTo, runVars, arg>>

\* UThreadState::insert
Push(t, u) ==
  LET v == arg[u] IN
  /\ At(t, u, "push") /\ lock[home[v]] = NoUThread
  /\ pc' = [pc EXCEPT ![u] = "code", ![v] = "code"]
  /\ owner' = [owner EXCEPT ![v] = home[v]]
  /\ arg' = [arg EXCEPT ![u] = NoUThread]
  /\ UNCHANGED <<setVars, stackVars, detourOrigin, cpu, to>>

-----------------------------------------------------------------------------
(* Detours: OS thread t runs v in place of u *)

\* os::stackTraces makes the UThreads that are not running walk their stacks.
Trace(t, u, v) ==
  /\ At(t, u, "code") /\ lock[t] = NoUThread
  /\ v # u /\ owner[v] = owner[u]
  /\ v \in saved \ initializing /\ v \in Stacks(t)
  /\ pc' = [pc EXCEPT ![u] = "adopt", ![v] = "walk"]
  /\ owner' = [owner EXCEPT ![v] = NoOSThread]
  /\ arg' = [arg EXCEPT ![u] = v]
  /\ UNCHANGED <<setVars, stackVars, detourOrigin, cpu, to>>

\* Variant: the detour is active before it is linked.
AdoptLinksLate(t, u) ==
  /\ Goes(t, u, "adopt", "active")
  /\ owner' = [owner EXCEPT ![arg[u]] = t]
  /\ detourOrigin' = [detourOrigin EXCEPT ![arg[u]] = u]
  /\ detourActive' = detourActive \union {arg[u]}
  /\ UNCHANGED <<setVars, initializing, saved, detourTo, cpu, to, arg>>

Adopt(t, u) ==
  /\ Goes(t, u, "adopt", "active")
  /\ owner' = [owner EXCEPT ![arg[u]] = t]
  /\ detourOrigin' = [detourOrigin EXCEPT ![arg[u]] = u]
  /\ detourTo' = [detourTo EXCEPT ![u] = arg[u]]
  /\ UNCHANGED <<setVars, initializing, saved, detourActive, cpu, to, arg>>

Activate(t, u) ==
  /\ Goes(t, u, "active", "switch")
  /\ detourActive' = detourActive \union {arg[u]}
  /\ UNCHANGED <<setVars, initializing, saved, detourTo, runVars, arg>>

SwitchTo(t, u) ==
  /\ At(t, u, "switch")
  /\ Save(t, u, arg[u], "inactive")
  /\ UNCHANGED <<setVars, initializing, detourActive, detourTo, detourOrigin, owner, cpu, arg>>

\* Variant: the UThread that ends a detour releases itself.
EndDetourReleases(t, v) ==
  /\ v \in detourActive /\ (At(t, v, "copy") \/ At(t, v, "walk"))
  /\ detourActive' = detourActive \ {v}
  /\ UNCHANGED <<setVars, initializing, saved, detourTo, runVars, pc, arg>>

\* endDetour, when the parameters are copied or the stack is walked.
EndDetour(t, v) ==
  /\ \/ At(t, v, "copy") /\ Save(t, v, detourOrigin[v], "new")
     \/ At(t, v, "walk") /\ Save(t, v, detourOrigin[v], "code")
  /\ detourOrigin' = [detourOrigin EXCEPT ![v] = NoUThread]
  /\ owner' = [owner EXCEPT ![v] = NoOSThread]
  /\ UNCHANGED <<setVars, initializing, detourActive, detourTo, cpu, arg>>

Deactivate(t, u) ==
  /\ Goes(t, u, "inactive", "release")
  /\ detourActive' = detourActive \ {arg[u]}
  /\ UNCHANGED <<setVars, initializing, saved, detourTo, runVars, arg>>

\* A UThread that was there before goes back to its owner, a new one is pushed.
Release(t, u) ==
  /\ At(t, u, "release")
  /\ detourTo' = [detourTo EXCEPT ![u] = NoUThread]
  /\ \/ /\ pc[arg[u]] = "new" /\ pc' = [pc EXCEPT ![u] = "push"]
        /\ UNCHANGED <<owner, arg>>
     \/ /\ pc[arg[u]] # "new" /\ pc' = [pc EXCEPT ![u] = "code"]
        /\ owner' = [owner EXCEPT ![arg[u]] = owner[u]]
        /\ arg' = [arg EXCEPT ![u] = NoUThread]
  /\ UNCHANGED <<setVars, initializing, saved, detourActive, detourOrigin, cpu, to>>

-----------------------------------------------------------------------------
(* UThreadState::exit takes the stack it runs on out of the set *)

\* Variant: without the test item == first.
EraseFirstUnchecked(t, u) ==
  /\ Goes(t, u, "code", "last")
  /\ u # Main[t] /\ Suspended(t) # {}
  /\ lock[t] = NoUThread /\ lock' = [lock EXCEPT ![t] = u]
  /\ first' = [first EXCEPT ![t] = next[u]]
  /\ UNCHANGED <<last, next, prev, home, stackVars, runVars, arg>>

EraseFirst(t, u) ==
  /\ Goes(t, u, "code", "last")
  /\ u # Main[t] /\ Suspended(t) # {}
  /\ lock[t] = NoUThread /\ lock' = [lock EXCEPT ![t] = u]
  /\ first' = [first EXCEPT ![t] = IF @ = u THEN next[u] ELSE @]
  /\ UNCHANGED <<last, next, prev, home, stackVars, runVars, arg>>

\* Variant: the last of the set is not updated.
EraseLastKeeps(t, u) ==
  /\ Goes(t, u, "last", "next")
  /\ UNCHANGED <<setVars, stackVars, runVars, arg>>

EraseLast(t, u) ==
  /\ Goes(t, u, "last", "next")
  /\ last' = [last EXCEPT ![t] = IF @ = u THEN prev[u] ELSE @]
  /\ UNCHANGED <<first, next, prev, lock, home, stackVars, runVars, arg>>

EraseNext(t, u) ==
  /\ Goes(t, u, "next", "prev")
  /\ next' = IF prev[u] = NoUThread THEN next ELSE [next EXCEPT ![prev[u]] = next[u]]
  /\ UNCHANGED <<first, last, prev, lock, home, stackVars, runVars, arg>>

ErasePrev(t, u) ==
  /\ Goes(t, u, "prev", "clear")
  /\ prev' = IF next[u] = NoUThread THEN prev ELSE [prev EXCEPT ![next[u]] = prev[u]]
  /\ UNCHANGED <<first, last, next, lock, home, stackVars, runVars, arg>>

EraseClear(t, u) ==
  /\ Goes(t, u, "clear", "exit")
  /\ prev' = [prev EXCEPT ![u] = NoUThread]
  /\ next' = [next EXCEPT ![u] = NoUThread]
  /\ lock' = [lock EXCEPT ![t] = NoUThread]
  /\ UNCHANGED <<first, last, home, stackVars, runVars, arg>>

Exit(t, u) ==
  /\ At(t, u, "exit")
  /\ \E v \in Suspended(t) : Save(t, u, v, "gone")
  /\ UNCHANGED <<setVars, initializing, detourActive, detourTo, detourOrigin, owner, cpu, arg>>

-----------------------------------------------------------------------------
Switching(t, u) ==
  \/ Leave(t, u) \/ SwitchTo(t, u) \/ EndDetour(t, u) \/ Exit(t, u)

Making(t, u) ==
  \/ InsertPrev(t, u) \/ InsertLink(t, u) \/ InsertFirst(t, u) \/ InsertLast(t, u)
  \/ SetDesc(t, u) \/ Initialized(t, u) \/ Push(t, u)

Detouring(t, u) ==
  Adopt(t, u) \/ Activate(t, u) \/ Deactivate(t, u) \/ Release(t, u)

Erasing(t, u) ==
  \/ EraseFirst(t, u) \/ EraseLast(t, u) \/ EraseNext(t, u) \/ ErasePrev(t, u)
  \/ EraseClear(t, u)

Next ==
  \E t \in OSThreads :
    \/ Load(t) \/ Clear(t)
    \/ \E u \in UThreads :
         \/ Switching(t, u) \/ Making(t, u) \/ Detouring(t, u) \/ Erasing(t, u)
         \/ \E v \in UThreads : Trace(t, u, v) \/ \E d \in OSThreads : Create(t, u, d, v)

Spec == Init /\ [][Next]_vars

-----------------------------------------------------------------------------
Link == [UThreads -> UThreads \union {NoUThread}]

\* The values the variables have (OS/UThread.h:163-250, OS/InlineSet.h:160-180).
TypeOK ==
  /\ first \in [OSThreads -> UThreads] /\ last \in [OSThreads -> UThreads]
  /\ next \in Link /\ prev \in Link /\ detourTo \in Link /\ detourOrigin \in Link
  /\ arg \in Link
  /\ lock \in [OSThreads -> UThreads \union {NoUThread}]
  /\ home \in [UThreads -> OSThreads \union {NoOSThread}]
  /\ owner \in [UThreads -> OSThreads \union {NoOSThread}]
  /\ initializing \subseteq UThreads /\ saved \subseteq UThreads
  /\ detourActive \subseteq UThreads
  /\ cpu \in [OSThreads -> UThreads] /\ to \in [OSThreads -> UThreads \union {NoUThread}]
  /\ pc \in [UThreads -> PCs]

\* The stacks whose insertion is complete and whose removal has not begun.
InSet(t) ==
  {u \in UThreads :
     /\ home[u] = t /\ pc[u] \notin {"last", "next", "prev", "clear", "exit", "gone"}
     /\ \A w \in UThreads : arg[w] = u => pc[w] \notin {"insert", "link", "head", "tail"}}

\* Between any two instructions of insert and erase an iteration ends, and
\* yields every stack of the set and none that is in no set (OS/InlineSet.h:58-62
\* and 80-83).
WalkFindsAll ==
  \A t \in OSThreads :
    /\ Ends(next, first[t])
    /\ InSet(t) \subseteq Stacks(t)
    /\ \A u \in Stacks(t) : home[u] = t /\ pc[u] # "gone"

\* No OS thread scans the stack that another is using, or its own twice: what is
\* not saved is scanned from the stack pointer of the OS thread (Gc/Scan.h:131-140),
\* which would be that of a different stack.
ScansOwnStack ==
  \A t \in OSThreads :
    /\ Cardinality(Mains(t)) <= 1
    /\ \A v \in Mains(t) : v[2] = cpu[t] /\ \A d \in OSThreads : cpu[d] = v[2] => d = t

\* Every stack that is in use is scanned by somebody, between any two
\* instructions of a switch, of a detour (OS/UThread.cpp:570-572) and of
\* another OS thread that spawns a UThread.
EveryStackIsScanned ==
  (UNION {InSet(t) : t \in OSThreads}) \ initializing
    \subseteq UNION {Scanned(t) : t \in OSThreads}
=============================================================================
