--------------------------- MODULE StackScanProofs ---------------------------
(***************************************************************************)
(* What the collector finds in StackScan: that the links of the set of     *)
(* stacks are those of a list between any two writes, that a stack without *)
(* a saved stack pointer is that of the OS thread that looks at it, and    *)
(* that no stack in use is missed.                                         *)
(***************************************************************************)
EXTENDS StackScan, TLAPS, FiniteSetTheorems

-----------------------------------------------------------------------------
(* Who does what.  A UThread in insert, erase, a detour or exit is the one   *)
(* its OS thread runs; the only ones that are not are those it deals with,   *)
(* which are its own: so that each OS thread is in one such operation.       *)

Inserting == {"insert", "link", "head", "tail"}
Preparing == Inserting \union {"desc", "ready"}
Unlinking == {"last", "next", "prev", "clear"}
Lending == {"active", "switch", "inactive", "release"}
Dealing == Preparing \union Lending \union {"push", "adopt"}
Acting == (Dealing \ {"inactive"}) \union Unlinking \union {"exit"}
Lent == {"copy", "walk"}

\* The UThread that OS thread t runs, or will when its switch is done.
Runs(t) == IF to[t] = NoUThread THEN cpu[t] ELSE to[t]

Types ==
  /\ first \in [OSThreads -> UThreads \union {NoUThread}]
  /\ last \in [OSThreads -> UThreads \union {NoUThread}]
  /\ next \in Link /\ prev \in Link /\ detourTo \in Link /\ detourOrigin \in Link
  /\ arg \in Link
  /\ lock \in [OSThreads -> UThreads \union {NoUThread}]
  /\ home \in [UThreads -> OSThreads \union {NoOSThread}]
  /\ owner \in [UThreads -> OSThreads \union {NoOSThread}]
  /\ initializing \subseteq UThreads /\ saved \subseteq UThreads
  /\ detourActive \subseteq UThreads
  /\ cpu \in [OSThreads -> UThreads] /\ to \in [OSThreads -> UThreads \union {NoUThread}]
  /\ pc \in [UThreads -> PCs]

Owners ==
  /\ \A t \in OSThreads : owner[Runs(t)] = t
  /\ \A u \in UThreads : pc[u] \in Acting =>
       owner[u] \in OSThreads /\ cpu[owner[u]] = u /\ to[owner[u]] = NoUThread
  /\ \A u \in UThreads : owner[u] \in OSThreads => home[u] = owner[u] \/ pc[u] = "copy"
  /\ \A u \in UThreads : pc[u] = "none" => home[u] = NoOSThread /\ owner[u] = NoOSThread

\* UThread w has lent its OS thread t to v, or has it back but for a switch.
IsLent(w, v, t) ==
  /\ pc[v] \in Lent /\ owner[v] = t /\ detourOrigin[v] = w
  /\ \/ cpu[t] = w /\ to[t] = v
     \/ cpu[t] = v /\ to[t] \in {v, NoUThread}

IsBack(w, v, t) ==
  /\ pc[v] \in {"new", "code"} /\ owner[v] = NoOSThread
  /\ \/ cpu[t] = v /\ to[t] = w
     \/ cpu[t] = w /\ to[t] \in {w, NoUThread}

\* UThread w of OS thread t deals with v.
Deal(w, v, t) ==
  /\ home[v] \in OSThreads
  /\ pc[w] \in Preparing \union {"push"} => pc[v] = "new" /\ owner[v] = NoOSThread
  /\ pc[w] = "adopt" => pc[v] \in Lent /\ owner[v] = NoOSThread
  /\ pc[w] \in {"active", "switch"} => /\ pc[v] \in Lent /\ owner[v] = t
                                       /\ detourOrigin[v] = w
  /\ pc[w] = "inactive" => t \in OSThreads /\ (IsLent(w, v, t) \/ IsBack(w, v, t))
  /\ pc[w] = "release" => pc[v] \in {"new", "code"} /\ owner[v] = NoOSThread
  /\ pc[v] \in {"walk", "code"} => home[v] = t

Deals ==
  /\ \A w \in UThreads : arg[w] # NoUThread <=> pc[w] \in Dealing
  /\ \A u, w \in UThreads : arg[u] = arg[w] /\ arg[u] # NoUThread => u = w
  /\ \A w \in UThreads : pc[w] \in Dealing => Deal(w, arg[w], owner[w])
  /\ \A v \in UThreads : pc[v] \in {"new"} \union Lent => \E w \in UThreads : arg[w] = v

\* The UThread whose stack an OS thread leaves is still its own, or that of a
\* detour that is over.
Left ==
  \A t \in OSThreads :
    to[t] \notin {NoUThread, cpu[t]} =>
      owner[cpu[t]] = t \/ (pc[to[t]] = "inactive" /\ arg[to[t]] = cpu[t])

RoleInv == Owners /\ Deals /\ Left

\* When one acts, the others that do are on other OS threads.
LEMMA Alone ==
  ASSUME Types, RoleInv, NEW t \in OSThreads, NEW u \in UThreads,
         cpu[t] = u, to[t] = NoUThread, pc[u] \notin Lent
  PROVE  /\ owner[u] = t
         /\ \A w \in UThreads \ {u} : pc[w] \in Dealing \union Acting => owner[w] # t
         /\ \A w \in UThreads : arg[w] # u
<1>0. Owners /\ Deals /\ Left
  BY DEF RoleInv
<1>1. owner[u] = t
  BY <1>0 DEF Owners, Runs
<1>2. ASSUME NEW w \in UThreads, pc[w] = "inactive", owner[w] = t PROVE w = u
  <2>1. Deal(w, arg[w], t)
    BY <1>0, <1>2 DEF Deals, Dealing, Lending
  <2>2. arg[w] \in UThreads
    BY <1>0, <1>2 DEF Deals, Dealing, Lending, Types, Link
  <2>3. IsLent(w, arg[w], t) \/ IsBack(w, arg[w], t)
    BY <1>2, <2>1 DEF Deal
  <2> QED BY <1>2, <2>2, <2>3, ScanAssumption DEF IsLent, IsBack
<1>3. ASSUME NEW w \in UThreads \ {u}, pc[w] \in Dealing \union Acting PROVE owner[w] # t
  <2>1. CASE pc[w] = "inactive"
    BY <1>2, <2>1
  <2>2. CASE pc[w] # "inactive"
    BY <1>0, <1>3, <2>2 DEF Owners, Acting
  <2> QED BY <2>1, <2>2
<1>4. ASSUME NEW w \in UThreads, arg[w] = u PROVE FALSE
  <2>1. pc[w] \in Dealing /\ Deal(w, u, owner[w])
    BY <1>0, <1>4, ScanAssumption DEF Deals
  <2>2. owner[u] # NoOSThread
    BY <1>1, ScanAssumption
  <2>3. pc[w] = "inactive"
    BY <2>1, <2>2 DEF Deal, Dealing, Preparing, Inserting, Lending
  <2>4. IsLent(w, u, owner[w]) \/ IsBack(w, u, owner[w])
    BY <2>1, <2>3 DEF Deal
  <2> QED BY <2>2, <2>4 DEF IsLent, IsBack
<1> QED BY <1>1, <1>3, <1>4

\* A step of u, which OS thread t runs before and after it, and which deals with v.
LEMMA DealStep ==
  ASSUME Types, Types', RoleInv, NEW t \in OSThreads, NEW u \in UThreads, NEW v \in UThreads,
         cpu[t] = u, to[t] = NoUThread, UNCHANGED <<cpu, to>>,
         pc[u] \in Acting \union {"code", "inactive"}, pc'[u] \in Acting \union {"code"},
         u # v, arg[u] \in {v, NoUThread}, owner[v] \in {t, NoOSThread},
         \A x \in UThreads \ {u} : arg[x] # v,
         pc[v] \notin Dealing \union Acting, pc'[v] \notin Dealing \union Acting \union {"none"},
         \A x \in UThreads \ {u, v} : pc'[x] = pc[x],
         \A x \in UThreads \ {v} : /\ owner'[x] = owner[x] /\ home'[x] = home[x]
                                   /\ detourOrigin'[x] = detourOrigin[x],
         \A x \in UThreads \ {u} : arg'[x] = arg[x],
         owner'[v] \in OSThreads => home'[v] = owner'[v] \/ pc'[v] = "copy",
         \/ arg'[u] = v /\ pc'[u] \in Dealing /\ Deal(u, v, t)'
         \/ arg'[u] = NoUThread /\ pc'[u] \notin Dealing /\ pc'[v] \notin {"new"} \union Lent
  PROVE  RoleInv'
<1> USE ScanAssumption
<1>0. Owners /\ Deals /\ Left
  BY DEF RoleInv
<1>1. /\ owner[u] = t
      /\ \A w \in UThreads \ {u} : pc[w] \in Dealing \union Acting => owner[w] # t
      /\ \A w \in UThreads : arg[w] # u
  <2>1. pc[u] \notin Lent
    BY DEF Acting, Lent, Dealing, Preparing, Inserting, Lending, Unlinking
  <2> QED BY <2>1, Alone
<1>2. \A t2 \in OSThreads : Runs(t2) # v /\ Runs(t2) \in UThreads
  BY <1>0 DEF Owners, Runs, Types
<1>3. ASSUME NEW t2 \in OSThreads, to[t2] \notin {NoUThread, cpu[t2]} PROVE cpu[t2] # v
  BY <1>0, <1>1, <1>2, <1>3 DEF Left, Owners, Runs, Types
<1>4. Owners'
  <2>1. \A t2 \in OSThreads : owner'[Runs(t2)'] = t2
    BY <1>0, <1>2 DEF Owners, Runs
  <2>2. ASSUME NEW x \in UThreads, pc'[x] \in Acting
        PROVE  owner'[x] \in OSThreads /\ cpu[owner'[x]] = x /\ to[owner'[x]] = NoUThread
    <3>1. CASE x = u
      BY <1>1, <3>1
    <3>2. CASE x # u
      BY <1>0, <2>2, <3>2 DEF Owners
    <3> QED BY <3>1, <3>2
  <2>3. ASSUME NEW x \in UThreads, owner'[x] \in OSThreads
        PROVE  home'[x] = owner'[x] \/ pc'[x] = "copy"
    BY <1>0, <2>3 DEF Owners, Acting, Dealing, Preparing, Inserting, Lending, Unlinking
  <2>4. ASSUME NEW x \in UThreads, pc'[x] = "none"
        PROVE  home'[x] = NoOSThread /\ owner'[x] = NoOSThread
    BY <1>0, <2>4 DEF Owners, Acting, Dealing, Preparing, Inserting, Lending, Unlinking
  <2> QED BY <2>1, <2>2, <2>3, <2>4 DEF Owners
<1>5. Left'
  <2> SUFFICES ASSUME NEW t2 \in OSThreads, to[t2] \notin {NoUThread, cpu[t2]}
               PROVE  owner'[cpu[t2]] = t2 \/ (pc'[to[t2]] = "inactive" /\ arg'[to[t2]] = cpu[t2])
    BY DEF Left
  <2>1. cpu[t2] # v /\ cpu[t2] \in UThreads /\ to[t2] \in UThreads
    BY <1>3 DEF Types
  <2>2. to[t2] # u /\ to[t2] # v
    BY <1>0, <1>1, <1>2, <2>1 DEF Owners, Runs
  <2> QED BY <1>0, <2>1, <2>2 DEF Left
<1>6. Deals'
  <2>1. \A w \in UThreads : arg'[w] # NoUThread <=> pc'[w] \in Dealing
    BY <1>0 DEF Deals
  <2>2. \A x, w \in UThreads : arg'[x] = arg'[w] /\ arg'[x] # NoUThread => x = w
    BY <1>0 DEF Deals
  <2>3. ASSUME NEW w \in UThreads, pc'[w] \in Dealing PROVE Deal(w, arg[w], owner[w])'
    <3>1. CASE w = u
      BY <1>1, <2>3, <3>1
    <3>2. CASE w # u
      <4>1. w # v /\ pc[w] \in Dealing /\ arg'[w] = arg[w] /\ owner'[w] = owner[w]
        BY <2>3, <3>2
      <4>2. arg[w] \in UThreads /\ arg[w] # u /\ arg[w] # v
        BY <1>0, <1>1, <3>2, <4>1 DEF Deals, Types, Link
      <4>3. Deal(w, arg[w], owner[w])
        BY <1>0, <4>1 DEF Deals
      <4> QED BY <4>1, <4>2, <4>3 DEF Deal, IsLent, IsBack
    <3> QED BY <3>1, <3>2
  <2>4. ASSUME NEW x \in UThreads, pc'[x] \in {"new"} \union Lent
        PROVE  \E w \in UThreads : arg'[w] = x
    <3>1. CASE x = v
      BY <2>4, <3>1
    <3>2. CASE x = u
      BY <2>4, <3>2 DEF Acting, Lent, Dealing, Preparing, Inserting, Lending, Unlinking
    <3>3. CASE x # v /\ x # u
      <4>1. PICK w \in UThreads : arg[w] = x
        BY <1>0, <2>4, <3>3 DEF Deals
      <4>2. CASE w # u
        BY <4>1, <4>2
      <4>3. CASE w = u
        BY <3>3, <4>1, <4>3
      <4> QED BY <4>2, <4>3
    <3> QED BY <3>1, <3>2, <3>3
  <2> QED BY <2>1, <2>2, <2>3, <2>4 DEF Deals
<1> QED BY <1>4, <1>5, <1>6 DEF RoleInv

\* A step of u by itself.
LEMMA LoneStep ==
  ASSUME Types, RoleInv, NEW t \in OSThreads, NEW u \in UThreads,
         cpu[t] = u, to[t] = NoUThread,
         UNCHANGED <<cpu, to, owner, home, detourOrigin, arg>>,
         pc[u] \in Unlinking \union {"code"}, pc'[u] \in Unlinking \union {"exit"},
         \A x \in UThreads \ {u} : pc'[x] = pc[x]
  PROVE  RoleInv'
<1> USE ScanAssumption
<1>0. Owners /\ Deals /\ Left
  BY DEF RoleInv
<1>1. owner[u] = t /\ \A w \in UThreads : arg[w] # u
  BY Alone DEF Lent, Unlinking
<1>2. Owners'
  BY <1>0, <1>1 DEF Owners, Runs, Acting, Dealing, Preparing, Inserting, Lending, Unlinking
<1>3. Left'
  BY <1>0 DEF Left, Types, Unlinking
<1>4. Deals'
  <2>1. pc[u] \notin Dealing \union Lent \union {"new"}
    BY DEF Dealing, Preparing, Inserting, Lending, Unlinking, Lent
  <2>2. pc'[u] \notin Dealing \union Lent \union {"new"}
    BY DEF Dealing, Preparing, Inserting, Lending, Unlinking, Lent
  <2>3. ASSUME NEW w \in UThreads, pc'[w] \in Dealing PROVE Deal(w, arg[w], owner[w])'
    <3>1. w # u /\ arg[w] # u /\ arg[w] \in UThreads /\ Deal(w, arg[w], owner[w])
      BY <1>0, <1>1, <2>2, <2>3 DEF Deals, Types, Link
    <3> QED BY <3>1 DEF Deal, IsLent, IsBack
  <2>4. \A w \in UThreads : arg'[w] # NoUThread <=> pc'[w] \in Dealing
    BY <1>0, <2>1, <2>2 DEF Deals
  <2>5. \A v \in UThreads : pc'[v] \in {"new"} \union Lent => \E w \in UThreads : arg'[w] = v
    BY <1>0, <2>2 DEF Deals
  <2> QED BY <1>0, <2>3, <2>4, <2>5 DEF Deals
<1> QED BY <1>2, <1>3, <1>4 DEF RoleInv

LEMMA InitTypes == Init => Types
BY ScanAssumption DEF Init, Types, Link, PCs

\* Who deals with somebody has somebody to deal with.
LEMMA Partner ==
  ASSUME Types, RoleInv, NEW u \in UThreads, pc[u] \in Dealing
  PROVE  arg[u] \in UThreads /\ home[arg[u]] \in OSThreads /\ Deal(u, arg[u], owner[u])
BY DEF RoleInv, Deals, Deal, Types, Link

LEMMA StepTypes == Types /\ RoleInv /\ [Next]_vars => Types'
<1> SUFFICES ASSUME Types, RoleInv, [Next]_vars PROVE Types'
  OBVIOUS
<1> USE ScanAssumption DEF Types, Link, PCs, At, Goes
<1>1. ASSUME NEW t \in OSThreads, Load(t) \/ Clear(t) PROVE Types'
  BY <1>1 DEF Load, Clear, setVars, stackVars
<1>2. ASSUME NEW t \in OSThreads, NEW u \in UThreads, Switching(t, u) PROVE Types'
  <2>1. CASE Leave(t, u)
    BY <2>1 DEF Leave, Save, Suspended, setVars
  <2>2. CASE SwitchTo(t, u)
    BY <2>2 DEF SwitchTo, Save, setVars
  <2>3. CASE EndDetour(t, u)
    BY <2>3 DEF EndDetour, Save, setVars
  <2>4. CASE Exit(t, u)
    BY <2>4 DEF Exit, Save, Suspended, setVars
  <2> QED BY <1>2, <2>1, <2>2, <2>3, <2>4 DEF Switching
<1>3. ASSUME NEW t \in OSThreads, NEW u \in UThreads, Making(t, u) PROVE Types'
  <2>0. pc[u] \in Dealing
    BY <1>3 DEF Making, InsertPrev, InsertLink, InsertFirst, InsertLast, SetDesc, Initialized,
                Push, Dealing, Preparing, Inserting
  <2>1. arg[u] \in UThreads /\ home[arg[u]] \in OSThreads
    BY <2>0, Partner
  <2>2. CASE InsertPrev(t, u)
    BY <2>1, <2>2 DEF InsertPrev, stackVars, runVars
  <2>3. CASE InsertLink(t, u)
    BY <2>1, <2>3 DEF InsertLink, stackVars, runVars
  <2>4. CASE InsertFirst(t, u)
    BY <2>1, <2>4 DEF InsertFirst, stackVars, runVars
  <2>5. CASE InsertLast(t, u)
    BY <2>1, <2>5 DEF InsertLast, stackVars, runVars
  <2>6. CASE SetDesc(t, u)
    BY <2>1, <2>6 DEF SetDesc, setVars, runVars
  <2>7. CASE Initialized(t, u)
    BY <2>1, <2>7 DEF Initialized, setVars, runVars
  <2>8. CASE Push(t, u)
    BY <2>1, <2>8 DEF Push, setVars, stackVars
  <2> QED BY <1>3, <2>2, <2>3, <2>4, <2>5, <2>6, <2>7, <2>8 DEF Making
<1>4. ASSUME NEW t \in OSThreads, NEW u \in UThreads, Detouring(t, u) PROVE Types'
  <2>1. CASE Adopt(t, u)
    BY <2>1 DEF Adopt, setVars
  <2>2. CASE Activate(t, u)
    <3>1. arg[u] \in UThreads
      BY <2>2, Partner DEF Activate, Dealing, Lending
    <3> QED BY <2>2, <3>1 DEF Activate, setVars, runVars
  <2>3. CASE Deactivate(t, u)
    BY <2>3 DEF Deactivate, setVars, runVars
  <2>4. CASE Release(t, u)
    <3>1. UNCHANGED <<setVars, initializing, saved, detourActive, detourOrigin, cpu, to>>
      BY <2>4 DEF Release
    <3>2. detourTo' \in Link /\ owner' \in [UThreads -> OSThreads \union {NoOSThread}]
      BY <2>4 DEF Release
    <3>3. pc' \in [UThreads -> PCs] /\ arg' \in Link
      BY <2>4 DEF Release
    <3> QED BY <3>1, <3>2, <3>3 DEF setVars
  <2> QED BY <1>4, <2>1, <2>2, <2>3, <2>4 DEF Detouring
<1>5. ASSUME NEW t \in OSThreads, NEW u \in UThreads, Erasing(t, u) PROVE Types'
  <2>1. CASE EraseFirst(t, u)
    BY <2>1 DEF EraseFirst, stackVars, runVars
  <2>2. CASE EraseLast(t, u)
    BY <2>2 DEF EraseLast, stackVars, runVars
  <2>3. CASE EraseNext(t, u)
    BY <2>3 DEF EraseNext, stackVars, runVars
  <2>4. CASE ErasePrev(t, u)
    BY <2>4 DEF ErasePrev, stackVars, runVars
  <2>5. CASE EraseClear(t, u)
    BY <2>5 DEF EraseClear, stackVars, runVars
  <2> QED BY <1>5, <2>1, <2>2, <2>3, <2>4, <2>5 DEF Erasing
<1>6. ASSUME NEW t \in OSThreads, NEW u \in UThreads, NEW v \in UThreads, Trace(t, u, v)
      PROVE  Types'
  BY <1>6 DEF Trace, setVars, stackVars
<1>7. ASSUME NEW t \in OSThreads, NEW u \in UThreads, NEW v \in UThreads, NEW d \in OSThreads,
             Create(t, u, d, v) PROVE Types'
  BY <1>7 DEF Create, runVars
<1>8. CASE UNCHANGED vars
  BY <1>8 DEF vars, setVars, stackVars, runVars
<1> QED BY <1>1, <1>2, <1>3, <1>4, <1>5, <1>6, <1>7, <1>8 DEF Next

\* Where the UThread is that the running one deals with.
LEMMA PartnerOfRunning ==
  ASSUME Types, RoleInv, NEW t \in OSThreads, NEW u \in UThreads,
         cpu[t] = u, to[t] = NoUThread, pc[u] \in Dealing
  PROVE  /\ owner[u] = t /\ arg[u] \in UThreads /\ arg[u] # u /\ Deal(u, arg[u], t)
         /\ owner[arg[u]] \in {t, NoOSThread}
         /\ pc[arg[u]] \in {"new", "copy", "walk", "code"}
         /\ \A x \in UThreads \ {u} : arg[x] # arg[u]
         /\ pc[u] = "inactive" => IsBack(u, arg[u], t)
<1>1. owner[u] = t /\ \A w \in UThreads : arg[w] # u
  BY Alone DEF Lent, Dealing, Preparing, Inserting, Lending
<1>2. arg[u] \in UThreads /\ arg[u] # u /\ Deal(u, arg[u], t)
  BY <1>1, Partner
<1>3. \A x \in UThreads \ {u} : arg[x] # arg[u]
  BY <1>2, ScanAssumption DEF RoleInv, Deals
<1>4. pc[u] = "inactive" => IsBack(u, arg[u], t)
  BY <1>2, ScanAssumption DEF Deal, IsLent, IsBack
<1>5. /\ owner[arg[u]] \in {t, NoOSThread}
      /\ pc[arg[u]] \in {"new", "copy", "walk", "code"}
  <2>1. CASE pc[u] \in Preparing \union {"push", "release", "adopt", "active", "switch"}
    BY <1>2, <2>1 DEF Deal, Lent
  <2>2. CASE pc[u] = "inactive"
    BY <1>4, <2>2 DEF IsBack
  <2> QED BY <2>1, <2>2 DEF Dealing, Lending
<1> QED BY <1>1, <1>2, <1>3, <1>4, <1>5

\* The UThread goes on with the one it deals with, whose part does not change.
LEMMA GoOnStep ==
  ASSUME Types, Types', RoleInv, NEW t \in OSThreads, NEW u \in UThreads,
         UNCHANGED <<cpu, to, owner, home, detourOrigin, arg>>,
         \/ InsertPrev(t, u) \/ InsertLink(t, u) \/ InsertFirst(t, u) \/ InsertLast(t, u)
         \/ SetDesc(t, u) \/ Activate(t, u) \/ Deactivate(t, u)
  PROVE  RoleInv'
<1>1. /\ cpu[t] = u /\ to[t] = NoUThread
      /\ \/ pc[u] \in Preparing /\ pc'[u] \in Preparing
         \/ pc[u] = "active" /\ pc'[u] = "switch"
         \/ pc[u] = "inactive" /\ pc'[u] = "release"
      /\ \A x \in UThreads \ {u} : pc'[x] = pc[x]
  BY DEF InsertPrev, InsertLink, InsertFirst, InsertLast, SetDesc, Activate, Deactivate,
         At, Goes, Types, Preparing, Inserting
<1>2. pc[u] \in Dealing /\ pc'[u] \in Dealing \ {"inactive"}
  BY <1>1 DEF Dealing, Lending, Preparing, Inserting
<1>0. PICK v \in UThreads : v = arg[u]
  BY <1>1, <1>2, PartnerOfRunning
<1>3. /\ owner[u] = t /\ v \in UThreads /\ v # u /\ Deal(u, v, t)
      /\ owner[v] \in {t, NoOSThread}
      /\ pc[v] \in {"new", "copy", "walk", "code"}
      /\ \A x \in UThreads \ {u} : arg[x] # v
      /\ pc[u] = "inactive" => IsBack(u, v, t)
  BY <1>0, <1>1, <1>2, PartnerOfRunning
<1>4. Deal(u, v, t)'
  <2>1. pc'[v] = pc[v]
    BY <1>1, <1>3
  <2>2. CASE pc[u] \in Preparing /\ pc'[u] \in Preparing
    BY <1>3, <2>1, <2>2 DEF Deal, Preparing, Inserting
  <2>3. CASE pc[u] = "active" /\ pc'[u] = "switch"
    BY <1>3, <2>1, <2>3 DEF Deal, Preparing, Inserting
  <2>4. CASE pc[u] = "inactive" /\ pc'[u] = "release"
    BY <1>3, <2>1, <2>4 DEF Deal, IsBack, Preparing, Inserting
  <2> QED BY <1>1, <2>2, <2>3, <2>4
<1>5. pc'[v] = pc[v] /\ pc[v] \notin Dealing \union Acting \union {"none"}
  BY <1>1, <1>3 DEF Acting, Dealing, Preparing, Inserting, Lending, Unlinking
<1>6. /\ pc[u] \in Acting \union {"code", "inactive"} /\ pc'[u] \in Acting \union {"code"}
  BY <1>2 DEF Acting
<1>7. owner[v] \in OSThreads => home[v] = owner[v] \/ pc[v] = "copy"
  BY <1>3 DEF RoleInv, Owners
<1>8. arg[u] = v /\ arg'[u] = v
  BY <1>0
<1>9. v \in UThreads /\ u # v /\ owner[v] \in {t, NoOSThread}
  BY <1>3
<1>10. owner'[v] \in OSThreads => home'[v] = owner'[v] \/ pc'[v] = "copy"
  BY <1>5, <1>7
<1> QED BY <1>1, <1>2, <1>3, <1>4, <1>5, <1>6, <1>8, <1>9, <1>10, DealStep

\* The UThread makes another, deals with it for the first time, or for the last.
LEMMA CreateStep ==
  ASSUME Types, Types', RoleInv, NEW t \in OSThreads, NEW u \in UThreads, NEW v \in UThreads,
         NEW d \in OSThreads, Create(t, u, d, v)
  PROVE  RoleInv'
<1> USE ScanAssumption
<1>1. /\ cpu[t] = u /\ to[t] = NoUThread /\ UNCHANGED <<cpu, to, owner, detourOrigin>>
      /\ pc[u] = "code" /\ pc[v] = "none" /\ u # v /\ pc'[u] = "insert" /\ pc'[v] = "new"
      /\ \A x \in UThreads \ {u, v} : pc'[x] = pc[x]
      /\ \A x \in UThreads \ {u} : arg'[x] = arg[x]
      /\ \A x \in UThreads \ {v} : home'[x] = home[x]
      /\ arg'[u] = v /\ home'[v] = d
  BY DEF Create, At, Types, Link, runVars
<1>2. arg[u] = NoUThread /\ \A x \in UThreads : arg[x] # v
  <2>1. ASSUME NEW x \in UThreads, arg[x] = v PROVE FALSE
    <3>1. pc[x] \in Dealing /\ Deal(x, v, owner[x])
      BY <2>1 DEF RoleInv, Deals
    <3> QED BY <1>1, <3>1 DEF Deal, Dealing, Preparing, Inserting, Lending, Lent, IsLent, IsBack
  <2>2. arg[u] = NoUThread
    BY <1>1 DEF RoleInv, Deals, Dealing, Preparing, Inserting, Lending
  <2> QED BY <2>1, <2>2
<1>3. owner[v] = NoOSThread
  BY <1>1 DEF RoleInv, Owners
<1>4. /\ pc[v] \notin Dealing \union Acting /\ pc'[v] \notin Dealing \union Acting \union {"none"}
      /\ pc'[u] \in Acting /\ pc'[u] \in Dealing
  BY <1>1 DEF Acting, Dealing, Preparing, Inserting, Lending, Unlinking
<1>5. Deal(u, v, t)'
  BY <1>1, <1>3 DEF Deal, Preparing, Inserting
<1> QED BY <1>1, <1>2, <1>3, <1>4, <1>5, DealStep

LEMMA HandOverStep ==
  ASSUME Types, Types', RoleInv, NEW t \in OSThreads, NEW u \in UThreads,
         Initialized(t, u) \/ Push(t, u) \/ Adopt(t, u) \/ Release(t, u)
  PROVE  RoleInv'
<1> USE ScanAssumption
<1>1. /\ cpu[t] = u /\ to[t] = NoUThread /\ UNCHANGED <<cpu, to, home>>
      /\ pc[u] \in {"ready", "push", "adopt", "release"}
  BY DEF Initialized, Push, Adopt, Release, At, Goes, setVars, runVars
<1>2. pc[u] \in Dealing /\ pc[u] \in Acting
  BY <1>1 DEF Acting, Dealing, Lending, Preparing, Inserting
<1>3. PICK v \in UThreads : v = arg[u]
  BY <1>2, Partner
<1>4. /\ owner[u] = t /\ v # u /\ Deal(u, v, t)
      /\ owner[v] \in {t, NoOSThread}
      /\ pc[v] \in {"new", "copy", "walk", "code"}
      /\ \A x \in UThreads \ {u} : arg[x] # v
  BY <1>1, <1>2, <1>3, PartnerOfRunning
<1>5. /\ \A x \in UThreads \ {u, v} : pc'[x] = pc[x]
      /\ \A x \in UThreads \ {v} : owner'[x] = owner[x] /\ detourOrigin'[x] = detourOrigin[x]
      /\ \A x \in UThreads \ {u} : arg'[x] = arg[x]
      /\ \/ /\ pc[u] = "ready" /\ pc'[u] = "push" /\ pc'[v] = pc[v] /\ UNCHANGED arg
            /\ owner'[v] = owner[v]
         \/ /\ pc[u] = "ready" /\ pc'[u] = "adopt" /\ pc'[v] = "copy" /\ UNCHANGED arg
            /\ owner'[v] = owner[v]
         \/ /\ pc[u] = "push" /\ pc'[u] = "code" /\ pc'[v] = "code" /\ arg'[u] = NoUThread
            /\ owner'[v] = home[v]
         \/ /\ pc[u] = "adopt" /\ pc'[u] = "active" /\ pc'[v] = pc[v] /\ UNCHANGED arg
            /\ owner'[v] = t /\ detourOrigin'[v] = u
         \/ /\ pc[u] = "release" /\ pc'[u] = "push" /\ pc'[v] = pc[v] /\ pc[v] = "new"
            /\ UNCHANGED arg /\ owner'[v] = owner[v]
         \/ /\ pc[u] = "release" /\ pc'[u] = "code" /\ pc'[v] = pc[v] /\ pc[v] # "new"
            /\ arg'[u] = NoUThread /\ owner'[v] = t
  <2>1. CASE Initialized(t, u)
    BY <1>3, <1>4, <2>1 DEF Initialized, At, Types, runVars
  <2>2. CASE Push(t, u)
    BY <1>3, <1>4, <2>2 DEF Push, At, Types, Link, setVars
  <2>3. CASE Adopt(t, u)
    BY <1>3, <1>4, <2>3 DEF Adopt, At, Goes, Types, Link
  <2>4. CASE Release(t, u)
    BY <1>3, <1>4, <2>4 DEF Release, At, Types, Link
  <2> QED BY <2>1, <2>2, <2>3, <2>4
<1>6. /\ pc[v] \notin Dealing \union Acting /\ pc'[v] \notin Dealing \union Acting \union {"none"}
      /\ pc'[u] \in Acting \union {"code"}
  BY <1>4, <1>5 DEF Acting, Dealing, Preparing, Inserting, Lending, Unlinking
<1>7. owner'[v] \in OSThreads => home'[v] = owner'[v] \/ pc'[v] = "copy"
  BY <1>1, <1>4, <1>5 DEF RoleInv, Owners, Deal, Lent, Preparing, Inserting
<1>8. \/ arg'[u] = v /\ pc'[u] \in Dealing /\ Deal(u, v, t)'
      \/ arg'[u] = NoUThread /\ pc'[u] \notin Dealing /\ pc'[v] \notin {"new"} \union Lent
  <2>1. CASE pc[u] = "ready"
    BY <1>1, <1>3, <1>4, <1>5, <2>1 DEF Deal, Lent, Dealing, Preparing, Inserting, Lending
  <2>2. CASE pc[u] = "push"
    BY <1>1, <1>3, <1>4, <1>5, <2>2 DEF Lent, Dealing, Preparing, Inserting, Lending
  <2>3. CASE pc[u] = "adopt"
    BY <1>1, <1>3, <1>4, <1>5, <2>3 DEF Deal, Lent, Dealing, Preparing, Inserting, Lending
  <2>4. CASE pc[u] = "release"
    BY <1>1, <1>3, <1>4, <1>5, <2>4 DEF Deal, Lent, Dealing, Preparing, Inserting, Lending
  <2> QED BY <1>1, <2>1, <2>2, <2>3, <2>4
<1>9. arg[u] \in {v, NoUThread} /\ pc[u] \in Acting \union {"code", "inactive"} /\ u # v
  BY <1>2, <1>3, <1>4
<1> QED BY <1>1, <1>4, <1>5, <1>6, <1>7, <1>8, <1>9, DealStep

\* A stack is walked: of the stacks in the set, that it finds there.
LEMMA TraceStep ==
  ASSUME Types, Types', RoleInv, NEW t \in OSThreads, NEW u \in UThreads, NEW v \in UThreads,
         Trace(t, u, v), pc[v] # "gone"
  PROVE  RoleInv' /\ pc[v] = "code"
<1> USE ScanAssumption
<1>1. /\ cpu[t] = u /\ to[t] = NoUThread /\ UNCHANGED <<cpu, to, home, detourOrigin>>
      /\ pc[u] = "code" /\ u # v /\ owner[v] = owner[u]
      /\ pc'[u] = "adopt" /\ pc'[v] = "walk" /\ arg'[u] = v /\ owner'[v] = NoOSThread
      /\ \A x \in UThreads \ {u, v} : pc'[x] = pc[x]
      /\ \A x \in UThreads \ {u} : arg'[x] = arg[x]
      /\ \A x \in UThreads \ {v} : owner'[x] = owner[x]
  BY DEF Trace, At, Types, Link, setVars
<1>2. /\ owner[u] = t
      /\ \A w \in UThreads \ {u} : pc[w] \in Dealing \union Acting => owner[w] # t
  BY <1>1, Alone DEF Lent
<1>3. arg[u] = NoUThread
  BY <1>1 DEF RoleInv, Deals, Dealing, Preparing, Inserting, Lending
<1>4. ASSUME NEW w \in UThreads, arg[w] = v PROVE FALSE
  <2>1. w # u /\ pc[w] \in Dealing /\ Deal(w, v, owner[w])
    BY <1>3, <1>4 DEF RoleInv, Deals
  <2>2. owner[v] = t /\ owner[w] # t
    BY <1>1, <1>2, <2>1
  <2> QED BY <2>1, <2>2 DEF Deal, Dealing, Preparing, Inserting, Lending, IsLent, IsBack
<1>5. pc[v] = "code"
  <2>1. pc[v] \notin Dealing \union Acting
    BY <1>1, <1>2
  <2>2. pc[v] \notin {"new"} \union Lent
    BY <1>4 DEF RoleInv, Deals
  <2>3. pc[v] # "none"
    BY <1>1, <1>2 DEF RoleInv, Owners
  <2> QED BY <2>1, <2>2, <2>3 DEF Types, PCs, Dealing, Acting, Preparing, Inserting, Lending,
                                  Unlinking, Lent
<1>6. home[v] = t
  BY <1>1, <1>2, <1>5 DEF RoleInv, Owners
<1>7. Deal(u, v, t)'
  BY <1>1, <1>6 DEF Deal, Preparing, Inserting, Lent
<1>8. /\ pc[v] \notin Dealing \union Acting /\ pc'[v] \notin Dealing \union Acting \union {"none"}
      /\ pc'[u] \in Acting /\ pc'[u] \in Dealing
  BY <1>1, <1>5 DEF Acting, Dealing, Preparing, Inserting, Lending, Unlinking
<1>9. owner[v] = t
  BY <1>1, <1>2
<1> QED BY <1>1, <1>3, <1>4, <1>5, <1>7, <1>8, <1>9, DealStep

\* The running UThread stores its stack pointer, to run v.
LEMMA SaveStep ==
  ASSUME Types, Types', RoleInv, NEW t \in OSThreads, NEW u \in UThreads, NEW v \in UThreads,
         cpu[t] = u, to[t] = NoUThread, owner[v] = t, v # u,
         UNCHANGED <<cpu, owner, home, detourOrigin, arg>>,
         to' = [to EXCEPT ![t] = v],
         \A x \in UThreads \ {u} : pc'[x] = pc[x],
         \/ pc[u] = "code" /\ pc'[u] = "code"
         \/ pc[u] = "exit" /\ pc'[u] = "gone"
         \/ pc[u] = "switch" /\ pc'[u] = "inactive" /\ arg[u] = v
  PROVE  RoleInv'
<1> USE ScanAssumption
<1>0. Owners /\ Deals /\ Left
  BY DEF RoleInv
<1>1. /\ owner[u] = t
      /\ \A w \in UThreads \ {u} : pc[w] \in Dealing \union Acting => owner[w] # t
      /\ \A w \in UThreads : arg[w] # u
  BY Alone DEF Lent
<1>2. to'[t] = v /\ \A t2 \in OSThreads \ {t} : to'[t2] = to[t2]
  BY DEF Types
<1>3. pc'[u] \notin Acting \union Lent \union {"new", "none"} /\ (pc'[u] \in Dealing <=> pc[u] \in Dealing)
  BY DEF Acting, Dealing, Preparing, Inserting, Lending, Unlinking, Lent
<1>4. Owners'
  <2>1. \A t2 \in OSThreads : owner'[Runs(t2)'] = t2
    BY <1>0, <1>2 DEF Owners, Runs
  <2>2. ASSUME NEW x \in UThreads, pc'[x] \in Acting
        PROVE  owner'[x] \in OSThreads /\ cpu'[owner'[x]] = x /\ to'[owner'[x]] = NoUThread
    BY <1>0, <1>1, <1>2, <1>3, <2>2 DEF Owners
  <2>3. \A x \in UThreads : owner[x] \in OSThreads => home[x] = owner[x] \/ pc'[x] = "copy"
    BY <1>0 DEF Owners
  <2>4. \A x \in UThreads : pc'[x] = "none" => home[x] = NoOSThread /\ owner[x] = NoOSThread
    BY <1>0, <1>3 DEF Owners
  <2> QED BY <2>1, <2>2, <2>3, <2>4 DEF Owners
<1>5. Left'
  <2> SUFFICES ASSUME NEW t2 \in OSThreads, to'[t2] \notin {NoUThread, cpu[t2]}
               PROVE  owner[cpu[t2]] = t2 \/ (pc'[to'[t2]] = "inactive" /\ arg[to'[t2]] = cpu[t2])
    BY DEF Left
  <2>1. CASE t2 = t
    BY <1>1, <2>1
  <2>2. CASE t2 # t
    <3>1. to[t2] = to'[t2] /\ to[t2] \in UThreads
      BY <1>2, <2>2 DEF Types
    <3>2. to[t2] # u
      BY <1>0, <1>1, <2>2, <3>1 DEF Owners, Runs
    <3> QED BY <1>0, <3>1, <3>2 DEF Left
  <2> QED BY <2>1, <2>2
<1>6. Deals'
  <2>1. ASSUME NEW w \in UThreads, pc'[w] \in Dealing PROVE Deal(w, arg[w], owner[w])'
    <3>0. pc[w] \in Dealing
      BY <1>3, <2>1
    <3>1. pc[w] \in Dealing /\ arg[w] \in UThreads /\ arg[w] # u /\ Deal(w, arg[w], owner[w])
      BY <1>1, <3>0, Partner
    <3>2. CASE w = u
      <4>1. pc[u] = "switch" /\ pc'[u] = "inactive" /\ arg[u] = v
        BY <3>1, <3>2 DEF Dealing, Preparing, Inserting, Lending
      <4> QED BY <1>1, <1>2, <3>1, <3>2, <4>1 DEF Deal, IsLent, Preparing, Inserting
    <3>3. CASE w # u
      <4>1. owner[w] # t /\ pc'[w] = pc[w] /\ pc'[arg[w]] = pc[arg[w]]
        BY <1>1, <3>1, <3>3
      <4>2. owner[w] \in OSThreads => to'[owner[w]] = to[owner[w]]
        BY <1>2, <4>1
      <4> QED BY <3>1, <4>1, <4>2 DEF Deal, IsLent, IsBack
    <3> QED BY <3>2, <3>3
  <2>2. \A w \in UThreads : arg'[w] # NoUThread <=> pc'[w] \in Dealing
    BY <1>0, <1>3 DEF Deals
  <2>3. \A x \in UThreads : pc'[x] \in {"new"} \union Lent => \E w \in UThreads : arg'[w] = x
    BY <1>0, <1>3 DEF Deals
  <2> QED BY <1>0, <2>1, <2>2, <2>3 DEF Deals
<1> QED BY <1>4, <1>5, <1>6 DEF RoleInv

LEMMA SwitchAwayStep ==
  ASSUME Types, Types', RoleInv, NEW t \in OSThreads, NEW u \in UThreads,
         Leave(t, u) \/ Exit(t, u) \/ SwitchTo(t, u)
  PROVE  RoleInv'
<1>1. CASE Leave(t, u)
  <2>1. PICK v \in Suspended(t) : Save(t, u, v, "code")
    BY <1>1 DEF Leave
  <2> QED BY <1>1, <2>1, SaveStep DEF Leave, Save, Suspended, At, Types, setVars
<1>2. CASE Exit(t, u)
  <2>1. PICK v \in Suspended(t) : Save(t, u, v, "gone")
    BY <1>2 DEF Exit
  <2>2. /\ cpu[t] = u /\ to[t] = NoUThread /\ pc[u] = "exit" /\ pc'[u] = "gone"
        /\ \A x \in UThreads \ {u} : pc'[x] = pc[x]
        /\ UNCHANGED <<cpu, owner, home, detourOrigin, arg>> /\ to' = [to EXCEPT ![t] = v]
    BY <1>2, <2>1 DEF Exit, Save, At, Types, setVars
  <2>3. v \in UThreads /\ owner[v] = t /\ v # u
    BY <2>2 DEF Suspended
  <2> QED BY <2>2, <2>3, SaveStep
<1>3. CASE SwitchTo(t, u)
  <2>1. cpu[t] = u /\ to[t] = NoUThread /\ pc[u] = "switch"
    BY <1>3 DEF SwitchTo, At
  <2>2. PICK v \in UThreads : v = arg[u]
    BY <2>1, Partner DEF Dealing, Lending
  <2>3. v # u /\ owner[v] = t
    BY <2>1, <2>2, PartnerOfRunning DEF Dealing, Lending, Deal
  <2> QED BY <1>3, <2>1, <2>2, <2>3, SaveStep DEF SwitchTo, Save, Types, setVars
<1> QED BY <1>1, <1>2, <1>3

\* Who runs because an OS thread was lent to it.
LEMMA LentTo ==
  ASSUME Types, RoleInv, NEW t \in OSThreads, NEW v \in UThreads,
         cpu[t] = v, to[t] = NoUThread, pc[v] \in Lent
  PROVE  /\ owner[v] = t
         /\ \E w \in UThreads : /\ arg[w] = v /\ pc[w] = "inactive" /\ owner[w] = t
                                /\ detourOrigin[v] = w /\ Deal(w, v, t)
                                /\ \A x \in UThreads \ {w} : arg[x] # v
                                /\ \A x \in UThreads \ {w} :
                                     pc[x] \in Dealing \union Acting => owner[x] # t
<1> USE ScanAssumption
<1>0. Owners /\ Deals /\ Left
  BY DEF RoleInv
<1>1. owner[v] = t
  BY <1>0 DEF Owners, Runs
<1>2. PICK w \in UThreads : arg[w] = v
  BY <1>0 DEF Deals
<1>3. pc[w] \in Dealing /\ Deal(w, v, owner[w])
  BY <1>0, <1>2 DEF Deals
<1>4. pc[w] \in {"active", "switch", "inactive"}
  BY <1>1, <1>3 DEF Deal, Dealing, Preparing, Inserting, Lending, Lent
<1>5. v \notin {w} /\ pc[v] \notin Dealing \union Acting
  BY <1>3 DEF Lent, Acting, Dealing, Preparing, Inserting, Lending, Unlinking
<1>6. pc[w] = "inactive" /\ owner[w] = t /\ detourOrigin[v] = w
  <2>1. CASE pc[w] \in {"active", "switch"}
    <3>1. owner[w] = t /\ pc[w] \in Acting
      BY <1>1, <1>3, <2>1 DEF Deal, Acting, Dealing, Lending
    <3> QED BY <1>0, <1>5, <3>1 DEF Owners
  <2>2. CASE pc[w] = "inactive"
    BY <1>1, <1>3, <2>2 DEF Deal, IsLent, IsBack
  <2> QED BY <1>4, <2>1, <2>2
<1>7. ASSUME NEW x \in UThreads \ {w}, pc[x] \in Dealing \union Acting, owner[x] = t PROVE FALSE
  <2>1. x # v
    BY <1>5, <1>7
  <2>2. pc[x] = "inactive"
    BY <1>0, <1>7, <2>1 DEF Owners, Acting
  <2>3. arg[x] \in UThreads /\ arg[x] # v /\ Deal(x, arg[x], t)
    BY <1>0, <1>2, <1>7, <2>2 DEF Deals, Types, Link, Dealing, Lending
  <2> QED BY <2>1, <2>2, <2>3 DEF Deal, IsLent, IsBack
<1>8. \A x \in UThreads \ {w} : arg[x] # v
  BY <1>0, <1>2 DEF Deals
<1> QED BY <1>1, <1>2, <1>3, <1>6, <1>7, <1>8

LEMMA EndDetourStep ==
  ASSUME Types, Types', RoleInv, NEW t \in OSThreads, NEW v \in UThreads, EndDetour(t, v)
  PROVE  RoleInv'
<1> USE ScanAssumption
<1>0. Owners /\ Deals /\ Left
  BY DEF RoleInv
<1>1. /\ cpu[t] = v /\ to[t] = NoUThread /\ pc[v] \in Lent
      /\ UNCHANGED <<cpu, home, arg>>
  BY DEF EndDetour, Save, At, Lent, setVars
<1>2. PICK w \in UThreads : /\ arg[w] = v /\ pc[w] = "inactive" /\ owner[w] = t
                            /\ detourOrigin[v] = w /\ Deal(w, v, t)
                            /\ \A x \in UThreads \ {w} : arg[x] # v
                            /\ \A x \in UThreads \ {w} :
                                 pc[x] \in Dealing \union Acting => owner[x] # t
  BY <1>1, LentTo
<1>3. /\ \A x \in UThreads \ {v} : /\ pc'[x] = pc[x] /\ owner'[x] = owner[x]
                                   /\ detourOrigin'[x] = detourOrigin[x]
      /\ pc'[v] \in {"new", "code"} /\ owner'[v] = NoOSThread
      /\ pc'[v] = "code" => pc[v] = "walk"
      /\ to'[t] = w /\ \A t2 \in OSThreads \ {t} : to'[t2] = to[t2]
  BY <1>2 DEF EndDetour, Save, At, Types
<1>4. owner[v] = t /\ v # w
  BY <1>1, <1>2, LentTo DEF Lent
<1>5. \A t2 \in OSThreads \ {t} : Runs(t2)' = Runs(t2) /\ Runs(t2) # v /\ Runs(t2) \in UThreads
  BY <1>0, <1>1, <1>3, <1>4 DEF Owners, Runs, Types
<1>6. pc'[v] \notin Dealing \union Acting \union Lent \union {"none"}
  BY <1>3 DEF Lent, Acting, Dealing, Preparing, Inserting, Lending, Unlinking
<1>7. Owners'
  <2>1. \A t2 \in OSThreads : owner'[Runs(t2)'] = t2
    <3>1. Runs(t)' = w
      BY <1>3 DEF Runs
    <3> QED BY <1>0, <1>2, <1>3, <1>4, <1>5, <3>1 DEF Owners
  <2>2. ASSUME NEW x \in UThreads, pc'[x] \in Acting
        PROVE  owner'[x] \in OSThreads /\ cpu'[owner'[x]] = x /\ to'[owner'[x]] = NoUThread
    <3>1. x # v /\ x # w
      BY <1>2, <1>3, <1>4, <1>6, <2>2 DEF Acting, Dealing, Preparing, Inserting, Lending, Unlinking
    <3> QED BY <1>0, <1>1, <1>2, <1>3, <2>2, <3>1 DEF Owners
  <2>3. \A x \in UThreads : owner'[x] \in OSThreads => home'[x] = owner'[x] \/ pc'[x] = "copy"
    BY <1>0, <1>1, <1>3 DEF Owners
  <2>4. \A x \in UThreads : pc'[x] = "none" => home'[x] = NoOSThread /\ owner'[x] = NoOSThread
    BY <1>0, <1>1, <1>3 DEF Owners
  <2> QED BY <2>1, <2>2, <2>3, <2>4 DEF Owners
<1>8. Left'
  <2> SUFFICES ASSUME NEW t2 \in OSThreads, to'[t2] \notin {NoUThread, cpu[t2]}
               PROVE  owner'[cpu[t2]] = t2 \/ (pc'[to'[t2]] = "inactive" /\ arg[to'[t2]] = cpu[t2])
    BY <1>1 DEF Left
  <2>1. CASE t2 = t
    BY <1>1, <1>2, <1>3, <1>4, <2>1
  <2>2. CASE t2 # t
    <3>1. to[t2] = to'[t2] /\ to[t2] \in UThreads /\ cpu[t2] \in UThreads /\ to[t2] # v
      BY <1>3, <1>5, <2>2 DEF Types, Runs
    <3>2. owner[to[t2]] = t2
      BY <1>0, <3>1 DEF Owners, Runs
    <3>3. cpu[t2] # v
      BY <1>0, <1>2, <1>4, <2>2, <3>1, <3>2 DEF Left
    <3> QED BY <1>0, <1>3, <3>1, <3>3 DEF Left
  <2> QED BY <2>1, <2>2
<1>9. Deals'
  <2>1. ASSUME NEW x \in UThreads, pc'[x] \in Dealing PROVE Deal(x, arg[x], owner[x])'
    <3>1. x # v /\ pc[x] \in Dealing
      BY <1>3, <1>6, <2>1
    <3>2. CASE x = w
      <4>1. IsBack(w, v, t)'
        BY <1>1, <1>3 DEF IsBack
      <4>2. pc'[v] = "code" => home[v] = t
        BY <1>2, <1>3 DEF Deal
      <4>3. pc'[w] = "inactive" /\ owner'[w] = t /\ arg'[w] = v
        BY <1>1, <1>2, <1>3, <1>4
      <4>4. pc'[v] # "walk" /\ home[v] \in OSThreads /\ UNCHANGED home
        BY <1>1, <1>2, <1>3 DEF Deal
      <4> QED BY <3>2, <4>1, <4>2, <4>3, <4>4 DEF Deal, Preparing, Inserting
    <3>3. CASE x # w
      <4>1. arg[x] \in UThreads /\ arg[x] # v /\ Deal(x, arg[x], owner[x])
        BY <1>2, <3>1, <3>3, Partner
      <4>2. owner[x] # t /\ owner[x] \in OSThreads => to'[owner[x]] = to[owner[x]]
        BY <1>3
      <4>3. owner[x] # t
        BY <1>2, <3>1, <3>3
      <4> QED BY <1>1, <1>3, <3>1, <4>1, <4>2, <4>3 DEF Deal, IsLent, IsBack
    <3> QED BY <3>2, <3>3
  <2>2. \A x \in UThreads : arg'[x] # NoUThread <=> pc'[x] \in Dealing
    <3>1. arg[v] = NoUThread
      BY <1>0, <1>1 DEF Deals, Lent, Dealing, Preparing, Inserting, Lending
    <3> QED BY <1>0, <1>1, <1>3, <1>6, <3>1 DEF Deals
  <2>3. \A x \in UThreads : pc'[x] \in {"new"} \union Lent => \E y \in UThreads : arg'[y] = x
    BY <1>0, <1>1, <1>2, <1>3 DEF Deals
  <2> QED BY <1>0, <1>1, <2>1, <2>2, <2>3 DEF Deals
<1> QED BY <1>7, <1>8, <1>9 DEF RoleInv

\* The two other steps of a switch.
LEMMA LoadClearStep ==
  ASSUME Types, Types', RoleInv, NEW t \in OSThreads, Load(t) \/ Clear(t)
  PROVE  RoleInv'
<1> USE ScanAssumption
<1>0. Owners /\ Deals /\ Left
  BY DEF RoleInv
<1>1. /\ UNCHANGED <<pc, arg, owner, home, detourOrigin>> /\ to[t] \in UThreads
      /\ \A t2 \in OSThreads \ {t} : cpu'[t2] = cpu[t2] /\ to'[t2] = to[t2]
      /\ \/ cpu[t] # to[t] /\ cpu'[t] = to[t] /\ to'[t] = to[t]
         \/ cpu[t] = to[t] /\ cpu'[t] = to[t] /\ to'[t] = NoUThread
  BY DEF Load, Clear, Types, setVars, stackVars
<1>2. \A t2 \in OSThreads : Runs(t2)' = Runs(t2)
  BY <1>1 DEF Runs
<1>3. \A x \in UThreads : pc[x] \in Acting => owner[x] # t
  BY <1>0, <1>1 DEF Owners
<1>4. Owners'
  BY <1>0, <1>1, <1>2, <1>3 DEF Owners
<1>5. Left'
  BY <1>0, <1>1 DEF Left
<1>6. Deals'
  <2>1. ASSUME NEW x \in UThreads, pc[x] \in Dealing PROVE Deal(x, arg[x], owner[x])'
    <3>1. arg[x] \in UThreads /\ Deal(x, arg[x], owner[x])
      BY <2>1, Partner
    <3>2. CASE owner[x] = t
      <4>1. pc[x] = "inactive" /\ pc[arg[x]] \in {"new", "code", "copy", "walk"}
        BY <1>3, <2>1, <3>1, <3>2 DEF Acting, Deal, IsLent, IsBack, Lent
      <4>2. x # arg[x]
        BY <4>1
      <4>3. IsLent(x, arg[x], t) => IsLent(x, arg[x], t)'
        BY <1>1, <3>1, <4>2 DEF IsLent
      <4>4. IsBack(x, arg[x], t) => IsBack(x, arg[x], t)'
        BY <1>1, <3>1, <4>2 DEF IsBack
      <4> QED BY <1>1, <3>1, <3>2, <4>1, <4>3, <4>4 DEF Deal, Preparing, Inserting
    <3>3. CASE owner[x] # t
      <4>1. owner[x] \in OSThreads => cpu'[owner[x]] = cpu[owner[x]] /\ to'[owner[x]] = to[owner[x]]
        BY <1>1, <3>3
      <4> QED BY <1>1, <3>1, <4>1 DEF Deal, IsLent, IsBack
    <3> QED BY <3>2, <3>3
  <2> QED BY <1>0, <1>1, <2>1 DEF Deals
<1> QED BY <1>4, <1>5, <1>6 DEF RoleInv

LEMMA InitRole == Init => RoleInv
<1> SUFFICES ASSUME Init PROVE RoleInv
  OBVIOUS
<1> USE ScanAssumption
<1>1. /\ cpu = Main /\ owner = home
      /\ \A t \in OSThreads : to[t] = NoUThread
      /\ \A u \in UThreads : pc[u] \in {"none", "code"} /\ arg[u] = NoUThread
      /\ \A u \in UThreads : pc[u] = "none" => home[u] = NoOSThread
  BY DEF Init
<1>2. ASSUME NEW t \in OSThreads PROVE home[Main[t]] = t
  <2>1. home[Main[t]] = CHOOSE s \in OSThreads : Main[s] = Main[t]
    BY DEF Init
  <2> QED BY <2>1
<1>3. Owners
  BY <1>1, <1>2 DEF Owners, Runs, Acting, Dealing, Preparing, Inserting, Lending, Unlinking
<1>4. Deals
  BY <1>1 DEF Deals, Dealing, Preparing, Inserting, Lending, Lent
<1>5. Left
  BY <1>1 DEF Left
<1> QED BY <1>3, <1>4, <1>5 DEF RoleInv

LEMMA StepRole ==
  ASSUME Types, RoleInv, \A t \in OSThreads : \A v \in Stacks(t) : pc[v] # "gone",
         [Next]_vars
  PROVE  RoleInv'
<1>1. Types'
  BY StepTypes
<1>2. ASSUME NEW t \in OSThreads, NEW u \in UThreads, Making(t, u) \/ Detouring(t, u)
      PROVE  RoleInv'
  <2>1. CASE \/ InsertPrev(t, u) \/ InsertLink(t, u) \/ InsertFirst(t, u) \/ InsertLast(t, u)
             \/ SetDesc(t, u) \/ Activate(t, u) \/ Deactivate(t, u)
    <3>1. UNCHANGED <<cpu, to, owner, home, detourOrigin, arg>>
      BY <2>1 DEF InsertPrev, InsertLink, InsertFirst, InsertLast, SetDesc, Activate, Deactivate,
                  setVars, runVars
    <3> QED BY <1>1, <2>1, <3>1, GoOnStep
  <2>2. CASE Initialized(t, u) \/ Push(t, u) \/ Adopt(t, u) \/ Release(t, u)
    BY <1>1, <2>2, HandOverStep
  <2> QED BY <1>2, <2>1, <2>2 DEF Making, Detouring
<1>3. ASSUME NEW t \in OSThreads, NEW u \in UThreads, Erasing(t, u) PROVE RoleInv'
  <2>1. /\ cpu[t] = u /\ to[t] = NoUThread
        /\ UNCHANGED <<cpu, to, owner, home, detourOrigin, arg>>
        /\ pc[u] \in Unlinking \union {"code"} /\ pc'[u] \in Unlinking \union {"exit"}
        /\ \A x \in UThreads \ {u} : pc'[x] = pc[x]
    BY <1>3 DEF Erasing, EraseFirst, EraseLast, EraseNext, ErasePrev, EraseClear, At, Goes, Types,
                Unlinking, runVars
  <2> QED BY <2>1, LoneStep
<1>4. CASE UNCHANGED vars
  BY <1>4 DEF vars, setVars, stackVars, runVars, RoleInv, Owners, Deals, Left, Runs, Deal,
              IsLent, IsBack
<1>5. ASSUME NEW t \in OSThreads, NEW u \in UThreads, NEW v \in UThreads, Trace(t, u, v)
      PROVE  RoleInv'
  BY <1>1, <1>5, TraceStep DEF Trace
<1> QED BY <1>1, <1>2, <1>3, <1>4, <1>5, LoadClearStep, SwitchAwayStep, EndDetourStep, CreateStep
        DEF Next, Switching

-----------------------------------------------------------------------------
(* Whose stack pointers are saved: all but those of the UThreads that run and *)
(* of those that are being made, which the scan passes over.                  *)

SavedInv ==
  /\ \A t \in OSThreads : to[t] # NoUThread => cpu[t] \in saved /\ to[t] \in saved
  /\ \A u \in UThreads \ saved :
       \/ pc[u] = "none"
       \/ \E w \in UThreads : arg[w] = u /\ pc[w] \in Inserting \union {"desc"}
       \/ \E t \in OSThreads : cpu[t] = u /\ to[t] = NoUThread
  /\ \A w \in UThreads : pc[w] \in Preparing => arg[w] \in initializing

\* Whoever may run on an OS thread, and does not.
LEMMA SuspendedIsSaved ==
  ASSUME Types, RoleInv, SavedInv, NEW t \in OSThreads, NEW x \in UThreads,
         owner[x] = t, x # cpu[t], pc[x] # "new"
  PROVE  x \in saved
<1> USE ScanAssumption
<1>1. pc[x] # "none"
  BY DEF RoleInv, Owners
<1>2. ASSUME NEW w \in UThreads, arg[w] = x, pc[w] \in Inserting \union {"desc"} PROVE FALSE
  <2>1. Deal(w, x, owner[w]) /\ pc[w] \in Preparing
    BY <1>2, Partner DEF Dealing, Preparing
  <2> QED BY <2>1 DEF Deal
<1>3. ASSUME NEW t2 \in OSThreads, cpu[t2] = x, to[t2] = NoUThread PROVE FALSE
  BY <1>3 DEF RoleInv, Owners, Runs
<1> QED BY <1>1, <1>2, <1>3 DEF SavedInv

\* No switch is going on, and nobody is made known to the scan.
LEMMA NoSwitchStep ==
  ASSUME SavedInv, UNCHANGED <<cpu, to>>, saved \subseteq saved',
         \A x \in UThreads \ saved' : pc[x] = "none" =>
           pc'[x] = "none" \/ \E w \in UThreads : arg'[w] = x /\ pc'[w] \in Inserting \union {"desc"},
         \A w \in UThreads : pc[w] \in Inserting \union {"desc"} =>
           \/ arg'[w] = arg[w] /\ pc'[w] \in Inserting \union {"desc"}
           \/ arg[w] \in saved',
         \A w \in UThreads : pc'[w] \in Preparing => arg'[w] \in initializing'
  PROVE  SavedInv'
BY DEF SavedInv

LEMMA SaveSaves ==
  ASSUME Types, RoleInv, SavedInv, NEW t \in OSThreads, NEW u \in UThreads, NEW v \in UThreads,
         cpu[t] = u, to[t] = NoUThread, owner[v] = t, v # u, pc[v] # "new",
         UNCHANGED <<cpu, arg, initializing>>,
         to' = [to EXCEPT ![t] = v], saved' = saved \union {u},
         \A x \in UThreads \ {u} : pc'[x] = pc[x],
         pc[u] \notin Preparing, pc'[u] \notin Preparing
  PROVE  SavedInv'
<1>1. v \in saved
  BY SuspendedIsSaved
<1>2. to'[t] = v /\ \A t2 \in OSThreads \ {t} : to'[t2] = to[t2]
  BY DEF Types
<1>3. \A t2 \in OSThreads : to'[t2] # NoUThread => cpu[t2] \in saved' /\ to'[t2] \in saved'
  BY <1>1, <1>2 DEF SavedInv
<1>4. ASSUME NEW x \in UThreads \ saved'
      PROVE  \/ pc'[x] = "none"
             \/ \E w \in UThreads : arg'[w] = x /\ pc'[w] \in Inserting \union {"desc"}
             \/ \E t2 \in OSThreads : cpu'[t2] = x /\ to'[t2] = NoUThread
  <2>1. x # u /\ x \notin saved
    OBVIOUS
  <2>2. ASSUME NEW w \in UThreads, arg[w] = x, pc[w] \in Inserting \union {"desc"}
        PROVE  arg'[w] = x /\ pc'[w] \in Inserting \union {"desc"}
    BY <2>2 DEF Preparing
  <2>3. ASSUME NEW t2 \in OSThreads, cpu[t2] = x, to[t2] = NoUThread
        PROVE  cpu'[t2] = x /\ to'[t2] = NoUThread
    BY <1>2, <2>1, <2>3
  <2> QED BY <2>1, <2>2, <2>3 DEF SavedInv
<1>5. \A w \in UThreads : pc'[w] \in Preparing => arg'[w] \in initializing'
  BY DEF SavedInv
<1> QED BY <1>3, <1>4, <1>5 DEF SavedInv

\* Nobody is being made by those whose part changes.
LEMMA OtherStep ==
  ASSUME SavedInv, UNCHANGED <<cpu, to, saved, initializing>>,
         \A x \in UThreads :
           \/ pc'[x] = pc[x] /\ arg'[x] = arg[x]
           \/ pc[x] \notin Preparing \union {"none"} /\ pc'[x] \notin Preparing
  PROVE  SavedInv'
<1>1. \A x \in UThreads \ saved' : pc[x] = "none" => pc'[x] = "none"
  OBVIOUS
<1>2. \A w \in UThreads : pc[w] \in Inserting \union {"desc"} =>
         arg'[w] = arg[w] /\ pc'[w] \in Inserting \union {"desc"}
  BY DEF Preparing
<1>3. \A w \in UThreads : pc'[w] \in Preparing => arg'[w] \in initializing'
  BY DEF SavedInv
<1> QED BY <1>1, <1>2, <1>3, NoSwitchStep

LEMMA MakingSaves ==
  ASSUME Types, RoleInv, SavedInv, NEW t \in OSThreads, NEW u \in UThreads, Making(t, u)
  PROVE  SavedInv'
<1>0. /\ cpu[t] = u /\ to[t] = NoUThread /\ UNCHANGED <<cpu, to>>
      /\ pc[u] \in Preparing \union {"push"}
  BY DEF Making, InsertPrev, InsertLink, InsertFirst, InsertLast, SetDesc, Initialized, Push,
         At, Goes, setVars, runVars, Preparing, Inserting
<1>1. PICK v \in UThreads : v = arg[u]
  BY <1>0, Partner DEF Dealing
<1>2. /\ v # u /\ pc[v] = "new"
      /\ \A x \in UThreads \ {u} : arg[x] # v
  <2>1. Deal(u, v, t)
    BY <1>0, <1>1, PartnerOfRunning DEF Dealing
  <2> QED BY <1>0, <1>1, <2>1, PartnerOfRunning DEF Deal, Dealing
<1>3. CASE InsertPrev(t, u) \/ InsertLink(t, u) \/ InsertFirst(t, u) \/ InsertLast(t, u)
  <2>1. /\ pc[u] \in Inserting /\ pc'[u] \in Inserting \union {"desc"}
        /\ \A x \in UThreads \ {u} : pc'[x] = pc[x]
        /\ UNCHANGED <<saved, initializing, arg>>
    BY <1>3 DEF InsertPrev, InsertLink, InsertFirst, InsertLast, At, Goes, Types, Inserting,
                stackVars, runVars
  <2>2. \A x \in UThreads \ saved' : pc[x] = "none" => pc'[x] = "none"
    BY <2>1 DEF Inserting
  <2>3. \A w \in UThreads : pc'[w] \in Preparing => pc[w] \in Preparing
    BY <2>1 DEF Preparing
  <2>4. \A w \in UThreads : pc'[w] \in Preparing => arg'[w] \in initializing'
    BY <2>1, <2>3 DEF SavedInv
  <2> QED BY <1>0, <2>1, <2>2, <2>4, NoSwitchStep
<1>4. CASE SetDesc(t, u)
  <2>1. /\ pc[u] = "desc" /\ pc'[u] = "ready" /\ saved' = saved \union {v}
        /\ \A x \in UThreads \ {u} : pc'[x] = pc[x]
        /\ UNCHANGED <<initializing, arg>>
    BY <1>1, <1>4 DEF SetDesc, At, Goes, Types, runVars
  <2>2. \A x \in UThreads \ saved' : pc[x] = "none" => pc'[x] = "none"
    BY <2>1
  <2>3. \A w \in UThreads : pc[w] \in Inserting \union {"desc"} =>
           (arg'[w] = arg[w] /\ pc'[w] \in Inserting \union {"desc"}) \/ arg[w] \in saved'
    BY <1>1, <2>1
  <2>4. \A w \in UThreads : pc'[w] \in Preparing => pc[w] \in Preparing
    BY <2>1 DEF Preparing
  <2>5. \A w \in UThreads : pc'[w] \in Preparing => arg'[w] \in initializing'
    BY <2>1, <2>4 DEF SavedInv
  <2> QED BY <1>0, <2>1, <2>2, <2>3, <2>5, NoSwitchStep
<1>5. CASE Initialized(t, u)
  <2>1. /\ pc[u] = "ready" /\ pc'[u] \in {"push", "adopt"} /\ pc'[v] \in {"new", "copy"}
        /\ \A x \in UThreads \ {u, v} : pc'[x] = pc[x]
        /\ initializing' = initializing \ {v} /\ UNCHANGED <<saved, arg>>
    BY <1>1, <1>2, <1>5 DEF Initialized, At, Types, runVars
  <2>2. \A x \in UThreads \ saved' : pc[x] = "none" => pc'[x] = "none"
    BY <1>2, <2>1
  <2>3. \A w \in UThreads : pc[w] \in Inserting \union {"desc"} =>
           arg'[w] = arg[w] /\ pc'[w] \in Inserting \union {"desc"}
    BY <1>2, <2>1 DEF Inserting
  <2>4. \A w \in UThreads : pc'[w] \in Preparing => w # u /\ pc[w] \in Preparing
    BY <2>1 DEF Preparing, Inserting
  <2>5. \A w \in UThreads : pc'[w] \in Preparing => arg'[w] \in initializing'
    BY <1>2, <2>1, <2>4 DEF SavedInv
  <2> QED BY <1>0, <2>1, <2>2, <2>3, <2>5, NoSwitchStep
<1>6. CASE Push(t, u)
  <2>1. /\ pc[u] = "push" /\ pc'[u] = "code" /\ pc'[v] = "code" /\ UNCHANGED <<saved, initializing>>
        /\ \A x \in UThreads \ {u, v} : pc'[x] = pc[x]
        /\ \A x \in UThreads \ {u} : arg'[x] = arg[x]
    BY <1>1, <1>2, <1>6 DEF Push, At, Types, Link, stackVars
  <2> QED BY <1>0, <1>2, <2>1, OtherStep DEF Preparing, Inserting
<1> QED BY <1>3, <1>4, <1>5, <1>6 DEF Making

LEMMA CreateSaves ==
  ASSUME Types, RoleInv, SavedInv, NEW t \in OSThreads, NEW u \in UThreads, NEW v \in UThreads,
         NEW d \in OSThreads, Create(t, u, d, v)
  PROVE  SavedInv'
<1>1. /\ UNCHANGED <<cpu, to, saved>> /\ initializing' = initializing \union {v}
      /\ pc[u] = "code" /\ pc[v] = "none" /\ pc'[u] = "insert" /\ pc'[v] = "new"
      /\ \A x \in UThreads \ {u, v} : pc'[x] = pc[x]
      /\ \A x \in UThreads \ {u} : arg'[x] = arg[x]
      /\ arg'[u] = v
  BY DEF Create, At, Types, Link, runVars
<1>2. \A x \in UThreads \ saved' : pc[x] = "none" =>
         pc'[x] = "none" \/ \E w \in UThreads : arg'[w] = x /\ pc'[w] \in Inserting \union {"desc"}
  BY <1>1 DEF Inserting
<1>3. \A w \in UThreads : pc[w] \in Inserting \union {"desc"} =>
         arg'[w] = arg[w] /\ pc'[w] \in Inserting \union {"desc"}
  BY <1>1 DEF Inserting
<1>4. \A w \in UThreads : pc'[w] \in Preparing => w = u \/ pc[w] \in Preparing
  BY <1>1 DEF Preparing, Inserting
<1>5. \A w \in UThreads : pc'[w] \in Preparing => arg'[w] \in initializing'
  BY <1>1, <1>4 DEF SavedInv
<1> QED BY <1>1, <1>2, <1>3, <1>5, NoSwitchStep

LEMMA LoadClearSaves ==
  ASSUME Types, RoleInv, SavedInv, NEW t \in OSThreads, Load(t) \/ Clear(t)
  PROVE  SavedInv'
<1> USE ScanAssumption
<1>0. /\ UNCHANGED <<pc, arg, initializing>> /\ to[t] \in UThreads /\ to[t] # NoUThread
      /\ \A t2 \in OSThreads \ {t} : cpu'[t2] = cpu[t2] /\ to'[t2] = to[t2]
  BY DEF Load, Clear, Types, setVars, stackVars
<1>1. CASE Load(t)
  <2>1. UNCHANGED <<saved, to>> /\ cpu'[t] = to[t]
    BY <1>1 DEF Load, Types, stackVars
  <2>2. \A t2 \in OSThreads : to'[t2] # NoUThread => cpu'[t2] \in saved' /\ to'[t2] \in saved'
    BY <1>0, <2>1 DEF SavedInv
  <2>3. \A t2 \in OSThreads : to[t2] = NoUThread => cpu'[t2] = cpu[t2]
    BY <1>0
  <2> QED BY <1>0, <2>1, <2>2, <2>3 DEF SavedInv
<1>2. CASE Clear(t)
  <2>1. /\ saved' = saved \ {cpu[t]} /\ UNCHANGED cpu /\ to'[t] = NoUThread /\ to[t] = cpu[t]
    BY <1>2 DEF Clear, Types
  <2>2. owner[cpu[t]] = t
    BY <1>0, <2>1 DEF RoleInv, Owners, Runs
  <2>3. ASSUME NEW t2 \in OSThreads \ {t}, to[t2] # NoUThread
        PROVE  cpu[t2] # cpu[t] /\ to[t2] # cpu[t]
    <3>1. owner[to[t2]] = t2 /\ to[t2] \in UThreads
      BY <2>3 DEF RoleInv, Owners, Runs, Types
    <3>2. CASE owner[cpu[t2]] = t2 \/ to[t2] = cpu[t2]
      BY <2>2, <3>1, <3>2
    <3>3. CASE to[t2] # cpu[t2] /\ pc[to[t2]] = "inactive" /\ arg[to[t2]] = cpu[t2]
      <4>1. Deal(to[t2], cpu[t2], t2)
        BY <3>1, <3>3, Partner DEF Dealing, Lending
      <4>2. owner[cpu[t2]] \in {t2, NoOSThread}
        BY <3>3, <4>1 DEF Deal, IsLent, IsBack
      <4> QED BY <2>2, <3>1, <4>2
    <3> QED BY <2>3, <3>1, <3>2, <3>3 DEF RoleInv, Left
  <2>4. \A t2 \in OSThreads : to'[t2] # NoUThread => cpu'[t2] \in saved' /\ to'[t2] \in saved'
    BY <1>0, <2>1, <2>3 DEF SavedInv
  <2>5. \A t2 \in OSThreads : to[t2] = NoUThread => to'[t2] = NoUThread
    BY <1>0
  <2> QED BY <1>0, <2>1, <2>4, <2>5 DEF SavedInv
<1> QED BY <1>1, <1>2

LEMMA SwitchSaves ==
  ASSUME Types, RoleInv, SavedInv, NEW t \in OSThreads, NEW u \in UThreads, Switching(t, u)
  PROVE  SavedInv'
<1> USE DEF Preparing, Inserting
<1>1. CASE Leave(t, u)
  <2>1. PICK v \in Suspended(t) : Save(t, u, v, "code")
    BY <1>1 DEF Leave
  <2> QED BY <1>1, <2>1, SaveSaves DEF Leave, Save, Suspended, At, Types, setVars
<1>2. CASE Exit(t, u)
  <2>1. PICK v \in Suspended(t) : Save(t, u, v, "gone")
    BY <1>2 DEF Exit
  <2> QED BY <1>2, <2>1, SaveSaves DEF Exit, Save, Suspended, At, Types, setVars
<1>3. CASE SwitchTo(t, u)
  <2>1. cpu[t] = u /\ to[t] = NoUThread /\ pc[u] = "switch"
    BY <1>3 DEF SwitchTo, At
  <2>2. PICK v \in UThreads : v = arg[u]
    BY <2>1, Partner DEF Dealing, Lending
  <2>3. v # u /\ owner[v] = t /\ pc[v] # "new"
    BY <2>1, <2>2, PartnerOfRunning DEF Dealing, Lending, Deal, Lent
  <2> QED BY <1>3, <2>1, <2>2, <2>3, SaveSaves DEF SwitchTo, Save, Types, setVars
<1>4. CASE EndDetour(t, u)
  <2>1. cpu[t] = u /\ to[t] = NoUThread /\ pc[u] \in Lent
    BY <1>4 DEF EndDetour, At, Lent
  <2>2. PICK w \in UThreads : pc[w] = "inactive" /\ owner[w] = t /\ detourOrigin[u] = w
    BY <2>1, LentTo
  <2>3. w # u
    BY <2>1, <2>2 DEF Lent
  <2>4. /\ to' = [to EXCEPT ![t] = w] /\ saved' = saved \union {u}
        /\ \A x \in UThreads \ {u} : pc'[x] = pc[x]
        /\ pc[u] \in Lent /\ pc'[u] \in {"new", "code"}
        /\ UNCHANGED <<cpu, arg, initializing>>
    BY <1>4, <2>1, <2>2 DEF EndDetour, Save, Types
  <2> QED BY <2>1, <2>2, <2>3, <2>4, SaveSaves DEF Lent
<1> QED BY <1>1, <1>2, <1>3, <1>4 DEF Switching

LEMMA InitSaved == Init => SavedInv
<1> SUFFICES ASSUME Init PROVE SavedInv
  OBVIOUS
<1> USE ScanAssumption
<1>1. ASSUME NEW u \in UThreads, pc[u] # "none" PROVE \E t \in OSThreads : cpu[t] = u /\ to[t] = NoUThread
  BY <1>1 DEF Init
<1> QED BY <1>1 DEF SavedInv, Init, Preparing, Inserting

LEMMA StepSaved ==
  ASSUME Types, RoleInv, SavedInv, \A t \in OSThreads : \A v \in Stacks(t) : pc[v] # "gone",
         [Next]_vars
  PROVE  SavedInv'
<1> USE DEF Preparing, Inserting
<1>1. ASSUME NEW t \in OSThreads, NEW u \in UThreads, Detouring(t, u) PROVE SavedInv'
  <2>1. CASE Adopt(t, u) \/ Activate(t, u) \/ Deactivate(t, u)
    BY <2>1, OtherStep DEF Adopt, Activate, Deactivate, At, Goes, Types, setVars, runVars
  <2>2. CASE Release(t, u)
    BY <2>2, OtherStep DEF Release, At, Types, Link, setVars
  <2> QED BY <1>1, <2>1, <2>2 DEF Detouring
<1>2. ASSUME NEW t \in OSThreads, NEW u \in UThreads, Erasing(t, u) PROVE SavedInv'
  <2>1. /\ UNCHANGED <<cpu, to, saved, initializing, arg>>
        /\ pc[u] \in Unlinking \union {"code"} /\ pc'[u] \in Unlinking \union {"exit"}
        /\ \A x \in UThreads \ {u} : pc'[x] = pc[x]
    BY <1>2 DEF Erasing, EraseFirst, EraseLast, EraseNext, ErasePrev, EraseClear, At, Goes, Types,
                Unlinking, stackVars, runVars
  <2> QED BY <2>1, OtherStep DEF Unlinking
<1>3. ASSUME NEW t \in OSThreads, NEW u \in UThreads, NEW v \in UThreads, Trace(t, u, v)
      PROVE  SavedInv'
  <2>1. pc[v] = "code"
    BY <1>3, StepTypes, TraceStep DEF Trace, Next
  <2> QED BY <1>3, <2>1, OtherStep DEF Trace, At, Types, Link, stackVars
<1>4. CASE UNCHANGED vars
  BY <1>4, OtherStep DEF vars, stackVars, runVars
<1> QED BY <1>1, <1>2, <1>3, <1>4, LoadClearSaves, SwitchSaves, MakingSaves, CreateSaves DEF Next

-----------------------------------------------------------------------------
(* Lists.  What following f from u leads to, without induction: A is a chain *)
(* when it is closed, when nothing smaller that contains u is, and when no   *)
(* part of it leads back to itself for ever.                                 *)

Chain(f, u, A) ==
  /\ u \in A /\ \A w \in A : f[w] \in A \union {NoUThread}
  /\ \A S \in SUBSET A :
       u \in S /\ (\A w \in S : f[w] \in S \union {NoUThread}) => S = A
  /\ \A S \in SUBSET A : S # {} => \E w \in S : f[w] \notin S

LEMMA ChainWalk ==
  ASSUME NEW f, NEW u, NEW A \in SUBSET UThreads, Chain(f, u, A)
  PROVE  Along(f, u) = A /\ Ends(f, u)
<1>1. Along(f, u) = A
  <2>1. ASSUME NEW S \in SUBSET UThreads, u \in S \union {NoUThread},
               \A w \in S : f[w] \in S \union {NoUThread}
        PROVE  A \subseteq S
    <3>1. u \in A \intersect S
      BY <2>1, ScanAssumption DEF Chain
    <3>2. \A w \in A \intersect S : f[w] \in (A \intersect S) \union {NoUThread}
      BY <2>1 DEF Chain
    <3>3. A \intersect S = A
      BY <3>1, <3>2 DEF Chain
    <3> QED BY <3>3
  <2>2. u \in A \union {NoUThread} /\ \A w \in A : f[w] \in A \union {NoUThread}
    BY DEF Chain
  <2> QED BY <2>1, <2>2 DEF Along
<1> QED BY <1>1 DEF Ends, Chain

LEMMA ChainFrame ==
  ASSUME NEW f, NEW g, NEW u, NEW A, Chain(f, u, A), \A w \in A : g[w] = f[w]
  PROVE  Chain(g, u, A)
<1>1. ASSUME NEW S \in SUBSET A, u \in S, \A w \in S : g[w] \in S \union {NoUThread} PROVE S = A
  <2>1. \A w \in S : f[w] \in S \union {NoUThread}
    BY <1>1
  <2> QED BY <1>1, <2>1 DEF Chain
<1>2. ASSUME NEW S \in SUBSET A, S # {} PROVE \E w \in S : g[w] \notin S
  <2>1. PICK w \in S : f[w] \notin S
    BY <1>2 DEF Chain
  <2> QED BY <2>1
<1>3. u \in A /\ \A w \in A : g[w] \in A \union {NoUThread}
  BY DEF Chain
<1> QED BY <1>1, <1>2, <1>3 DEF Chain

\* v is put behind l, which is the last.
LEMMA ChainAppend ==
  ASSUME NEW f, NEW g, NEW u, NEW A \in SUBSET UThreads, Chain(f, u, A),
         NEW l \in A, f[l] = NoUThread, NEW v \in UThreads \ A,
         g[l] = v, g[v] = NoUThread, \A w \in A \ {l} : g[w] = f[w]
  PROVE  Chain(g, u, A \union {v})
<1> USE ScanAssumption
<1>1. /\ u \in A \union {v}
      /\ \A w \in A \union {v} : g[w] \in (A \union {v}) \union {NoUThread}
  BY DEF Chain
<1>2. ASSUME NEW S \in SUBSET (A \union {v}), u \in S, \A w \in S : g[w] \in S \union {NoUThread}
      PROVE  S = A \union {v}
  <2>1. u \in S \intersect A
    BY <1>2 DEF Chain
  <2>2. \A w \in S \intersect A : f[w] \in (S \intersect A) \union {NoUThread}
    BY <1>2 DEF Chain
  <2>3. S \intersect A = A
    BY <2>1, <2>2 DEF Chain
  <2>4. v \in S
    BY <1>2, <2>3
  <2> QED BY <2>3, <2>4
<1>3. ASSUME NEW S \in SUBSET (A \union {v}), S # {} PROVE \E w \in S : g[w] \notin S
  <2>1. CASE v \in S
    BY <2>1
  <2>2. CASE v \notin S
    <3>1. S \in SUBSET A
      BY <2>2
    <3>2. PICK w \in S : f[w] \notin S
      BY <1>3, <3>1 DEF Chain
    <3>3. g[w] \notin S
      BY <2>2, <3>1, <3>2
    <3> QED BY <3>3
  <2> QED BY <2>1, <2>2
<1> QED BY <1>1, <1>2, <1>3 DEF Chain

LEMMA NoLoop ==
  ASSUME NEW f, NEW u, NEW A, Chain(f, u, A), NEW x \in A
  PROVE  f[x] # x
<1>1. {x} \in SUBSET A /\ {x} # {}
  OBVIOUS
<1>2. \E w \in {x} : f[w] \notin {x}
  BY <1>1 DEF Chain
<1> QED BY <1>2

\* x is taken out from behind p.
LEMMA ChainRemove ==
  ASSUME NEW f, NEW g, NEW u, NEW A \in SUBSET UThreads, Chain(f, u, A),
         NEW x \in A, x # u, NEW p \in A, f[p] = x, \A q \in A : f[q] = x => q = p,
         g[p] = f[x], \A w \in A \ {p} : g[w] = f[w]
  PROVE  Chain(g, u, A \ {x})
<1> USE ScanAssumption
<1>0. f[x] # x /\ p # x
  BY NoLoop
<1>1. u \in A \ {x} /\ \A w \in A \ {x} : g[w] \in (A \ {x}) \union {NoUThread}
  BY <1>0 DEF Chain
<1>2. ASSUME NEW S \in SUBSET (A \ {x}), u \in S, \A w \in S : g[w] \in S \union {NoUThread}
      PROVE  S = A \ {x}
  <2>1. CASE p \in S
    <3>1. \A w \in S \union {x} : f[w] \in (S \union {x}) \union {NoUThread}
      BY <1>2, <2>1
    <3>2. S \union {x} \in SUBSET A /\ u \in S \union {x}
      BY <1>2
    <3>3. S \union {x} = A
      BY <3>1, <3>2 DEF Chain
    <3> QED BY <3>3
  <2>2. CASE p \notin S
    <3>1. \A w \in S : f[w] \in S \union {NoUThread}
      BY <1>2, <2>2
    <3>2. S \in SUBSET A
      OBVIOUS
    <3>3. S = A
      BY <1>2, <3>1, <3>2 DEF Chain
    <3> QED BY <2>2, <3>3
  <2> QED BY <2>1, <2>2
<1>3. ASSUME NEW S \in SUBSET (A \ {x}), S # {} PROVE \E w \in S : g[w] \notin S
  <2>1. CASE p \in S
    <3>1. S \union {x} \in SUBSET A /\ S \union {x} # {}
      OBVIOUS
    <3>2. PICK w \in S \union {x} : f[w] \notin S \union {x}
      BY <3>1 DEF Chain
    <3>3. CASE w = x
      <4>1. g[p] \notin S
        BY <3>2, <3>3
      <4> QED BY <2>1, <4>1
    <3>4. CASE w # x
      <4>1. w \in S /\ w # p
        BY <3>2, <3>4
      <4>2. g[w] = f[w]
        BY <4>1
      <4> QED BY <3>2, <4>1, <4>2
    <3> QED BY <3>3, <3>4
  <2>2. CASE p \notin S
    <3>1. PICK w \in S : f[w] \notin S
      BY <1>3 DEF Chain
    <3> QED BY <2>2, <3>1
  <2> QED BY <2>1, <2>2
<1> QED BY <1>1, <1>2, <1>3 DEF Chain

\* Whoever is not at the head is behind somebody.
LEMMA ChainBefore ==
  ASSUME NEW f, NEW u, NEW A, Chain(f, u, A), NEW x \in A, x # u
  PROVE  \E p \in A : f[p] = x
<1> SUFFICES ASSUME \A p \in A : f[p] # x PROVE FALSE
  OBVIOUS
<1>1. A \ {x} \in SUBSET A /\ u \in A \ {x}
  BY DEF Chain
<1>2. \A w \in A \ {x} : f[w] \in (A \ {x}) \union {NoUThread}
  BY DEF Chain
<1>3. A \ {x} = A
  BY <1>1, <1>2 DEF Chain
<1> QED BY <1>3

-----------------------------------------------------------------------------
(* Which detours the scan follows, who holds a lock, and who never ends.     *)

Detours ==
  /\ \A w \in UThreads : detourTo[w] = IF pc[w] \in Lending THEN arg[w] ELSE NoUThread
  /\ \A v \in UThreads :
       v \in detourActive <=> \E w \in UThreads : arg[w] = v /\ pc[w] \in {"switch", "inactive"}

LocksHeld ==
  \A w \in UThreads :
    /\ pc[w] \in Unlinking => lock[home[w]] = w
    /\ pc[w] \in Inserting \ {"insert"} => lock[home[arg[w]]] = w

MainStays ==
  \A t \in OSThreads :
    home[Main[t]] = t /\ pc[Main[t]] \notin Unlinking \union {"none", "new", "copy", "exit", "gone"}

LEMMA InitRest == Init => Detours /\ LocksHeld /\ MainStays
<1> SUFFICES ASSUME Init PROVE Detours /\ LocksHeld /\ MainStays
  OBVIOUS
<1> USE ScanAssumption
<1>1. ASSUME NEW t \in OSThreads PROVE home[Main[t]] = t
  <2>1. home[Main[t]] = CHOOSE s \in OSThreads : Main[s] = Main[t]
    BY DEF Init
  <2> QED BY <2>1
<1>2. \A u \in UThreads : /\ pc[u] \in {"none", "code"} /\ detourTo[u] = NoUThread
                          /\ pc[u] = "none" => home[u] = NoOSThread
  BY DEF Init
<1>3. detourActive = {}
  BY DEF Init
<1> QED BY <1>1, <1>2, <1>3 DEF Detours, LocksHeld, MainStays, Lending, Unlinking, Inserting

\* Nobody starts or ends a detour.
LEMMA OffDetour ==
  ASSUME Types, Types', Detours, UNCHANGED <<detourTo, detourActive>>,
         \A x \in UThreads :
           \/ pc'[x] = pc[x] /\ arg'[x] = arg[x]
           \/ pc[x] \notin Lending /\ pc'[x] \notin Lending
  PROVE  Detours'
<1>1. \A w \in UThreads : detourTo'[w] = IF pc'[w] \in Lending THEN arg'[w] ELSE NoUThread
  BY DEF Detours
<1>2. \A w \in UThreads : pc[w] \in {"switch", "inactive"} \/ pc'[w] \in {"switch", "inactive"} =>
                            pc'[w] = pc[w] /\ arg'[w] = arg[w]
  BY DEF Lending
<1>3. ASSUME NEW v \in UThreads
      PROVE  v \in detourActive' <=>
               \E w \in UThreads : arg'[w] = v /\ pc'[w] \in {"switch", "inactive"}
  BY <1>2 DEF Detours
<1> QED BY <1>1, <1>3 DEF Detours

LEMMA StepDetours ==
  ASSUME Types, RoleInv, Detours, \A t \in OSThreads : \A v \in Stacks(t) : pc[v] # "gone",
         [Next]_vars
  PROVE  Detours'
<1> USE DEF Lending
<1>0. Types'
  BY StepTypes
<1>1. ASSUME NEW t \in OSThreads, NEW u \in UThreads, Detouring(t, u) \/ SwitchTo(t, u)
      PROVE  Detours'
  <2>0. /\ cpu[t] = u /\ to[t] = NoUThread
        /\ pc[u] \in {"adopt", "active", "switch", "inactive", "release"}
    BY <1>1 DEF Detouring, Adopt, Activate, SwitchTo, Deactivate, Release, At, Goes
  <2>1. PICK v \in UThreads : v = arg[u]
    BY <2>0, Partner DEF Dealing
  <2>2. \A x \in UThreads \ {u} : arg[x] # v
    BY <2>0, <2>1, PartnerOfRunning DEF Dealing
  <2>3. CASE Adopt(t, u)
    <3>1. /\ detourTo' = [detourTo EXCEPT ![u] = v] /\ UNCHANGED <<arg, detourActive>>
          /\ pc[u] = "adopt" /\ pc'[u] = "active" /\ \A x \in UThreads \ {u} : pc'[x] = pc[x]
      BY <2>1, <2>3 DEF Adopt, Goes, At, Types
    <3>2. detourTo'[u] = v /\ \A x \in UThreads \ {u} : detourTo'[x] = detourTo[x]
      BY <3>1 DEF Types, Link
    <3>3. \A w \in UThreads : detourTo'[w] = IF pc'[w] \in Lending THEN arg'[w] ELSE NoUThread
      BY <2>1, <3>1, <3>2 DEF Detours
    <3>4. \A w \in UThreads : pc[w] \in {"switch", "inactive"} <=> pc'[w] \in {"switch", "inactive"}
      BY <3>1
    <3> QED BY <3>1, <3>3, <3>4 DEF Detours
  <2>4. CASE Activate(t, u)
    <3>1. /\ detourActive' = detourActive \union {v} /\ UNCHANGED <<arg, detourTo>>
          /\ pc[u] = "active" /\ pc'[u] = "switch" /\ \A x \in UThreads \ {u} : pc'[x] = pc[x]
      BY <2>1, <2>4 DEF Activate, Goes, At, Types
    <3> QED BY <2>1, <3>1 DEF Detours
  <2>5. CASE SwitchTo(t, u)
    <3>1. /\ UNCHANGED <<arg, detourTo, detourActive>>
          /\ pc[u] = "switch" /\ pc'[u] = "inactive" /\ \A x \in UThreads \ {u} : pc'[x] = pc[x]
      BY <2>1, <2>5 DEF SwitchTo, Save, At, Types
    <3> QED BY <3>1 DEF Detours
  <2>6. CASE Deactivate(t, u)
    <3>1. /\ detourActive' = detourActive \ {v} /\ UNCHANGED <<arg, detourTo>>
          /\ pc[u] = "inactive" /\ pc'[u] = "release"
          /\ \A x \in UThreads \ {u} : pc'[x] = pc[x]
      BY <2>1, <2>6 DEF Deactivate, Goes, At, Types
    <3>2. ASSUME NEW x \in UThreads
          PROVE  x \in detourActive' <=>
                   \E w \in UThreads : arg'[w] = x /\ pc'[w] \in {"switch", "inactive"}
      <4>1. CASE x = v
        BY <2>2, <3>1, <4>1
      <4>2. CASE x # v
        <5>1. \A w \in UThreads : arg[w] = x => w # u
          BY <2>1, <4>2
        <5> QED BY <3>1, <4>2, <5>1 DEF Detours
      <4> QED BY <4>1, <4>2
    <3>3. \A w \in UThreads : detourTo'[w] = IF pc'[w] \in Lending THEN arg'[w] ELSE NoUThread
      BY <3>1 DEF Detours
    <3> QED BY <3>2, <3>3 DEF Detours
  <2>7. CASE Release(t, u)
    <3>1. /\ detourTo' = [detourTo EXCEPT ![u] = NoUThread] /\ UNCHANGED detourActive
          /\ pc[u] = "release" /\ pc'[u] \in {"push", "code"}
          /\ \A x \in UThreads \ {u} : pc'[x] = pc[x] /\ arg'[x] = arg[x]
      BY <2>7 DEF Release, At, Types, Link
    <3>2. \A w \in UThreads : detourTo'[w] = IF pc'[w] \in Lending THEN arg'[w] ELSE NoUThread
      BY <3>1 DEF Detours, Types, Link
    <3>3. \A w \in UThreads : pc[w] \in {"switch", "inactive"} \/ pc'[w] \in {"switch", "inactive"}
                                => pc'[w] = pc[w] /\ arg'[w] = arg[w]
      BY <3>1
    <3>4. ASSUME NEW x \in UThreads
          PROVE  x \in detourActive' <=>
                   \E w \in UThreads : arg'[w] = x /\ pc'[w] \in {"switch", "inactive"}
      BY <3>1, <3>3 DEF Detours
    <3> QED BY <3>2, <3>4 DEF Detours
  <2> QED BY <1>1, <2>3, <2>4, <2>5, <2>6, <2>7 DEF Detouring
<1>2. ASSUME NEW t \in OSThreads, NEW u \in UThreads, Making(t, u) PROVE Detours'
  <2>1. CASE InsertPrev(t, u) \/ InsertLink(t, u) \/ InsertFirst(t, u) \/ InsertLast(t, u)
    BY <1>0, <2>1, OffDetour DEF InsertPrev, InsertLink, InsertFirst, InsertLast, At, Goes, Types,
                                 stackVars, runVars
  <2>2. CASE SetDesc(t, u) \/ Initialized(t, u) \/ Push(t, u)
    <3>1. pc[u] \in {"desc", "ready", "push"} /\ cpu[t] = u /\ to[t] = NoUThread
      BY <2>2 DEF SetDesc, Initialized, Push, At, Goes
    <3>2. arg[u] \in UThreads /\ pc[arg[u]] \notin Lending
      BY <3>1, PartnerOfRunning DEF Dealing, Preparing
    <3>3. UNCHANGED <<detourTo, detourActive>>
      BY <2>2 DEF SetDesc, Initialized, Push, stackVars
    <3>4. \A x \in UThreads : \/ pc'[x] = pc[x] /\ arg'[x] = arg[x]
                              \/ pc[x] \notin Lending /\ pc'[x] \notin Lending
      BY <2>2, <3>1, <3>2 DEF SetDesc, Initialized, Push, At, Goes, Types, Link, runVars
    <3> QED BY <1>0, <3>3, <3>4, OffDetour
  <2> QED BY <1>2, <2>1, <2>2 DEF Making
<1>3. ASSUME NEW t \in OSThreads, NEW u \in UThreads, Erasing(t, u) PROVE Detours'
  <2>1. /\ UNCHANGED <<detourTo, detourActive, arg>>
        /\ pc[u] \in Unlinking \union {"code"} /\ pc'[u] \in Unlinking \union {"exit"}
        /\ \A x \in UThreads \ {u} : pc'[x] = pc[x]
    BY <1>3 DEF Erasing, EraseFirst, EraseLast, EraseNext, ErasePrev, EraseClear, At, Goes, Types,
                Unlinking, stackVars, runVars
  <2> QED BY <1>0, <2>1, OffDetour DEF Unlinking
<1>4. ASSUME NEW t \in OSThreads, NEW u \in UThreads, NEW v \in UThreads, Trace(t, u, v)
      PROVE  Detours'
  <2>1. pc[v] = "code"
    BY <1>0, <1>4, TraceStep DEF Trace
  <2> QED BY <1>0, <1>4, <2>1, OffDetour DEF Trace, At, Types, Link, stackVars
<1>5. ASSUME NEW t \in OSThreads, NEW u \in UThreads, Leave(t, u) \/ Exit(t, u) PROVE Detours'
  BY <1>0, <1>5, OffDetour DEF Leave, Exit, Save, At, Types
<1>6. ASSUME NEW t \in OSThreads, NEW u \in UThreads, EndDetour(t, u) PROVE Detours'
  BY <1>0, <1>6, OffDetour DEF EndDetour, Save, At, Types
<1>7. ASSUME NEW t \in OSThreads, NEW u \in UThreads, NEW v \in UThreads, NEW d \in OSThreads,
             Create(t, u, d, v) PROVE Detours'
  BY <1>0, <1>7, OffDetour DEF Create, At, Types, Link
<1>8. ASSUME NEW t \in OSThreads, Load(t) \/ Clear(t) PROVE Detours'
  BY <1>0, <1>8, OffDetour DEF Load, Clear, stackVars
<1>9. CASE UNCHANGED vars
  BY <1>0, <1>9, OffDetour DEF vars, stackVars
<1> QED BY <1>1, <1>2, <1>3, <1>4, <1>5, <1>6, <1>7, <1>8, <1>9 DEF Next, Switching

\* Steps that leave the sets, and who is in insert or erase, as they are.
Shaping == Inserting \union Unlinking \union {"exit", "gone"}

Quiet(x) ==
  \/ pc'[x] = pc[x] /\ arg'[x] = arg[x]
  \/ pc[x] = "exit" /\ pc'[x] = "gone" /\ arg'[x] = arg[x]
  \/ /\ pc[x] \notin Shaping \union {"none"} /\ pc'[x] \notin Shaping \union {"none"}
     /\ pc'[x] \in {"new", "copy"} => pc[x] \in {"new", "copy"}

QuietNext == UNCHANGED setVars /\ \A x \in UThreads : Quiet(x)

LEMMA QuietSteps ==
  ASSUME Types, RoleInv, \A t \in OSThreads : \A v \in Stacks(t) : pc[v] # "gone",
         [Next]_vars
  PROVE  \/ QuietNext
         \/ \E t \in OSThreads, u \in UThreads :
              \/ InsertPrev(t, u) \/ InsertLink(t, u) \/ InsertFirst(t, u) \/ InsertLast(t, u)
              \/ Erasing(t, u)
              \/ \E v \in UThreads, d \in OSThreads : Create(t, u, d, v)
<1> USE DEF Shaping, Inserting, Unlinking
<1>1. ASSUME NEW t \in OSThreads, NEW u \in UThreads, Detouring(t, u) PROVE QuietNext
  <2>1. CASE Adopt(t, u) \/ Activate(t, u) \/ Deactivate(t, u)
    BY <2>1 DEF Adopt, Activate, Deactivate, At, Goes, Types, QuietNext, Quiet, setVars, runVars
  <2>2. CASE Release(t, u)
    <3>1. /\ UNCHANGED setVars /\ pc[u] = "release" /\ pc'[u] \in {"push", "code"}
          /\ \A x \in UThreads \ {u} : pc'[x] = pc[x] /\ arg'[x] = arg[x]
      BY <2>2 DEF Release, At, Types, Link
    <3> QED BY <3>1 DEF QuietNext, Quiet
  <2> QED BY <1>1, <2>1, <2>2 DEF Detouring
<1>2. ASSUME NEW t \in OSThreads, NEW u \in UThreads,
             SetDesc(t, u) \/ Initialized(t, u) \/ Push(t, u) PROVE QuietNext
  <2>1. pc[u] \in {"desc", "ready", "push"} /\ cpu[t] = u /\ to[t] = NoUThread
    BY <1>2 DEF SetDesc, Initialized, Push, At, Goes
  <2>2. PICK v \in UThreads : v = arg[u]
    BY <2>1, Partner DEF Dealing, Preparing
  <2>3. v # u /\ pc[v] = "new"
    BY <2>1, <2>2, PartnerOfRunning DEF Dealing, Preparing, Deal
  <2>4. /\ UNCHANGED setVars /\ pc'[u] \in {"ready", "push", "adopt", "code"}
        /\ pc'[v] \in {"new", "copy", "code"} /\ arg'[v] = arg[v]
        /\ \A x \in UThreads \ {u, v} : pc'[x] = pc[x] /\ arg'[x] = arg[x]
    BY <1>2, <2>2, <2>3 DEF SetDesc, Initialized, Push, At, Goes, Types, Link, runVars
  <2> QED BY <2>1, <2>3, <2>4 DEF QuietNext, Quiet
<1>3. ASSUME NEW t \in OSThreads, NEW u \in UThreads, NEW v \in UThreads, Trace(t, u, v)
      PROVE  QuietNext
  <2>1. pc[v] = "code"
    BY <1>3, StepTypes, TraceStep DEF Trace
  <2> QED BY <1>3, <2>1 DEF Trace, At, Types, Link, QuietNext, Quiet
<1>4. ASSUME NEW t \in OSThreads, NEW u \in UThreads, Switching(t, u) PROVE QuietNext
  <2>1. /\ UNCHANGED <<setVars, arg>> /\ \A x \in UThreads \ {u} : pc'[x] = pc[x]
        /\ \/ pc[u] \in {"code", "switch", "copy", "walk"}
              /\ pc'[u] \in {"code", "inactive", "new"}
              /\ (pc'[u] = "new" => pc[u] = "copy")
           \/ pc[u] = "exit" /\ pc'[u] = "gone"
    BY <1>4 DEF Switching, Leave, Exit, SwitchTo, EndDetour, Save, At, Types
  <2> QED BY <2>1 DEF QuietNext, Quiet
<1>5. ASSUME NEW t \in OSThreads, Load(t) \/ Clear(t) PROVE QuietNext
  BY <1>5 DEF Load, Clear, QuietNext, Quiet
<1>6. CASE UNCHANGED vars
  BY <1>6 DEF vars, QuietNext, Quiet
<1> QED BY <1>1, <1>2, <1>3, <1>4, <1>5, <1>6 DEF Next, Making

\* Who is in insert, and for which set.
LEMMA Inserts ==
  ASSUME Types, RoleInv, NEW t \in OSThreads, NEW u \in UThreads,
         InsertPrev(t, u) \/ InsertLink(t, u) \/ InsertFirst(t, u) \/ InsertLast(t, u)
  PROVE  /\ UNCHANGED <<home, arg>> /\ pc[u] \in Inserting
         /\ pc'[u] \in (Inserting \ {"insert"}) \union {"desc"}
         /\ \A x \in UThreads \ {u} : pc'[x] = pc[x]
         /\ arg[u] \in UThreads /\ home[arg[u]] \in OSThreads /\ pc[arg[u]] = "new"
         /\ arg[u] # u /\ \A x \in UThreads \ {u} : arg[x] # arg[u]
<1>1. /\ UNCHANGED <<home, arg>> /\ pc[u] \in Inserting /\ cpu[t] = u /\ to[t] = NoUThread
      /\ pc'[u] \in (Inserting \ {"insert"}) \union {"desc"}
      /\ \A x \in UThreads \ {u} : pc'[x] = pc[x]
  BY DEF InsertPrev, InsertLink, InsertFirst, InsertLast, At, Goes, Types, Inserting
<1>2. pc[u] \in Dealing
  BY <1>1 DEF Dealing, Preparing
<1> QED BY <1>1, <1>2, Partner, PartnerOfRunning DEF Deal, Preparing

\* Who is in erase: it is in the set of the OS thread that runs it.
LEMMA Erases ==
  ASSUME Types, RoleInv, MainStays, NEW t \in OSThreads, NEW u \in UThreads, Erasing(t, u)
  PROVE  /\ UNCHANGED <<home, arg>> /\ pc[u] \in Unlinking \union {"code"}
         /\ pc'[u] \in Unlinking \union {"exit"}
         /\ \A x \in UThreads \ {u} : pc'[x] = pc[x]
         /\ home[u] = t /\ (\A s \in OSThreads : u # Main[s]) /\ \A x \in UThreads : arg[x] # u
<1>1. /\ UNCHANGED <<home, arg>> /\ pc[u] \in Unlinking \union {"code"}
      /\ cpu[t] = u /\ to[t] = NoUThread /\ pc'[u] \in Unlinking \union {"exit"}
      /\ \A x \in UThreads \ {u} : pc'[x] = pc[x]
      /\ pc[u] = "code" => u # Main[t]
  BY DEF Erasing, EraseFirst, EraseLast, EraseNext, ErasePrev, EraseClear, At, Goes, Types,
         Unlinking, runVars
<1>2. owner[u] = t /\ \A x \in UThreads : arg[x] # u
  BY <1>1, Alone DEF Lent, Unlinking
<1>3. home[u] = t
  BY <1>1, <1>2 DEF RoleInv, Owners, Unlinking
<1>4. \A s \in OSThreads : u # Main[s]
  BY <1>1, <1>3 DEF MainStays
<1> QED BY <1>1, <1>2, <1>3, <1>4

\* Who is created.
LEMMA Creates ==
  ASSUME Types, RoleInv, NEW t \in OSThreads, NEW u \in UThreads, NEW v \in UThreads,
         NEW d \in OSThreads, Create(t, u, d, v)
  PROVE  /\ UNCHANGED <<first, last, next, prev, lock>>
         /\ pc[u] = "code" /\ pc[v] = "none" /\ pc'[u] = "insert" /\ pc'[v] = "new" /\ u # v
         /\ \A x \in UThreads \ {u, v} : pc'[x] = pc[x]
         /\ \A x \in UThreads \ {u} : arg'[x] = arg[x]
         /\ \A x \in UThreads \ {v} : home'[x] = home[x]
         /\ arg[u] = NoUThread /\ arg'[u] = v /\ home[v] = NoOSThread /\ home'[v] = d
         /\ \A x \in UThreads : arg[x] # v
<1>1. /\ pc[u] = "code" /\ pc[v] = "none" /\ pc'[u] = "insert" /\ pc'[v] = "new" /\ u # v
      /\ \A x \in UThreads \ {u, v} : pc'[x] = pc[x]
      /\ \A x \in UThreads \ {u} : arg'[x] = arg[x]
      /\ \A x \in UThreads \ {v} : home'[x] = home[x]
      /\ arg'[u] = v /\ home'[v] = d /\ UNCHANGED <<first, last, next, prev, lock>>
  BY DEF Create, At, Types, Link
<1>2. arg[u] = NoUThread /\ home[v] = NoOSThread
  BY <1>1 DEF RoleInv, Owners, Deals, Dealing, Preparing, Inserting, Lending
<1>3. ASSUME NEW x \in UThreads, arg[x] = v PROVE FALSE
  <2>1. pc[x] \in Dealing
    BY <1>3, ScanAssumption DEF RoleInv, Deals
  <2> QED BY <1>2, <1>3, <2>1, Partner, ScanAssumption
<1> QED BY <1>1, <1>2, <1>3

LEMMA StepMain ==
  ASSUME Types, RoleInv, MainStays, \A t \in OSThreads : \A v \in Stacks(t) : pc[v] # "gone",
         [Next]_vars
  PROVE  MainStays'
<1> USE DEF MainStays, Unlinking, Inserting, Shaping
<1>0. \A s \in OSThreads : Main[s] \in UThreads
  BY ScanAssumption
<1>1. CASE QuietNext
  BY <1>0, <1>1 DEF QuietNext, Quiet, setVars
<1>2. ASSUME NEW t \in OSThreads, NEW u \in UThreads,
             InsertPrev(t, u) \/ InsertLink(t, u) \/ InsertFirst(t, u) \/ InsertLast(t, u)
      PROVE  MainStays'
  BY <1>0, <1>2, Inserts
<1>3. ASSUME NEW t \in OSThreads, NEW u \in UThreads, Erasing(t, u) PROVE MainStays'
  BY <1>0, <1>3, Erases
<1>4. ASSUME NEW t \in OSThreads, NEW u \in UThreads, NEW v \in UThreads, NEW d \in OSThreads,
             Create(t, u, d, v) PROVE MainStays'
  BY <1>0, <1>4, Creates
<1> QED BY <1>1, <1>2, <1>3, <1>4, QuietSteps

LEMMA StepLocks ==
  ASSUME Types, RoleInv, MainStays, LocksHeld,
         \A t \in OSThreads : \A v \in Stacks(t) : pc[v] # "gone", [Next]_vars
  PROVE  LocksHeld'
<1> USE DEF LocksHeld, Unlinking, Inserting, Shaping
<1>1. CASE QuietNext
  BY <1>1 DEF QuietNext, Quiet, setVars
<1>2. ASSUME NEW t \in OSThreads, NEW u \in UThreads,
             InsertPrev(t, u) \/ InsertLink(t, u) \/ InsertFirst(t, u) \/ InsertLast(t, u)
      PROVE  LocksHeld'
  <2>1. PICK d \in OSThreads : d = home[arg[u]]
    BY <1>2, Inserts
  <2>2. \/ lock[d] = NoUThread /\ lock'[d] = u
        \/ lock[d] = u /\ lock'[d] = u
        \/ lock[d] = u /\ pc'[u] = "desc"
    BY <1>2, <2>1 DEF InsertPrev, InsertLink, InsertFirst, InsertLast, At, Goes, Types
  <2>3. \A s \in OSThreads \ {d} : lock'[s] = lock[s]
    BY <1>2, <2>1 DEF InsertPrev, InsertLink, InsertFirst, InsertLast, Types
  <2>4. ASSUME NEW w \in UThreads \ {u}, NEW s, lock[s] = w, s \in OSThreads PROVE lock'[s] = w
    BY <2>2, <2>3, <2>4, ScanAssumption
  <2>5. \A w \in UThreads \ {u} : pc[w] \in Unlinking => home[w] \in OSThreads
    <3>1. \A w \in UThreads : pc[w] \in Unlinking => pc[w] \in Acting
      BY DEF Acting
    <3> QED BY <3>1 DEF RoleInv, Owners
  <2>6. \A w \in UThreads \ {u} : pc[w] \in Inserting => home[arg[w]] \in OSThreads
    BY Partner DEF Dealing, Preparing
  <2>7. /\ UNCHANGED <<home, arg>> /\ \A w \in UThreads \ {u} : pc'[w] = pc[w]
        /\ pc'[u] \in {"link", "head", "tail", "desc"}
    BY <1>2, Inserts
  <2>8. ASSUME NEW w \in UThreads \ {u}
        PROVE  /\ pc'[w] \in Unlinking => lock'[home[w]] = w
               /\ pc'[w] \in Inserting \ {"insert"} => lock'[home[arg[w]]] = w
    BY <2>4, <2>5, <2>6, <2>7
  <2> QED BY <2>1, <2>2, <2>7, <2>8
<1>3. ASSUME NEW t \in OSThreads, NEW u \in UThreads, Erasing(t, u) PROVE LocksHeld'
  <2>1. home[u] = t
    BY <1>3, Erases
  <2>2. \/ lock[t] = NoUThread /\ lock'[t] = u
        \/ lock[t] = u /\ lock'[t] = u
        \/ lock[t] = u /\ pc'[u] = "exit"
    BY <1>3, <2>1 DEF Erasing, EraseFirst, EraseLast, EraseNext, ErasePrev, EraseClear, At, Goes,
                      Types
  <2>3. \A s \in OSThreads \ {t} : lock'[s] = lock[s]
    BY <1>3 DEF Erasing, EraseFirst, EraseLast, EraseNext, ErasePrev, EraseClear, Types
  <2>4. ASSUME NEW w \in UThreads \ {u}, NEW s, lock[s] = w, s \in OSThreads PROVE lock'[s] = w
    BY <2>2, <2>3, <2>4, ScanAssumption
  <2>5. \A w \in UThreads \ {u} : pc[w] \in Unlinking => home[w] \in OSThreads
    <3>1. \A w \in UThreads : pc[w] \in Unlinking => pc[w] \in Acting
      BY DEF Acting
    <3> QED BY <3>1 DEF RoleInv, Owners
  <2>6. \A w \in UThreads \ {u} : pc[w] \in Inserting => home[arg[w]] \in OSThreads
    BY Partner DEF Dealing, Preparing
  <2>7. /\ UNCHANGED <<home, arg>> /\ \A w \in UThreads \ {u} : pc'[w] = pc[w]
        /\ pc'[u] \in Unlinking \union {"exit"}
    BY <1>3, Erases
  <2>8. ASSUME NEW w \in UThreads \ {u}
        PROVE  /\ pc'[w] \in Unlinking => lock'[home[w]] = w
               /\ pc'[w] \in Inserting \ {"insert"} => lock'[home[arg[w]]] = w
    BY <2>4, <2>5, <2>6, <2>7
  <2> QED BY <2>1, <2>2, <2>7, <2>8
<1>4. ASSUME NEW t \in OSThreads, NEW u \in UThreads, NEW v \in UThreads, NEW d \in OSThreads,
             Create(t, u, d, v) PROVE LocksHeld'
  <2>1. \A w \in UThreads : arg[w] \in UThreads \union {NoUThread}
    BY DEF Types, Link
  <2>2. \A w \in UThreads : pc[w] \in Inserting => arg[w] \in UThreads
    BY Partner DEF Dealing, Preparing
  <2> QED BY <1>4, <2>2, Creates
<1> QED BY <1>1, <1>2, <1>3, <1>4, QuietSteps

-----------------------------------------------------------------------------
(* The set of an OS thread is a list between any two writes of insert and     *)
(* erase.  Its links lead through the members of Linked in some order; only   *)
(* the links back, and the last, lag behind by a write.                       *)

\* The UThreads that the links of t's set lead to.
Linked(t) ==
  {u \in UThreads : /\ home[u] = t /\ pc[u] \notin {"prev", "clear", "exit", "gone"}
                    /\ \A w \in UThreads : arg[w] = u => pc[w] \notin {"insert", "link"}}

\* A link back is right, but for that to a stack which erase has just taken out.
PrevOk(t) ==
  \A x \in Linked(t) : next[x] # NoUThread =>
    \/ prev[next[x]] = x
    \/ \E p \in UThreads : /\ prev[next[x]] = p /\ home[p] = t /\ pc[p] = "prev"
                           /\ prev[p] = x /\ next[p] = next[x]

\* The last is the last, but for one that insert has just linked or that erase
\* is about to take out.
LastOk(t) ==
  /\ last[t] \in Linked(t)
  /\ \/ next[last[t]] = NoUThread
     \/ \E w \in UThreads : /\ pc[w] \in {"head", "tail"} /\ next[last[t]] = arg[w]
                            /\ next[arg[w]] = NoUThread
     \/ /\ next[last[t]] \in UThreads /\ pc[next[last[t]]] = "next"
        /\ next[next[last[t]]] = NoUThread

ListOk(t) ==
  first[t] = Main[t] /\ Chain(next, Main[t], Linked(t)) /\ PrevOk(t) /\ LastOk(t)

\* What insert and erase have done so far.
OpOk(w) ==
  /\ pc[w] = "next" => last[home[w]] # w
  /\ pc[w] = "prev" => /\ prev[w] \in Linked(home[w]) /\ next[prev[w]] = next[w]
                       /\ next[w] # NoUThread => prev[next[w]] = w
  /\ pc[w] \in {"insert", "link"} => next[arg[w]] = NoUThread
  /\ pc[w] = "link" => prev[arg[w]] = last[home[arg[w]]]
  /\ pc[w] \in {"head", "tail"} => /\ next[last[home[arg[w]]]] = arg[w]
                                   /\ next[arg[w]] = NoUThread

ListInv ==
  /\ \A t \in OSThreads : ListOk(t)
  /\ \A w \in UThreads : OpOk(w)
  /\ \A u \in UThreads : pc[u] = "none" => next[u] = NoUThread

\* A step that is not about t's set.
Same(t) ==
  /\ first'[t] = first[t] /\ last'[t] = last[t] /\ Linked(t)' = Linked(t)
  /\ \A x \in UThreads : home[x] = t => /\ home'[x] = t
                                        /\ next'[x] = next[x] /\ prev'[x] = prev[x]
  /\ \A x \in UThreads : home[x] = t /\ pc[x] \in {"next", "prev"} => pc'[x] = pc[x]
  /\ \A w \in UThreads : pc[w] \in {"head", "tail"} /\ home[arg[w]] = t =>
       pc'[w] \in {"head", "tail"} /\ arg'[w] = arg[w]

LEMMA ListFrame ==
  ASSUME Types, NEW t \in OSThreads, ListOk(t), Same(t)
  PROVE  ListOk(t)'
<1> USE ScanAssumption
<1>1. /\ \A x \in Linked(t) : x \in UThreads /\ home[x] = t /\ next'[x] = next[x]
                              /\ next[x] \in Linked(t) \union {NoUThread}
      /\ Linked(t)' = Linked(t)
  BY DEF Linked, Same, ListOk, Chain
<1>2. Chain(next, Main[t], Linked(t))'
  <2>1. \A w \in Linked(t) : next'[w] = next[w]
    BY <1>1
  <2>2. Chain(next', Main[t], Linked(t))
    BY <2>1, ChainFrame DEF ListOk
  <2> QED BY <1>1, <2>2
<1>3. PrevOk(t)'
  <2> SUFFICES ASSUME NEW x \in Linked(t), next[x] # NoUThread
               PROVE  \/ prev'[next[x]] = x
                      \/ \E p \in UThreads : /\ prev'[next[x]] = p /\ home'[p] = t /\ pc'[p] = "prev"
                                             /\ prev'[p] = x /\ next'[p] = next[x]
    BY <1>1 DEF PrevOk
  <2>1. prev'[next[x]] = prev[next[x]]
    BY <1>1 DEF Same
  <2>2. CASE prev[next[x]] = x
    BY <2>1, <2>2
  <2>3. CASE \E p \in UThreads : /\ prev[next[x]] = p /\ home[p] = t /\ pc[p] = "prev"
                                 /\ prev[p] = x /\ next[p] = next[x]
    BY <2>1, <2>3 DEF Same
  <2> QED BY <2>2, <2>3 DEF ListOk, PrevOk
<1>4. LastOk(t)'
  <2>1. last'[t] = last[t] /\ last[t] \in Linked(t) /\ next'[last[t]] = next[last[t]]
    BY <1>1 DEF ListOk, LastOk, Same
  <2>2. next[last[t]] \in Linked(t) \union {NoUThread}
    BY <1>1, <2>1
  <2>3. CASE next[last[t]] = NoUThread
    BY <1>1, <2>1, <2>3 DEF LastOk
  <2>4. CASE next[last[t]] # NoUThread
    <3>1. /\ next[last[t]] \in UThreads /\ home[next[last[t]]] = t
          /\ next'[next[last[t]]] = next[next[last[t]]]
      BY <1>1, <2>2, <2>4
    <3>2. CASE \E w \in UThreads : /\ pc[w] \in {"head", "tail"} /\ next[last[t]] = arg[w]
                                   /\ next[arg[w]] = NoUThread
      <4>1. PICK w \in UThreads : /\ pc[w] \in {"head", "tail"} /\ next[last[t]] = arg[w]
                                  /\ next[arg[w]] = NoUThread
        BY <3>2
      <4>2. pc'[w] \in {"head", "tail"} /\ arg'[w] = arg[w]
        BY <3>1, <4>1 DEF Same
      <4> QED BY <1>1, <2>1, <3>1, <4>1, <4>2 DEF LastOk
    <3>3. CASE pc[next[last[t]]] = "next" /\ next[next[last[t]]] = NoUThread
      <4>1. pc'[next[last[t]]] = "next"
        BY <3>1, <3>3 DEF Same
      <4> QED BY <1>1, <2>1, <3>1, <3>3, <4>1 DEF LastOk
    <3> QED BY <2>4, <3>2, <3>3 DEF ListOk, LastOk
  <2> QED BY <2>3, <2>4
<1>5. first'[t] = Main[t]
  BY DEF ListOk, Same
<1> QED BY <1>2, <1>3, <1>4, <1>5 DEF ListOk

\* An insert or erase that is waiting, or is about another set than the step.
LEMMA OpFrame ==
  ASSUME Types, \A t \in OSThreads : ListOk(t), NEW w \in UThreads, OpOk(w),
         pc'[w] = pc[w] \/ pc'[w] \notin Shaping, arg'[w] = arg[w] \/ pc'[w] \notin Inserting,
         pc[w] \in Unlinking => home'[w] = home[w] /\ home[w] \in OSThreads /\ Same(home[w]),
         pc[w] \in Inserting => /\ arg[w] \in UThreads /\ home'[arg[w]] = home[arg[w]]
                                /\ home[arg[w]] \in OSThreads
                                /\ next'[arg[w]] = next[arg[w]],
         pc[w] \in Inserting \ {"insert"} => Same(home[arg[w]])
  PROVE  OpOk(w)'
<1> USE ScanAssumption
<1>1. CASE pc'[w] \notin {"next", "prev"} \union Inserting
  BY <1>1 DEF OpOk, Inserting
<1>2. CASE pc'[w] = "next"
  BY <1>2 DEF OpOk, Shaping, Unlinking, Inserting, Same
<1>3. CASE pc'[w] = "prev"
  <2>1. /\ pc[w] = "prev" /\ home'[w] = home[w] /\ home[w] \in OSThreads /\ Same(home[w])
        /\ ListOk(home[w])
    BY <1>3 DEF Shaping, Unlinking
  <2>2. prev'[w] = prev[w] /\ next'[w] = next[w] /\ Linked(home[w])' = Linked(home[w])
    BY <2>1 DEF Same
  <2>3. /\ prev[w] \in Linked(home[w]) /\ next[prev[w]] = next[w]
        /\ next[w] # NoUThread => prev[next[w]] = w
    BY <2>1 DEF OpOk
  <2>4. next'[prev[w]] = next[prev[w]]
    BY <2>1, <2>3 DEF Same, Linked
  <2>5. ASSUME next[w] # NoUThread PROVE prev'[next[w]] = prev[next[w]]
    <3>1. next[w] \in Linked(home[w])
      BY <2>1, <2>3, <2>5 DEF ListOk, Chain
    <3> QED BY <2>1, <3>1 DEF Same, Linked
  <2>6. (prev[w] \in Linked(home[w]))'
    BY <2>1, <2>2, <2>3
  <2> QED BY <1>3, <2>2, <2>3, <2>4, <2>5, <2>6 DEF OpOk, Inserting
<1>4. CASE pc'[w] = "insert"
  BY <1>4 DEF OpOk, Shaping, Inserting
<1>5. CASE pc'[w] = "link"
  BY <1>5 DEF OpOk, Shaping, Inserting, Same
<1>6. CASE pc'[w] \in {"head", "tail"}
  <2>1. PICK d \in OSThreads : d = home[arg[w]]
    BY <1>6 DEF Shaping, Inserting
  <2>2. /\ pc'[w] = pc[w] /\ arg'[w] = arg[w] /\ Same(d) /\ ListOk(d) /\ arg[w] \in UThreads
        /\ home'[arg[w]] = d /\ last'[d] = last[d]
    BY <1>6, <2>1 DEF Shaping, Inserting, Same
  <2>3. last[d] \in UThreads /\ home[last[d]] = d
    BY <2>2 DEF ListOk, LastOk, Linked
  <2>4. next'[last[d]] = next[last[d]] /\ next'[arg[w]] = next[arg[w]]
    BY <2>1, <2>2, <2>3 DEF Same
  <2> QED BY <1>6, <2>1, <2>2, <2>4 DEF OpOk
<1> QED BY <1>1, <1>2, <1>3, <1>4, <1>5, <1>6 DEF Inserting

\* Where those are that are in insert or erase.
LEMMA Placed ==
  ASSUME Types, RoleInv, NEW w \in UThreads
  PROVE  /\ pc[w] \in Unlinking => home[w] \in OSThreads
         /\ pc[w] \in Inserting => /\ arg[w] \in UThreads /\ home[arg[w]] \in OSThreads
                                   /\ pc[arg[w]] = "new"
<1>1. ASSUME pc[w] \in Unlinking PROVE home[w] \in OSThreads
  BY <1>1 DEF RoleInv, Owners, Acting, Unlinking
<1>2. ASSUME pc[w] \in Inserting
      PROVE  arg[w] \in UThreads /\ home[arg[w]] \in OSThreads /\ pc[arg[w]] = "new"
  BY <1>2, Partner DEF Dealing, Preparing, Deal
<1> QED BY <1>1, <1>2

LEMMA QuietList ==
  ASSUME Types, RoleInv, ListInv, QuietNext
  PROVE  ListInv'
<1> USE DEF Shaping, Inserting, Unlinking
<1>1. UNCHANGED <<first, last, next, prev, home>> /\ \A x \in UThreads : Quiet(x)
  BY DEF QuietNext, setVars
<1>2. \A t \in OSThreads : Linked(t)' = Linked(t)
  <2>1. \A w \in UThreads : pc[w] \in {"insert", "link"} \/ pc'[w] \in {"insert", "link"} =>
          pc'[w] = pc[w] /\ arg'[w] = arg[w]
    BY <1>1 DEF Quiet
  <2>2. \A x \in UThreads : pc'[x] \in {"prev", "clear", "exit", "gone"} <=>
                              pc[x] \in {"prev", "clear", "exit", "gone"}
    BY <1>1 DEF Quiet
  <2> QED BY <1>1, <2>1, <2>2 DEF Linked
<1>3. \A t \in OSThreads : Same(t)
  BY <1>1, <1>2 DEF Same, Quiet
<1>4. \A t \in OSThreads : ListOk(t)'
  BY <1>3, ListFrame DEF ListInv
<1>5. ASSUME NEW w \in UThreads PROVE OpOk(w)'
  <2>1. CASE pc[w] \notin Inserting \union Unlinking
    BY <1>1, <2>1 DEF Quiet, OpOk
  <2>2. CASE pc[w] \in Inserting \union Unlinking
    <3>1. pc'[w] = pc[w] /\ arg'[w] = arg[w]
      BY <1>1, <2>2 DEF Quiet
    <3> HIDE DEF Shaping, Inserting, Unlinking
    <3> QED BY <1>1, <1>3, <3>1, Placed, OpFrame DEF ListInv
  <2> QED BY <2>1, <2>2
<1>6. \A u \in UThreads : pc'[u] = "none" => next'[u] = NoUThread
  BY <1>1 DEF Quiet, ListInv
<1> QED BY <1>4, <1>5, <1>6 DEF ListInv

LEMMA CreateList ==
  ASSUME Types, RoleInv, ListInv, NEW t \in OSThreads, NEW u \in UThreads, NEW v \in UThreads,
         NEW d \in OSThreads, Create(t, u, d, v)
  PROVE  ListInv'
<1> USE ScanAssumption
<1>1. /\ UNCHANGED <<first, last, next, prev, lock>>
      /\ pc[u] = "code" /\ pc[v] = "none" /\ pc'[u] = "insert" /\ pc'[v] = "new" /\ u # v
      /\ \A x \in UThreads \ {u, v} : pc'[x] = pc[x]
      /\ \A x \in UThreads \ {u} : arg'[x] = arg[x]
      /\ \A x \in UThreads \ {v} : home'[x] = home[x]
      /\ arg[u] = NoUThread /\ arg'[u] = v /\ home[v] = NoOSThread /\ home'[v] = d
      /\ \A x \in UThreads : arg[x] # v
  BY Creates
<1>2. ASSUME NEW s \in OSThreads PROVE Linked(s)' = Linked(s)
  <2>1. v \notin Linked(s) /\ v \notin Linked(s)'
    BY <1>1 DEF Linked
  <2>2. ASSUME NEW x \in UThreads \ {v} PROVE x \in Linked(s)' <=> x \in Linked(s)
    <3>1. home'[x] = home[x]
      BY <1>1
    <3>2. pc'[x] \in {"prev", "clear", "exit", "gone"} <=> pc[x] \in {"prev", "clear", "exit", "gone"}
      BY <1>1
    <3>3. \A w \in UThreads : arg'[w] = x /\ pc'[w] \in {"insert", "link"} <=>
                              arg[w] = x /\ pc[w] \in {"insert", "link"}
      BY <1>1
    <3> QED BY <3>1, <3>2, <3>3 DEF Linked
  <2> QED BY <2>1, <2>2 DEF Linked
<1>3. ASSUME NEW s \in OSThreads PROVE Same(s)
  <2>1. \A w \in UThreads : pc[w] \in {"head", "tail"} => pc'[w] = pc[w] /\ arg'[w] = arg[w]
    BY <1>1
  <2> QED BY <1>1, <1>2, <2>1 DEF Same
<1>4. \A s \in OSThreads : ListOk(s)'
  BY <1>3, ListFrame DEF ListInv
<1>5. ASSUME NEW w \in UThreads PROVE OpOk(w)'
  <2>1. CASE w = u
    BY <1>1, <2>1 DEF OpOk, ListInv
  <2>2. CASE w = v
    BY <1>1, <2>2 DEF OpOk
  <2>3. CASE w # u /\ w # v
    <3>1. pc'[w] = pc[w] /\ arg'[w] = arg[w] /\ home'[w] = home[w]
      BY <1>1, <2>3
    <3>2. pc[w] \in Inserting => arg[w] # v /\ home'[arg[w]] = home[arg[w]]
      BY <1>1, Placed
    <3> QED BY <1>1, <1>3, <3>1, <3>2, Placed, OpFrame DEF ListInv
  <2> QED BY <2>1, <2>2, <2>3
<1>6. \A x \in UThreads : pc'[x] = "none" => next'[x] = NoUThread
  BY <1>1 DEF ListInv
<1> QED BY <1>4, <1>5, <1>6 DEF ListInv

\* A step of u in insert or erase, which has the lock of d or takes it.
Shapes(u, d) ==
  /\ lock[d] \in {NoUThread, u} /\ UNCHANGED <<home, arg>>
  /\ \A x \in UThreads \ {u} : pc'[x] = pc[x]
  /\ \/ /\ pc[u] \in Inserting /\ home[arg[u]] = d
        /\ pc'[u] \in (Inserting \ {"insert"}) \union {"desc"}
     \/ /\ pc[u] \in Unlinking \union {"code"} /\ home[u] = d
        /\ pc'[u] \in Unlinking \union {"exit"}

LEMMA Elsewhere ==
  ASSUME Types, RoleInv, LocksHeld, ListInv, NEW d \in OSThreads, NEW u \in UThreads,
         Shapes(u, d),
         \A s \in OSThreads \ {d} : first'[s] = first[s] /\ last'[s] = last[s],
         \A x \in UThreads : home[x] # d => next'[x] = next[x] /\ prev'[x] = prev[x],
         \A w \in UThreads \ {u} : pc[w] = "insert" => next'[arg[w]] = next[arg[w]],
         ListOk(d)', OpOk(u)'
  PROVE  ListInv'
<1> USE ScanAssumption
<1>1. \A w \in UThreads \ {u} : /\ pc[w] \in Unlinking => home[w] # d
                                /\ pc[w] \in Inserting \ {"insert"} => home[arg[w]] # d
  BY DEF LocksHeld, Shapes
<1>2. ASSUME NEW s \in OSThreads \ {d} PROVE Same(s)
  <2>1. UNCHANGED <<home, arg>> /\ \A x \in UThreads \ {u} : pc'[x] = pc[x]
    BY DEF Shapes
  <2>2. CASE pc[u] \in Inserting
    <3>1. /\ home[arg[u]] = d /\ pc[u] \notin {"prev", "next", "clear", "exit", "gone"}
          /\ pc'[u] \notin {"prev", "next", "clear", "exit", "gone"}
      BY <2>2 DEF Shapes, Inserting, Unlinking
    <3>2. \A w \in UThreads : home[arg[w]] = s => pc'[w] = pc[w]
      BY <2>1, <3>1
    <3>3. \A x \in UThreads : home[x] = s => \A w \in UThreads : arg[w] = x => pc'[w] = pc[w]
      BY <3>2
    <3>4. Linked(s)' = Linked(s)
      BY <2>1, <3>1, <3>3 DEF Linked
    <3> QED BY <2>1, <3>1, <3>2, <3>4 DEF Same
  <2>3. CASE pc[u] \notin Inserting
    <3>1. home[u] = d /\ pc'[u] \notin Inserting /\ pc[u] \notin Inserting
      BY <2>3 DEF Shapes, Inserting, Unlinking
    <3>2. \A w \in UThreads : pc[w] \in Inserting \/ pc'[w] \in Inserting => pc'[w] = pc[w]
      BY <2>1, <3>1
    <3>3. \A x \in UThreads : home[x] = s => pc'[x] = pc[x]
      BY <2>1, <3>1
    <3>4. Linked(s)' = Linked(s)
      BY <2>1, <3>2, <3>3 DEF Linked, Inserting
    <3> QED BY <2>1, <3>2, <3>3, <3>4 DEF Same, Inserting
  <2> QED BY <2>2, <2>3
<1>3. \A s \in OSThreads : ListOk(s)'
  BY <1>2, ListFrame DEF ListInv
<1>4. ASSUME NEW w \in UThreads \ {u} PROVE OpOk(w)'
  <2>1. pc'[w] = pc[w] /\ UNCHANGED <<home, arg>>
    BY DEF Shapes
  <2>2. pc[w] \in Unlinking => home[w] \in OSThreads /\ Same(home[w])
    BY <1>1, <1>2, Placed
  <2>3. pc[w] \in Inserting \ {"insert"} => Same(home[arg[w]])
    BY <1>1, <1>2, Placed
  <2>4. pc[w] \in Inserting => next'[arg[w]] = next[arg[w]]
    BY <1>1, Placed
  <2> QED BY <2>1, <2>2, <2>3, <2>4, Placed, OpFrame DEF ListInv
<1>5. ASSUME NEW x \in UThreads, pc'[x] = "none" PROVE next'[x] = NoUThread
  <2>1. pc[x] = "none"
    BY <1>5 DEF Shapes, Inserting, Unlinking
  <2>2. home[x] # d
    BY <2>1 DEF RoleInv, Owners
  <2> QED BY <2>1, <2>2 DEF ListInv
<1> QED BY <1>3, <1>4, <1>5 DEF ListInv

\* insert, write by write.
LEMMA InsertPrevList ==
  ASSUME Types, RoleInv, LocksHeld, ListInv, NEW t \in OSThreads, NEW u \in UThreads,
         InsertPrev(t, u)
  PROVE  ListInv'
<1> USE ScanAssumption DEF Inserting
<1>1. PICK v \in UThreads, d \in OSThreads : v = arg[u] /\ d = home[v]
  BY Inserts
<1>0. /\ v # u /\ pc[v] = "new" /\ UNCHANGED <<home, arg>>
      /\ \A x \in UThreads \ {u} : pc'[x] = pc[x] /\ arg[x] # v
  BY <1>1, Inserts
<1>2. /\ v # u /\ pc[v] = "new" /\ pc'[v] = "new" /\ UNCHANGED <<home, arg, first, last, next>>
      /\ \A x \in UThreads \ {u} : pc'[x] = pc[x] /\ arg[x] # v
      /\ pc[u] = "insert" /\ pc'[u] = "link" /\ lock[d] = NoUThread
      /\ prev' = [prev EXCEPT ![v] = last[d]]
  BY <1>0, <1>1 DEF InsertPrev, Goes, At, Types
<1>3. v \notin Linked(d) /\ Linked(d)' = Linked(d)
  BY <1>1, <1>2 DEF Linked
<1>4. ListOk(d) /\ \A x \in Linked(d) : next[x] \in Linked(d) \union {NoUThread}
  BY DEF ListInv, ListOk, Chain
<1>5. PrevOk(d)'
  <2> SUFFICES ASSUME NEW x \in Linked(d), next[x] # NoUThread
               PROVE  \/ prev'[next[x]] = x
                      \/ \E p \in UThreads : /\ prev'[next[x]] = p /\ home[p] = d /\ pc'[p] = "prev"
                                             /\ prev'[p] = x /\ next[p] = next[x]
    BY <1>2, <1>3 DEF PrevOk
  <2>1. prev'[next[x]] = prev[next[x]]
    BY <1>2, <1>3, <1>4 DEF Types, Link
  <2>2. \A p \in UThreads : pc[p] = "prev" => prev'[p] = prev[p] /\ pc'[p] = "prev"
    BY <1>2 DEF Types, Link
  <2> QED BY <1>4, <2>1, <2>2 DEF ListOk, PrevOk
<1>6. LastOk(d)'
  <2>1. last[d] \in Linked(d)
    BY <1>4 DEF ListOk, LastOk
  <2>2. \A w \in UThreads : pc[w] \in {"head", "tail"} => pc'[w] = pc[w]
    BY <1>2
  <2>3. \A w \in UThreads : pc[w] = "next" => pc'[w] = pc[w]
    BY <1>2
  <2> QED BY <1>2, <1>3, <1>4, <2>1, <2>2, <2>3 DEF ListOk, LastOk
<1>7. ListOk(d)'
  <2>1. Chain(next, Main[d], Linked(d))'
    BY <1>2, <1>3, <1>4 DEF ListOk
  <2> QED BY <1>2, <1>4, <1>5, <1>6, <2>1 DEF ListOk
<1>8. OpOk(u)'
  <2>1. prev'[v] = last[d] /\ next[v] = NoUThread
    BY <1>1, <1>2 DEF Types, Link, ListInv, OpOk
  <2> QED BY <1>1, <1>2, <2>1 DEF OpOk
<1>9. Shapes(u, d)
  BY <1>1, <1>2 DEF Shapes
<1>10. \A x \in UThreads : home[x] # d => prev'[x] = prev[x]
  BY <1>1, <1>2 DEF Types, Link
<1> QED BY <1>2, <1>7, <1>8, <1>9, <1>10, Elsewhere

LEMMA InsertLinkList ==
  ASSUME Types, RoleInv, LocksHeld, ListInv, NEW t \in OSThreads, NEW u \in UThreads,
         InsertLink(t, u)
  PROVE  ListInv'
<1> USE ScanAssumption
<1>1. PICK v \in UThreads, d \in OSThreads : v = arg[u] /\ d = home[v]
  BY Inserts
<1>0. /\ v # u /\ pc[v] = "new" /\ UNCHANGED <<home, arg>>
      /\ \A x \in UThreads \ {u} : pc'[x] = pc[x] /\ arg[x] # v
  BY <1>1, Inserts
<1>2. /\ v # u /\ pc[v] = "new" /\ pc'[v] = "new" /\ UNCHANGED <<home, arg, first, last, prev>>
      /\ \A x \in UThreads \ {u} : pc'[x] = pc[x] /\ arg[x] # v
      /\ pc[u] = "link" /\ pc'[u] = "head"
  BY <1>0, <1>1 DEF InsertLink, Goes, At, Types
<1>3. lock[d] = u
  BY <1>1, <1>2 DEF LocksHeld, Inserting
<1>4. \A w \in UThreads \ {u} : /\ pc[w] \in Unlinking => home[w] # d
                                /\ pc[w] \in {"link", "head", "tail"} => home[arg[w]] # d
  BY <1>3 DEF LocksHeld, Inserting
<1>5. PICK l \in Linked(d) : l = last[d]
  BY DEF ListInv, ListOk, LastOk
<1>6. ListOk(d) /\ \A x \in Linked(d) : next[x] \in Linked(d) \union {NoUThread}
  BY DEF ListInv, ListOk, Chain
<1>7. next[l] = NoUThread
  <2>1. ASSUME next[l] # NoUThread PROVE FALSE
    <3>1. next[l] \in UThreads /\ home[next[l]] = d
      BY <1>6, <2>1 DEF Linked
    <3>2. \A w \in UThreads : pc[w] \in {"head", "tail"} => next[l] # arg[w]
      BY <1>2, <1>4, <3>1
    <3>3. pc[next[l]] # "next"
      BY <1>2, <1>4, <3>1 DEF Unlinking
    <3> QED BY <1>5, <1>6, <2>1, <3>2, <3>3 DEF ListOk, LastOk
  <2> QED BY <2>1
<1>8. v \notin Linked(d) /\ Linked(d)' = Linked(d) \union {v}
  <2>1. v \notin Linked(d) /\ v \in Linked(d)'
    BY <1>1, <1>2 DEF Linked
  <2>2. ASSUME NEW x \in UThreads \ {v} PROVE x \in Linked(d)' <=> x \in Linked(d)
    BY <1>1, <1>2 DEF Linked
  <2> QED BY <2>1, <2>2 DEF Linked
<1>9. /\ next'[l] = v /\ next'[v] = NoUThread /\ \A x \in UThreads \ {l} : next'[x] = next[x]
  <2>1. next' = [next EXCEPT ![l] = v] /\ l \in UThreads /\ l # v
    BY <1>1, <1>5, <1>8 DEF InsertLink, Linked
  <2>2. next[v] = NoUThread /\ prev[v] = l
    BY <1>1, <1>2, <1>5 DEF ListInv, OpOk
  <2> QED BY <2>1, <2>2 DEF Types, Link
<1>10. next[v] = NoUThread /\ prev[v] = l
  BY <1>1, <1>2, <1>5 DEF ListInv, OpOk
<1>11. Chain(next, Main[d], Linked(d))'
  <2>1. Linked(d) \in SUBSET UThreads
    BY DEF Linked
  <2>2. \A w \in Linked(d) \ {l} : next'[w] = next[w]
    BY <1>9, <2>1
  <2>3. Chain(next', Main[d], Linked(d) \union {v})
    BY <1>6, <1>7, <1>8, <1>9, <2>1, <2>2, ChainAppend DEF ListOk
  <2> QED BY <1>8, <2>3
<1>12. PrevOk(d)'
  <2> SUFFICES ASSUME NEW x \in Linked(d) \union {v}, next'[x] # NoUThread
               PROVE  prev[next'[x]] = x
    BY <1>2, <1>8 DEF PrevOk
  <2>1. CASE x = l
    BY <1>9, <1>10, <2>1
  <2>2. CASE x # l
    <3>1. x \in Linked(d) /\ next'[x] = next[x]
      BY <1>9, <2>2 DEF Linked
    <3>2. \A p \in UThreads : home[p] = d => pc[p] # "prev"
      BY <1>2, <1>4 DEF Unlinking
    <3> QED BY <1>6, <3>1, <3>2 DEF ListOk, PrevOk
  <2> QED BY <2>1, <2>2
<1>13. LastOk(d)'
  BY <1>1, <1>2, <1>5, <1>8, <1>9 DEF LastOk
<1>14. ListOk(d)'
  BY <1>2, <1>6, <1>11, <1>12, <1>13 DEF ListOk
<1>15. OpOk(u)'
  BY <1>1, <1>2, <1>5, <1>9 DEF OpOk
<1>16. Shapes(u, d)
  BY <1>1, <1>2, <1>3 DEF Shapes, Inserting
<1>17. \A x \in UThreads : home[x] # d => next'[x] = next[x]
  BY <1>9, <1>5 DEF Linked
<1>18. \A w \in UThreads \ {u} : pc[w] = "insert" => next'[arg[w]] = next[arg[w]]
  <2>1. \A w \in UThreads : pc[w] = "insert" => arg[w] \in UThreads \ {l}
    BY <1>5, Placed DEF Linked, Inserting
  <2> QED BY <1>9, <2>1
<1> QED BY <1>2, <1>14, <1>15, <1>16, <1>17, <1>18, Elsewhere

LEMMA InsertFirstList ==
  ASSUME Types, RoleInv, LocksHeld, ListInv, NEW t \in OSThreads, NEW u \in UThreads,
         InsertFirst(t, u)
  PROVE  ListInv'
<1> USE ScanAssumption
<1>1. PICK v \in UThreads, d \in OSThreads : v = arg[u] /\ d = home[v]
  BY Inserts
<1>2. /\ v # u /\ UNCHANGED <<home, arg, last, next, prev>>
      /\ \A x \in UThreads \ {u} : pc'[x] = pc[x]
      /\ pc[u] = "head" /\ pc'[u] = "tail"
  BY <1>1, Inserts DEF InsertFirst, Goes, At, Types
<1>3. UNCHANGED first
  <2>1. \A s \in OSThreads : first[s] # NoUThread
    BY DEF ListInv, ListOk
  <2> QED BY <1>1, <2>1 DEF InsertFirst, Types
<1>4. lock[d] = u
  BY <1>1, <1>2 DEF LocksHeld, Inserting
<1>5. Same(d)
  BY <1>2, <1>3 DEF Same, Linked
<1>6. ListOk(d)'
  BY <1>5, ListFrame DEF ListInv
<1>7. OpOk(u)'
  BY <1>1, <1>2 DEF ListInv, OpOk
<1>8. Shapes(u, d)
  BY <1>1, <1>2, <1>4 DEF Shapes, Inserting
<1> QED BY <1>2, <1>3, <1>6, <1>7, <1>8, Elsewhere

LEMMA InsertLastList ==
  ASSUME Types, RoleInv, LocksHeld, ListInv, NEW t \in OSThreads, NEW u \in UThreads,
         InsertLast(t, u)
  PROVE  ListInv'
<1> USE ScanAssumption
<1>1. PICK v \in UThreads, d \in OSThreads : v = arg[u] /\ d = home[v]
  BY Inserts
<1>0. /\ v # u /\ pc[v] = "new" /\ UNCHANGED <<home, arg>>
      /\ \A x \in UThreads \ {u} : pc'[x] = pc[x] /\ arg[x] # v
  BY <1>1, Inserts
<1>2. /\ v # u /\ pc[v] = "new" /\ pc'[v] = "new" /\ UNCHANGED <<home, arg, first, next, prev>>
      /\ \A x \in UThreads \ {u} : pc'[x] = pc[x] /\ arg[x] # v
      /\ pc[u] = "tail" /\ pc'[u] = "desc" /\ last' = [last EXCEPT ![d] = v]
  BY <1>0, <1>1 DEF InsertLast, Goes, At, Types
<1>3. lock[d] = u
  BY <1>1, <1>2 DEF LocksHeld, Inserting
<1>4. Linked(d)' = Linked(d) /\ v \in Linked(d)
  BY <1>1, <1>2 DEF Linked
<1>5. last'[d] = v /\ next[v] = NoUThread
  BY <1>1, <1>2 DEF Types, ListInv, OpOk
<1>6. LastOk(d)'
  BY <1>2, <1>4, <1>5 DEF LastOk
<1>7. PrevOk(d)'
  <2>1. \A p \in UThreads : pc[p] = "prev" => pc'[p] = "prev"
    BY <1>2
  <2>2. PrevOk(d)
    BY DEF ListInv, ListOk
  <2> QED BY <1>2, <1>4, <2>1, <2>2 DEF PrevOk
<1>8. Chain(next, Main[d], Linked(d))' /\ first'[d] = Main[d]
  BY <1>2, <1>4 DEF ListInv, ListOk
<1>9. ListOk(d)'
  BY <1>6, <1>7, <1>8 DEF ListOk
<1>10. OpOk(u)'
  BY <1>2 DEF OpOk
<1>11. Shapes(u, d)
  BY <1>1, <1>2, <1>3 DEF Shapes, Inserting
<1>12. \A s \in OSThreads \ {d} : last'[s] = last[s]
  BY <1>2 DEF Types
<1> QED BY <1>2, <1>9, <1>10, <1>11, <1>12, Elsewhere

\* erase, write by write.  u is in the set of t, and no other is in erase or has
\* begun to insert there.
LEMMA InErase ==
  ASSUME Types, RoleInv, MainStays, LocksHeld, ListInv, NEW t \in OSThreads, NEW u \in UThreads,
         Erasing(t, u)
  PROVE  /\ lock[t] \in {NoUThread, u} /\ Shapes(u, t) /\ ListOk(t)
         /\ \A w \in UThreads \ {u} : /\ pc[w] \in Unlinking => home[w] # t
                                      /\ pc[w] \in {"link", "head", "tail"} => home[arg[w]] # t
         /\ \A x \in Linked(t) : x \in UThreads /\ home[x] = t
                                 /\ next[x] \in Linked(t) \union {NoUThread}
         /\ pc[u] \notin {"prev", "clear"} => u \in Linked(t)
         /\ (u \in Linked(t))' <=> pc'[u] \in {"last", "next"}
         /\ Linked(t)' \ {u} = Linked(t) \ {u}
<1>1. /\ UNCHANGED <<home, arg>> /\ pc[u] \in Unlinking \union {"code"}
      /\ pc'[u] \in Unlinking \union {"exit"}
      /\ \A x \in UThreads \ {u} : pc'[x] = pc[x]
      /\ home[u] = t /\ \A x \in UThreads : arg[x] # u
  BY Erases
<1>2. lock[t] \in {NoUThread, u}
  <2>1. CASE pc[u] = "code"
    BY <1>1, <2>1 DEF Erasing, EraseFirst, EraseLast, EraseNext, ErasePrev, EraseClear, At, Goes
  <2>2. CASE pc[u] \in Unlinking
    BY <1>1, <2>2 DEF LocksHeld
  <2> QED BY <1>1, <2>1, <2>2
<1>3. \A w \in UThreads \ {u} : /\ pc[w] \in Unlinking => home[w] # t
                                /\ pc[w] \in {"link", "head", "tail"} => home[arg[w]] # t
  BY <1>2, ScanAssumption DEF LocksHeld, Inserting
<1>4. Shapes(u, t)
  BY <1>1, <1>2 DEF Shapes
<1>5. ListOk(t) /\ \A x \in Linked(t) : x \in UThreads /\ home[x] = t
                                        /\ next[x] \in Linked(t) \union {NoUThread}
  BY DEF ListInv, ListOk, Chain, Linked
<1>6. pc[u] \notin {"prev", "clear"} => u \in Linked(t)
  BY <1>1 DEF Linked, Unlinking
<1>7. (u \in Linked(t))' <=> pc'[u] \in {"last", "next"}
  BY <1>1 DEF Linked, Unlinking
<1>8. ASSUME NEW x \in UThreads \ {u} PROVE x \in Linked(t)' <=> x \in Linked(t)
  <2>1. \A w \in UThreads : pc[w] \in {"insert", "link"} <=> pc'[w] \in {"insert", "link"}
    BY <1>1 DEF Unlinking
  <2> QED BY <1>1, <2>1 DEF Linked
<1>9. Linked(t)' \ {u} = Linked(t) \ {u}
  BY <1>8 DEF Linked
<1> QED BY <1>2, <1>3, <1>4, <1>5, <1>6, <1>7, <1>9

\* Who is behind u: the link back is right while u is the only one in erase.
LEMMA BehindErased ==
  ASSUME Types, RoleInv, MainStays, LocksHeld, ListInv, NEW t \in OSThreads, NEW u \in UThreads,
         Erasing(t, u), pc[u] \in {"last", "next"}
  PROVE  /\ prev[u] \in Linked(t) /\ next[prev[u]] = u /\ prev[u] # u
         /\ \A q \in Linked(t) : next[q] = u => q = prev[u]
         /\ \A x \in Linked(t) : next[x] # NoUThread => prev[next[x]] = x
<1> USE ScanAssumption
<1>1. /\ u \in Linked(t) /\ ListOk(t)
      /\ \A w \in UThreads \ {u} : pc[w] \in Unlinking => home[w] # t
  BY InErase
<1>2. \A x \in Linked(t) : next[x] # NoUThread => prev[next[x]] = x
  BY <1>1 DEF ListOk, PrevOk, Unlinking
<1>3. u # Main[t]
  BY Erases
<1>4. PICK p \in Linked(t) : next[p] = u
  BY <1>1, <1>3, ChainBefore DEF ListOk
<1>5. u # NoUThread
  OBVIOUS
<1>6. prev[u] = p /\ \A q \in Linked(t) : next[q] = u => q = p
  BY <1>2, <1>4, <1>5
<1>7. p # u
  BY <1>1, <1>4, NoLoop DEF ListOk
<1> QED BY <1>2, <1>4, <1>6, <1>7

LEMMA EraseFirstList ==
  ASSUME Types, RoleInv, MainStays, LocksHeld, ListInv, NEW t \in OSThreads, NEW u \in UThreads,
         EraseFirst(t, u)
  PROVE  ListInv'
<1>0. Erasing(t, u)
  BY DEF Erasing
<1>1. /\ UNCHANGED <<home, arg, last, next, prev>> /\ pc[u] = "code" /\ pc'[u] = "last"
      /\ \A x \in UThreads \ {u} : pc'[x] = pc[x]
  <2>1. UNCHANGED <<home, arg>> /\ \A x \in UThreads \ {u} : pc'[x] = pc[x]
    BY <1>0, Erases
  <2> QED BY <2>1 DEF EraseFirst, Goes, At, Types
<1>2. first[t] # u
  BY <1>0, Erases DEF ListInv, ListOk
<1>3. UNCHANGED first
  BY <1>2 DEF EraseFirst, Types
<1>4. Shapes(u, t) /\ Linked(t)' = Linked(t)
  BY <1>0, <1>1, InErase
<1>5. Same(t)
  BY <1>1, <1>3, <1>4 DEF Same
<1>6. ListOk(t)'
  BY <1>5, ListFrame DEF ListInv
<1>7. OpOk(u)'
  BY <1>1 DEF OpOk
<1> QED BY <1>1, <1>3, <1>4, <1>6, <1>7, Elsewhere

LEMMA EraseLastList ==
  ASSUME Types, RoleInv, MainStays, LocksHeld, ListInv, NEW t \in OSThreads, NEW u \in UThreads,
         EraseLast(t, u)
  PROVE  ListInv'
<1> USE ScanAssumption
<1>0. Erasing(t, u)
  BY DEF Erasing
<1>1. /\ UNCHANGED <<home, arg, first, next, prev>> /\ pc[u] = "last" /\ pc'[u] = "next"
      /\ \A x \in UThreads \ {u} : pc'[x] = pc[x]
      /\ home[u] = t
  <2>1. UNCHANGED <<home, arg>> /\ home[u] = t /\ \A x \in UThreads \ {u} : pc'[x] = pc[x]
    BY <1>0, Erases
  <2> QED BY <2>1 DEF EraseLast, Goes, At, Types
<1>2. last' = [last EXCEPT ![t] = IF @ = u THEN prev[u] ELSE @]
  BY DEF EraseLast
<1>3. /\ Shapes(u, t) /\ Linked(t)' = Linked(t) /\ u \in Linked(t) /\ ListOk(t)
      /\ \A w \in UThreads \ {u} : /\ pc[w] \in Unlinking => home[w] # t
                                   /\ pc[w] \in {"link", "head", "tail"} => home[arg[w]] # t
      /\ \A x \in Linked(t) : x \in UThreads /\ home[x] = t
                              /\ next[x] \in Linked(t) \union {NoUThread}
  <2>1. Linked(t)' \ {u} = Linked(t) \ {u} /\ u \in Linked(t) /\ u \in Linked(t)'
    BY <1>0, <1>1, InErase
  <2>2. Linked(t)' = Linked(t)
    BY <2>1
  <2> QED BY <1>0, <2>1, <2>2, InErase
<1>4. /\ prev[u] \in Linked(t) /\ next[prev[u]] = u /\ prev[u] # u
      /\ \A x \in Linked(t) : next[x] # NoUThread => prev[next[x]] = x
  BY <1>0, <1>1, BehindErased
<1>5. CASE last[t] = u
  <2>1. last'[t] = prev[u]
    BY <1>2, <1>5 DEF Types
  <2>2. next[u] = NoUThread
    <3>1. ASSUME next[u] # NoUThread PROVE FALSE
      <4>1. next[u] \in UThreads /\ home[next[u]] = t
        BY <1>3, <3>1
      <4>2. \A w \in UThreads : pc[w] \in {"head", "tail"} => next[u] # arg[w]
        BY <1>1, <1>3, <4>1
      <4>3. pc[next[u]] # "next"
        BY <1>1, <1>3, <4>1 DEF Unlinking
      <4> QED BY <1>3, <1>5, <3>1, <4>2, <4>3 DEF ListOk, LastOk
    <3> QED BY <3>1
  <2>3. LastOk(t)'
    BY <1>1, <1>3, <1>4, <2>1, <2>2 DEF LastOk
  <2>4. PrevOk(t)'
    BY <1>1, <1>3, <1>4 DEF PrevOk
  <2>5. ListOk(t)'
    BY <1>1, <1>3, <2>3, <2>4 DEF ListOk
  <2>6. OpOk(u)'
    BY <1>1, <1>4, <2>1 DEF OpOk, Inserting
  <2>7. \A s \in OSThreads \ {t} : last'[s] = last[s]
    BY <1>2 DEF Types
  <2> QED BY <1>1, <1>3, <2>5, <2>6, <2>7, Elsewhere
<1>6. CASE last[t] # u
  <2>1. UNCHANGED last
    BY <1>2, <1>6 DEF Types
  <2>2. Same(t)
    BY <1>1, <1>3, <2>1 DEF Same
  <2>3. ListOk(t)'
    BY <1>3, <2>2, ListFrame
  <2>4. OpOk(u)'
    BY <1>1, <1>6, <2>1 DEF OpOk, Inserting
  <2> QED BY <1>1, <1>3, <2>1, <2>3, <2>4, Elsewhere
<1> QED BY <1>5, <1>6

LEMMA EraseNextList ==
  ASSUME Types, RoleInv, MainStays, LocksHeld, ListInv, NEW t \in OSThreads, NEW u \in UThreads,
         EraseNext(t, u)
  PROVE  ListInv'
<1> USE ScanAssumption
<1>0. Erasing(t, u)
  BY DEF Erasing
<1>1. /\ UNCHANGED <<home, arg, first, last, prev>> /\ pc[u] = "next" /\ pc'[u] = "prev"
      /\ \A x \in UThreads \ {u} : pc'[x] = pc[x]
      /\ home[u] = t /\ \A s \in OSThreads : u # Main[s]
  <2>1. /\ UNCHANGED <<home, arg>> /\ home[u] = t /\ \A x \in UThreads \ {u} : pc'[x] = pc[x]
        /\ \A s \in OSThreads : u # Main[s]
    BY <1>0, Erases
  <2> QED BY <2>1 DEF EraseNext, Goes, At, Types
<1>2. PICK p \in Linked(t) : p = prev[u]
  BY <1>0, <1>1, BehindErased
<1>3. /\ Shapes(u, t) /\ Linked(t)' = Linked(t) \ {u} /\ u \in Linked(t) /\ ListOk(t)
      /\ \A w \in UThreads \ {u} : /\ pc[w] \in Unlinking => home[w] # t
                                   /\ pc[w] \in {"link", "head", "tail"} => home[arg[w]] # t
      /\ \A x \in Linked(t) : x \in UThreads /\ home[x] = t
                              /\ next[x] \in Linked(t) \union {NoUThread}
  <2>1. Linked(t)' \ {u} = Linked(t) \ {u} /\ u \in Linked(t) /\ u \notin Linked(t)'
    BY <1>0, <1>1, InErase
  <2>2. Linked(t)' = Linked(t) \ {u}
    BY <2>1
  <2> QED BY <1>0, <2>1, <2>2, InErase
<1>4. /\ next[p] = u /\ p # u /\ \A q \in Linked(t) : next[q] = u => q = p
      /\ \A x \in Linked(t) : next[x] # NoUThread => prev[next[x]] = x
  BY <1>0, <1>1, <1>2, BehindErased
<1>5. next'[p] = next[u] /\ \A x \in UThreads \ {p} : next'[x] = next[x]
  <2>1. next' = [next EXCEPT ![p] = next[u]]
    BY <1>2, <1>3 DEF EraseNext
  <2> QED BY <1>3, <2>1 DEF Types, Link
<1>6. Chain(next, Main[t], Linked(t))'
  <2>1. Linked(t) \in SUBSET UThreads
    BY <1>3
  <2>2. \A w \in Linked(t) \ {p} : next'[w] = next[w]
    BY <1>3, <1>5
  <2>3. Chain(next', Main[t], Linked(t) \ {u})
    BY <1>1, <1>3, <1>4, <1>5, <2>1, <2>2, ChainRemove DEF ListOk
  <2> QED BY <1>3, <2>3
<1>7. next[u] # u
  BY <1>3, NoLoop DEF ListOk
<1>8. PrevOk(t)'
  <2> SUFFICES ASSUME NEW x \in Linked(t) \ {u}, next'[x] # NoUThread
               PROVE  \/ prev[next'[x]] = x
                      \/ \E y \in UThreads : /\ prev[next'[x]] = y /\ home[y] = t /\ pc'[y] = "prev"
                                             /\ prev[y] = x /\ next'[y] = next'[x]
    BY <1>1, <1>3 DEF PrevOk
  <2>1. CASE x = p
    <3>1. prev[next'[x]] = u /\ next'[u] = next'[x]
      BY <1>3, <1>4, <1>5, <2>1
    <3> QED BY <1>1, <1>2, <2>1, <3>1
  <2>2. CASE x # p
    BY <1>3, <1>4, <1>5, <2>2
  <2> QED BY <2>1, <2>2
<1>9. LastOk(t)'
  <2>1. last[t] \in Linked(t) \ {u}
    BY <1>1, <1>3 DEF ListInv, OpOk, ListOk, LastOk
  <2>2. ASSUME NEW w \in UThreads, pc[w] \in {"head", "tail"}, next[last[t]] = arg[w] PROVE FALSE
    <3>1. arg[w] \in UThreads /\ home[arg[w]] = t
      <4>1. arg[w] \in UThreads
        BY <2>2, Placed DEF Inserting
      <4> QED BY <1>3, <2>1, <2>2, <4>1
    <3> QED BY <1>1, <1>3, <2>2, <3>1
  <2>3. next'[last[t]] = NoUThread
    <3>1. CASE next[last[t]] = NoUThread
      BY <1>3, <1>4, <1>5, <2>1, <3>1
    <3>2. CASE next[last[t]] # NoUThread
      <4>1. /\ next[last[t]] \in UThreads /\ pc[next[last[t]]] = "next"
            /\ next[next[last[t]]] = NoUThread
        BY <1>3, <2>2, <3>2 DEF ListOk, LastOk
      <4>2. next[last[t]] = u
        BY <1>3, <2>1, <4>1 DEF Unlinking
      <4>3. last[t] = p
        BY <1>4, <2>1, <4>2
      <4> QED BY <1>5, <4>1, <4>2, <4>3
    <3> QED BY <3>1, <3>2
  <2> QED BY <1>1, <1>3, <2>1, <2>3 DEF LastOk
<1>10. ListOk(t)'
  BY <1>1, <1>3, <1>6, <1>8, <1>9 DEF ListOk
<1>11. OpOk(u)'
  <2>1. (prev[u] \in Linked(home[u]))'
    BY <1>1, <1>2, <1>3, <1>4
  <2>2. next'[prev[u]] = next'[u]
    BY <1>2, <1>4, <1>5
  <2>3. next'[u] # NoUThread => prev[next'[u]] = u
    BY <1>3, <1>4, <1>5
  <2> QED BY <1>1, <2>1, <2>2, <2>3 DEF OpOk, Inserting
<1>12. \A x \in UThreads : home[x] # t => next'[x] = next[x]
  BY <1>3, <1>5
<1>13. \A w \in UThreads \ {u} : pc[w] = "insert" => next'[arg[w]] = next[arg[w]]
  <2>1. \A w \in UThreads : pc[w] = "insert" => arg[w] \in UThreads \ {p}
    BY <1>2, Placed DEF Linked, Inserting
  <2> QED BY <1>5, <2>1
<1> QED BY <1>1, <1>3, <1>10, <1>11, <1>12, <1>13, Elsewhere

LEMMA ErasePrevList ==
  ASSUME Types, RoleInv, MainStays, LocksHeld, ListInv, NEW t \in OSThreads, NEW u \in UThreads,
         ErasePrev(t, u)
  PROVE  ListInv'
<1> USE ScanAssumption
<1>0. Erasing(t, u)
  BY DEF Erasing
<1>1. /\ UNCHANGED <<home, arg, first, last, next>> /\ pc[u] = "prev" /\ pc'[u] = "clear"
      /\ \A x \in UThreads \ {u} : pc'[x] = pc[x]
      /\ home[u] = t
  <2>1. UNCHANGED <<home, arg>> /\ home[u] = t /\ \A x \in UThreads \ {u} : pc'[x] = pc[x]
    BY <1>0, Erases
  <2> QED BY <2>1 DEF ErasePrev, Goes, At, Types
<1>2. /\ Shapes(u, t) /\ Linked(t)' = Linked(t) /\ u \notin Linked(t) /\ ListOk(t)
      /\ \A w \in UThreads \ {u} : /\ pc[w] \in Unlinking => home[w] # t
                                   /\ pc[w] \in {"link", "head", "tail"} => home[arg[w]] # t
      /\ \A x \in Linked(t) : x \in UThreads /\ home[x] = t
                              /\ next[x] \in Linked(t) \union {NoUThread}
  <2>1. Linked(t)' \ {u} = Linked(t) \ {u} /\ u \notin Linked(t) /\ u \notin Linked(t)'
    BY <1>0, <1>1, InErase DEF Linked
  <2>2. Linked(t)' = Linked(t)
    BY <2>1
  <2> QED BY <1>0, <2>1, <2>2, InErase
<1>3. PICK p \in Linked(t) : p = prev[u]
  BY <1>1 DEF ListInv, OpOk
<1>4. next[p] = next[u] /\ (next[u] # NoUThread => prev[next[u]] = u)
  BY <1>1, <1>3 DEF ListInv, OpOk
<1>5. \A x \in Linked(t) : next[x] # NoUThread =>
        prev[next[x]] = x \/ (prev[next[x]] = u /\ p = x /\ next[u] = next[x])
  BY <1>1, <1>2, <1>3 DEF ListOk, PrevOk, Unlinking
<1>6. PrevOk(t)'
  <2>1. CASE next[u] = NoUThread
    <3>1. UNCHANGED prev
      BY <2>1 DEF ErasePrev
    <3> QED BY <1>1, <1>2, <1>5, <2>1, <3>1 DEF PrevOk
  <2>2. CASE next[u] # NoUThread
    <3>1. next[u] \in Linked(t)
      BY <1>2, <1>4, <2>2
    <3>2. prev'[next[u]] = p /\ \A x \in UThreads \ {next[u]} : prev'[x] = prev[x]
      BY <1>2, <1>3, <2>2, <3>1 DEF ErasePrev, Types, Link
    <3>3. ASSUME NEW x \in Linked(t), next[x] # NoUThread PROVE prev'[next[x]] = x
      <4>1. CASE next[x] = next[u]
        <5>1. x = p
          BY <1>2, <1>4, <1>5, <2>2, <3>3, <4>1
        <5> QED BY <3>2, <4>1, <5>1
      <4>2. CASE next[x] # next[u]
        BY <1>2, <1>5, <3>2, <3>3, <4>2
      <4> QED BY <4>1, <4>2
    <3> QED BY <1>1, <1>2, <3>3 DEF PrevOk
  <2> QED BY <2>1, <2>2
<1>7. LastOk(t)'
  <2>1. \A w \in UThreads : pc[w] \in {"head", "tail", "next"} => pc'[w] = pc[w]
    BY <1>1
  <2> QED BY <1>1, <1>2, <2>1 DEF ListOk, LastOk
<1>8. ListOk(t)'
  BY <1>1, <1>2, <1>6, <1>7 DEF ListOk
<1>9. OpOk(u)'
  BY <1>1 DEF OpOk
<1>10. \A x \in UThreads : home[x] # t => prev'[x] = prev[x]
  BY <1>2, <1>4, <1>3 DEF ErasePrev, Types, Link
<1> QED BY <1>1, <1>2, <1>8, <1>9, <1>10, Elsewhere

LEMMA EraseClearList ==
  ASSUME Types, RoleInv, MainStays, LocksHeld, ListInv, NEW t \in OSThreads, NEW u \in UThreads,
         EraseClear(t, u)
  PROVE  ListInv'
<1> USE ScanAssumption
<1>0. Erasing(t, u)
  BY DEF Erasing
<1>1. /\ UNCHANGED <<home, arg, first, last>> /\ pc[u] = "clear" /\ pc'[u] = "exit"
      /\ \A x \in UThreads \ {u} : pc'[x] = pc[x] /\ next'[x] = next[x] /\ prev'[x] = prev[x]
      /\ home[u] = t /\ \A x \in UThreads : arg[x] # u
  <2>1. /\ UNCHANGED <<home, arg>> /\ home[u] = t /\ \A x \in UThreads \ {u} : pc'[x] = pc[x]
        /\ \A x \in UThreads : arg[x] # u
    BY <1>0, Erases
  <2> QED BY <2>1 DEF EraseClear, Goes, At, Types, Link
<1>2. /\ Shapes(u, t) /\ Linked(t)' = Linked(t) /\ u \notin Linked(t) /\ ListOk(t)
      /\ \A w \in UThreads \ {u} : pc[w] \in Unlinking => home[w] # t
      /\ \A x \in Linked(t) : x \in UThreads /\ home[x] = t
                              /\ next[x] \in Linked(t) \union {NoUThread}
  <2>1. Linked(t)' \ {u} = Linked(t) \ {u} /\ u \notin Linked(t) /\ u \notin Linked(t)'
    BY <1>0, <1>1, InErase DEF Linked
  <2>2. Linked(t)' = Linked(t)
    BY <2>1
  <2> QED BY <1>0, <2>1, <2>2, InErase
<1>3. \A x \in Linked(t) : x # u /\ next'[x] = next[x] /\ prev'[x] = prev[x]
  BY <1>1, <1>2
<1>4. Chain(next, Main[t], Linked(t))'
  <2>1. Chain(next', Main[t], Linked(t))
    BY <1>2, <1>3, ChainFrame DEF ListOk
  <2> QED BY <1>2, <2>1
<1>5. PrevOk(t)'
  <2>1. \A x \in Linked(t) : next[x] # NoUThread => prev[next[x]] = x
    BY <1>1, <1>2 DEF ListOk, PrevOk, Unlinking
  <2>2. \A x \in Linked(t) : next'[x] # NoUThread => prev'[next'[x]] = x
    BY <1>2, <1>3, <2>1
  <2> QED BY <1>2, <2>2 DEF PrevOk
<1>6. LastOk(t)'
  <2>1. last[t] \in Linked(t) /\ next'[last[t]] = next[last[t]]
    BY <1>2, <1>3 DEF ListOk, LastOk
  <2>2. next[last[t]] # NoUThread => /\ next[last[t]] \in UThreads \ {u}
                                     /\ next'[next[last[t]]] = next[next[last[t]]]
    BY <1>2, <1>3, <2>1
  <2>3. \A w \in UThreads : pc[w] \in {"head", "tail", "next"} => pc'[w] = pc[w]
    BY <1>1
  <2>4. CASE next[last[t]] = NoUThread
    BY <1>1, <1>2, <2>1, <2>4 DEF LastOk
  <2>5. CASE next[last[t]] # NoUThread
    BY <1>1, <1>2, <2>1, <2>2, <2>3, <2>5 DEF ListOk, LastOk
  <2> QED BY <2>4, <2>5
<1>7. ListOk(t)'
  BY <1>1, <1>2, <1>4, <1>5, <1>6 DEF ListOk
<1>8. OpOk(u)'
  BY <1>1 DEF OpOk, Inserting
<1>9. \A x \in UThreads : home[x] # t => next'[x] = next[x] /\ prev'[x] = prev[x]
  BY <1>1
<1>10. \A w \in UThreads : pc[w] = "insert" => next'[arg[w]] = next[arg[w]]
  BY <1>1, Placed DEF Inserting
<1> QED BY <1>1, <1>2, <1>7, <1>8, <1>9, <1>10, Elsewhere

LEMMA InitList == Init => ListInv
<1> SUFFICES ASSUME Init PROVE ListInv
  OBVIOUS
<1> USE ScanAssumption
<1>1. /\ \A u \in UThreads : pc[u] \in {"none", "code"} /\ arg[u] = NoUThread /\ next[u] = NoUThread
      /\ first = Main /\ last = Main
  BY DEF Init
<1>2. ASSUME NEW t \in OSThreads PROVE ListOk(t)
  <2>1. home[Main[t]] = t
    BY InitRest DEF MainStays
  <2>2. ASSUME NEW u \in UThreads, home[u] = t PROVE u = Main[t]
    <3>1. \E s \in OSThreads : Main[s] = u
      BY <2>2 DEF Init
    <3>2. PICK s \in OSThreads : Main[s] = u
      BY <3>1
    <3>3. home[u] = s
      BY <3>2, InitRest DEF MainStays
    <3> QED BY <2>2, <3>2, <3>3
  <2>3. PICK m \in UThreads : m = Main[t]
    OBVIOUS
  <2>4. Linked(t) = {m}
    BY <1>1, <2>1, <2>2, <2>3 DEF Linked
  <2>5. next[m] = NoUThread
    BY <1>1
  <2>6. Chain(next, m, {m})
    BY <2>5 DEF Chain
  <2>7. PrevOk(t)
    BY <2>4, <2>5 DEF PrevOk
  <2>8. LastOk(t)
    BY <1>1, <2>3, <2>4, <2>5 DEF LastOk
  <2> QED BY <1>1, <2>3, <2>4, <2>6, <2>7, <2>8 DEF ListOk
<1>3. \A w \in UThreads : OpOk(w)
  BY <1>1 DEF OpOk
<1> QED BY <1>1, <1>2, <1>3 DEF ListInv

\* What an iteration yields, and that nobody in it has ended.
LEMMA Walk ==
  ASSUME ListInv, NEW t \in OSThreads
  PROVE  Stacks(t) = Linked(t) /\ Ends(next, first[t]) /\ \A v \in Stacks(t) : pc[v] # "gone"
<1>1. Linked(t) \in SUBSET UThreads /\ \A v \in Linked(t) : pc[v] # "gone"
  BY DEF Linked
<1>2. Along(next, Main[t]) = Linked(t) /\ Ends(next, Main[t])
  BY <1>1, ChainWalk DEF ListInv, ListOk
<1> QED BY <1>1, <1>2 DEF ListInv, ListOk, Stacks

LEMMA StepList ==
  ASSUME Types, RoleInv, MainStays, LocksHeld, ListInv, [Next]_vars
  PROVE  ListInv'
<1>1. \A t \in OSThreads : \A v \in Stacks(t) : pc[v] # "gone"
  BY Walk
<1>2. ASSUME NEW t \in OSThreads, NEW u \in UThreads, Erasing(t, u) PROVE ListInv'
  BY <1>2, EraseFirstList, EraseLastList, EraseNextList, ErasePrevList, EraseClearList DEF Erasing
<1> QED BY <1>1, <1>2, QuietSteps, QuietList, CreateList, InsertPrevList, InsertLinkList,
          InsertFirstList, InsertLastList

-----------------------------------------------------------------------------
(* The theorems. *)

ScanInv ==
  Types /\ RoleInv /\ SavedInv /\ Detours /\ LocksHeld /\ MainStays /\ ListInv

\* Everything above holds in every state: each part needs others to survive a
\* step, so they are one inductive invariant.
THEOREM ScanInvHolds == Spec => []ScanInv
<1>1. Init => ScanInv
  BY InitTypes, InitRole, InitSaved, InitRest, InitList DEF ScanInv
<1>2. ScanInv /\ [Next]_vars => ScanInv'
  <2> SUFFICES ASSUME ScanInv, [Next]_vars PROVE ScanInv'
    OBVIOUS
  <2>1. \A t \in OSThreads : \A v \in Stacks(t) : pc[v] # "gone"
    BY Walk DEF ScanInv
  <2>2. Types' /\ RoleInv' /\ SavedInv'
    BY <2>1, StepTypes, StepRole, StepSaved DEF ScanInv
  <2>3. Detours' /\ LocksHeld' /\ MainStays' /\ ListInv'
    BY <2>1, StepDetours, StepLocks, StepMain, StepList DEF ScanInv
  <2> QED BY <2>2, <2>3 DEF ScanInv
<1> QED BY <1>1, <1>2, PTL DEF Spec

\* The variables keep their types.  That the set of an OS thread is never empty
\* is part of it: the insertion and the removal of OS/InlineSet.h:55-95 test for
\* a null first and last, and never meet one here.
THEOREM TypeCorrect == Spec => []TypeOK
<1>1. ScanInv => TypeOK
  <2> SUFFICES ASSUME ScanInv PROVE TypeOK
    OBVIOUS
  <2>1. first \in [OSThreads -> UThreads]
    BY ScanAssumption DEF ScanInv, Types, ListInv, ListOk
  <2>2. last \in [OSThreads -> UThreads]
    BY DEF ScanInv, Types, ListInv, ListOk, LastOk, Linked
  <2> QED BY <2>1, <2>2 DEF ScanInv, Types, TypeOK
<1> QED BY <1>1, ScanInvHolds, PTL

\* Stopped between any two instructions of insert and erase, an iteration over
\* the set ends and yields every stack of it (OS/InlineSet.h:58-62, 80-83).
THEOREM IterationFindsAll == Spec => []WalkFindsAll
<1>1. ScanInv => WalkFindsAll
  <2> SUFFICES ASSUME ScanInv, NEW t \in OSThreads
               PROVE  /\ Ends(next, first[t]) /\ InSet(t) \subseteq Stacks(t)
                      /\ \A u \in Stacks(t) : home[u] = t /\ pc[u] # "gone"
    BY DEF WalkFindsAll
  <2>1. Stacks(t) = Linked(t) /\ Ends(next, first[t])
    BY Walk DEF ScanInv
  <2>2. InSet(t) \subseteq Linked(t) /\ \A u \in Linked(t) : home[u] = t /\ pc[u] # "gone"
    BY DEF InSet, Linked
  <2> QED BY <2>1, <2>2
<1> QED BY <1>1, ScanInvHolds, PTL

\* Whose stack pointer is not saved is running, on its own OS thread.
LEMMA UnsavedRuns ==
  ASSUME ScanInv, NEW x \in UThreads \ (saved \union initializing), pc[x] # "none"
  PROVE  \E d \in OSThreads :
           /\ cpu[d] = x /\ to[d] = NoUThread /\ owner[x] = d
           /\ home[x] = d \/ x \in detourActive
           /\ \A s \in OSThreads : cpu[s] = x => s = d
<1> USE ScanAssumption
<1>0. Types /\ RoleInv /\ SavedInv /\ Detours
  BY DEF ScanInv
<1>1. \A w \in UThreads : arg[w] = x => pc[w] \notin Inserting \union {"desc"}
  BY <1>0 DEF SavedInv, Preparing
<1>2. PICK d \in OSThreads : cpu[d] = x /\ to[d] = NoUThread
  BY <1>0, <1>1 DEF SavedInv
<1>3. owner[x] = d
  BY <1>0, <1>2 DEF RoleInv, Owners, Runs
<1>4. home[x] = d \/ x \in detourActive
  <2>1. CASE pc[x] = "copy"
    <3>1. \E w \in UThreads : arg[w] = x /\ pc[w] = "inactive"
      BY <1>0, <1>2, <2>1, LentTo DEF Lent
    <3> QED BY <1>0, <3>1 DEF Detours
  <2>2. CASE pc[x] # "copy"
    BY <1>0, <1>3, <2>2 DEF RoleInv, Owners
  <2> QED BY <2>1, <2>2
<1>5. ASSUME NEW s \in OSThreads, cpu[s] = x PROVE s = d
  <2>1. to[s] = NoUThread
    BY <1>0, <1>5 DEF SavedInv
  <2>2. owner[x] = s
    BY <1>0, <1>5, <2>1 DEF RoleInv, Owners, Runs
  <2> QED BY <1>3, <2>2
<1> QED BY <1>2, <1>3, <1>4, <1>5

\* Whom a detour leads to: nobody further.
LEMMA DetourLeadsTo ==
  ASSUME ScanInv, NEW s \in UThreads
  PROVE  /\ Along(detourTo, s) = {x \in UThreads : x = s \/ x = detourTo[s]}
         /\ detourTo[s] \in UThreads =>
              /\ pc[s] \in Lending /\ arg[s] = detourTo[s] /\ detourTo[s] # s
              /\ pc[detourTo[s]] \in {"new", "copy", "walk", "code"}
              /\ Deal(s, detourTo[s], owner[s]) /\ owner[s] \in OSThreads /\ home[s] = owner[s]
              /\ pc[s] \in {"active", "switch"} => cpu[owner[s]] = s
<1> USE ScanAssumption
<1>0. Types /\ RoleInv /\ Detours
  BY DEF ScanInv
<1>1. ASSUME detourTo[s] \in UThreads
      PROVE  /\ pc[s] \in Lending /\ arg[s] = detourTo[s] /\ detourTo[s] # s
             /\ pc[detourTo[s]] \in {"new", "copy", "walk", "code"}
             /\ Deal(s, detourTo[s], owner[s]) /\ owner[s] \in OSThreads /\ home[s] = owner[s]
             /\ pc[s] \in {"active", "switch"} => cpu[owner[s]] = s
  <2>1. pc[s] \in Lending /\ arg[s] = detourTo[s]
    BY <1>0, <1>1 DEF Detours
  <2>2. Deal(s, detourTo[s], owner[s])
    BY <1>0, <2>1, Partner DEF Dealing
  <2>3. pc[detourTo[s]] \in {"new", "copy", "walk", "code"}
    BY <2>1, <2>2 DEF Deal, Lending, IsLent, IsBack, Lent
  <2>4. owner[s] \in OSThreads /\ (pc[s] \in {"active", "switch"} => cpu[owner[s]] = s)
    <3>1. CASE pc[s] = "inactive"
      BY <2>2, <3>1 DEF Deal
    <3>2. CASE pc[s] # "inactive"
      BY <1>0, <2>1, <3>2 DEF RoleInv, Owners, Acting, Dealing
    <3> QED BY <3>1, <3>2
  <2>5. home[s] = owner[s]
    BY <1>0, <2>1, <2>4 DEF RoleInv, Owners, Lending
  <2> QED BY <2>1, <2>2, <2>3, <2>4, <2>5 DEF Lending
<1>2. Along(detourTo, s) = {x \in UThreads : x = s \/ x = detourTo[s]}
  <2>1. PICK A \in SUBSET UThreads : A = {x \in UThreads : x = s \/ x = detourTo[s]}
    OBVIOUS
  <2>2. ASSUME NEW x \in A PROVE x = s \/ (x = detourTo[s] /\ detourTo[x] = NoUThread)
    <3>1. CASE x # s
      <4>1. pc[x] \notin Lending
        BY <1>1, <2>1, <3>1 DEF Lending
      <4> QED BY <1>0, <2>1, <3>1, <4>1 DEF Detours
    <3> QED BY <3>1
  <2>3. detourTo[s] \in UThreads \union {NoUThread} /\ detourTo[s] # s
    BY <1>0, <1>1 DEF Types, Link
  <2>4. Chain(detourTo, s, A)
    <3>1. s \in A /\ \A w \in A : detourTo[w] \in A \union {NoUThread}
      BY <2>1, <2>2, <2>3
    <3>2. ASSUME NEW S \in SUBSET A, s \in S, \A w \in S : detourTo[w] \in S \union {NoUThread}
          PROVE  S = A
      BY <2>1, <3>2
    <3>3. ASSUME NEW S \in SUBSET A, S # {} PROVE \E w \in S : detourTo[w] \notin S
      <4>1. CASE \E w \in S : w # s
        BY <2>2, <4>1
      <4>2. CASE S = {s}
        BY <2>3, <4>2
      <4> QED BY <3>3, <4>1, <4>2
    <3> QED BY <3>1, <3>2, <3>3 DEF Chain
  <2> QED BY <2>1, <2>4, ChainWalk
<1> QED BY <1>1, <1>2

\* What an OS thread takes for the stack it is running is that stack, which it
\* meets once (Gc/Scan.h:131-140).
THEOREM OwnStackIsScanned == Spec => []ScansOwnStack
<1>1. ScanInv => ScansOwnStack
  <2> SUFFICES ASSUME ScanInv, NEW t \in OSThreads
               PROVE  /\ Cardinality(Mains(t)) <= 1
                      /\ \A v \in Mains(t) : v[2] = cpu[t]
                                             /\ \A d \in OSThreads : cpu[d] = v[2] => d = t
    BY DEF ScansOwnStack
  <2> USE ScanAssumption
  <2>0. Types /\ RoleInv /\ Detours /\ ListInv
    BY DEF ScanInv
  <2>1. ASSUME NEW v \in Mains(t)
        PROVE  \E s \in UThreads, x \in UThreads :
                 /\ v = <<s, x>> /\ s \notin detourActive /\ home[s] = t
                 /\ x \in Along(detourTo, s) /\ x \notin saved \union initializing
    <3>1. PICK s \in Stacks(t) \ detourActive :
                 v \in {s} \X (Along(detourTo, s) \ initializing)
      BY <2>1 DEF Mains, Visits
    <3>2. s \in UThreads /\ home[s] = t
      BY <2>0, Walk DEF Linked
    <3>3. PICK x \in Along(detourTo, s) \ initializing : v = <<s, x>>
      BY <3>1
    <3>4. x \in UThreads
      BY DEF Along
    <3>5. x \notin saved
      BY <3>3 DEF Mains
    <3> QED BY <3>1, <3>2, <3>3, <3>4, <3>5
  <2>2. ASSUME NEW s \in UThreads, NEW x \in UThreads, s \notin detourActive, home[s] = t,
               x \in Along(detourTo, s), x \notin saved \union initializing
        PROVE  /\ x = cpu[t] /\ \A d \in OSThreads : cpu[d] = x => d = t
               /\ s = x \/ (arg[s] = x /\ pc[s] = "inactive")
    <3>1. x = s \/ x = detourTo[s]
      BY <2>2, DetourLeadsTo
    <3>2. pc[x] # "none"
      <4>1. CASE x = s
        BY <2>0, <2>2, <4>1 DEF RoleInv, Owners
      <4>2. CASE x = detourTo[s]
        BY <4>2, DetourLeadsTo
      <4> QED BY <3>1, <4>1, <4>2
    <3>3. PICK d \in OSThreads : /\ cpu[d] = x /\ to[d] = NoUThread /\ owner[x] = d
                                 /\ home[x] = d \/ x \in detourActive
                                 /\ \A r \in OSThreads : cpu[r] = x => r = d
      BY <2>2, <3>2, UnsavedRuns
    <3>4. CASE x = s
      BY <2>2, <3>3, <3>4
    <3>5. CASE x # s
      <4>1. /\ x = detourTo[s] /\ pc[s] \in Lending /\ arg[s] = x /\ Deal(s, x, t)
            /\ pc[s] \in {"active", "switch"} => cpu[t] = s
        BY <2>2, <3>1, <3>5, DetourLeadsTo
      <4>2. owner[x] = t /\ pc[s] # "release"
        BY <3>3, <4>1 DEF Deal, Lending, IsLent, IsBack
      <4> QED BY <3>3, <3>5, <4>1, <4>2 DEF Lending
    <3> QED BY <3>4, <3>5
  <2>3. \A v \in Mains(t) : v[2] = cpu[t] /\ \A d \in OSThreads : cpu[d] = v[2] => d = t
    BY <2>1, <2>2
  <2>4. ASSUME NEW v \in Mains(t), NEW w \in Mains(t) PROVE v = w
    <3>1. PICK s \in UThreads, x \in UThreads :
                 /\ v = <<s, x>> /\ s \notin detourActive /\ home[s] = t
                 /\ x \in Along(detourTo, s) /\ x \notin saved \union initializing
      BY <2>1
    <3>2. PICK r \in UThreads, y \in UThreads :
                 /\ w = <<r, y>> /\ r \notin detourActive /\ home[r] = t
                 /\ y \in Along(detourTo, r) /\ y \notin saved \union initializing
      BY <2>1
    <3>3. x = cpu[t] /\ (s = x \/ (arg[s] = x /\ pc[s] = "inactive"))
      BY <2>2, <3>1
    <3>4. y = cpu[t] /\ (r = y \/ (arg[r] = y /\ pc[r] = "inactive"))
      BY <2>2, <3>2
    <3>5. \A z \in UThreads : arg[z] = x /\ pc[z] = "inactive" => x \in detourActive
      BY <2>0 DEF Detours
    <3>6. s = r
      BY <2>0, <3>1, <3>2, <3>3, <3>4, <3>5 DEF RoleInv, Deals
    <3> QED BY <3>1, <3>2, <3>3, <3>4, <3>6
  <2>5. Cardinality(Mains(t)) <= 1
    <3>1. CASE Mains(t) = {}
      BY <3>1, FS_EmptySet
    <3>2. CASE Mains(t) # {}
      <4>1. PICK v \in Mains(t) : TRUE
        BY <3>2
      <4>2. Mains(t) = {v}
        BY <2>4
      <4>3. Cardinality({v}) = 1
        BY FS_Singleton
      <4>4. Cardinality(Mains(t)) = 1
        BY <4>2, <4>3
      <4> QED BY <4>4
    <3> QED BY <3>1, <3>2
  <2> QED BY <2>3, <2>5
<1> QED BY <1>1, ScanInvHolds, PTL

\* Every stack in use that is in a set is scanned by some OS thread, be the
\* UThread suspended, running, lent an OS thread or about to run on one
\* (OS/UThread.cpp:570-572).
THEOREM NoStackIsMissed == Spec => []EveryStackIsScanned
<1>1. ScanInv => EveryStackIsScanned
  <2> SUFFICES ASSUME ScanInv, NEW u \in UNION {InSet(t) : t \in OSThreads}, u \notin initializing
               PROVE  u \in UNION {Scanned(t) : t \in OSThreads}
    BY DEF EveryStackIsScanned
  <2> PICK t \in OSThreads : u \in InSet(t)
    OBVIOUS
  <2> SUFFICES \E r \in OSThreads : u \in Scanned(r)
    OBVIOUS
  <2> USE ScanAssumption
  <2>0. Types /\ RoleInv /\ Detours /\ ListInv
    BY DEF ScanInv
  <2>1. u \in UThreads /\ home[u] = t /\ pc[u] # "none" /\ u \in Linked(t)
    BY <2>0 DEF InSet, Linked, RoleInv, Owners
  <2>2. ASSUME NEW r \in OSThreads, NEW s \in Stacks(r) \ detourActive, s \in UThreads,
               u = s \/ u = detourTo[s], u \in saved \/ u = cpu[r]
        PROVE  u \in Scanned(r)
    <3>1. u \in Along(detourTo, s)
      BY <2>1, <2>2, DetourLeadsTo
    <3>2. <<s, u>> \in Visits(r)
      BY <2>2, <3>1 DEF Visits
    <3>3. <<s, u>> \in {w \in Visits(r) : w[2] \in saved \union {cpu[r]}}
      BY <2>2, <3>2
    <3>4. <<s, u>>[2] = u
      OBVIOUS
    <3> QED BY <3>3, <3>4 DEF Scanned
  <2>3. u \in saved \/ \E d \in OSThreads : /\ cpu[d] = u /\ to[d] = NoUThread /\ owner[u] = d
                                            /\ home[u] = d \/ u \in detourActive
    BY <2>1, UnsavedRuns
  <2>4. CASE u \notin detourActive
    <3>1. u \in Stacks(t)
      BY <2>0, <2>1, Walk
    <3>2. u \in saved \/ u = cpu[t]
      BY <2>1, <2>3, <2>4
    <3> QED BY <2>1, <2>2, <2>4, <3>1, <3>2
  <2>5. CASE u \in detourActive
    <3>1. PICK w \in UThreads : arg[w] = u /\ pc[w] \in {"switch", "inactive"}
      BY <2>0, <2>1, <2>5 DEF Detours
    <3>2. detourTo[w] = u
      BY <2>0, <3>1 DEF Detours, Lending
    <3>3. Deal(w, u, owner[w]) /\ owner[w] \in OSThreads /\ home[w] = owner[w]
      BY <2>1, <3>2, DetourLeadsTo
    <3>4. PICK s \in OSThreads : s = owner[w]
      BY <3>3
    <3>5. ASSUME NEW y \in UThreads, arg[y] = w,
                 pc[y] \in Inserting \union {"switch", "inactive"}
          PROVE  FALSE
      <4>1. Deal(y, w, owner[y])
        BY <2>0, <3>5, Partner DEF Dealing, Preparing, Lending
      <4>2. pc[w] \in {"new", "copy", "walk", "code"}
        BY <3>5, <4>1 DEF Deal, Preparing, Lent, IsLent, IsBack
      <4> QED BY <3>1, <4>2
    <3>6. w \in Linked(s)
      BY <3>1, <3>3, <3>4, <3>5 DEF Linked, Inserting
    <3>7. w \notin detourActive
      BY <2>0, <3>5 DEF Detours
    <3>8. w \in Stacks(s) \ detourActive
      BY <2>0, <3>6, <3>7, Walk
    <3>9. u \in saved \/ u = cpu[s]
      BY <2>3, <3>1, <3>3, <3>4 DEF Deal, IsLent, IsBack
    <3> QED BY <2>2, <3>2, <3>8, <3>9
  <2> QED BY <2>4, <2>5
<1> QED BY <1>1, ScanInvHolds, PTL
==============================================================================
