--------------------------- MODULE ThreadLifeProofs ---------------------------
(***************************************************************************)
(* Proofs about ThreadLife.  The references of an OS thread count exactly  *)
(* the Thread objects that refer to it, its unfinished function and its    *)
(* unfinished start, so that zero references under the group's lock mean   *)
(* that nobody is left to ask for it.                                      *)
(***************************************************************************)
EXTENDS ThreadLife, FiniteSetTheorems, TLAPS

LifeTypes ==
  /\ phase \in [Threads -> Phases]
  /\ refs \in [Threads -> Int]
  /\ token \in [Threads -> BOOLEAN]
  /\ alive \in [Threads -> Int]
  /\ ready \in [Threads -> Int]
  /\ blocked \in [Threads -> Int]
  /\ waits \subseteq WithWait /\ roused \subseteq WithWait
  /\ running \subseteq Threads
  /\ attached \in Nat
  /\ sema \in Nat
  /\ handles \in [Clients -> SUBSET Threads]
  /\ cpc \in [Clients -> CPCs]
  /\ carg \in [Clients -> Threads \union {NoThread}]
  /\ \A c \in Clients : cpc[c] \in {"starting", "zero", "push", "signal", "rouse"}
                        => carg[c] \in Threads
  /\ \A c \in Clients : cpc[c] = "rouse" => carg[c] \in WithWait

\* Who holds a Thread for d, and what else its references stand for.
Holders(d) == {c \in Clients : d \in handles[c]}

Job(d) == IF phase[d] \in {"attached", "report", "fn", "waiting"} THEN 1 ELSE 0

Startup(d) == IF Starting(d) /\ phase[d] \notin {"none", "boot"} THEN 2 ELSE 0

RefsExact ==
  \A d \in Threads : refs[d] = Cardinality(Holders(d)) + Job(d) + Startup(d)

\* Each OS thread is started by one client, which waits until it has reported.
Started ==
  /\ \A b, c \in Clients :
       cpc[b] = "starting" /\ cpc[c] = "starting" /\ carg[b] = carg[c] => b = c
  /\ \A d \in Threads : Starting(d) => phase[d] # "none"
  /\ \A d \in Threads : phase[d] \in {"boot", "attached", "report"} => Starting(d)

\* The group's set, and who cannot have been found in it yet.
Listed ==
  /\ running = {d \in Threads :
                  phase[d] \in {"report", "fn", "waiting", "loop", "zero", "alone", "asleep"}}
  /\ \A d \in Threads : phase[d] \in {"none", "boot", "attached"} => Holders(d) = {}

KeepInv == LifeTypes /\ Started /\ Listed /\ RefsExact /\ HandleKeepsAlive

LEMMA HoldersFinite ==
  ASSUME NEW d
  PROVE  IsFiniteSet(Holders(d)) /\ Cardinality(Holders(d)) \in Nat
<1>1. Holders(d) \subseteq Clients
  BY DEF Holders
<1>2. IsFiniteSet(Holders(d))
  BY <1>1, LifeAssumption, FS_Subset
<1> QED
  BY <1>2, FS_CardinalityType

\* Nobody refers to an OS thread whose references are zero.
LEMMA ZeroRefs ==
  ASSUME KeepInv, NEW d \in Threads, refs[d] <= 0
  PROVE  Holders(d) = {} /\ ~(Starting(d) /\ phase[d] \notin {"none", "boot"})
<1>1. refs[d] = Cardinality(Holders(d)) + Job(d) + Startup(d)
  BY DEF KeepInv, RefsExact
<1>2. Job(d) \in {0, 1} /\ Startup(d) \in {0, 2}
  BY DEF Job, Startup
<1>3. Cardinality(Holders(d)) \in Nat /\ IsFiniteSet(Holders(d))
  BY HoldersFinite
<1>4. Cardinality(Holders(d)) = 0 /\ Startup(d) = 0
  BY <1>1, <1>2, <1>3
<1>5. Holders(d) = {}
  BY <1>3, <1>4, FS_EmptySet
<1> QED
  BY <1>4, <1>5 DEF Startup

LEMMA InitKeep == Init => KeepInv
<1> SUFFICES ASSUME Init PROVE KeepInv
  OBVIOUS
<1>1. LifeTypes
  BY DEF Init, LifeTypes, Phases, CPCs
<1>2. Started
  BY DEF Init, Started, Starting
<1>3. \A d \in Threads : Holders(d) = {}
  BY DEF Init, Holders
<1>4. Listed
  BY <1>3 DEF Init, Listed
<1>5. RefsExact
  <2>1. Cardinality({}) = 0
    BY FS_EmptySet
  <2> QED
    BY <1>3, <2>1 DEF Init, RefsExact, Job, Startup, Starting
<1>6. HandleKeepsAlive
  BY DEF Init, HandleKeepsAlive, Terminates
<1> QED
  BY <1>1, <1>2, <1>4, <1>5, <1>6 DEF KeepInv

LEMMA StepTypes == LifeTypes /\ [Next]_vars => LifeTypes'
<1> SUFFICES ASSUME LifeTypes, [Next]_vars PROVE LifeTypes'
  OBVIOUS
<1> USE LifeAssumption DEF LifeTypes
<1>1. CASE UNCHANGED vars
  BY <1>1 DEF vars, waitVars, dataVars, groupVars, clientVars
<1>2. ASSUME NEW d \in Threads, ThreadMain(d) PROVE LifeTypes'
  <2> USE DEF Moves, waitVars, dataVars, groupVars, clientVars, Phases
  <2>1. CASE Start(d)
    BY <2>1 DEF Start
  <2>2. CASE Insert(d)
    BY <2>2 DEF Insert
  <2>3. CASE Report(d)
    BY <2>3 DEF Report
  <2>4. CASE CheckRefs(d)
    BY <2>4 DEF CheckRefs
  <2>5. CASE CheckAny(d)
    BY <2>5 DEF CheckAny
  <2>6. CASE Unreachable(d)
    BY <2>6 DEF Unreachable
  <2>7. CASE Terminate(d)
    BY <2>7 DEF Terminate
  <2>8. CASE Destroy(d)
    BY <2>8 DEF Destroy
  <2>9. CASE WakeUp(d)
    BY <2>9 DEF WakeUp
  <2> QED
    BY <1>2, <2>1, <2>2, <2>3, <2>4, <2>5, <2>6, <2>7, <2>8, <2>9 DEF ThreadMain
<1>3. ASSUME NEW d \in Threads, ThreadCode(d) \/ IoWakeUp(d) PROVE LifeTypes'
  <2> USE DEF Moves, waitVars, dataVars, groupVars, clientVars, Phases
  <2>1. CASE FnDone(d)
    BY <2>1 DEF FnDone
  <2>2. CASE FnWaits(d)
    BY <2>2 DEF FnWaits
  <2>3. CASE UThreadExits(d)
    BY <2>3 DEF UThreadExits
  <2>4. CASE UThreadBlocks(d)
    BY <2>4 DEF UThreadBlocks
  <2>5. ASSUME NEW c \in Clients, UThreadShares(d, c) PROVE LifeTypes'
    BY <2>5 DEF UThreadShares
  <2>6. CASE IoWakeUp(d)
    BY <2>6 DEF IoWakeUp
  <2>7. CASE WaitBegin(d)
    BY <2>7 DEF WaitBegin
  <2>8. CASE WaitReturn(d)
    BY <2>8 DEF WaitReturn
  <2> QED
    BY <1>3, <2>1, <2>2, <2>3, <2>4, <2>5, <2>6, <2>7, <2>8 DEF ThreadCode
<1>4. ASSUME NEW c \in Clients, InCall(c) \/ ListThreads(c) PROVE LifeTypes'
  <2> USE DEF Client, waitVars, dataVars, groupVars, CPCs
  <2>1. CASE Adopt(c)
    BY <2>1 DEF Adopt
  <2>2. CASE Push(c)
    BY <2>2 DEF Push
  <2>3. CASE Signal(c)
    BY <2>3 DEF Signal
  <2>4. CASE ListThreads(c)
    BY <2>4 DEF ListThreads
  <2>5. CASE Rouse(c)
    <3>1. carg[c] \in WithWait
      BY <2>5 DEF Rouse
    <3> QED
      BY <2>5, <3>1 DEF Rouse
  <2> QED
    BY <1>4, <2>1, <2>2, <2>3, <2>4, <2>5 DEF InCall
<1>5. ASSUME NEW c \in Clients, NEW d \in Threads, Calls(c, d) PROVE LifeTypes'
  <2> USE DEF Client, Moves, waitVars, dataVars, groupVars, CPCs, Phases
  <2>1. CASE NewThread(c, d)
    BY <2>1 DEF NewThread
  <2>2. CASE Release(c, d)
    BY <2>2 DEF Release
  <2>3. CASE SpawnOn(c, d)
    BY <2>3 DEF SpawnOn
  <2>4. CASE WakeUThread(c, d)
    BY <2>4 DEF WakeUThread
  <2> QED
    BY <1>5, <2>1, <2>2, <2>3, <2>4 DEF Calls
<1>6. CASE JoinCall \/ Join
  <2> USE DEF Client, waitVars, dataVars, groupVars, CPCs
  <2>1. CASE JoinCall
    BY <2>1 DEF JoinCall
  <2>2. CASE JoinNext
    BY <2>2 DEF JoinNext
  <2>3. CASE JoinDown
    BY <2>3 DEF JoinDown
  <2>4. CASE JoinEnd
    BY <2>4 DEF JoinEnd
  <2>5. CASE JoinReturn
    BY <2>5 DEF JoinReturn
  <2> QED
    BY <1>6, <2>1, <2>2, <2>3, <2>4, <2>5 DEF Join
<1> QED
  BY <1>1, <1>2, <1>3, <1>4, <1>5, <1>6 DEF Next

\* A step that changes no reference, no handle and no start.
LEMMA OtherStep ==
  ASSUME KeepInv, LifeTypes', UNCHANGED <<phase, refs, running, handles>>,
         \A c \in Clients : cpc[c] = "starting" <=> cpc'[c] = "starting",
         \A c \in Clients : cpc[c] = "starting" => carg'[c] = carg[c]
  PROVE  KeepInv'
<1>1. \A d : Holders(d)' = Holders(d) /\ (Starting(d)' <=> Starting(d))
  BY DEF Holders, Starting
<1>2. Started' /\ Listed'
  BY <1>1 DEF KeepInv, Started, Listed
<1>3. RefsExact'
  BY <1>1 DEF KeepInv, RefsExact, Job, Startup
<1>4. HandleKeepsAlive'
  BY <1>1 DEF KeepInv, HandleKeepsAlive, Terminates
<1> QED
  BY <1>2, <1>3, <1>4 DEF KeepInv

\* A step of threadMain: d alone moves on, and what its references stand for
\* changes as they do.
LEMMA MainStep ==
  ASSUME KeepInv, LifeTypes', UNCHANGED clientVars,
         NEW d \in Threads, NEW q,
         phase' = [phase EXCEPT ![d] = q],
         refs' = [refs EXCEPT ![d] = @ + (Job(d)' - Job(d)) + (Startup(d)' - Startup(d))],
         q # "none",
         q \in {"boot", "attached", "report"} => Starting(d),
         q \in {"boot", "attached"} => Holders(d) = {},
         running' = IF q \in {"report", "fn", "waiting", "loop", "zero", "alone", "asleep"}
                    THEN running \union {d} ELSE running \ {d},
         q \in {"unreachable", "terminated", "gone"} => ~Starting(d) /\ Holders(d) = {}
  PROVE  KeepInv'
<1>0. phase \in [Threads -> Phases] /\ refs \in [Threads -> Int]
  BY DEF KeepInv, LifeTypes
<1>1. \A e : Holders(e)' = Holders(e) /\ (Starting(e)' <=> Starting(e))
  BY DEF Holders, Starting, clientVars
<1>2. \A e \in Threads \ {d} : phase'[e] = phase[e] /\ refs'[e] = refs[e]
  BY <1>0
<1>3. phase'[d] = q
  BY <1>0
<1>4. Started'
  BY <1>1, <1>2, <1>3 DEF KeepInv, Started, clientVars
<1>5. Listed'
  BY <1>1, <1>2, <1>3 DEF KeepInv, Listed
<1>6. RefsExact'
  <2>1. ASSUME NEW e \in Threads \ {d}
        PROVE  refs'[e] = Cardinality(Holders(e)') + Job(e)' + Startup(e)'
    BY <1>1, <1>2, <2>1 DEF KeepInv, RefsExact, Job, Startup
  <2>2. refs'[d] = Cardinality(Holders(d)') + Job(d)' + Startup(d)'
    <3>1. refs[d] = Cardinality(Holders(d)) + Job(d) + Startup(d)
      BY DEF KeepInv, RefsExact
    <3>2. /\ Job(d) \in Int /\ Startup(d) \in Int /\ Job(d)' \in Int /\ Startup(d)' \in Int
          /\ Cardinality(Holders(d)) \in Nat
      BY HoldersFinite DEF Job, Startup
    <3>3. refs'[d] = refs[d] + (Job(d)' - Job(d)) + (Startup(d)' - Startup(d))
      BY <1>0
    <3> QED
      BY <1>1, <3>1, <3>2, <3>3
  <2> QED
    BY <2>1, <2>2 DEF RefsExact
<1>7. HandleKeepsAlive'
  BY <1>1, <1>2, <1>3 DEF KeepInv, HandleKeepsAlive, Terminates, Holders
<1> QED
  BY <1>4, <1>5, <1>6, <1>7 DEF KeepInv

LEMMA MainKeeps ==
  ASSUME KeepInv, LifeTypes', NEW d \in Threads,
         ThreadMain(d) \/ IoWakeUp(d) \/ FnDone(d) \/ WaitBegin(d) \/ WaitReturn(d)
  PROVE  KeepInv'
<1>0. /\ phase \in [Threads -> Phases] /\ refs \in [Threads -> Int]
      /\ Started /\ Listed /\ HandleKeepsAlive
  BY DEF KeepInv, LifeTypes
<1> USE DEF Moves, waitVars, dataVars, groupVars, Job, Startup
<1>1. CASE Start(d)
  <2>1. refs[d] = 0
    <3>1. Holders(d) = {} /\ Cardinality({}) = 0
      BY <1>0, <1>1, FS_EmptySet DEF Start, Listed
    <3> QED
      BY <1>1, <3>1 DEF KeepInv, RefsExact, Start
  <2>2. Starting(d) /\ UNCHANGED clientVars /\ Starting(d)' /\ Holders(d) = {}
    BY <1>0, <1>1 DEF Start, Started, Listed, clientVars, Starting
  <2>3. phase[d] = "boot" /\ phase'[d] = "attached"
    BY <1>0, <1>1 DEF Start
  <2>4. refs' = [refs EXCEPT ![d] = @ + (Job(d)' - Job(d)) + (Startup(d)' - Startup(d))]
    BY <1>0, <1>1, <2>1, <2>2, <2>3 DEF Start
  <2>5. running' = running \ {d}
    BY <1>0, <1>1 DEF Start, Listed
  <2> QED
    BY <1>1, <2>2, <2>4, <2>5, MainStep DEF Start
<1>2. CASE Insert(d)
  <2>1. Starting(d) /\ UNCHANGED clientVars /\ Starting(d)'
    BY <1>0, <1>2 DEF Insert, Started, clientVars, Starting
  <2>2. refs' = [refs EXCEPT ![d] = @ + (Job(d)' - Job(d)) + (Startup(d)' - Startup(d))]
    BY <1>0, <1>2, <2>1 DEF Insert
  <2> QED
    BY <1>2, <2>1, <2>2, MainStep DEF Insert
<1>3. CASE Report(d)
  <2>1. Starting(d) /\ UNCHANGED clientVars /\ Starting(d)'
    BY <1>0, <1>3 DEF Report, Started, clientVars, Starting
  <2>2. refs' = [refs EXCEPT ![d] = @ + (Job(d)' - Job(d)) + (Startup(d)' - Startup(d))]
    BY <1>0, <1>3, <2>1 DEF Report
  <2>3. running' = running \union {d}
    BY <1>0, <1>3 DEF Report, Listed
  <2> QED
    BY <1>3, <2>1, <2>2, <2>3, MainStep DEF Report
<1>4. ASSUME NEW p \in {"fn", "loop", "zero", "alone", "asleep"},
             NEW q \in {"loop", "zero", "alone", "asleep"},
             Moves(d, p, q), UNCHANGED clientVars, UNCHANGED running,
             refs' = [refs EXCEPT ![d] = @ - IF p = "fn" THEN 1 ELSE 0]
      PROVE  KeepInv'
  <2>1. Starting(d)' <=> Starting(d)
    BY <1>4 DEF clientVars, Starting
  <2>2. phase[d] = p /\ phase'[d] = q
    BY <1>0, <1>4
  <2>3. refs' = [refs EXCEPT ![d] = @ + (Job(d)' - Job(d)) + (Startup(d)' - Startup(d))]
    <3>1. Startup(d)' = Startup(d) /\ Startup(d) \in Int
      BY <2>1, <2>2
    <3>2. Job(d)' - Job(d) = 0 - (IF p = "fn" THEN 1 ELSE 0)
      <4>1. Job(d)' = 0
        BY <2>2
      <4>2. Job(d) = IF p = "fn" THEN 1 ELSE 0
        BY <2>2
      <4> QED
        BY <4>1, <4>2
    <3>3. (Job(d)' - Job(d)) + (Startup(d)' - Startup(d)) = 0 - (IF p = "fn" THEN 1 ELSE 0)
      <4>. HIDE DEF Job, Startup
      <4> QED
        BY <3>1, <3>2
    <3>4. refs[d] + (Job(d)' - Job(d)) + (Startup(d)' - Startup(d))
            = refs[d] - (IF p = "fn" THEN 1 ELSE 0)
      <4>1. Job(d) \in Int /\ Job(d)' \in Int
        OBVIOUS
      <4>. HIDE DEF Job, Startup
      <4> QED
        BY <1>0, <3>1, <3>3, <4>1
    <3>. HIDE DEF Job, Startup
    <3> QED
      BY <1>4, <3>4
  <2>4. running' = running \union {d}
    BY <1>0, <1>4 DEF Listed
  <2> QED
    BY <1>4, <2>3, <2>4, MainStep
<1>5. ASSUME NEW p \in {"alone", "unreachable", "terminated"},
             NEW q \in {"unreachable", "terminated", "gone"},
             Moves(d, p, q), UNCHANGED <<clientVars, refs>>, running' = running \ {d},
             ~Starting(d), Holders(d) = {}
      PROVE  KeepInv'
  <2>1. ~Starting(d)'
    BY <1>5 DEF clientVars, Starting
  <2>2. phase[d] = p /\ phase'[d] = q
    BY <1>0, <1>5
  <2>3. refs' = [refs EXCEPT ![d] = @ + (Job(d)' - Job(d)) + (Startup(d)' - Startup(d))]
    BY <1>0, <1>5, <2>1, <2>2
  <2> QED
    BY <1>5, <2>3, MainStep
<1>6. CASE FnDone(d)
  BY <1>4, <1>6 DEF FnDone
<1>7. CASE CheckRefs(d) \/ CheckAny(d) \/ WakeUp(d) \/ IoWakeUp(d)
  <2>1. refs' = [refs EXCEPT ![d] = @ - 0]
    BY <1>0, <1>7 DEF CheckRefs, CheckAny, WakeUp, IoWakeUp
  <2> QED
    BY <1>4, <1>7, <2>1 DEF CheckRefs, CheckAny, WakeUp, IoWakeUp
<1>8. CASE Unreachable(d)
  <2>1. CASE refs[d] > 0
    <3>1. refs' = [refs EXCEPT ![d] = @ - 0]
      BY <1>0, <1>8 DEF Unreachable
    <3> QED
      BY <1>4, <1>8, <2>1, <3>1 DEF Unreachable
  <2>2. CASE ~(refs[d] > 0)
    <3>1. refs[d] <= 0 /\ phase[d] = "alone"
      BY <1>0, <1>8, <2>2 DEF Unreachable
    <3>2. ~Starting(d) /\ Holders(d) = {}
      BY <3>1, ZeroRefs
    <3> QED
      BY <1>5, <1>8, <2>2, <3>2 DEF Unreachable
  <2> QED
    BY <2>1, <2>2
<1>9. CASE Terminate(d) \/ Destroy(d)
  <2>1. ~Starting(d) /\ Holders(d) = {} /\ d \notin running
    BY <1>0, <1>9 DEF Terminate, Destroy, HandleKeepsAlive, Terminates, Holders, Listed
  <2> QED
    BY <1>5, <1>9, <2>1 DEF Terminate, Destroy
<1>10. CASE WaitBegin(d) \/ WaitReturn(d)
  <2>1. PICK p, q \in {"fn", "waiting"} : Moves(d, p, q)
    BY <1>10 DEF WaitBegin, WaitReturn
  <2>2. UNCHANGED <<clientVars, refs, running>> /\ running' = running \union {d}
    BY <1>0, <1>10, <2>1 DEF WaitBegin, WaitReturn, Listed
  <2>3. phase[d] = p /\ phase'[d] = q /\ (Starting(d)' <=> Starting(d))
    BY <1>0, <2>1, <2>2 DEF clientVars, Starting
  <2>4. refs' = [refs EXCEPT ![d] = @ + (Job(d)' - Job(d)) + (Startup(d)' - Startup(d))]
    BY <1>0, <2>2, <2>3
  <2> QED
    BY <2>1, <2>2, <2>4, MainStep
<1> QED
  BY <1>1, <1>2, <1>3, <1>6, <1>7, <1>8, <1>9, <1>10 DEF ThreadMain

\* How the handles of one client change the holders of an OS thread.
LEMMA HoldersChange ==
  ASSUME NEW c \in Clients, NEW S, handles \in [Clients -> SUBSET Threads],
         handles' = [handles EXCEPT ![c] = S], NEW d \in Threads
  PROVE  /\ d \in S \ handles[c] =>
              Cardinality(Holders(d)') = Cardinality(Holders(d)) + 1
         /\ d \in handles[c] \ S =>
              Cardinality(Holders(d)') = Cardinality(Holders(d)) - 1
         /\ (d \in S <=> d \in handles[c]) => Holders(d)' = Holders(d)
<1>1. IsFiniteSet(Holders(d)) /\ Cardinality(Holders(d)) \in Nat
  BY HoldersFinite
<1>2. ASSUME d \in S \ handles[c]
      PROVE  Cardinality(Holders(d)') = Cardinality(Holders(d)) + 1
  <2>1. Holders(d)' = Holders(d) \union {c} /\ c \notin Holders(d)
    BY <1>2 DEF Holders
  <2> QED
    BY <1>1, <2>1, FS_AddElement
<1>3. ASSUME d \in handles[c] \ S
      PROVE  Cardinality(Holders(d)') = Cardinality(Holders(d)) - 1
  <2>1. Holders(d)' = Holders(d) \ {c} /\ c \in Holders(d)
    BY <1>3 DEF Holders
  <2> QED
    BY <1>1, <2>1, FS_RemoveElement
<1>4. (d \in S <=> d \in handles[c]) => Holders(d)' = Holders(d)
  BY DEF Holders
<1> QED
  BY <1>2, <1>3, <1>4

\* A step that changes the handles of one client: the references follow.
LEMMA HandleStep ==
  ASSUME KeepInv, LifeTypes', Started', UNCHANGED <<phase, running>>,
         \A e \in Threads : Starting(e)' => Starting(e),
         NEW c \in Clients, NEW S,
         handles' = [handles EXCEPT ![c] = S],
         \A e \in Threads :
           refs'[e] = refs[e] + (IF e \in S \ handles[c] THEN 1 ELSE 0)
                              - (IF e \in handles[c] \ S THEN 1 ELSE 0)
                              + (Startup(e)' - Startup(e)),
         \A e \in S \ handles[c] : phase[e] \notin {"none", "boot", "attached"}
                                   /\ ~Terminates(e)
  PROVE  KeepInv'
<1>1. handles \in [Clients -> SUBSET Threads] /\ refs \in [Threads -> Int]
  BY DEF KeepInv, LifeTypes
<1>2. RefsExact'
  <2>. SUFFICES ASSUME NEW e \in Threads
                PROVE  refs'[e] = Cardinality(Holders(e)') + Job(e)' + Startup(e)'
    BY DEF RefsExact
  <2>1. refs[e] = Cardinality(Holders(e)) + Job(e) + Startup(e)
    BY DEF KeepInv, RefsExact
  <2>2. /\ Job(e) \in Int /\ Job(e)' = Job(e)
        /\ Startup(e) \in Int /\ Startup(e)' \in Int
        /\ Cardinality(Holders(e)) \in Nat
    BY HoldersFinite DEF Job, Startup
  <2>3. CASE e \in S \ handles[c]
    <3>1. Cardinality(Holders(e)') = Cardinality(Holders(e)) + 1
      BY <1>1, <2>3, HoldersChange
    <3>2. refs'[e] = refs[e] + (Startup(e)' - Startup(e)) + 1
      BY <1>1, <2>2, <2>3
    <3> QED
      BY <2>1, <2>2, <3>1, <3>2
  <2>4. CASE e \in handles[c] \ S
    <3>1. Cardinality(Holders(e)') = Cardinality(Holders(e)) - 1
      BY <1>1, <2>4, HoldersChange
    <3>2. refs'[e] = refs[e] + (Startup(e)' - Startup(e)) - 1
      BY <1>1, <2>2, <2>4
    <3> QED
      BY <2>1, <2>2, <3>1, <3>2
  <2>5. CASE e \in S <=> e \in handles[c]
    <3>1. Holders(e)' = Holders(e)
      BY <1>1, <2>5, HoldersChange
    <3>2. refs'[e] = refs[e] + (Startup(e)' - Startup(e))
      BY <1>1, <2>2, <2>5
    <3> QED
      BY <2>1, <2>2, <3>1, <3>2
  <2> QED
    BY <2>3, <2>4, <2>5
<1>3. Listed'
  BY <1>1 DEF KeepInv, Listed, Holders
<1>4. HandleKeepsAlive'
  <2>1. \A b \in Clients, e \in Threads :
          e \in handles'[b] => e \in handles[b] \/ e \in S \ handles[c]
    BY <1>1
  <2> QED
    BY <2>1 DEF KeepInv, HandleKeepsAlive, Terminates, Starting
<1> QED
  BY <1>2, <1>3, <1>4 DEF KeepInv

LEMMA NewThreadKeeps ==
  ASSUME KeepInv, LifeTypes', NEW c \in Clients, NEW d \in Threads, NewThread(c, d)
  PROVE  KeepInv'
<1>0. /\ phase \in [Threads -> Phases] /\ cpc \in [Clients -> CPCs]
      /\ carg \in [Clients -> Threads \union {NoThread}]
      /\ Started /\ Listed /\ HandleKeepsAlive
  BY DEF KeepInv, LifeTypes
<1>1. /\ phase[d] = "none" /\ phase' = [phase EXCEPT ![d] = "boot"]
      /\ cpc[c] = "idle" /\ cpc' = [cpc EXCEPT ![c] = "starting"]
      /\ carg' = [carg EXCEPT ![c] = d]
      /\ UNCHANGED <<refs, running, handles>>
  BY DEF NewThread, Moves, Client, dataVars, groupVars
<1>2. ~Starting(d) /\ Starting(d)' /\ Holders(d) = {}
  BY <1>0, <1>1 DEF Started, Starting, Listed
<1>3. \A e \in Threads \ {d} : Starting(e)' <=> Starting(e)
  BY <1>0, <1>1 DEF Starting
<1>4. \A e \in Threads : Holders(e)' = Holders(e)
  BY <1>1 DEF Holders
<1>5. phase'[d] = "boot" /\ \A e \in Threads \ {d} : phase'[e] = phase[e]
  BY <1>0, <1>1
<1>6. Started'
  <2>1. \A b \in Clients : cpc[b] = "starting" => carg[b] # d
    BY <1>2 DEF Starting
  <2>2. \A a, b \in Clients :
          cpc'[a] = "starting" /\ cpc'[b] = "starting" /\ carg'[a] = carg'[b] => a = b
    BY <1>0, <1>1, <2>1 DEF Started
  <2>3. \A e \in Threads : Starting(e)' => phase'[e] # "none"
    BY <1>0, <1>3, <1>5 DEF Started
  <2>4. \A e \in Threads : phase'[e] \in {"boot", "attached", "report"} => Starting(e)'
    BY <1>0, <1>2, <1>3, <1>5 DEF Started
  <2> QED
    BY <2>2, <2>3, <2>4 DEF Started
<1>7. Listed'
  BY <1>0, <1>1, <1>2, <1>4, <1>5 DEF Listed
<1>8. RefsExact'
  <2>1. \A e \in Threads : Job(e)' = Job(e) /\ Startup(e)' = Startup(e)
    BY <1>1, <1>3, <1>5 DEF Job, Startup
  <2> QED
    BY <1>1, <1>4, <2>1 DEF KeepInv, RefsExact
<1>9. HandleKeepsAlive'
  BY <1>0, <1>1, <1>3, <1>5 DEF HandleKeepsAlive, Terminates
<1> QED
  BY <1>6, <1>7, <1>8, <1>9 DEF KeepInv

LEMMA AdoptKeeps ==
  ASSUME KeepInv, LifeTypes', NEW c \in Clients, Adopt(c)
  PROVE  KeepInv'
<1>a. PICK d \in Threads : d = carg[c]
  BY DEF Adopt, Client, KeepInv, LifeTypes
<1>0. /\ phase \in [Threads -> Phases] /\ cpc \in [Clients -> CPCs]
      /\ refs \in [Threads -> Int] /\ handles \in [Clients -> SUBSET Threads]
      /\ carg \in [Clients -> Threads \union {NoThread}]
      /\ Started /\ Listed /\ HandleKeepsAlive
  BY DEF KeepInv, LifeTypes
<1>1. /\ cpc[c] = "starting" /\ cpc' = [cpc EXCEPT ![c] = "idle"]
      /\ carg' = [carg EXCEPT ![c] = NoThread]
      /\ phase[d] \notin {"boot", "attached", "report"}
      /\ refs' = [refs EXCEPT ![d] = @ - IF d \in handles[c] THEN 2 ELSE 1]
      /\ handles' = [handles EXCEPT ![c] = handles[c] \union {d}]
      /\ UNCHANGED <<phase, running>>
  BY <1>a, <1>0 DEF Adopt, Client, groupVars
<1>2. Starting(d) /\ ~Starting(d)' /\ phase[d] # "none"
  <2>1. Starting(d)
    BY <1>a, <1>1 DEF Starting
  <2>2. \A b \in Clients : cpc'[b] = "starting" => carg'[b] # d
    BY <1>a, <1>0, <1>1 DEF Started
  <2> QED
    BY <1>0, <1>1, <2>1, <2>2 DEF Starting, Started
<1>3. \A e \in Threads \ {d} : Starting(e)' <=> Starting(e)
  BY <1>a, <1>0, <1>1 DEF Starting
<1>4. Started'
  BY <1>0, <1>1, <1>2, <1>3 DEF Started
<1>5. \A e \in Threads : Startup(e)' - Startup(e) = IF e = d THEN 0 - 2 ELSE 0
  BY <1>1, <1>2, <1>3 DEF Startup
<1>6. ASSUME NEW e \in Threads
      PROVE  refs'[e] = refs[e]
               + (IF e \in (handles[c] \union {d}) \ handles[c] THEN 1 ELSE 0)
               - (IF e \in handles[c] \ (handles[c] \union {d}) THEN 1 ELSE 0)
               + (Startup(e)' - Startup(e))
  BY <1>0, <1>1, <1>5
<1>7. ~Terminates(d) /\ phase[d] \notin {"none", "boot", "attached"}
  BY <1>0, <1>1, <1>2 DEF HandleKeepsAlive
<1>8. \A e \in Threads : Starting(e)' => Starting(e)
  BY <1>2, <1>3
<1>9. \A e \in (handles[c] \union {d}) \ handles[c] :
        phase[e] \notin {"none", "boot", "attached"} /\ ~Terminates(e)
  BY <1>7
<1> QED
  BY <1>1, <1>4, <1>6, <1>8, <1>9, HandleStep

\* The calls that hand out a Thread or give one up.
LEMMA HandOver ==
  ASSUME KeepInv, LifeTypes', NEW c \in Clients, NEW d \in Threads,
         Release(c, d) \/ UThreadShares(d, c)
  PROVE  KeepInv'
<1>0. /\ phase \in [Threads -> Phases] /\ cpc \in [Clients -> CPCs]
      /\ refs \in [Threads -> Int] /\ handles \in [Clients -> SUBSET Threads]
      /\ Started /\ Listed /\ HandleKeepsAlive
  BY DEF KeepInv, LifeTypes
<1>1. UNCHANGED <<phase, running>>
  BY DEF Release, UThreadShares, groupVars
<1>2. /\ \A b \in Clients : cpc'[b] = "starting" <=> cpc[b] = "starting"
      /\ \A b \in Clients : cpc[b] = "starting" => carg'[b] = carg[b]
  BY <1>0 DEF Release, UThreadShares, Client, CPCs, KeepInv, LifeTypes
<1>3. \A e \in Threads : Starting(e)' <=> Starting(e)
  BY <1>2 DEF Starting
<1>4. Started'
  BY <1>0, <1>1, <1>2, <1>3 DEF Started
<1>5. \A e \in Threads : Startup(e)' - Startup(e) = 0
  BY <1>1, <1>3 DEF Startup
<1>6. CASE Release(c, d)
  <2>1. /\ d \in handles[c] /\ handles' = [handles EXCEPT ![c] = handles[c] \ {d}]
        /\ refs' = [refs EXCEPT ![d] = @ - 1]
    BY <1>0, <1>6 DEF Release
  <2>2. PICK S : S = handles[c] \ {d}
    OBVIOUS
  <2>3. /\ \A e \in Threads :
             refs'[e] = refs[e] + (IF e \in S \ handles[c] THEN 1 ELSE 0)
                                - (IF e \in handles[c] \ S THEN 1 ELSE 0)
                                + (Startup(e)' - Startup(e))
        /\ \A e \in S \ handles[c] :
             phase[e] \notin {"none", "boot", "attached"} /\ ~Terminates(e)
    BY <1>0, <1>5, <2>1, <2>2
  <2>4. handles' = [handles EXCEPT ![c] = S]
    BY <2>1, <2>2
  <2> QED
    BY <1>1, <1>3, <1>4, <2>3, <2>4, HandleStep
<1>7. CASE UThreadShares(d, c)
  <2>1. /\ d \notin handles[c] /\ phase[d] \in {"fn", "loop"}
        /\ handles' = [handles EXCEPT ![c] = handles[c] \union {d}]
        /\ refs' = [refs EXCEPT ![d] = @ + 1]
    BY <1>0, <1>7 DEF UThreadShares, RunsUThread
  <2>2. \A e \in Threads :
          refs'[e] = refs[e] + (IF e \in (handles[c] \union {d}) \ handles[c] THEN 1 ELSE 0)
                             - (IF e \in handles[c] \ (handles[c] \union {d}) THEN 1 ELSE 0)
                             + (Startup(e)' - Startup(e))
    BY <1>0, <1>5, <2>1
  <2>3. \A e \in (handles[c] \union {d}) \ handles[c] :
          phase[e] \notin {"none", "boot", "attached"} /\ ~Terminates(e)
    BY <2>1 DEF Terminates
  <2> QED
    BY <1>1, <1>3, <1>4, <2>1, <2>2, <2>3, HandleStep
<1> QED
  BY <1>6, <1>7

LEMMA ListKeeps ==
  ASSUME KeepInv, LifeTypes', NEW c \in Clients, ListThreads(c)
  PROVE  KeepInv'
<1>0. /\ phase \in [Threads -> Phases]
      /\ refs \in [Threads -> Int] /\ handles \in [Clients -> SUBSET Threads]
      /\ running \subseteq Threads /\ Started /\ Listed
  BY DEF KeepInv, LifeTypes
<1>1. UNCHANGED <<phase, running, cpc, carg>>
  BY DEF ListThreads, groupVars
<1>2. \A e \in Threads : Starting(e)' <=> Starting(e)
  BY <1>1 DEF Starting
<1>3. Started'
  BY <1>0, <1>1, <1>2 DEF Started
<1>4. \A e \in Threads : Startup(e)' - Startup(e) = 0
  BY <1>1, <1>2 DEF Startup
<1>5. handles' = [handles EXCEPT ![c] = handles[c] \union running]
  BY <1>0 DEF ListThreads
<1>6. ASSUME NEW e \in Threads
      PROVE  refs'[e] = refs[e]
               + (IF e \in (handles[c] \union running) \ handles[c] THEN 1 ELSE 0)
               - (IF e \in handles[c] \ (handles[c] \union running) THEN 1 ELSE 0)
               + (Startup(e)' - Startup(e))
  <2>1. refs'[e] = refs[e] + IF e \in running \ handles[c] THEN 1 ELSE 0
    BY DEF ListThreads
  <2> QED
    BY <1>0, <1>4, <2>1
<1>7. \A e \in running : ~Terminates(e) /\ phase[e] \notin {"none", "boot", "attached"}
  BY <1>0 DEF Listed, Terminates
<1> QED
  BY <1>1, <1>2, <1>3, <1>5, <1>6, <1>7, HandleStep

LEMMA KeepStep == KeepInv /\ [Next]_vars => KeepInv'
<1> SUFFICES ASSUME KeepInv, [Next]_vars PROVE KeepInv'
  OBVIOUS
<1>1. LifeTypes'
  BY StepTypes DEF KeepInv
<1>2. /\ cpc \in [Clients -> CPCs]
      /\ \A c \in Clients : cpc[c] \in {"starting", "zero", "push", "signal", "rouse"}
                            => carg[c] \in Threads
  BY DEF KeepInv, LifeTypes
<1>3. CASE UNCHANGED vars
  BY <1>1, <1>3, OtherStep DEF vars, waitVars, dataVars, groupVars, clientVars
<1>4. ASSUME NEW d \in Threads, ThreadMain(d) \/ IoWakeUp(d) PROVE KeepInv'
  BY <1>1, <1>4, MainKeeps
<1>5. ASSUME NEW d \in Threads, ThreadCode(d) PROVE KeepInv'
  <2>1. CASE FnDone(d) \/ WaitBegin(d) \/ WaitReturn(d)
    BY <1>1, <2>1, MainKeeps
  <2>2. CASE FnWaits(d) \/ UThreadExits(d) \/ UThreadBlocks(d)
    BY <1>1, <2>2, OtherStep
    DEF FnWaits, UThreadExits, UThreadBlocks, groupVars, clientVars
  <2>3. ASSUME NEW c \in Clients, UThreadShares(d, c) PROVE KeepInv'
    BY <1>1, <2>3, HandOver
  <2> QED
    BY <1>5, <2>1, <2>2, <2>3 DEF ThreadCode
<1>6. ASSUME NEW c \in Clients, InCall(c) \/ ListThreads(c) PROVE KeepInv'
  <2>1. CASE Adopt(c)
    BY <1>1, <2>1, AdoptKeeps
  <2>2. CASE ListThreads(c)
    BY <1>1, <2>2, ListKeeps
  <2>3. CASE Push(c) \/ Signal(c) \/ Rouse(c)
    <3>1. /\ UNCHANGED <<phase, refs, running, handles>>
          /\ \A b \in Clients : cpc[b] = "starting" <=> cpc'[b] = "starting"
          /\ \A b \in Clients : cpc[b] = "starting" => carg'[b] = carg[b]
      BY <1>2, <2>3 DEF Push, Signal, Rouse, Client, dataVars, groupVars, KeepInv, LifeTypes
    <3> QED
      BY <1>1, <3>1, OtherStep
  <2> QED
    BY <1>6, <2>1, <2>2, <2>3 DEF InCall
<1>7. ASSUME NEW c \in Clients, NEW d \in Threads, Calls(c, d) PROVE KeepInv'
  <2>1. CASE NewThread(c, d)
    BY <1>1, <2>1, NewThreadKeeps
  <2>2. CASE Release(c, d)
    BY <1>1, <2>2, HandOver
  <2>3. CASE SpawnOn(c, d) \/ WakeUThread(c, d)
    <3>1. /\ UNCHANGED <<phase, refs, running, handles>>
          /\ \A b \in Clients : cpc[b] = "starting" <=> cpc'[b] = "starting"
          /\ \A b \in Clients : cpc[b] = "starting" => carg'[b] = carg[b]
      BY <1>2, <2>3 DEF SpawnOn, WakeUThread, Client, groupVars, KeepInv, LifeTypes
    <3> QED
      BY <1>1, <3>1, OtherStep
  <2> QED
    BY <1>7, <2>1, <2>2, <2>3 DEF Calls
<1>8. CASE JoinCall \/ Join
  <2>1. /\ UNCHANGED <<phase, refs, running, handles>>
        /\ \A b \in Clients : cpc[b] = "starting" <=> cpc'[b] = "starting"
        /\ \A b \in Clients : cpc[b] = "starting" => carg'[b] = carg[b]
    BY <1>2, <1>8, LifeAssumption
    DEF JoinCall, Join, JoinNext, JoinDown, JoinEnd, JoinReturn, Client,
        dataVars, groupVars, KeepInv, LifeTypes
  <2> QED
    BY <1>1, <2>1, OtherStep
<1> QED
  BY <1>3, <1>4, <1>5, <1>6, <1>7, <1>8 DEF Next

\* However a Thread object was obtained, from Thread::spawn, from a UThread or
\* from ThreadGroup::threads, the OS thread it refers to does not terminate
\* while it is held (Thread.cpp:231-245 with ThreadGroup.cpp:49-62).
THEOREM HandlesKeepThreadsAlive == Spec => []HandleKeepsAlive
<1>1. KeepInv => HandleKeepsAlive
  BY DEF KeepInv
<1> QED
  BY InitKeep, KeepStep, <1>1, PTL DEF Spec

-----------------------------------------------------------------------------
(* The end of an OS thread, when nobody lists the threads of the group. *)

\* Once the OS thread has seen no references there is nobody to refer to it,
\* and once it has also seen no UThreads there are none.
EndInv ==
  \A d \in Threads :
    /\ phase[d] \in {"zero", "alone", "unreachable", "terminated", "gone"}
         => ~Starting(d) /\ \A c \in Clients : d \notin handles[c]
    /\ phase[d] \in {"alone", "unreachable", "terminated", "gone"} => alive[d] = 0

\* A step that neither moves an OS thread, nor adds handles, starts or UThreads.
LEMMA EndOther ==
  ASSUME EndInv, UNCHANGED phase,
         \A d \in Threads : Starting(d)' => Starting(d),
         \A c \in Clients : handles'[c] \subseteq handles[c],
         alive' = alive
  PROVE  EndInv'
BY DEF EndInv

\* A step of d itself, to q.
LEMMA EndMoves ==
  ASSUME KeepInv, EndInv, NEW d \in Threads, NEW p, NEW q, Moves(d, p, q),
         UNCHANGED <<handles, cpc, carg, alive>>,
         q \in {"zero", "alone", "unreachable", "terminated", "gone"}
           => ~Starting(d) /\ \A c \in Clients : d \notin handles[c],
         q \in {"alone", "unreachable", "terminated", "gone"} => alive[d] = 0
  PROVE  EndInv'
<1>1. phase'[d] = q /\ \A e \in Threads \ {d} : phase'[e] = phase[e]
  BY DEF Moves, KeepInv, LifeTypes
<1>2. \A e \in Threads : Starting(e)' <=> Starting(e)
  BY DEF Starting
<1> QED
  BY <1>1, <1>2 DEF EndInv

LEMMA EndMain ==
  ASSUME KeepInv, EndInv, NEW d \in Threads,
         ThreadMain(d) \/ IoWakeUp(d) \/ FnDone(d) \/ WaitBegin(d) \/ WaitReturn(d)
  PROVE  EndInv'
<1> USE DEF Moves, waitVars, dataVars, groupVars, clientVars
<1>1. CASE Start(d)
  BY <1>1, EndMoves DEF Start
<1>2. CASE Insert(d)
  BY <1>2, EndMoves DEF Insert
<1>3. CASE Report(d)
  BY <1>3, EndMoves DEF Report
<1>4. CASE CheckRefs(d)
  <2>1. CASE refs[d] = 0
    <3>1. Holders(d) = {} /\ ~Starting(d)
      BY <1>4, <2>1, ZeroRefs DEF CheckRefs
    <3> QED
      BY <1>4, <2>1, <3>1, EndMoves DEF CheckRefs, Holders
  <2>2. CASE refs[d] # 0
    BY <1>4, <2>2, EndMoves DEF CheckRefs
  <2> QED
    BY <2>1, <2>2
<1>5. CASE CheckAny(d)
  <2>1. CASE alive[d] = 0
    BY <1>5, <2>1, EndMoves DEF CheckAny, EndInv
  <2>2. CASE alive[d] # 0
    BY <1>5, <2>2, EndMoves DEF CheckAny
  <2> QED
    BY <2>1, <2>2
<1>6. CASE Unreachable(d)
  <2>1. CASE refs[d] > 0
    BY <1>6, <2>1, EndMoves DEF Unreachable
  <2>2. CASE ~(refs[d] > 0)
    BY <1>6, <2>2, EndMoves DEF Unreachable, EndInv
  <2> QED
    BY <2>1, <2>2
<1>7. CASE Terminate(d)
  BY <1>7, EndMoves DEF Terminate, EndInv
<1>8. CASE Destroy(d)
  BY <1>8, EndMoves DEF Destroy, EndInv
<1>9. CASE WakeUp(d)
  BY <1>9, EndMoves DEF WakeUp
<1>10. CASE IoWakeUp(d)
  BY <1>10, EndMoves DEF IoWakeUp
<1>11. CASE FnDone(d)
  BY <1>11, EndMoves DEF FnDone
<1>12. CASE WaitBegin(d)
  BY <1>12, EndMoves DEF WaitBegin
<1>13. CASE WaitReturn(d)
  BY <1>13, EndMoves DEF WaitReturn
<1> QED
  BY <1>1, <1>2, <1>3, <1>4, <1>5, <1>6, <1>7, <1>8, <1>9, <1>10, <1>11, <1>12, <1>13
  DEF ThreadMain

LEMMA EndCalls ==
  ASSUME KeepInv, EndInv, NEW c \in Clients,
         InCall(c) \/ (\E d \in Threads : Calls(c, d))
  PROVE  EndInv'
<1>0. /\ phase \in [Threads -> Phases] /\ handles \in [Clients -> SUBSET Threads]
      /\ alive \in [Threads -> Int] /\ cpc \in [Clients -> CPCs]
      /\ carg \in [Clients -> Threads \union {NoThread}]
      /\ \A b \in Clients : cpc[b] = "starting" => carg[b] \in Threads
  BY DEF KeepInv, LifeTypes
<1> USE DEF waitVars, dataVars, groupVars
<1>1. CASE Adopt(c)
  <2>1. PICK d \in Threads : d = carg[c]
    BY <1>0, <1>1 DEF Adopt, Client
  <2>2. Starting(d) /\ \A e \in Threads : Starting(e)' => Starting(e)
    BY <1>0, <1>1, <2>1 DEF Adopt, Client, Starting
  <2>3. UNCHANGED <<phase, alive>> /\ handles' = [handles EXCEPT ![c] = @ \union {d}]
    BY <1>1, <2>1 DEF Adopt
  <2>4. \A b \in Clients, e \in Threads : e \in handles'[b] => e \in handles[b] \/ e = d
    BY <1>0, <2>3
  <2> QED
    BY <2>2, <2>3, <2>4 DEF EndInv
<1>2. CASE Push(c) \/ Signal(c) \/ Rouse(c)
  <2>1. \A e \in Threads : Starting(e)' => Starting(e)
    BY <1>0, <1>2 DEF Push, Signal, Rouse, Client, Starting
  <2> QED
    BY <1>2, <2>1, EndOther DEF Push, Signal, Rouse
<1>3. ASSUME NEW d \in Threads, NewThread(c, d) PROVE EndInv'
  <2>1. phase' = [phase EXCEPT ![d] = "boot"] /\ UNCHANGED <<handles, alive>>
    BY <1>3 DEF NewThread, Moves
  <2>2. \A e \in Threads \ {d} : Starting(e)' => Starting(e)
    BY <1>0, <1>3 DEF NewThread, Client, Starting
  <2> QED
    BY <1>0, <2>1, <2>2 DEF EndInv
<1>4. ASSUME NEW d \in Threads, Release(c, d) PROVE EndInv'
  <2>1. \A e \in Threads : Starting(e)' => Starting(e)
    BY <1>0, <1>4 DEF Release, Client, Starting
  <2>2. UNCHANGED <<phase, alive>> /\ \A b \in Clients : handles'[b] \subseteq handles[b]
    BY <1>0, <1>4 DEF Release
  <2> QED
    BY <2>1, <2>2, EndOther
<1>5. ASSUME NEW d \in Threads, SpawnOn(c, d) PROVE EndInv'
  <2>1. \A e \in Threads : Starting(e)' => Starting(e)
    BY <1>0, <1>5 DEF SpawnOn, Client, Starting
  <2>2. /\ UNCHANGED <<phase, handles>> /\ d \in handles[c]
        /\ \A e \in Threads \ {d} : alive'[e] = alive[e]
    BY <1>0, <1>5 DEF SpawnOn
  <2> QED
    BY <2>1, <2>2 DEF EndInv
<1>6. ASSUME NEW d \in Threads, WakeUThread(c, d) PROVE EndInv'
  <2>1. \A e \in Threads : Starting(e)' => Starting(e)
    BY <1>0, <1>6 DEF WakeUThread, Client, Starting
  <2> QED
    BY <1>6, <2>1, EndOther DEF WakeUThread
<1> QED
  BY <1>1, <1>2, <1>3, <1>4, <1>5, <1>6 DEF InCall, Calls

LEMMA EndStep ==
  ASSUME Listers = {}
  PROVE  KeepInv /\ EndInv /\ [Next]_vars => EndInv'
<1> SUFFICES ASSUME KeepInv, EndInv, [Next]_vars PROVE EndInv'
  OBVIOUS
<1>0. /\ phase \in [Threads -> Phases] /\ handles \in [Clients -> SUBSET Threads]
      /\ alive \in [Threads -> Int] /\ cpc \in [Clients -> CPCs]
  BY DEF KeepInv, LifeTypes
<1>1. CASE UNCHANGED vars
  BY <1>1, EndOther DEF vars, waitVars, dataVars, groupVars, clientVars, Starting
<1>2. ASSUME NEW d \in Threads, ThreadMain(d) \/ IoWakeUp(d) PROVE EndInv'
  BY <1>2, EndMain
<1>3. ASSUME NEW d \in Threads, ThreadCode(d) PROVE EndInv'
  <2>1. CASE FnDone(d) \/ WaitBegin(d) \/ WaitReturn(d)
    BY <2>1, EndMain
  <2>2. CASE FnWaits(d)
    BY <2>2, EndOther DEF FnWaits, clientVars, Starting
  <2>3. CASE UThreadExits(d) \/ UThreadBlocks(d)
    <3>1. /\ phase[d] \in {"fn", "loop"} /\ UNCHANGED <<phase, handles, cpc, carg>>
          /\ \A e \in Threads \ {d} : alive'[e] = alive[e]
      BY <1>0, <2>3 DEF UThreadExits, UThreadBlocks, RunsUThread, clientVars
    <3> QED
      BY <3>1 DEF EndInv, Starting
  <2>4. ASSUME NEW c \in Clients, UThreadShares(d, c) PROVE EndInv'
    <3>1. /\ phase[d] \in {"fn", "loop"} /\ UNCHANGED <<phase, alive, cpc, carg>>
          /\ \A b \in Clients, e \in Threads :
               e \in handles'[b] => e \in handles[b] \/ e = d
      BY <1>0, <2>4 DEF UThreadShares, RunsUThread
    <3> QED
      BY <3>1 DEF EndInv, Starting
  <2> QED
    BY <1>3, <2>1, <2>2, <2>3, <2>4 DEF ThreadCode
<1>4. ASSUME NEW c \in Clients, InCall(c) \/ (\E d \in Threads : Calls(c, d)) PROVE EndInv'
  BY <1>4, EndCalls
<1>5. \A c \in Clients : ~ListThreads(c)
  BY DEF ListThreads
<1>6. CASE JoinCall \/ Join
  <2>1. UNCHANGED <<phase, handles, alive>>
    BY <1>6 DEF JoinCall, Join, JoinNext, JoinDown, JoinEnd, JoinReturn,
                dataVars, groupVars
  <2>2. PICK q \in {"idle", "joining", "joinDown", "joined"} :
            /\ cpc' = [cpc EXCEPT ![Joiner] = q]
            /\ carg' = [carg EXCEPT ![Joiner] = NoThread]
    BY <1>6 DEF JoinCall, Join, JoinNext, JoinDown, JoinEnd, JoinReturn, Client
  <2>3. \A c \in Clients : cpc'[c] = "starting" => cpc[c] = "starting" /\ carg'[c] = carg[c]
    BY <1>0, <2>2 DEF KeepInv, LifeTypes
  <2>4. \A e \in Threads : Starting(e)' => Starting(e)
    BY <2>3 DEF Starting
  <2> QED
    BY <2>1, <2>4, EndOther
<1> QED
  BY <1>1, <1>2, <1>3, <1>4, <1>5, <1>6 DEF Next

\* What threads_list refutes is due to ThreadGroup::threads alone: as long as
\* nobody calls it, an OS thread terminates only when none of its UThreads is
\* left, as UThread.cpp:366 asserts.
THEOREM NobodyLeftBehind ==
  ASSUME Listers = {}
  PROVE  Spec => []TerminatesAlone
<1>1. Init => EndInv
  BY DEF Init, EndInv
<1>2. EndInv => TerminatesAlone
  BY DEF EndInv, TerminatesAlone, Terminates
<1>3. KeepInv /\ EndInv /\ [Next]_vars => EndInv'
  BY EndStep
<1> QED
  BY InitKeep, KeepStep, <1>1, <1>2, <1>3, PTL DEF Spec

-----------------------------------------------------------------------------
(* ThreadGroup::join *)

\* The OS threads that the group has counted and that have not reported their
\* end.
Live ==
  {d \in Threads : phase[d] \in {"attached", "report", "fn", "waiting", "loop", "zero",
                                 "alone", "asleep", "unreachable"}}

\* attached less sema is the number of live threads, but for the one that join
\* has counted already and still waits for.
JoinInv ==
  /\ attached + (IF cpc[Joiner] = "joinDown" THEN 1 ELSE 0) = Cardinality(Live) + sema
  /\ cpc[Joiner] \in {"joining", "joinDown", "joined"} => \A d \in Threads : ~Starting(d)
  /\ cpc[Joiner] = "joined" => attached = 0

LEMMA LiveFinite == IsFiniteSet(Live) /\ Cardinality(Live) \in Nat
<1>1. Live \subseteq Threads
  BY DEF Live
<1> QED
  BY <1>1, LifeAssumption, FS_Subset, FS_CardinalityType

\* A step that is no part of join and counts nobody.
LEMMA JoinOther ==
  ASSUME JoinInv, UNCHANGED <<attached, sema>>, Live' = Live,
         cpc'[Joiner] \in {"joining", "joinDown", "joined"} => cpc'[Joiner] = cpc[Joiner],
         cpc[Joiner] = "joinDown" => cpc'[Joiner] = "joinDown",
         cpc'[Joiner] \in {"joining", "joinDown", "joined"}
           => \A d \in Threads : Starting(d)' => Starting(d)
  PROVE  JoinInv'
BY DEF JoinInv

LEMMA JoinMain ==
  ASSUME KeepInv, JoinInv, NEW d \in Threads,
         ThreadMain(d) \/ IoWakeUp(d) \/ FnDone(d) \/ WaitBegin(d) \/ WaitReturn(d)
  PROVE  JoinInv'
<1>0. /\ phase \in [Threads -> Phases] /\ attached \in Nat /\ sema \in Nat
      /\ Started
  BY DEF KeepInv, LifeTypes
<1>1. UNCHANGED clientVars /\ \A e \in Threads : Starting(e)' <=> Starting(e)
  BY DEF ThreadMain, Start, Insert, Report, CheckRefs, CheckAny, Unreachable,
         Terminate, Destroy, WakeUp, IoWakeUp, FnDone, WaitBegin, WaitReturn,
         clientVars, Starting
<1> USE DEF Moves, waitVars, dataVars, groupVars
<1>2. CASE Start(d)
  <2>1. attached' = attached + 1 /\ sema' = sema
    BY <1>2 DEF Start
  <2>2. Live' = Live \union {d} /\ d \notin Live
    BY <1>0, <1>2 DEF Start, Live
  <2>3. Cardinality(Live') = Cardinality(Live) + 1
    BY <2>2, LiveFinite, FS_AddElement
  <2>4. Starting(d)
    BY <1>2 DEF Start, KeepInv, Started
  <2>5. cpc[Joiner] \notin {"joining", "joinDown", "joined"}
    BY <2>4 DEF JoinInv
  <2> QED
    BY <1>0, <1>1, <2>1, <2>3, <2>5, LiveFinite DEF JoinInv, clientVars
<1>3. CASE Terminate(d)
  <2>1. sema' = sema + 1 /\ attached' = attached
    BY <1>3 DEF Terminate
  <2>2. Live' = Live \ {d} /\ d \in Live
    BY <1>0, <1>3 DEF Terminate, Live
  <2>3. Cardinality(Live') = Cardinality(Live) - 1
    BY <2>2, LiveFinite, FS_RemoveElement
  <2>4. Cardinality(Live') + sema' = Cardinality(Live) + sema
    BY <1>0, <2>1, <2>3, LiveFinite
  <2> QED
    BY <1>1, <2>1, <2>4 DEF JoinInv, clientVars
<1>4. CASE ~Start(d) /\ ~Terminate(d)
  <2>1. UNCHANGED <<attached, sema>>
    BY <1>4 DEF ThreadMain, Insert, Report, CheckRefs, CheckAny, Unreachable,
                Destroy, WakeUp, IoWakeUp, FnDone, WaitBegin, WaitReturn
  <2>2. \E p, q \in Phases : Moves(d, p, q) /\ (d \in Live <=> d \in Live')
    BY <1>0, <1>4 DEF ThreadMain, Insert, Report, CheckRefs, CheckAny, Unreachable,
                      Destroy, WakeUp, IoWakeUp, FnDone, WaitBegin, WaitReturn,
                      Live, Phases
  <2>3. Live' = Live
    BY <1>0, <2>2 DEF Live
  <2> QED
    BY <1>1, <2>1, <2>3, JoinOther DEF clientVars
<1> QED
  BY <1>2, <1>3, <1>4

LEMMA JoinCalls ==
  ASSUME KeepInv, JoinInv, JoinCall \/ Join
  PROVE  JoinInv'
<1>0. /\ cpc \in [Clients -> CPCs] /\ carg \in [Clients -> Threads \union {NoThread}]
      /\ attached \in Nat /\ sema \in Nat
      /\ \A c \in Clients : cpc[c] = "starting" => carg[c] \in Threads
  BY DEF KeepInv, LifeTypes
<1>1. UNCHANGED phase /\ Live' = Live
  BY DEF JoinCall, Join, JoinNext, JoinDown, JoinEnd, JoinReturn, Live
<1>2. PICK q \in {"idle", "joining", "joinDown", "joined"} :
        /\ cpc' = [cpc EXCEPT ![Joiner] = q]
        /\ carg' = [carg EXCEPT ![Joiner] = NoThread]
  BY DEF JoinCall, Join, JoinNext, JoinDown, JoinEnd, JoinReturn, Client
<1>3. cpc'[Joiner] = q
  BY <1>0, <1>2, LifeAssumption
<1>4. \A c \in Clients : cpc'[c] = "starting" => cpc[c] = "starting" /\ carg'[c] = carg[c]
  BY <1>0, <1>2
<1>5. \A e \in Threads : Starting(e)' => Starting(e)
  BY <1>4 DEF Starting
<1> USE LiveFinite DEF Client, groupVars
<1>6. CASE JoinCall
  <2>1. cpc[Joiner] = "idle" /\ q = "joining" /\ UNCHANGED <<attached, sema>>
    BY <1>0, <1>2, <1>3, <1>6, LifeAssumption DEF JoinCall
  <2>2. \A e \in Threads : ~Starting(e)'
    BY <1>5, <1>6 DEF JoinCall, Starting
  <2> QED
    BY <1>1, <1>3, <2>1, <2>2 DEF JoinInv
<1>7. CASE JoinNext
  <2>1. cpc[Joiner] = "joining" /\ q = "joinDown" /\ attached' = attached - 1 /\ sema' = sema
    BY <1>0, <1>2, <1>3, <1>7, LifeAssumption DEF JoinNext
  <2> QED
    BY <1>0, <1>1, <1>3, <1>5, <2>1 DEF JoinInv
<1>8. CASE JoinDown
  <2>1. cpc[Joiner] = "joinDown" /\ q = "joining" /\ sema' = sema - 1 /\ attached' = attached
    BY <1>0, <1>2, <1>3, <1>8, LifeAssumption DEF JoinDown
  <2> QED
    BY <1>0, <1>1, <1>3, <1>5, <2>1 DEF JoinInv
<1>9. CASE JoinEnd
  <2>1. cpc[Joiner] = "joining" /\ q = "joined" /\ attached = 0 /\ UNCHANGED <<attached, sema>>
    BY <1>0, <1>2, <1>3, <1>9, LifeAssumption DEF JoinEnd
  <2> QED
    BY <1>0, <1>1, <1>3, <1>5, <2>1 DEF JoinInv
<1>10. CASE JoinReturn
  <2>1. cpc[Joiner] = "joined" /\ q = "idle" /\ UNCHANGED <<attached, sema>>
    BY <1>0, <1>2, <1>3, <1>10, LifeAssumption DEF JoinReturn
  <2> QED
    BY <1>1, <1>3, <2>1 DEF JoinInv
<1> QED
  BY <1>6, <1>7, <1>8, <1>9, <1>10 DEF Join

LEMMA JoinClients ==
  ASSUME KeepInv, JoinInv, NEW c \in Clients,
         \/ InCall(c) \/ ListThreads(c)
         \/ \E d \in Threads : Calls(c, d) \/ UThreadShares(d, c)
  PROVE  JoinInv'
<1>0. /\ phase \in [Threads -> Phases] /\ cpc \in [Clients -> CPCs]
      /\ \A b \in Clients : cpc[b] = "starting" => carg[b] \in Threads
  BY DEF KeepInv, LifeTypes
<1>1. ASSUME NEW d \in Threads, NewThread(c, d) PROVE JoinInv'
  <2>1. /\ UNCHANGED <<attached, sema>> /\ phase[d] = "none"
        /\ phase' = [phase EXCEPT ![d] = "boot"]
        /\ cpc[Joiner] \notin {"joining", "joinDown", "joined"}
        /\ cpc' = [cpc EXCEPT ![c] = "starting"]
    BY <1>1 DEF NewThread, Client, Moves, groupVars
  <2>2. Live' = Live
    BY <1>0, <2>1 DEF Live
  <2>3. cpc'[Joiner] \notin {"joining", "joinDown", "joined"}
    BY <1>0, <2>1, LifeAssumption
  <2> QED
    BY <2>1, <2>2, <2>3, JoinOther
<1>2. CASE ~\E d \in Threads : NewThread(c, d)
  <2>1. UNCHANGED <<phase, attached, sema>>
    BY <1>2 DEF InCall, Adopt, Push, Signal, Rouse, ListThreads, Calls, Release, SpawnOn,
                WakeUThread, UThreadShares, dataVars, groupVars
  <2>2. Live' = Live
    BY <2>1 DEF Live
  <2>3. \/ UNCHANGED <<cpc, carg>>
        \/ /\ \E d, p : \E q \in {"idle", "zero", "push", "signal", "rouse"} : Client(c, p, q, d)
           /\ cpc[c] \notin {"joining", "joinDown", "joined"}
    BY <1>2 DEF InCall, Adopt, Push, Signal, Rouse, ListThreads, Calls, Release, SpawnOn,
                WakeUThread, UThreadShares, Client
  <2>4. CASE UNCHANGED <<cpc, carg>>
    BY <2>1, <2>2, <2>4, JoinOther DEF Starting
  <2>5. ASSUME NEW d, NEW p, NEW q \in {"idle", "zero", "push", "signal", "rouse"},
               Client(c, p, q, d), cpc[c] \notin {"joining", "joinDown", "joined"}
        PROVE  JoinInv'
    <3>1. /\ \A b \in Clients \ {c} : cpc'[b] = cpc[b] /\ carg'[b] = carg[b]
          /\ cpc'[c] = q
      BY <1>0, <2>5 DEF Client, KeepInv, LifeTypes
    <3>2. \A e \in Threads : Starting(e)' => Starting(e)
      BY <3>1 DEF Starting
    <3>3. /\ cpc'[Joiner] \in {"joining", "joinDown", "joined"} => cpc'[Joiner] = cpc[Joiner]
          /\ cpc[Joiner] = "joinDown" => cpc'[Joiner] = "joinDown"
      BY <2>5, <3>1, LifeAssumption
    <3> QED
      BY <2>1, <2>2, <3>2, <3>3, JoinOther
  <2> QED
    BY <2>3, <2>4, <2>5
<1> QED
  BY <1>1, <1>2

LEMMA JoinStep == KeepInv /\ JoinInv /\ [Next]_vars => JoinInv'
<1> SUFFICES ASSUME KeepInv, JoinInv, [Next]_vars PROVE JoinInv'
  OBVIOUS
<1>1. CASE UNCHANGED vars
  BY <1>1, JoinOther DEF vars, waitVars, dataVars, groupVars, clientVars, Starting, Live
<1>2. ASSUME NEW d \in Threads, ThreadMain(d) \/ ThreadCode(d) \/ IoWakeUp(d)
      PROVE  JoinInv'
  <2>1. CASE ThreadMain(d) \/ IoWakeUp(d) \/ FnDone(d) \/ WaitBegin(d) \/ WaitReturn(d)
    BY <2>1, JoinMain
  <2>2. CASE FnWaits(d) \/ UThreadExits(d) \/ UThreadBlocks(d)
    BY <2>2, JoinOther
    DEF FnWaits, UThreadExits, UThreadBlocks, groupVars, clientVars, Live, Starting
  <2>3. ASSUME NEW c \in Clients, UThreadShares(d, c) PROVE JoinInv'
    BY <2>3, JoinClients
  <2> QED
    BY <1>2, <2>1, <2>2, <2>3 DEF ThreadCode
<1>3. ASSUME NEW c \in Clients,
             InCall(c) \/ ListThreads(c) \/ \E d \in Threads : Calls(c, d)
      PROVE  JoinInv'
  BY <1>3, JoinClients
<1>4. CASE JoinCall \/ Join
  BY <1>4, JoinCalls
<1> QED
  BY <1>1, <1>2, <1>3, <1>4 DEF Next

LEMMA JoinInit == Init => JoinInv
<1> SUFFICES ASSUME Init PROVE JoinInv
  OBVIOUS
<1>1. Live = {}
  BY DEF Init, Live
<1>2. cpc[Joiner] = "idle" /\ attached = 0 /\ sema = 0
  BY LifeAssumption DEF Init
<1> QED
  BY <1>1, <1>2, FS_EmptySet DEF JoinInv

\* join returns only when every OS thread of the group has reported its end,
\* over any number of joins (ThreadGroup.cpp:61-66 and 79-85): it counts threads
\* and need not know which of them has ended.
THEOREM JoinWaits == Spec => []JoinWaitsForAll
<1>1. ASSUME KeepInv, JoinInv PROVE JoinWaitsForAll
  <2> SUFFICES ASSUME cpc[Joiner] = "joined", NEW d \in Threads
               PROVE  phase[d] \in {"none", "terminated", "gone"}
    BY DEF JoinWaitsForAll
  <2>1. attached = 0 /\ ~Starting(d)
    BY <1>1 DEF JoinInv
  <2>2. sema \in Nat /\ phase[d] \in Phases
    BY <1>1 DEF KeepInv, LifeTypes
  <2>3. Cardinality(Live) = 0
    BY <1>1, <2>1, <2>2, LiveFinite DEF JoinInv
  <2>4. Live = {}
    BY <2>3, LiveFinite, FS_EmptySet
  <2>5. phase[d] # "boot"
    BY <1>1, <2>1 DEF KeepInv, Started
  <2> QED
    BY <2>2, <2>4, <2>5 DEF Live, Phases
<1>2. KeepInv /\ JoinInv => JoinWaitsForAll
  BY <1>1
<1> QED
  BY InitKeep, KeepStep, JoinInit, JoinStep, <1>2, PTL DEF Spec

-----------------------------------------------------------------------------
(* The count of UThreads *)

\* The clients that have a UThread of d in hand, which is in no list.
Pushers(d) == {c \in Clients : cpc[c] = "push" /\ carg[c] = d}

CountInv ==
  \A d \in Threads :
    /\ ready[d] >= 0 /\ blocked[d] >= 0
    /\ alive[d] = ready[d] + blocked[d] + Cardinality(Pushers(d))

LEMMA PushersFinite ==
  ASSUME NEW d
  PROVE  IsFiniteSet(Pushers(d)) /\ Cardinality(Pushers(d)) \in Nat
<1>1. Pushers(d) \subseteq Clients
  BY DEF Pushers
<1> QED
  BY <1>1, LifeAssumption, FS_Subset, FS_CardinalityType

LEMMA CountOther ==
  ASSUME CountInv, UNCHANGED <<alive, ready, blocked>>,
         \A c \in Clients : cpc'[c] = "push" <=> cpc[c] = "push",
         \A c \in Clients : cpc[c] = "push" => carg'[c] = carg[c]
  PROVE  CountInv'
<1>1. \A d : Pushers(d)' = Pushers(d)
  BY DEF Pushers
<1> QED
  BY <1>1 DEF CountInv

LEMMA CountRuns ==
  ASSUME KeepInv, CountInv, NEW d \in Threads, UThreadExits(d) \/ UThreadBlocks(d)
  PROVE  CountInv'
<1>0. /\ alive \in [Threads -> Int] /\ ready \in [Threads -> Int]
      /\ blocked \in [Threads -> Int]
  BY DEF KeepInv, LifeTypes
<1>1. \A e : Pushers(e)' = Pushers(e)
  BY DEF UThreadExits, UThreadBlocks, clientVars, Pushers
<1>2. ready[d] > 0
  BY DEF UThreadExits, UThreadBlocks, RunsUThread
<1>3. /\ \A e \in Threads \ {d} :
           alive'[e] = alive[e] /\ ready'[e] = ready[e] /\ blocked'[e] = blocked[e]
      /\ ready'[d] = ready[d] - 1
      /\ alive'[d] - alive[d] = (ready'[d] - ready[d]) + (blocked'[d] - blocked[d])
      /\ blocked'[d] >= blocked[d] /\ blocked'[d] \in Int /\ alive'[d] \in Int
  BY <1>0 DEF UThreadExits, UThreadBlocks
<1>4. /\ ready[d] >= 0 /\ blocked[d] >= 0
      /\ alive[d] = ready[d] + blocked[d] + Cardinality(Pushers(d))
  BY DEF CountInv
<1>5. /\ ready'[d] >= 0 /\ blocked'[d] >= 0
      /\ alive'[d] = ready'[d] + blocked'[d] + Cardinality(Pushers(d)')
  BY <1>0, <1>1, <1>2, <1>3, <1>4, PushersFinite
<1>6. \A e \in Threads \ {d} :
        /\ ready'[e] >= 0 /\ blocked'[e] >= 0
        /\ alive'[e] = ready'[e] + blocked'[e] + Cardinality(Pushers(e)')
  BY <1>1, <1>3 DEF CountInv
<1> QED
  BY <1>5, <1>6 DEF CountInv

\* A client takes a UThread of d in hand, or puts it in the ready list.
LEMMA CountClient ==
  ASSUME KeepInv, CountInv, NEW c \in Clients, NEW d \in Threads,
         SpawnOn(c, d) \/ WakeUThread(c, d) \/ (Push(c) /\ carg[c] = d)
  PROVE  CountInv'
<1>0. /\ alive \in [Threads -> Int] /\ ready \in [Threads -> Int]
      /\ blocked \in [Threads -> Int] /\ cpc \in [Clients -> CPCs]
      /\ carg \in [Clients -> Threads \union {NoThread}]
  BY DEF KeepInv, LifeTypes
<1>1. /\ ready[d] >= 0 /\ blocked[d] >= 0
      /\ alive[d] = ready[d] + blocked[d] + Cardinality(Pushers(d))
  BY DEF CountInv
<1>2. \A e \in Threads \ {d} :
        /\ Pushers(e)' = Pushers(e)
        /\ alive'[e] = alive[e] /\ ready'[e] = ready[e] /\ blocked'[e] = blocked[e]
  <2>1. \A b \in Clients \ {c} : cpc'[b] = cpc[b] /\ carg'[b] = carg[b]
    BY <1>0 DEF SpawnOn, WakeUThread, Push, Client
  <2>2. /\ cpc[c] = "push" => carg[c] = d
        /\ cpc'[c] = "push" => carg'[c] = d
    BY <1>0 DEF SpawnOn, WakeUThread, Push, Client
  <2>3. \A e \in Threads \ {d} : Pushers(e)' = Pushers(e)
    BY <2>1, <2>2 DEF Pushers
  <2> QED
    BY <1>0, <2>3 DEF SpawnOn, WakeUThread, Push
<1>3. CASE SpawnOn(c, d) \/ WakeUThread(c, d)
  <2>1. Pushers(d)' = Pushers(d) \union {c} /\ c \notin Pushers(d)
    BY <1>0, <1>3 DEF SpawnOn, WakeUThread, Client, Pushers
  <2>2. Cardinality(Pushers(d)') = Cardinality(Pushers(d)) + 1
    BY <2>1, PushersFinite, FS_AddElement
  <2>3. /\ ready'[d] = ready[d]
        /\ \/ alive'[d] = alive[d] + 1 /\ blocked'[d] = blocked[d]
           \/ alive'[d] = alive[d] /\ blocked'[d] = blocked[d] - 1 /\ blocked[d] > 0
    BY <1>0, <1>3 DEF SpawnOn, WakeUThread
  <2>4. /\ ready'[d] >= 0 /\ blocked'[d] >= 0
        /\ alive'[d] = ready'[d] + blocked'[d] + Cardinality(Pushers(d)')
    BY <1>0, <1>1, <2>2, <2>3, PushersFinite
  <2> QED
    BY <1>2, <2>4 DEF CountInv
<1>4. CASE Push(c) /\ carg[c] = d
  <2>1. Pushers(d)' = Pushers(d) \ {c} /\ c \in Pushers(d)
    BY <1>0, <1>4 DEF Push, Client, Pushers
  <2>2. Cardinality(Pushers(d)') = Cardinality(Pushers(d)) - 1
    BY <2>1, PushersFinite, FS_RemoveElement
  <2>3. ready'[d] = ready[d] + 1 /\ alive'[d] = alive[d] /\ blocked'[d] = blocked[d]
    BY <1>0, <1>4 DEF Push
  <2>4. /\ ready'[d] >= 0 /\ blocked'[d] >= 0
        /\ alive'[d] = ready'[d] + blocked'[d] + Cardinality(Pushers(d)')
    BY <1>0, <1>1, <2>2, <2>3, PushersFinite
  <2> QED
    BY <1>2, <2>4 DEF CountInv
<1> QED
  BY <1>3, <1>4

LEMMA CountStep == KeepInv /\ CountInv /\ [Next]_vars => CountInv'
<1> SUFFICES ASSUME KeepInv, CountInv, [Next]_vars PROVE CountInv'
  OBVIOUS
<1>0. /\ cpc \in [Clients -> CPCs]
      /\ \A c \in Clients : cpc[c] = "push" => carg[c] \in Threads
  BY DEF KeepInv, LifeTypes
<1> USE DEF waitVars, dataVars, groupVars, clientVars
<1>1. CASE UNCHANGED vars
  BY <1>1, CountOther DEF vars
<1>2. ASSUME NEW d \in Threads, ThreadMain(d) \/ ThreadCode(d) \/ IoWakeUp(d)
      PROVE  CountInv'
  <2>1. CASE UThreadExits(d) \/ UThreadBlocks(d)
    BY <2>1, CountRuns
  <2>2. CASE ~(UThreadExits(d) \/ UThreadBlocks(d))
    <3>1. UNCHANGED <<alive, ready, blocked, cpc, carg>>
      BY <1>2, <2>2
      DEF ThreadMain, ThreadCode, Start, Insert, Report, CheckRefs, CheckAny,
          Unreachable, Terminate, Destroy, WakeUp, IoWakeUp, FnDone, FnWaits,
          WaitBegin, WaitReturn, UThreadShares
    <3> QED
      BY <3>1, CountOther
  <2> QED
    BY <2>1, <2>2
<1>3. ASSUME NEW c \in Clients, NEW d \in Threads, SpawnOn(c, d) \/ WakeUThread(c, d)
      PROVE  CountInv'
  BY <1>3, CountClient
<1>4. ASSUME NEW c \in Clients, Push(c) PROVE CountInv'
  <2>1. carg[c] \in Threads
    BY <1>0, <1>4 DEF Push, Client
  <2> QED
    BY <1>4, <2>1, CountClient
<1>5. ASSUME NEW c \in Clients,
             \/ Adopt(c) \/ Signal(c) \/ Rouse(c) \/ ListThreads(c)
             \/ \E d \in Threads : NewThread(c, d) \/ Release(c, d)
      PROVE  CountInv'
  <2>1. UNCHANGED <<alive, ready, blocked>>
    BY <1>5 DEF Adopt, Signal, Rouse, ListThreads, NewThread, Release
  <2>2. \A b \in Clients : /\ cpc'[b] = "push" <=> cpc[b] = "push"
                           /\ cpc[b] = "push" => carg'[b] = carg[b]
    BY <1>0, <1>5 DEF Adopt, Signal, Rouse, ListThreads, NewThread, Release, Client,
                      KeepInv, LifeTypes
  <2> QED
    BY <2>1, <2>2, CountOther
<1>6. CASE JoinCall \/ Join
  <2>1. UNCHANGED <<alive, ready, blocked>>
    BY <1>6 DEF JoinCall, Join, JoinNext, JoinDown, JoinEnd, JoinReturn
  <2>2. \E p, q \in {"idle", "joining", "joinDown", "joined"} :
          Client(Joiner, p, q, NoThread)
    BY <1>6 DEF JoinCall, Join, JoinNext, JoinDown, JoinEnd, JoinReturn
  <2>3. \A b \in Clients : /\ cpc'[b] = "push" <=> cpc[b] = "push"
                           /\ cpc[b] = "push" => carg'[b] = carg[b]
    BY <1>0, <2>2, LifeAssumption DEF Client, KeepInv, LifeTypes
  <2> QED
    BY <2>1, <2>3, CountOther
<1> QED
  BY <1>1, <1>2, <1>3, <1>4, <1>5, <1>6 DEF Next, InCall, Calls

LEMMA CountInit == Init => CountInv
<1> SUFFICES ASSUME Init PROVE CountInv
  OBVIOUS
<1>1. \A d : Pushers(d) = {}
  BY DEF Init, Pushers
<1>2. Cardinality({}) = 0
  BY FS_EmptySet
<1> QED
  BY <1>1, <1>2 DEF Init, CountInv

LEMMA TypesOK ==
  ASSUME KeepInv, CountInv
  PROVE  TypeOK
<1>1. LifeTypes
  BY DEF KeepInv
<1>2. \A d \in Threads : refs[d] >= 0
  <2> SUFFICES ASSUME NEW d \in Threads PROVE refs[d] >= 0
    OBVIOUS
  <2>1. refs[d] = Cardinality(Holders(d)) + Job(d) + Startup(d)
    BY <1>1 DEF KeepInv, RefsExact
  <2>2. Job(d) \in {0, 1} /\ Startup(d) \in {0, 2}
    BY DEF Job, Startup
  <2> QED
    BY <2>1, <2>2, HoldersFinite
<1>3. \A d \in Threads : ready[d] >= 0 /\ blocked[d] >= 0
  BY <1>1 DEF CountInv
<1>4. \A d \in Threads : alive[d] >= 0
  <2> SUFFICES ASSUME NEW d \in Threads PROVE alive[d] >= 0
    OBVIOUS
  <2>1. alive[d] = ready[d] + blocked[d] + Cardinality(Pushers(d))
    BY <1>1 DEF CountInv
  <2> QED
    BY <1>1, <1>3, <2>1, PushersFinite DEF LifeTypes
<1> QED
  BY <1>1, <1>2, <1>3, <1>4 DEF LifeTypes, TypeOK

\* The states of the model are well typed; in particular the references, the
\* count of UThreads (UThread.cpp:490, 504) and both counters of the group never
\* go below zero, whichever OS thread decrements them.
THEOREM TypeCorrect == Spec => []TypeOK
<1>1. KeepInv /\ CountInv => TypeOK
  BY TypesOK
<1> QED
  BY InitKeep, KeepStep, CountInit, CountStep, <1>1, PTL DEF Spec

-----------------------------------------------------------------------------
(* The signals that end the sleep of an OS thread *)

Told(d) == token[d] \/ Signalling(d)

\* From the last look at the ready list on, a UThread that is pushed comes with
\* a signal; an OS thread falls asleep with something to wait for.
ToldInv ==
  \A d \in Threads :
    /\ phase[d] \in {"zero", "alone", "asleep"} /\ ready[d] > 0 => Told(d)
    /\ phase[d] = "asleep" /\ refs[d] = 0 /\ alive[d] = 0 => Told(d)

\* A client in the middle of a call goes on with it.
LEMMA CallGoesOn ==
  ASSUME KeepInv, Next, NEW c \in Clients,
         cpc[c] \in {"push", "signal", "rouse", "zero"}
  PROVE  \/ cpc'[c] = cpc[c] /\ carg'[c] = carg[c]
         \/ Push(c) \/ Signal(c) \/ Rouse(c)
<1>0. /\ cpc \in [Clients -> CPCs] /\ carg[c] \in Threads
      /\ carg \in [Clients -> Threads \union {NoThread}]
  BY DEF KeepInv, LifeTypes
<1> USE DEF waitVars, dataVars, groupVars, clientVars
<1>1. ASSUME NEW d \in Threads, ThreadMain(d) \/ ThreadCode(d) \/ IoWakeUp(d)
      PROVE  cpc' = cpc /\ carg' = carg
  BY <1>1 DEF ThreadMain, ThreadCode, Start, Insert, Report, CheckRefs, CheckAny,
              Unreachable, Terminate, Destroy, WakeUp, IoWakeUp, FnDone, FnWaits,
              WaitBegin, WaitReturn, UThreadExits, UThreadBlocks, UThreadShares
<1>2. ASSUME NEW b \in Clients, b # c, Push(b) \/ Signal(b) \/ Rouse(b)
      PROVE  cpc'[c] = cpc[c] /\ carg'[c] = carg[c]
  BY <1>0, <1>2 DEF Push, Signal, Rouse, Client
<1>3. ASSUME NEW b \in Clients, ListThreads(b)
      PROVE  cpc' = cpc /\ carg' = carg
  BY <1>3 DEF ListThreads
<1>4. ASSUME NEW b \in Clients, Adopt(b) \/ (\E d \in Threads : Calls(b, d))
      PROVE  cpc'[c] = cpc[c] /\ carg'[c] = carg[c]
  <2>1. \E d, q : \E p \in {"idle", "starting"} : Client(b, p, q, d)
    BY <1>4 DEF Adopt, Calls, NewThread, Release, SpawnOn, WakeUThread
  <2> QED
    BY <1>0, <2>1 DEF Client
<1>5. ASSUME JoinCall \/ Join
      PROVE  cpc'[c] = cpc[c] /\ carg'[c] = carg[c]
  <2>1. \E p, q \in {"idle", "joining", "joinDown", "joined"} :
          Client(Joiner, p, q, NoThread)
    BY <1>5 DEF JoinCall, Join, JoinNext, JoinDown, JoinEnd, JoinReturn
  <2> QED
    BY <1>0, <2>1 DEF Client
<1> QED
  BY <1>1, <1>2, <1>3, <1>4, <1>5 DEF Next, InCall

LEMMA ToldStays ==
  ASSUME KeepInv, Next, NEW d \in Threads, Told(d)
  PROVE  Told(d)' \/ phase'[d] \in {"fn", "loop"}
<1>00. cpc \in [Clients -> CPCs] /\ carg \in [Clients -> Threads \union {NoThread}]
  BY DEF KeepInv, LifeTypes
<1>0. /\ token \in [Threads -> BOOLEAN] /\ phase \in [Threads -> Phases]
  BY DEF KeepInv, LifeTypes
<1> USE DEF waitVars, dataVars, groupVars, clientVars
<1>1. CASE token[d] /\ ~token'[d]
  <2>1. UNCHANGED token \/ (\E e \in Threads : WakeUp(e) \/ FnWaits(e) \/ FnDone(e))
        \/ (\E c \in Clients : Signal(c))
    BY DEF Next, ThreadMain, ThreadCode, Start, Insert, Report, CheckRefs, CheckAny,
           Unreachable, Terminate, Destroy, IoWakeUp, WaitBegin, WaitReturn, UThreadExits,
           UThreadBlocks, UThreadShares, InCall, Adopt, Push, Rouse, ListThreads, Calls, NewThread, Release,
           SpawnOn, WakeUThread, JoinCall, Join, JoinNext, JoinDown, JoinEnd, JoinReturn
  <2>2. ASSUME NEW e \in Threads, WakeUp(e) \/ FnWaits(e) \/ FnDone(e)
        PROVE  phase'[d] \in {"fn", "loop"}
    BY <1>0, <1>1, <2>2 DEF WakeUp, FnWaits, FnDone, Moves
  <2>3. ASSUME NEW c \in Clients, Signal(c) PROVE token'[d]
    BY <1>0, <1>1, <2>3 DEF Signal
  <2> QED
    BY <1>1, <2>1, <2>2, <2>3
<1>2. CASE ~token[d]
  <2>1. PICK c \in Clients : carg[c] = d /\ cpc[c] \in {"push", "signal", "zero"}
    BY <1>2 DEF Told, Signalling
  <2>2. CASE Signal(c)
    BY <1>0, <2>1, <2>2 DEF Signal, Told
  <2>3. CASE Push(c)
    <3>1. cpc'[c] = "signal" /\ carg'[c] = d
      BY <1>00, <2>1, <2>3 DEF Push, Client
    <3> QED
      BY <3>1 DEF Told, Signalling
  <2>4. CASE cpc'[c] = cpc[c] /\ carg'[c] = carg[c]
    BY <2>1, <2>4 DEF Told, Signalling
  <2>5. ~Rouse(c)
    BY <2>1 DEF Rouse, Client
  <2> QED
    BY <2>1, <2>2, <2>3, <2>4, <2>5, CallGoesOn
<1> QED
  BY <1>0, <1>1, <1>2 DEF Told

\* An OS thread that moves to a place where it no longer looks.
LEMMA ToldMoves ==
  ASSUME KeepInv, ToldInv, Next, NEW d \in Threads, phase'[d] # phase[d]
  PROVE  /\ phase'[d] \in {"zero", "alone", "asleep"} /\ ready'[d] > 0 => Told(d)'
         /\ phase'[d] = "asleep" => ~(refs'[d] = 0 /\ alive'[d] = 0)
<1>0. phase \in [Threads -> Phases]
  BY DEF KeepInv, LifeTypes
<1> USE DEF waitVars, dataVars, groupVars, clientVars
<1>1. CASE CheckRefs(d)
  BY <1>0, <1>1 DEF CheckRefs, Moves
<1>2. CASE CheckAny(d) \/ Unreachable(d)
  <2>1. /\ phase[d] \in {"zero", "alone"} /\ ready' = ready
        /\ phase'[d] = "asleep" => ~(refs'[d] = 0 /\ alive'[d] = 0)
    BY <1>0, <1>2 DEF CheckAny, Unreachable, Moves
  <2>2. Told(d) => Told(d)'
    BY <1>2 DEF CheckAny, Unreachable, Told, Signalling
  <2> QED
    BY <2>1, <2>2 DEF ToldInv
<1>3. CASE ~(CheckRefs(d) \/ CheckAny(d) \/ Unreachable(d))
  <2>1. ASSUME NEW e \in Threads, ThreadMain(e) \/ ThreadCode(e) \/ IoWakeUp(e)
        PROVE  phase'[d] \notin {"zero", "alone", "asleep"}
    BY <1>0, <1>3, <2>1
    DEF ThreadMain, ThreadCode, Start, Insert, Report, CheckRefs, CheckAny, Unreachable,
        Terminate, Destroy, WakeUp, IoWakeUp, FnDone, FnWaits, WaitBegin, WaitReturn,
        UThreadExits, UThreadBlocks, UThreadShares, Moves
  <2>2. ASSUME NEW c \in Clients, NEW e \in Threads, Calls(c, e)
        PROVE  phase'[d] \notin {"zero", "alone", "asleep"}
    BY <1>0, <2>2 DEF Calls, NewThread, Release, SpawnOn, WakeUThread, Moves
  <2>3. \A c \in Clients : ~(InCall(c) \/ ListThreads(c))
    BY DEF InCall, Adopt, Push, Signal, Rouse, ListThreads
  <2>4. ~(JoinCall \/ Join)
    BY DEF JoinCall, Join, JoinNext, JoinDown, JoinEnd, JoinReturn
  <2> QED
    BY <2>1, <2>2, <2>3, <2>4 DEF Next
<1> QED
  BY <1>1, <1>2, <1>3

\* A UThread is added to the ready list of an OS thread that does not look.
LEMMA ToldPushes ==
  ASSUME KeepInv, CountInv, Next, NEW d \in Threads,
         phase[d] \in {"zero", "alone", "asleep"}, ready[d] = 0, ready'[d] > 0
  PROVE  Told(d)'
<1>0. /\ phase \in [Threads -> Phases] /\ ready \in [Threads -> Int]
      /\ cpc \in [Clients -> CPCs] /\ carg \in [Clients -> Threads \union {NoThread}]
  BY DEF KeepInv, LifeTypes
<1> USE DEF waitVars, dataVars, groupVars, clientVars
<1>1. CASE \E c \in Clients : Push(c)
  <2>1. PICK c \in Clients : Push(c)
    BY <1>1
  <2>2. carg[c] = d
    BY <1>0, <2>1 DEF Push
  <2>3. cpc'[c] = "signal" /\ carg'[c] = d
    BY <1>0, <2>1, <2>2 DEF Push, Client
  <2> QED
    BY <2>3 DEF Told, Signalling
<1>2. CASE \E e \in Threads : UThreadExits(e) \/ UThreadBlocks(e)
  BY <1>0, <1>2 DEF UThreadExits, UThreadBlocks, RunsUThread
<1>3. CASE ready' = ready
  BY <1>0, <1>3
<1> QED
  BY <1>1, <1>2, <1>3
  DEF Next, ThreadMain, ThreadCode, Start, Insert, Report, CheckRefs, CheckAny,
      Unreachable, Terminate, Destroy, WakeUp, IoWakeUp, FnDone, FnWaits, WaitBegin,
      WaitReturn, UThreadShares, InCall, Adopt, Signal, Rouse, ListThreads, Calls, NewThread, Release, SpawnOn,
      WakeUThread, JoinCall, Join, JoinNext, JoinDown, JoinEnd, JoinReturn

\* The last reference to an OS thread that sleeps goes, or its last UThread.
LEMMA ToldReleases ==
  ASSUME KeepInv, CountInv, KeepInv', Next, NEW d \in Threads,
         phase[d] = "asleep", phase'[d] = "asleep",
         ~(refs[d] = 0 /\ alive[d] = 0), refs'[d] = 0, alive'[d] = 0
  PROVE  Told(d)'
<1>0. /\ phase \in [Threads -> Phases] /\ refs \in [Threads -> Int]
      /\ alive \in [Threads -> Int] /\ handles \in [Clients -> SUBSET Threads]
      /\ cpc \in [Clients -> CPCs] /\ carg \in [Clients -> Threads \union {NoThread}]
  BY DEF KeepInv, LifeTypes
<1>1. refs[d] >= 0 /\ alive[d] >= 0
  BY TypesOK DEF TypeOK
<1>2. Holders(d)' = {}
  <2>1. refs'[d] = Cardinality(Holders(d)') + Job(d)' + Startup(d)'
    BY DEF KeepInv, RefsExact
  <2>2. Job(d)' \in {0, 1} /\ Startup(d)' \in {0, 2}
    BY DEF Job, Startup
  <2>3. Holders(d)' \subseteq Clients
    BY DEF Holders
  <2>4. IsFiniteSet(Holders(d)') /\ Cardinality(Holders(d)') \in Nat
    BY <2>3, LifeAssumption, FS_Subset, FS_CardinalityType
  <2>5. Cardinality(Holders(d)') = 0
    BY <2>1, <2>2, <2>4
  <2> QED
    BY <2>4, <2>5, FS_EmptySet
<1> USE DEF waitVars, dataVars, groupVars, clientVars
<1>3. CASE \E c \in Clients, e \in Threads : Release(c, e)
  <2>1. PICK c \in Clients, e \in Threads : Release(c, e)
    BY <1>3
  <2>2. CASE e = d
    <3>1. refs[d] = 1
      BY <1>0, <2>1, <2>2 DEF Release
    <3>2. cpc'[c] = "zero" /\ carg'[c] = d
      BY <1>0, <2>1, <2>2, <3>1 DEF Release, Client
    <3> QED
      BY <3>2 DEF Told, Signalling
  <2>3. CASE e # d
    BY <1>0, <2>1, <2>3 DEF Release
  <2> QED
    BY <2>2, <2>3
<1>4. CASE \E c \in Clients : Adopt(c)
  <2>1. PICK c \in Clients : Adopt(c)
    BY <1>4
  <2>2. carg[c] # d
    BY <1>0, <1>2, <2>1 DEF Adopt, Holders
  <2> QED
    BY <1>0, <2>1, <2>2 DEF Adopt
<1>5. CASE \E c \in Clients : ListThreads(c)
  <2>1. \A c \in Clients : ListThreads(c) => refs'[d] >= refs[d] /\ alive' = alive
    BY <1>0 DEF ListThreads
  <2> QED
    BY <1>0, <1>1, <1>5, <2>1
<1>6. CASE \E c \in Clients, e \in Threads : SpawnOn(c, e)
  BY <1>0, <1>1, <1>6 DEF SpawnOn
<1>7. CASE \E e \in Threads : \/ UThreadExits(e) \/ Start(e) \/ FnDone(e)
                              \/ \E c \in Clients : UThreadShares(e, c)
  BY <1>0, <1>7 DEF UThreadExits, UThreadShares, RunsUThread, Start, FnDone, Moves
<1>8. CASE UNCHANGED <<refs, alive>>
  BY <1>8
<1> QED
  BY <1>3, <1>4, <1>5, <1>6, <1>7, <1>8
  DEF Next, ThreadMain, ThreadCode, Insert, Report, CheckRefs, CheckAny, Unreachable,
      Terminate, Destroy, WakeUp, IoWakeUp, FnWaits, WaitBegin, WaitReturn,
      UThreadBlocks, InCall, Push, Signal, Rouse,
      Calls, NewThread, WakeUThread, JoinCall, Join, JoinNext, JoinDown, JoinEnd,
      JoinReturn

LEMMA ToldStep == KeepInv /\ CountInv /\ ToldInv /\ [Next]_vars => ToldInv'
<1> SUFFICES ASSUME KeepInv, CountInv, ToldInv, [Next]_vars PROVE ToldInv'
  OBVIOUS
<1>1. CASE UNCHANGED vars
  BY <1>1 DEF vars, dataVars, clientVars, ToldInv, Told, Signalling
<1>2. ASSUME Next, NEW d \in Threads
      PROVE  /\ phase'[d] \in {"zero", "alone", "asleep"} /\ ready'[d] > 0 => Told(d)'
             /\ phase'[d] = "asleep" /\ refs'[d] = 0 /\ alive'[d] = 0 => Told(d)'
  <2>1. CASE phase'[d] # phase[d]
    BY <1>2, <2>1, ToldMoves
  <2>2. CASE phase'[d] = phase[d]
    <3>1. Told(d) /\ phase[d] \in {"zero", "alone", "asleep"} => Told(d)'
      BY <1>2, <2>2, ToldStays
    <3>2. KeepInv'
      BY KeepStep
    <3>3. phase[d] \in {"zero", "alone", "asleep"} /\ ready[d] = 0 /\ ready'[d] > 0 => Told(d)'
      BY <1>2, ToldPushes
    <3>4. ready[d] >= 0 /\ ready \in [Threads -> Int]
      BY DEF CountInv, KeepInv, LifeTypes
    <3>5. phase[d] \in {"zero", "alone", "asleep"} /\ ready[d] > 0 => Told(d)
      BY DEF ToldInv
    <3>6. phase[d] = "asleep" /\ refs[d] = 0 /\ alive[d] = 0 => Told(d)
      BY DEF ToldInv
    <3>7. phase[d] = "asleep" /\ ~(refs[d] = 0 /\ alive[d] = 0)
            => (refs'[d] = 0 /\ alive'[d] = 0 => Told(d)')
      BY <1>2, <2>2, <3>2, ToldReleases
    <3>8. phase'[d] \in {"zero", "alone", "asleep"} /\ ready'[d] > 0 => Told(d)'
      BY <2>2, <3>1, <3>3, <3>4, <3>5
    <3> QED
      BY <2>2, <3>1, <3>6, <3>7, <3>8
  <2> QED
    BY <2>1, <2>2
<1> QED
  BY <1>1, <1>2 DEF ToldInv

\* A UThread that is pushed while the OS thread is in its ThreadWait comes with
\* a signal to that.
WaitInv ==
  \A d \in Threads :
    phase[d] = "waiting" => d \in waits /\ (ready[d] > 0 => d \in roused \/ Rousing(d))

LEMMA RousingStays ==
  ASSUME KeepInv, Next, NEW d \in Threads, d \in waits, Rousing(d)
  PROVE  d \in roused' \/ Rousing(d)'
<1>0. cpc \in [Clients -> CPCs] /\ carg \in [Clients -> Threads \union {NoThread}]
  BY DEF KeepInv, LifeTypes
<1>1. PICK c \in Clients : carg[c] = d /\ cpc[c] \in {"push", "signal", "rouse"}
  BY DEF Rousing
<1>2. CASE Rouse(c)
  BY <1>1, <1>2 DEF Rouse
<1>3. CASE Push(c) \/ Signal(c)
  <2>1. cpc'[c] \in {"signal", "rouse"} /\ carg'[c] = d
    BY <1>0, <1>1, <1>3 DEF Push, Signal, Client
  <2> QED
    BY <2>1 DEF Rousing
<1>4. CASE cpc'[c] = cpc[c] /\ carg'[c] = carg[c]
  BY <1>1, <1>4 DEF Rousing
<1> QED
  BY <1>1, <1>2, <1>3, <1>4, CallGoesOn

\* What other steps do to an OS thread in its ThreadWait.
LEMMA WaitStays ==
  ASSUME KeepInv, Next, NEW d \in Threads, phase[d] = "waiting", phase'[d] = "waiting",
         d \in waits
  PROVE  /\ d \in waits' /\ (d \in roused => d \in roused')
         /\ ready'[d] > 0 /\ ~(ready[d] > 0) => Rousing(d)'
<1>0. /\ phase \in [Threads -> Phases] /\ ready \in [Threads -> Int]
      /\ cpc \in [Clients -> CPCs] /\ carg \in [Clients -> Threads \union {NoThread}]
  BY DEF KeepInv, LifeTypes
<1> USE DEF waitVars, dataVars, groupVars, clientVars
<1>1. CASE \E e \in Threads : WaitReturn(e)
  BY <1>0, <1>1 DEF WaitReturn, Moves
<1>2. CASE \E c \in Clients : Push(c)
  <2>1. PICK c \in Clients : Push(c)
    BY <1>2
  <2>2. CASE carg[c] = d
    <3>1. cpc'[c] = "signal" /\ carg'[c] = d
      BY <1>0, <2>1, <2>2 DEF Push, Client
    <3> QED
      BY <2>1, <3>1 DEF Push, Rousing
  <2>3. CASE carg[c] # d
    BY <1>0, <2>1, <2>3 DEF Push
  <2> QED
    BY <2>2, <2>3
<1>3. CASE \E e \in Threads : UThreadExits(e) \/ UThreadBlocks(e)
  BY <1>0, <1>3 DEF UThreadExits, UThreadBlocks, RunsUThread
<1>4. CASE waits \subseteq waits' /\ roused \subseteq roused' /\ ready' = ready
  BY <1>4
<1> QED
  BY <1>1, <1>2, <1>3, <1>4
  DEF Next, ThreadMain, ThreadCode, Start, Insert, Report, CheckRefs, CheckAny,
      Unreachable, Terminate, Destroy, WakeUp, IoWakeUp, FnDone, FnWaits, WaitBegin,
      UThreadShares, InCall, Adopt, Signal, Rouse, ListThreads, Calls, NewThread, Release,
      SpawnOn, WakeUThread, JoinCall, Join, JoinNext, JoinDown, JoinEnd, JoinReturn

LEMMA WaitStep == KeepInv /\ CountInv /\ WaitInv /\ [Next]_vars => WaitInv'
<1> SUFFICES ASSUME KeepInv, CountInv, WaitInv, [Next]_vars,
                    NEW d \in Threads, phase'[d] = "waiting"
             PROVE  d \in waits' /\ (ready'[d] > 0 => d \in roused' \/ Rousing(d)')
  BY DEF WaitInv
<1>1. CASE UNCHANGED vars
  BY <1>1 DEF vars, dataVars, waitVars, clientVars, WaitInv, Rousing
<1>2. CASE Next /\ phase[d] = "waiting"
  BY <1>2, WaitStays, RousingStays DEF WaitInv
<1>3. CASE Next /\ phase[d] # "waiting"
  <2>1. WaitBegin(d)
    <3>1. phase \in [Threads -> Phases]
      BY DEF KeepInv, LifeTypes
    <3> QED
      BY <1>3, <3>1
      DEF Next, ThreadMain, ThreadCode, Start, Insert, Report, CheckRefs, CheckAny,
          Unreachable, Terminate, Destroy, WakeUp, IoWakeUp, FnDone, FnWaits, WaitBegin,
          WaitReturn, UThreadExits, UThreadBlocks, UThreadShares, InCall, Adopt, Push,
          Signal, Rouse, ListThreads, Calls, NewThread, Release, SpawnOn, WakeUThread,
          JoinCall, Join, JoinNext, JoinDown, JoinEnd, JoinReturn, Moves, waitVars,
          dataVars, groupVars, clientVars
  <2> QED
    BY <2>1 DEF WaitBegin, waitVars, dataVars
<1> QED
  BY <1>1, <1>2, <1>3

\* No OS thread sleeps through its own end or with a UThread to run, although
\* its two looks and its going to sleep (Thread.cpp:220-245) are separate steps,
\* clients count down and push before they signal (Thread.h:121-125,
\* UThread.cpp:543-551), and the way to sleep may change under way
\* (Thread.cpp:262-302).
THEOREM EndsAreNotMissed == Spec => []NoLostTermination
<1>1. Init => ToldInv /\ WaitInv
  BY DEF Init, ToldInv, WaitInv
<1>2. ToldInv /\ WaitInv => NoLostTermination
  BY DEF ToldInv, WaitInv, NoLostTermination, Told
<1> QED
  BY InitKeep, KeepStep, CountInit, CountStep, ToldStep, WaitStep, <1>1, <1>2, PTL
  DEF Spec
==============================================================================
