----------------------------- MODULE FutureProofs -----------------------------
(***************************************************************************)
(* Theorems about Future, for any number of UThreads that share one: it is *)
(* not destroyed under anybody, and everyone who waits finds the one       *)
(* result complete.                                                        *)
(***************************************************************************)
EXTENDS Future, QueueLemmas, FiniteSetTheorems

Working == {"function", "store", "publish", "fail", "save",
            "notify", "notifying", "release"}
Announcing == {"store", "publish", "fail", "save"}
Announced == {"notify", "notifying", "release"}
Passing == {"again", "passing", "read"}

\* Every reference belongs to somebody, who holds it as long as a call runs.
References ==
  /\ refs = Cardinality(holds) + release
  /\ \A c \in Clients : pc[c] \notin {"idle", "destroy"} => c \in holds
  /\ \A p \in Users : pc[p] = "destroy" =>
       /\ refs = 0 /\ ~ destroyed
       /\ \A q \in Users : pc[q] = "destroy" => q = p
  /\ destroyed => refs = 0
  /\ kind = "stack" /\ holds = {} => read

\* Who may be where.
Roles ==
  /\ \A c \in Clients : pc[c] \notin {"none", "function", "done"}
  /\ kind # "posted" => \A c \in Clients : pc[c] \notin Announcing \union Announced
  /\ pc[Worker] \notin {"idle", "down", "blocked"} \union Passing
  /\ release = 1 <=> kind = "spawned" /\ pc[Worker] \in Working
  /\ kind = "posted" => pc[Worker] = "none"
  /\ kind = "stack" => pc[Worker] \notin {"release", "destroy"}

\* The lock and the queue of the Sema.
Queue ==
  /\ \A p \in Users : lock = p <=> pc[p] \in {"notifying", "passing"}
  /\ IsInjective(waiting)
  /\ \A c \in Range(waiting) : pc[c] = "blocked"

\* Whoever gets past the Sema of an os::Future has waited for the unlock in the
\* worker's up(), since wait() takes the lock once more for an up() of its own.
LastUp ==
  kind = "stack" =>
    /\ count > 0 \/ (\E c \in Clients : pc[c] = "again") =>
         pc[Worker] \in {"notifying", "done"}
    /\ read \/ (\E c \in Clients : pc[c] \in {"passing", "read"}) =>
         pc[Worker] = "done"

RefInv == TypeOK /\ References /\ Roles /\ Queue /\ LastUp

\* Nobody has begun to announce a result.
Fresh == IF kind = "posted" THEN filled = 0 ELSE pc[Worker] \in {"none", "function"}

Settled ==
  posted # "empty" /\ stored = posted /\ \A p \in Users : pc[p] \notin Announcing

\* How far whoever announces the result has come, and what that entitles others
\* to; there is one who does.
Announcement ==
  /\ kind # "posted" => filled = 0
  /\ Fresh => /\ posted = "empty" /\ stored = "empty" /\ count = 0
              /\ \A p \in Users : pc[p] \notin Announcing \union Announced \union Passing
  /\ \A p, q \in Users :
       pc[p] \in Announcing \union Announced /\ pc[q] \in Announcing \union Announced
         => p = q
  /\ \A p \in Users :
       /\ pc[p] \in {"store", "fail"} => posted = "empty" /\ stored = "empty"
       /\ pc[p] = "publish" => posted = "empty" /\ stored = "value"
       /\ pc[p] = "save" => posted = "error" /\ stored = "empty"
       /\ pc[p] \in Announced => Settled \/ destroyed
  /\ count > 0 \/ (\E c \in Clients : pc[c] \in Passing) => Settled \/ destroyed

FutureInv == RefInv /\ Announcement

-----------------------------------------------------------------------------
LEMMA HoldsFinite ==
  ASSUME TypeOK
  PROVE  /\ IsFiniteSet(holds) /\ Cardinality(holds) \in Nat
         /\ Cardinality(holds) = 0 <=> holds = {}
         /\ \A c \in holds : /\ Cardinality(holds \ {c}) = Cardinality(holds) - 1
                             /\ Cardinality(holds) > 0
         /\ \A c \in Clients \ holds :
              Cardinality(holds \union {c}) = Cardinality(holds) + 1
<1>1. IsFiniteSet(holds)
  BY FutureAssumption, FS_Subset DEF TypeOK
<1>2. Cardinality(holds) \in Nat /\ (Cardinality(holds) = 0 <=> holds = {})
  BY <1>1, FS_CardinalityType, FS_EmptySet
<1>3. ASSUME NEW c \in holds
      PROVE  Cardinality(holds \ {c}) = Cardinality(holds) - 1 /\ Cardinality(holds) > 0
  BY <1>1, <1>2, FS_RemoveElement
<1>4. ASSUME NEW c \in Clients \ holds
      PROVE  Cardinality(holds \union {c}) = Cardinality(holds) + 1
  BY <1>1, FS_AddElement
<1> QED
  BY <1>1, <1>2, <1>3, <1>4

\* The first in the queue of the Sema, and the rest.
LEMMA FirstWaits ==
  ASSUME TypeOK, Queue, waiting # <<>>
  PROVE  /\ Head(waiting) \in Clients /\ pc[Head(waiting)] = "blocked"
         /\ Tail(waiting) \in Seq(Clients) /\ IsInjective(Tail(waiting))
         /\ Range(Tail(waiting)) = Range(waiting) \ {Head(waiting)}
<1>1. /\ Tail(waiting) \in Seq(Clients) /\ IsInjective(Tail(waiting))
      /\ Head(waiting) \in Range(waiting)
      /\ Range(Tail(waiting)) = Range(waiting) \ {Head(waiting)}
  BY DistinctTail DEF TypeOK, Queue
<1>2. Head(waiting) \in Clients
  BY HeadTailProperties, EmptySeq DEF TypeOK
<1> QED
  BY <1>1, <1>2 DEF Queue

LEMMA WaitersAreClients == TypeOK => Range(waiting) \subseteq Clients
BY LenProperties, ElementOfSeq DEF TypeOK, Range

\* And the queue with one more at its end.
LEMMA LastWaits ==
  ASSUME TypeOK, Queue, NEW c \in Clients, pc[c] # "blocked"
  PROVE  /\ Append(waiting, c) \in Seq(Clients) /\ IsInjective(Append(waiting, c))
         /\ Range(Append(waiting, c)) = Range(waiting) \union {c}
<1>1. c \notin Range(waiting)
  BY DEF Queue
<1> QED
  BY <1>1, DistinctAppend DEF TypeOK, Queue

LEMMA WorkerApart ==
  /\ Worker \notin Clients /\ Users = Clients \union {Worker}
  /\ NoOne \notin Users
  /\ Kinds \subseteq {"stack", "spawned", "posted"}
BY FutureAssumption DEF Users, AllKinds

\* What Sema::up does, with the one it wakes named.
LEMMA UpEffect ==
  ASSUME TypeOK, Queue, NEW p \in Users, NEW from, NEW to, Up(p, from, to),
         from # "blocked"
  PROVE  /\ waiting' \in Seq(Clients) /\ IsInjective(waiting')
         /\ Range(waiting') \subseteq Range(waiting)
         /\ \/ count' = count + 1 /\ pc' = [pc EXCEPT ![p] = to]
            \/ \E w \in Clients :
                 /\ w # p /\ pc[w] = "blocked" /\ w \notin Range(waiting')
                 /\ count' = count
                 /\ pc' = [pc EXCEPT ![p] = to, ![w] = "again"]
<1>1. CASE waiting = <<>>
  BY <1>1 DEF Up, TypeOK, Queue
<1>2. CASE waiting # <<>>
  <2>1. /\ Head(waiting) \in Clients /\ pc[Head(waiting)] = "blocked"
        /\ Tail(waiting) \in Seq(Clients) /\ IsInjective(Tail(waiting))
        /\ Range(Tail(waiting)) = Range(waiting) \ {Head(waiting)}
    BY <1>2, FirstWaits
  <2> QED
    BY <1>2, <2>1 DEF Up
<1> QED
  BY <1>1, <1>2

LEMMA InitRefs == Init => RefInv
<1> SUFFICES ASSUME Init PROVE RefInv
  OBVIOUS
<1>1. PICK c \in Clients : holds = {c}
  BY DEF Init
<1>2. Cardinality(holds) = 1
  BY <1>1, FS_Singleton
<1>3. waiting \in Seq(Clients) /\ Range(waiting) = {} /\ IsInjective(waiting)
  BY EmptySeq DEF Init, Range, IsInjective
<1>4. TypeOK
  BY <1>1, <1>3 DEF Init, TypeOK, Results, PCs
<1>5. References /\ Roles /\ Queue /\ LastUp
  BY <1>1, <1>2, <1>3, WorkerApart, FutureAssumption
  DEF Init, References, Roles, Queue, LastUp, Working, Announcing, Announced, Passing
<1> QED
  BY <1>4, <1>5 DEF RefInv

\* Nobody is in a call on a future without references.
LEMMA NoReferences ==
  ASSUME RefInv, refs = 0
  PROVE  /\ holds = {} /\ release = 0
         /\ \A c \in Clients : pc[c] \in {"idle", "destroy"}
         /\ pc[Worker] \in {"none", "destroy", "done"}
<1>1. holds = {} /\ release = 0
  <2>1. Cardinality(holds) \in Nat /\ (Cardinality(holds) = 0 <=> holds = {})
    BY HoldsFinite DEF RefInv
  <2>2. refs = Cardinality(holds) + release /\ release \in {0, 1}
    BY DEF RefInv, References, TypeOK
  <2> QED BY <2>1, <2>2
<1>2. \A c \in Clients : pc[c] \in {"idle", "destroy"}
  BY <1>1 DEF RefInv, References
<1>3. pc[Worker] \in PCs
  BY WorkerApart DEF RefInv, TypeOK
<1>4. pc[Worker] \in {"none", "destroy", "done"}
  BY <1>1, <1>3, WorkerApart
  DEF RefInv, References, Roles, LastUp, Working, Passing, PCs, TypeOK
<1> QED
  BY <1>1, <1>2, <1>4

LEMMA StepRefs == RefInv /\ [Next]_vars => RefInv'
<1> SUFFICES ASSUME RefInv, [Next]_vars PROVE RefInv'
  OBVIOUS
<1> USE WorkerApart
<1> USE DEF RefInv, TypeOK, References, Roles, Queue, LastUp, PCs, Results,
            Working, Announcing, Announced, Passing,
            Goes, Returned, dataVars, resultVars, semaVars
<1>1. ASSUME NEW c \in Clients, Spawn(c) PROVE RefInv'
  BY <1>1, HoldsFinite DEF Spawn
<1>2. ASSUME NEW c \in Clients, NEW d \in Clients, Copy(c, d) PROVE RefInv'
  BY <1>2, HoldsFinite DEF Copy
<1>3. ASSUME NEW c \in Clients, Drop(c) PROVE RefInv'
  BY <1>3, HoldsFinite DEF Drop
<1>4. ASSUME NEW p \in Users, Destroy(p) PROVE RefInv'
  BY <1>4 DEF Destroy
<1>5. CASE FunctionEnds
  <2>1. TypeOK'
    BY <1>5 DEF FunctionEnds
  <2>2. References'
    BY <1>5 DEF FunctionEnds
  <2>3. Roles'
    BY <1>5 DEF FunctionEnds
  <2>4. Queue'
    <3>1. (\A q \in Users : lock = q <=> pc[q] \in {"notifying", "passing"})'
      BY <1>5 DEF FunctionEnds
    <3>2. IsInjective(waiting)'
      BY <1>5 DEF FunctionEnds
    <3>3. (\A q \in Range(waiting) : pc[q] = "blocked")'
      BY <1>5, WaitersAreClients DEF FunctionEnds
    <3> QED
      BY <3>1, <3>2, <3>3
  <2>5. LastUp'
    BY <1>5 DEF FunctionEnds
  <2> QED
    BY <2>1, <2>2, <2>3, <2>4, <2>5
<1>6. ASSUME NEW c \in Clients, Post(c) PROVE RefInv'
  <2>1. TypeOK'
    BY <1>6 DEF Post
  <2>2. References'
    BY <1>6 DEF Post
  <2>3. Roles'
    BY <1>6 DEF Post
  <2>4. Queue'
    <3>1. (\A q \in Users : lock = q <=> pc[q] \in {"notifying", "passing"})'
      BY <1>6 DEF Post
    <3>2. IsInjective(waiting)'
      BY <1>6 DEF Post
    <3>3. (\A q \in Range(waiting) : pc[q] = "blocked")'
      BY <1>6, WaitersAreClients DEF Post
    <3> QED
      BY <3>1, <3>2, <3>3
  <2>5. LastUp'
    BY <1>6 DEF Post
  <2> QED
    BY <2>1, <2>2, <2>3, <2>4, <2>5
<1>7. ASSUME NEW p \in Users, Store(p) \/ Publish(p) \/ Fail(p) \/ Save(p) PROVE RefInv'
  <2>1. TypeOK'
    BY <1>7 DEF Store, Publish, Fail, Save
  <2>2. References'
    BY <1>7 DEF Store, Publish, Fail, Save
  <2>3. Roles'
    BY <1>7 DEF Store, Publish, Fail, Save
  <2>4. Queue'
    <3>1. (\A q \in Users : lock = q <=> pc[q] \in {"notifying", "passing"})'
      BY <1>7 DEF Store, Publish, Fail, Save
    <3>2. IsInjective(waiting)'
      BY <1>7 DEF Store, Publish, Fail, Save
    <3>3. (\A q \in Range(waiting) : pc[q] = "blocked")'
      BY <1>7, WaitersAreClients DEF Store, Publish, Fail, Save
    <3> QED
      BY <3>1, <3>2, <3>3
  <2>5. LastUp'
    BY <1>7 DEF Store, Publish, Fail, Save
  <2> QED
    BY <2>1, <2>2, <2>3, <2>4, <2>5
<1>8. ASSUME NEW p \in Users, Notify(p) PROVE RefInv'
  <2>1. /\ pc[p] = "notify" /\ lock = NoOne /\ lock' = p
        /\ UNCHANGED <<kind, read, destroyed, dataVars, resultVars>>
    BY <1>8 DEF Notify, Up
  <2>2. /\ waiting' \in Seq(Clients) /\ IsInjective(waiting')
        /\ Range(waiting') \subseteq Range(waiting) /\ Range(waiting) \subseteq Clients
        /\ \/ count' = count + 1 /\ pc' = [pc EXCEPT ![p] = "notifying"]
           \/ \E w \in Clients :
                /\ w # p /\ pc[w] = "blocked" /\ w \notin Range(waiting')
                /\ count' = count
                /\ pc' = [pc EXCEPT ![p] = "notifying", ![w] = "again"]
    <3>1. TypeOK /\ Queue /\ Up(p, "notify", "notifying")
      BY <1>8 DEF Notify
    <3> HIDE DEF TypeOK, Queue
    <3> QED
      BY <3>1, UpEffect, WaitersAreClients
  <2>3. TypeOK'
    BY <2>1, <2>2
  <2>4. References'
    BY <2>1, <2>2
  <2>5. Roles'
    BY <2>1, <2>2
  <2>6. Queue'
    BY <2>1, <2>2
  <2>7. LastUp'
    BY <2>1, <2>2
  <2> QED
    BY <2>3, <2>4, <2>5, <2>6, <2>7
<1>9. ASSUME NEW p \in Users, Notified(p) PROVE RefInv'
  BY <1>9 DEF Notified
<1>10. ASSUME NEW p \in Users, ResultPosted(p) PROVE RefInv'
  <2>1. Cardinality(holds) \in Nat /\ (Cardinality(holds) = 0 <=> holds = {})
    BY HoldsFinite
  <2>2. TypeOK'
    <3>1. refs' \in Nat /\ release' = 0
      BY <1>10, <2>1 DEF ResultPosted
    <3> QED
      BY <1>10, <3>1 DEF ResultPosted
  <2>3. References'
    <3>1. CASE release = 1
      BY <1>10, <2>1, <3>1 DEF ResultPosted
    <3>2. CASE release = 0
      BY <1>10, <2>1, <3>2 DEF ResultPosted
    <3> QED
      BY <3>1, <3>2
  <2>4. Roles' /\ Queue'
    BY <1>10, WaitersAreClients DEF ResultPosted
  <2>5. LastUp'
    BY <1>10 DEF ResultPosted
  <2> QED
    BY <2>2, <2>3, <2>4, <2>5
<1>11. ASSUME NEW c \in Clients, Result(c) PROVE RefInv'
  BY <1>11 DEF Result
<1>12. ASSUME NEW c \in Clients, Down(c) PROVE RefInv'
  <2>1. /\ pc[c] = "down" /\ lock = NoOne
        /\ UNCHANGED <<kind, read, destroyed, dataVars, resultVars, lock>>
    BY <1>12 DEF Down
  <2>2. /\ waiting' \in Seq(Clients) /\ IsInjective(waiting')
        /\ Range(waiting) \subseteq Clients
        /\ \/ /\ count > 0 /\ count' = count - 1 /\ waiting' = waiting
              /\ pc' = [pc EXCEPT ![c] = "again"]
           \/ /\ count' = count /\ Range(waiting') = Range(waiting) \union {c}
              /\ pc' = [pc EXCEPT ![c] = "blocked"]
    <3>1. TypeOK /\ Queue /\ pc[c] # "blocked"
      BY <2>1
    <3> HIDE DEF TypeOK, Queue
    <3>2. Range(waiting) \subseteq Clients
      BY <3>1, WaitersAreClients
    <3>3. CASE count > 0
      BY <1>12, <3>1, <3>2, <3>3 DEF Down, TypeOK, Queue
    <3>4. CASE ~ (count > 0)
      BY <1>12, <3>1, <3>2, <3>4, LastWaits DEF Down
    <3> QED
      BY <3>3, <3>4
  <2>3. TypeOK'
    BY <2>1, <2>2
  <2>4. References'
    BY <2>1, <2>2
  <2>5. Roles'
    BY <2>1, <2>2
  <2>6. Queue'
    BY <2>1, <2>2
  <2>7. LastUp'
    BY <2>1, <2>2
  <2> QED
    BY <2>3, <2>4, <2>5, <2>6, <2>7
<1>13. ASSUME NEW c \in Clients, Again(c) PROVE RefInv'
  <2>1. /\ pc[c] = "again" /\ lock = NoOne /\ lock' = c
        /\ UNCHANGED <<kind, read, destroyed, dataVars, resultVars>>
    BY <1>13 DEF Again, Up
  <2>2. /\ waiting' \in Seq(Clients) /\ IsInjective(waiting')
        /\ Range(waiting') \subseteq Range(waiting) /\ Range(waiting) \subseteq Clients
        /\ \/ count' = count + 1 /\ pc' = [pc EXCEPT ![c] = "passing"]
           \/ \E w \in Clients :
                /\ w # c /\ pc[w] = "blocked" /\ w \notin Range(waiting')
                /\ count' = count
                /\ pc' = [pc EXCEPT ![c] = "passing", ![w] = "again"]
    <3>1. TypeOK /\ Queue /\ Up(c, "again", "passing")
      BY <1>13 DEF Again
    <3> HIDE DEF TypeOK, Queue
    <3> QED
      BY <3>1, UpEffect, WaitersAreClients
  <2>3. TypeOK'
    BY <2>1, <2>2
  <2>4. References'
    BY <2>1, <2>2
  <2>5. Roles'
    BY <2>1, <2>2
  <2>6. Queue'
    BY <2>1, <2>2
  <2>7. LastUp'
    BY <2>1, <2>2
  <2> QED
    BY <2>3, <2>4, <2>5, <2>6, <2>7
<1>14. ASSUME NEW c \in Clients, Passed(c) \/ Read(c) PROVE RefInv'
  <2>1. TypeOK'
    BY <1>14 DEF Passed, Read
  <2>2. References'
    BY <1>14 DEF Passed, Read
  <2>3. Roles'
    BY <1>14 DEF Passed, Read
  <2>4. Queue'
    <3>1. (\A q \in Users : lock = q <=> pc[q] \in {"notifying", "passing"})'
      BY <1>14 DEF Passed, Read
    <3>2. IsInjective(waiting)'
      BY <1>14 DEF Passed, Read
    <3>3. (\A q \in Range(waiting) : pc[q] = "blocked")'
      BY <1>14, WaitersAreClients DEF Passed, Read
    <3> QED
      BY <3>1, <3>2, <3>3
  <2>5. LastUp'
    BY <1>14 DEF Passed, Read
  <2> QED
    BY <2>1, <2>2, <2>3, <2>4, <2>5
<1>15. CASE UNCHANGED vars
  BY <1>15 DEF vars
<1> QED
  BY <1>1, <1>2, <1>3, <1>4, <1>5, <1>6, <1>7, <1>8, <1>9, <1>10, <1>11, <1>12,
     <1>13, <1>14, <1>15 DEF Next, Posting, Waiting, Calls

LEMMA RefsInvariant == Spec => []RefInv
<1>1. Init => RefInv
  BY InitRefs
<1>2. RefInv /\ [Next]_vars => RefInv'
  BY StepRefs
<1> QED
  BY <1>1, <1>2, PTL DEF Spec

-----------------------------------------------------------------------------
LEMMA InitAnnounce == Init => Announcement
BY WorkerApart
DEF Init, Announcement, Fresh, Announcing, Announced, Passing, AllKinds

LEMMA StepAnnounce == FutureInv /\ [Next]_vars => Announcement'
<1> SUFFICES ASSUME FutureInv, [Next]_vars PROVE Announcement'
  OBVIOUS
<1> USE WorkerApart
<1> USE DEF FutureInv, RefInv, TypeOK, Roles, Announcement, Fresh, Settled, PCs, Results,
            Announcing, Announced, Passing,
            Goes, Returned, dataVars, resultVars, semaVars
<1>1. ASSUME NEW c \in Clients, Spawn(c) PROVE Announcement'
  BY <1>1 DEF Spawn
<1>2. ASSUME NEW c \in Clients, NEW d \in Clients, Copy(c, d) PROVE Announcement'
  BY <1>2 DEF Copy
<1>3. ASSUME NEW c \in Clients, Drop(c) PROVE Announcement'
  BY <1>3 DEF Drop
<1>4. ASSUME NEW p \in Users, Destroy(p) PROVE Announcement'
  <2>1. \A q \in Users : pc[q] \in {"idle", "none", "destroy", "done"}
    BY <1>4, NoReferences DEF Destroy, References
  <2> QED
    BY <1>4, <2>1 DEF Destroy
<1>5. CASE FunctionEnds
  BY <1>5 DEF FunctionEnds
<1>6. ASSUME NEW c \in Clients, Post(c) PROVE Announcement'
  BY <1>6 DEF Post
<1>7. ASSUME NEW p \in Users, Store(p) \/ Publish(p) PROVE Announcement'
  BY <1>7 DEF Store, Publish
<1>8. ASSUME NEW p \in Users, Fail(p) \/ Save(p) PROVE Announcement'
  BY <1>8 DEF Fail, Save
<1>9. ASSUME NEW p \in Users, Notify(p) PROVE Announcement'
  BY <1>9 DEF Notify, Up
<1>10. ASSUME NEW p \in Users, Notified(p) \/ ResultPosted(p) PROVE Announcement'
  BY <1>10 DEF Notified, ResultPosted
<1>11. ASSUME NEW c \in Clients, Result(c) PROVE Announcement'
  BY <1>11 DEF Result
<1>12. ASSUME NEW c \in Clients, Down(c) PROVE Announcement'
  BY <1>12 DEF Down
<1>13. ASSUME NEW c \in Clients, Again(c) PROVE Announcement'
  BY <1>13 DEF Again, Up
<1>14. ASSUME NEW c \in Clients, Passed(c) \/ Read(c) PROVE Announcement'
  BY <1>14 DEF Passed, Read
<1>15. CASE UNCHANGED vars
  BY <1>15 DEF vars
<1> QED
  BY <1>1, <1>2, <1>3, <1>4, <1>5, <1>6, <1>7, <1>8, <1>9, <1>10, <1>11, <1>12,
     <1>13, <1>14, <1>15 DEF Next, Posting, Waiting, Calls

LEMMA FutureInvariant == Spec => []FutureInv
<1>1. Init => Announcement
  BY InitAnnounce
<1>2. FutureInv /\ [Next]_vars => Announcement'
  BY StepAnnounce
<1> QED
  BY <1>1, <1>2, RefsInvariant, PTL DEF Spec, FutureInv

-----------------------------------------------------------------------------
\* The values the variables have (OS/Future.h:137-168, Core/Future.h:77-83).
THEOREM TypeCorrect == Spec => []TypeOK
<1>1. FutureInv => TypeOK
  BY DEF FutureInv, RefInv
<1> QED
  BY <1>1, FutureInvariant, PTL

\* A future is not destroyed while any UThread is in a call on it, also not by
\* one that the Sema has woken before its up() has unlocked (OS/Future.h:175-192,
\* Core/Future.cpp:17-25, 87-123).
THEOREM NotDestroyedInUse == Spec => []NoUseAfterDestroy
<1>1. FutureInv => NoUseAfterDestroy
  <2> SUFFICES ASSUME FutureInv, destroyed, NEW p \in Users PROVE pc[p] \in Outside
    BY DEF NoUseAfterDestroy
  <2>1. refs = 0 /\ pc[p] # "destroy"
    BY DEF FutureInv, RefInv, References
  <2> QED
    BY <2>1, NoReferences, WorkerApart DEF FutureInv, Outside
<1> QED
  BY <1>1, FutureInvariant, PTL

\* Whoever has waited finds a value or an exception that was stored to the end
\* (OS/Future.cpp:44-56, 70-91).
THEOREM ResultsAreComplete == Spec => []ResultIsComplete
<1>1. FutureInv => ResultIsComplete
  <2> SUFFICES ASSUME FutureInv, NEW c \in Clients, pc[c] = "read"
               PROVE  stored = posted /\ posted \in {"value", "error"}
    BY DEF ResultIsComplete
  <2>1. ~ destroyed
    BY NoReferences DEF FutureInv, RefInv, References
  <2>2. Settled
    BY <2>1 DEF FutureInv, Announcement, Passing
  <2> QED
    BY <2>2 DEF Settled, FutureInv, RefInv, TypeOK, Results
<1> QED
  BY <1>1, FutureInvariant, PTL

\* What has been announced stays, and its memory is written once
\* (Core/Future.cpp:31-51, OS/Future.cpp:70-91).
THEOREM ResultSettledOnce == Spec => OneResult
<1> DEFINE Kept == /\ posted # "empty" => posted' = posted
                   /\ stored # "empty" => stored' \in {stored, "gone"}
<1>1. FutureInv /\ [Next]_vars => [Kept]_vars
  <2> SUFFICES ASSUME FutureInv, Next PROVE Kept
    OBVIOUS
  <2> USE WorkerApart DEF Goes, dataVars, resultVars, semaVars
  <2>1. CASE FunctionEnds
    BY <2>1 DEF FunctionEnds
  <2>2. ASSUME NEW p \in Users, Posting(p) PROVE Kept
    <3>1. pc[p] \in {"store", "fail"} => posted = "empty" /\ stored = "empty"
      BY DEF FutureInv, Announcement
    <3>2. /\ pc[p] = "publish" => posted = "empty"
          /\ pc[p] = "save" => stored = "empty"
      BY DEF FutureInv, Announcement
    <3> QED
      BY <2>2, <3>1, <3>2
      DEF Posting, Store, Publish, Fail, Save, Notify, Notified, Up, ResultPosted, Destroy
  <2>3. ASSUME NEW c \in Clients, Waiting(c) \/ Calls(c) PROVE Kept
    BY <2>3
    DEF Waiting, Down, Again, Up, Passed, Read, Calls, Spawn, Drop, Post, Result, Copy
  <2> QED
    BY <2>1, <2>2, <2>3 DEF Next
<1> QED
  BY <1>1, FutureInvariant, PTL DEF Spec, OneResult
==============================================================================
