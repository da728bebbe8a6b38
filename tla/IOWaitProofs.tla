----------------------------- MODULE IOWaitProofs -----------------------------
(***************************************************************************)
(* Theorems about IOWait, for any number of readers, descriptors and OS    *)
(* threads that signal: the condition is used as IOCondition.tla has it,   *)
(* the requests as IORequests.tla has them, the OS thread does not sleep   *)
(* on a reader it has made ready, and the table of requests gets out of    *)
(* order in one place of the code only.                                    *)
(***************************************************************************)
EXTENDS IOWait, IOConditionProofs

-----------------------------------------------------------------------------
(* The condition that the OS thread sleeps on. *)

\* Set() is a step of a signaller, or none.
LEMMA SetSteps ==
  ASSUME NEW readers, Set(readers), spc[Self] = "idle"
  PROVE  [Next]_vars
BY IOWaitAssumption DEF Set, Next, Signaller

LEMMA StepsOfCondition == [IONext]_allVars => [Next]_vars
<1> SUFFICES ASSUME [IONext]_allVars PROVE [Next]_vars
  OBVIOUS
<1>1. ASSUME NEW f \in Fds, Close(f) PROVE [Next]_vars
  BY <1>1, SetSteps DEF Close, Running, AtEase
<1>2. ASSUME NEW f \in Fds, OpenStream(f) \/ Arrive(f) PROVE [Next]_vars
  BY <1>2 DEF OpenStream, Arrive
<1>3. ASSUME NEW r \in Readers, NEW f \in Fds, Read(r, f) PROVE [Next]_vars
  BY <1>3 DEF Read
<1>4. ASSUME NEW r \in Readers, Switch(r) \/ Resume(r) PROVE [Next]_vars
  BY <1>4 DEF Switch, Resume
<1>5. CASE Look
  BY <1>5 DEF Look, Next, Waiter
<1>6. CASE Leave
  BY <1>6 DEF Leave
<1>7. CASE notifyAll
  BY <1>7, SetSteps DEF notifyAll
<1>8. CASE Poll
  BY <1>8 DEF Poll, Next, Waiter
<1>9. CASE EndWait
  BY <1>9 DEF EndWait, Next, Waiter
<1>10. ASSUME NEW s \in Signallers, Signal(s) PROVE [Next]_vars
  BY <1>10 DEF Signal, Next, Signaller
<1>11. CASE UNCHANGED allVars
  BY <1>11 DEF allVars
<1> QED
  BY <1>1, <1>2, <1>3, <1>4, <1>5, <1>6, <1>7, <1>8, <1>9, <1>10, <1>11
  DEF IONext, Streams

\* UThreads that wait for descriptors use the condition as IOCondition.tla has
\* it: whatever holds of it there holds here.
THEOREM UsesCondition == IOSpec => Spec
<1>1. IOInit => Init
  BY DEF IOInit
<1> QED BY <1>1, StepsOfCondition, PTL DEF IOSpec, Spec

\* In particular no signal to an OS thread that waits for descriptors is lost.
THEOREM ConditionHolds == IOSpec => [](TypeOK /\ FlagIsBacked /\ NoLostSignal)
BY UsesCondition, SignalsAreNotLost, PTL

-----------------------------------------------------------------------------
(* The signal of the OS thread to itself. *)

LEMMA InitReady == IOInit => NoSleepOnReady
BY DEF IOInit, Init, NoSleepOnReady

\* A reader becomes ready together with Publish(Self), and what Self has begun
\* ends with the counter up, or with the flag, for which FlagIsBacked answers.
\* The OS thread goes to sleep with nobody ready: work is empty then, and Look
\* has seen that no reader is.
LEMMA StepReady ==
  SignalInv /\ NoSleepOnReady /\ [IONext]_allVars => NoSleepOnReady'
<1> SUFFICES ASSUME SignalInv, NoSleepOnReady, [IONext]_allVars,
                    wpc' = "poll", NEW q \in Readers, pc'[q] = "ready"
             PROVE  fd' > 0 \/ Writing' \/ spc'[Self] = "cas"
  BY DEF NoSleepOnReady
<1> USE IOWaitAssumption, PlatformAssumption
<1> USE DEF SignalInv, TypeOK
<1> DEFINE Coming == fd > 0 \/ Writing \/ spc[Self] = "cas"
<1>1. ASSUME wpc = "poll", pc[q] = "ready" PROVE Coming
  BY <1>1 DEF NoSleepOnReady
\* A step that leaves the condition alone, and one that publishes for Self.
<1>2. ASSUME UNCHANGED vars, pc'[q] = pc[q] PROVE Coming'
  <2>1. wpc = "poll" /\ pc[q] = "ready"
    BY <1>2 DEF vars
  <2> QED BY <1>1, <1>2, <2>1 DEF vars, Writing
<1>3. ASSUME NEW readers, Set(readers) PROVE Coming'
  <2>1. CASE Publish(Self)
    BY <2>1 DEF Publish
  <2>2. CASE UNCHANGED vars /\ pc'[q] = pc[q]
    BY <2>2, <1>2
  <2> QED BY <1>3, <2>1, <2>2 DEF Set
<1>4. ASSUME NEW f \in Fds, Close(f) PROVE Coming'
  BY <1>4, <1>3 DEF Close
<1>5. ASSUME NEW f \in Fds, OpenStream(f) \/ Arrive(f) PROVE Coming'
  BY <1>5, <1>2 DEF OpenStream, Arrive
<1>6. ASSUME wpc = "check", UNCHANGED vars PROVE FALSE
  BY <1>6 DEF vars
<1>7. ASSUME NEW r \in Readers, NEW f \in Fds, Read(r, f) PROVE Coming'
  BY <1>7, <1>6 DEF Read, Running
<1>8. ASSUME NEW r \in Readers, Switch(r) \/ Resume(r) PROVE Coming'
  BY <1>8, <1>6 DEF Switch, Resume, Running
<1>9. CASE Look
  BY <1>9 DEF Look, Check
<1>10. CASE Leave
  BY <1>10, <1>6 DEF Leave, Running
<1>11. CASE notifyAll
  BY <1>11, <1>3 DEF notifyAll
<1>12. CASE Poll
  BY <1>12 DEF Poll, Wake, Abort, TimeOut
<1>13. CASE EndWait
  BY <1>13 DEF EndWait, Reset
<1>14. ASSUME NEW s \in Signallers, Signal(s) PROVE Coming'
  <2>1. wpc' = wpc /\ pc' = pc
    BY <1>14 DEF Signal, Publish, Cas, Write, ioVars
  <2>2. Coming
    BY <1>1, <2>1
  <2>3. CASE Publish(s)
    BY <2>2, <2>3 DEF Publish, Writing
  <2>4. CASE Cas(s)
    <3>1. CASE signaled = 0
      BY <3>1, <2>4 DEF Cas, Writing
    <3>2. CASE signaled = 1
      <4>1. fd > 0 \/ Writing
        BY <3>2, <2>1 DEF FlagIsBacked
      <4> QED BY <3>2, <4>1, <2>4 DEF Cas, Writing
    <3> QED BY <3>1, <3>2
  <2>5. CASE Write(s)
    BY <2>5 DEF Write
  <2> QED BY <1>14, <2>3, <2>4, <2>5 DEF Signal
<1>15. CASE UNCHANGED allVars
  BY <1>15, <1>2 DEF allVars, ioVars
<1> QED
  BY <1>4, <1>5, <1>7, <1>8, <1>9, <1>10, <1>11, <1>12, <1>13, <1>14, <1>15
  DEF IONext, Streams

\* Thread.cpp:269-297: a reader that checkIo has made ready is not slept on,
\* however many others are signalling meanwhile.
THEOREM NoSleepOnReadyHolds == IOSpec => []NoSleepOnReady
<1>1. IOInit => SignalInv
  BY InitSignal DEF IOInit
<1>2. SignalInv /\ [IONext]_allVars => SignalInv'
  BY StepSignal, StepsOfCondition
<1> QED BY <1>1, <1>2, InitReady, StepReady, PTL DEF IOSpec

-----------------------------------------------------------------------------
(* The requests are used as IORequests.tla has them. *)

LEMMA StepsOfRequests == [IONext]_allVars => [RequestNext]_requestVars
<1> SUFFICES ASSUME [IONext]_allVars PROVE [RequestNext]_requestVars
  OBVIOUS
<1>1. ASSUME NEW f \in Fds, Close(f) \/ OpenStream(f) PROVE RequestNext
  BY <1>1 DEF Close, OpenStream, RequestNext
<1>2. ASSUME NEW r \in Readers, NEW f \in Fds, Read(r, f) PROVE [RequestNext]_requestVars
  BY <1>2 DEF Read, RequestNext
<1>3. ASSUME NEW r \in Readers, Resume(r) PROVE RequestNext
  BY <1>3 DEF Resume, RequestNext
<1>4. CASE Look \/ Leave \/ notifyAll \/ Poll \/ EndWait \/ UNCHANGED allVars
  BY <1>4 DEF Look, Leave, notifyAll, Poll, EndWait, ioVars, allVars
<1>5. ASSUME NEW f \in Fds, Arrive(f) PROVE UNCHANGED requestVars
  BY <1>5 DEF Arrive
<1>6. ASSUME NEW r \in Readers, Switch(r) PROVE UNCHANGED requestVars
  BY <1>6 DEF Switch
<1>7. ASSUME NEW s \in Signallers, Signal(s) PROVE UNCHANGED requestVars
  BY <1>7 DEF Signal, ioVars
<1> QED
  BY <1>1, <1>2, <1>3, <1>4, <1>5, <1>6, <1>7 DEF IONext, Streams

\* Streams leave the requests alone but through attach, detach and remove:
\* whatever holds of them in IORequests.tla holds here.
THEOREM UsesRequests == IOSpec => RequestSpec
<1>1. IOInit => RequestInit
  BY DEF IOInit
<1> QED BY <1>1, StepsOfRequests, PTL DEF IOSpec, RequestSpec

-----------------------------------------------------------------------------
(* The table of requests. *)

\* The hash: whatever the bits, there is a slot that has them.
LEMMA Powers == 2^0 = 1 /\ 2^1 = 2 /\ 2^2 = 4
OBVIOUS

LEMMA BitsOfSlots ==
  ASSUME NEW b \in [0..2 -> BOOLEAN]
  PROVE  \E s \in Slots : \A i \in 0..2 : Bit(s, i) = b[i]
<1> DEFINE n(i) == IF b[i] THEN 2^i ELSE 0
<1> DEFINE s == n(0) + n(1) + n(2)
<1>1. s \in Slots
  BY Powers DEF Slots, capacity
<1>2. Bit(s, 0) = b[0] /\ Bit(s, 1) = b[1] /\ Bit(s, 2) = b[2]
  BY Powers DEF Bit
<1> QED BY <1>1, <1>2

LEMMA SlotOfFd == primarySlot \in [Fds -> Slots]
<1> SUFFICES ASSUME NEW key \in Fds PROVE primarySlot[key] \in Slots
  BY DEF primarySlot
<1> DEFINE a == (Xor(key, 44941039, 26) + key * 2^4) % 2^26
           b == Xor(a, a \div 2^10, 16)
           c == (b + b * 2^7) % 2^16
           bits == [i \in 0..2 |-> Bit(c, i) # Bit(c \div 2^13, i)]
<1>1. \E s \in Slots : \A i \in 0..2 : Bit(s, i) = bits[i]
  <2> HIDE DEF c
  <2>1. bits \in [0..2 -> BOOLEAN]
    OBVIOUS
  <2> QED BY <2>1, BitsOfSlots
<1>2. primarySlot[key] =
        CHOOSE s \in Slots : \A i \in 0..2 : Bit(s, i) = (Bit(c, i) # Bit(c \div 2^13, i))
  BY DEF primarySlot
<1> HIDE DEF c
<1> QED BY <1>1, <1>2

MapType ==
  [info : [Slots -> Slots \union {Free, End}], key : [Slots -> Fds \union {-1}],
   val : [Slots -> Readers \union {Null}], lastFree : Slots]

\* A table of requests, in order or not.
IsTable(map) ==
  /\ map \in MapType
  /\ \A s \in Used(map) : map.key[s] \in Fds /\ map.val[s] \in Readers

\* Where the element in slot s belongs.
Home(map, s) == primarySlot[map.key[s]]

LEMMA UsedIs ==
  ASSUME NEW map
  PROVE  /\ Used(map) \subseteq Slots
         /\ Free \notin Slots /\ End \notin Slots /\ Astray \notin Slots
         /\ Free # End /\ Free # Astray /\ Astray # End
         /\ \A s \in Slots : s \notin Used(map) => map.info[s] = Free
         /\ \A s \in Slots : s \in Used(map) => map.info[s] # Free
BY DEF Used, Slots, capacity, Free, End, Astray

-----------------------------------------------------------------------------
(* Ways through a table. *)

Closed(link, s, stop, T) ==
  s \in T /\ \A p \in T \ stop : link[p] \in DOMAIN link => link[p] \in T

LEMMA WalkIs ==
  ASSUME NEW link, NEW s, NEW stop
  PROVE  Walk(link, s, stop) =
           {p \in DOMAIN link : \A T \in SUBSET DOMAIN link : Closed(link, s, stop, T) => p \in T}
<1> DEFINE way(l, out) ==
             {p \in DOMAIN l : \A T \in SUBSET DOMAIN l : Closed(l, s, out, T) => p \in T}
<1>1. Walk(link, s, stop) = UNION {way(l, out) : l \in {link}, out \in {stop}}
  BY DEF Walk, Closed
<1>2. UNION {way(l, out) : l \in {link}, out \in {stop}} = way(link, stop)
  <2> HIDE DEF way
  <2> QED OBVIOUS
<1>3. Walk(link, s, stop) = way(link, stop)
  <2> HIDE DEF way
  <2> QED BY <1>1, <1>2
<1> QED BY <1>3, Zenon

\* A way has its beginning, and goes on to the first that is in stop.
LEMMA WalkGoesOn ==
  ASSUME NEW link, NEW s \in DOMAIN link, NEW stop
  PROVE  Closed(link, s, stop, Walk(link, s, stop))
BY WalkIs DEF Closed

\* Nothing else is on it.
LEMMA WalkIsLeast ==
  ASSUME NEW link, NEW s, NEW stop,
         NEW T \in SUBSET DOMAIN link, Closed(link, s, stop, T)
  PROVE  Walk(link, s, stop) \subseteq T
BY WalkIs

\* A way past none of stop goes to wherever one goes that does not stop.
LEMMA WalkOn ==
  ASSUME NEW link, NEW s \in DOMAIN link, NEW stop,
         Walk(link, s, stop) \cap stop = {}
  PROVE  Walk(link, s, {}) \subseteq Walk(link, s, stop)
<1>1. Closed(link, s, {}, Walk(link, s, stop))
  BY WalkGoesOn DEF Closed
<1>2. Walk(link, s, stop) \in SUBSET DOMAIN link
  BY WalkIs
<1> QED BY <1>1, <1>2, WalkIsLeast

\* What is not the first on a way has one before it.
LEMMA OneBefore ==
  ASSUME NEW link, NEW s \in DOMAIN link, NEW t, t # s, t \in Walk(link, s, {t})
  PROVE  \E p \in Walk(link, s, {t}) \ {t} : link[p] = t
<1> DEFINE W == Walk(link, s, {t})
<1> SUFFICES ASSUME \A p \in W \ {t} : link[p] # t PROVE FALSE
  OBVIOUS
<1>1. Closed(link, s, {t}, W \ {t})
  BY WalkGoesOn DEF Closed
<1>2. W \ {t} \in SUBSET DOMAIN link
  BY WalkIs
<1>3. W \subseteq W \ {t}
  BY <1>1, <1>2, WalkIsLeast
<1> QED BY <1>3

-----------------------------------------------------------------------------
(* What put() and remove() write. *)

\* r is map but for what is in slot s.
Filled(r, map, s, link, key, value) ==
  /\ r \in MapType /\ map \in MapType
  /\ r.info[s] = link /\ r.key[s] = key /\ r.val[s] = value
  /\ \A p \in Slots \ {s} :
       r.info[p] = map.info[p] /\ r.key[p] = map.key[p] /\ r.val[p] = map.val[p]

LEMMA FillIs ==
  ASSUME NEW map \in MapType, NEW s \in Slots,
         NEW link \in Slots \union {Free, End},
         NEW key \in Fds \union {-1}, NEW value \in Readers \union {Null}
  PROVE  Filled(Fill(map, s, link, key, value), map, s, link, key, value)
BY DEF Fill, MapType, Filled

LEMMA ClearIs ==
  ASSUME NEW map \in MapType, NEW s \in Slots
  PROVE  Filled(Clear(map, s), map, s, Free, -1, Null)
<1>1. Free \in Slots \union {Free, End} /\ -1 \in Fds \union {-1}
      /\ Null \in Readers \union {Null}
  OBVIOUS
<1> QED BY <1>1, FillIs DEF Clear

LEMMA LinkIs ==
  ASSUME NEW map \in MapType, NEW s \in Slots, NEW link \in Slots \union {Free, End}
  PROVE  Filled([map EXCEPT !.info[s] = link], map, s, link, map.key[s], map.val[s])
BY DEF MapType, Filled

\* A free slot is found when there is one.
LEMMA FreeSlotIs ==
  ASSUME NEW map \in MapType, Used(map) # Slots
  PROVE  freeSlot(map) \in Slots \ Used(map)
<1> DEFINE at(i) == (map.lastFree + i) % capacity
           Good(i) == at(i) \notin Used(map) /\ \A j \in 0..(i - 1) : at(j) \in Used(map)
           Full(i) == \A j \in 0..i : at(j) \in Used(map)
<1>1. map.lastFree \in 0..7 /\ Slots = 0..7 /\ capacity = 8
  BY DEF MapType, Slots, capacity
<1>2. \A i \in Slots : at(i) \in Slots
  BY <1>1
<1>3. ~ Full(7)
  <2>1. \A s \in Slots : \E i \in 0..7 : at(i) = s
    <3>1. ASSUME NEW s \in Slots
          PROVE  (s - map.lastFree) % 8 \in 0..7 /\ at((s - map.lastFree) % 8) = s
      BY <1>1
    <3> QED BY <3>1
  <2> QED BY <2>1, UsedIs
<1>4. \E i \in Slots : Good(i)
  <2>1. Good(0) \/ Full(0)
    OBVIOUS
  <2>2. ASSUME NEW i \in 0..6, Full(i) PROVE Good(i + 1) \/ Full(i + 1)
    <3>1. \A j \in 0..(i + 1) : j \in 0..i \/ j = i + 1
      OBVIOUS
    <3>2. (i + 1) - 1 = i
      OBVIOUS
    <3> HIDE DEF at
    <3> QED BY <2>2, <3>1, <3>2
  <2> HIDE DEF Good, Full
  <2> QED BY <1>1, <1>3, <2>1, <2>2
<1>5. freeSlot(map) = at(CHOOSE i \in Slots : Good(i))
  BY DEF freeSlot
<1> DEFINE i == CHOOSE i \in Slots : Good(i)
<1>6. i \in Slots /\ Good(i)
  <2> HIDE DEF Good
  <2> QED BY <1>4
<1> HIDE DEF i
<1>7. at(i) \in Slots \ Used(map)
  BY <1>2, <1>6
<1> QED BY <1>5, <1>7 DEF i

\* What put() does: the home of the new element is free, or the new one comes
\* second in its chain, or what is in its home makes room.
PutFirst(r, map, into, key, value) ==
  /\ into \notin Used(map)
  /\ Filled(r, map, into, End, key, value)

PutSecond(r, map, into, key, value) ==
  /\ into \in Used(map) /\ Home(map, into) = into
  /\ \E to \in Slots \ Used(map), f \in MapType :
       /\ Filled(f, map, to, map.info[into], key, value)
       /\ Filled(r, f, into, to, f.key[into], f.val[into])

PutMoves(r, map, into, key, value) ==
  /\ into \in Used(map) /\ Home(map, into) # into
  /\ \E to \in Slots \ Used(map), f \in MapType :
       /\ Filled(f, map, to, map.info[into], map.key[into], map.val[into])
       /\ Filled(r, f, into, End, key, value)

LEMMA PutCases ==
  ASSUME NEW map, IsTable(map), Used(map) # Slots,
         NEW key \in Fds, NEW value \in Readers, NEW r, r = put(map, key, value)
  PROVE  LET into == primarySlot[key]
         IN  \/ PutFirst(r, map, into, key, value)
             \/ PutSecond(r, map, into, key, value)
             \/ PutMoves(r, map, into, key, value)
<1> DEFINE into == primarySlot[key]
           to == freeSlot(map)
           found == [map EXCEPT !.lastFree = to]
<1>1. /\ map \in MapType /\ into \in Slots
      /\ to \in Slots \ Used(map)
      /\ key \in Fds \union {-1} /\ value \in Readers \union {Null}
  BY SlotOfFd, FreeSlotIs DEF IsTable
<1>2. /\ found \in MapType
      /\ found.info = map.info /\ found.key = map.key /\ found.val = map.val
  BY <1>1 DEF MapType
<1>3. map.info[into] \in Slots \union {Free, End} /\ map.key[into] \in Fds \union {-1}
      /\ map.val[into] \in Readers \union {Null} /\ End \in Slots \union {Free, End}
  BY <1>1 DEF MapType
<1>4. CASE into \notin Used(map)
  <2>1. r = Fill(map, into, End, key, value)
    BY <1>4 DEF put
  <2>2. Filled(r, map, into, End, key, value)
    BY <1>1, <1>3, <2>1, FillIs
  <2> QED BY <1>4, <2>2 DEF PutFirst
<1>5. CASE into \in Used(map) /\ Home(map, into) = into
  <2> DEFINE f == Fill(found, to, map.info[into], key, value)
  <2>1. r = [f EXCEPT !.info[into] = to]
    BY <1>5 DEF put, Home
  <2>2. Filled(f, found, to, map.info[into], key, value)
    BY <1>1, <1>2, <1>3, FillIs
  <2> HIDE DEF f, found, to, into
  <2>3. Filled(r, f, into, to, f.key[into], f.val[into])
    <3>1. f \in MapType
      BY <2>2 DEF Filled
    <3> QED BY <1>1, <2>1, <3>1, LinkIs
  <2>4. Filled(f, map, to, map.info[into], key, value)
    BY <1>1, <1>2, <2>2 DEF Filled
  <2> QED BY <1>1, <1>5, <2>3, <2>4 DEF PutSecond, Filled, into
<1>6. CASE into \in Used(map) /\ Home(map, into) # into
  <2> DEFINE f == Fill(found, to, map.info[into], map.key[into], map.val[into])
  <2>1. r = Fill(f, into, End, key, value)
    BY <1>6 DEF put, Home
  <2>2. Filled(f, found, to, map.info[into], map.key[into], map.val[into])
    BY <1>1, <1>2, <1>3, FillIs
  <2> HIDE DEF f, found, to, into
  <2>3. Filled(r, f, into, End, key, value)
    <3>1. f \in MapType
      BY <2>2 DEF Filled
    <3> QED BY <1>1, <1>3, <2>1, <3>1, FillIs
  <2>4. Filled(f, map, to, map.info[into], map.key[into], map.val[into])
    BY <1>1, <1>2, <2>2 DEF Filled
  <2> QED BY <1>1, <1>6, <2>3, <2>4 DEF PutMoves, Filled, into
<1> QED BY <1>4, <1>5, <1>6

LEMMA PutIsTable ==
  ASSUME NEW map, IsTable(map), Used(map) # Slots,
         NEW key \in Fds, NEW value \in Readers
  PROVE  IsTable(put(map, key, value))
<1> DEFINE r == put(map, key, value)
           into == primarySlot[key]
<1>1. into \in Slots
  BY SlotOfFd
<1>2. r \in MapType /\ r.key[into] \in Fds /\ r.val[into] \in Readers
      /\ \A s \in Slots \ {into} : r.info[s] # Free => r.key[s] \in Fds /\ r.val[s] \in Readers
  <2> HIDE DEF r, into
  <2>1. \A s \in Slots : map.info[s] # Free => map.key[s] \in Fds /\ map.val[s] \in Readers
    BY DEF IsTable, Used
  <2>2. CASE PutFirst(r, map, into, key, value)
    BY <1>1, <2>1, <2>2 DEF PutFirst, Filled
  <2>3. CASE PutSecond(r, map, into, key, value)
    <3>1. PICK to \in Slots \ Used(map), f \in MapType :
            /\ Filled(f, map, to, map.info[into], key, value)
            /\ Filled(r, f, into, to, f.key[into], f.val[into])
      BY <2>3 DEF PutSecond
    <3>2. into # to /\ map.info[into] # Free
      BY <2>3, UsedIs DEF PutSecond
    <3> QED BY <1>1, <2>1, <3>1, <3>2 DEF Filled
  <2>4. CASE PutMoves(r, map, into, key, value)
    <3>1. PICK to \in Slots \ Used(map), f \in MapType :
            /\ Filled(f, map, to, map.info[into], map.key[into], map.val[into])
            /\ Filled(r, f, into, End, key, value)
      BY <2>4 DEF PutMoves
    <3>2. into # to /\ map.info[into] # Free
      BY <2>4, UsedIs DEF PutMoves
    <3> QED BY <1>1, <2>1, <3>1, <3>2 DEF Filled
  <2> QED BY <2>2, <2>3, <2>4, PutCases DEF r, into
<1> QED BY <1>1, <1>2 DEF IsTable, Used

\* What remove() does: nothing, or the element is alone, or the one after it
\* takes its place, or the one before it is linked with the one after it.
RemovedAlone(r, map, pos) ==
  /\ Home(map, pos) = pos /\ map.info[pos] = End
  /\ Filled(r, map, pos, Free, -1, Null)

RemovedHead(r, map, pos) ==
  /\ Home(map, pos) = pos /\ map.info[pos] \in Slots
  /\ \E f \in MapType :
       /\ LET t == map.info[pos]
          IN  Filled(f, map, pos, map.info[t], map.key[t], map.val[t])
       /\ Filled(r, f, map.info[pos], Free, -1, Null)

RemovedLater(r, map, pos) ==
  /\ Home(map, pos) # pos
  /\ \E prev \in Used(map) \ {pos}, f \in MapType :
       /\ map.info[prev] = pos
       /\ Filled(f, map, pos, Free, -1, Null)
       /\ Filled(r, f, prev, map.info[pos], f.key[prev], f.val[prev])

LEMMA RemoveCases ==
  ASSUME NEW map, IsTable(map), NEW pos \in Used(map), NEW r, r = remove(map, pos)
  PROVE  \/ r = map /\ (Home(map, pos) \notin Used(map)
                         \/ pos \notin Walk(Links(map), Home(map, pos), {pos}))
         \/ RemovedAlone(r, map, pos)
         \/ RemovedHead(r, map, pos)
         \/ RemovedLater(r, map, pos)
<1> DEFINE t == map.info[pos]
           home == Home(map, pos)
           way == Walk(Links(map), home, {pos})
<1>1. /\ map \in MapType /\ pos \in Slots
      /\ t \in Slots \union {End}
  BY UsedIs DEF IsTable, MapType
<1>2. DOMAIN Links(map) = Used(map) /\ \A p \in Used(map) : Links(map)[p] = map.info[p]
  BY DEF Links
<1>3. CASE home \notin Used(map) \/ pos \notin way
  <2>1. r = map
    BY <1>3 DEF remove, Home
  <2> QED BY <1>3, <2>1
<1>4. CASE home \in Used(map) /\ pos \in way /\ pos # home
  <2> DEFINE prev == CHOOSE s \in way \ {pos} : map.info[s] = pos
  <2>1. \E s \in way \ {pos} : map.info[s] = pos
    <3>1. \E s \in way \ {pos} : Links(map)[s] = pos
      BY <1>2, <1>4, OneBefore
    <3>2. way \subseteq Used(map)
      BY <1>2, WalkIs
    <3> QED BY <1>2, <3>1, <3>2
  <2>2. prev \in Used(map) \ {pos} /\ map.info[prev] = pos
    <3>1. way \subseteq Used(map)
      BY <1>2, WalkIs
    <3> HIDE DEF way
    <3> QED BY <2>1, <3>1
  <2> DEFINE f == Clear(map, pos)
  <2>3. r = [f EXCEPT !.info[prev] = t]
    BY <1>4 DEF remove, Home
  <2> HIDE DEF prev, f
  <2>4. Filled(f, map, pos, Free, -1, Null)
    BY <1>1, ClearIs DEF f
  <2>5. Filled(r, f, prev, t, f.key[prev], f.val[prev])
    <3>1. f \in MapType /\ prev \in Slots
      BY <2>2, <2>4, UsedIs DEF Filled
    <3> HIDE DEF t
    <3> QED BY <1>1, <2>3, <3>1, LinkIs
  <2> QED BY <1>4, <2>2, <2>4, <2>5 DEF RemovedLater, Filled
<1>5. CASE home \in Used(map) /\ pos \in way /\ pos = home /\ t = End
  <2>1. r = Clear(map, pos)
    BY <1>5 DEF remove, Home
  <2>2. Filled(r, map, pos, Free, -1, Null)
    BY <1>1, <2>1, ClearIs
  <2> QED BY <1>5, <2>2 DEF RemovedAlone
<1>6. CASE home \in Used(map) /\ pos \in way /\ pos = home /\ t # End
  <2> DEFINE f == Fill(map, pos, map.info[t], map.key[t], map.val[t])
  <2>1. r = Clear(f, t)
    BY <1>6 DEF remove, Home
  <2>2. t \in Slots
    BY <1>1, <1>6
  <2>3. /\ map.info[t] \in Slots \union {Free, End} /\ map.key[t] \in Fds \union {-1}
        /\ map.val[t] \in Readers \union {Null}
    BY <1>1, <2>2 DEF MapType
  <2>4. Filled(f, map, pos, map.info[t], map.key[t], map.val[t])
    BY <1>1, <2>3, FillIs
  <2> HIDE DEF f
  <2>5. Filled(r, f, t, Free, -1, Null)
    <3>1. f \in MapType
      BY <2>4 DEF Filled
    <3> QED BY <2>1, <2>2, <3>1, ClearIs
  <2> QED BY <1>6, <2>2, <2>4, <2>5 DEF RemovedHead, Filled
<1> QED BY <1>1, <1>3, <1>4, <1>5, <1>6

\* Nobody is put into a table by remove().
LEMMA RemoveIsTable ==
  ASSUME NEW map, IsTable(map), NEW pos \in Used(map)
  PROVE  IsTable(remove(map, pos)) /\ Values(remove(map, pos)) \subseteq Values(map)
<1> DEFINE r == remove(map, pos)
           Same(s, t) == map.info[t] # Free /\ r.key[s] = map.key[t] /\ r.val[s] = map.val[t]
<1>1. r \in MapType /\ \A s \in Slots : r.info[s] # Free => \E t \in Slots : Same(s, t)
  <2>1. map \in MapType /\ pos \in Slots /\ map.info[pos] # Free
    BY UsedIs DEF IsTable
  <2> HIDE DEF r
  <2>2. CASE r = map
    BY <2>1, <2>2
  <2>3. CASE RemovedAlone(r, map, pos)
    BY <2>1, <2>3 DEF RemovedAlone, Filled
  <2>4. CASE RemovedHead(r, map, pos)
    <3> DEFINE u == map.info[pos]
    <3>1. PICK f \in MapType :
            /\ Filled(f, map, pos, map.info[u], map.key[u], map.val[u])
            /\ Filled(r, f, u, Free, -1, Null)
      BY <2>4 DEF RemovedHead
    <3>2. u \in Slots
      BY <2>4 DEF RemovedHead
    <3>3. r \in MapType
      BY <3>1 DEF Filled
    <3>4. ASSUME NEW s \in Slots, r.info[s] # Free PROVE \E t \in Slots : Same(s, t)
      <4>1. s # u
        BY <3>1, <3>4 DEF Filled
      <4>2. CASE s = pos
        <5>1. Same(s, u)
          BY <2>1, <3>1, <3>2, <3>4, <4>1, <4>2 DEF Filled
        <5> QED BY <3>2, <5>1
      <4>3. CASE s # pos
        <5>1. Same(s, s)
          BY <2>1, <3>1, <3>2, <3>4, <4>1, <4>3 DEF Filled
        <5> QED BY <5>1
      <4> QED BY <4>2, <4>3
    <3> QED BY <3>3, <3>4
  <2>5. CASE RemovedLater(r, map, pos)
    <3>1. PICK prev \in Used(map) \ {pos}, f \in MapType :
            /\ map.info[prev] = pos
            /\ Filled(f, map, pos, Free, -1, Null)
            /\ Filled(r, f, prev, map.info[pos], f.key[prev], f.val[prev])
      BY <2>5 DEF RemovedLater
    <3>2. prev \in Slots /\ map.info[prev] # Free
      BY UsedIs
    <3>3. ASSUME NEW s \in Slots, r.info[s] # Free PROVE Same(s, s)
      BY <2>1, <3>1, <3>2, <3>3 DEF Filled
    <3> QED BY <3>1, <3>3 DEF Filled
  <2> QED BY <2>2, <2>3, <2>4, <2>5, RemoveCases DEF r
<1> HIDE DEF r
<1>2. IsTable(r)
  BY <1>1 DEF IsTable, Used
<1>3. Values(r) \subseteq Values(map)
  BY <1>1 DEF Values, Used
<1> QED BY <1>2, <1>3 DEF r

\* What find() returns is in the table under the key.
LEMMA FindIsUsed ==
  ASSUME NEW map, NEW key, find(map, key) \in Slots
  PROVE  find(map, key) \in Used(map) /\ map.key[find(map, key)] = key
<1> DEFINE home == primarySlot[key]
           hits == {s \in Used(map) : map.key[s] = key}
           way == Walk(Links(map), home, hits)
<1>1. \/ find(map, key) = (CHOOSE s \in way : s \in hits) /\ way \cap hits # {}
      \/ find(map, key) \in {Free, Astray}
  BY DEF find
<1>2. find(map, key) \in hits
  <2> HIDE DEF way, hits
  <2> QED BY <1>1, UsedIs
<1> QED BY <1>2

\* So is what the loop of detach() finds, and it is what was looked for.
LEMMA SeekIsUsed ==
  ASSUME NEW map, NEW pos, NEW value, Seek(map, pos, value) \in Slots,
         pos \in Slots => pos \in Used(map)
  PROVE  /\ Seek(map, pos, value) \in Used(map)
         /\ map.val[Seek(map, pos, value)] = value
<1> DEFINE hits == {s \in Used(map) : map.val[s] = value}
           way == Walk([s \in Used(map) |-> next(map, s)], pos, hits)
<1>1. \/ Seek(map, pos, value) = (CHOOSE s \in way : s \in hits) /\ way \cap hits # {}
      \/ Seek(map, pos, value) = Astray
      \/ Seek(map, pos, value) = pos /\ pos \notin Used(map)
  BY DEF Seek
<1>2. Seek(map, pos, value) \in hits
  <2> HIDE DEF way, hits
  <2> QED BY <1>1, UsedIs
<1> QED BY <1>2

\* One time round the loop of IOHandle::remove.
Round(map, key) ==
  LET pos == find(map, key)
  IN  IF pos \in Slots THEN remove(map, pos) ELSE map

\* What no round changes, the loop does not change.
LEMMA RemoveAllKeeps ==
  ASSUME NEW map, NEW key, NEW M, map \in M, \A m \in M : Round(m, key) \in M
  PROVE  removeAll(map, key) \in M
<1> DEFINE E(f, n) == IF n = 0 THEN map ELSE Round(f[n - 1], key)
           N == 0..capacity
           without == CHOOSE f : f = [n \in N |-> E(f, n)]
           m1 == Round(map, key)
           m2 == Round(m1, key)
           m3 == Round(m2, key)
           m4 == Round(m3, key)
           m5 == Round(m4, key)
           m6 == Round(m5, key)
           m7 == Round(m6, key)
           m8 == Round(m7, key)
           all == [n \in N |->
                     IF n = 0 THEN map ELSE IF n = 1 THEN m1 ELSE IF n = 2 THEN m2
                     ELSE IF n = 3 THEN m3 ELSE IF n = 4 THEN m4 ELSE IF n = 5 THEN m5
                     ELSE IF n = 6 THEN m6 ELSE IF n = 7 THEN m7 ELSE m8]
<1>1. removeAll(map, key) = without[capacity]
  BY DEF removeAll, Round
<1>2. capacity = 8
  BY DEF capacity
<1>3. all = [n \in N |-> E(all, n)]
  <2>1. ASSUME NEW n \in N PROVE all[n] = E(all, n)
    <3>1. \/ n = 0 \/ n = 1 \/ n = 2 \/ n = 3 \/ n = 4 \/ n = 5 \/ n = 6 \/ n = 7 \/ n = 8
      BY <1>2
    <3>2. /\ all[0] = map /\ all[1] = m1 /\ all[2] = m2 /\ all[3] = m3 /\ all[4] = m4
          /\ all[5] = m5 /\ all[6] = m6 /\ all[7] = m7 /\ all[8] = m8
      <4> HIDE DEF m1, m2, m3, m4, m5, m6, m7, m8
      <4> QED BY <1>2
    <3> HIDE DEF all
    <3>3. E(all, 1) = m1 /\ E(all, 2) = m2 /\ E(all, 3) = m3 /\ E(all, 4) = m4
      BY <3>2
    <3>4. E(all, 5) = m5 /\ E(all, 6) = m6 /\ E(all, 7) = m7 /\ E(all, 8) = m8
      BY <3>2
    <3>5. E(all, 0) = map
      OBVIOUS
    <3> HIDE DEF E, m1, m2, m3, m4, m5, m6, m7, m8
    <3> QED BY <3>1, <3>2, <3>3, <3>4, <3>5
  <2>2. all = [n \in N |-> all[n]]
    OBVIOUS
  <2> HIDE DEF all, E
  <2> QED BY <2>1, <2>2
<1>4. without = [n \in N |-> E(without, n)]
  <2> HIDE DEF all, E
  <2> QED BY <1>3
<1>5. ASSUME NEW n \in N PROVE without[n] = E(without, n)
  <2> HIDE DEF without, E
  <2> QED BY <1>4
<1> HIDE DEF without
<1>6. without[0] \in M
  BY <1>2, <1>5
<1>7. ASSUME NEW n \in 0..7, without[n] \in M PROVE without[n + 1] \in M
  BY <1>2, <1>5, <1>7
<1>8. without[1] \in M /\ without[2] \in M /\ without[3] \in M /\ without[4] \in M
  BY <1>6, <1>7
<1>9. without[5] \in M /\ without[6] \in M /\ without[7] \in M /\ without[8] \in M
  BY <1>7, <1>8
<1> QED BY <1>1, <1>2, <1>9

LEMMA RoundIs ==
  ASSUME NEW map, NEW key
  PROVE  \/ Round(map, key) = map
         \/ \E pos \in Used(map) : Round(map, key) = remove(map, pos)
BY FindIsUsed DEF Round

LEMMA RemoveAllIsTable ==
  ASSUME NEW map, IsTable(map), NEW key
  PROVE  /\ IsTable(removeAll(map, key))
         /\ Values(removeAll(map, key)) \subseteq Values(map)
<1> DEFINE M == {m \in MapType : IsTable(m) /\ Values(m) \subseteq Values(map)}
<1>1. map \in M
  BY DEF IsTable
<1>2. ASSUME NEW m \in M PROVE Round(m, key) \in M
  <2>1. CASE Round(m, key) = m
    BY <2>1
  <2>2. ASSUME NEW pos \in Used(m), Round(m, key) = remove(m, pos)
        PROVE  Round(m, key) \in M
    <3>1. IsTable(remove(m, pos)) /\ Values(remove(m, pos)) \subseteq Values(m)
      BY RemoveIsTable
    <3> QED BY <2>2, <3>1 DEF IsTable
  <2> QED BY <2>1, <2>2, RoundIs
<1>3. removeAll(map, key) \in M
  <2> HIDE DEF M
  <2> QED BY <1>1, <1>2, RemoveAllKeeps
<1> QED BY <1>3

-----------------------------------------------------------------------------
(* Whatever happens to the table, it is one, and has requests of readers. *)

RequestInv ==
  /\ on \in [Readers -> Fds \union {None}]
  /\ closed \subseteq {r \in Readers : on[r] # None}
  /\ IsTable(handles)

LEMMA InitRequests == RequestInit => RequestInv
<1> SUFFICES ASSUME RequestInit PROVE RequestInv
  OBVIOUS
<1>1. handles \in MapType /\ Used(handles) = {}
  BY DEF RequestInit, EmptyMap, MapType, Used, Slots, capacity
<1> QED BY <1>1 DEF RequestInit, RequestInv, IsTable

\* detach() takes out one of the request's reader, or nothing.
LEMMA DetachedIs ==
  ASSUME RequestInv, NEW r \in Readers, NEW table \in Detached(r)
  PROVE  \/ table = handles
         \/ \E pos \in Used(handles) : handles.val[pos] = r /\ table = remove(handles, pos)
<1> DEFINE first == find(handles, on[r])
           pos == Seek(handles, first, r)
<1>1. table = IF pos \in Slots THEN remove(handles, pos) ELSE handles
  BY DEF Detached
<1>2. first \in Slots => first \in Used(handles)
  BY FindIsUsed
<1>3. pos \in Slots => pos \in Used(handles) /\ handles.val[pos] = r
  <2> HIDE DEF first
  <2> QED BY <1>2, SeekIsUsed
<1> HIDE DEF pos
<1> QED BY <1>1, <1>3

LEMMA DetachedIsTable ==
  ASSUME RequestInv, NEW r \in Readers, NEW table \in Detached(r)
  PROVE  IsTable(table)
BY DetachedIs, RemoveIsTable DEF RequestInv

LEMMA StepRequests == RequestInv /\ [RequestNext]_requestVars => RequestInv'
<1> SUFFICES ASSUME RequestInv, [RequestNext]_requestVars PROVE RequestInv'
  OBVIOUS
<1> USE DEF RequestInv
<1>0. None \notin Fds /\ -1 \notin Fds
  BY FdsAssumption DEF None
<1>1. ASSUME NEW r \in Readers, NEW f \in Fds, Create(r, f) PROVE RequestInv'
  BY <1>0, <1>1, PutIsTable DEF Create, Attach
<1>2. ASSUME NEW r \in Readers, Destroy(r) PROVE RequestInv'
  BY <1>2, DetachedIsTable DEF Destroy
<1>3. ASSUME NEW r \in Readers, Retry(r) PROVE RequestInv'
  <2>1. PICK table \in Detached(r) : Attach(r, on[r], table)
    BY <1>3 DEF Retry
  <2>2. on[r] \in Fds /\ on' = on /\ closed' = closed
    BY <1>3, <2>1 DEF Retry, Attach
  <2> QED BY <2>1, <2>2, DetachedIsTable, PutIsTable DEF Attach
<1>4. ASSUME NEW r \in Readers, GoAstray(r) PROVE RequestInv'
  BY <1>4 DEF GoAstray
<1>5. ASSUME NEW f \in Fds, RemoveHandle(f) PROVE RequestInv'
  <2>1. handles' = removeAll(handles, f) /\ on' = on /\ closed' = closed \union Removed(f)
    BY <1>5 DEF RemoveHandle
  <2>2. IsTable(handles')
    BY <2>1, RemoveAllIsTable
  <2>3. Values(handles) \subseteq {r \in Readers : on[r] # None}
    BY <1>5 DEF RemoveHandle, Sound, Stale, Values, IsTable
  <2> QED BY <2>1, <2>2, <2>3 DEF Removed
<1>6. ASSUME NEW f \in Fds, Open(f) PROVE RequestInv'
  BY <1>6 DEF Open
<1>7. CASE UNCHANGED requestVars
  BY <1>7 DEF requestVars
<1> QED BY <1>1, <1>2, <1>3, <1>4, <1>5, <1>6, <1>7 DEF RequestNext

-----------------------------------------------------------------------------
(* Tables in order. *)

\* Closed() in a table.
Whole(map, T) ==
  T \subseteq Used(map) /\ \A p \in T : map.info[p] \in Used(map) => map.info[p] \in T

\* An element is on the way from a slot: it is in all that goes on from there.
Reaches(map, from, s) == \A T : Whole(map, T) /\ from \in T => s \in T

Linked(map, s) ==
  \/ map.info[s] = End
  \/ /\ map.info[s] \in Used(map)
     /\ map.info[s] # Home(map, s) /\ Home(map, map.info[s]) = Home(map, s)

Ordered(map) ==
  /\ \A s \in Used(map) :
       Home(map, s) \in Used(map) /\ Reaches(map, Home(map, s), s) /\ Linked(map, s)
  /\ \A s, t \in Used(map) : map.info[s] = map.info[t] => s = t \/ map.info[s] = End

LEMMA ReachesIs ==
  ASSUME NEW map, NEW from, NEW s \in Used(map)
  PROVE  s \in Walk(Links(map), from, {}) <=> Reaches(map, from, s)
<1>1. DOMAIN Links(map) = Used(map) /\ \A p \in Used(map) : Links(map)[p] = map.info[p]
  BY DEF Links
<1>2. ASSUME NEW T \in SUBSET Used(map)
      PROVE  Closed(Links(map), from, {}, T) <=> Whole(map, T) /\ from \in T
  BY <1>1 DEF Closed, Whole
<1> QED BY <1>1, <1>2, WalkIs DEF Reaches, Whole

LEMMA OrderedIs ==
  ASSUME NEW map
  PROVE  InOrder(map) <=> Ordered(map)
BY ReachesIs DEF InOrder, Ordered, Linked, Home

\* The home of an element has an element that is at home.
LEMMA HomeIsHome ==
  ASSUME NEW map, Ordered(map), NEW s \in Used(map)
  PROVE  Home(map, Home(map, s)) = Home(map, s)
<1> DEFINE h == Home(map, s)
           T == {t \in Used(map) : Home(map, t) = Home(map, h)}
<1>1. Whole(map, T) /\ h \in T
  BY UsedIs DEF Whole, Ordered, Linked
<1>2. s \in T
  <2> HIDE DEF T
  <2> QED BY <1>1 DEF Ordered, Reaches
<1> QED BY <1>2

\* Putting an element into its home.
LEMMA PutFirstOrder ==
  ASSUME NEW map, IsTable(map), Ordered(map), NEW into \in Slots,
         NEW key \in Fds, primarySlot[key] = into, NEW value \in Readers,
         NEW r, PutFirst(r, map, into, key, value)
  PROVE  Ordered(r) /\ Used(r) = Used(map) \union {into}
<1> USE UsedIs
<1>1. /\ Filled(r, map, into, End, key, value) /\ into \notin Used(map)
      /\ Used(r) = Used(map) \union {into}
  BY DEF PutFirst, Filled, Used
<1>2. ASSUME NEW s \in Used(map)
      PROVE  Home(r, s) = Home(map, s) /\ r.info[s] = map.info[s] /\ s # into
  BY <1>1 DEF Filled, Home
<1>3. Home(r, into) = into /\ r.info[into] = End
  BY <1>1 DEF Filled, Home
<1>4. ASSUME NEW s \in Used(r) PROVE Reaches(r, Home(r, s), s)
  <2>1. CASE s = into
    BY <1>3, <2>1 DEF Reaches
  <2>2. ASSUME s \in Used(map), NEW T, Whole(r, T), Home(map, s) \in T
        PROVE  s \in T
    <3>1. Whole(map, T \cap Used(map))
      BY <1>1, <1>2, <2>2 DEF Whole
    <3>2. Home(map, s) \in T \cap Used(map)
      BY <2>2 DEF Ordered
    <3> QED BY <2>2, <3>1, <3>2 DEF Ordered, Reaches
  <2> QED BY <1>1, <1>2, <2>1, <2>2 DEF Reaches
<1>5. ASSUME NEW s \in Used(r) PROVE Home(r, s) \in Used(r) /\ Linked(r, s)
  BY <1>1, <1>2, <1>3 DEF Ordered, Linked
<1>6. ASSUME NEW s \in Used(r), NEW t \in Used(r), r.info[s] = r.info[t]
      PROVE  s = t \/ r.info[s] = End
  BY <1>1, <1>2, <1>3, <1>6 DEF Ordered
<1> QED BY <1>1, <1>4, <1>5, <1>6 DEF Ordered

\* Putting an element behind the one in its home.
LEMMA PutSecondOrder ==
  ASSUME NEW map, IsTable(map), Ordered(map), NEW into \in Slots,
         NEW key \in Fds, primarySlot[key] = into, NEW value \in Readers,
         NEW r, PutSecond(r, map, into, key, value)
  PROVE  \E to \in Slots \ Used(map) :
           /\ Ordered(r) /\ Used(r) = Used(map) \union {to}
           /\ r.key[to] = key /\ r.val[to] = value
           /\ \A s \in Used(map) : r.key[s] = map.key[s] /\ r.val[s] = map.val[s]
<1> USE UsedIs
<1>1. into \in Used(map) /\ Home(map, into) = into
  BY DEF PutSecond
<1>2. PICK to \in Slots \ Used(map), f \in MapType :
        /\ Filled(f, map, to, map.info[into], key, value)
        /\ Filled(r, f, into, to, f.key[into], f.val[into])
  BY DEF PutSecond
<1>3. /\ r.info[into] = to /\ r.info[to] = map.info[into] /\ into # to
      /\ Home(r, into) = into /\ Home(r, to) = into
      /\ \A s \in Slots \ {into, to} : r.info[s] = map.info[s] /\ Home(r, s) = Home(map, s)
  BY <1>1, <1>2 DEF Filled, Home
<1>4. Used(r) = Used(map) \union {to}
  BY <1>1, <1>3 DEF Used
<1>5. ASSUME NEW s \in Used(r) PROVE Reaches(r, Home(r, s), s)
  <2>1. ASSUME NEW T, Whole(r, T), into \in T PROVE to \in T
    BY <1>3, <1>4, <2>1 DEF Whole
  <2>2. ASSUME s \in Used(map), NEW T, Whole(r, T), Home(map, s) \in T
        PROVE  s \in T
    <3>1. ASSUME NEW p \in T \cap Used(map), map.info[p] \in Used(map)
          PROVE  map.info[p] \in T
      <4>1. CASE p = into
        <5>1. r.info[to] \in Used(r) /\ to \in T
          BY <1>3, <1>4, <2>1, <2>2, <3>1, <4>1
        <5> QED BY <1>3, <2>2, <4>1, <5>1 DEF Whole
      <4>2. CASE p # into
        <5>1. r.info[p] = map.info[p]
          BY <1>3, <3>1, <4>2
        <5> QED BY <1>4, <2>2, <3>1, <5>1 DEF Whole
      <4> QED BY <4>1, <4>2
    <3>2. Whole(map, T \cap Used(map))
      BY <3>1 DEF Whole
    <3>3. Home(map, s) \in T \cap Used(map)
      BY <2>2 DEF Ordered
    <3> QED BY <2>2, <3>2, <3>3 DEF Ordered, Reaches
  <2>3. CASE s = to
    BY <1>3, <2>1, <2>3 DEF Reaches
  <2>4. CASE s \in Used(map)
    <3>1. Home(r, s) = Home(map, s)
      BY <1>1, <1>3, <2>4
    <3> QED BY <2>2, <2>4, <3>1 DEF Reaches
  <2> QED BY <1>4, <2>3, <2>4
<1>6. ASSUME NEW s \in Used(r) PROVE Home(r, s) \in Used(r) /\ Linked(r, s)
  <2>1. CASE s = to
    BY <1>1, <1>3, <1>4, <2>1 DEF Ordered, Linked
  <2>2. CASE s = into
    BY <1>3, <1>4, <2>2 DEF Linked
  <2>3. CASE s \in Used(map) \ {into}
    BY <1>1, <1>3, <1>4, <2>3 DEF Ordered, Linked
  <2> QED BY <1>4, <2>1, <2>2, <2>3
<1>7. ASSUME NEW s \in Used(r), NEW t \in Used(r), r.info[s] = r.info[t]
      PROVE  s = t \/ r.info[s] = End
  <2>1. \A p \in Used(map) : map.info[p] # to
    BY DEF Ordered, Linked
  <2> QED BY <1>3, <1>4, <1>7, <2>1 DEF Ordered
<1>8. Ordered(r)
  BY <1>5, <1>6, <1>7 DEF Ordered
<1>9. /\ r.key[to] = key /\ r.val[to] = value
      /\ \A s \in Used(map) : r.key[s] = map.key[s] /\ r.val[s] = map.val[s]
  BY <1>1, <1>2, <1>3 DEF Filled
<1> QED BY <1>4, <1>8, <1>9

\* In a table in order, an element that is taken out is found.
LEMMA RemoveFinds ==
  ASSUME NEW map, IsTable(map), Ordered(map), NEW pos \in Used(map),
         NEW r, r = remove(map, pos)
  PROVE  \/ RemovedAlone(r, map, pos)
         \/ RemovedHead(r, map, pos)
         \/ RemovedLater(r, map, pos)
<1> DEFINE h == Home(map, pos)
           link == Links(map)
<1>1. DOMAIN link = Used(map) /\ h \in Used(map)
  BY DEF Links, Ordered
<1>2. ASSUME pos \notin Walk(link, h, {pos}) PROVE FALSE
  <2>1. Walk(link, h, {}) \subseteq Walk(link, h, {pos})
    <3> HIDE DEF link, h
    <3> QED BY <1>1, <1>2, WalkOn
  <2>2. pos \in Walk(link, h, {})
    BY ReachesIs DEF Ordered
  <2> QED BY <1>2, <2>1, <2>2
<1> QED BY <1>1, <1>2, RemoveCases

LEMMA RemovedAloneOrder ==
  ASSUME NEW map, IsTable(map), Ordered(map), NEW pos \in Used(map),
         NEW r, RemovedAlone(r, map, pos)
  PROVE  /\ Ordered(r) /\ Used(r) = Used(map) \ {pos}
         /\ \A s \in Used(r) : r.key[s] = map.key[s] /\ r.val[s] = map.val[s]
<1> USE UsedIs
<1>1. Used(r) = Used(map) \ {pos}
  BY DEF RemovedAlone, Filled, Used
<1>2. \A s \in Used(r) : /\ r.info[s] = map.info[s] /\ Home(r, s) = Home(map, s)
                         /\ r.key[s] = map.key[s] /\ r.val[s] = map.val[s]
  BY <1>1 DEF RemovedAlone, Filled, Home
\* Nothing leads to it, and nothing else comes after it.
<1>3. ASSUME NEW s \in Used(map), map.info[s] = pos PROVE FALSE
  BY <1>3 DEF RemovedAlone, Ordered, Linked
<1>4. ASSUME NEW s \in Used(r), Home(map, s) = pos PROVE FALSE
  <2>1. Whole(map, {pos})
    BY DEF RemovedAlone, Whole
  <2> QED BY <1>1, <1>4, <2>1 DEF Ordered, Reaches
<1>5. ASSUME NEW s \in Used(r) PROVE Reaches(r, Home(r, s), s)
  <2>1. ASSUME NEW T, Whole(r, T), Home(map, s) \in T PROVE s \in T
    <3>1. Whole(map, T)
      BY <1>1, <1>2, <1>3, <2>1 DEF Whole
    <3> QED BY <1>1, <2>1, <3>1 DEF Ordered, Reaches
  <2> QED BY <1>2, <2>1 DEF Reaches
<1>6. ASSUME NEW s \in Used(r) PROVE Home(r, s) \in Used(r) /\ Linked(r, s)
  BY <1>1, <1>2, <1>3, <1>4 DEF Ordered, Linked
<1> QED BY <1>1, <1>2, <1>5, <1>6 DEF Ordered

\* The one that came second is where the first was.
LEMMA RemovedHeadOrder ==
  ASSUME NEW map, IsTable(map), Ordered(map), NEW pos \in Used(map),
         NEW r, RemovedHead(r, map, pos)
  PROVE  \E t \in Used(map) \ {pos} :
           /\ Ordered(r) /\ Used(r) = Used(map) \ {t}
           /\ \A s \in Used(r) \ {pos} : r.key[s] = map.key[s] /\ r.val[s] = map.val[s]
           /\ r.key[pos] = map.key[t] /\ r.val[pos] = map.val[t]
           /\ Home(r, pos) = pos
<1> USE UsedIs
<1> DEFINE t == map.info[pos]
<1>1. PICK f \in MapType :
        /\ Filled(f, map, pos, map.info[t], map.key[t], map.val[t])
        /\ Filled(r, f, t, Free, -1, Null)
  BY DEF RemovedHead
<1>2. /\ t \in Used(map) \ {pos} /\ Home(map, t) = pos /\ Home(map, pos) = pos
      /\ Linked(map, t)
  BY DEF RemovedHead, Ordered, Linked
<1> HIDE DEF t
<1>3. /\ r.info[pos] = map.info[t] /\ r.key[pos] = map.key[t] /\ r.val[pos] = map.val[t]
      /\ r.info[t] = Free
      /\ \A s \in Slots \ {pos, t} :
           r.info[s] = map.info[s] /\ r.key[s] = map.key[s] /\ r.val[s] = map.val[s]
  BY <1>1, <1>2 DEF Filled
<1>4. Used(r) = Used(map) \ {t}
  BY <1>2, <1>3 DEF Used
<1>5. /\ Home(r, pos) = pos
      /\ \A s \in Used(r) \ {pos} : Home(r, s) = Home(map, s) /\ r.info[s] = map.info[s]
  BY <1>2, <1>3, <1>4 DEF Home
\* Nothing leads to the first, only the first leads to the second, which is
\* nobody's home.
<1>6. ASSUME NEW s \in Used(map), map.info[s] = pos PROVE FALSE
  BY <1>2, <1>6 DEF Ordered, Linked
<1>7. ASSUME NEW s \in Used(map), map.info[s] = t PROVE s = pos
  BY <1>2, <1>7 DEF Ordered, t
<1>8. ASSUME NEW s \in Used(map), Home(map, s) = t PROVE FALSE
  BY <1>2, <1>8, HomeIsHome
<1>9. ASSUME NEW s \in Used(r) PROVE Reaches(r, Home(r, s), s)
  <2>1. CASE s = pos
    BY <1>5, <2>1 DEF Reaches
  <2>2. ASSUME s # pos, NEW T, Whole(r, T), Home(map, s) \in T PROVE s \in T
    <3> DEFINE S == T \union {p \in {t} : pos \in T}
    <3>1. ASSUME NEW p \in S, map.info[p] \in Used(map) PROVE map.info[p] \in S
      <4>1. CASE p = t
        <5>1. map.info[t] # t /\ pos \in T /\ r.info[pos] = map.info[t]
          BY <1>2, <1>3, <1>4, <1>7, <2>2, <3>1, <4>1 DEF Whole
        <5> QED BY <1>4, <2>2, <3>1, <4>1, <5>1 DEF Whole
      <4>2. CASE p = pos
        BY <3>1, <4>2 DEF t
      <4>3. CASE p # t /\ p # pos
        <5>1. p \in T /\ p \in Used(r) /\ r.info[p] = map.info[p] /\ map.info[p] # t
          BY <1>4, <1>5, <1>7, <2>2, <3>1, <4>3 DEF Whole
        <5> QED BY <1>4, <2>2, <3>1, <5>1 DEF Whole
      <4> QED BY <4>1, <4>2, <4>3
    <3>2. Whole(map, S)
      BY <1>2, <1>4, <2>2, <3>1 DEF Whole
    <3>3. s \in S
      <4>1. s \in Used(map) /\ Home(map, s) \in S
        BY <1>4, <2>2
      <4> HIDE DEF S
      <4> QED BY <3>2, <4>1 DEF Ordered, Reaches
    <3> QED BY <1>4, <3>3
  <2> QED BY <1>5, <2>1, <2>2 DEF Reaches
<1>10. ASSUME NEW s \in Used(r) PROVE Home(r, s) \in Used(r) /\ Linked(r, s)
  <2>1. CASE s = pos
    <3>1. map.info[t] # t
      BY <1>2, <1>7
    <3>2. map.info[t] = End \/ (map.info[t] \in Used(r) \ {pos} /\ Home(map, map.info[t]) = pos)
      BY <1>2, <1>4, <3>1 DEF Linked
    <3> QED BY <1>3, <1>4, <1>5, <2>1, <3>2 DEF Linked
  <2>2. CASE s # pos
    <3>1. map.info[s] # t /\ map.info[s] # pos /\ Home(map, s) # t
      BY <1>4, <1>6, <1>7, <1>8, <2>2
    <3>2. Linked(map, s) /\ Home(map, s) \in Used(map)
      BY <1>4 DEF Ordered
    <3> QED BY <1>4, <1>5, <2>2, <3>1, <3>2 DEF Linked
  <2> QED BY <2>1, <2>2
<1>11. ASSUME NEW s \in Used(r), NEW u \in Used(r), r.info[s] = r.info[u]
       PROVE  s = u \/ r.info[s] = End
  BY <1>2, <1>3, <1>4, <1>5, <1>11 DEF Ordered
<1>12. Ordered(r)
  BY <1>9, <1>10, <1>11 DEF Ordered
<1> QED BY <1>2, <1>3, <1>4, <1>5, <1>12

LEMMA RemovedLaterOrder ==
  ASSUME NEW map, IsTable(map), Ordered(map), NEW pos \in Used(map),
         NEW r, RemovedLater(r, map, pos)
  PROVE  /\ Ordered(r) /\ Used(r) = Used(map) \ {pos}
         /\ \A s \in Used(r) : r.key[s] = map.key[s] /\ r.val[s] = map.val[s]
<1> USE UsedIs
<1>1. PICK prev \in Used(map) \ {pos}, f \in MapType :
        /\ map.info[prev] = pos
        /\ Filled(f, map, pos, Free, -1, Null)
        /\ Filled(r, f, prev, map.info[pos], f.key[prev], f.val[prev])
  BY DEF RemovedLater
<1>2. /\ r.info[pos] = Free /\ r.info[prev] = map.info[pos]
      /\ \A s \in Slots \ {pos} : r.key[s] = map.key[s] /\ r.val[s] = map.val[s]
      /\ \A s \in Slots \ {pos, prev} : r.info[s] = map.info[s]
  BY <1>1 DEF Filled
<1>3. Used(r) = Used(map) \ {pos}
  BY <1>1, <1>2 DEF Used
<1>4. \A s \in Used(r) : Home(r, s) = Home(map, s)
  BY <1>2, <1>3 DEF Home
\* Only the one before it leads to it, and it is nobody's home.
<1>5. ASSUME NEW s \in Used(map), map.info[s] = pos PROVE s = prev
  BY <1>1, <1>5 DEF Ordered
<1>6. ASSUME NEW s \in Used(map), Home(map, s) = pos PROVE FALSE
  BY <1>6, HomeIsHome DEF RemovedLater
<1>7. Home(map, prev) = Home(map, pos) /\ map.info[pos] # pos
  BY <1>1, <1>5 DEF Ordered, Linked
<1>8. ASSUME NEW s \in Used(r) PROVE Reaches(r, Home(r, s), s)
  <2>1. ASSUME NEW T, Whole(r, T), Home(map, s) \in T PROVE s \in T
    <3> DEFINE S == T \union {p \in {pos} : prev \in T}
    <3>1. ASSUME NEW p \in S, map.info[p] \in Used(map) PROVE map.info[p] \in S
      <4>1. CASE p = pos
        <5>1. prev \in T
          BY <1>3, <2>1, <3>1, <4>1 DEF Whole
        <5> QED BY <1>2, <1>3, <1>7, <2>1, <3>1, <4>1, <5>1 DEF Whole
      <4>2. CASE p = prev
        BY <1>1, <3>1, <4>2
      <4>3. CASE p # pos /\ p # prev
        <5>1. p \in T /\ p \in Used(r) /\ r.info[p] = map.info[p] /\ map.info[p] # pos
          BY <1>2, <1>3, <1>5, <2>1, <3>1, <4>3 DEF Whole
        <5> QED BY <1>3, <2>1, <3>1, <5>1 DEF Whole
      <4> QED BY <4>1, <4>2, <4>3
    <3>2. Whole(map, S)
      BY <1>3, <2>1, <3>1 DEF Whole
    <3>3. s \in S
      <4>1. s \in Used(map) /\ Home(map, s) \in S
        BY <1>3, <2>1
      <4> HIDE DEF S
      <4> QED BY <3>2, <4>1 DEF Ordered, Reaches
    <3> QED BY <1>3, <3>3
  <2> QED BY <1>4, <2>1 DEF Reaches
<1>9. ASSUME NEW s \in Used(r) PROVE Home(r, s) \in Used(r) /\ Linked(r, s)
  <2>1. Home(r, s) \in Used(r)
    BY <1>3, <1>4, <1>6 DEF Ordered
  <2>2. CASE s = prev
    <3>1. Linked(map, pos)
      BY DEF Ordered
    <3> QED BY <1>2, <1>3, <1>4, <1>7, <2>1, <2>2, <3>1 DEF Linked
  <2>3. CASE s # prev
    <3>1. Linked(map, s) /\ map.info[s] # pos
      BY <1>3, <1>5, <2>3 DEF Ordered
    <3> QED BY <1>2, <1>3, <1>4, <2>1, <2>3, <3>1 DEF Linked
  <2> QED BY <2>1, <2>2, <2>3
<1>10. ASSUME NEW s \in Used(r), NEW u \in Used(r), r.info[s] = r.info[u]
       PROVE  s = u \/ r.info[s] = End
  BY <1>1, <1>2, <1>3, <1>10 DEF Ordered
<1>11. Ordered(r)
  BY <1>8, <1>9, <1>10 DEF Ordered
<1> QED BY <1>2, <1>3, <1>11

-----------------------------------------------------------------------------
(* Tables in order with requests for the descriptors in on, one each. *)

Kept(map, o) ==
  /\ IsTable(map) /\ Ordered(map)
  /\ \A s, t \in Used(map) :
       /\ map.key[s] = o[map.val[s]]
       /\ map.val[s] = map.val[t] => s = t

LEMMA KeptIs ==
  ASSUME RequestInv
  PROVE  TableInOrder <=> /\ Kept(handles, on)
                          /\ Values(handles) = {r \in Readers : on[r] # None} \ closed
BY OrderedIs DEF TableInOrder, Kept, RequestInv

LEMMA RemoveKeeps ==
  ASSUME NEW map, NEW o, Kept(map, o), NEW pos \in Used(map),
         NEW r, r = remove(map, pos)
  PROVE  /\ Kept(r, o)
         /\ Values(r) = Values(map) \ {map.val[pos]}
         /\ \A s \in Used(r) : Home(r, s) # s => s \in Used(map) /\ r.key[s] = map.key[s]
<1>1. IsTable(map) /\ Ordered(map) /\ IsTable(r)
  BY RemoveIsTable DEF Kept
<1>2. ASSUME /\ Ordered(r) /\ Used(r) = Used(map) \ {pos}
             /\ \A s \in Used(r) : r.key[s] = map.key[s] /\ r.val[s] = map.val[s]
      PROVE  /\ Kept(r, o)
             /\ Values(r) = Values(map) \ {map.val[pos]}
             /\ \A s \in Used(r) : Home(r, s) # s => s \in Used(map) /\ r.key[s] = map.key[s]
  BY <1>1, <1>2 DEF Kept, Values
<1>3. CASE RemovedAlone(r, map, pos)
  BY <1>1, <1>2, <1>3, RemovedAloneOrder
<1>4. CASE RemovedLater(r, map, pos)
  BY <1>1, <1>2, <1>4, RemovedLaterOrder
<1>5. CASE RemovedHead(r, map, pos)
  <2>1. PICK t \in Used(map) \ {pos} :
          /\ Ordered(r) /\ Used(r) = Used(map) \ {t}
          /\ \A s \in Used(r) \ {pos} : r.key[s] = map.key[s] /\ r.val[s] = map.val[s]
          /\ r.key[pos] = map.key[t] /\ r.val[pos] = map.val[t]
          /\ Home(r, pos) = pos
    BY <1>1, <1>5, RemovedHeadOrder
  <2>2. ASSUME NEW s \in Used(r), NEW u \in Used(r)
        PROVE  r.key[s] = o[r.val[s]] /\ (r.val[s] = r.val[u] => s = u)
    BY <2>1 DEF Kept
  <2>3. Kept(r, o)
    BY <1>1, <2>1, <2>2 DEF Kept
  <2>4. Values(r) = Values(map) \ {map.val[pos]}
    BY <2>1 DEF Kept, Values
  <2>5. \A s \in Used(r) : Home(r, s) # s => s \in Used(map) /\ r.key[s] = map.key[s]
    BY <2>1
  <2> QED BY <2>3, <2>4, <2>5
<1> QED BY <1>1, <1>3, <1>4, <1>5, RemoveFinds

\* A put that displaces nothing keeps the order.
LEMMA PutKeeps ==
  ASSUME NEW map, NEW o, Kept(map, o), Used(map) # Slots,
         NEW key \in Fds, NEW value \in Readers,
         value \notin Values(map), o[value] = key,
         NEW r, r = put(map, key, value), NEW into, into = primarySlot[key]
  PROVE  \/ Kept(r, o) /\ Values(r) = Values(map) \union {value}
         \/ /\ into \in Used(map) /\ Home(map, into) # into
            /\ into \in Used(r) /\ Home(r, into) = into
<1>1. IsTable(map) /\ Ordered(map) /\ IsTable(r) /\ into \in Slots
  BY SlotOfFd, PutIsTable DEF Kept
<1>2. ASSUME NEW at \in Slots \ Used(map), Ordered(r), Used(r) = Used(map) \union {at},
             r.key[at] = key, r.val[at] = value,
             \A s \in Used(map) : r.key[s] = map.key[s] /\ r.val[s] = map.val[s]
      PROVE  Kept(r, o) /\ Values(r) = Values(map) \union {value}
  <2>1. \A s \in Used(map) : map.val[s] # value
    BY DEF Values
  <2>2. \A s, u \in Used(r) : r.key[s] = o[r.val[s]] /\ (r.val[s] = r.val[u] => s = u)
    BY <1>2, <2>1 DEF Kept
  <2>3. Kept(r, o)
    BY <1>1, <1>2, <2>2, Zenon DEF Kept
  <2>4. Values(r) = Values(map) \union {value}
    BY <1>2 DEF Values
  <2> QED BY <2>3, <2>4
<1>3. CASE PutFirst(r, map, into, key, value)
  <2>1. Ordered(r) /\ Used(r) = Used(map) \union {into}
    BY <1>1, <1>3, PutFirstOrder
  <2>2. /\ into \in Slots \ Used(map) /\ r.key[into] = key /\ r.val[into] = value
        /\ \A s \in Used(map) : r.key[s] = map.key[s] /\ r.val[s] = map.val[s]
    BY <1>1, <1>3, UsedIs DEF PutFirst, Filled
  <2> QED BY <1>2, <2>1, <2>2
<1>4. CASE PutSecond(r, map, into, key, value)
  <2>1. PICK to \in Slots \ Used(map) :
          /\ Ordered(r) /\ Used(r) = Used(map) \union {to}
          /\ r.key[to] = key /\ r.val[to] = value
          /\ \A s \in Used(map) : r.key[s] = map.key[s] /\ r.val[s] = map.val[s]
    BY <1>1, <1>4, PutSecondOrder
  <2> QED BY <1>2, <2>1
<1>5. CASE PutMoves(r, map, into, key, value)
  <2>1. into \in Used(map) /\ Home(map, into) # into
    BY <1>5 DEF PutMoves
  <2>2. r.info[into] = End /\ r.key[into] = key
    BY <1>5 DEF PutMoves, Filled
  <2>3. into \in Used(r) /\ Home(r, into) = into
    BY <1>1, <2>2, UsedIs DEF Used, Home
  <2> QED BY <2>1, <2>3
<1> QED BY <1>1, <1>3, <1>4, <1>5, PutCases

\* What is in a table in order is found, or the search does not end.
LEMMA FindsIt ==
  ASSUME NEW map, Ordered(map), NEW s \in Used(map)
  PROVE  find(map, map.key[s]) # Free
<1> DEFINE key == map.key[s]
           home == primarySlot[key]
           hits == {p \in Used(map) : map.key[p] = key}
           link == Links(map)
           way == Walk(link, home, hits)
<1>1. home \in Used(map) /\ DOMAIN link = Used(map) /\ s \in hits
  BY DEF Ordered, Home, Links
<1>2. way \cap hits # {}
  <2>1. SUFFICES ASSUME way \cap hits = {} PROVE FALSE
    OBVIOUS
  <2>2. Walk(link, home, {}) \subseteq way
    <3> HIDE DEF link, home, hits
    <3> QED BY <1>1, <2>1, WalkOn
  <2>3. s \in Walk(link, home, {})
    BY ReachesIs DEF Ordered, Home
  <2> HIDE DEF way, hits
  <2> QED BY <1>1, <2>1, <2>2, <2>3
<1>3. find(map, key) = CHOOSE p \in way : p \in hits
  BY <1>1, <1>2 DEF find
<1>4. find(map, key) \in Used(map)
  <2> HIDE DEF way, hits
  <2>1. find(map, key) \in hits
    BY <1>2, <1>3
  <2> QED BY <2>1 DEF hits
<1> QED BY <1>4, UsedIs

\* So detach() takes out the request of its reader if it is there.
LEMMA DetachedKeeps ==
  ASSUME RequestInv, Kept(handles, on), NEW r \in Readers, NEW table \in Detached(r)
  PROVE  /\ Kept(table, on) /\ Values(table) = Values(handles) \ {r}
         /\ \A s \in Used(table) : Home(table, s) # s =>
              s \in Used(handles) /\ table.key[s] = handles.key[s]
<1>1. CASE r \notin Values(handles)
  <2>1. table = handles
    BY <1>1, DetachedIs DEF Values
  <2> QED BY <1>1, <2>1
<1>2. ASSUME NEW pos \in Used(handles), handles.val[pos] = r, table = remove(handles, pos)
      PROVE  /\ Kept(table, on) /\ Values(table) = Values(handles) \ {r}
             /\ \A s \in Used(table) : Home(table, s) # s =>
                  s \in Used(handles) /\ table.key[s] = handles.key[s]
  BY <1>2, RemoveKeeps
<1>3. CASE r \in Values(handles)
  <2>1. PICK s \in Used(handles) : handles.val[s] = r
    BY <1>3 DEF Values
  <2> DEFINE first == find(handles, on[r])
             pos == Seek(handles, first, r)
  <2>2. first # Free
    BY <2>1, FindsIt DEF Kept
  <2>3. pos # Astray /\ table = IF pos \in Slots THEN remove(handles, pos) ELSE handles
    BY DEF Detached
  <2>4. first \in Slots \union {Astray} /\ (first \in Slots => first \in Used(handles))
    <3>1. first \in Slots \union {Free, Astray}
      <4> DEFINE home == primarySlot[on[r]]
                 hits == {p \in Used(handles) : handles.key[p] = on[r]}
                 way == Walk(Links(handles), home, hits)
      <4>1. \/ first = (CHOOSE p \in way : p \in hits) /\ way \cap hits # {}
            \/ first \in {Free, Astray}
        BY DEF find
      <4> HIDE DEF way, first
      <4> QED BY <4>1, UsedIs
    <3> QED BY <2>2, <3>1, FindIsUsed
  <2>5. pos \in Slots
    <3> DEFINE hits == {p \in Used(handles) : handles.val[p] = r}
               way == Walk([p \in Used(handles) |-> next(handles, p)], first, hits)
    <3>1. \/ pos = (CHOOSE p \in way : p \in hits) /\ way \cap hits # {}
          \/ pos = Astray
          \/ pos = first /\ first \notin Used(handles)
      BY DEF Seek
    <3> HIDE DEF way, first, pos
    <3>2. pos = first /\ first \notin Used(handles) => pos = Astray
      BY <2>4
    <3> QED BY <2>3, <3>1, <3>2, UsedIs
  <2>6. pos \in Used(handles) /\ handles.val[pos] = r
    <3> HIDE DEF first
    <3> QED BY <2>4, <2>5, SeekIsUsed
  <2> HIDE DEF pos
  <2> QED BY <1>2, <2>3, <2>5, <2>6
<1> QED BY <1>1, <1>3

-----------------------------------------------------------------------------
(* Only an element that makes room brings the table out of order. *)

LEMMA InitOrder == RequestInit => TableInOrder
<1> SUFFICES ASSUME RequestInit PROVE TableInOrder
  OBVIOUS
<1>1. Used(handles) = {} /\ Values(handles) = {}
  BY DEF RequestInit, EmptyMap, Used, Values
<1>2. {r \in Readers : on[r] # None} = {}
  BY DEF RequestInit
<1> QED BY <1>1, <1>2 DEF TableInOrder, InOrder

\* Attaching to a table in order: by a new request, or by the next one after
\* the last was detached.
LEMMA AttachOrder ==
  ASSUME RequestInv, RequestInv', NEW table, Kept(table, on'),
         NEW r \in Readers, r \notin closed, NEW f \in Fds, Attach(r, f, table),
         closed' = closed,
         Values(table) = {q \in Readers : on'[q] # None} \ (closed \union {r}),
         \A s \in Used(table) : Home(table, s) # s =>
           s \in Used(handles) /\ table.key[s] = handles.key[s]
  PROVE  TableInOrder' \/ Moves
<1> DEFINE into == primarySlot[f]
<1>1. handles' = put(table, f, r) /\ on'[r] = f /\ Used(table) # Slots /\ f # None
  BY FdsAssumption DEF Attach, RequestInv, None
<1>2. r \notin Values(table)
  OBVIOUS
<1>3. \/ Kept(handles', on') /\ Values(handles') = Values(table) \union {r}
      \/ /\ into \in Used(table) /\ Home(table, into) # into
         /\ into \in Used(handles') /\ Home(handles', into) = into
  <2> HIDE DEF into
  <2>1. into = primarySlot[f]
    BY DEF into
  <2> QED BY <1>1, <1>2, <2>1, PutKeeps
<1>4. CASE Kept(handles', on') /\ Values(handles') = Values(table) \union {r}
  <2>1. Values(handles') = {q \in Readers : on'[q] # None} \ closed'
    BY <1>1, <1>4
  <2>2. IsTable(handles') /\ Ordered(handles')
    BY <1>4 DEF Kept
  <2>3. InOrder(handles')
    BY <2>2, OrderedIs
  <2>4. TableInOrder'
    BY <1>4, <2>1, <2>3 DEF TableInOrder, Kept
  <2> QED BY <2>4
<1>5. CASE /\ into \in Used(table) /\ Home(table, into) # into
           /\ into \in Used(handles') /\ Home(handles', into) = into
  BY <1>5 DEF Moves, Home
<1> QED BY <1>3, <1>4, <1>5

LEMMA StepOrder ==
  RequestInv /\ RequestInv' /\ TableInOrder /\ [RequestNext]_requestVars
    => TableInOrder' \/ Moves
<1> SUFFICES ASSUME RequestInv, RequestInv', TableInOrder, [RequestNext]_requestVars
             PROVE  TableInOrder' \/ Moves
  OBVIOUS
<1> DEFINE Waiting == {r \in Readers : on[r] # None}
<1>1. Kept(handles, on) /\ Values(handles) = Waiting \ closed
  BY KeptIs
<1>2. ASSUME UNCHANGED <<on, closed, handles>> PROVE TableInOrder'
  BY <1>2 DEF TableInOrder
<1>3. ASSUME Kept(handles', on'), Values(handles') = {r \in Readers : on'[r] # None} \ closed'
      PROVE  TableInOrder'
  <2>1. InOrder(handles')
    BY <1>3, OrderedIs DEF Kept
  <2> QED BY <1>3, <2>1 DEF TableInOrder, Kept
<1>4. ASSUME NEW r \in Readers, NEW f \in Fds, Create(r, f) PROVE TableInOrder' \/ Moves
  <2>1. /\ on[r] = None /\ on' = [on EXCEPT ![r] = f] /\ f # None
        /\ Attach(r, f, handles) /\ closed' = closed /\ r \notin closed
    BY <1>4, FdsAssumption DEF Create, Attach, RequestInv, None
  <2>2. r \notin Values(handles)
    BY <1>1, <2>1
  <2>3. \A s \in Used(handles) : handles.val[s] \in Readers \ {r}
    BY <2>2 DEF Values, RequestInv, IsTable
  <2>4. \A q \in Readers \ {r} : on'[q] = on[q]
    BY <2>1 DEF RequestInv
  <2>5. Kept(handles, on')
    BY <1>1, <2>3, <2>4 DEF Kept
  <2>6. Values(handles) = {q \in Readers : on'[q] # None} \ (closed \union {r})
    BY <1>1, <2>1, <2>4
  <2> QED BY <2>1, <2>5, <2>6, AttachOrder
<1>5. ASSUME NEW r \in Readers, Destroy(r) PROVE TableInOrder'
  <2>1. /\ handles' \in Detached(r)
        /\ on' = [on EXCEPT ![r] = None] /\ closed' = closed \ {r}
    BY <1>5 DEF Destroy
  <2>2. Kept(handles', on) /\ Values(handles') = Values(handles) \ {r}
    BY <1>1, <2>1, DetachedKeeps
  <2>3. \A q \in Readers : on'[q] = IF q = r THEN None ELSE on[q]
    BY <2>1 DEF RequestInv
  <2>4. \A s \in Used(handles') : handles'.val[s] \in Readers \ {r}
    BY <2>2 DEF Values, RequestInv, IsTable
  <2>5. Kept(handles', on')
    BY <2>2, <2>3, <2>4 DEF Kept
  <2>6. Values(handles') = {q \in Readers : on'[q] # None} \ closed'
    BY <1>1, <2>1, <2>2, <2>3
  <2> QED BY <1>3, <2>5, <2>6
<1>6. ASSUME NEW r \in Readers, Retry(r) PROVE TableInOrder' \/ Moves
  <2>1. PICK table \in Detached(r) : Attach(r, on[r], table)
    BY <1>6 DEF Retry
  <2>2. /\ on[r] # None /\ on[r] \in Fds /\ r \notin closed
        /\ on' = on /\ closed' = closed
    BY <1>6, <2>1 DEF Retry, Attach, RequestInv
  <2>3. /\ Kept(table, on') /\ Values(table) = Values(handles) \ {r}
        /\ \A s \in Used(table) : Home(table, s) # s =>
             s \in Used(handles) /\ table.key[s] = handles.key[s]
    BY <1>1, <2>2, DetachedKeeps
  <2>4. Values(table) = {q \in Readers : on'[q] # None} \ (closed \union {r})
    BY <1>1, <2>2, <2>3
  <2> QED BY <2>1, <2>2, <2>3, <2>4, AttachOrder
<1>7. ASSUME NEW r \in Readers, GoAstray(r) PROVE TableInOrder'
  BY <1>2, <1>7 DEF GoAstray
<1>8. ASSUME NEW f \in Fds, RemoveHandle(f) PROVE TableInOrder'
  <2>1. handles' = removeAll(handles, f) /\ on' = on /\ closed' = closed \union Removed(f)
    BY <1>8 DEF RemoveHandle
  <2> DEFINE M == {m \in MapType : Kept(m, on)}
  <2>2. handles \in M
    BY <1>1 DEF Kept, IsTable
  <2>3. ASSUME NEW m \in M PROVE Round(m, f) \in M
    <3>1. CASE Round(m, f) = m
      BY <3>1
    <3>2. ASSUME NEW pos \in Used(m), Round(m, f) = remove(m, pos)
          PROVE  Round(m, f) \in M
      <4>1. Kept(remove(m, pos), on)
        BY RemoveKeeps
      <4> QED BY <3>2, <4>1 DEF Kept, IsTable
    <3> QED BY <3>1, <3>2, RoundIs
  <2>4. handles' \in M
    <3> HIDE DEF M
    <3> QED BY <2>1, <2>2, <2>3, RemoveAllKeeps
  <2>5. Values(handles') \subseteq Values(handles)
    BY <2>1, RemoveAllIsTable DEF RequestInv
  <2>6. Removed(f) = Values(handles) \ Values(handles')
    BY <2>1 DEF Removed
  <2>7. Values(handles') = {r \in Readers : on'[r] # None} \ closed'
    BY <1>1, <2>1, <2>5, <2>6
  <2> QED BY <1>3, <2>1, <2>4, <2>7
<1>9. ASSUME NEW f \in Fds, Open(f) PROVE TableInOrder'
  BY <1>2, <1>9 DEF Open
<1>10. CASE UNCHANGED requestVars
  BY <1>2, <1>10 DEF requestVars
<1> QED
  BY <1>4, <1>5, <1>6, <1>7, <1>8, <1>9, <1>10 DEF RequestNext

\* Whatever the table holds, it is a table of readers' requests.
THEOREM RequestsHold == RequestSpec => []RequestInv
BY InitRequests, StepRequests, PTL DEF RequestSpec

\* FdMap.h:155-168 is the one place where the table gets out of order, with any
\* number of readers and descriptors, and with numbers that are used again.
THEOREM OnlyMovesDisorderHolds == RequestSpec => OnlyMovesDisorder
<1>1. RequestInv /\ RequestInv' /\ [RequestNext]_requestVars
        => [TableInOrder => TableInOrder' \/ Moves]_requestVars
  BY StepOrder
<1> QED BY <1>1, RequestsHold, PTL DEF RequestSpec, OnlyMovesDisorder

\* So the table is in order for as long as no element has had to make room.
THEOREM InOrderUnlessMoved ==
  RequestSpec /\ [][~ Moves]_requestVars => []TableInOrder
<1>1. RequestInv /\ RequestInv' /\ TableInOrder /\ [RequestNext]_requestVars
        /\ [~ Moves]_requestVars => TableInOrder'
  <2>1. UNCHANGED requestVars /\ TableInOrder => TableInOrder'
    BY DEF requestVars, TableInOrder
  <2> QED BY <2>1, StepOrder
<1> QED BY <1>1, InitOrder, RequestsHold, PTL DEF RequestSpec

\* The streams of an OS thread as well: IOWait.tla adds nothing that disturbs it.
THEOREM StreamsKeepOrder == IOSpec => OnlyMovesDisorder
BY UsesRequests, OnlyMovesDisorderHolds, PTL
==============================================================================
