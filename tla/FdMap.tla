-------------------------------- MODULE FdMap --------------------------------
(***************************************************************************)
(* OS/FdMap.h: the hash table from file descriptors to the requests that   *)
(* wait for them, as operators on a record.  Elements with one primary     *)
(* slot form a chain through "info".  The table has the 8 slots of the     *)
(* first grow(); a ninth element is not modelled, see README.md.           *)
(***************************************************************************)
EXTENDS Integers, Sequences, SequencesExt

CONSTANTS
  Fds,   \* Numbers of descriptors.
  Null

ASSUME FdsAssumption == Fds \subseteq Nat

capacity == 8
Slots == 0..(capacity - 1)

\* Special values of info and of positions.
Free == -1
End == -2

\* What becomes of a lookup that leaves the table or never ends.  next() does
\* that when no element with the same key follows: at the end of the chain it
\* reads key[end + 1], before another key it turns for ever.
Astray == -3

Bit(n, i) == (n \div 2^i) % 2 = 1

\* Exclusive or of the low bits of two numbers.
Xor(a, b, bits) ==
  MapThenSumSet(LAMBDA i : IF Bit(a, i) # Bit(b, i) THEN 2^i ELSE 0, 0..(bits - 1))

\* hash(key) & (capacity - 1): the shifts let bits 0 to 25 reach the lowest
\* three, which are those of the slot.
primarySlot ==
  [key \in Fds |->
     LET a == (Xor(key, 44941039, 26) + key * 2^4) % 2^26   \* 0xDEADBEEF % 2^26
         b == Xor(a, a \div 2^10, 16)
         c == (b + b * 2^7) % 2^16
     IN  CHOOSE s \in Slots :
           \A i \in 0..2 : Bit(s, i) = (Bit(c, i) # Bit(c \div 2^13, i))]

EmptyMap ==
  [info |-> [s \in Slots |-> Free],
   key |-> [s \in Slots |-> -1],
   val |-> [s \in Slots |-> Null],
   lastFree |-> 0]

Used(map) == {s \in Slots : map.info[s] # Free}

Values(map) == {map.val[s] : s \in Used(map)}

\* The first free slot at or after the last one that was found.
freeSlot(map) ==
  LET at(i) == (map.lastFree + i) % capacity
  IN  at(CHOOSE i \in Slots : /\ at(i) \notin Used(map)
                              /\ \A j \in 0..(i - 1) : at(j) \in Used(map))

\* The slots on the way from s along a link, up to the first that is in stop:
\* the smallest set with s that has what comes after all others in it.  (The
\* bound l and out are there for TLC, which evaluates them once.)
Walk(link, s, stop) ==
  LET closed(l, out, T) == s \in T /\ \A p \in T \ out : l[p] \in DOMAIN l => l[p] \in T
      way(l, out) == {p \in DOMAIN l : \A T \in SUBSET DOMAIN l : closed(l, out, T) => p \in T}
  IN  UNION {way(l, out) : l \in {link}, out \in {stop}}

Links(map) == [s \in Used(map) |-> map.info[s]]

Fill(map, s, next, key, value) ==
  [map EXCEPT !.info[s] = next, !.key[s] = key, !.val[s] = value]

Clear(map, s) == Fill(map, s, Free, -1, Null)

\* An element that is not in its primary slot makes room.  The link to it from
\* the element before it stays as it is: it now leads to the new element.
put(map, key, value) ==
  LET into == primarySlot[key]
      to == freeSlot(map)
      found == [map EXCEPT !.lastFree = to]
  IN  IF into \notin Used(map)
      THEN Fill(map, into, End, key, value)
      ELSE IF primarySlot[map.key[into]] = into
      THEN [Fill(found, to, map.info[into], key, value) EXCEPT !.info[into] = to]
      ELSE Fill(Fill(found, to, map.info[into], map.key[into], map.val[into]),
                into, End, key, value)

\* The walk ends at the first with the key, or at the end of the chain.  A link
\* to a slot that has been freed leads out of the table, a circle nowhere.
find(map, key) ==
  LET home == primarySlot[key]
      hits == {s \in Used(map) : map.key[s] = key}
      way == Walk(Links(map), home, hits)
  IN  IF home \notin Used(map) THEN Free
      ELSE IF way \cap hits # {} THEN CHOOSE s \in way : s \in hits
      ELSE IF \E s \in way : map.info[s] = End THEN Free
      ELSE Astray

\* Only the first that follows is looked at.
next(map, pos) ==
  LET slot == map.info[pos]
  IN  IF slot \in Slots /\ map.key[slot] = map.key[pos] THEN slot ELSE Astray

\* Variant: the rest of the chain is not linked again.
removeCut(map, pos) == Clear(map, pos)

\* The head of a chain is replaced by the second, any other is unlinked.
remove(map, pos) ==
  LET home == primarySlot[map.key[pos]]
      way == Walk(Links(map), home, {pos})
      after == map.info[pos]
  IN  IF home \notin Used(map) \/ pos \notin way
      THEN map
      ELSE IF pos # home
      THEN LET prev == CHOOSE s \in way \ {pos} : map.info[s] = pos
           IN  [Clear(map, pos) EXCEPT !.info[prev] = after]
      ELSE IF after = End
      THEN Clear(map, pos)
      ELSE Clear(Fill(map, pos, map.info[after], map.key[after], map.val[after]), after)

-----------------------------------------------------------------------------
(* The loops of OS/IOHandle.cpp over find and next. *)

\* Where detach() finds the value, from pos on.
Seek(map, pos, value) ==
  LET hits == {s \in Used(map) : map.val[s] = value}
      way == Walk([s \in Used(map) |-> next(map, s)], pos, hits)
  IN  IF pos \notin Used(map) THEN pos
      ELSE IF way \cap hits # {} THEN CHOOSE s \in way : s \in hits
      ELSE Astray

\* The table after IOHandle::remove, which takes out what it finds until that
\* is nothing, once for every slot at most.
removeAll(map, key) ==
  LET without[n \in 0..capacity] ==
        IF n = 0 THEN map
        ELSE LET rest == without[n - 1]
                 pos == find(rest, key)
             IN  IF pos \in Slots THEN remove(rest, pos) ELSE rest
  IN  without[capacity]

-----------------------------------------------------------------------------
\* A table in order: every element is on the way from its primary slot, and a
\* link leads to an element of the same chain, which has no other link to it.
InOrder(map) ==
  LET home(s) == primarySlot[map.key[s]]
  IN  /\ \A s \in Used(map) :
           /\ home(s) \in Used(map)
           /\ s \in Walk(Links(map), home(s), {})
           /\ \/ map.info[s] = End
              \/ map.info[s] \in Used(map) /\ map.info[s] # home(s) /\ home(map.info[s]) = home(s)
      /\ \A s, t \in Used(map) : map.info[s] = map.info[t] => s = t \/ map.info[s] = End
==============================================================================
