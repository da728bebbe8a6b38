----------------------------- MODULE QueueLemmas -----------------------------
(***************************************************************************)
(* What the queues of OS/InlineList.h need: sequences without repetition,  *)
(* popped at the head and pushed at the end.                               *)
(***************************************************************************)
EXTENDS Sequences, Integers, Functions, SequenceTheorems, TLAPS

\* What a sequence of distinct elements is without its head.
LEMMA DistinctTail ==
  ASSUME NEW S, NEW q \in Seq(S), q # <<>>, IsInjective(q)
  PROVE  /\ Tail(q) \in Seq(S)
         /\ IsInjective(Tail(q))
         /\ Head(q) \in Range(q)
         /\ Range(Tail(q)) = Range(q) \ {Head(q)}
<1> DEFINE t == Tail(q)
<1>1. /\ t \in Seq(S) /\ Len(t) = Len(q) - 1 /\ Len(q) \in Nat \ {0}
      /\ \A i \in 1..Len(t) : t[i] = q[i + 1]
  BY HeadTailProperties, EmptySeq, LenProperties
<1>2. DOMAIN q = 1..Len(q) /\ DOMAIN t = 1..Len(t) /\ Head(q) = q[1]
  BY <1>1, LenProperties, HeadTailProperties
<1>3. IsInjective(t)
  BY <1>1, <1>2 DEF IsInjective
<1>4. Head(q) \in Range(q)
  BY <1>1, <1>2 DEF Range
<1>5. ASSUME NEW x \in Range(t) PROVE x \in Range(q) \ {Head(q)}
  <2>1. PICK i \in 1..Len(t) : x = t[i]
    BY <1>2 DEF Range
  <2>2. i + 1 \in 1..Len(q) /\ i + 1 # 1 /\ x = q[i + 1]
    BY <1>1, <2>1
  <2>3. x # q[1]
    BY <1>1, <1>2, <2>2 DEF IsInjective
  <2> QED
    BY <1>2, <2>2, <2>3 DEF Range
<1>6. ASSUME NEW x \in Range(q) \ {Head(q)} PROVE x \in Range(t)
  <2>1. PICK i \in 1..Len(q) : x = q[i]
    BY <1>2 DEF Range
  <2>2. i - 1 \in 1..Len(t) /\ x = t[i - 1]
    BY <1>1, <1>2, <2>1
  <2> QED
    BY <1>2, <2>2 DEF Range
<1> HIDE DEF t
<1> QED
  BY <1>1, <1>3, <1>4, <1>5, <1>6 DEF t

\* What it is with one more element at its end.
LEMMA DistinctAppend ==
  ASSUME NEW S, NEW q \in Seq(S), IsInjective(q), NEW x \in S, x \notin Range(q)
  PROVE  /\ Append(q, x) \in Seq(S)
         /\ IsInjective(Append(q, x))
         /\ Range(Append(q, x)) = Range(q) \union {x}
<1> DEFINE a == Append(q, x)
<1>1. /\ a \in Seq(S) /\ Len(a) = Len(q) + 1 /\ Len(q) \in Nat
      /\ \A i \in 1..Len(q) : a[i] = q[i]
      /\ a[Len(q) + 1] = x
  BY AppendProperties, LenProperties
<1>2. DOMAIN q = 1..Len(q) /\ DOMAIN a = 1..Len(a)
  BY <1>1, LenProperties
<1>3. \A i \in 1..Len(q) : a[i] # x
  BY <1>1, <1>2 DEF Range
<1>4. IsInjective(a)
  BY <1>1, <1>2, <1>3 DEF IsInjective
<1>5. Range(a) = Range(q) \union {x}
  <2>1. ASSUME NEW y \in Range(a) PROVE y \in Range(q) \union {x}
    BY <1>1, <1>2 DEF Range
  <2>2. ASSUME NEW y \in Range(q) PROVE y \in Range(a)
    BY <1>1, <1>2 DEF Range
  <2>3. x \in Range(a)
    <3>1. Len(q) + 1 \in DOMAIN a
      BY <1>1, <1>2
    <3> QED
      BY <1>1, <3>1 DEF Range
  <2> QED
    BY <2>1, <2>2, <2>3
<1> QED
  BY <1>1, <1>4, <1>5

\* Two of them, one behind the other.
LEMMA DistinctConcat ==
  ASSUME NEW S, NEW p \in Seq(S), NEW q \in Seq(S), IsInjective(p), IsInjective(q),
         Range(p) \intersect Range(q) = {}
  PROVE  /\ p \o q \in Seq(S)
         /\ IsInjective(p \o q)
         /\ Range(p \o q) = Range(p) \union Range(q)
<1> DEFINE c == p \o q
<1>1. /\ c \in Seq(S) /\ Len(c) = Len(p) + Len(q)
      /\ Len(p) \in Nat /\ Len(q) \in Nat
      /\ \A i \in 1..Len(p) : c[i] = p[i]
      /\ \A i \in 1..Len(q) : c[Len(p) + i] = q[i]
  <2>1. /\ c \in Seq(S) /\ Len(c) = Len(p) + Len(q)
        /\ Len(p) \in Nat /\ Len(q) \in Nat
        /\ \A i \in 1..Len(c) : c[i] = IF i <= Len(p) THEN p[i] ELSE q[i - Len(p)]
    BY ConcatProperties, LenProperties
  <2> HIDE DEF c
  <2>2. \A i \in 1..Len(p) : c[i] = p[i]
    BY <2>1
  <2>3. \A i \in 1..Len(q) : c[Len(p) + i] = q[i]
    BY <2>1
  <2> QED
    BY <2>1, <2>2, <2>3
<1> HIDE DEF c
<1>2. /\ DOMAIN p = 1..Len(p) /\ DOMAIN q = 1..Len(q) /\ DOMAIN c = 1..Len(c)
  BY <1>1, LenProperties
<1>3. \A i \in 1..Len(p), j \in 1..Len(q) : p[i] # q[j]
  BY <1>2 DEF Range
<1>4. \A k \in 1..Len(c) : \/ k \in 1..Len(p) /\ c[k] = p[k]
                          \/ \E j \in 1..Len(q) : k = Len(p) + j /\ c[k] = q[j]
  <2> SUFFICES ASSUME NEW k \in 1..Len(c)
               PROVE  \/ k \in 1..Len(p) /\ c[k] = p[k]
                      \/ \E j \in 1..Len(q) : k = Len(p) + j /\ c[k] = q[j]
    OBVIOUS
  <2>1. CASE k <= Len(p)
    BY <1>1, <2>1
  <2>2. CASE k > Len(p)
    <3>1. k - Len(p) \in 1..Len(q) /\ k = Len(p) + (k - Len(p))
      BY <1>1, <2>2
    <3> QED
      BY <1>1, <3>1
  <2> QED
    BY <1>1, <2>1, <2>2
<1>5. IsInjective(c)
  <2> SUFFICES ASSUME NEW k \in 1..Len(c), NEW m \in 1..Len(c), c[k] = c[m]
               PROVE  k = m
    BY <1>2 DEF IsInjective
  <2>1. \A i, j \in 1..Len(p) : p[i] = p[j] => i = j
    BY <1>2 DEF IsInjective
  <2>2. \A i, j \in 1..Len(q) : q[i] = q[j] => i = j
    BY <1>2 DEF IsInjective
  <2>3. CASE k \in 1..Len(p) /\ c[k] = p[k]
    BY <1>3, <1>4, <2>1, <2>3
  <2>4. CASE \E j \in 1..Len(q) : k = Len(p) + j /\ c[k] = q[j]
    BY <1>3, <1>4, <2>2, <2>4
  <2> QED
    BY <1>4, <2>3, <2>4
<1>6. Range(c) = Range(p) \union Range(q)
  <2>1. ASSUME NEW y \in Range(c) PROVE y \in Range(p) \union Range(q)
    BY <1>2, <1>4 DEF Range
  <2>2. ASSUME NEW y \in Range(p) PROVE y \in Range(c)
    BY <1>1, <1>2 DEF Range
  <2>3. ASSUME NEW y \in Range(q) PROVE y \in Range(c)
    <3>1. PICK j \in 1..Len(q) : y = q[j]
      BY <1>2 DEF Range
    <3>2. Len(p) + j \in 1..Len(c) /\ c[Len(p) + j] = y
      BY <1>1, <3>1
    <3> QED
      BY <1>2, <3>2 DEF Range
  <2> QED
    BY <2>1, <2>2, <2>3
<1> QED
  BY <1>1, <1>5, <1>6 DEF c

\* r is q with e behind the first k.
Inserted(q, k, e, r) ==
  /\ Len(r) = Len(q) + 1
  /\ \A i \in 1..k : r[i] = q[i]
  /\ r[k + 1] = e
  /\ \A i \in k + 2..Len(q) + 1 : r[i] = q[i - 1]

\* That is what sleep() makes of the queue of sleepers.
LEMMA InsertBehind ==
  ASSUME NEW S, NEW q \in Seq(S), NEW k \in 0..Len(q), NEW e \in S
  PROVE  Inserted(q, k, e, SubSeq(q, 1, k) \o <<e>> \o SubSeq(q, k + 1, Len(q)))
<1> DEFINE a == SubSeq(q, 1, k)
           b == SubSeq(q, k + 1, Len(q))
           c == a \o <<e>>
           d == c \o b
<1>1. Len(q) \in Nat /\ k \in Nat /\ k <= Len(q)
  BY LenProperties
<1>2. a \in Seq(S) /\ Len(a) = k /\ \A i \in 1..k : a[i] = q[i]
  BY <1>1, SubSeqProperties
<1>3. b \in Seq(S) /\ Len(b) = Len(q) - k /\ \A i \in 1..Len(q) - k : b[i] = q[k + i]
  BY <1>1, SubSeqProperties
<1> HIDE DEF a, b
<1>4. <<e>> \in Seq(S) /\ Len(<<e>>) = 1 /\ <<e>>[1] = e
  OBVIOUS
<1>5. c \in Seq(S) /\ Len(c) = k + 1 /\ c[k + 1] = e /\ \A i \in 1..k : c[i] = q[i]
  BY <1>1, <1>2, <1>4, ConcatProperties
<1> HIDE DEF c
<1>6. /\ d \in Seq(S) /\ Len(d) = Len(c) + Len(b)
      /\ \A i \in 1..Len(c) + Len(b) : d[i] = IF i <= Len(c) THEN c[i] ELSE b[i - Len(c)]
  BY <1>3, <1>5, ConcatProperties
<1> HIDE DEF d
<1>7. /\ Len(d) = Len(q) + 1
      /\ \A i \in 1..Len(q) + 1 : d[i] = IF i <= k + 1 THEN c[i] ELSE b[i - (k + 1)]
  <2>1. Len(c) + Len(b) = Len(q) + 1
    BY <1>1, <1>3, <1>5
  <2> QED
    BY <1>5, <1>6, <2>1
<1>8. ASSUME NEW i \in k + 2..Len(q) + 1 PROVE d[i] = q[i - 1]
  <2>1. i - (k + 1) \in 1..Len(q) - k /\ k + (i - (k + 1)) = i - 1 /\ ~(i <= k + 1)
    BY <1>1
  <2>2. d[i] = b[i - (k + 1)]
    BY <1>1, <1>7, <2>1
  <2> QED
    BY <1>3, <2>1, <2>2
<1>9. d[k + 1] = e /\ \A i \in 1..k : d[i] = q[i]
  BY <1>1, <1>5, <1>7
<1>10. Inserted(q, k, e, d)
  BY <1>7, <1>8, <1>9 DEF Inserted
<1> QED
  BY <1>10 DEF a, b, c, d
==============================================================================
