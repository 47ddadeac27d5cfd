------------------------------ MODULE QueueLemmas ------------------------------
(***************************************************************************)
(* Sequences of calls under way, of choices and of screens: what taking    *)
(* one element out, or the last, leaves of the others.                     *)
(***************************************************************************)
EXTENDS Integers, Sequences, SequencesExt, SequenceTheorems, TLAPS

\* Taking element n out keeps the others in their order.
LEMMA RemoveAtProperties ==
  ASSUME NEW S, NEW q \in Seq(S), NEW n \in 1..Len(q)
  PROVE  /\ RemoveAt(q, n) \in Seq(S)
         /\ Len(RemoveAt(q, n)) = Len(q) - 1
         /\ \A k \in 1..Len(q) - 1 : RemoveAt(q, n)[k] = IF k < n THEN q[k] ELSE q[k + 1]
  <1> DEFINE a == SubSeq(q, 1, n - 1)
             b == SubSeq(q, n + 1, Len(q))
  <1>0. Len(q) \in Nat /\ n \in Nat /\ n >= 1 /\ n <= Len(q)
    OBVIOUS
  <1>1. /\ a \in Seq(S) /\ Len(a) = n - 1
        /\ \A k \in 1..n - 1 : a[k] = q[k]
    <2>1. \A k \in 1..n - 1 : q[k] \in S
      BY <1>0, ElementOfSeq
    <2>2. /\ a \in Seq(S) /\ Len(a) = IF 1 <= n - 1 THEN n - 1 - 1 + 1 ELSE 0
          /\ \A k \in 1..n - 1 - 1 + 1 : a[k] = q[1 + k - 1]
      BY <2>1, <1>0, SubSeqProperties
    <2> QED
      BY <2>2, <1>0
  <1>2. /\ b \in Seq(S) /\ Len(b) = Len(q) - n
        /\ \A k \in 1..Len(q) - n : b[k] = q[n + k]
    <2>1. \A k \in n + 1..Len(q) : q[k] \in S
      BY <1>0, ElementOfSeq
    <2>2. /\ b \in Seq(S) /\ Len(b) = IF n + 1 <= Len(q) THEN Len(q) - (n + 1) + 1 ELSE 0
          /\ \A k \in 1..Len(q) - (n + 1) + 1 : b[k] = q[n + 1 + k - 1]
      BY <2>1, <1>0, SubSeqProperties
    <2> QED
      BY <2>2, <1>0
  <1>3. RemoveAt(q, n) = a \o b
    BY DEF RemoveAt
  <1> HIDE DEF a, b
  <1>4. /\ a \o b \in Seq(S) /\ Len(a \o b) = Len(a) + Len(b)
        /\ \A k \in 1..Len(a) + Len(b) : (a \o b)[k] = IF k <= Len(a) THEN a[k] ELSE b[k - Len(a)]
    BY <1>1, <1>2, ConcatProperties
  <1>5. Len(a) + Len(b) = Len(q) - 1
    BY <1>0, <1>1, <1>2
  <1>6. ASSUME NEW k \in 1..Len(q) - 1
        PROVE  (a \o b)[k] = IF k < n THEN q[k] ELSE q[k + 1]
    <2>1. CASE k < n
      BY <2>1, <1>0, <1>1, <1>4, <1>5
    <2>2. CASE ~(k < n)
      <3>1. (a \o b)[k] = b[k - (n - 1)]
        BY <2>2, <1>0, <1>1, <1>4, <1>5
      <3>2. k - (n - 1) \in 1..Len(q) - n /\ n + (k - (n - 1)) = k + 1
        BY <2>2, <1>0
      <3>3. b[k - (n - 1)] = q[n + (k - (n - 1))]
        BY <3>2, <1>2
      <3> QED
        BY <2>2, <3>1, <3>2, <3>3
    <2> QED
      BY <2>1, <2>2
  <1> QED
    BY <1>3, <1>4, <1>5, <1>6

\* Front drops the last element, and only that one.
LEMMA FrontProperties ==
  ASSUME NEW S, NEW s \in Seq(S), s # <<>>
  PROVE  /\ Front(s) \in Seq(S)
         /\ Len(s) \in Nat \ {0} /\ Len(Front(s)) = Len(s) - 1
         /\ \A k \in 1..Len(s) - 1 : Front(s)[k] = s[k]
  <1>1. Len(s) \in Nat \ {0}
    BY EmptySeq
  <1>2. \A k \in 1..Len(s) - 1 : s[k] \in S
    BY <1>1, ElementOfSeq
  <1> DEFINE f == SubSeq(s, 1, Len(s) - 1)
  <1>3. /\ f \in Seq(S)
        /\ Len(f) = IF 1 <= Len(s) - 1 THEN Len(s) - 1 - 1 + 1 ELSE 0
        /\ \A k \in 1..Len(s) - 1 - 1 + 1 : f[k] = s[1 + k - 1]
    BY <1>1, <1>2, SubSeqProperties
  <1>4. Front(s) = f
    BY DEF Front
  <1> HIDE DEF f
  <1>5. Len(f) = Len(s) - 1
    <2>1. \A m \in Nat \ {0} : (IF 1 <= m - 1 THEN m - 1 - 1 + 1 ELSE 0) = m - 1
      OBVIOUS
    <2> QED
      BY <2>1, <1>1, <1>3, Zenon
  <1>6. ASSUME NEW k \in 1..Len(s) - 1 PROVE f[k] = s[k]
    <2>1. k \in 1..Len(s) - 1 - 1 + 1 /\ 1 + k - 1 = k
      BY <1>1
    <2> QED
      BY <2>1, <1>3
  <1> QED
    BY <1>1, <1>3, <1>4, <1>5, <1>6

\* What holds of each element of a queue holds of those that stay.
LEMMA RemoveAtSubset ==
  ASSUME NEW S, NEW q \in Seq(S), NEW n \in 1..Len(q), NEW k \in 1..Len(RemoveAt(q, n))
  PROVE  \E j \in 1..Len(q) : j # n /\ RemoveAt(q, n)[k] = q[j]
  <1>1. k \in 1..Len(q) - 1 /\ Len(q) \in Nat
    BY RemoveAtProperties
  <1>2. CASE k < n
    BY <1>1, <1>2, RemoveAtProperties
  <1>3. CASE ~(k < n)
    <2>1. k + 1 \in 1..Len(q) /\ k + 1 # n
      BY <1>1, <1>3
    <2> QED
      BY <2>1, <1>1, <1>3, RemoveAtProperties
  <1> QED
    BY <1>2, <1>3
=============================================================================
