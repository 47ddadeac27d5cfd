---------------------------- MODULE InterestsProofs ----------------------------
(***************************************************************************)
(* What the Choose buttons upload and what the add screen shows of it, for *)
(* any number of categories, accounts, screens and uploads under way.      *)
(***************************************************************************)
EXTENDS Interests, QueueLemmas

-----------------------------------------------------------------------------
(* One upload.                                                             *)

\* What is due of u lies ahead in list L.
Ahead(u, L) == \A i \in 1..Len(u.due) : u.sent + i <= Len(L) /\ u.due[i] = L[u.sent + i]

\* What is listed was chosen since the signed-in user changed last.
Fresh(L) == \A k \in 1..Len(L) : ~L[k].past

\* An upload over list L.
Fine(u, L) ==
  /\ u.kind # "none" /\ ~u.disturbed => Ahead(u, L)
  /\ u.kind = "add" => ~u.foreign /\ (~u.crossed => Fresh(L))

LEMMA UploadFields ==
  ASSUME NEW u \in Upload
  PROVE  /\ u.sent \in Nat /\ u.due \in Seq(Item) /\ u.own \in Seq(Item) /\ u.at \in 0..MaxDepth
         /\ u.kind \in {"none", "select", "add"} /\ u.life \in {"shown", "exiting", "gone"}
         /\ {u.kept, u.disturbed, u.crossed, u.foreign} \subseteq BOOLEAN /\ u.length \in Nat
  BY DEF Upload

LEMMA IdleFine ==
  ASSUME NEW L
  PROVE  Idle \in Upload /\ Idle.kind = "none" /\ Idle.at = 0 /\ Fine(Idle, L)
  <1>1. <<>> \in Seq(Item) /\ 0 \in 0..MaxDepth
    BY InterestsAssumption
  <1> QED
    BY <1>1 DEF Idle, Upload, Fine

\* A screen that leaves takes no part in what is uploaded.
LEMMA LeavingFine ==
  ASSUME NEW u \in Upload, NEW L, Fine(u, L), NEW v, v = [u EXCEPT !.at = 0, !.life = "exiting"]
  PROVE  v \in Upload /\ v.kind = u.kind /\ v.at = 0 /\ v.kept = u.kept /\ v.own = u.own /\ Fine(v, L)
  <1>1. 0 \in 0..MaxDepth
    BY InterestsAssumption
  <1> QED
    BY <1>1 DEF Upload, Fine, Ahead

LEMMA UnmountedFine ==
  ASSUME NEW u \in Upload, NEW L, Fine(u, L), NEW v, v = [u EXCEPT !.life = "gone"]
  PROVE  v \in Upload /\ v.kind = u.kind /\ v.at = u.at /\ v.kept = u.kept /\ v.own = u.own /\ Fine(v, L)
  BY DEF Upload, Fine, Ahead

\* Nothing is due of an upload that was disturbed, and its account is closed.
LEMMA DisturbedFine ==
  ASSUME NEW u \in Upload
  PROVE  /\ Disturbed(u) \in Upload /\ Disturbed(u).kind = u.kind /\ Disturbed(u).at = u.at
         /\ Disturbed(u).kept = u.kept /\ Disturbed(u).own = u.own /\ Disturbed(u).disturbed
         /\ Disturbed(u).foreign = u.foreign /\ Disturbed(u).crossed = u.crossed
  <1>1. <<>> \in Seq(Item)
    OBVIOUS
  <1> QED
    BY <1>1 DEF Disturbed, Upload

\* What was chosen before the signed-in user changed.
LEMMA PastProperties ==
  ASSUME NEW L \in Seq(Item)
  PROVE  /\ Past(L) \in Seq(Item) /\ Len(Past(L)) = Len(L)
         /\ \A k \in 1..Len(L) : Past(L)[k] = [L[k] EXCEPT !.past = TRUE]
  <1>1. Len(L) \in Nat /\ DOMAIN L = 1..Len(L) /\ \A k \in 1..Len(L) : L[k] \in Item
    BY LenProperties, ElementOfSeq
  <1>2. \A k \in 1..Len(L) : [L[k] EXCEPT !.past = TRUE] \in Item
    BY <1>1 DEF Item
  <1>3. Past(L) \in [1..Len(L) -> Item] /\ \A k \in 1..Len(L) : Past(L)[k] = [L[k] EXCEPT !.past = TRUE]
    BY <1>1, <1>2 DEF Past
  <1> QED
    BY <1>1, <1>3, SeqDef

LEMMA CrossedFine ==
  ASSUME NEW u \in Upload, NEW L \in Seq(Item), Fine(u, L), NEW v, v = Crossed(u)
  PROVE  /\ v \in Upload /\ v.kind = u.kind /\ v.at = u.at /\ v.kept = u.kept /\ v.own = Past(u.own)
         /\ Fine(v, Past(L))
  <1>1. PICK d : d = Past(u.due)
    OBVIOUS
  <1>2. PICK o : o = Past(u.own)
    OBVIOUS
  <1>3. PICK M : M = Past(L)
    OBVIOUS
  <1>4. u.due \in Seq(Item) /\ u.own \in Seq(Item) /\ u.sent \in Nat /\ Len(u.due) \in Nat /\ Len(L) \in Nat
    BY UploadFields
  <1>5. /\ d \in Seq(Item) /\ Len(d) = Len(u.due) /\ o \in Seq(Item) /\ M \in Seq(Item) /\ Len(M) = Len(L)
        /\ \A k \in 1..Len(u.due) : d[k] = [u.due[k] EXCEPT !.past = TRUE]
        /\ \A k \in 1..Len(L) : M[k] = [L[k] EXCEPT !.past = TRUE]
    BY <1>1, <1>2, <1>3, <1>4, PastProperties
  <1>6. v = [u EXCEPT !.crossed = TRUE, !.foreign = FALSE, !.due = d, !.own = o]
    BY <1>1, <1>2 DEF Crossed
  <1>7. /\ v \in Upload /\ v.kind = u.kind /\ v.at = u.at /\ v.kept = u.kept /\ v.own = o /\ v.due = d
        /\ v.sent = u.sent /\ v.disturbed = u.disturbed /\ v.crossed /\ ~v.foreign
    BY <1>5, <1>6 DEF Upload
  <1>8. ASSUME Ahead(u, L), NEW i \in 1..Len(d)
        PROVE  u.sent + i <= Len(M) /\ d[i] = M[u.sent + i]
    <2>1. i \in 1..Len(u.due) /\ u.sent + i <= Len(L) /\ u.due[i] = L[u.sent + i]
      BY <1>5, <1>8 DEF Ahead
    <2>2. u.sent + i \in 1..Len(L)
      BY <2>1, <1>4
    <2> QED
      BY <2>1, <2>2, <1>5
  <1>9. Ahead(u, L) => Ahead(v, M)
    BY <1>7, <1>8 DEF Ahead
  <1>10. Fine(v, M)
    BY <1>7, <1>9 DEF Fine
  <1> QED
    BY <1>2, <1>3, <1>7, <1>10

\* Another choice at the end of the list.
LEMMA LongerFine ==
  ASSUME NEW u \in Upload, NEW L \in Seq(Item), Fine(u, L), NEW e \in Item, ~e.past
  PROVE  Fine(u, Append(L, e))
  <1>1. /\ Len(L) \in Nat /\ Len(Append(L, e)) = Len(L) + 1 /\ Append(L, e)[Len(L) + 1] = e
        /\ \A k \in 1..Len(L) : Append(L, e)[k] = L[k]
    BY AppendProperties
  <1>2. u.sent \in Nat /\ Len(u.due) \in Nat
    BY UploadFields
  <1>3. ASSUME Ahead(u, L), NEW i \in 1..Len(u.due)
        PROVE  u.sent + i <= Len(Append(L, e)) /\ u.due[i] = Append(L, e)[u.sent + i]
    BY <1>1, <1>2, <1>3 DEF Ahead
  <1>4. Ahead(u, L) => Ahead(u, Append(L, e))
    BY <1>3 DEF Ahead
  <1>5. Fresh(L) => Fresh(Append(L, e))
    BY <1>1 DEF Fresh
  <1> QED
    BY <1>4, <1>5 DEF Fine

\* Choice k is taken from the list.
LEMMA SparedFine ==
  ASSUME NEW u \in Upload, NEW L \in Seq(Item), Fine(u, L), NEW k \in 1..Len(L),
         NEW M, M = RemoveAt(L, k)
  PROVE  /\ Spared(u, k) \in Upload /\ Spared(u, k).kind = u.kind /\ Spared(u, k).at = u.at
         /\ Spared(u, k).kept = u.kept /\ Spared(u, k).own = u.own
         /\ Fine(Spared(u, k), M)
  <1>1. Len(L) \in Nat /\ k \in Nat /\ k <= Len(L) /\ 1 <= k
    OBVIOUS
  <1>2. Len(M) = Len(L) - 1
    BY RemoveAtProperties
  <1>7. \A i \in 1..Len(L) - 1 : M[i] = IF i < k THEN L[i] ELSE L[i + 1]
    BY RemoveAtProperties
  <1>8. u.sent \in Nat /\ Len(u.due) \in Nat /\ u.due \in Seq(Item) /\ DOMAIN u.due = 1..Len(u.due)
    BY UploadFields
  <1>3. Fresh(L) => Fresh(M)
    <2>1. ASSUME Fresh(L), NEW i \in 1..Len(M)
          PROVE  ~M[i].past
      <3>1. i \in 1..Len(L) - 1 /\ i \in 1..Len(L) /\ i + 1 \in 1..Len(L)
        BY <1>1, <1>2
      <3> QED
        BY <1>7, <3>1, <2>1 DEF Fresh
    <2> QED
      BY <2>1 DEF Fresh
  <1>4. CASE k <= u.sent
    <2>1. Spared(u, k) = Disturbed(u)
      BY <1>4 DEF Spared
    <2>2. PICK v : v = Disturbed(u)
      OBVIOUS
    <2>3. /\ v \in Upload /\ v.kind = u.kind /\ v.at = u.at /\ v.kept = u.kept /\ v.own = u.own
          /\ v.disturbed /\ v.foreign = u.foreign /\ v.crossed = u.crossed
      BY <2>2, DisturbedFine
    <2>4. Fine(v, M)
      BY <2>3, <1>3 DEF Fine
    <2> QED
      BY <2>1, <2>2, <2>3, <2>4
  <1>5. CASE ~(k <= u.sent) /\ k - u.sent \in 1..Len(u.due)
    <2>0. PICK n : n = k - u.sent
      OBVIOUS
    <2>1. PICK d : d = RemoveAt(u.due, n)
      OBVIOUS
    <2>2. n \in 1..Len(u.due) /\ n \in Nat /\ k = u.sent + n
      BY <2>0, <1>1, <1>5, <1>8
    <2>3. d \in Seq(Item) /\ Len(d) = Len(u.due) - 1
      BY <2>1, <2>2, <1>8, RemoveAtProperties
    <2>4. \A i \in 1..Len(u.due) - 1 : d[i] = IF i < n THEN u.due[i] ELSE u.due[i + 1]
      BY <2>1, <2>2, <1>8, RemoveAtProperties
    <2>5. PICK v : v = [u EXCEPT !.due = d]
      OBVIOUS
    <2>6. Spared(u, k) = v
      BY <1>8, <1>5, <2>0, <2>1, <2>5 DEF Spared
    <2>7. /\ v \in Upload /\ v.kind = u.kind /\ v.at = u.at /\ v.kept = u.kept /\ v.own = u.own /\ v.due = d
          /\ v.sent = u.sent /\ v.disturbed = u.disturbed /\ v.crossed = u.crossed /\ v.foreign = u.foreign
      BY <2>3, <2>5 DEF Upload
    <2>8. ASSUME Ahead(u, L), NEW i \in 1..Len(d)
          PROVE  u.sent + i <= Len(M) /\ d[i] = M[u.sent + i]
      <3>1. i \in 1..Len(u.due) - 1 /\ i \in 1..Len(u.due) /\ i + 1 \in 1..Len(u.due) /\ i \in Nat
        BY <1>8, <2>3
      <3>2. u.sent + i <= Len(L) /\ u.due[i] = L[u.sent + i]
        BY <2>8, <3>1 DEF Ahead
      <3>3. u.sent + (i + 1) <= Len(L) /\ u.due[i + 1] = L[u.sent + (i + 1)]
        BY <2>8, <3>1 DEF Ahead
      <3>4. PICK j : j = u.sent + i
        OBVIOUS
      <3>5. j \in 1..Len(L) - 1 /\ u.sent + (i + 1) = j + 1 /\ (i < n <=> j < k) /\ j <= Len(M)
        <4>1. i \in Nat /\ 1 <= i /\ u.sent \in Nat /\ n \in Nat /\ Len(L) \in Nat
          BY <3>1, <1>1, <1>8, <2>2
        <4>2. u.sent + (i + 1) <= Len(L)
          BY <3>3
        <4>3. PICK x \in Nat : x = u.sent
          BY <4>1
        <4>4. j = x + i /\ k = x + n /\ x + (i + 1) <= Len(L)
          BY <4>2, <4>3, <3>4, <2>2
        <4>5. j \in Nat /\ 1 <= j /\ x + (i + 1) = j + 1 /\ (i < n <=> j < k)
          BY <4>1, <4>4
        <4>6. j \in 1..Len(L) - 1 /\ j <= Len(M)
          BY <4>1, <4>4, <4>5, <1>2
        <4> QED
          BY <4>3, <4>5, <4>6
      <3>6. M[j] = IF j < k THEN L[j] ELSE L[j + 1]
        BY <1>7, <3>5
      <3>7. d[i] = IF i < n THEN u.due[i] ELSE u.due[i + 1]
        BY <2>4, <3>1
      <3>8. L[u.sent + (i + 1)] = L[j + 1]
        BY <3>5
      <3> QED
        BY <3>2, <3>3, <3>4, <3>5, <3>6, <3>7, <3>8
    <2>9. Ahead(u, L) => Ahead(v, M)
      BY <2>7, <2>8 DEF Ahead
    <2>10. Fine(v, M)
      BY <2>7, <2>9, <1>3 DEF Fine
    <2> QED
      BY <2>6, <2>7, <2>10
  <1>6. CASE ~(k <= u.sent) /\ k - u.sent \notin 1..Len(u.due)
    <2>1. Spared(u, k) = u
      BY <1>8, <1>6 DEF Spared
    <2>2. ASSUME Ahead(u, L), NEW i \in 1..Len(u.due)
          PROVE  u.sent + i <= Len(M) /\ u.due[i] = M[u.sent + i]
      <3>1. u.sent + i <= Len(L) /\ u.due[i] = L[u.sent + i]
        BY <2>2 DEF Ahead
      <3>2. PICK j : j = u.sent + i
        OBVIOUS
      <3>3. Len(u.due) < k - u.sent
        BY <1>1, <1>6, <1>8
      <3>4. j < k /\ j \in 1..Len(L) - 1 /\ j <= Len(M)
        BY <1>1, <1>2, <1>8, <3>1, <3>2, <3>3
      <3>5. M[j] = L[j]
        BY <1>7, <3>4
      <3> QED
        BY <3>1, <3>2, <3>4, <3>5
    <2>3. Ahead(u, L) => Ahead(u, M)
      BY <2>2 DEF Ahead
    <2>4. Fine(u, M)
      BY <2>3, <1>3 DEF Fine
    <2> QED
      BY <2>1, <2>4
  <1> QED
    BY <1>4, <1>5, <1>6

-----------------------------------------------------------------------------
(* The selection.                                                          *)

\* No object is selected twice.
Same(d, e) == d.item.cat = e.item.cat /\ d.on = e.on /\ d.on > 0

Distinct(q) == \A j, k \in 1..Len(q) : Same(q[j], q[k]) => j = k

\* Choices that the screen at position top shows, or whose list was replaced.
Shown(q, top) == \A k \in 1..Len(q) : q[k].seen = "replaced" \/ q[k].on = top

LEMMA ItemsProperties ==
  ASSUME NEW q \in Seq(Choice)
  PROVE  Items(q) \in Seq(Item) /\ Len(Items(q)) = Len(q) /\ \A k \in 1..Len(q) : Items(q)[k] = q[k].item
  <1>1. Len(q) \in Nat /\ DOMAIN q = 1..Len(q) /\ \A k \in 1..Len(q) : q[k] \in Choice
    BY LenProperties, ElementOfSeq
  <1>2. \A k \in 1..Len(q) : q[k].item \in Item
    BY <1>1 DEF Choice
  <1>3. Items(q) \in [1..Len(q) -> Item] /\ \A k \in 1..Len(q) : Items(q)[k] = q[k].item
    BY <1>1, <1>2 DEF Items
  <1>4. Items(q) \in Seq(Item) /\ Len(Items(q)) = Len(q)
    BY <1>1, <1>3, SeqDef
  <1> QED
    BY <1>3, <1>4

\* Nothing is selected.
LEMMA NothingSelected ==
  ASSUME NEW q \in Seq(Choice), Len(q) = 0
  PROVE  Distinct(q) /\ Fresh(Items(q)) /\ \A top : Shown(q, top)
  <1>1. Len(Items(q)) = 0
    BY ItemsProperties
  <1> QED
    BY <1>1 DEF Distinct, Fresh, Shown

\* Two selections of the same categories, each at its place.
LEMMA SameItems ==
  ASSUME NEW q \in Seq(Choice), NEW r \in Seq(Choice), Len(q) = Len(r),
         \A k \in 1..Len(q) : q[k].item = r[k].item
  PROVE  Items(q) = Items(r)
  <1>1. /\ Items(q) \in Seq(Item) /\ Items(r) \in Seq(Item) /\ Len(Items(q)) = Len(Items(r))
        /\ \A k \in 1..Len(Items(q)) : Items(q)[k] = Items(r)[k]
    BY ItemsProperties
  <1> QED
    BY <1>1, SeqEqual

LEMMA GoneProperties ==
  ASSUME selected \in Seq(Choice), NEW i, NEW why \in {"replaced", "left"}, NEW q, q = Gone(i, why),
         Distinct(selected)
  PROVE  /\ q \in Seq(Choice) /\ Len(q) = Len(selected) /\ Items(q) = Items(selected) /\ Distinct(q)
         /\ \A k \in 1..Len(selected) :
              /\ q[k].item = selected[k].item
              /\ selected[k].on = i => q[k].on = 0 /\ q[k].seen = why
              /\ selected[k].on # i => q[k] = selected[k]
  <1>1. Len(selected) \in Nat /\ DOMAIN selected = 1..Len(selected) /\ \A k \in 1..Len(selected) : selected[k] \in Choice
    BY LenProperties, ElementOfSeq
  <1>2. ASSUME NEW k \in 1..Len(selected)
        PROVE  /\ q[k] \in Choice /\ q[k].item = selected[k].item
               /\ selected[k].on = i => q[k].on = 0 /\ q[k].seen = why
               /\ selected[k].on # i => q[k] = selected[k]
    <2>1. q[k] = IF selected[k].on = i THEN [selected[k] EXCEPT !.on = 0, !.seen = why] ELSE selected[k]
      BY <1>1 DEF Gone
    <2>2. selected[k] \in Choice /\ 0 \in 0..MaxDepth
      BY <1>1, InterestsAssumption
    <2> QED
      BY <2>1, <2>2 DEF Choice
  <1>3. q \in [1..Len(selected) -> Choice]
    <2>1. DOMAIN q = 1..Len(selected) /\ q = [k \in 1..Len(selected) |-> q[k]]
      BY <1>1 DEF Gone
    <2> QED
      BY <1>2, <2>1, Zenon
  <1>4. q \in Seq(Choice) /\ Len(q) = Len(selected)
    BY <1>1, <1>3, SeqDef
  <1>5. Items(q) = Items(selected)
    BY <1>2, <1>4, SameItems
  <1>6. ASSUME NEW j \in 1..Len(q), NEW k \in 1..Len(q), Same(q[j], q[k])
        PROVE  j = k
    <2>1. selected[j].on # i /\ selected[k].on # i
      BY <1>2, <1>4, <1>6 DEF Same
    <2>2. Same(selected[j], selected[k])
      BY <2>1, <1>2, <1>4, <1>6 DEF Same
    <2> QED
      BY <2>2, <1>4 DEF Distinct
  <1>7. Distinct(q)
    BY <1>6 DEF Distinct
  <1> QED
    BY <1>2, <1>4, <1>5, <1>7

LEMMA ChosenProperties ==
  ASSUME selected \in Seq(Choice), Distinct(selected), NEW e \in Choice,
         \A k \in 1..Len(selected) : ~(selected[k].item.cat = e.item.cat /\ selected[k].on = e.on),
         NEW q, q = Append(selected, e)
  PROVE  /\ q \in Seq(Choice) /\ Len(q) = Len(selected) + 1 /\ Distinct(q)
         /\ Items(q) = Append(Items(selected), e.item)
         /\ \A k \in 1..Len(q) : q[k] = e \/ (k \in 1..Len(selected) /\ q[k] = selected[k])
  <1>1. /\ Len(selected) \in Nat /\ q \in Seq(Choice) /\ Len(q) = Len(selected) + 1 /\ q[Len(selected) + 1] = e
        /\ \A k \in 1..Len(selected) : q[k] = selected[k]
    BY AppendProperties
  <1>2. \A k \in 1..Len(q) : k \in 1..Len(selected) \/ k = Len(selected) + 1
    BY <1>1
  <1>3. Distinct(q)
    BY <1>1, <1>2 DEF Distinct, Same
  <1>4. Items(q) = Append(Items(selected), e.item)
    <2> DEFINE r == Append(Items(selected), e.item)
    <2>1. e.item \in Item
      BY DEF Choice
    <2>2. /\ Items(selected) \in Seq(Item) /\ Len(Items(selected)) = Len(selected)
          /\ \A k \in 1..Len(selected) : Items(selected)[k] = selected[k].item
      BY ItemsProperties
    <2>3. /\ r \in Seq(Item) /\ Len(r) = Len(selected) + 1 /\ r[Len(selected) + 1] = e.item
          /\ \A k \in 1..Len(selected) : r[k] = selected[k].item
      BY <2>1, <2>2, AppendProperties
    <2> HIDE DEF r
    <2>4. Items(q) \in Seq(Item) /\ Len(Items(q)) = Len(q) /\ \A k \in 1..Len(q) : Items(q)[k] = q[k].item
      BY <1>1, ItemsProperties
    <2>5. \A k \in 1..Len(q) : Items(q)[k] = r[k]
      BY <1>1, <1>2, <2>3, <2>4
    <2>6. Items(q) = r
      BY <1>1, <2>3, <2>4, <2>5, SeqEqual
    <2> QED
      BY <2>6 DEF r
  <1> QED
    BY <1>1, <1>2, <1>3, <1>4

LEMMA UnchosenProperties ==
  ASSUME selected \in Seq(Choice), Distinct(selected), NEW n \in 1..Len(selected),
         NEW q, q = RemoveAt(selected, n)
  PROVE  /\ q \in Seq(Choice) /\ Len(q) = Len(selected) - 1 /\ Distinct(q)
         /\ Items(q) = RemoveAt(Items(selected), n)
  <1>1. Len(selected) \in Nat /\ n \in Nat /\ n <= Len(selected)
    OBVIOUS
  <1>2. q \in Seq(Choice) /\ Len(q) = Len(selected) - 1
    BY RemoveAtProperties
  <1>3. \A k \in 1..Len(selected) - 1 : q[k] = IF k < n THEN selected[k] ELSE selected[k + 1]
    BY RemoveAtProperties
  <1>4. Distinct(q)
    <2>1. ASSUME NEW j \in 1..Len(q), NEW k \in 1..Len(q), Same(q[j], q[k])
          PROVE  j = k
      <3>1. PICK a : a = IF j < n THEN j ELSE j + 1
        OBVIOUS
      <3>2. PICK b : b = IF k < n THEN k ELSE k + 1
        OBVIOUS
      <3>3. j \in 1..Len(selected) - 1 /\ k \in 1..Len(selected) - 1
        BY <1>1, <1>2
      <3>4. a \in 1..Len(selected) /\ b \in 1..Len(selected) /\ (a = b => j = k)
        BY <3>1, <3>2, <3>3, <1>1
      <3>5. q[j] = selected[a] /\ q[k] = selected[b]
        BY <3>1, <3>2, <3>3, <1>3
      <3> QED
        BY <2>1, <3>4, <3>5 DEF Distinct
    <2> QED
      BY <2>1 DEF Distinct
  <1>5. Items(q) = RemoveAt(Items(selected), n)
    <2>1. PICK L : L = Items(selected)
      OBVIOUS
    <2>2. PICK r : r = RemoveAt(L, n)
      OBVIOUS
    <2>3. L \in Seq(Item) /\ Len(L) = Len(selected) /\ \A k \in 1..Len(selected) : L[k] = selected[k].item
      BY <2>1, ItemsProperties
    <2>4. n \in 1..Len(L)
      BY <2>3
    <2>5. r \in Seq(Item) /\ Len(r) = Len(selected) - 1
      BY <2>2, <2>3, <2>4, RemoveAtProperties
    <2>6. \A k \in 1..Len(selected) - 1 : r[k] = IF k < n THEN L[k] ELSE L[k + 1]
      BY <2>2, <2>3, <2>4, RemoveAtProperties
    <2>7. Items(q) \in Seq(Item) /\ Len(Items(q)) = Len(q) /\ \A k \in 1..Len(q) : Items(q)[k] = q[k].item
      BY <1>2, ItemsProperties
    <2>8. ASSUME NEW k \in 1..Len(q) PROVE Items(q)[k] = r[k]
      <3>1. k \in 1..Len(selected) - 1 /\ k \in 1..Len(selected) /\ k + 1 \in 1..Len(selected)
        BY <1>1, <1>2
      <3> QED
        BY <3>1, <1>3, <2>3, <2>6, <2>7
    <2>9. Items(q) = r
      BY <1>2, <2>5, <2>7, <2>8, SeqEqual
    <2> QED
      BY <2>1, <2>2, <2>9
  <1> QED
    BY <1>2, <1>4, <1>5

\* The signed-in user changes: everything selected was chosen before.
LEMMA MarkedProperties ==
  ASSUME selected \in Seq(Choice), Distinct(selected),
         NEW q, q = [k \in DOMAIN selected |-> [selected[k] EXCEPT !.item.past = TRUE]]
  PROVE  /\ q \in Seq(Choice) /\ Len(q) = Len(selected) /\ Distinct(q) /\ Items(q) = Past(Items(selected))
         /\ \A k \in 1..Len(selected) : q[k].on = selected[k].on /\ q[k].seen = selected[k].seen
  <1>1. Len(selected) \in Nat /\ DOMAIN selected = 1..Len(selected) /\ \A k \in 1..Len(selected) : selected[k] \in Choice
    BY LenProperties, ElementOfSeq
  <1>2. ASSUME NEW k \in 1..Len(selected)
        PROVE  /\ q[k] \in Choice /\ q[k].on = selected[k].on /\ q[k].seen = selected[k].seen
               /\ q[k].item = [selected[k].item EXCEPT !.past = TRUE]
               /\ q[k].item.cat = selected[k].item.cat
    <2>1. PICK c \in Choice : c = selected[k]
      BY <1>1
    <2>2. PICK it : it = [c.item EXCEPT !.past = TRUE]
      OBVIOUS
    <2>3. c.item \in Item /\ it \in Item /\ it.cat = c.item.cat
      BY <2>2 DEF Choice, Item
    <2>4. PICK d : d = [c EXCEPT !.item = it]
      OBVIOUS
    <2>5. q[k] = d
      BY <1>1, <2>1, <2>2, <2>4
    <2>6. d \in Choice /\ d.on = c.on /\ d.seen = c.seen /\ d.item = it
      BY <2>3, <2>4 DEF Choice
    <2> QED
      BY <2>1, <2>2, <2>3, <2>5, <2>6
  <1>3. q \in [1..Len(selected) -> Choice]
    BY <1>1, <1>2
  <1>4. q \in Seq(Choice) /\ Len(q) = Len(selected)
    BY <1>1, <1>3, SeqDef
  <1>5. Distinct(q)
    BY <1>2, <1>4 DEF Distinct, Same
  <1>6. Items(q) = Past(Items(selected))
    <2>1. PICK L : L = Items(selected)
      OBVIOUS
    <2>2. L \in Seq(Item) /\ Len(L) = Len(selected) /\ \A k \in 1..Len(selected) : L[k] = selected[k].item
      BY <2>1, ItemsProperties
    <2>3. PICK M : M = Past(L)
      OBVIOUS
    <2>4. /\ M \in Seq(Item) /\ Len(M) = Len(L)
          /\ \A k \in 1..Len(L) : M[k] = [L[k] EXCEPT !.past = TRUE]
      BY <2>2, <2>3, PastProperties
    <2>5. PICK N : N = Items(q)
      OBVIOUS
    <2>6. N \in Seq(Item) /\ Len(N) = Len(q) /\ \A k \in 1..Len(q) : N[k] = q[k].item
      BY <1>4, <2>5, ItemsProperties
    <2>7. ASSUME NEW k \in 1..Len(N) PROVE N[k] = M[k]
      <3>1. k \in 1..Len(selected) /\ k \in 1..Len(L) /\ k \in 1..Len(q)
        BY <1>4, <2>2, <2>6
      <3>2. M[k] = [L[k] EXCEPT !.past = TRUE] /\ L[k] = selected[k].item
        BY <2>2, <2>4, <3>1
      <3>3. N[k] = [selected[k].item EXCEPT !.past = TRUE]
        BY <1>2, <2>6, <3>1
      <3> QED
        BY <3>2, <3>3
    <2>8. Len(N) = Len(M)
      BY <1>4, <2>2, <2>4, <2>6
    <2>9. N = M
      BY <2>4, <2>6, <2>7, <2>8, SeqEqual
    <2> QED
      BY <2>1, <2>3, <2>5, <2>9
  <1> QED
    BY <1>2, <1>4, <1>5, <1>6

-----------------------------------------------------------------------------
(* The invariant.  An add screen that nothing covered is the visible one,  *)
(* and what is selected while it is visible was chosen there; while one    *)
(* stands that was opened in the session under way, everything selected    *)
(* was chosen in that session.                                             *)

Sits(u, st) == u.at > 0 => u.at <= Len(st) /\ st[u.at].page = u.kind

FineAt(u, q) == Fine(u, IF u.kept THEN u.own ELSE Items(q))

\* An add screen opened in the session under way.
OfThisSession(screen) == screen.page = "add" /\ ~screen.crossed

StackInv ==
  /\ stack \in Seq(Screen) /\ Len(stack) \in 1..MaxDepth
  /\ session \in Users \cup {Nobody}
  /\ \A i \in 1..Len(stack) : stack[i].page = "add" /\ ~stack[i].covered => i = Len(stack)

SelectionInv ==
  /\ selected \in Seq(Choice) /\ Len(selected) <= MaxChoices /\ Distinct(selected)
  /\ (\E i \in 1..Len(stack) : OfThisSession(stack[i])) => Fresh(Items(selected))
  /\ Top.page = "add" /\ ~Top.covered => Shown(selected, Len(stack))

LoopInv ==
  /\ loop \in [Loops -> Upload]
  /\ \A l \in Loops : Sits(loop[l], stack) /\ FineAt(loop[l], selected)

Inv == StackInv /\ SelectionInv /\ LoopInv

LEMMA Screens ==
  /\ Other \in Screen /\ Other.page = "other"
  /\ \A p \in {"select", "add", "other"} : Choosing(p) \in Screen /\ Choosing(p).page = p
  /\ Choosing("add").covered = FALSE /\ Choosing("add").crossed = FALSE
  BY DEF Other, Choosing, Screen

LEMMA InitInv == Init => Inv
  <1> SUFFICES ASSUME Init PROVE Inv
    OBVIOUS
  <1>1. StackInv
    <2>1. stack \in Seq(Screen) /\ Len(stack) = 1 /\ stack[1].page = "select"
      BY Screens DEF Init
    <2>2. 1 \in 1..MaxDepth
      BY InterestsAssumption
    <2> QED
      BY <2>1, <2>2 DEF Init, StackInv
  <1>2. SelectionInv
    <2>1. selected = <<>> /\ Len(selected) = 0 /\ selected \in Seq(Choice)
      BY EmptySeq DEF Init
    <2>2. Distinct(selected) /\ Fresh(Items(selected)) /\ \A top : Shown(selected, top)
      BY <2>1, NothingSelected
    <2> QED
      BY <2>1, <2>2, InterestsAssumption DEF SelectionInv
  <1>3. LoopInv
    <2>1. ASSUME NEW l \in Loops
          PROVE  loop[l] \in Upload /\ Sits(loop[l], stack) /\ FineAt(loop[l], selected)
      <3>1. loop[l] = Idle
        BY DEF Init
      <3> QED
        BY <3>1, IdleFine DEF Sits, FineAt
    <2>2. loop = [l \in Loops |-> loop[l]]
      BY DEF Init
    <2> QED
      BY <2>1, <2>2, Zenon DEF LoopInv
  <1> QED
    BY <1>1, <1>2, <1>3 DEF Inv

\* The top leaves, and perhaps another screen takes its place.
LEMMA LeavesInv ==
  ASSUME Inv, NEW ups \in [Loops -> Upload],
         \A l \in Loops : Sits(ups[l], stack) /\ FineAt(ups[l], selected),
         TopLeaves(ups), session' = session,
         NEW screen \in Screen, screen.page # "add",
         (stack' = Front(stack) /\ Len(stack) > 1) \/ stack' = Append(Front(stack), screen)
  PROVE  Inv'
  <1>1. /\ stack \in Seq(Screen) /\ Len(stack) \in 1..MaxDepth /\ Len(stack) \in Nat /\ stack # <<>>
        /\ \A i \in 1..Len(stack) : stack[i].page = "add" /\ ~stack[i].covered => i = Len(stack)
    BY InterestsAssumption, EmptySeq DEF Inv, StackInv
  <1>2. /\ Front(stack) \in Seq(Screen) /\ Len(Front(stack)) = Len(stack) - 1
        /\ \A k \in 1..Len(stack) - 1 : Front(stack)[k] = stack[k]
    BY <1>1, FrontProperties
  <1>3. /\ stack' \in Seq(Screen) /\ Len(stack') \in 1..MaxDepth /\ Len(stack') >= Len(stack) - 1
        /\ Len(stack') <= Len(stack)
        /\ \A k \in 1..Len(stack) - 1 : stack'[k] = stack[k]
        /\ \A k \in 1..Len(stack') : stack'[k].page = "add" => k \in 1..Len(stack) - 1
    <2>1. CASE stack' = Front(stack) /\ Len(stack) > 1
      BY <2>1, <1>1, <1>2, InterestsAssumption
    <2>2. CASE stack' = Append(Front(stack), screen)
      <3>1. /\ stack' \in Seq(Screen) /\ Len(stack') = Len(Front(stack)) + 1
            /\ \A k \in 1..Len(Front(stack)) : stack'[k] = Front(stack)[k]
            /\ stack'[Len(Front(stack)) + 1] = screen
        BY <2>2, <1>2, AppendProperties
      <3>2. Len(stack') = Len(stack) /\ stack'[Len(stack)] = screen
        BY <3>1, <1>1, <1>2
      <3>3. \A k \in 1..Len(stack) - 1 : stack'[k] = stack[k]
        BY <3>1, <1>2
      <3>4. \A k \in 1..Len(stack) : k = Len(stack) \/ k \in 1..Len(stack) - 1
        BY <1>1
      <3>5. \A k \in 1..Len(stack) : stack'[k].page = "add" => k \in 1..Len(stack) - 1
        BY <3>2, <3>4
      <3> QED
        BY <3>1, <3>2, <3>3, <3>5, <1>1
    <2> QED
      BY <2>1, <2>2
  <1>8. ASSUME NEW k \in 1..Len(stack'), stack'[k].page = "add"
        PROVE  k \in 1..Len(stack) /\ stack'[k] = stack[k] /\ stack'[k].covered
    BY <1>1, <1>3, <1>8
  <1>4. StackInv'
    BY <1>3, <1>8 DEF Inv, StackInv
  <1>5. /\ selected' \in Seq(Choice) /\ Len(selected') = Len(selected) /\ Distinct(selected')
        /\ Items(selected') = Items(selected)
    <2>1. PICK q : q = Gone(Len(stack), "left")
      OBVIOUS
    <2>2. q \in Seq(Choice) /\ Len(q) = Len(selected) /\ Items(q) = Items(selected) /\ Distinct(q)
      BY <2>1, GoneProperties DEF Inv, SelectionInv
    <2>3. selected' = q
      BY <2>1 DEF TopLeaves
    <2> QED
      BY <2>2, <2>3
  <1>6. SelectionInv'
    <2>1. Len(stack') \in 1..Len(stack')
      BY <1>3
    <2>2. (\E i \in 1..Len(stack') : OfThisSession(stack'[i])) => Fresh(Items(selected'))
      BY <1>5, <1>8 DEF Inv, SelectionInv, OfThisSession
    <2>3. ~(Top.page = "add" /\ ~Top.covered)'
      BY <2>1, <1>8 DEF Top
    <2> QED
      BY <2>2, <2>3, <1>5 DEF Inv, SelectionInv
  <1>7. LoopInv'
    <2>1. ASSUME NEW l \in Loops
          PROVE  loop'[l] \in Upload /\ Sits(loop'[l], stack') /\ FineAt(loop'[l], selected')
      <3>1. loop'[l] = IF ups[l].at = Len(stack) THEN [ups[l] EXCEPT !.at = 0, !.life = "exiting"] ELSE ups[l]
        BY DEF TopLeaves
      <3>2. PICK u \in Upload : u = ups[l]
        OBVIOUS
      <3>3. PICK L : L = IF u.kept THEN u.own ELSE Items(selected)
        OBVIOUS
      <3>4. PICK v : v = loop'[l]
        OBVIOUS
      <3>5. Sits(u, stack) /\ Fine(u, L)
        BY <3>2, <3>3 DEF FineAt
      <3>6. CASE u.at = Len(stack)
        <4>1. v = [u EXCEPT !.at = 0, !.life = "exiting"] 
          BY <3>1, <3>2, <3>4, <3>6
        <4>2. v \in Upload /\ v.at = 0 /\ v.kept = u.kept /\ v.own = u.own /\ Fine(v, L)
          BY <4>1, <3>5, LeavingFine
        <4> QED
          BY <4>2, <3>3, <3>4, <1>5 DEF Sits, FineAt
      <3>7. CASE u.at # Len(stack)
        <4>1. v = u
          BY <3>1, <3>2, <3>4, <3>7
        <4>2. u.at \in Nat
          BY InterestsAssumption, UploadFields
        <4>3. u.at > 0 => u.at \in 1..Len(stack) - 1 /\ u.at <= Len(stack') /\ stack[u.at].page = u.kind
          BY <4>2, <3>5, <3>7, <1>1, <1>3 DEF Sits
        <4>4. Sits(v, stack')
          BY <4>1, <4>3, <1>3 DEF Sits
        <4>5. FineAt(v, selected')
          BY <4>1, <3>3, <3>5, <1>5 DEF FineAt
        <4> QED
          BY <4>1, <4>4, <4>5, <3>4
      <3> QED
        BY <3>6, <3>7
    <2>2. loop' = [l \in Loops |-> loop'[l]]
      BY DEF TopLeaves
    <2> QED
      BY <2>1, <2>2, Zenon DEF LoopInv
  <1> QED
    BY <1>4, <1>6, <1>7 DEF Inv

\* A handler that does not run asks for nothing.
LEMMA IdleFits ==
  ASSUME NEW st, NEW q
  PROVE  Idle \in Upload /\ Sits(Idle, st) /\ FineAt(Idle, q)
  BY IdleFine DEF Sits, FineAt

\* The next choice is sent.
LEMMA SendsFine ==
  ASSUME selected \in Seq(Choice), NEW u \in Upload, FineAt(u, selected),
         u.sent < Len(ListOf(u)), NEW v, v = Sends(u)
  PROVE  v \in Upload /\ v.kind = u.kind /\ v.at = u.at /\ FineAt(v, selected)
  <1>1. PICK L : L = ListOf(u)
    OBVIOUS
  <1>2. PICK d : d = IF u.due = <<>> THEN u.due ELSE Tail(u.due)
    OBVIOUS
  <1>0. PICK n \in Nat : n = u.sent + 1
    BY UploadFields
  <1>5. Fine(u, L) /\ u.sent < Len(L)
    BY <1>1 DEF FineAt, ListOf
  <1>6. u.sent \in Nat /\ u.due \in Seq(Item) /\ Len(u.due) \in Nat
    BY UploadFields
  <1>7. L \in Seq(Item) /\ Len(L) \in Nat
    <2>1. L \in Seq(Item)
      BY <1>1, UploadFields, ItemsProperties DEF ListOf
    <2> QED
      BY <2>1
  <1>3. PICK f \in BOOLEAN : f = (~u.crossed /\ L[u.sent + 1].past)
    <2>1. L[u.sent + 1] \in Item
      BY <1>5, <1>6, <1>7, ElementOfSeq
    <2> QED
      BY <2>1 DEF Item
  <1>8. d \in Seq(Item) /\ (u.due = <<>> => Len(d) = 0)
        /\ (u.due # <<>> => Len(d) = Len(u.due) - 1 /\ \A i \in 1..Len(d) : d[i] = u.due[i + 1])
    BY <1>2, <1>6, EmptySeq, HeadTailProperties
  <1>4. v = [u EXCEPT !.sent = n, !.due = d, !.foreign = f]
    BY <1>0, <1>1, <1>2, <1>3 DEF Sends
  <1>9. /\ v \in Upload /\ v.kind = u.kind /\ v.at = u.at /\ v.kept = u.kept /\ v.own = u.own
        /\ v.sent = n /\ v.due = d /\ v.foreign = f
        /\ v.disturbed = u.disturbed /\ v.crossed = u.crossed
    BY <1>4, <1>8 DEF Upload
  <1>10. ASSUME Ahead(u, L), NEW i \in 1..Len(d)
         PROVE  v.sent + i <= Len(L) /\ d[i] = L[v.sent + i]
    <2>1. u.due # <<>> /\ i + 1 \in 1..Len(u.due) /\ i \in Nat
      BY <1>6, <1>8
    <2>2. u.sent + (i + 1) <= Len(L) /\ u.due[i + 1] = L[u.sent + (i + 1)]
      BY <1>10, <2>1 DEF Ahead
    <2>3. u.sent + (i + 1) = v.sent + i
      <3>1. v.sent = u.sent + 1 /\ u.sent \in Nat /\ i \in Nat
        BY <1>0, <1>6, <1>9, <2>1
      <3> QED
        BY <3>1
    <2> QED
      BY <2>1, <2>2, <2>3, <1>8
  <1>11. Ahead(u, L) => Ahead(v, L)
    BY <1>9, <1>10 DEF Ahead
  <1>12. u.kind = "add" => ~f
    <2>1. u.sent + 1 \in 1..Len(L)
      BY <1>5, <1>6, <1>7
    <2> QED
      BY <2>1, <1>3, <1>5 DEF Fine, Fresh
  <1>13. Fine(v, L)
    BY <1>5, <1>9, <1>11, <1>12 DEF Fine
  <1> QED
    BY <1>1, <1>9, <1>13 DEF FineAt, ListOf

\* One upload is another, the rest stays.
LEMMA OneLoop ==
  ASSUME LoopInv, NEW l \in Loops, NEW v \in Upload, Sits(v, stack), FineAt(v, selected),
         NEW ups, ups = [loop EXCEPT ![l] = v]
  PROVE  ups \in [Loops -> Upload] /\ \A m \in Loops : Sits(ups[m], stack) /\ FineAt(ups[m], selected)
  <1>1. ups \in [Loops -> Upload] /\ \A m \in Loops : ups[m] = IF m = l THEN v ELSE loop[m]
    BY DEF LoopInv
  <1> QED
    BY <1>1 DEF LoopInv

LEMMA OneLoopInv ==
  ASSUME Inv, NEW l \in Loops, NEW v \in Upload, Sits(v, stack), FineAt(v, selected),
         loop' = [loop EXCEPT ![l] = v], UNCHANGED <<stack, session, selected>>
  PROVE  Inv'
  <1>1. PICK ups : ups = loop'
    OBVIOUS
  <1>2. ups \in [Loops -> Upload] /\ \A m \in Loops : Sits(ups[m], stack) /\ FineAt(ups[m], selected)
    BY <1>1, OneLoop DEF Inv
  <1>3. LoopInv'
    BY <1>1, <1>2 DEF LoopInv
  <1> QED
    BY <1>3 DEF Inv, StackInv, SelectionInv, Top

-----------------------------------------------------------------------------
(* The steps of a Choose handler.                                          *)

LEMMA TapChooseInv ==
  ASSUME Inv, NEW l \in Loops, TapChoose(l)
  PROVE  Inv'
  <1>1. PICK top : top = stack[Len(stack)]
    OBVIOUS
  <1>2. /\ Len(stack) \in 1..Len(stack) /\ Len(stack) \in 0..MaxDepth
        /\ top.page \in {"select", "add"} /\ selected # <<>> /\ top.crossed \in BOOLEAN
    <2>1. stack \in Seq(Screen) /\ Len(stack) \in 1..MaxDepth /\ Len(stack) \in Nat
      BY InterestsAssumption DEF Inv, StackInv
    <2>2. Len(stack) \in 1..Len(stack) /\ Len(stack) \in 0..MaxDepth
      BY <2>1, InterestsAssumption
    <2>3. top \in Screen
      BY <1>1, <2>1, <2>2, ElementOfSeq
    <2> QED
      BY <1>1, <2>2, <2>3 DEF TapChoose, Top, Screen
  <1>3. PICK L : L = Items(selected)
    OBVIOUS
  <1>4. L \in Seq(Item) /\ Len(L) = Len(selected) /\ Len(selected) \in Nat \ {0}
        /\ \A k \in 1..Len(L) : L[k] = selected[k].item
    BY <1>2, <1>3, ItemsProperties, EmptySeq DEF Inv, SelectionInv
  <1>5. PICK b : b = [Idle EXCEPT !.kind = top.page, !.at = Len(stack), !.life = "shown",
                        !.length = IF top.page = "add" THEN Len(selected) ELSE 0, !.due = L,
                        !.crossed = top.crossed]
    OBVIOUS
  <1>6. /\ b \in Upload /\ b.kind = top.page /\ b.at = Len(stack) /\ b.sent = 0 /\ b.due = L
        /\ b.kept = FALSE /\ b.crossed = top.crossed /\ b.foreign = FALSE
    <2>1. <<>> \in Seq(Item) /\ (IF top.page = "add" THEN Len(selected) ELSE 0) \in Nat
      BY <1>4
    <2> QED
      BY <1>2, <1>4, <1>5, <2>1 DEF Idle, Upload
  <1>7. Fine(b, L)
    <2>1. Ahead(b, L)
      BY <1>4, <1>6 DEF Ahead
    <2>2. top.page = "add" /\ ~top.crossed => Fresh(L)
      BY <1>1, <1>2, <1>3 DEF Inv, SelectionInv, OfThisSession
    <2> QED
      BY <2>1, <2>2, <1>6 DEF Fine
  <1>8. FineAt(b, selected) /\ b.sent < Len(ListOf(b))
    BY <1>3, <1>4, <1>6, <1>7 DEF FineAt, ListOf
  <1>9. PICK v : v = Sends(b)
    OBVIOUS
  <1>10. v \in Upload /\ v.kind = b.kind /\ v.at = b.at /\ FineAt(v, selected)
    BY <1>6, <1>8, <1>9, SendsFine DEF Inv, SelectionInv
  <1>11. Sits(v, stack)
    BY <1>1, <1>2, <1>6, <1>10 DEF Sits
  <1>12. loop' = [loop EXCEPT ![l] = v] /\ UNCHANGED <<stack, session, selected>>
    BY <1>1, <1>3, <1>5, <1>9 DEF TapChoose, Top
  <1> QED
    BY <1>10, <1>11, <1>12, OneLoopInv

\* An upload under way sends its next choice.
LEMMA NextSendFits ==
  ASSUME Inv, NEW l \in Loops, More(loop[l]), NEW v, v = Sends(loop[l])
  PROVE  v \in Upload /\ Sits(v, stack) /\ FineAt(v, selected)
  <1>1. PICK u \in Upload : u = loop[l]
    BY DEF Inv, LoopInv
  <1>2. Sits(u, stack) /\ FineAt(u, selected) /\ u.sent < Len(ListOf(u)) /\ v = Sends(u)
    BY <1>1 DEF Inv, LoopInv, More
  <1>3. v \in Upload /\ v.kind = u.kind /\ v.at = u.at /\ FineAt(v, selected)
    BY <1>2, SendsFine DEF Inv, SelectionInv
  <1> QED
    BY <1>2, <1>3 DEF Sits

LEMMA AddNextInv ==
  ASSUME Inv, NEW l \in Loops, AddNext(l)
  PROVE  Inv'
  <1>1. PICK v : v = Sends(loop[l])
    OBVIOUS
  <1>2. v \in Upload /\ Sits(v, stack) /\ FineAt(v, selected)
    BY <1>1, NextSendFits DEF AddNext, MaySend
  <1> QED
    BY <1>1, <1>2, OneLoopInv DEF AddNext

LEMMA ThrewInv ==
  ASSUME Inv, NEW l \in Loops, Threw(l)
  PROVE  Inv'
  BY IdleFits, OneLoopInv DEF Threw

\* An upload ends, or goes on, and the visible screen is replaced.
LEMMA ReplacedInv ==
  ASSUME Inv, NEW l \in Loops, NEW v \in Upload, Sits(v, stack), FineAt(v, selected),
         ReplaceTop(Other, [loop EXCEPT ![l] = v]), session' = session
  PROVE  Inv'
  <1>1. PICK ups : ups = [loop EXCEPT ![l] = v]
    OBVIOUS
  <1>2. ups \in [Loops -> Upload] /\ \A m \in Loops : Sits(ups[m], stack) /\ FineAt(ups[m], selected)
    BY <1>1, OneLoop DEF Inv
  <1>3. TopLeaves(ups) /\ stack' = Append(Front(stack), Other)
    BY <1>1 DEF ReplaceTop
  <1> QED
    BY <1>2, <1>3, Screens, LeavesInv

LEMMA AddDoneInv ==
  ASSUME Inv, NEW l \in Loops, AddDone(l)
  PROVE  Inv'
  <1>1. CASE loop[l].life = "gone"
    BY <1>1, IdleFits, OneLoopInv DEF AddDone
  <1>2. CASE loop[l].life # "gone"
    BY <1>2, IdleFits, ReplacedInv DEF AddDone
  <1> QED
    BY <1>1, <1>2

LEMMA SelectNextInv ==
  ASSUME Inv, NEW l \in Loops, SelectNext(l)
  PROVE  Inv'
  <1>1. CASE loop[l].life = "gone"
    BY <1>1, IdleFits, OneLoopInv DEF SelectNext
  <1>2. CASE loop[l].life # "gone"
    <2>1. PICK v : v = IF MaySend(loop[l]) THEN Sends(loop[l]) ELSE Idle
      OBVIOUS
    <2>2. v \in Upload /\ Sits(v, stack) /\ FineAt(v, selected)
      BY <2>1, IdleFits, NextSendFits DEF MaySend
    <2>3. ReplaceTop(Other, [loop EXCEPT ![l] = v]) /\ session' = session
      BY <1>2, <2>1 DEF SelectNext
    <2> QED
      BY <2>2, <2>3, ReplacedInv
  <1> QED
    BY <1>1, <1>2

-----------------------------------------------------------------------------
(* Coming and going.                                                       *)

LEMMA BackInv ==
  ASSUME Inv, Back
  PROVE  Inv'
  <1>1. PICK ups : ups = loop
    OBVIOUS
  <1>2. /\ ups \in [Loops -> Upload] /\ \A l \in Loops : Sits(ups[l], stack) /\ FineAt(ups[l], selected)
        /\ TopLeaves(ups) /\ stack' = Front(stack) /\ Len(stack) > 1 /\ session' = session
    BY <1>1 DEF Inv, LoopInv, Back
  <1> QED
    BY <1>2, Screens, LeavesInv

\* A handler replaces what is visible, and no upload changes otherwise.
LEMMA ReplacesInv ==
  ASSUME Inv, NEW screen \in Screen, screen.page # "add", ReplaceTop(screen, loop), session' = session
  PROVE  Inv'
  <1>1. PICK ups : ups = loop
    OBVIOUS
  <1>2. /\ ups \in [Loops -> Upload] /\ \A l \in Loops : Sits(ups[l], stack) /\ FineAt(ups[l], selected)
        /\ TopLeaves(ups) /\ stack' = Append(Front(stack), screen)
    BY <1>1 DEF Inv, LoopInv, ReplaceTop
  <1> QED
    BY <1>2, LeavesInv

LEMMA ChooseNothingInv ==
  ASSUME Inv, ChooseNothing
  PROVE  Inv'
  BY Screens, ReplacesInv DEF ChooseNothing

LEMMA DisposeInv ==
  ASSUME Inv, Dispose
  PROVE  Inv'
  <1>1. ASSUME NEW l \in Loops
        PROVE  loop'[l] \in Upload /\ Sits(loop'[l], stack) /\ FineAt(loop'[l], selected)
    <2>1. PICK u \in Upload : u = loop[l]
      BY DEF Inv, LoopInv
    <2>2. PICK v : v = [u EXCEPT !.life = "gone"]
      OBVIOUS
    <2>3. Sits(u, stack) /\ FineAt(u, selected)
      BY <2>1 DEF Inv, LoopInv
    <2>4. v \in Upload /\ v.kind = u.kind /\ v.at = u.at /\ v.kept = u.kept /\ v.own = u.own /\ FineAt(v, selected)
      BY <2>2, <2>3, UnmountedFine DEF FineAt
    <2>5. loop'[l] = u \/ loop'[l] = v
      BY <2>1, <2>2 DEF Dispose
    <2> QED
      BY <2>3, <2>4, <2>5 DEF Sits
  <1>2. loop' = [l \in Loops |-> loop'[l]]
    BY DEF Dispose
  <1>3. loop' \in [Loops -> Upload]
    BY <1>1, <1>2, Zenon
  <1>4. UNCHANGED <<stack, session, selected>>
    BY DEF Dispose
  <1>5. LoopInv'
    BY <1>1, <1>3, <1>4 DEF LoopInv
  <1> QED
    BY <1>4, <1>5 DEF Inv, StackInv, SelectionInv, Top

\* A screen comes up over the visible one.
LEMMA PushedStack ==
  ASSUME StackInv, NEW screen \in Screen, Push(screen), NEW st, st = stack'
  PROVE  /\ st \in Seq(Screen) /\ Len(st) \in 1..MaxDepth /\ Len(st) = Len(stack) + 1 /\ st[Len(st)] = screen
         /\ \A i \in 1..Len(stack) : st[i].page = "add" => stack[i].page = "add" /\ st[i].covered
                                                           /\ st[i].crossed = stack[i].crossed
         /\ \A i \in 1..Len(st) : i = Len(st) \/ i \in 1..Len(stack)
         /\ \A u \in Upload : Sits(u, stack) => Sits(u, st)
  <1>1. /\ stack \in Seq(Screen) /\ Len(stack) \in Nat /\ Len(stack) >= 1 /\ Len(stack) \in 1..Len(stack)
        /\ \A i \in 1..Len(stack) : stack[i].page = "add" /\ ~stack[i].covered => i = Len(stack)
    BY InterestsAssumption DEF StackInv
  <1>2. PICK top \in Screen : top = stack[Len(stack)]
    BY <1>1, ElementOfSeq
  <1>3. PICK over : over = [top EXCEPT !.covered = (top.page = "add")]
    OBVIOUS
  <1>4. over \in Screen /\ over.page = top.page /\ over.crossed = top.crossed /\ (top.page = "add" => over.covered)
    BY <1>3 DEF Screen
  <1>5. PICK below : below = [stack EXCEPT ![Len(stack)] = over]
    OBVIOUS
  <1>6. /\ below \in Seq(Screen) /\ Len(below) = Len(stack)
        /\ \A i \in 1..Len(stack) : below[i] = IF i = Len(stack) THEN over ELSE stack[i]
    BY <1>1, <1>4, <1>5, ExceptSeq
  <1>7. st = Append(below, screen) /\ Len(stack) < MaxDepth
    BY <1>2, <1>3, <1>5 DEF Push, Top
  <1>8. /\ st \in Seq(Screen) /\ Len(st) = Len(stack) + 1 /\ st[Len(stack) + 1] = screen
        /\ \A i \in 1..Len(stack) : st[i] = below[i]
    BY <1>6, <1>7, AppendProperties
  <1>9. Len(st) \in 1..MaxDepth /\ \A i \in 1..Len(st) : i = Len(st) \/ i \in 1..Len(stack)
    BY <1>1, <1>7, <1>8, InterestsAssumption
  <1>10. ASSUME NEW i \in 1..Len(stack)
         PROVE  /\ st[i].page = stack[i].page /\ st[i].crossed = stack[i].crossed
                /\ st[i].page = "add" => st[i].covered
    BY <1>1, <1>2, <1>4, <1>6, <1>8
  <1>11. ASSUME NEW u \in Upload, Sits(u, stack)
         PROVE  Sits(u, st)
    <2>1. u.at \in Nat
      BY InterestsAssumption, UploadFields
    <2>2. u.at > 0 => u.at \in 1..Len(stack) /\ u.at <= Len(st) /\ stack[u.at].page = u.kind
      BY <2>1, <1>1, <1>8, <1>11 DEF Sits
    <2> QED
      BY <2>2, <1>10 DEF Sits
  <1> QED
    BY <1>8, <1>9, <1>10, <1>11

\* A screen other than the add screen comes up.
LEMMA PushesInv ==
  ASSUME Inv, NEW screen \in Screen, screen.page # "add", Push(screen), UNCHANGED <<session, selected, loop>>
  PROVE  Inv'
  <1>1. PICK st : st = stack'
    OBVIOUS
  <1>2. /\ st \in Seq(Screen) /\ Len(st) \in 1..MaxDepth /\ st[Len(st)] = screen
        /\ \A i \in 1..Len(stack) : st[i].page = "add" => stack[i].page = "add" /\ st[i].covered
                                                          /\ st[i].crossed = stack[i].crossed
        /\ \A i \in 1..Len(st) : i = Len(st) \/ i \in 1..Len(stack)
        /\ \A u \in Upload : Sits(u, stack) => Sits(u, st)
    BY <1>1, PushedStack DEF Inv
  <1>3. StackInv'
    BY <1>1, <1>2 DEF Inv, StackInv
  <1>4. (\E i \in 1..Len(st) : OfThisSession(st[i])) => \E i \in 1..Len(stack) : OfThisSession(stack[i])
    BY <1>2 DEF OfThisSession
  <1>5. SelectionInv'
    BY <1>1, <1>2, <1>4 DEF Inv, SelectionInv, Top
  <1>6. LoopInv'
    BY <1>1, <1>2 DEF Inv, LoopInv
  <1> QED
    BY <1>3, <1>5, <1>6 DEF Inv

LEMMA SkipInv ==
  ASSUME Inv, Skip
  PROVE  Inv'
  BY Screens, PushesInv DEF Skip

LEMMA ArriveInv ==
  ASSUME Inv, Arrive
  PROVE  Inv'
  <1>1. PICK screen \in {Other, Choosing("select")} :
          \/ Push(screen) /\ UNCHANGED <<selected, loop>>
          \/ ReplaceTop(screen, loop)
    BY DEF Arrive
  <1>2. screen \in Screen /\ screen.page # "add"
    BY Screens
  <1>3. session' = session
    BY DEF Arrive
  <1> QED
    BY <1>1, <1>2, <1>3, PushesInv, ReplacesInv

\* Somebody signs in or out: every add screen, and every upload under way, is of before.
LEMMA SessionInv ==
  ASSUME Inv, NEW s \in Users \cup {Nobody}, SessionBecomes(s)
  PROVE  Inv'
  <1>1. PICK st : st = stack'
    OBVIOUS
  <1>2. PICK q : q = selected'
    OBVIOUS
  <1>3. /\ stack \in Seq(Screen) /\ Len(stack) \in 1..MaxDepth /\ Len(stack) \in Nat /\ DOMAIN stack = 1..Len(stack)
        /\ Len(stack) \in 1..Len(stack)
    BY InterestsAssumption, LenProperties DEF Inv, StackInv
  <1>4. ASSUME NEW i \in 1..Len(stack)
        PROVE  /\ st[i] \in Screen /\ st[i].page = stack[i].page /\ st[i].covered = stack[i].covered
               /\ st[i].page = "add" => st[i].crossed
    <2>1. PICK sc \in Screen : sc = stack[i]
      BY <1>3, ElementOfSeq
    <2>2. st[i] = [sc EXCEPT !.crossed = (sc.page = "add")]
      BY <1>1, <1>3, <2>1 DEF SessionBecomes
    <2> QED
      BY <2>1, <2>2 DEF Screen
  <1>5. st \in Seq(Screen) /\ Len(st) = Len(stack)
    <2>1. DOMAIN st = 1..Len(stack) /\ st = [i \in 1..Len(stack) |-> st[i]]
      BY <1>1, <1>3 DEF SessionBecomes
    <2>2. st \in [1..Len(stack) -> Screen]
      BY <1>4, <2>1, Zenon
    <2> QED
      BY <2>2, <1>3, SeqDef
  <1>6. StackInv'
    <2>1. session' = s
      BY DEF SessionBecomes
    <2> QED
      BY <2>1, <1>1, <1>3, <1>4, <1>5 DEF Inv, StackInv
  <1>7. selected \in Seq(Choice) /\ Distinct(selected)
    BY DEF Inv, SelectionInv
  <1>8. /\ q \in Seq(Choice) /\ Len(q) = Len(selected) /\ Distinct(q) /\ Items(q) = Past(Items(selected))
        /\ \A k \in 1..Len(selected) : q[k].on = selected[k].on /\ q[k].seen = selected[k].seen
    BY <1>2, <1>7, MarkedProperties DEF SessionBecomes
  <1>9. SelectionInv'
    <2>1. ~\E i \in 1..Len(st) : OfThisSession(st[i])
      BY <1>4, <1>5 DEF OfThisSession
    <2>2. st[Len(st)].page = "add" /\ ~st[Len(st)].covered => Shown(q, Len(st))
      BY <1>3, <1>4, <1>5, <1>8 DEF Inv, SelectionInv, Shown, Top
    <2> QED
      BY <2>1, <2>2, <1>1, <1>2, <1>8 DEF Inv, SelectionInv, Top
  <1>10. ASSUME NEW l \in Loops
         PROVE  loop'[l] \in Upload /\ Sits(loop'[l], st) /\ FineAt(loop'[l], q)
    <2>1. PICK u \in Upload : u = loop[l]
      BY DEF Inv, LoopInv
    <2>2. Sits(u, stack) /\ FineAt(u, selected) /\ u.at \in Nat
      BY <2>1, InterestsAssumption, UploadFields DEF Inv, LoopInv
    <2>3. Sits(u, st)
      BY <2>2, <1>3, <1>4, <1>5 DEF Sits
    <2>4. CASE u.kind # "none"
      <3>1. PICK L : L = IF u.kept THEN u.own ELSE Items(selected)
        OBVIOUS
      <3>2. L \in Seq(Item) /\ Fine(u, L)
        BY <3>1, <2>2, <1>7, UploadFields, ItemsProperties DEF FineAt
      <3>3. PICK v : v = Crossed(u)
        OBVIOUS
      <3>4. /\ v \in Upload /\ v.kind = u.kind /\ v.at = u.at /\ v.kept = u.kept /\ v.own = Past(u.own)
            /\ Fine(v, Past(L))
        BY <3>2, <3>3, CrossedFine
      <3>5. FineAt(v, q)
        BY <3>1, <3>4, <1>8 DEF FineAt
      <3>6. loop'[l] = v
        BY <2>1, <2>4, <3>3 DEF SessionBecomes, Running
      <3> QED
        BY <3>4, <3>5, <3>6, <2>3 DEF Sits
    <2>5. CASE u.kind = "none"
      <3>1. loop'[l] = u
        BY <2>1, <2>5 DEF SessionBecomes, Running
      <3>2. FineAt(u, q)
        BY <2>5 DEF FineAt, Fine
      <3> QED
        BY <3>1, <3>2, <2>3
    <2> QED
      BY <2>4, <2>5
  <1>11. loop' = [l \in Loops |-> loop'[l]]
    BY DEF SessionBecomes
  <1>12. LoopInv'
    BY <1>1, <1>2, <1>10, <1>11, Zenon DEF LoopInv
  <1> QED
    BY <1>6, <1>9, <1>12 DEF Inv

LEMMA LogOutInv ==
  ASSUME Inv, LogOut
  PROVE  Inv'
  BY SessionInv DEF LogOut

LEMMA SignInInv ==
  ASSUME Inv, NEW s \in Users, SignIn(s)
  PROVE  Inv'
  BY SessionInv DEF SignIn

\* The controller gets another list: a for-in loop goes on over the one it has.
LEMMA LosesListFine ==
  ASSUME selected \in Seq(Choice), NEW u \in Upload, FineAt(u, selected), NEW q,
         NEW v, v = LosesList(u)
  PROVE  v \in Upload /\ v.kind = u.kind /\ v.at = u.at /\ FineAt(v, q)
  <1>1. CASE u.kind = "add" /\ ~u.kept
    <2>1. PICK L \in Seq(Item) : L = Items(selected)
      BY ItemsProperties
    <2>2. v = [u EXCEPT !.kept = TRUE, !.own = L] /\ Fine(u, L)
      BY <1>1, <2>1 DEF LosesList, FineAt
    <2>3. /\ v \in Upload /\ v.kind = u.kind /\ v.at = u.at /\ v.kept /\ v.own = L /\ v.sent = u.sent
          /\ v.due = u.due /\ v.disturbed = u.disturbed /\ v.crossed = u.crossed /\ v.foreign = u.foreign
      BY <2>2 DEF Upload
    <2>4. Fine(v, L)
      BY <2>2, <2>3 DEF Fine, Ahead
    <2> QED
      BY <2>3, <2>4 DEF FineAt
  <1>2. CASE ~(u.kind = "add" /\ ~u.kept) /\ u.kind = "select"
    <2>1. v = Disturbed(u)
      BY <1>2 DEF LosesList
    <2>2. v \in Upload /\ v.kind = u.kind /\ v.at = u.at /\ v.disturbed
      BY <2>1, DisturbedFine
    <2> QED
      BY <1>2, <2>2 DEF FineAt, Fine
  <1>3. CASE ~(u.kind = "add" /\ ~u.kept) /\ u.kind # "select"
    <2>1. v = u
      BY <1>3 DEF LosesList
    <2>2. u.kind = "none" \/ (u.kind = "add" /\ u.kept)
      BY <1>3, UploadFields
    <2> QED
      BY <2>1, <2>2 DEF FineAt, Fine
  <1> QED
    BY <1>1, <1>2, <1>3

LEMMA OpenAddInv ==
  ASSUME Inv, OpenAdd
  PROVE  Inv'
  <1>1. PICK st : st = stack'
    OBVIOUS
  <1>2. StackInv /\ Push(Choosing("add")) /\ Choosing("add") \in Screen
    BY Screens DEF Inv, OpenAdd
  <1>3. /\ st \in Seq(Screen) /\ Len(st) \in 1..MaxDepth
        /\ \A i \in 1..Len(st) : st[i].page = "add" /\ ~st[i].covered => i = Len(st)
        /\ \A u \in Upload : Sits(u, stack) => Sits(u, st)
    BY <1>1, <1>2, PushedStack
  <1>4. selected' = <<>> /\ session' = session /\ selected \in Seq(Choice)
    BY DEF OpenAdd, ResetList, Inv, SelectionInv
  <1>5. StackInv'
    BY <1>1, <1>3, <1>4 DEF Inv, StackInv
  <1>6. SelectionInv'
    <2>1. PICK q : q = selected'
      OBVIOUS
    <2>2. q \in Seq(Choice) /\ Len(q) = 0
      BY <2>1, <1>4, EmptySeq
    <2>3. Fresh(Items(q)) /\ Distinct(q) /\ \A top : Shown(q, top)
      BY <2>2, NothingSelected
    <2>4. Len(q) <= MaxChoices
      BY <2>2, InterestsAssumption
    <2> QED
      BY <2>1, <2>2, <2>3, <2>4, <1>1 DEF SelectionInv
  <1>7. ASSUME NEW l \in Loops
        PROVE  loop'[l] \in Upload /\ Sits(loop'[l], st) /\ FineAt(loop'[l], <<>>)
    <2>1. PICK u \in Upload : u = loop[l]
      BY DEF Inv, LoopInv
    <2>2. Sits(u, stack) /\ FineAt(u, selected) /\ Sits(u, st)
      BY <2>1, <1>3 DEF Inv, LoopInv
    <2>3. CASE selected = <<>>
      <3>1. loop'[l] = u
        BY <2>1, <2>3 DEF OpenAdd, ResetList
      <3> QED
        BY <3>1, <2>2, <2>3
    <2>4. CASE selected # <<>>
      <3>1. PICK v : v = LosesList(u)
        OBVIOUS
      <3>2. loop'[l] = v
        BY <2>1, <2>4, <3>1 DEF OpenAdd, ResetList
      <3>3. v \in Upload /\ v.kind = u.kind /\ v.at = u.at /\ FineAt(v, <<>>)
        BY <1>4, <2>2, <3>1, LosesListFine
      <3> QED
        BY <3>2, <3>3, <2>2 DEF Sits
    <2> QED
      BY <2>3, <2>4
  <1>8. loop' \in [Loops -> Upload]
    <2>1. loop' = loop \/ loop' = [l \in Loops |-> LosesList(loop[l])]
      BY DEF OpenAdd, ResetList
    <2>2. loop' = [l \in Loops |-> loop'[l]]
      BY <2>1 DEF Inv, LoopInv
    <2> QED
      BY <1>7, <2>2, Zenon
  <1>9. LoopInv'
    BY <1>1, <1>4, <1>7, <1>8 DEF LoopInv
  <1> QED
    BY <1>5, <1>6, <1>9 DEF Inv

-----------------------------------------------------------------------------
(* Answers and taps.                                                       *)

\* The visible add screen shows what is selected, whatever becomes of its list.
LEMMA FetchedInv ==
  ASSUME Inv, NEW i \in DOMAIN stack, NEW which \in {"init", "build"},
         NEW got \in {"ok", "refused", "failed"}, Fetched(i, which, got)
  PROVE  Inv'
  <1>1. /\ stack \in Seq(Screen) /\ Len(stack) \in 1..MaxDepth /\ Len(stack) \in Nat /\ i \in 1..Len(stack)
        /\ Len(stack) \in 1..Len(stack)
    BY InterestsAssumption DEF Inv, StackInv
  <1>2. PICK e \in Screen : /\ stack' = [stack EXCEPT ![i] = e] /\ e.page = stack[i].page
                           /\ e.covered = stack[i].covered /\ e.crossed = stack[i].crossed
    <2>1. PICK sc \in Screen : sc = stack[i]
      BY <1>1, ElementOfSeq
    <2>2. PICK listed \in BOOLEAN : listed = IF Replaces(sc.page, got) THEN got = "ok" ELSE sc.listed
      BY DEF Screen
    <2>3. PICK cards \in BOOLEAN : cards = (listed /\ (IF which = "init" THEN sc.cards ELSE got # "failed"))
      BY DEF Screen
    <2>4. PICK pending \in SUBSET {"init", "build"} : pending = sc.pending \ {which}
      BY DEF Screen
    <2>5. PICK e : e = [sc EXCEPT !.pending = pending, !.listed = listed, !.cards = cards]
      OBVIOUS
    <2>6. e \in Screen /\ e.page = sc.page /\ e.covered = sc.covered /\ e.crossed = sc.crossed
      BY <2>5 DEF Screen
    <2>7. stack' = [stack EXCEPT ![i] = e]
      BY <2>1, <2>2, <2>3, <2>4, <2>5 DEF Fetched
    <2> QED
      BY <2>1, <2>6, <2>7
  <1>3. /\ stack' \in Seq(Screen) /\ Len(stack') = Len(stack)
        /\ \A j \in 1..Len(stack) : /\ stack'[j].page = stack[j].page /\ stack'[j].covered = stack[j].covered
                                    /\ stack'[j].crossed = stack[j].crossed
    <2>1. /\ stack' \in Seq(Screen) /\ Len(stack') = Len(stack)
          /\ \A j \in 1..Len(stack) : stack'[j] = IF j = i THEN e ELSE stack[j]
      BY <1>1, <1>2, ExceptSeq
    <2> QED
      BY <2>1, <1>2
  <1>4. UNCHANGED <<session, loop>>
    BY DEF Fetched
  <1>5. StackInv'
    BY <1>3, <1>4 DEF Inv, StackInv
  <1>6. /\ selected' \in Seq(Choice) /\ Len(selected') = Len(selected) /\ Distinct(selected')
        /\ Items(selected') = Items(selected)
        /\ Shown(selected, Len(stack)) => Shown(selected', Len(stack))
    <2>1. PICK q : q = Gone(i, "replaced")
      OBVIOUS
    <2>2. /\ q \in Seq(Choice) /\ Len(q) = Len(selected) /\ Items(q) = Items(selected) /\ Distinct(q)
          /\ \A k \in 1..Len(selected) :
               /\ q[k].item = selected[k].item
               /\ selected[k].on = i => q[k].on = 0 /\ q[k].seen = "replaced"
               /\ selected[k].on # i => q[k] = selected[k]
      BY <2>1, GoneProperties DEF Inv, SelectionInv
    <2>3. CASE selected' = q
      BY <2>2, <2>3 DEF Shown
    <2>4. CASE selected' = selected
      BY <2>4 DEF Inv, SelectionInv
    <2> QED
      BY <2>1, <2>3, <2>4 DEF Fetched
  <1>7. SelectionInv'
    <2>1. (\E j \in 1..Len(stack') : OfThisSession(stack'[j])) => Fresh(Items(selected'))
      BY <1>3, <1>6 DEF Inv, SelectionInv, OfThisSession
    <2>2. (Top.page = "add" /\ ~Top.covered)' => Shown(selected', Len(stack'))
      BY <1>1, <1>3, <1>6 DEF Inv, SelectionInv, Top
    <2> QED
      BY <2>1, <2>2, <1>6 DEF Inv, SelectionInv
  <1>8. ASSUME NEW l \in Loops
        PROVE  Sits(loop[l], stack') /\ FineAt(loop[l], selected')
    <2>1. PICK u \in Upload : u = loop[l]
      BY DEF Inv, LoopInv
    <2>2. Sits(u, stack) /\ FineAt(u, selected) /\ u.at \in Nat
      BY <2>1, UploadFields, InterestsAssumption DEF Inv, LoopInv
    <2>3. Sits(u, stack')
      BY <2>2, <1>1, <1>3 DEF Sits
    <2>4. FineAt(u, selected')
      BY <2>2, <1>6 DEF FineAt
    <2> QED
      BY <2>1, <2>3, <2>4
  <1>9. LoopInv'
    BY <1>4, <1>8 DEF Inv, LoopInv
  <1> QED
    BY <1>5, <1>7, <1>9 DEF Inv

LEMMA ChooseInv ==
  ASSUME Inv, NEW c \in Categories, Choose(c)
  PROVE  Inv'
  <1>1. UNCHANGED <<stack, session, loop>> /\ Len(selected) < MaxChoices
    BY DEF Choose, Room
  <1>2. Len(stack) \in 0..MaxDepth
    BY InterestsAssumption DEF Inv, StackInv
  <1>3. PICK it \in Item : it = [cat |-> c, past |-> FALSE]
    BY DEF Item
  <1>4. PICK e : e = [item |-> it, on |-> Len(stack), seen |-> "card"]
    OBVIOUS
  <1>5. e \in Choice /\ e.item = it /\ ~it.past /\ it.cat = c /\ e.on = Len(stack)
    BY <1>2, <1>3, <1>4 DEF Choice
  <1>6. selected' = Append(selected, e)
    BY <1>3, <1>4 DEF Choose
  <1>7. /\ selected \in Seq(Choice) /\ Distinct(selected)
        /\ \A k \in 1..Len(selected) : ~(selected[k].item.cat = e.item.cat /\ selected[k].on = e.on)
    <2>1. selected \in Seq(Choice) /\ Distinct(selected)
      BY DEF Inv, SelectionInv
    <2>2. DOMAIN selected = 1..Len(selected)
      BY <2>1
    <2>3. \A k \in 1..Len(selected) : ~IsCard(selected[k], c)
      BY <2>2 DEF Choose
    <2> QED
      BY <2>1, <2>3, <1>5 DEF IsCard
  <1>8. PICK q : q = Append(selected, e)
    OBVIOUS
  <1>9. /\ q \in Seq(Choice) /\ Len(q) = Len(selected) + 1 /\ Distinct(q)
        /\ Items(q) = Append(Items(selected), it)
        /\ \A k \in 1..Len(q) : q[k] = e \/ (k \in 1..Len(selected) /\ q[k] = selected[k])
    BY <1>5, <1>7, <1>8, ChosenProperties
  <1>10. SelectionInv'
    <2>1. Len(q) <= MaxChoices
      BY <1>1, <1>7, <1>9, InterestsAssumption
    <2>2. Shown(selected, Len(stack)) => Shown(q, Len(stack))
      BY <1>5, <1>9 DEF Shown
    <2>3. PICK L \in Seq(Item) : L = Items(selected)
      BY <1>7, ItemsProperties
    <2>4. Fresh(L) => Fresh(Append(L, it))
      <3>1. /\ Len(L) \in Nat /\ Len(Append(L, it)) = Len(L) + 1 /\ Append(L, it)[Len(L) + 1] = it
            /\ \A k \in 1..Len(L) : Append(L, it)[k] = L[k]
        BY <2>3, AppendProperties
      <3> QED
        BY <3>1, <1>5 DEF Fresh
    <2> QED
      BY <2>1, <2>2, <2>3, <2>4, <1>1, <1>6, <1>8, <1>9 DEF Inv, SelectionInv, Top
  <1>11. ASSUME NEW l \in Loops
         PROVE  FineAt(loop[l], q)
    <2>1. PICK u \in Upload : u = loop[l]
      BY DEF Inv, LoopInv
    <2>2. FineAt(u, selected)
      BY <2>1 DEF Inv, LoopInv
    <2>3. PICK L \in Seq(Item) : L = Items(selected)
      BY <1>7, ItemsProperties
    <2>4. CASE u.kept
      BY <2>1, <2>2, <2>4 DEF FineAt
    <2>5. CASE ~u.kept
      <3>1. Fine(u, L)
        BY <2>2, <2>3, <2>5 DEF FineAt
      <3>2. Fine(u, Append(L, it))
        BY <3>1, <1>5, LongerFine
      <3> QED
        BY <3>2, <1>9, <2>1, <2>3, <2>5 DEF FineAt
    <2> QED
      BY <2>4, <2>5
  <1>12. LoopInv'
    BY <1>1, <1>6, <1>8, <1>11 DEF Inv, LoopInv
  <1>13. StackInv'
    BY <1>1 DEF Inv, StackInv
  <1> QED
    BY <1>10, <1>12, <1>13 DEF Inv

LEMMA UnchooseInv ==
  ASSUME Inv, NEW c \in Categories, NEW k \in DOMAIN selected, Unchoose(c, k)
  PROVE  Inv'
  <1>1. UNCHANGED <<stack, session>> /\ selected \in Seq(Choice) /\ Distinct(selected) /\ k \in 1..Len(selected)
    BY DEF Unchoose, Inv, SelectionInv
  <1>2. PICK q : q = RemoveAt(selected, k)
    OBVIOUS
  <1>3. /\ q \in Seq(Choice) /\ Len(q) = Len(selected) - 1 /\ Distinct(q)
        /\ Items(q) = RemoveAt(Items(selected), k)
        /\ \A m \in 1..Len(q) : \E j \in 1..Len(selected) : q[m] = selected[j]
    <2>1. PICK n \in 1..Len(selected) : n = k
      BY <1>1
    <2>2. q = RemoveAt(selected, n) /\ selected \in Seq(Choice) /\ Distinct(selected)
      BY <1>1, <1>2, <2>1
    <2>3. q \in Seq(Choice) /\ Len(q) = Len(selected) - 1 /\ Distinct(q) /\ Items(q) = RemoveAt(Items(selected), n)
      BY <2>2, UnchosenProperties
    <2>4. ASSUME NEW m \in 1..Len(q) PROVE \E j \in 1..Len(selected) : q[m] = selected[j]
      BY <2>2, RemoveAtSubset
    <2> QED
      BY <2>1, <2>3, <2>4
  <1>4. SelectionInv'
    <2>1. Len(q) <= MaxChoices
      BY <1>1, <1>3, InterestsAssumption DEF Inv, SelectionInv
    <2>2. Shown(selected, Len(stack)) => Shown(q, Len(stack))
      BY <1>3 DEF Shown
    <2>4. Fresh(Items(selected)) => Fresh(Items(q))
      <3>1. Items(selected) \in Seq(Item) /\ Items(q) \in Seq(Item) /\ Len(Items(q)) = Len(q) /\ Len(Items(selected)) = Len(selected)
            /\ (\A m \in 1..Len(q) : Items(q)[m] = q[m].item) /\ \A m \in 1..Len(selected) : Items(selected)[m] = selected[m].item
        BY <1>1, <1>3, ItemsProperties
      <3> QED
        BY <3>1, <1>3 DEF Fresh
    <2>3. selected' = q
      BY <1>2 DEF Unchoose
    <2> QED
      BY <2>1, <2>2, <2>3, <2>4, <1>1, <1>3 DEF Inv, SelectionInv, Top
  <1>5. PICK L \in Seq(Item) : L = Items(selected)
    BY <1>1, ItemsProperties
  <1>6. PICK M : M = RemoveAt(L, k)
    OBVIOUS
  <1>7. Items(q) = M /\ k \in 1..Len(L)
    BY <1>1, <1>3, <1>5, <1>6, ItemsProperties
  <1>8. ASSUME NEW l \in Loops
        PROVE  loop'[l] \in Upload /\ Sits(loop'[l], stack) /\ FineAt(loop'[l], q)
    <2>1. PICK u \in Upload : u = loop[l]
      BY DEF Inv, LoopInv
    <2>2. Sits(u, stack) /\ FineAt(u, selected)
      BY <2>1 DEF Inv, LoopInv
    <2>3. CASE u.kind # "none" /\ ~u.kept
      <3>1. PICK v : v = Spared(u, k)
        OBVIOUS
      <3>2. Fine(u, L)
        BY <1>5, <2>2, <2>3 DEF FineAt
      <3>3. v \in Upload /\ v.kind = u.kind /\ v.at = u.at /\ v.kept = u.kept /\ v.own = u.own /\ Fine(v, M)
        BY <3>1, <3>2, <1>6, <1>7, SparedFine
      <3>4. loop'[l] = v
        BY <2>1, <2>3, <3>1 DEF Unchoose, Running
      <3>5. Sits(v, stack)
        BY <3>3, <2>2 DEF Sits
      <3>6. FineAt(v, q)
        BY <3>3, <1>7, <2>3 DEF FineAt
      <3> QED
        BY <3>3, <3>4, <3>5, <3>6
    <2>4. CASE ~(u.kind # "none" /\ ~u.kept)
      <3>1. loop'[l] = u
        BY <2>1, <2>4 DEF Unchoose, Running
      <3>2. FineAt(u, q)
        BY <2>2, <2>4 DEF FineAt, Fine
      <3> QED
        BY <3>1, <3>2, <2>2
    <2> QED
      BY <2>3, <2>4
  <1>9. loop' \in [Loops -> Upload]
    <2>1. loop' = [l \in Loops |-> loop'[l]]
      BY DEF Unchoose
    <2> QED
      BY <1>8, <2>1, Zenon
  <1>10. LoopInv'
    <2>1. selected' = q
      BY <1>2 DEF Unchoose
    <2> QED
      BY <2>1, <1>1, <1>8, <1>9 DEF LoopInv
  <1>11. StackInv'
    BY <1>1 DEF Inv, StackInv
  <1> QED
    BY <1>4, <1>10, <1>11 DEF Inv

-----------------------------------------------------------------------------
(* Every step keeps the invariant.                                         *)

LEMMA StutterInv ==
  ASSUME Inv, UNCHANGED vars
  PROVE  Inv'
  BY DEF Inv, StackInv, SelectionInv, LoopInv, Top, vars

LEMMA NextInv == Inv /\ [Next]_vars => Inv'
  <1> SUFFICES ASSUME Inv, [Next]_vars PROVE Inv'
    OBVIOUS
  <1>1. ASSUME NEW s \in Users, SignIn(s) PROVE Inv'
    BY <1>1, SignInInv
  <1>2. ASSUME NEW i \in DOMAIN stack, NEW which \in {"init", "build"},
               NEW got \in {"ok", "refused", "failed"}, Fetched(i, which, got)
        PROVE  Inv'
    BY <1>2, FetchedInv
  <1>3. ASSUME NEW c \in Categories, Choose(c) PROVE Inv'
    BY <1>3, ChooseInv
  <1>4. ASSUME NEW c \in Categories, NEW k \in DOMAIN selected, Unchoose(c, k) PROVE Inv'
    BY <1>4, UnchooseInv
  <1>5. ASSUME NEW l \in Loops, TapChoose(l) \/ Threw(l) \/ AddNext(l) \/ AddDone(l) \/ SelectNext(l)
        PROVE  Inv'
    BY <1>5, TapChooseInv, ThrewInv, AddNextInv, AddDoneInv, SelectNextInv
  <1>6. CASE Back \/ Dispose \/ Skip \/ LogOut \/ Arrive \/ OpenAdd \/ ChooseNothing
    BY <1>6, BackInv, DisposeInv, SkipInv, LogOutInv, ArriveInv, OpenAddInv, ChooseNothingInv
  <1>7. CASE UNCHANGED vars
    BY <1>7, StutterInv
  <1> QED
    BY <1>1, <1>2, <1>3, <1>4, <1>5, <1>6, <1>7, Zenon DEF Next

LEMMA InterestsInvariant == Spec => []Inv
  BY InitInv, NextInv, PTL DEF Spec

-----------------------------------------------------------------------------
(* What the screens promise.                                               *)

\* What lies ahead is a prefix of the rest of the list.
LEMMA AheadPrefix ==
  ASSUME NEW u \in Upload, NEW L \in Seq(Item), Ahead(u, L)
  PROVE  IsPrefix(u.due, SubSeq(L, u.sent + 1, Len(L)))
  <1>1. PICK d \in Seq(Item) : d = u.due
    BY UploadFields
  <1>2. PICK n \in Nat : n = u.sent
    BY UploadFields
  <1>3. PICK t : t = SubSeq(L, n + 1, Len(L))
    OBVIOUS
  <1>4. Len(d) \in Nat /\ Len(L) \in Nat /\ n + 1 \in Int /\ Len(L) \in Int
    BY <1>1, <1>2
  <1>5. \A i \in n + 1..Len(L) : L[i] \in Item
    <2>1. \A i \in n + 1..Len(L) : i \in 1..Len(L)
      BY <1>4
    <2> QED
      BY <2>1, ElementOfSeq
  <1>6. /\ t \in Seq(Item) /\ Len(t) = IF n + 1 <= Len(L) THEN Len(L) - (n + 1) + 1 ELSE 0
        /\ \A i \in 1..Len(L) - (n + 1) + 1 : t[i] = L[n + 1 + i - 1]
    BY <1>3, <1>4, <1>5, SubSeqProperties
  <1>7. CASE Len(d) = 0
    <2>1. SubSeq(d, 1, 0) = <<>> /\ SubSeq(t, 1, 0) = <<>>
      BY SubSeqEmpty
    <2>2. Len(t) \in Nat
      BY <1>6
    <2> QED
      BY <1>1, <1>2, <1>3, <1>7, <2>1, <2>2 DEF IsPrefix
  <1>8. CASE Len(d) # 0
    <2>1. \A i \in 1..Len(d) : n + i <= Len(L) /\ d[i] = L[n + i]
      BY <1>1, <1>2 DEF Ahead
    <2>2. Len(d) \in 1..Len(d) /\ n + Len(d) <= Len(L)
      BY <1>4, <1>8, <2>1
    <2>3. Len(t) = Len(L) - n /\ Len(d) <= Len(t)
      BY <1>4, <1>6, <1>8, <2>2
    <2>4. ASSUME NEW i \in 1..Len(d) PROVE t[i] = d[i]
      <3>1. i \in 1..Len(L) - (n + 1) + 1 /\ n + 1 + i - 1 = n + i
        BY <1>4, <2>2
      <3> QED
        BY <3>1, <1>6, <2>1
    <2>5. PICK p : p = SubSeq(t, 1, Len(d))
      OBVIOUS
    <2>6. p \in Seq(Item) /\ Len(p) = Len(d) /\ \A i \in 1..Len(d) : p[i] = t[i]
      <3>1. \A i \in 1..Len(d) : t[i] \in Item
        BY <2>4, ElementOfSeq
      <3>2. /\ p \in Seq(Item) /\ Len(p) = IF 1 <= Len(d) THEN Len(d) - 1 + 1 ELSE 0
            /\ \A i \in 1..Len(d) - 1 + 1 : p[i] = t[1 + i - 1]
        BY <2>5, <3>1, <1>4, SubSeqProperties
      <3> QED
        BY <3>2, <1>4, <1>8
    <2>7. p = d
      BY <2>4, <2>6, SeqEqual
    <2>8. SubSeq(d, 1, Len(d)) = d
      BY SubSeqFull
    <2> QED
      BY <1>1, <1>2, <1>3, <2>3, <2>5, <2>7, <2>8 DEF IsPrefix
  <1> QED
    BY <1>7, <1>8

\* Every variable is of its type, no object is selected twice, and an upload under way
\* belongs to a screen of its kind (select_intrest_screen.dart, add_prefences_screen.dart).
THEOREM InterestsTypeCorrect == Spec => []TypeOK
  <1>1. Inv => TypeOK
    <2> SUFFICES ASSUME Inv PROVE TypeOK
      OBVIOUS
    <2>1. DOMAIN selected = 1..Len(selected)
      BY DEF Inv, SelectionInv
    <2>2. \A j, k \in DOMAIN selected :
            selected[j].item.cat = selected[k].item.cat /\ selected[j].on = selected[k].on /\ selected[j].on > 0 => j = k
      BY <2>1 DEF Inv, SelectionInv, Distinct, Same
    <2> QED
      BY <2>2 DEF Inv, StackInv, SelectionInv, LoopInv, Sits, TypeOK
  <1> QED
    BY <1>1, InterestsInvariant, PTL

\* What an upload still has to send lies ahead of it in the list that its loop goes over,
\* unless something it had sent was untapped meanwhile (add_prefences_screen.dart:131,
\* select_intrest_screen.dart:137).
THEOREM ChosenAreSent == Spec => []DueAhead
  <1>1. Inv => DueAhead
    <2> SUFFICES ASSUME Inv, NEW l \in Loops, Running(l), ~loop[l].disturbed
                 PROVE  LET u == loop[l] IN IsPrefix(u.due, SubSeq(ListOf(u), u.sent + 1, Len(ListOf(u))))
      BY DEF DueAhead
    <2>1. PICK u \in Upload : u = loop[l]
      BY DEF Inv, LoopInv
    <2>2. PICK L : L = ListOf(u)
      OBVIOUS
    <2>3. L \in Seq(Item)
      BY <2>2, UploadFields, ItemsProperties DEF ListOf, Inv, SelectionInv
    <2>4. Ahead(u, L)
      <3>1. Fine(u, L)
        BY <2>1, <2>2 DEF Inv, LoopInv, FineAt, ListOf
      <3> QED
        BY <3>1, <2>1 DEF Fine, Running
    <2>5. IsPrefix(u.due, SubSeq(L, u.sent + 1, Len(L)))
      BY <2>3, <2>4, AheadPrefix
    <2> QED
      BY <2>1, <2>2, <2>5, Zenon
  <1> QED
    BY <1>1, InterestsInvariant, PTL

\* The add screen files a category under the account that chose it
\* (add_prefences_screen.dart:135), unless the user changed after the screen was opened.
THEOREM FiledUnderTheirOwner == Spec => []UploadsOwn
  <1>1. Inv => UploadsOwn
    BY DEF Inv, LoopInv, FineAt, Fine, UploadsOwn
  <1> QED
    BY <1>1, InterestsInvariant, PTL

\* On the add screen what is selected is what its cards show, or showed before a later
\* answer replaced its list (add_prefences_screen.dart:27 and 72), unless another screen
\* was pushed over it.
THEOREM ChooseSendsTheCards == Spec => []AddShowsChoices
  <1>1. Inv => AddShowsChoices
    <2>1. Inv => DOMAIN selected = 1..Len(selected)
      BY DEF Inv, SelectionInv
    <2> QED
      BY <2>1 DEF Inv, SelectionInv, Shown, AddShowsChoices
  <1> QED
    BY <1>1, InterestsInvariant, PTL
=============================================================================
