--------------------------- MODULE PreferencesProofs ---------------------------
(***************************************************************************)
(* Proofs about Preferences.                                               *)
(*                                                                         *)
(* The invariant has two halves. Hits, for a network that keeps the order  *)
(* of calls: the list a grid was built with agrees with the controller's   *)
(* and with every answer still on its way up to the next removal. Truth,   *)
(* for any network: a screen that has missed nothing shows what the        *)
(* backend holds, and its cards are drawn from a list that is the same; or *)
(* an accepted removal has still to arrive, which makes every grid wait    *)
(* again. In order no list that arrives later changes that (Current).      *)
(* First what the handlers do to the queue of calls and to the Navigator,  *)
(* then each action, then the invariant.                                   *)
(***************************************************************************)
EXTENDS Preferences, QueueLemmas, FiniteSetTheorems

-----------------------------------------------------------------------------
(* The queue and the Navigator.                                            *)

\* The calls that FutureBuilders listen to, and where; no two listen at one place.
Builds(q) == {k \in 1..Len(q) : q[k].kind = "build"}
Heard(q)  == {q[k].at : k \in Builds(q)}
Single(q) == \A j, k \in Builds(q) : q[j].at = q[k].at => j = k
Queue(q)  == q \in Seq(Call) /\ Single(q)

Standing(scr)  == scr \in Seq(Screen) /\ Len(scr) \in 1..MaxDepth
Expecting(scr) == {i \in Managing(scr) : scr[i].view = "waiting"}

Data == /\ prefs \in Seq(Categories) /\ IsInjective(prefs)
        /\ list \in Seq(Categories)
        /\ registered \in BOOLEAN /\ inOrder \in BOOLEAN
        /\ taps \in 0..MaxTaps /\ failures \in 0..MaxFailures

\* TypeOK, said of the queue and the Navigator as wholes: the FutureBuilders that listen
\* are those of the manage screens that wait.
LEMMA TypeParts ==
  TypeOK <=> /\ Standing(stack) /\ Queue(net) /\ Len(net) <= MaxCalls[inOrder]
             /\ Heard(net) = Expecting(stack) /\ Data
  <1>1. ASSUME net \in Seq(Call)
        PROVE  (Heard(net) = Expecting(stack) /\ Single(net)) <=>
               /\ \A n \in DOMAIN net : net[n].kind = "build" =>
                    net[n].at \in Managing(stack) /\ stack[net[n].at].view = "waiting"
               /\ \A i \in Managing(stack) : stack[i].view = "waiting" =>
                    \E n \in DOMAIN net : net[n].kind = "build" /\ net[n].at = i
               /\ \A n, m \in DOMAIN net : net[n].kind = "build" /\ net[m].kind = "build"
                    /\ net[n].at = net[m].at => n = m
    <2>1. DOMAIN net = 1..Len(net)
      BY <1>1
    <2> QED
      BY <2>1 DEF Heard, Single, Builds, Expecting
  <1> QED
    BY <1>1 DEF TypeOK, Standing, Queue, Data

\* What is known of one call.
LEMMA CallFields ==
  ASSUME NEW q, q \in Seq(Call)
  PROVE  /\ Len(q) \in Nat /\ DOMAIN q = 1..Len(q)
         /\ \A k \in 1..Len(q) : q[k] \in Call
         /\ \A k \in 1..Len(q) : /\ q[k].kind \in {"fetch", "build", "delete", "add"}
                                 /\ q[k].got \in {"nothing", "ok", "refused", "failed"}
                                 /\ q[k].answer \in Seq(Categories)
                                 /\ q[k].rest \in Seq(Categories)
                                 /\ q[k].of \in Categories \cup {NoCategory}
                                 /\ q[k].at \in 0..MaxDepth
  <1>1. Len(q) \in Nat /\ DOMAIN q = 1..Len(q) /\ \A k \in 1..Len(q) : q[k] \in Call
    OBVIOUS
  <1>2. ASSUME NEW c \in Call
        PROVE  /\ c.kind \in {"fetch", "build", "delete", "add"}
               /\ c.got \in {"nothing", "ok", "refused", "failed"}
               /\ c.answer \in Seq(Categories) /\ c.rest \in Seq(Categories)
               /\ c.of \in Categories \cup {NoCategory} /\ c.at \in 0..MaxDepth
    BY DEF Call
  <1> QED
    BY <1>1, <1>2

\* What is known of one screen.
LEMMA ScreenFields ==
  ASSUME NEW scr, Standing(scr)
  PROVE  /\ Len(scr) \in Nat \ {0} /\ DOMAIN scr = 1..Len(scr) /\ Len(scr) <= MaxDepth
         /\ \A i \in 1..Len(scr) : scr[i] \in Screen
         /\ \A i \in 1..Len(scr) : /\ scr[i].page \in {"home", "manage", "add"}
                                   /\ scr[i].view \in {"waiting", "grid", "error"}
                                   /\ scr[i].drawn \in Seq(Categories \cup {NoCategory})
                                   /\ scr[i].missed \in SUBSET {"delete", "add", "list"}
         /\ Managing(scr) \subseteq 1..Len(scr)
  <1>1. /\ Len(scr) \in Nat \ {0} /\ DOMAIN scr = 1..Len(scr) /\ Len(scr) <= MaxDepth
        /\ \A i \in 1..Len(scr) : scr[i] \in Screen
    BY PreferencesAssumption DEF Standing
  <1>2. ASSUME NEW c \in Screen
        PROVE  /\ c.page \in {"home", "manage", "add"} /\ c.view \in {"waiting", "grid", "error"}
               /\ c.drawn \in Seq(Categories \cup {NoCategory}) /\ c.missed \in SUBSET {"delete", "add", "list"}
    BY DEF Screen
  <1> QED
    BY <1>1, <1>2 DEF Managing

-----------------------------------------------------------------------------
(* How the handlers change the queue.                                      *)

\* An upload names a category and, in order, a deletion the category of its card.
Honest(c) ==
  /\ c.kind = "add" => c.of \in Categories
  /\ inOrder /\ c.kind = "delete" /\ c.card # NoCategory => c.of = c.card

\* The same call, to which perhaps nobody listens any more.
Alike(c, d) ==
  /\ d.of = c.of /\ d.card = c.card /\ d.got = c.got /\ d.answer = c.answer
  /\ (d.kind = c.kind /\ d.at = c.at) \/ (c.kind = "build" /\ d.kind = "fetch")

\* Where call j is once call g has left the queue; g is 0 when none has.
Place(g, j) == IF g = 0 \/ j < g THEN j ELSE j - 1

\* The calls of q without g, in their order, and new ones that are not served.
Carried(q, r, g) ==
  /\ g \in 0..Len(q)
  /\ \A j \in 1..Len(q) : j # g => Place(g, j) \in 1..Len(r) /\ Alike(q[j], r[Place(g, j)])
  /\ \A k \in 1..Len(r) : \/ \E j \in 1..Len(q) : j # g /\ k = Place(g, j)
                          \/ r[k].got = "nothing" /\ Honest(r[k])

\* A call may change hands more than once in a handler.
LEMMA AlikeTransitive ==
  ASSUME NEW c, NEW d, NEW e, Alike(c, d), Alike(d, e)
  PROVE  Alike(c, e)
  BY DEF Alike

\* A handler that removes a call and then adds others.
LEMMA CarriedLater ==
  ASSUME NEW q \in Seq(Call), NEW r \in Seq(Call), NEW t \in Seq(Call), NEW g,
         Carried(q, r, g), Carried(r, t, 0)
  PROVE  Carried(q, t, g)
  <1>1. /\ Len(q) \in Nat /\ Len(r) \in Nat /\ Len(t) \in Nat /\ g \in 0..Len(q)
        /\ \A j \in 1..Len(r) : j \in 1..Len(t) /\ Alike(r[j], t[j])
        /\ \A k \in 1..Len(t) : k \in 1..Len(r) \/ (t[k].got = "nothing" /\ Honest(t[k]))
    BY DEF Carried, Place
  <1>2. ASSUME NEW j \in 1..Len(q), j # g
        PROVE  Place(g, j) \in 1..Len(t) /\ Alike(q[j], t[Place(g, j)])
    <2>1. PICK k : k = Place(g, j)
      OBVIOUS
    <2>2. k \in 1..Len(r) /\ Alike(q[j], r[k])
      BY <1>2, <2>1 DEF Carried
    <2>3. k \in 1..Len(t) /\ Alike(r[k], t[k])
      BY <1>1, <2>2
    <2> QED
      BY <2>1, <2>2, <2>3, AlikeTransitive
  <1>3. ASSUME NEW k \in 1..Len(t), ~(t[k].got = "nothing" /\ Honest(t[k]))
        PROVE  \E j \in 1..Len(q) : j # g /\ k = Place(g, j)
    <2>1. k \in 1..Len(r) /\ Alike(r[k], t[k])
      BY <1>1, <1>3
    <2>2. ~(r[k].got = "nothing" /\ Honest(r[k]))
      BY <2>1, <1>3 DEF Alike, Honest
    <2> QED
      BY <2>1, <2>2 DEF Carried
  <1> QED
    BY <1>1, <1>2, <1>3 DEF Carried

\* A handler that restyles the calls and then removes one.
LEMMA CarriedBefore ==
  ASSUME NEW q \in Seq(Call), NEW r \in Seq(Call), NEW t \in Seq(Call), NEW g \in 0..Len(q),
         Carried(q, r, 0), Carried(r, t, g)
  PROVE  Carried(q, t, g)
  <1>1. /\ Len(q) \in Nat /\ Len(r) \in Nat /\ Len(t) \in Nat /\ g \in 0..Len(r)
        /\ \A j \in 1..Len(q) : j \in 1..Len(r) /\ Alike(q[j], r[j])
        /\ \A k \in 1..Len(r) : k \in 1..Len(q) \/ (r[k].got = "nothing" /\ Honest(r[k]))
    BY DEF Carried, Place
  <1>2. ASSUME NEW j \in 1..Len(q), j # g
        PROVE  Place(g, j) \in 1..Len(t) /\ Alike(q[j], t[Place(g, j)])
    <2>1. PICK k : k = Place(g, j)
      OBVIOUS
    <2>2. j \in 1..Len(r) /\ Alike(q[j], r[j])
      BY <1>1
    <2>3. k \in 1..Len(t) /\ Alike(r[j], t[k])
      BY <1>2, <2>1, <2>2 DEF Carried
    <2> QED
      BY <2>1, <2>2, <2>3, AlikeTransitive
  <1>3. ASSUME NEW k \in 1..Len(t), ~(t[k].got = "nothing" /\ Honest(t[k]))
        PROVE  \E j \in 1..Len(q) : j # g /\ k = Place(g, j)
    <2>1. PICK j \in 1..Len(r) : j # g /\ k = Place(g, j)
      BY <1>3 DEF Carried
    <2>2. Alike(r[j], t[k])
      BY <2>1 DEF Carried
    <2>3. ~(r[j].got = "nothing" /\ Honest(r[j]))
      BY <2>2, <1>3 DEF Alike, Honest
    <2> QED
      BY <1>1, <2>1, <2>3
  <1> QED
    BY <1>1, <1>2, <1>3 DEF Carried

\* Calls that stay where they are, some of them heard no more.
LEMMA RestyledCalls ==
  ASSUME NEW q, Queue(q), NEW r, r \in [1..Len(q) -> Call], \A k \in 1..Len(q) : Alike(q[k], r[k])
  PROVE  /\ Queue(r) /\ Len(r) = Len(q) /\ Carried(q, r, 0)
         /\ Builds(r) \subseteq Builds(q) /\ \A k \in Builds(r) : r[k].at = q[k].at
  <1>1. Len(q) \in Nat
    BY DEF Queue
  <1>2. r \in Seq(Call) /\ Len(r) = Len(q)
    BY <1>1, SeqDef
  <1>3. \A k \in Builds(r) : k \in Builds(q) /\ r[k].at = q[k].at
    BY <1>2 DEF Builds, Alike
  <1>4. Single(r)
    BY <1>3 DEF Queue, Single
  <1>5. Carried(q, r, 0)
    BY <1>1, <1>2 DEF Carried, Place
  <1> QED
    BY <1>2, <1>3, <1>4, <1>5 DEF Queue

\* A call that is heard no more is the controller's own.
LEMMA UnheardCall ==
  ASSUME NEW c \in Call
  PROVE  Unheard(c) \in Call /\ Unheard(c).kind = "fetch" /\ (c.kind = "build" => Alike(c, Unheard(c)))
  <1>1. PICK N : N = 0..MaxDepth /\ 0 \in N
    BY PreferencesAssumption
  <1>2. Call = [kind : {"fetch", "build", "delete", "add"}, at : N,
                of : Categories \cup {NoCategory}, card : Categories \cup {NoCategory},
                rest : Seq(Categories), life : {"shown", "exiting", "gone"},
                got : {"nothing", "ok", "refused", "failed"}, answer : Seq(Categories)]
    BY <1>1 DEF Call
  <1>3. PICK d : d = [c EXCEPT !.kind = "fetch", !.at = 0]
    OBVIOUS
  <1>4. /\ d \in Call /\ d.kind = "fetch" /\ d.of = c.of /\ d.card = c.card
        /\ d.got = c.got /\ d.answer = c.answer
    BY <1>1, <1>2, <1>3
  <1> QED
    BY <1>3, <1>4 DEF Unheard, Alike

\* An upload whose screen leaves is the same upload.
LEMMA LivedCall ==
  ASSUME NEW c \in Call, NEW l \in {"shown", "exiting", "gone"}, NEW d, d = [c EXCEPT !.life = l]
  PROVE  d \in Call /\ Alike(c, d) /\ d.kind = c.kind
  BY DEF Call, Alike

\* A new call is of its type, unserved, and under no card.
LEMMA SentCall ==
  ASSUME NEW kind \in {"fetch", "build", "delete", "add"}
  PROVE  /\ Sent(kind) \in Call /\ Sent(kind).kind = kind /\ Sent(kind).got = "nothing"
         /\ Sent(kind).card = NoCategory
  <1>1. <<>> \in Seq(Categories) /\ 0 \in 0..MaxDepth
    BY EmptySeq, PreferencesAssumption
  <1> QED
    BY <1>1 DEF Sent, Call

\* What a screen that leaves the top leaves of the queue.
LEMMA OrphanedCalls ==
  ASSUME Standing(stack), NEW q, Queue(q), NEW r, r = Orphaned(q)
  PROVE  Queue(r) /\ Len(r) = Len(q) /\ Carried(q, r, 0) /\ Heard(r) = Heard(q) \ {Len(stack)}
  <1>1. Len(q) \in Nat /\ DOMAIN q = 1..Len(q) /\ \A k \in 1..Len(q) : q[k] \in Call
    BY CallFields DEF Queue
  <1>2. ASSUME NEW k \in 1..Len(q)
        PROVE  /\ r[k] \in Call /\ Alike(q[k], r[k])
               /\ q[k].kind = "build" => r[k].kind = IF q[k].at = Len(stack) THEN "fetch" ELSE "build"
    <2>1. PICK c : c = q[k] /\ c \in Call
      BY <1>1
    <2>2. CASE c.kind = "build" /\ c.at = Len(stack)
      <3>1. r[k] = Unheard(c)
        BY <2>1, <2>2, <1>1 DEF Orphaned
      <3> QED
        BY <2>1, <2>2, <3>1, UnheardCall
    <2>3. CASE c.kind = "add" /\ c.life = "shown" /\ Top.page = "add"
      <3>1. r[k] = [c EXCEPT !.life = "exiting"]
        BY <2>1, <2>3, <1>1 DEF Orphaned
      <3> QED
        BY <2>1, <2>3, <3>1, LivedCall
    <2>4. CASE ~(c.kind = "build" /\ c.at = Len(stack)) /\ ~(c.kind = "add" /\ c.life = "shown" /\ Top.page = "add")
      <3>1. r[k] = c
        BY <2>1, <2>4, <1>1 DEF Orphaned
      <3> QED
        BY <2>1, <2>4, <3>1 DEF Alike
    <2> QED
      BY <2>2, <2>3, <2>4
  <1>3. r \in [1..Len(q) -> Call]
    BY <1>1, <1>2 DEF Orphaned
  <1>4. /\ Queue(r) /\ Len(r) = Len(q) /\ Carried(q, r, 0)
        /\ Builds(r) \subseteq Builds(q) /\ \A k \in Builds(r) : r[k].at = q[k].at
    BY <1>2, <1>3, RestyledCalls
  <1>5. \A k \in 1..Len(q) : k \in Builds(r) <=> k \in Builds(q) /\ q[k].at # Len(stack)
    BY <1>2, <1>4 DEF Builds
  <1>6. Heard(r) = Heard(q) \ {Len(stack)}
    BY <1>4, <1>5 DEF Heard, Builds
  <1> QED
    BY <1>4, <1>6

\* A call leaves the queue: its FutureBuilder, if it had one, is not heard.
LEMMA RemovedCall ==
  ASSUME NEW q, Queue(q), NEW n \in 1..Len(q), NEW r, r = RemoveAt(q, n)
  PROVE  /\ Queue(r) /\ Len(r) = Len(q) - 1 /\ Carried(q, r, n)
         /\ Heard(r) = Heard(q) \ (IF q[n].kind = "build" THEN {q[n].at} ELSE {})
  <1>1. /\ Len(q) \in Nat /\ r \in Seq(Call) /\ Len(r) = Len(q) - 1
        /\ \A k \in 1..Len(q) - 1 : r[k] = IF k < n THEN q[k] ELSE q[k + 1]
    BY RemoveAtProperties, SMTT(30) DEF Queue
  <1>2. ASSUME NEW j \in 1..Len(q), j # n
        PROVE  Place(n, j) \in 1..Len(r) /\ r[Place(n, j)] = q[j]
    <2>1. n # 0 /\ Place(n, j) \in 1..Len(q) - 1
      BY <1>1, <1>2 DEF Place
    <2>2. CASE j < n
      BY <2>1, <2>2, <1>1 DEF Place
    <2>3. CASE ~(j < n)
      <3>1. Place(n, j) = j - 1 /\ ~(j - 1 < n) /\ j - 1 + 1 = j
        BY <2>1, <2>3, <1>1, <1>2 DEF Place
      <3> QED
        BY <2>1, <3>1, <1>1
    <2> QED
      BY <2>2, <2>3
  <1>3. ASSUME NEW k \in 1..Len(r)
        PROVE  \E j \in 1..Len(q) : j # n /\ k = Place(n, j) /\ r[k] = q[j]
    <2>1. CASE k < n
      <3>1. k \in 1..Len(q) /\ k # n /\ k = Place(n, k) /\ r[k] = q[k]
        BY <2>1, <1>1 DEF Place
      <3> QED
        BY <3>1
    <2>2. CASE ~(k < n)
      <3>1. k + 1 \in 1..Len(q) /\ k + 1 # n /\ k = Place(n, k + 1) /\ r[k] = q[k + 1]
        BY <2>2, <1>1 DEF Place
      <3> QED
        BY <3>1
    <2> QED
      BY <2>1, <2>2
  <1>4. Carried(q, r, n)
    <2>1. \A c : Alike(c, c)
      BY DEF Alike
    <2>2. n \in 0..Len(q)
      BY <1>1
    <2> QED
      BY <1>2, <1>3, <2>1, <2>2 DEF Carried
  <1>5. Single(r)
    <2>1. SUFFICES ASSUME NEW k \in 1..Len(r), NEW l \in 1..Len(r),
                          r[k].kind = "build", r[l].kind = "build", r[k].at = r[l].at
                   PROVE  k = l
      BY DEF Single, Builds
    <2>2. PICK j \in 1..Len(q) : j # n /\ k = Place(n, j) /\ r[k] = q[j]
      BY <1>3
    <2>3. PICK i \in 1..Len(q) : i # n /\ l = Place(n, i) /\ r[l] = q[i]
      BY <1>3
    <2>4. i = j
      BY <2>1, <2>2, <2>3 DEF Queue, Single, Builds
    <2> QED
      BY <2>2, <2>3, <2>4
  <1>6. ASSUME NEW i
        PROVE  i \in Heard(r) <=> i \in Heard(q) /\ ~(q[n].kind = "build" /\ i = q[n].at)
    <2>1. ASSUME i \in Heard(r) PROVE i \in Heard(q) /\ ~(q[n].kind = "build" /\ i = q[n].at)
      <3>1. PICK k \in 1..Len(r) : r[k].kind = "build" /\ r[k].at = i
        BY <2>1 DEF Heard, Builds
      <3>2. PICK j \in 1..Len(q) : j # n /\ r[k] = q[j]
        BY <1>3
      <3> QED
        BY <3>1, <3>2 DEF Heard, Builds, Queue, Single
    <2>2. ASSUME i \in Heard(q), ~(q[n].kind = "build" /\ i = q[n].at) PROVE i \in Heard(r)
      <3>1. PICK j \in 1..Len(q) : q[j].kind = "build" /\ q[j].at = i
        BY <2>2 DEF Heard, Builds
      <3>2. j # n
        BY <2>2, <3>1
      <3>3. Place(n, j) \in 1..Len(r) /\ r[Place(n, j)] = q[j]
        BY <3>2, <1>2
      <3> QED
        BY <3>1, <3>3 DEF Heard, Builds
    <2> QED
      BY <2>1, <2>2
  <1>7. Heard(r) = Heard(q) \ (IF q[n].kind = "build" THEN {q[n].at} ELSE {})
    BY <1>6
  <1> QED
    BY <1>1, <1>4, <1>5, <1>7 DEF Queue

\* A call joins the queue last.
LEMMA AppendedCall ==
  ASSUME NEW q, Queue(q), NEW c \in Call, c.kind # "build", c.got = "nothing",
         NEW r, r = Append(q, c)
  PROVE  /\ Queue(r) /\ Len(r) = Len(q) + 1 /\ Heard(r) = Heard(q)
         /\ Builds(r) = Builds(q) /\ \A k \in Builds(q) : r[k] = q[k]
         /\ Honest(c) => Carried(q, r, 0)
  <1>1. /\ Len(q) \in Nat /\ r \in Seq(Call) /\ Len(r) = Len(q) + 1 /\ r[Len(q) + 1] = c
        /\ \A k \in 1..Len(q) : k \in 1..Len(r) /\ r[k] = q[k]
        /\ \A k \in 1..Len(r) : k \in 1..Len(q) \/ k = Len(q) + 1
    BY AppendProperties DEF Queue
  <1>2. ASSUME Honest(c) PROVE Carried(q, r, 0)
    <2>1. \A d : Alike(d, d)
      BY DEF Alike
    <2>2. 0 \in 0..Len(q)
      BY <1>1
    <2>3. \A j \in 1..Len(q) : j # 0
      OBVIOUS
    <2> QED
      BY <1>1, <1>2, <2>1, <2>2, <2>3 DEF Carried, Place
  <1>3. Builds(r) = Builds(q) /\ \A k \in Builds(q) : r[k] = q[k]
    <2>1. \A k \in 1..Len(r) : r[k].kind = "build" => k \in 1..Len(q) /\ q[k].kind = "build"
      BY <1>1
    <2>2. \A k \in 1..Len(q) : k \in 1..Len(r) /\ r[k] = q[k]
      BY <1>1
    <2> QED
      BY <2>1, <2>2 DEF Builds
  <1>4. Single(r)
    <2>1. ASSUME NEW j \in Builds(r), NEW k \in Builds(r), r[j].at = r[k].at PROVE j = k
      <3>1. j \in Builds(q) /\ k \in Builds(q) /\ q[j].at = q[k].at
        BY <1>3, <2>1
      <3> QED
        BY <3>1 DEF Queue, Single
    <2> QED
      BY <2>1 DEF Single
  <1>5. Heard(r) = Heard(q)
    <2>1. ASSUME NEW i \in Heard(r) PROVE i \in Heard(q)
      <3>1. PICK k \in Builds(r) : i = r[k].at
        BY <2>1 DEF Heard
      <3>2. k \in Builds(q) /\ i = q[k].at
        BY <3>1, <1>3
      <3> QED
        BY <3>2 DEF Heard
    <2>2. ASSUME NEW i \in Heard(q) PROVE i \in Heard(r)
      <3>1. PICK k \in Builds(q) : i = q[k].at
        BY <2>2 DEF Heard
      <3>2. k \in Builds(r) /\ i = r[k].at
        BY <3>1, <1>3
      <3> QED
        BY <3>2 DEF Heard
    <2> QED
      BY <2>1, <2>2
  <1> QED
    BY <1>1, <1>2, <1>3, <1>4, <1>5 DEF Queue

\* FutureBuilders at these places listen to new calls.
LEMMA RefetchedCalls ==
  ASSUME NEW q, Queue(q), NEW places, places \in Seq(1..MaxDepth), IsInjective(places),
         NEW r, r = Refetched(q, places)
  PROVE  /\ Queue(r) /\ Len(r) = Len(q) + Len(places) /\ Carried(q, r, 0)
         /\ \A i : i \in Heard(r) <=> i \in Heard(q) \/ \E m \in 1..Len(places) : places[m] = i
         /\ \A k \in Builds(r) : (\E m \in 1..Len(places) : places[m] = r[k].at) => r[k].got = "nothing"
         /\ \A k \in Builds(r) : r[k].got # "nothing" => k \in Builds(q) /\ r[k] = q[k]
  <1> DEFINE At(i) == \E m \in DOMAIN places : places[m] = i
             a == [n \in DOMAIN q |-> IF q[n].kind = "build" /\ At(q[n].at) THEN Unheard(q[n]) ELSE q[n]]
             b == [m \in DOMAIN places |-> Fetch(places[m])]
  <1>1. /\ Len(q) \in Nat /\ DOMAIN q = 1..Len(q) /\ \A k \in 1..Len(q) : q[k] \in Call
        /\ Len(places) \in Nat /\ DOMAIN places = 1..Len(places)
        /\ \A m \in 1..Len(places) : places[m] \in 1..MaxDepth
    <2>1. Len(q) \in Nat /\ DOMAIN q = 1..Len(q) /\ \A k \in 1..Len(q) : q[k] \in Call
      BY CallFields DEF Queue
    <2>2. Len(places) \in Nat /\ DOMAIN places = 1..Len(places) /\ \A m \in 1..Len(places) : places[m] \in 1..MaxDepth
      <3>1. PICK D : D = 1..MaxDepth
        OBVIOUS
      <3>2. places \in Seq(D)
        BY <3>1
      <3>3. Len(places) \in Nat /\ DOMAIN places = 1..Len(places) /\ \A m \in 1..Len(places) : places[m] \in D
        BY <3>2
      <3> QED
        BY <3>1, <3>3
    <2> QED
      BY <2>1, <2>2
  <1>2. ASSUME NEW k \in 1..Len(q)
        PROVE  /\ a[k] \in Call /\ Alike(q[k], a[k])
               /\ a[k].kind = "build" => q[k].kind = "build" /\ ~At(q[k].at) /\ a[k] = q[k]
               /\ q[k].kind = "build" /\ ~At(q[k].at) => a[k] = q[k]
    <2>1. PICK c : c = q[k] /\ c \in Call
      BY <1>1
    <2> HIDE DEF At
    <2>2. a[k] = IF c.kind = "build" /\ At(c.at) THEN Unheard(c) ELSE c
      BY <2>1, <1>1
    <2>3. Unheard(c) \in Call /\ Unheard(c).kind = "fetch" /\ (c.kind = "build" => Alike(c, Unheard(c)))
      BY <2>1, UnheardCall
    <2>4. Alike(c, c)
      BY DEF Alike
    <2>5. CASE c.kind = "build" /\ At(c.at)
      <3>1. a[k] = Unheard(c) /\ a[k].kind = "fetch"
        BY <2>2, <2>3, <2>5
      <3> QED
        BY <2>1, <2>3, <2>5, <3>1
    <2>6. CASE ~(c.kind = "build" /\ At(c.at))
      <3>1. a[k] = c
        BY <2>2, <2>6
      <3> QED
        BY <2>1, <2>4, <2>6, <3>1
    <2> QED
      BY <2>5, <2>6
  <1>3. ASSUME NEW m \in 1..Len(places)
        PROVE  /\ b[m] \in Call /\ b[m].kind = "build" /\ b[m].at = places[m]
               /\ b[m].got = "nothing" /\ Honest(b[m])
    <2>1. PICK i : i = places[m] /\ i \in 0..MaxDepth
      BY <1>1, PreferencesAssumption
    <2>2. PICK c : c = Sent("build")
      OBVIOUS
    <2>3. c \in Call /\ c.kind = "build" /\ c.got = "nothing"
      BY <2>2, SentCall
    <2>4. PICK d : d = [c EXCEPT !.at = i]
      OBVIOUS
    <2>5. d \in Call /\ d.kind = "build" /\ d.at = i /\ d.got = "nothing"
      BY <2>1, <2>3, <2>4 DEF Call
    <2>6. b[m] = d
      BY <2>1, <2>2, <2>4, <1>1 DEF Fetch
    <2> QED
      BY <2>1, <2>5, <2>6 DEF Honest
  <1>4. a \in Seq(Call) /\ Len(a) = Len(q)
    <2>1. a \in [1..Len(q) -> Call]
      BY <1>1, <1>2
    <2> QED
      BY <2>1, <1>1, SeqDef
  <1>5. b \in Seq(Call) /\ Len(b) = Len(places)
    <2>1. b \in [1..Len(places) -> Call]
      BY <1>1, <1>3
    <2> QED
      BY <2>1, <1>1, SeqDef
  <1>6. r = a \o b
    BY DEF Refetched
  <1>7. \A i : At(i) <=> \E m \in 1..Len(places) : places[m] = i
    BY <1>1
  <1>8. \A k, m \in 1..Len(places) : places[k] = places[m] => k = m
    BY <1>1 DEF IsInjective
  <1> HIDE DEF At, a, b
  <1>9. /\ r \in Seq(Call) /\ Len(r) = Len(q) + Len(places)
        /\ \A k \in 1..Len(r) : r[k] = IF k <= Len(q) THEN a[k] ELSE b[k - Len(q)]
    <2>1. /\ a \o b \in Seq(Call) /\ Len(a \o b) = Len(a) + Len(b)
          /\ \A k \in 1..Len(a) + Len(b) : (a \o b)[k] = IF k <= Len(a) THEN a[k] ELSE b[k - Len(a)]
      BY <1>4, <1>5, ConcatProperties
    <2> QED
      BY <2>1, <1>4, <1>5, <1>6
  <1>10. \A k \in 1..Len(q) : k \in 1..Len(r) /\ r[k] = a[k]
    BY <1>1, <1>9
  <1>11. \A m \in 1..Len(places) : Len(q) + m \in 1..Len(r) /\ r[Len(q) + m] = b[m]
    <2>1. ASSUME NEW m \in 1..Len(places)
          PROVE  Len(q) + m \in 1..Len(r) /\ ~(Len(q) + m <= Len(q)) /\ Len(q) + m - Len(q) = m
      BY <1>1, <1>9
    <2> QED
      BY <2>1, <1>9
  <1>12. ASSUME NEW k \in 1..Len(r)
         PROVE  \/ k \in 1..Len(q) /\ r[k] = a[k]
                \/ \E m \in 1..Len(places) : k = Len(q) + m /\ r[k] = b[m]
    <2>1. CASE k <= Len(q)
      BY <2>1, <1>1, <1>9
    <2>2. CASE ~(k <= Len(q))
      <3>1. k - Len(q) \in 1..Len(places) /\ k = Len(q) + (k - Len(q)) /\ r[k] = b[k - Len(q)]
        BY <2>2, <1>1, <1>9
      <3> QED
        BY <3>1
    <2> QED
      BY <2>1, <2>2
  <1>13. Carried(q, r, 0)
    <2>1. ASSUME NEW j \in 1..Len(q) PROVE j \in 1..Len(r) /\ Alike(q[j], r[j])
      <3>1. j \in 1..Len(r) /\ r[j] = a[j]
        BY <1>10
      <3>2. Alike(q[j], a[j])
        BY <1>2
      <3> QED
        BY <3>1, <3>2
    <2>2. ASSUME NEW k \in 1..Len(r) PROVE k \in 1..Len(q) \/ (r[k].got = "nothing" /\ Honest(r[k]))
      <3>1. CASE \E m \in 1..Len(places) : k = Len(q) + m /\ r[k] = b[m]
        BY <3>1, <1>3
      <3> QED
        BY <3>1, <1>12
    <2>3. 0 \in 0..Len(q) /\ \A j \in 1..Len(q) : j # 0
      BY <1>1
    <2> QED
      BY <2>1, <2>2, <2>3 DEF Carried, Place
  <1>14. ASSUME NEW k \in 1..Len(r), r[k].kind = "build"
         PROVE  \/ k \in Builds(q) /\ ~At(r[k].at) /\ r[k] = q[k]
                \/ \E m \in 1..Len(places) : k = Len(q) + m /\ r[k].at = places[m] /\ r[k].got = "nothing"
    BY <1>2, <1>3, <1>12, <1>14 DEF Builds
  <1>15. Single(r)
    <2>1. SUFFICES ASSUME NEW k \in 1..Len(r), NEW l \in 1..Len(r),
                          r[k].kind = "build", r[l].kind = "build", r[k].at = r[l].at
                   PROVE  k = l
      BY DEF Single, Builds
    <2>2. CASE At(r[k].at)
      <3>1. PICK m \in 1..Len(places) : k = Len(q) + m /\ r[k].at = places[m]
        BY <2>1, <2>2, <1>14
      <3>2. PICK n \in 1..Len(places) : l = Len(q) + n /\ r[l].at = places[n]
        BY <2>1, <2>2, <1>14
      <3> QED
        BY <2>1, <3>1, <3>2, <1>8
    <2>3. CASE ~At(r[k].at)
      <3>1. k \in Builds(q) /\ r[k] = q[k] /\ l \in Builds(q) /\ r[l] = q[l]
        BY <2>1, <2>3, <1>7, <1>14
      <3> QED
        BY <2>1, <3>1 DEF Queue, Single
    <2> QED
      BY <2>2, <2>3
  <1>16. ASSUME NEW i
         PROVE  i \in Heard(r) <=> i \in Heard(q) \/ At(i)
    <2>1. ASSUME i \in Heard(r) PROVE i \in Heard(q) \/ At(i)
      <3>1. PICK k \in 1..Len(r) : r[k].kind = "build" /\ r[k].at = i
        BY <2>1 DEF Heard, Builds
      <3> QED
        BY <3>1, <1>7, <1>14 DEF Heard
    <2>2. ASSUME At(i) PROVE i \in Heard(r)
      <3>1. PICK m \in 1..Len(places) : places[m] = i
        BY <2>2, <1>7
      <3>2. Len(q) + m \in 1..Len(r) /\ r[Len(q) + m].kind = "build" /\ r[Len(q) + m].at = i
        BY <3>1, <1>3, <1>11
      <3> QED
        BY <3>2 DEF Heard, Builds
    <2>3. ASSUME i \in Heard(q), ~At(i) PROVE i \in Heard(r)
      <3>1. PICK k \in 1..Len(q) : q[k].kind = "build" /\ q[k].at = i
        BY <2>3 DEF Heard, Builds
      <3>2. k \in 1..Len(r) /\ r[k] = q[k]
        BY <2>3, <3>1, <1>2, <1>10
      <3> QED
        BY <3>1, <3>2 DEF Heard, Builds
    <2> QED
      BY <2>1, <2>2, <2>3
  <1>17. ASSUME NEW k \in Builds(r)
         PROVE  /\ At(r[k].at) => r[k].got = "nothing"
                /\ r[k].got # "nothing" => k \in Builds(q) /\ r[k] = q[k]
    BY <1>14 DEF Builds
  <1> QED
    BY <1>7, <1>9, <1>13, <1>15, <1>16, <1>17 DEF Queue

\* The positions of the manage screens, each of them once.
LEMMA AscendingPlaces ==
  ASSUME NEW scr, Standing(scr), NEW places \in Ascending(Managing(scr))
  PROVE  /\ places \in Seq(1..MaxDepth) /\ IsInjective(places)
         /\ \A i : i \in Managing(scr) <=> \E m \in 1..Len(places) : places[m] = i
  <1> DEFINE S == Managing(scr)
             N == Cardinality(Managing(scr))
  <1>1. S \subseteq 1..Len(scr) /\ Len(scr) \in Nat /\ Len(scr) <= MaxDepth /\ S \subseteq 1..MaxDepth
    BY ScreenFields, PreferencesAssumption
  <1>2. IsFiniteSet(S) /\ N \in Nat
    <2>1. IsFiniteSet(1..Len(scr))
      BY <1>1, FS_Interval
    <2> QED
      BY <1>1, <2>1, FS_Subset, FS_CardinalityType
  <1>3. places \in [1..N -> S] /\ \A m, n \in 1..N : m < n => places[m] < places[n]
    BY DEF Ascending
  <1> HIDE DEF S, N
  <1>4. \A m \in 1..N : places[m] \in Nat
    <2>1. S \subseteq Nat
      BY <1>1
    <2>2. \A m \in 1..N : places[m] \in S
      BY <1>3
    <2> QED
      BY <2>1, <2>2
  <1>5. IsInjective(places)
    <2>1. ASSUME NEW m \in 1..N, NEW n \in 1..N, places[m] = places[n] PROVE m = n
      <3>1. ~(m < n) /\ ~(n < m)
        BY <2>1, <1>3, <1>4
      <3> QED
        BY <3>1, <1>2
    <2> QED
      BY <2>1, <1>3 DEF IsInjective
  <1>6. places \in Injection(1..N, S)
    BY <1>3, <1>5 DEF Injection
  <1>7. places \in Surjection(1..N, S)
    <2>1. Cardinality(1..N) = N
      BY <1>2, FS_Interval
    <2>2. Cardinality(1..N) = Cardinality(S) <=> places \in Surjection(1..N, S)
      BY <1>2, <1>6, FS_Injection
    <2> QED
      BY <2>1, <2>2 DEF N, S
  <1>8. \A i \in S : \E m \in 1..N : places[m] = i
    BY <1>7 DEF Surjection
  <1>9. places \in Seq(1..MaxDepth) /\ Len(places) = N
    <2>1. places \in [1..N -> 1..MaxDepth]
      <3>1. PICK D : D = 1..MaxDepth
        OBVIOUS
      <3>2. S \subseteq D
        BY <1>1, <3>1
      <3>3. places \in [1..N -> D]
        BY <1>3, <3>2
      <3> QED
        BY <3>1, <3>3
    <2>2. PICK D : D = 1..MaxDepth
      OBVIOUS
    <2>3. places \in [1..N -> D]
      BY <2>1, <2>2
    <2>4. places \in Seq(D)
      BY <2>3, <1>2, SeqDef
    <2>5. Len(places) = N
      BY <2>3, <2>4, <1>2
    <2> QED
      BY <2>2, <2>4, <2>5
  <1> QED
    BY <1>3, <1>5, <1>8, <1>9 DEF S

\* A function on 1..n is a sequence of length n.
LEMMA SequenceOf ==
  ASSUME NEW S, NEW n \in Nat, NEW f, f \in [1..n -> S]
  PROVE  f \in Seq(S) /\ Len(f) = n /\ DOMAIN f = 1..n
  <1>1. f \in Seq(S)
    BY SeqDef
  <1> QED
    BY <1>1

\* The backend serves one call.
Marked(q, r, n, got, answer) == r = [q EXCEPT ![n].got = got, ![n].answer = answer]

\* Only the call that is served changes, and only in what it is answered.
LEMMA ServedCall ==
  ASSUME NEW q, Queue(q), NEW n \in 1..Len(q), NEW got \in {"ok", "refused", "failed"},
         NEW answer \in Seq(Categories), NEW r, Marked(q, r, n, got, answer)
  PROVE  /\ Queue(r) /\ Len(r) = Len(q) /\ Heard(r) = Heard(q) /\ Builds(r) = Builds(q)
         /\ \A k \in 1..Len(q) : k # n => r[k] = q[k]
         /\ \A k \in 1..Len(q) : r[k].kind = q[k].kind /\ r[k].at = q[k].at /\ r[k].of = q[k].of /\ r[k].card = q[k].card
         /\ r[n].got = got /\ r[n].answer = answer
  <1>1. Len(q) \in Nat /\ DOMAIN q = 1..Len(q) /\ \A k \in 1..Len(q) : q[k] \in Call
    BY CallFields DEF Queue
  <1>2. PICK c : c = q[n] /\ c \in Call
    BY <1>1
  <1>3. PICK d : d = [c EXCEPT !.got = got, !.answer = answer]
    OBVIOUS
  <1>4. /\ d \in Call /\ d.kind = c.kind /\ d.at = c.at /\ d.of = c.of /\ d.card = c.card
        /\ d.got = got /\ d.answer = answer
    BY <1>2, <1>3 DEF Call
  <1>5. r = [q EXCEPT ![n] = d]
    BY <1>2, <1>3 DEF Marked
  <1>6. r \in Seq(Call) /\ Len(r) = Len(q) /\ r[n] = d /\ \A k \in 1..Len(q) : k # n => r[k] = q[k]
    <2>1. r \in [1..Len(q) -> Call] /\ r[n] = d /\ \A k \in 1..Len(q) : k # n => r[k] = q[k]
      <3>1. PICK D : D = 1..Len(q)
        OBVIOUS
      <3>2. q \in [D -> Call] /\ n \in D
        BY <1>1, <3>1 DEF Queue
      <3>3. /\ r \in [D -> Call] /\ r[n] = d /\ \A k \in D : k # n => r[k] = q[k]
        BY <3>2, <1>4, <1>5
      <3> QED
        BY <3>1, <3>3
    <2>2. r \in [1..Len(q) -> Call]
      BY <2>1
    <2>3. r \in Seq(Call)
      BY <1>1, <2>2, SequenceOf
    <2>4. Len(r) = Len(q)
      BY <1>1, <2>2, SequenceOf
    <2> QED
      BY <2>1, <2>3, <2>4
  <1>7. \A k \in 1..Len(q) : r[k].kind = q[k].kind /\ r[k].at = q[k].at /\ r[k].of = q[k].of /\ r[k].card = q[k].card
    BY <1>2, <1>4, <1>6
  <1>8. Builds(r) = Builds(q) /\ \A k \in Builds(q) : r[k].at = q[k].at
    BY <1>6, <1>7 DEF Builds
  <1>9. Single(r)
    BY <1>8 DEF Queue, Single
  <1>10. Heard(r) = Heard(q)
    BY <1>8 DEF Heard
  <1> QED
    BY <1>2, <1>4, <1>6, <1>7, <1>8, <1>9, <1>10 DEF Queue

-----------------------------------------------------------------------------
(* How the handlers change the Navigator.                                  *)

\* A page that was just pushed waits.
LEMMA PageScreen ==
  ASSUME NEW p \in {"home", "manage", "add"}
  PROVE  /\ Page(p) \in Screen /\ Page(p).page = p /\ Page(p).view = "waiting"
  <1>1. <<>> \in Seq(Categories \cup {NoCategory})
    BY EmptySeq
  <1> QED
    BY <1>1 DEF Page, Screen

\* A page on top: a manage screen there waits for a call.
LEMMA PushedScreen ==
  ASSUME NEW scr \in Seq(Screen), Len(scr) < MaxDepth, NEW p \in {"home", "manage", "add"},
         NEW t, t = Append(scr, Page(p))
  PROVE  /\ Standing(t) /\ Len(t) = Len(scr) + 1
         /\ Len(scr) \in Nat /\ \A i \in 1..Len(scr) : t[i] = scr[i]
         /\ Expecting(t) = Expecting(scr) \cup (IF p = "manage" THEN {Len(scr) + 1} ELSE {})
         /\ Managing(t) = Managing(scr) \cup (IF p = "manage" THEN {Len(scr) + 1} ELSE {})
  <1>1. PICK c : c = Page(p)
    OBVIOUS
  <1>2. c \in Screen /\ c.page = p /\ c.view = "waiting"
    BY <1>1, PageScreen
  <1>3. /\ Len(scr) \in Nat /\ t \in Seq(Screen) /\ Len(t) = Len(scr) + 1 /\ t[Len(scr) + 1] = c
        /\ \A i \in 1..Len(scr) : t[i] = scr[i]
    BY <1>1, <1>2, AppendProperties
  <1>4. Standing(t)
    BY <1>3, PreferencesAssumption DEF Standing
  <1>5. /\ DOMAIN t = 1..Len(scr) + 1 /\ DOMAIN scr = 1..Len(scr)
        /\ \A i : i \in 1..Len(scr) + 1 <=> i \in 1..Len(scr) \/ i = Len(scr) + 1
        /\ Len(scr) + 1 \notin 1..Len(scr)
    BY <1>3
  <1>6. Managing(t) = Managing(scr) \cup (IF p = "manage" THEN {Len(scr) + 1} ELSE {})
    BY <1>2, <1>3, <1>5 DEF Managing
  <1>7. Expecting(t) = Expecting(scr) \cup (IF p = "manage" THEN {Len(scr) + 1} ELSE {})
    <2>1. \A i \in Managing(scr) : t[i] = scr[i]
      BY <1>3, <1>5 DEF Managing
    <2> QED
      BY <1>2, <1>3, <1>6, <2>1 DEF Expecting
  <1> QED
    BY <1>3, <1>4, <1>6, <1>7

\* The top screen leaves.
LEMMA PoppedScreen ==
  ASSUME NEW scr, Standing(scr), NEW t, t = Front(scr)
  PROVE  /\ t \in Seq(Screen) /\ Len(scr) \in Nat \ {0} /\ Len(t) = Len(scr) - 1
         /\ \A i \in 1..Len(t) : t[i] = scr[i]
         /\ Expecting(t) = Expecting(scr) \ {Len(scr)} /\ Managing(t) = Managing(scr) \ {Len(scr)}
  <1>1. scr \in Seq(Screen) /\ Len(scr) \in Nat \ {0} /\ DOMAIN scr = 1..Len(scr)
    BY ScreenFields DEF Standing
  <1>2. scr # <<>>
    BY <1>1
  <1>3. t \in Seq(Screen) /\ Len(t) = Len(scr) - 1 /\ \A i \in 1..Len(scr) - 1 : t[i] = scr[i]
    BY <1>1, <1>2, FrontProperties
  <1>4. DOMAIN t = 1..Len(scr) - 1 /\ \A i : i \in 1..Len(scr) - 1 <=> i \in 1..Len(scr) /\ i # Len(scr)
    BY <1>1, <1>3
  <1>5. Managing(t) = Managing(scr) \ {Len(scr)}
    BY <1>1, <1>3, <1>4 DEF Managing
  <1>6. Expecting(t) = Expecting(scr) \ {Len(scr)}
    <2>1. \A i \in Managing(t) : t[i] = scr[i]
      BY <1>3, <1>4 DEF Managing
    <2> QED
      BY <1>5, <2>1 DEF Expecting
  <1> QED
    BY <1>1, <1>3, <1>5, <1>6

\* Screens that stay where they are.
LEMMA RestyledScreens ==
  ASSUME NEW scr, Standing(scr), NEW t, t \in [1..Len(scr) -> Screen],
         \A i \in 1..Len(scr) : t[i].page = scr[i].page
  PROVE  Standing(t) /\ Len(t) = Len(scr) /\ DOMAIN t = 1..Len(scr) /\ Managing(t) = Managing(scr)
  <1>1. scr \in Seq(Screen) /\ Len(scr) \in Nat \ {0} /\ DOMAIN scr = 1..Len(scr) /\ Len(scr) \in 1..MaxDepth
    BY ScreenFields DEF Standing
  <1>2. t \in Seq(Screen)
    BY <1>1, SeqDef
  <1>3. Len(t) = Len(scr) /\ DOMAIN t = 1..Len(scr)
    BY <1>1, <1>2
  <1> QED
    BY <1>1, <1>2, <1>3 DEF Standing, Managing

\* The grids of t are grids of scr, and the answers on their way to screens of t would
\* change the same screens of scr.
SameGrids(scr, t) ==
  \A p \in Managing(t) : t[p].view = "grid" =>
    /\ p \in Managing(scr) /\ scr[p].view = "grid"
    /\ t[p].drawn = scr[p].drawn /\ t[p].missed = scr[p].missed
SameBuilds(scr, t, r) ==
  \A k \in Builds(r) : r[k].got # "nothing" =>
    r[k].at \in Managing(scr) /\ t[r[k].at].missed = scr[r[k].at].missed

\* What is true of a variable's type and of the FutureBuilders' calls.
Typed == /\ Standing(stack) /\ Queue(net) /\ Len(net) <= MaxCalls[inOrder]
         /\ Heard(net) = Expecting(stack) /\ Data

\* A call that a handler leaves alone.
LEMMA SameCalls ==
  ASSUME NEW c
  PROVE  Alike(c, c)
  BY DEF Alike

\* A manage screen is shown: it waits, its FutureBuilder is the only new one heard, and
\* nothing below it changes.
LEMMA ShowManageStep ==
  ASSUME NEW below \in Seq(Screen), Len(below) < MaxDepth, NEW calls, Queue(calls),
         Heard(calls) = Expecting(below), registered \in BOOLEAN, ShowManage(below, calls)
  PROVE  /\ Standing(stack') /\ Queue(net') /\ Heard(net') = Expecting(stack') /\ registered' \in BOOLEAN
         /\ Carried(calls, net', 0) /\ SameGrids(below, stack') /\ SameBuilds(below, stack', net')
  <1>1. PICK t, r : t = stack' /\ r = net'
    OBVIOUS
  <1>2. PICK base : base = IF registered THEN calls ELSE Append(calls, Sent("fetch"))
    OBVIOUS
  <1>3. PICK N : N = Len(below) + 1
    OBVIOUS
  <1>4. t = Append(below, Page("manage")) /\ r = Refetched(base, <<Len(t)>>) /\ registered' = TRUE
    BY <1>1, <1>2 DEF ShowManage
  <1>5. /\ Standing(t) /\ Len(t) = N /\ Len(below) \in Nat /\ \A i \in 1..Len(below) : t[i] = below[i]
        /\ Expecting(t) = Expecting(below) \cup {N} /\ Managing(t) = Managing(below) \cup {N}
    BY <1>3, <1>4, PushedScreen
  <1>6. Queue(base) /\ Heard(base) = Heard(calls) /\ Carried(calls, base, 0)
    <2>1. CASE registered
      <3>1. base = calls /\ Len(calls) \in Nat
        BY <1>2, <2>1 DEF Queue
      <3> QED
        BY <3>1, SameCalls DEF Carried, Place
    <2>2. CASE ~registered
      <3>1. PICK c : c = Sent("fetch")
        OBVIOUS
      <3>2. c \in Call /\ c.kind = "fetch" /\ c.got = "nothing"
        BY <3>1, SentCall
      <3>3. base = Append(calls, c)
        BY <1>2, <2>2, <3>1
      <3>4. Honest(c) /\ c.kind # "build"
        BY <3>2 DEF Honest
      <3> QED
        BY <3>2, <3>3, <3>4, AppendedCall
    <2> QED
      BY <2>1, <2>2
  <1>7. PICK places : places = <<N>>
    OBVIOUS
  <1>8. /\ Len(places) = 1 /\ places \in Seq(1..MaxDepth) /\ IsInjective(places)
        /\ \A i : i = N <=> \E m \in 1..Len(places) : places[m] = i
    <2>1. PICK D : D = 1..MaxDepth
      OBVIOUS
    <2>2. N \in D
      BY <1>3, <1>5, <2>1, PreferencesAssumption
    <2>3. Len(places) = 1 /\ places \in Seq(D) /\ DOMAIN places = {1} /\ places[1] = N
      BY <1>7, <2>2
    <2>4. \A m : m \in 1..1 <=> m = 1
      OBVIOUS
    <2> QED
      BY <2>1, <2>3, <2>4 DEF IsInjective
  <1>9. /\ Queue(r) /\ Carried(base, r, 0)
        /\ \A i : i \in Heard(r) <=> i \in Heard(base) \/ i = N
        /\ \A k \in Builds(r) : r[k].at = N => r[k].got = "nothing"
        /\ \A k \in Builds(r) : r[k].got # "nothing" => k \in Builds(base) /\ r[k] = base[k]
    <2>1. r = Refetched(base, places)
      BY <1>4, <1>5, <1>7
    <2>2. /\ Queue(r) /\ Carried(base, r, 0)
          /\ \A i : i \in Heard(r) <=> i \in Heard(base) \/ \E m \in 1..Len(places) : places[m] = i
          /\ \A k \in Builds(r) : (\E m \in 1..Len(places) : places[m] = r[k].at) => r[k].got = "nothing"
          /\ \A k \in Builds(r) : r[k].got # "nothing" => k \in Builds(base) /\ r[k] = base[k]
      <3>1. Queue(base) /\ places \in Seq(1..MaxDepth) /\ IsInjective(places)
        BY <1>6, <1>8
      <3> QED
        BY <2>1, <3>1, RefetchedCalls, SMTT(30)
    <2>3. \A k \in Builds(r) : r[k].at = N => \E m \in 1..Len(places) : places[m] = r[k].at
      BY <1>8
    <2> QED
      BY <1>8, <2>2, <2>3
  <1>10. Heard(r) = Expecting(t)
    BY <1>5, <1>6, <1>9
  <1>11. Carried(calls, r, 0)
    BY <1>6, <1>9, CarriedLater DEF Queue
  <1>12. t[N].view = "waiting"
    BY <1>5 DEF Expecting
  <1>13. Managing(below) \subseteq 1..Len(below)
    BY <1>5 DEF Managing
  <1>14. SameGrids(below, t)
    BY <1>5, <1>12, <1>13 DEF SameGrids
  <1>15. SameBuilds(below, t, r)
    <2>1. SUFFICES ASSUME NEW k \in Builds(r), r[k].got # "nothing"
                   PROVE  r[k].at \in Managing(below) /\ t[r[k].at].missed = below[r[k].at].missed
      BY DEF SameBuilds
    <2>2. r[k].at \in Heard(calls)
      BY <2>1, <1>6, <1>9 DEF Heard
    <2>3. r[k].at \in Managing(below) /\ r[k].at \in 1..Len(below)
      BY <2>2, <1>13 DEF Expecting
    <2> QED
      BY <2>3, <1>5
  <1> QED
    BY <1>1, <1>4, <1>5, <1>9, <1>10, <1>11, <1>14, <1>15

\* What the reader does keeps the grids and takes no call away.
Kept(g) == /\ Carried(net, net', g) /\ SameGrids(stack, stack') /\ SameBuilds(stack, stack', net')
           /\ UNCHANGED <<prefs, list, inOrder>>

\* What a step that leaves the Navigator or the queue alone keeps.
LEMMA SameParts ==
  ASSUME Typed
  PROVE  /\ SameGrids(stack, stack) /\ Carried(net, net, 0)
         /\ \A r : Heard(r) \subseteq Heard(net) => SameBuilds(stack, stack, r)
  <1>1. Len(net) \in Nat
    BY DEF Typed, Queue
  <1>2. ASSUME NEW r, Heard(r) \subseteq Heard(net) PROVE SameBuilds(stack, stack, r)
    <2>1. \A k \in Builds(r) : r[k].at \in Heard(net)
      BY <1>2 DEF Heard
    <2> QED
      BY <2>1 DEF SameBuilds, Typed, Expecting
  <1> QED
    BY <1>1, <1>2, SameCalls DEF SameGrids, Carried, Place

\* OpenManage keeps the types and the grids.
LEMMA OpenManageStep ==
  ASSUME Typed, OpenManage, Len(net') <= MaxCalls[inOrder']
  PROVE  Typed' /\ Kept(0)
  <1>1. PICK scr, q : scr = stack /\ q = net
    OBVIOUS
  <1>2. /\ scr \in Seq(Screen) /\ Len(scr) < MaxDepth /\ Queue(q) /\ Heard(q) = Expecting(scr)
        /\ ShowManage(scr, q) /\ registered \in BOOLEAN
    BY <1>1 DEF OpenManage, Typed, Data, Standing
  <1>3. /\ Standing(stack') /\ Queue(net') /\ Heard(net') = Expecting(stack') /\ registered' \in BOOLEAN
        /\ Carried(q, net', 0) /\ SameGrids(scr, stack') /\ SameBuilds(scr, stack', net')
    BY <1>2, ShowManageStep
  <1> QED
    BY <1>1, <1>3 DEF OpenManage, Typed, Data, Kept

\* OpenAdd keeps the types and the grids.
LEMMA OpenAddStep ==
  ASSUME Typed, OpenAdd, Len(net') <= MaxCalls[inOrder']
  PROVE  Typed' /\ Kept(0)
  <1>1. PICK scr, t : scr = stack /\ t = stack'
    OBVIOUS
  <1>2. Standing(scr) /\ Len(scr) < MaxDepth /\ t = Append(scr, Page("add"))
    BY <1>1 DEF OpenAdd, Typed
  <1>3. /\ Standing(t) /\ Expecting(t) = Expecting(scr) /\ Managing(t) = Managing(scr)
        /\ \A i \in 1..Len(scr) : t[i] = scr[i]
    BY <1>2, PushedScreen DEF Standing
  <1>4. Managing(scr) \subseteq 1..Len(scr) /\ \A i \in Managing(scr) : t[i] = scr[i]
    BY <1>2, <1>3, ScreenFields
  <1>5. SameGrids(scr, t)
    BY <1>3, <1>4 DEF SameGrids
  <1>6. SameBuilds(scr, t, net)
    <2>1. \A k \in Builds(net) : net[k].at \in Managing(scr)
      BY <1>1 DEF Typed, Expecting, Heard
    <2> QED
      BY <2>1, <1>4 DEF SameBuilds
  <1>7. Carried(net, net, 0)
    BY SameParts
  <1> QED
    BY <1>1, <1>3, <1>5, <1>6, <1>7 DEF OpenAdd, Typed, Data, Kept

\* Back keeps the types and the grids below: the calls of the screen that goes are orphaned.
LEMMA BackStep ==
  ASSUME Typed, Back, Len(net') <= MaxCalls[inOrder']
  PROVE  Typed' /\ Kept(0)
  <1>1. PICK scr, t, q, r : scr = stack /\ t = stack' /\ q = net /\ r = net'
    OBVIOUS
  <1>2. Standing(scr) /\ Len(scr) > 1 /\ t = Front(scr) /\ Queue(q) /\ Heard(q) = Expecting(scr)
    BY <1>1 DEF Back, Typed
  <1>3. /\ t \in Seq(Screen) /\ Len(scr) \in Nat \ {0} /\ Len(t) = Len(scr) - 1
        /\ \A i \in 1..Len(t) : t[i] = scr[i]
        /\ Expecting(t) = Expecting(scr) \ {Len(scr)} /\ Managing(t) = Managing(scr) \ {Len(scr)}
    BY <1>2, PoppedScreen
  <1>4. Standing(t)
    BY <1>2, <1>3, PreferencesAssumption DEF Standing
  <1>5. Queue(r) /\ Len(r) = Len(q) /\ Carried(q, r, 0) /\ Heard(r) = Heard(q) \ {Len(scr)}
    <2>1. r = Orphaned(q)
      BY <1>1 DEF Back
    <2> QED
      BY <1>1, <1>2, <2>1, OrphanedCalls
  <1>6. \A i \in Managing(t) : t[i] = scr[i]
    BY <1>3, <1>4, ScreenFields
  <1>7. SameGrids(scr, t)
    BY <1>3, <1>6 DEF SameGrids
  <1>8. SameBuilds(scr, t, r)
    <2>1. \A k \in Builds(r) : r[k].at \in Managing(t) /\ r[k].at \in Managing(scr)
      BY <1>2, <1>3, <1>5 DEF Expecting, Heard
    <2> QED
      BY <2>1, <1>6 DEF SameBuilds
  <1>9. Heard(r) = Expecting(t)
    BY <1>2, <1>3, <1>5
  <1> QED
    BY <1>1, <1>4, <1>5, <1>7, <1>8, <1>9 DEF Back, Typed, Data, Kept

\* Dispose keeps the types and the grids: only the life of upload loops changes.
LEMMA DisposeStep ==
  ASSUME Typed, Dispose, Len(net') <= MaxCalls[inOrder']
  PROVE  Typed' /\ Kept(0)
  <1>1. PICK q, r : q = net /\ r = net'
    OBVIOUS
  <1>2. Queue(q) /\ Len(q) \in Nat /\ DOMAIN q = 1..Len(q) /\ \A k \in 1..Len(q) : q[k] \in Call
    BY <1>1, CallFields DEF Typed, Queue
  <1>3. ASSUME NEW k \in 1..Len(q)
        PROVE  r[k] \in Call /\ Alike(q[k], r[k]) /\ r[k].kind = q[k].kind
    <2>1. PICK c, d : c = q[k] /\ d = r[k] /\ c \in Call
      BY <1>2
    <2>2. d = c \/ d = [c EXCEPT !.life = "gone"]
      BY <1>1, <1>2, <2>1 DEF Dispose
    <2> QED
      BY <2>1, <2>2, SameCalls, LivedCall
  <1>4. r \in [1..Len(q) -> Call]
    BY <1>1, <1>2, <1>3 DEF Dispose
  <1>5. /\ Queue(r) /\ Len(r) = Len(q) /\ Carried(q, r, 0)
        /\ Builds(r) \subseteq Builds(q) /\ \A k \in Builds(r) : r[k].at = q[k].at
    BY <1>2, <1>3, <1>4, RestyledCalls
  <1>6. Builds(r) = Builds(q)
    BY <1>3, <1>5 DEF Builds
  <1>7. Heard(r) = Heard(q)
    BY <1>5, <1>6 DEF Heard
  <1> QED
    BY <1>1, <1>5, <1>7, SameParts DEF Dispose, Typed, Data, Kept

\* A manage screen is drawn another way.
Redrawn(scr, t, a, c) == t = [scr EXCEPT ![a] = c]

\* One manage screen is drawn another way, the others stay.
LEMMA RedrawnScreen ==
  ASSUME NEW scr, Standing(scr), NEW a \in Managing(scr), NEW c \in Screen, c.page = scr[a].page,
         NEW t, Redrawn(scr, t, a, c)
  PROVE  /\ Standing(t) /\ Managing(t) = Managing(scr) /\ t[a] = c
         /\ \A i \in 1..Len(scr) : i # a => t[i] = scr[i]
         /\ c.view # "waiting" => Expecting(t) = Expecting(scr) \ {a}
  <1>1. /\ Len(scr) \in Nat \ {0} /\ DOMAIN scr = 1..Len(scr)
        /\ \A i \in 1..Len(scr) : scr[i] \in Screen
        /\ Managing(scr) \subseteq 1..Len(scr)
    BY ScreenFields
  <1>2. PICK D : D = 1..Len(scr)
    OBVIOUS
  <1>3. scr \in [D -> Screen] /\ a \in D
    <2>1. scr \in [1..Len(scr) -> Screen]
      BY <1>1 DEF Standing
    <2> QED
      BY <2>1, <1>1, <1>2
  <1>4. t \in [D -> Screen] /\ t[a] = c /\ \A i \in D : i # a => t[i] = scr[i]
    BY <1>3 DEF Redrawn
  <1>5. Standing(t) /\ Managing(t) = Managing(scr)
    <2>1. t \in [1..Len(scr) -> Screen] /\ \A i \in 1..Len(scr) : t[i].page = scr[i].page
      BY <1>2, <1>4
    <2> QED
      BY <2>1, RestyledScreens
  <1>6. ASSUME c.view # "waiting" PROVE Expecting(t) = Expecting(scr) \ {a}
    <2>1. \A i \in Managing(scr) : i # a => t[i] = scr[i]
      BY <1>1, <1>2, <1>4
    <2> QED
      BY <1>4, <1>5, <1>6, <2>1 DEF Expecting
  <1> QED
    BY <1>2, <1>4, <1>5, <1>6

\* RemoveCard keeps the types, and the grids if what it asks for is its card's.
LEMMA RemoveCardStep ==
  ASSUME Typed, NEW i, RemoveCard(i), Len(net') <= MaxCalls[inOrder']
  PROVE  Typed' /\ (Honest(Requested(i)) => Kept(0))
  <1>1. PICK q, r, c : q = net /\ r = net' /\ c = Requested(i)
    OBVIOUS
  <1>2. c \in Call /\ c.kind = "delete" /\ c.got = "nothing"
    <2>1. list[i] \in Categories
      BY DEF RemoveCard, Typed, Data
    <2>2. Card(i) \in Categories \cup {NoCategory}
      <3>1. CASE "delete" \in Top.missed
        BY <3>1 DEF Card
      <3>2. CASE "delete" \notin Top.missed
        <4>1. Len(stack) \in 1..Len(stack) /\ Top.drawn \in Seq(Categories \cup {NoCategory})
          BY ScreenFields DEF Top, Typed
        <4>2. Top.drawn[i] \in Categories \cup {NoCategory}
          BY <4>1 DEF RemoveCard
        <4> QED
          BY <3>2, <4>2 DEF Card
      <3> QED
        BY <3>1, <3>2
    <2>3. PICK of, card : of = list[i] /\ card = Card(i)
      OBVIOUS
    <2>4. PICK b : b = Sent("delete")
      OBVIOUS
    <2>5. b \in Call /\ b.kind = "delete" /\ b.got = "nothing"
      BY <2>4, SentCall
    <2>6. c = [b EXCEPT !.of = of, !.card = card]
      BY <1>1, <2>3, <2>4 DEF Requested, Deletion
    <2> QED
      BY <2>1, <2>2, <2>3, <2>5, <2>6 DEF Call
  <1>3. r = Append(q, c) /\ Queue(q)
    BY <1>1 DEF RemoveCard, Typed
  <1>4. Queue(r) /\ Heard(r) = Heard(q) /\ (Honest(c) => Carried(q, r, 0))
    <2>1. c.kind # "build"
      BY <1>2
    <2> QED
      BY <1>2, <1>3, <2>1, AppendedCall
  <1>5. Typed'
    <2>1. taps' \in 0..MaxTaps
      BY PreferencesAssumption DEF RemoveCard, Typed, Data
    <2> QED
      BY <1>1, <1>4, <2>1 DEF RemoveCard, Typed, Data
  <1> QED
    BY <1>1, <1>4, <1>5, SameParts DEF RemoveCard, Kept

\* The i-th card of the visible grid is drawn from the list; nothing else changes.
Scrolled(a, i) ==
  /\ a \in Managing(stack) /\ stack[a].view = "grid" /\ i \in 1..Len(stack[a].drawn)
  /\ Managing(stack') = Managing(stack)
  /\ \A p \in Managing(stack) : p # a => stack'[p] = stack[p]
  /\ stack'[a].view = "grid" /\ stack'[a].missed = stack[a].missed
  /\ stack'[a].drawn = [stack[a].drawn EXCEPT ![i] = IF i \in DOMAIN list THEN list[i] ELSE NoCategory]
  /\ UNCHANGED <<net, prefs, list, inOrder>>

\* Scroll keeps the types and draws one card again.
LEMMA ScrollStep ==
  ASSUME Typed, NEW i, Scroll(i), Len(net') <= MaxCalls[inOrder']
  PROVE  Typed' /\ Scrolled(Len(stack), i)
  <1>1. PICK scr, t, a, s : scr = stack /\ t = stack' /\ a = Len(stack) /\ s = scr[a]
    OBVIOUS
  <1>2. /\ Standing(scr) /\ a \in 1..Len(scr) /\ DOMAIN scr = 1..Len(scr) /\ s \in Screen
        /\ Managing(scr) \subseteq 1..Len(scr)
    <2>1. Standing(scr)
      BY <1>1 DEF Typed
    <2> QED
      BY <1>1, <2>1, ScreenFields
  <1>3. /\ s.page = "manage" /\ s.view = "grid" /\ i \in DOMAIN s.drawn
        /\ UNCHANGED <<net, prefs, list, registered, inOrder, taps, failures>>
    BY <1>1 DEF Scroll, Top
  <1>4. PICK e : e = IF i \in DOMAIN list THEN list[i] ELSE NoCategory
    OBVIOUS
  <1>5. e \in Categories \cup {NoCategory}
    <2>1. list \in Seq(Categories)
      BY DEF Typed, Data
    <2>2. \A j \in DOMAIN list : list[j] \in Categories
      BY <2>1
    <2> QED
      BY <1>4, <2>2
  <1>6. PICK D : D = Categories \cup {NoCategory}
    OBVIOUS
  <1>7. PICK d : d = s.drawn
    OBVIOUS
  <1>8. d \in Seq(D)
    BY <1>2, <1>6, <1>7 DEF Screen
  <1>9. PICK f : f = [d EXCEPT ![i] = e]
    OBVIOUS
  <1>10. f \in Seq(D) /\ i \in 1..Len(d)
    <2>1. i \in DOMAIN d /\ e \in D
      BY <1>3, <1>5, <1>6, <1>7
    <2> QED
      BY <1>8, <1>9, <2>1
  <1>11. PICK c : c = [s EXCEPT !.drawn = f]
    OBVIOUS
  <1>12. c \in Screen /\ c.page = s.page /\ c.view = s.view /\ c.drawn = f /\ c.missed = s.missed
    BY <1>2, <1>6, <1>10, <1>11 DEF Screen
  <1>13. t = [scr EXCEPT ![a] = c]
    BY <1>1, <1>4, <1>7, <1>9, <1>11 DEF Scroll
  <1>14. a \in Managing(scr)
    BY <1>1, <1>2, <1>3 DEF Managing
  <1>15. /\ Standing(t) /\ Managing(t) = Managing(scr) /\ t[a] = c
         /\ \A p \in 1..Len(scr) : p # a => t[p] = scr[p]
    <2>1. c.page = scr[a].page /\ Redrawn(scr, t, a, c)
      BY <1>1, <1>12, <1>13 DEF Redrawn
    <2> QED
      BY <1>2, <1>12, <1>14, <2>1, RedrawnScreen
  <1>16. \A p \in Managing(scr) : p # a => t[p] = scr[p]
    BY <1>2, <1>15
  <1>17. Expecting(t) = Expecting(scr)
    BY <1>1, <1>12, <1>15, <1>16 DEF Expecting
  <1>18. Typed'
    BY <1>1, <1>3, <1>15, <1>17 DEF Typed, Data
  <1>19. Scrolled(a, i)
    BY <1>1, <1>3, <1>4, <1>7, <1>9, <1>10, <1>12, <1>14, <1>15, <1>16 DEF Scrolled
  <1> QED
    BY <1>1, <1>18, <1>19

\* Popping the top screen and its calls.
LEMMA PoppedParts ==
  ASSUME Typed, NEW t, t = Front(stack), NEW q, q = Orphaned(net)
  PROVE  /\ t \in Seq(Screen) /\ Len(t) < MaxDepth
         /\ Queue(q) /\ Len(q) = Len(net) /\ Carried(net, q, 0) /\ Heard(q) = Expecting(t)
         /\ \A i \in Managing(t) : i \in Managing(stack) /\ t[i] = stack[i]
  <1>1. PICK scr, p : scr = stack /\ p = net
    OBVIOUS
  <1>2. Standing(scr) /\ Queue(p) /\ Heard(p) = Expecting(scr) /\ t = Front(scr)
    BY <1>1 DEF Typed
  <1>3. /\ t \in Seq(Screen) /\ Len(scr) \in Nat \ {0} /\ Len(t) = Len(scr) - 1
        /\ \A i \in 1..Len(t) : t[i] = scr[i]
        /\ Expecting(t) = Expecting(scr) \ {Len(scr)} /\ Managing(t) = Managing(scr) \ {Len(scr)}
    BY <1>2, PoppedScreen
  <1>4. Queue(q) /\ Len(q) = Len(p) /\ Carried(p, q, 0) /\ Heard(q) = Heard(p) \ {Len(scr)}
    BY <1>1, <1>2, OrphanedCalls
  <1>5. Managing(t) \subseteq 1..Len(t)
    BY <1>3 DEF Managing
  <1>6. t \in Seq(Screen) /\ Len(t) < MaxDepth
    BY <1>2, <1>3, PreferencesAssumption DEF Standing
  <1>7. Queue(q) /\ Len(q) = Len(net) /\ Carried(net, q, 0)
    BY <1>1, <1>4
  <1>8. Heard(q) = Expecting(t)
    BY <1>2, <1>3, <1>4
  <1>9. \A i \in Managing(t) : i \in Managing(stack) /\ t[i] = stack[i]
    BY <1>1, <1>3, <1>5
  <1> QED
    BY <1>6, <1>7, <1>8, <1>9

\* What a loop or a choice uploads next.
LEMMA UploadCall ==
  ASSUME NEW s \in Seq(Categories), s # <<>>, NEW l \in {"shown", "exiting", "gone"},
         NEW c, c = Upload(s, l)
  PROVE  c \in Call /\ c.kind = "add" /\ c.got = "nothing" /\ c.of \in Categories
  <1>1. PICK b, h, tl : b = Sent("add") /\ h = Head(s) /\ tl = Tail(s)
    OBVIOUS
  <1>2. h \in Categories /\ tl \in Seq(Categories)
    BY <1>1, HeadTailProperties
  <1>3. b \in Call /\ b.kind = "add" /\ b.got = "nothing"
    BY <1>1, SentCall
  <1>4. b.life = "shown"
    BY <1>1 DEF Sent
  <1>5. c = [b EXCEPT !.of = h, !.rest = tl, !.life = l]
    BY <1>1 DEF Upload
  <1> QED
    BY <1>2, <1>3, <1>5 DEF Call

\* The lists the reader starts with, or chooses, are sequences without repetition.
LEMMA ListsAreSequences ==
  ASSUME NEW n \in Nat, NEW s \in Lists(n)
  PROVE  s \in Seq(Categories) /\ IsInjective(s)
  <1>1. PICK m \in 0..n : s \in [1..m -> Categories]
    BY DEF Lists, BoundedSeq, SeqOf
  <1> QED
    BY <1>1, SequenceOf DEF Lists

\* Choose keeps the types and the grids, whether it starts a loop or shows a manage screen.
LEMMA ChooseStep ==
  ASSUME Typed, NEW s, Choose(s), Len(net') <= MaxCalls[inOrder']
  PROVE  Typed' /\ Kept(0)
  <1>1. taps' \in 0..MaxTaps
    BY PreferencesAssumption DEF Choose, Typed, Data
  <1>2. CASE s = <<>>
    <2>1. PICK below, calls : below = Front(stack) /\ calls = Orphaned(net)
      OBVIOUS
    <2>2. /\ below \in Seq(Screen) /\ Len(below) < MaxDepth
          /\ Queue(calls) /\ Carried(net, calls, 0) /\ Heard(calls) = Expecting(below)
          /\ \A i \in Managing(below) : i \in Managing(stack) /\ below[i] = stack[i]
      BY <2>1, PoppedParts
    <2>3. ShowManage(below, calls) /\ registered \in BOOLEAN
      BY <1>2, <2>1 DEF Choose, Typed, Data
    <2>4. /\ Standing(stack') /\ Queue(net') /\ Heard(net') = Expecting(stack') /\ registered' \in BOOLEAN
          /\ Carried(calls, net', 0) /\ SameGrids(below, stack') /\ SameBuilds(below, stack', net')
      BY <2>2, <2>3, ShowManageStep
    <2>5. SameGrids(stack, stack') /\ SameBuilds(stack, stack', net')
      BY <2>2, <2>4 DEF SameGrids, SameBuilds
    <2>6. Carried(net, net', 0)
      <3>1. net \in Seq(Call) /\ calls \in Seq(Call) /\ net' \in Seq(Call)
        BY <2>2, <2>4 DEF Typed, Queue
      <3> QED
        BY <3>1, <2>2, <2>4, CarriedLater
    <2> QED
      BY <1>1, <2>4, <2>5, <2>6 DEF Choose, Typed, Data, Kept
  <1>3. CASE s # <<>>
    <2>1. PICK q, r, c : q = net /\ r = net' /\ c = Upload(s, "shown")
      OBVIOUS
    <2>2. s \in Seq(Categories)
      BY ListsAreSequences, PreferencesAssumption DEF Choose, Selections
    <2>3. c \in Call /\ c.kind = "add" /\ c.got = "nothing" /\ c.of \in Categories
      BY <1>3, <2>1, <2>2, UploadCall
    <2>4. r = Append(q, c) /\ Queue(q) /\ stack' = stack /\ registered' = registered
      BY <1>3, <2>1 DEF Choose, Typed
    <2>5. Queue(r) /\ Heard(r) = Heard(q) /\ Carried(q, r, 0)
      <3>1. c.kind # "build" /\ Honest(c)
        BY <2>3 DEF Honest
      <3> QED
        BY <2>3, <2>4, <3>1, AppendedCall
    <2> QED
      BY <1>1, <2>1, <2>4, <2>5, SameParts DEF Choose, Typed, Data, Kept
  <1> QED
    BY <1>2, <1>3

\* An answer arrives.
LEMMA ArrivedCall ==
  ASSUME Typed, NEW n, n \in DOMAIN net, NEW r, r = RemoveAt(net, n)
  PROVE  /\ n \in 1..Len(net) /\ net[n] \in Call
         /\ Queue(r) /\ Len(r) = Len(net) - 1 /\ Carried(net, r, n)
         /\ Heard(r) = Expecting(stack) \ (IF net[n].kind = "build" THEN {net[n].at} ELSE {})
  <1>1. PICK q : q = net
    OBVIOUS
  <1>2. Queue(q) /\ n \in 1..Len(q) /\ q[n] \in Call
    BY <1>1, CallFields DEF Typed, Queue
  <1>3. /\ Queue(r) /\ Len(r) = Len(q) - 1 /\ Carried(q, r, n)
        /\ Heard(r) = Heard(q) \ (IF q[n].kind = "build" THEN {q[n].at} ELSE {})
    BY <1>1, <1>2, RemovedCall
  <1> QED
    BY <1>1, <1>2, <1>3 DEF Typed

\* A call that no FutureBuilder listens to is dropped.
LEMMA DroppedStep ==
  ASSUME Typed, NEW n, n \in DOMAIN net, net[n].kind # "build", net' = RemoveAt(net, n),
         Len(net') <= MaxCalls[inOrder'],
         UNCHANGED <<stack, prefs, list, registered, inOrder, taps, failures>>
  PROVE  Typed' /\ Kept(n)
  <1>1. PICK r : r = net'
    OBVIOUS
  <1>2. Queue(r) /\ Carried(net, r, n) /\ Heard(r) = Expecting(stack)
    BY <1>1, ArrivedCall
  <1>3. Heard(r) = Heard(net)
    BY <1>2 DEF Typed
  <1> QED
    BY <1>1, <1>2, <1>3, SameParts DEF Typed, Data, Kept

\* NotDeleted keeps the types and the grids.
LEMMA NotDeletedStep ==
  ASSUME Typed, NEW n, NotDeleted(n), Len(net') <= MaxCalls[inOrder']
  PROVE  Typed' /\ Kept(n)
  BY DroppedStep DEF NotDeleted, Arrived

\* AddFailed keeps the types and the grids.
LEMMA AddFailedStep ==
  ASSUME Typed, NEW n, AddFailed(n), Len(net') <= MaxCalls[inOrder']
  PROVE  Typed' /\ Kept(n)
  BY DroppedStep DEF AddFailed, Arrived

\* AddedOne keeps the types and the grids.
LEMMA AddedOneStep ==
  ASSUME Typed, NEW n, AddedOne(n), Len(net') <= MaxCalls[inOrder']
  PROVE  Typed' /\ Kept(n)
  <1>1. PICK q, r, c : q = RemoveAt(net, n) /\ r = net' /\ c = Upload(net[n].rest, net[n].life)
    OBVIOUS
  <1>2. /\ n \in DOMAIN net /\ net[n].kind = "add" /\ net[n].rest # <<>>
        /\ r = Append(q, c) /\ stack' = stack
    BY <1>1 DEF AddedOne, Arrived
  <1>3. net[n] \in Call /\ Queue(q) /\ Carried(net, q, n) /\ Heard(q) = Expecting(stack)
    BY <1>1, <1>2, ArrivedCall
  <1>4. net[n].rest \in Seq(Categories) /\ net[n].life \in {"shown", "exiting", "gone"}
    BY <1>3 DEF Call
  <1>5. c \in Call /\ c.kind = "add" /\ c.got = "nothing" /\ c.of \in Categories
    BY <1>1, <1>2, <1>4, UploadCall
  <1>6. Queue(r) /\ Heard(r) = Heard(q) /\ Carried(q, r, 0)
    <2>1. c.kind # "build" /\ Honest(c)
      BY <1>5 DEF Honest
    <2> QED
      BY <1>2, <1>3, <1>5, <2>1, AppendedCall
  <1>7. Carried(net, r, n)
    <2>1. net \in Seq(Call) /\ q \in Seq(Call) /\ r \in Seq(Call)
      BY <1>3, <1>6 DEF Typed, Queue
    <2> QED
      BY <2>1, <1>3, <1>6, CarriedLater
  <1>8. Heard(r) = Heard(net)
    BY <1>3, <1>6 DEF Typed
  <1> QED
    BY <1>1, <1>2, <1>3, <1>6, <1>7, <1>8, SameParts DEF AddedOne, Typed, Data, Kept

\* AddedAll keeps the types and the grids, whatever screen its manage screen replaces.
LEMMA AddedAllStep ==
  ASSUME Typed, NEW n, AddedAll(n), Len(net') <= MaxCalls[inOrder']
  PROVE  Typed' /\ Kept(n)
  <1>1. n \in DOMAIN net /\ net[n].kind = "add"
    BY DEF AddedAll, Arrived
  <1>2. CASE net[n].life = "gone"
    <2>1. net' = RemoveAt(net, n) /\ UNCHANGED <<stack, prefs, list, registered, inOrder, taps, failures>>
      BY <1>2 DEF AddedAll
    <2> QED
      BY <1>1, <2>1, DroppedStep
  <1>3. CASE net[n].life # "gone"
    <2>1. PICK below, q, calls : below = Front(stack) /\ q = Orphaned(net) /\ calls = RemoveAt(q, n)
      OBVIOUS
    <2>2. /\ below \in Seq(Screen) /\ Len(below) < MaxDepth
          /\ Queue(q) /\ Len(q) = Len(net) /\ Carried(net, q, 0) /\ Heard(q) = Expecting(below)
          /\ \A i \in Managing(below) : i \in Managing(stack) /\ below[i] = stack[i]
      BY <2>1, PoppedParts
    <2>3. n \in 1..Len(net) /\ n # 0 /\ Len(net) \in Nat
      BY <1>1 DEF Typed, Queue
    <2>4. n \in 1..Len(q) /\ q[n].kind # "build"
      BY <1>1, <2>2, <2>3 DEF Carried, Place, Alike
    <2>5. Queue(calls) /\ Carried(q, calls, n) /\ Heard(calls) = Expecting(below)
      <3>1. /\ Queue(calls) /\ Carried(q, calls, n)
            /\ Heard(calls) = Heard(q) \ (IF q[n].kind = "build" THEN {q[n].at} ELSE {})
        BY <2>1, <2>2, <2>4, RemovedCall
      <3> QED
        BY <3>1, <2>2, <2>4
    <2>6. ShowManage(below, calls) /\ registered \in BOOLEAN
      BY <1>3, <2>1 DEF AddedAll, Typed, Data
    <2>7. /\ Standing(stack') /\ Queue(net') /\ Heard(net') = Expecting(stack') /\ registered' \in BOOLEAN
          /\ Carried(calls, net', 0) /\ SameGrids(below, stack') /\ SameBuilds(below, stack', net')
      BY <2>2, <2>5, <2>6, ShowManageStep
    <2>8. SameGrids(stack, stack') /\ SameBuilds(stack, stack', net')
      BY <2>2, <2>7 DEF SameGrids, SameBuilds
    <2>9. Carried(net, net', n)
      <3>1. net \in Seq(Call) /\ q \in Seq(Call) /\ calls \in Seq(Call) /\ net' \in Seq(Call) /\ n \in 0..Len(net)
        BY <2>2, <2>3, <2>5, <2>7 DEF Typed, Queue
      <3>2. Carried(net, calls, n)
        BY <3>1, <2>2, <2>5, CarriedBefore
      <3> QED
        BY <3>1, <3>2, <2>7, CarriedLater
    <2> QED
      BY <2>7, <2>8, <2>9 DEF AddedAll, Typed, Data, Kept
  <1> QED
    BY <1>2, <1>3

\* The screen whose FutureBuilder listens to call n.
LEMMA Listener ==
  ASSUME Typed, NEW n, n \in DOMAIN net, net[n].kind = "build"
  PROVE  net[n].at \in Managing(stack) /\ stack[net[n].at].view = "waiting" /\ stack[net[n].at] \in Screen
  <1>1. n \in Builds(net)
    BY DEF Builds, Typed, Queue
  <1>2. net[n].at \in Expecting(stack)
    BY <1>1 DEF Heard, Typed
  <1>3. Managing(stack) \subseteq 1..Len(stack) /\ \A i \in 1..Len(stack) : stack[i] \in Screen
    BY ScreenFields DEF Typed
  <1> QED
    BY <1>2, <1>3 DEF Expecting

\* FetchFailed keeps the types; the screen that listened shows an error, no grid.
LEMMA FetchFailedStep ==
  ASSUME Typed, NEW n, FetchFailed(n), Len(net') <= MaxCalls[inOrder']
  PROVE  Typed' /\ Kept(n)
  <1>1. /\ n \in DOMAIN net /\ net[n].kind \in {"fetch", "build"} /\ net' = RemoveAt(net, n)
        /\ UNCHANGED <<prefs, list, registered, inOrder, taps, failures>>
    BY DEF FetchFailed, Arrived
  <1>2. CASE net[n].kind = "fetch"
    <2>1. stack' = stack /\ net[n].kind # "build"
      BY <1>2 DEF FetchFailed
    <2> QED
      BY <1>1, <2>1, DroppedStep
  <1>3. CASE net[n].kind = "build"
    <2>1. PICK a, s, scr, r, t : a = net[n].at /\ scr = stack /\ s = scr[a] /\ r = net' /\ t = stack'
      OBVIOUS
    <2>2. Standing(scr) /\ a \in Managing(scr) /\ s \in Screen
      BY <1>1, <1>3, <2>1, Listener DEF Typed
    <2>3. PICK c : c = [s EXCEPT !.view = "error"]
      OBVIOUS
    <2>4. c \in Screen /\ c.page = s.page /\ c.view = "error" /\ c.missed = s.missed
      BY <2>2, <2>3 DEF Screen
    <2>5. t = [scr EXCEPT ![a] = c]
      BY <1>3, <2>1, <2>3 DEF FetchFailed
    <2>6. /\ Standing(t) /\ Managing(t) = Managing(scr) /\ t[a] = c
          /\ \A i \in 1..Len(scr) : i # a => t[i] = scr[i]
          /\ Expecting(t) = Expecting(scr) \ {a}
      <3>1. c.page = scr[a].page /\ c.view # "waiting"
        BY <2>1, <2>4
      <3>2. Standing(scr) /\ a \in Managing(scr) /\ c \in Screen /\ Redrawn(scr, t, a, c)
        BY <2>2, <2>4, <2>5 DEF Redrawn
      <3> QED
        BY <3>1, <3>2, RedrawnScreen
    <2>7. Queue(r) /\ Carried(net, r, n) /\ Heard(r) = Expecting(scr) \ {a}
      BY <1>1, <1>3, <2>1, ArrivedCall
    <2>8. \A i \in Managing(scr) : i # a => t[i] = scr[i]
      BY <2>2, <2>6, ScreenFields
    <2>9. SameGrids(scr, t)
      BY <2>1, <2>4, <2>6, <2>8 DEF SameGrids
    <2>10. SameBuilds(scr, t, r)
      <3>1. \A k \in Builds(r) : r[k].at \in Managing(scr) /\ r[k].at # a
        BY <2>7 DEF Heard, Expecting
      <3> QED
        BY <3>1, <2>8 DEF SameBuilds
    <2> QED
      BY <1>1, <2>1, <2>6, <2>7, <2>9, <2>10 DEF Typed, Data, Kept
  <1> QED
    BY <1>1, <1>2, <1>3

\* What the calls that fetch the preferences bring.
Fetching(c) == c.kind \in {"fetch", "build"}

Listens(n, p) == net[n].kind = "build" /\ p = net[n].at

\* The list of call n has arrived. A grid that does not listen to it keeps its cards, and has
\* missed nothing only if the answer succeeded and is in order or true.
Brought(n) ==
  /\ n \in 1..Len(net) /\ (inOrder => n = 1)
  /\ Fetching(net[n]) /\ net[n].got \in {"ok", "refused"} /\ net[n].answer \in Seq(Categories)
  /\ Carried(net, net', n) /\ list' = net[n].answer /\ UNCHANGED <<prefs, inOrder>>
  /\ Managing(stack') = Managing(stack)
  /\ \A p \in Managing(stack) : Listens(n, p) =>
       /\ stack'[p].drawn = net[n].answer
       /\ stack'[p].missed = stack[p].missed \cup (IF net[n].got = "ok" THEN {} ELSE {"list"})
  /\ \A p \in Managing(stack) : ~Listens(n, p) =>
       /\ stack'[p].view = stack[p].view /\ stack'[p].drawn = stack[p].drawn
       /\ stack[p].missed \subseteq stack'[p].missed
       /\ \/ stack'[p].missed = stack[p].missed
          \/ "list" \in stack'[p].missed
       /\ stack[p].view = "waiting" => stack'[p].missed = stack[p].missed
       /\ stack[p].view = "grid" /\ stack'[p].missed = {} =>
            net[n].got = "ok" /\ (inOrder \/ net[n].answer = prefs)
  /\ \A j \in Builds(net') : /\ net'[j].at \in Managing(stack) /\ stack[net'[j].at].view = "waiting"
                             /\ ~Listens(n, net'[j].at)

\* The screen that listens is drawn from what was answered.
LEMMA DrawnScreen ==
  ASSUME NEW s \in Screen, NEW k \in Call, k.got \in {"ok", "refused"}, NEW c, c = Drawn(s, k)
  PROVE  /\ c \in Screen /\ c.page = s.page /\ c.view = "grid" /\ c.drawn = k.answer
         /\ c.missed = s.missed \cup (IF k.got = "ok" THEN {} ELSE {"list"})
  <1>1. PICK M : M = s.missed \cup (IF k.got = "ok" THEN {} ELSE {"list"})
    OBVIOUS
  <1>2. M \in SUBSET {"delete", "add", "list"}
    BY <1>1 DEF Screen
  <1>3. PICK ans : ans = k.answer
    OBVIOUS
  <1>4. ans \in Seq(Categories \cup {NoCategory})
    <2>1. PICK D : D = Categories \cup {NoCategory}
      OBVIOUS
    <2>2. ans \in Seq(Categories) /\ Categories \subseteq D
      BY <1>3, <2>1 DEF Call
    <2>3. ans \in Seq(D)
      BY <2>2
    <2> QED
      BY <2>1, <2>3
  <1>5. c = [s EXCEPT !.view = "grid", !.drawn = ans, !.missed = M]
    BY <1>1, <1>3 DEF Drawn
  <1> QED
    BY <1>1, <1>2, <1>3, <1>4, <1>5 DEF Screen

\* A grid that does not listen keeps its cards.
LEMMA OverwrittenScreen ==
  ASSUME NEW s \in Screen, NEW k, NEW c, c = Overwritten(s, k)
  PROVE  /\ c \in Screen /\ c.page = s.page /\ c.view = s.view /\ c.drawn = s.drawn
         /\ s.missed \subseteq c.missed /\ (c.missed = s.missed \/ "list" \in c.missed)
         /\ s.view = "waiting" => c.missed = s.missed
         /\ s.view = "grid" /\ c.missed = {} => k.got = "ok" /\ (inOrder \/ k.answer = prefs)
  <1>1. CASE s.view = "grid" /\ (k.got # "ok" \/ (~inOrder /\ k.answer # prefs))
    <2>1. PICK M : M = s.missed \cup {"list"}
      OBVIOUS
    <2>2. M \in SUBSET {"delete", "add", "list"}
      BY <2>1 DEF Screen
    <2>3. c = [s EXCEPT !.missed = M]
      BY <1>1, <2>1 DEF Overwritten
    <2>4. c \in Screen /\ c.page = s.page /\ c.view = s.view /\ c.drawn = s.drawn /\ c.missed = M
      BY <2>2, <2>3 DEF Screen
    <2> QED
      BY <1>1, <2>1, <2>4
  <1>2. CASE ~(s.view = "grid" /\ (k.got # "ok" \/ (~inOrder /\ k.answer # prefs)))
    <2>1. c = s
      BY <1>2 DEF Overwritten
    <2> QED
      BY <1>2, <2>1
  <1> QED
    BY <1>1, <1>2

\* Fetched keeps the types and draws what was answered on the screen that listens.
LEMMA FetchedStep ==
  ASSUME Typed, NEW n, Fetched(n), Len(net') <= MaxCalls[inOrder']
  PROVE  Typed' /\ Brought(n)
  <1>1. /\ n \in DOMAIN net /\ net[n].kind \in {"fetch", "build"} /\ net' = RemoveAt(net, n)
        /\ net[n].got \in {"ok", "refused"} /\ (inOrder => n = 1) /\ list' = net[n].answer
        /\ UNCHANGED <<prefs, registered, inOrder, taps, failures>>
    BY DEF Fetched, Arrived
  <1>2. PICK r, k, scr, t : r = net' /\ k = net[n] /\ scr = stack /\ t = stack'
    OBVIOUS
  <1>3. /\ n \in 1..Len(net) /\ k \in Call /\ Queue(r) /\ Carried(net, r, n)
        /\ Heard(r) = Expecting(scr) \ (IF k.kind = "build" THEN {k.at} ELSE {})
    BY <1>1, <1>2, ArrivedCall
  <1>4. k.answer \in Seq(Categories) /\ k.got \in {"ok", "refused"}
    BY <1>1, <1>2, <1>3 DEF Call
  <1>5. \A j \in Builds(r) : /\ r[j].at \in Managing(scr) /\ scr[r[j].at].view = "waiting"
                             /\ ~(k.kind = "build" /\ r[j].at = k.at)
    BY <1>3 DEF Heard, Expecting
  <1>6. /\ Standing(scr) /\ DOMAIN scr = 1..Len(scr) /\ Managing(scr) \subseteq 1..Len(scr)
        /\ \A i \in 1..Len(scr) : scr[i] \in Screen
    <2>1. Standing(scr)
      BY <1>2 DEF Typed
    <2> QED
      BY <2>1, ScreenFields
  <1>7. t = [i \in 1..Len(scr) |-> IF k.kind = "build" /\ i = k.at THEN Drawn(scr[i], k)
                                     ELSE Overwritten(scr[i], k)]
    BY <1>2, <1>6 DEF Fetched
  <1>8. ASSUME NEW i \in 1..Len(scr), k.kind = "build" /\ i = k.at
        PROVE  /\ t[i] \in Screen /\ t[i].page = scr[i].page /\ t[i].view = "grid" /\ t[i].drawn = k.answer
               /\ t[i].missed = scr[i].missed \cup (IF k.got = "ok" THEN {} ELSE {"list"})
    <2>1. t[i] = Drawn(scr[i], k) /\ scr[i] \in Screen
      BY <1>6, <1>7, <1>8
    <2> QED
      BY <1>3, <1>4, <2>1, DrawnScreen
  <1>9. ASSUME NEW i \in 1..Len(scr), ~(k.kind = "build" /\ i = k.at)
        PROVE  /\ t[i] \in Screen /\ t[i].page = scr[i].page /\ t[i].view = scr[i].view /\ t[i].drawn = scr[i].drawn
               /\ scr[i].missed \subseteq t[i].missed /\ (t[i].missed = scr[i].missed \/ "list" \in t[i].missed)
               /\ scr[i].view = "waiting" => t[i].missed = scr[i].missed
               /\ scr[i].view = "grid" /\ t[i].missed = {} => k.got = "ok" /\ (inOrder \/ k.answer = prefs)
    <2>1. t[i] = Overwritten(scr[i], k) /\ scr[i] \in Screen
      BY <1>6, <1>7, <1>9
    <2> QED
      BY <2>1, OverwrittenScreen
  <1>10. Standing(t) /\ Managing(t) = Managing(scr)
    <2>1. \A i \in 1..Len(scr) : t[i] \in Screen /\ t[i].page = scr[i].page
      BY <1>8, <1>9
    <2>2. t \in [1..Len(scr) -> Screen]
      BY <1>7, <2>1
    <2> QED
      BY <1>6, <2>1, <2>2, RestyledScreens
  <1>11. Heard(r) = Expecting(t)
    <2>1. \A i \in Managing(scr) : t[i].view = "waiting" <=> scr[i].view = "waiting" /\ ~(k.kind = "build" /\ i = k.at)
      BY <1>6, <1>8, <1>9
    <2> QED
      BY <1>3, <1>10, <2>1 DEF Expecting
  <1>12. Typed'
    BY <1>1, <1>2, <1>3, <1>4, <1>10, <1>11 DEF Typed, Data
  <1>13. Brought(n)
    <2>1. /\ \A p \in Managing(scr) : Listens(n, p) =>
               t[p].drawn = k.answer /\ t[p].missed = scr[p].missed \cup (IF k.got = "ok" THEN {} ELSE {"list"})
          /\ \A p \in Managing(scr) : ~Listens(n, p) =>
               /\ t[p].view = scr[p].view /\ t[p].drawn = scr[p].drawn
               /\ scr[p].missed \subseteq t[p].missed /\ (t[p].missed = scr[p].missed \/ "list" \in t[p].missed)
               /\ scr[p].view = "waiting" => t[p].missed = scr[p].missed
               /\ scr[p].view = "grid" /\ t[p].missed = {} => k.got = "ok" /\ (inOrder \/ k.answer = prefs)
      BY <1>2, <1>6, <1>8, <1>9 DEF Listens
    <2> QED
      BY <1>1, <1>2, <1>3, <1>4, <1>5, <1>10, <2>1 DEF Brought, Fetching, Listens
  <1> QED
    BY <1>12, <1>13

\* Every manage screen waits for a call that is not served.
Anew(n) ==
  /\ n \in 1..Len(net) /\ (inOrder => n = 1) /\ Carried(net, net', n)
  /\ \A p \in Managing(stack') : stack'[p].view = "waiting"
  /\ \A k \in Builds(net') : net'[k].got = "nothing"
  /\ UNCHANGED <<prefs, list, inOrder>>

\* Deleted keeps the types, and update() leaves no grid and no old answer behind.
LEMMA DeletedStep ==
  ASSUME Typed, NEW n, Deleted(n), Len(net') <= MaxCalls[inOrder']
  PROVE  Typed' /\ Anew(n)
  <1>1. /\ n \in DOMAIN net /\ net[n].kind = "delete" /\ (inOrder => n = 1)
        /\ UNCHANGED <<prefs, list, registered, inOrder, taps, failures>>
    BY DEF Deleted, Arrived
  <1>2. PICK scr, t, p, q, f, r : /\ scr = stack /\ t = stack' /\ p = RemoveAt(net, n) /\ f = Sent("fetch")
                                  /\ q = Append(p, f) /\ r = net'
    OBVIOUS
  <1>3. Standing(scr) /\ Heard(net) = Expecting(scr)
    BY <1>2 DEF Typed
  <1>4. PICK places \in Ascending(Managing(scr)) : r = Refetched(q, places)
    BY <1>2 DEF Deleted, Updated
  <1>5. n \in 1..Len(net) /\ Queue(p) /\ Carried(net, p, n) /\ Heard(p) = Expecting(scr)
    <2>1. /\ n \in 1..Len(net) /\ Queue(p) /\ Carried(net, p, n)
          /\ Heard(p) = Expecting(stack) \ (IF net[n].kind = "build" THEN {net[n].at} ELSE {})
      BY <1>1, <1>2, ArrivedCall
    <2> QED
      BY <1>1, <1>2, <2>1
  <1>6. Queue(q) /\ Heard(q) = Heard(p) /\ Carried(p, q, 0)
    <2>1. f \in Call /\ f.kind = "fetch" /\ f.got = "nothing"
      BY <1>2, SentCall
    <2>2. f.kind # "build" /\ Honest(f)
      BY <2>1 DEF Honest
    <2> QED
      BY <1>2, <1>5, <2>1, <2>2, AppendedCall
  <1>7. /\ Len(places) \in Nat /\ places \in Seq(1..MaxDepth) /\ IsInjective(places)
        /\ \A i : i \in Managing(scr) <=> \E m \in 1..Len(places) : places[m] = i
    <2>1. /\ places \in Seq(1..MaxDepth) /\ IsInjective(places)
          /\ \A i : i \in Managing(scr) <=> \E m \in 1..Len(places) : places[m] = i
      BY <1>3, <1>4, AscendingPlaces
    <2> QED
      BY <2>1
  <1>8. /\ Queue(r) /\ Carried(q, r, 0)
        /\ \A i : i \in Heard(r) <=> i \in Heard(q) \/ \E m \in 1..Len(places) : places[m] = i
        /\ \A k \in Builds(r) : (\E m \in 1..Len(places) : places[m] = r[k].at) => r[k].got = "nothing"
    BY <1>4, <1>6, <1>7, RefetchedCalls
  <1>9. Heard(r) = Managing(scr)
    BY <1>5, <1>6, <1>7, <1>8 DEF Expecting
  <1>10. \A k \in Builds(r) : r[k].got = "nothing"
    <2>1. \A k \in Builds(r) : \E m \in 1..Len(places) : places[m] = r[k].at
      BY <1>7, <1>9 DEF Heard
    <2> QED
      BY <1>8, <2>1
  <1>11. Carried(net, r, n)
    <2>1. net \in Seq(Call) /\ p \in Seq(Call) /\ q \in Seq(Call) /\ r \in Seq(Call)
      BY <1>5, <1>6, <1>8 DEF Typed, Queue
    <2>2. Carried(net, q, n)
      BY <2>1, <1>5, <1>6, CarriedLater
    <2> QED
      BY <2>1, <2>2, <1>8, CarriedLater
  <1>12. /\ Standing(t) /\ Managing(t) = Managing(scr)
         /\ \A i \in Managing(scr) : t[i].view = "waiting"
    <2>1. /\ DOMAIN scr = 1..Len(scr) /\ Managing(scr) \subseteq 1..Len(scr)
          /\ \A i \in 1..Len(scr) : scr[i] \in Screen
      BY <1>3, ScreenFields
    <2>2. t = [i \in 1..Len(scr) |-> IF i \in Managing(scr)
                                       THEN [scr[i] EXCEPT !.view = "waiting", !.drawn = <<>>] ELSE scr[i]]
      BY <1>2, <2>1 DEF Deleted, Waiting, Updated
    <2>3. ASSUME NEW i \in 1..Len(scr)
          PROVE  t[i] \in Screen /\ t[i].page = scr[i].page /\ (i \in Managing(scr) => t[i].view = "waiting")
      <3>1. PICK c, d : c = scr[i] /\ d = [c EXCEPT !.view = "waiting", !.drawn = <<>>] /\ c \in Screen
        BY <2>1
      <3>2. d \in Screen /\ d.page = c.page /\ d.view = "waiting"
        <4>1. <<>> \in Seq(Categories \cup {NoCategory})
          BY EmptySeq
        <4> QED
          BY <3>1, <4>1 DEF Screen
      <3>3. t[i] = IF i \in Managing(scr) THEN d ELSE c
        BY <2>2, <3>1
      <3> QED
        BY <3>1, <3>2, <3>3
    <2>4. t \in [1..Len(scr) -> Screen]
      BY <2>2, <2>3
    <2>5. Standing(t) /\ Managing(t) = Managing(scr)
      BY <1>3, <2>3, <2>4, RestyledScreens
    <2> QED
      BY <2>1, <2>3, <2>5
  <1>13. Heard(r) = Expecting(t)
    BY <1>9, <1>12 DEF Expecting
  <1> QED
    BY <1>1, <1>2, <1>5, <1>8, <1>10, <1>11, <1>12, <1>13 DEF Typed, Data, Anew

Removes(c) == c.kind = "delete" /\ c.got = "ok"

\* Up to the next removal the backend only adds.
Agree(s, t) == \A i \in 1..Len(s) : i <= Len(t) => s[i] = t[i]
Opens(s, t) == Len(s) <= Len(t) /\ Agree(s, t)

\* The backend serves call n: the calls and the screens stay where they are.
Served(n) ==
  /\ n \in 1..Len(net) /\ net[n].got = "nothing" /\ net'[n].got # "nothing"
  /\ inOrder => \A m \in 1..(n - 1) : net[m].got # "nothing"
  /\ Queue(net') /\ Len(net') = Len(net) /\ Builds(net') = Builds(net)
  /\ \A k \in 1..Len(net) : k # n => net'[k] = net[k]
  /\ net'[n].kind = net[n].kind /\ net'[n].at = net[n].at /\ net'[n].of = net[n].of /\ net'[n].card = net[n].card
  /\ UNCHANGED <<list, inOrder>> /\ Managing(stack') = Managing(stack)
  /\ \A p \in Managing(stack) : stack'[p].view = stack[p].view /\ stack'[p].drawn = stack[p].drawn

\* A fetch changes at most what the screen that listens to it has missed.
Read(n) ==
  /\ Fetching(net[n]) /\ UNCHANGED prefs
  /\ net'[n].answer = prefs \/ (net'[n].answer = <<>> /\ net'[n].got # "ok")
  /\ \A p \in Managing(stack) : stack'[p].missed = stack[p].missed
                                \/ (net[n].kind = "build" /\ net[n].at = p)

\* Either somebody will learn of a removal, or every manage screen has missed it.
Deleting(n) ==
  /\ ~Fetching(net[n])
  /\ \/ Removes(net'[n]) /\ UNCHANGED stack
     \/ \A p \in Managing(stack) : "delete" \in stack'[p].missed
     \/ UNCHANGED <<prefs, stack>>

Adding(n) ==
  /\ net[n].kind = "add" /\ Opens(prefs, prefs')
  /\ \/ \A p \in Managing(stack) : stack'[p].missed = stack[p].missed \cup {"add"}
     \/ UNCHANGED <<prefs, stack>>

\* Serving a call changes no FutureBuilder.
LEMMA Answering ==
  ASSUME Typed, NEW n, Unserved(n), NEW got, NEW answer \in Seq(Categories), Answered(n, got, answer)
  PROVE  /\ n \in 1..Len(net) /\ net[n].got = "nothing" /\ net'[n].got = got /\ got \in {"ok", "refused", "failed"}
         /\ net'[n].answer = answer
         /\ Queue(net') /\ Len(net') = Len(net) /\ Heard(net') = Heard(net) /\ Builds(net') = Builds(net)
         /\ \A k \in 1..Len(net) : k # n => net'[k] = net[k]
         /\ net'[n].kind = net[n].kind /\ net'[n].at = net[n].at /\ net'[n].of = net[n].of /\ net'[n].card = net[n].card
         /\ failures' \in 0..MaxFailures
  <1>1. PICK q, r : q = net /\ r = net'
    OBVIOUS
  <1>2. Queue(q) /\ n \in 1..Len(q) /\ q[n].got = "nothing"
    BY <1>1, CallFields DEF Typed, Unserved, Queue
  <1>3. got \in {"ok", "refused", "failed"}
    BY PreferencesAssumption DEF Answered
  <1>4. Marked(q, r, n, got, answer)
    BY <1>1 DEF Answered, Marked
  <1>5. /\ Queue(r) /\ Len(r) = Len(q) /\ Heard(r) = Heard(q) /\ Builds(r) = Builds(q)
        /\ \A k \in 1..Len(q) : k # n => r[k] = q[k]
        /\ \A k \in 1..Len(q) : r[k].kind = q[k].kind /\ r[k].at = q[k].at /\ r[k].of = q[k].of /\ r[k].card = q[k].card
        /\ r[n].got = got /\ r[n].answer = answer
    BY <1>2, <1>3, <1>4, ServedCall
  <1>6. failures' \in 0..MaxFailures
    BY PreferencesAssumption DEF Answered, Typed, Data
  <1> QED
    BY <1>1, <1>2, <1>3, <1>5, <1>6

\* What has been missed is nothing that a screen shows.
LEMMA MissedScreens ==
  ASSUME NEW scr, Standing(scr), NEW t, t \in [1..Len(scr) -> Screen],
         \A i \in 1..Len(scr) : t[i].page = scr[i].page /\ t[i].view = scr[i].view /\ t[i].drawn = scr[i].drawn
  PROVE  /\ Standing(t) /\ Managing(t) = Managing(scr) /\ Expecting(t) = Expecting(scr)
         /\ \A p \in Managing(scr) : t[p].view = scr[p].view /\ t[p].drawn = scr[p].drawn
  <1>1. Standing(t) /\ Managing(t) = Managing(scr)
    BY RestyledScreens
  <1>2. Managing(scr) \subseteq 1..Len(scr)
    BY ScreenFields
  <1> QED
    BY <1>1, <1>2 DEF Expecting

\* The manage screens have missed one more change of the backend.
LEMMA UnawareScreens ==
  ASSUME Typed, NEW kind \in {"delete", "add"}, NEW t, t = Unaware(kind)
  PROVE  /\ Standing(t) /\ Managing(t) = Managing(stack) /\ Expecting(t) = Expecting(stack)
         /\ \A p \in Managing(stack) : /\ t[p].view = stack[p].view /\ t[p].drawn = stack[p].drawn
                                       /\ t[p].missed = stack[p].missed \cup {kind}
  <1>1. PICK scr : scr = stack
    OBVIOUS
  <1>2. Standing(scr)
    BY <1>1 DEF Typed
  <1>3. /\ DOMAIN scr = 1..Len(scr) /\ Managing(scr) \subseteq 1..Len(scr)
        /\ \A i \in 1..Len(scr) : scr[i] \in Screen
    BY <1>2, ScreenFields
  <1>4. t = [i \in 1..Len(scr) |-> IF i \in Managing(scr) THEN [scr[i] EXCEPT !.missed = @ \cup {kind}] ELSE scr[i]]
    BY <1>1, <1>3 DEF Unaware
  <1>5. ASSUME NEW i \in 1..Len(scr)
        PROVE  /\ t[i] \in Screen /\ t[i].page = scr[i].page /\ t[i].view = scr[i].view /\ t[i].drawn = scr[i].drawn
               /\ i \in Managing(scr) => t[i].missed = scr[i].missed \cup {kind}
    <2>1. PICK c, m, d : c = scr[i] /\ m = c.missed \cup {kind} /\ d = [c EXCEPT !.missed = m] /\ c \in Screen
      BY <1>3
    <2>2. m \in SUBSET {"delete", "add", "list"}
      BY <2>1 DEF Screen
    <2>3. d \in Screen /\ d.page = c.page /\ d.view = c.view /\ d.drawn = c.drawn /\ d.missed = m
      BY <2>1, <2>2 DEF Screen
    <2>4. t[i] = IF i \in Managing(scr) THEN d ELSE c
      BY <1>4, <2>1
    <2> QED
      BY <2>1, <2>3, <2>4
  <1>6. t \in [1..Len(scr) -> Screen]
    BY <1>4, <1>5
  <1>7. Standing(t) /\ Managing(t) = Managing(scr) /\ Expecting(t) = Expecting(scr)
    BY <1>2, <1>5, <1>6, MissedScreens
  <1> QED
    BY <1>1, <1>3, <1>5, <1>7

\* A step that leaves the Navigator alone.
LEMMA SameScreens ==
  ASSUME Typed, UNCHANGED stack
  PROVE  /\ Standing(stack') /\ Managing(stack') = Managing(stack) /\ Expecting(stack') = Expecting(stack)
         /\ \A p \in Managing(stack) : stack'[p] = stack[p]
  BY DEF Typed

\* ServeFetch keeps the types and answers with what the backend holds, or nothing.
LEMMA ServeFetchStep ==
  ASSUME Typed, NEW n, ServeFetch(n), Len(net') <= MaxCalls[inOrder']
  PROVE  Typed' /\ Served(n) /\ Read(n)
  <1>1. /\ Unserved(n) /\ net[n].kind \in {"fetch", "build"} /\ prefs \in Seq(Categories) /\ <<>> \in Seq(Categories)
        /\ UNCHANGED <<prefs, list, registered, inOrder, taps>>
    BY EmptySeq DEF ServeFetch, Typed, Data
  <1>2. PICK got, answer :
          /\ answer \in Seq(Categories) /\ Answered(n, got, answer)
          /\ (answer = prefs \/ (answer = <<>> /\ got # "ok"))
    <2>1. CASE Answered(n, "ok", prefs)
      BY <1>1, <2>1
    <2>2. CASE \E got \in {"refused", "failed"} : Answered(n, got, <<>>)
      <3>1. PICK got \in {"refused", "failed"} : Answered(n, got, <<>>)
        BY <2>2
      <3>2. got # "ok"
        BY <3>1
      <3> QED
        BY <1>1, <3>1, <3>2
    <2> QED
      BY <2>1, <2>2 DEF ServeFetch
  <1>3. /\ n \in 1..Len(net) /\ net[n].got = "nothing" /\ net'[n].got = got /\ got \in {"ok", "refused", "failed"}
        /\ net'[n].answer = answer
        /\ Queue(net') /\ Len(net') = Len(net) /\ Heard(net') = Heard(net) /\ Builds(net') = Builds(net)
        /\ \A k \in 1..Len(net) : k # n => net'[k] = net[k]
        /\ net'[n].kind = net[n].kind /\ net'[n].at = net[n].at /\ net'[n].of = net[n].of /\ net'[n].card = net[n].card
        /\ failures' \in 0..MaxFailures
    BY <1>1, <1>2, Answering
  <1>4. /\ Standing(stack') /\ Managing(stack') = Managing(stack) /\ Expecting(stack') = Expecting(stack)
        /\ \A p \in Managing(stack) : stack'[p].view = stack[p].view /\ stack'[p].drawn = stack[p].drawn
        /\ \A p \in Managing(stack) : stack'[p].missed = stack[p].missed \/ (net[n].kind = "build" /\ net[n].at = p)
    <2>1. CASE net[n].kind # "build"
      <3>1. stack' = stack
        BY <2>1 DEF ServeFetch
      <3> QED
        BY <3>1, SameScreens
    <2>2. CASE net[n].kind = "build"
      <3>1. PICK a, scr, s, t : a = net[n].at /\ scr = stack /\ s = scr[a] /\ t = stack'
        OBVIOUS
      <3>2. Standing(scr) /\ a \in Managing(scr) /\ s \in Screen
        BY <1>1, <2>2, <3>1, Listener DEF Typed, Unserved
      <3>3. PICK c : c = [s EXCEPT !.missed = {}]
        OBVIOUS
      <3>4. c \in Screen /\ c.page = s.page /\ c.view = s.view /\ c.drawn = s.drawn
        <4>1. {} \in SUBSET {"delete", "add", "list"}
          OBVIOUS
        <4> QED
          BY <3>2, <3>3, <4>1 DEF Screen
      <3>5. Redrawn(scr, t, a, c)
        BY <2>2, <3>1, <3>3 DEF ServeFetch, Redrawn
      <3>6. c.page = scr[a].page
        BY <3>1, <3>4
      <3>7. /\ Standing(t) /\ Managing(t) = Managing(scr) /\ t[a] = c
            /\ \A i \in 1..Len(scr) : i # a => t[i] = scr[i]
        BY <3>2, <3>4, <3>5, <3>6, RedrawnScreen
      <3>8. \A i \in Managing(scr) : i # a => t[i] = scr[i]
        BY <3>2, <3>7, ScreenFields
      <3>9. \A i \in Managing(scr) : t[i].view = scr[i].view /\ t[i].drawn = scr[i].drawn
        BY <3>1, <3>4, <3>7, <3>8
      <3>10. Expecting(t) = Expecting(scr)
        BY <3>7, <3>9 DEF Expecting
      <3> QED
        BY <2>2, <3>1, <3>7, <3>8, <3>9, <3>10
    <2> QED
      BY <2>1, <2>2
  <1>5. Typed'
    BY <1>1, <1>3, <1>4 DEF Typed, Data
  <1>6. Served(n)
    BY <1>1, <1>3, <1>4 DEF Served, Unserved
  <1>7. Read(n)
    BY <1>1, <1>2, <1>3, <1>4 DEF Read, Fetching
  <1> QED
    BY <1>5, <1>6, <1>7

\* A removal leaves no repetition among the preferences.
LEMMA WithoutType ==
  ASSUME NEW c, prefs \in Seq(Categories), IsInjective(prefs)
  PROVE  Without(c) \in Seq(Categories) /\ IsInjective(Without(c))
  <1>1. PICK p, w : p = prefs /\ w = Without(c)
    OBVIOUS
  <1>2. CASE ~Contains(p, c)
    BY <1>1, <1>2 DEF Without
  <1>3. CASE Contains(p, c)
    <2>1. PICK n : n = CHOOSE i \in DOMAIN p : p[i] = c
      OBVIOUS
    <2>2. n \in 1..Len(p)
      <3>1. \E i \in DOMAIN p : p[i] = c
        BY <1>1, <1>3 DEF Contains
      <3> QED
        BY <1>1, <2>1, <3>1
    <2>3. w = RemoveAt(p, n)
      BY <1>1, <1>3, <2>1 DEF Without
    <2>4. /\ Len(p) \in Nat /\ w \in Seq(Categories) /\ Len(w) = Len(p) - 1
          /\ \A k \in 1..Len(p) - 1 : w[k] = IF k < n THEN p[k] ELSE p[k + 1]
      <3>1. p \in Seq(Categories)
        BY <1>1
      <3>2. PICK r : r = RemoveAt(p, n)
        OBVIOUS
      <3>3. /\ Len(p) \in Nat /\ r \in Seq(Categories) /\ Len(r) = Len(p) - 1
            /\ \A k \in 1..Len(p) - 1 : r[k] = IF k < n THEN p[k] ELSE p[k + 1]
        BY <2>2, <3>1, <3>2, RemoveAtProperties, SMTT(30)
      <3> QED
        BY <2>3, <3>2, <3>3
    <2>5. ASSUME NEW i \in DOMAIN w, NEW j \in DOMAIN w, w[i] = w[j] PROVE i = j
      <3>1. i \in 1..Len(p) - 1 /\ j \in 1..Len(p) - 1
        BY <2>4
      <3>2. \A k, l \in 1..Len(p) : p[k] = p[l] => k = l
        BY <1>1 DEF IsInjective
      <3>3. PICK k \in 1..Len(p) : k = (IF i < n THEN i ELSE i + 1) /\ w[i] = p[k]
        BY <2>2, <2>4, <3>1, SMTT(30)
      <3>4. PICK l \in 1..Len(p) : l = (IF j < n THEN j ELSE j + 1) /\ w[j] = p[l]
        BY <2>2, <2>4, <3>1, SMTT(30)
      <3>5. k = l
        BY <2>5, <3>2, <3>3, <3>4
      <3> QED
        BY <2>2, <3>1, <3>3, <3>4, <3>5
    <2> QED
      BY <1>1, <2>4, <2>5 DEF IsInjective
  <1> QED
    BY <1>2, <1>3

\* An upload stores what was not there, last.
LEMMA StoredLast ==
  ASSUME NEW p \in Seq(Categories), IsInjective(p), NEW c \in Categories, ~Contains(p, c),
         NEW r, r = Append(p, c)
  PROVE  r \in Seq(Categories) /\ IsInjective(r) /\ Opens(p, r)
  <1>1. /\ Len(p) \in Nat /\ r \in Seq(Categories) /\ Len(r) = Len(p) + 1 /\ r[Len(p) + 1] = c
        /\ \A k \in 1..Len(p) : r[k] = p[k]
        /\ DOMAIN r = 1..Len(p) + 1 /\ DOMAIN p = 1..Len(p)
    BY AppendProperties
  <1>2. \A k \in 1..Len(p) : p[k] # c
    BY <1>1 DEF Contains
  <1>3. ASSUME NEW i \in 1..Len(p) + 1, NEW j \in 1..Len(p) + 1, r[i] = r[j] PROVE i = j
    <2>1. (i \in 1..Len(p) \/ i = Len(p) + 1) /\ (j \in 1..Len(p) \/ j = Len(p) + 1)
      BY <1>1
    <2>2. CASE i \in 1..Len(p) /\ j \in 1..Len(p)
      <3>1. p[i] = p[j] /\ i \in DOMAIN p /\ j \in DOMAIN p
        BY <1>1, <1>3, <2>2
      <3> QED
        BY <3>1 DEF IsInjective
    <2>3. CASE i = Len(p) + 1 /\ j \in 1..Len(p)
      BY <1>1, <1>2, <1>3, <2>3
    <2>4. CASE i \in 1..Len(p) /\ j = Len(p) + 1
      BY <1>1, <1>2, <1>3, <2>4
    <2> QED
      BY <2>1, <2>2, <2>3, <2>4
  <1>4. IsInjective(r)
    BY <1>1, <1>3 DEF IsInjective
  <1>5. Opens(p, r)
    BY <1>1 DEF Opens, Agree
  <1> QED
    BY <1>1, <1>4, <1>5

\* ServeDelete keeps the types; somebody will hear of the removal or all have missed it.
LEMMA ServeDeleteStep ==
  ASSUME Typed, NEW n, ServeDelete(n), Len(net') <= MaxCalls[inOrder']
  PROVE  Typed' /\ Served(n) /\ Deleting(n)
  <1>1. /\ Unserved(n) /\ net[n].kind = "delete" /\ <<>> \in Seq(Categories)
        /\ prefs \in Seq(Categories) /\ IsInjective(prefs)
        /\ UNCHANGED <<list, registered, inOrder, taps>>
    BY EmptySeq DEF ServeDelete, Typed, Data
  <1>2. PICK got :
          /\ Answered(n, got, <<>>)
          /\ \/ prefs' = Without(net[n].of) /\ got = "ok" /\ UNCHANGED stack
             \/ prefs' = Without(net[n].of) /\ got = "failed" /\ stack' = Unaware("delete")
             \/ UNCHANGED <<prefs, stack>>
    BY <1>1 DEF ServeDelete
  <1>3. /\ n \in 1..Len(net) /\ net[n].got = "nothing" /\ net'[n].got = got /\ got \in {"ok", "refused", "failed"}
        /\ Queue(net') /\ Len(net') = Len(net) /\ Heard(net') = Heard(net) /\ Builds(net') = Builds(net)
        /\ \A k \in 1..Len(net) : k # n => net'[k] = net[k]
        /\ net'[n].kind = net[n].kind /\ net'[n].at = net[n].at /\ net'[n].of = net[n].of /\ net'[n].card = net[n].card
        /\ failures' \in 0..MaxFailures
    BY <1>1, <1>2, Answering
  <1>4. prefs' \in Seq(Categories) /\ IsInjective(prefs')
    BY <1>1, <1>2, WithoutType
  <1>5. /\ Standing(stack') /\ Managing(stack') = Managing(stack) /\ Expecting(stack') = Expecting(stack)
        /\ \A p \in Managing(stack) : stack'[p].view = stack[p].view /\ stack'[p].drawn = stack[p].drawn
    <2>1. CASE UNCHANGED stack
      BY <2>1, SameScreens
    <2>2. CASE stack' = Unaware("delete")
      BY <2>2, UnawareScreens
    <2> QED
      BY <1>2, <2>1, <2>2
  <1>6. Typed'
    BY <1>1, <1>3, <1>4, <1>5 DEF Typed, Data
  <1>7. Served(n)
    BY <1>1, <1>3, <1>5 DEF Served, Unserved
  <1>8. Deleting(n)
    <2>1. ~Fetching(net[n])
      BY <1>1 DEF Fetching
    <2>2. CASE stack' = Unaware("delete")
      <3>1. \A p \in Managing(stack) : stack'[p].missed = stack[p].missed \cup {"delete"}
        BY <2>2, UnawareScreens
      <3> QED
        BY <2>1, <3>1 DEF Deleting
    <2>3. CASE got = "ok" /\ UNCHANGED stack
      BY <1>1, <1>3, <2>1, <2>3 DEF Deleting, Removes
    <2>4. CASE UNCHANGED <<prefs, stack>>
      BY <2>1, <2>4 DEF Deleting
    <2> QED
      BY <1>2, <2>2, <2>3, <2>4
  <1> QED
    BY <1>6, <1>7, <1>8

\* ServeAdd keeps the types and only adds to what the backend holds.
LEMMA ServeAddStep ==
  ASSUME Typed, NEW n, ServeAdd(n), Len(net') <= MaxCalls[inOrder'],
         \A k \in 1..Len(net) : Honest(net[k])
  PROVE  Typed' /\ Served(n) /\ Adding(n)
  <1>1. /\ Unserved(n) /\ net[n].kind = "add" /\ <<>> \in Seq(Categories)
        /\ prefs \in Seq(Categories) /\ IsInjective(prefs) /\ Len(prefs) \in Nat
        /\ UNCHANGED <<list, registered, inOrder, taps>>
    BY EmptySeq DEF ServeAdd, Typed, Data
  <1>2. PICK got :
          /\ Answered(n, got, <<>>)
          /\ \/ /\ prefs' = IF Contains(prefs, net[n].of) THEN prefs ELSE Append(prefs, net[n].of)
                /\ stack' = Unaware("add")
             \/ UNCHANGED <<prefs, stack>>
    BY <1>1 DEF ServeAdd
  <1>3. /\ n \in 1..Len(net) /\ net[n].got = "nothing" /\ net'[n].got = got /\ got \in {"ok", "refused", "failed"}
        /\ Queue(net') /\ Len(net') = Len(net) /\ Heard(net') = Heard(net) /\ Builds(net') = Builds(net)
        /\ \A k \in 1..Len(net) : k # n => net'[k] = net[k]
        /\ net'[n].kind = net[n].kind /\ net'[n].at = net[n].at /\ net'[n].of = net[n].of /\ net'[n].card = net[n].card
        /\ failures' \in 0..MaxFailures
    BY <1>1, <1>2, Answering
  <1>4. net[n].of \in Categories
    BY <1>1, <1>3 DEF Honest
  <1>5. prefs' \in Seq(Categories) /\ IsInjective(prefs') /\ Opens(prefs, prefs')
    <2>1. CASE prefs' = prefs
      BY <1>1, <2>1 DEF Opens, Agree
    <2>2. CASE ~Contains(prefs, net[n].of) /\ prefs' = Append(prefs, net[n].of)
      BY <1>1, <1>4, <2>2, StoredLast
    <2> QED
      BY <1>2, <2>1, <2>2
  <1>6. /\ Standing(stack') /\ Managing(stack') = Managing(stack) /\ Expecting(stack') = Expecting(stack)
        /\ \A p \in Managing(stack) : stack'[p].view = stack[p].view /\ stack'[p].drawn = stack[p].drawn
    <2>1. CASE UNCHANGED stack
      BY <2>1, SameScreens
    <2>2. CASE stack' = Unaware("add")
      BY <2>2, UnawareScreens
    <2> QED
      BY <1>2, <2>1, <2>2
  <1>7. Typed'
    BY <1>1, <1>3, <1>5, <1>6 DEF Typed, Data
  <1>8. Served(n)
    BY <1>1, <1>3, <1>6 DEF Served, Unserved
  <1>9. Adding(n)
    <2>1. CASE stack' = Unaware("add")
      <3>1. \A p \in Managing(stack) : stack'[p].missed = stack[p].missed \cup {"add"}
        BY <2>1, UnawareScreens
      <3> QED
        BY <1>1, <1>5, <3>1 DEF Adding
    <2>2. CASE UNCHANGED <<prefs, stack>>
      BY <1>1, <1>5, <2>2 DEF Adding
    <2> QED
      BY <1>2, <2>1, <2>2
  <1> QED
    BY <1>7, <1>8, <1>9

-----------------------------------------------------------------------------
(* The invariant.                                                          *)

\* No removal that succeeded lies between two places of the queue.
Clear(q, n, m) == \A k \in 1..Len(q) : n < k /\ k < m => ~Removes(q[k])

\* A list read where place n of the queue is: until a removal, what is read later,
\* and what the backend holds, only has more.
Fits(q, pf, n, s) ==
  /\ \A m \in 1..Len(q) : m > n /\ Fetching(q[m]) /\ q[m].got # "nothing" /\ Clear(q, n, m)
       => Agree(s, q[m].answer)
  /\ Clear(q, n, Len(q) + 1) => Opens(s, pf)

InTurn(q) == \A n \in 1..Len(q) : q[n].got # "nothing" => \A m \in 1..Len(q) : m < n => q[m].got # "nothing"

\* The cards of a grid that was built with list s, some of them drawn from a list too short.
Draws(d, s) == Len(d) = Len(s) /\ \A i \in 1..Len(s) : d[i] \in {s[i], NoCategory}

GridsFit(scr, q, pf, ls) ==
  \A p \in Managing(scr) : scr[p].view = "grid" /\ "delete" \notin scr[p].missed =>
    \E s \in Seq(Categories) : Draws(scr[p].drawn, s) /\ Agree(s, ls) /\ Fits(q, pf, 0, s)

BuildsFit(scr, q, pf) ==
  \A n \in Builds(q) : q[n].got # "nothing" /\ "delete" \notin scr[q[n].at].missed =>
    Fits(q, pf, n, q[n].answer)

Hits(scr, q, pf, ls) == InTurn(q) /\ GridsFit(scr, q, pf, ls) /\ BuildsFit(scr, q, pf)

Removing(q) == \E k \in 1..Len(q) : Removes(q[k])

\* A screen that has missed nothing shows, or is about to show, what the backend holds, and so
\* does the list its cards are drawn from; or a removal is still to be told to it.
Truth(scr, q, pf, ls) ==
  \/ Removing(q)
  \/ /\ \A p \in Managing(scr) : scr[p].view = "grid" /\ scr[p].missed = {} => scr[p].drawn = pf /\ ls = pf
     /\ \A n \in Builds(q) : q[n].got = "ok" /\ scr[q[n].at].missed = {} => q[n].answer = pf

\* What call n's screen shows, no answer behind it in the queue replaces by anything else.
Answers(q, n, pf) == \A m \in 1..Len(q) : m > n /\ Fetching(q[m]) /\ q[m].got = "ok" => q[m].answer = pf

Current(scr, q, pf) ==
  \/ Removing(q)
  \/ /\ \A p \in Managing(scr) : scr[p].view = "grid" /\ scr[p].missed = {} => Answers(q, 0, pf)
     /\ \A n \in Builds(q) : q[n].got = "ok" /\ scr[q[n].at].missed = {} => Answers(q, n, pf)

AllHonest(q) == \A n \in 1..Len(q) : Honest(q[n])

-----------------------------------------------------------------------------
(* What stays of it when calls leave and join the queue.                   *)

\* The calls stay honest.
LEMMA HonestCarried ==
  ASSUME NEW q, NEW r, NEW g, Carried(q, r, g), AllHonest(q)
  PROVE  AllHonest(r)
  <1>1. SUFFICES ASSUME NEW k \in 1..Len(r) PROVE Honest(r[k])
    BY DEF AllHonest
  <1>2. CASE r[k].got = "nothing" /\ Honest(r[k])
    BY <1>2
  <1>3. CASE \E j \in 1..Len(q) : j # g /\ k = Place(g, j)
    <2>1. PICK j \in 1..Len(q) : j # g /\ k = Place(g, j)
      BY <1>3
    <2>2. Alike(q[j], r[k]) /\ Honest(q[j])
      BY <2>1 DEF Carried, AllHonest
    <2> QED
      BY <2>2 DEF Alike, Honest
  <1> QED
    BY <1>2, <1>3 DEF Carried

\* A removal that was accepted is under way until it arrives.
LEMMA RemovingCarried ==
  ASSUME NEW q, NEW r, NEW g, Carried(q, r, g), g = 0 \/ ~Removes(q[g]), Removing(q), Len(q) \in Nat
  PROVE  Removing(r)
  <1>1. PICK k \in 1..Len(q) : Removes(q[k])
    BY DEF Removing
  <1>2. k # g
    BY <1>1
  <1>3. PICK j : j = Place(g, k)
    OBVIOUS
  <1>4. j \in 1..Len(r) /\ Alike(q[k], r[j])
    BY <1>2, <1>3 DEF Carried
  <1>5. Removes(r[j])
    BY <1>1, <1>4 DEF Removes, Alike
  <1> QED
    BY <1>4, <1>5 DEF Removing

\* In order only the first call may leave.
LEMMA CarriedInOrder ==
  ASSUME NEW q \in Seq(Call), NEW r \in Seq(Call), NEW g \in {0, 1}, Carried(q, r, g)
  PROVE  /\ Len(q) \in Nat /\ Len(r) \in Nat
         /\ \A j \in 1..Len(q) : j > g => j - g \in 1..Len(r) /\ Alike(q[j], r[j - g])
         /\ \A k \in 1..Len(r) : k + g \in 1..Len(q) \/ r[k].got = "nothing"
  <1>1. Len(q) \in Nat /\ Len(r) \in Nat
    OBVIOUS
  <1>2. \A j \in 1..Len(q) : j # g => j > g /\ Place(g, j) = j - g
    BY <1>1 DEF Place
  <1>3. ASSUME NEW j \in 1..Len(q), j > g PROVE j - g \in 1..Len(r) /\ Alike(q[j], r[j - g])
    <2>1. j # g /\ Place(g, j) = j - g
      BY <1>1, <1>2, <1>3
    <2> QED
      BY <2>1 DEF Carried
  <1>4. ASSUME NEW k \in 1..Len(r), r[k].got # "nothing" PROVE k + g \in 1..Len(q)
    <2>1. PICK j \in 1..Len(q) : j # g /\ k = Place(g, j)
      BY <1>4 DEF Carried
    <2> QED
      BY <1>1, <1>2, <2>1
  <1> QED
    BY <1>1, <1>3, <1>4

\* The calls that are served stay the first ones.
LEMMA InTurnCarried ==
  ASSUME NEW q \in Seq(Call), NEW r \in Seq(Call), NEW g \in {0, 1}, Carried(q, r, g), InTurn(q)
  PROVE  InTurn(r)
  <1>1. /\ Len(q) \in Nat /\ Len(r) \in Nat
        /\ \A j \in 1..Len(q) : j > g => j - g \in 1..Len(r) /\ Alike(q[j], r[j - g])
        /\ \A k \in 1..Len(r) : k + g \in 1..Len(q) \/ r[k].got = "nothing"
    BY CarriedInOrder
  <1>2. \A k \in 1..Len(r) : k + g \in 1..Len(q) => q[k + g].got = r[k].got
    <2>1. ASSUME NEW k \in 1..Len(r), k + g \in 1..Len(q) PROVE q[k + g].got = r[k].got
      <3>1. k + g > g /\ k + g - g = k
        BY <1>1
      <3>2. Alike(q[k + g], r[k])
        BY <1>1, <2>1, <3>1
      <3> QED
        BY <3>2 DEF Alike
    <2> QED
      BY <2>1
  <1>3. SUFFICES ASSUME NEW n \in 1..Len(r), r[n].got # "nothing", NEW m \in 1..Len(r), m < n
                 PROVE  r[m].got # "nothing"
    BY DEF InTurn
  <1>4. n + g \in 1..Len(q) /\ q[n + g].got # "nothing"
    BY <1>1, <1>2, <1>3
  <1>5. m + g \in 1..Len(q) /\ m + g < n + g
    BY <1>1, <1>3, <1>4
  <1>6. q[m + g].got # "nothing"
    BY <1>4, <1>5 DEF InTurn
  <1> QED
    BY <1>2, <1>5, <1>6

\* A list goes on fitting when calls join, and when the first leaves unless it removed
\* something the list still has.
LEMMA FitsCarried ==
  ASSUME NEW q \in Seq(Call), NEW r \in Seq(Call), NEW g \in {0, 1}, Carried(q, r, g),
         NEW n \in 0..Len(q), n < g => ~Removes(q[g]), NEW pf, NEW s, Fits(q, pf, n, s),
         NEW o, o = IF n >= g THEN n - g ELSE n
  PROVE  Fits(r, pf, o, s)
  <1>1. /\ Len(q) \in Nat /\ Len(r) \in Nat
        /\ \A j \in 1..Len(q) : j > g => j - g \in 1..Len(r) /\ Alike(q[j], r[j - g])
        /\ \A k \in 1..Len(r) : k + g \in 1..Len(q) \/ r[k].got = "nothing"
    BY CarriedInOrder
  <1>2. o \in Nat
    BY <1>1
  <1>3. ASSUME NEW m \in Nat, Clear(r, o, m), NEW k \in 1..Len(q), n < k, k - g < m
        PROVE  ~Removes(q[k])
    <2>1. CASE k <= g
      BY <1>1, <1>3, <2>1
    <2>2. CASE k > g
      <3>1. PICK j : j = k - g
        OBVIOUS
      <3>2. j \in 1..Len(r) /\ Alike(q[k], r[j])
        BY <1>1, <2>2, <3>1
      <3>3. o < j /\ j < m
        BY <1>1, <1>3, <2>2, <3>1
      <3>4. ~Removes(r[j])
        BY <1>3, <3>2, <3>3 DEF Clear
      <3> QED
        BY <3>2, <3>4 DEF Removes, Alike
    <2> QED
      BY <1>1, <2>1, <2>2
  <1>4. ASSUME NEW m \in 1..Len(r), m > o, Fetching(r[m]), r[m].got # "nothing", Clear(r, o, m)
        PROVE  Agree(s, r[m].answer)
    <2>1. PICK j : j = m + g
      OBVIOUS
    <2>2. j \in 1..Len(q) /\ j > g /\ j - g = m /\ j > n
      BY <1>1, <1>2, <1>4, <2>1
    <2>3. Alike(q[j], r[m])
      BY <1>1, <2>2
    <2>4. Fetching(q[j]) /\ q[j].got # "nothing" /\ q[j].answer = r[m].answer
      BY <1>4, <2>3 DEF Alike, Fetching
    <2>5. Clear(q, n, j)
      <3>1. SUFFICES ASSUME NEW k \in 1..Len(q), n < k, k < j PROVE ~Removes(q[k])
        BY DEF Clear
      <3>2. k - g < m /\ m \in Nat
        BY <1>1, <2>1, <2>2, <3>1
      <3> QED
        BY <1>3, <1>4, <3>1, <3>2
    <2> QED
      BY <2>2, <2>4, <2>5 DEF Fits
  <1>5. ASSUME Clear(r, o, Len(r) + 1)
        PROVE  Opens(s, pf)
    <2>1. Clear(q, n, Len(q) + 1)
      <3>1. SUFFICES ASSUME NEW k \in 1..Len(q), n < k PROVE ~Removes(q[k])
        BY DEF Clear
      <3>2. k - g < Len(r) + 1 /\ Len(r) + 1 \in Nat
        BY <1>1
      <3> QED
        BY <1>3, <1>5, <3>1, <3>2
    <2> QED
      BY <2>1 DEF Fits
  <1> QED
    BY <1>4, <1>5 DEF Fits

\* A build that stays in the queue keeps what its answer fits.
LEMMA BuildCarried ==
  ASSUME NEW q \in Seq(Call), NEW r \in Seq(Call), NEW g \in {0, 1}, Carried(q, r, g),
         NEW k \in Builds(r), r[k].got # "nothing"
  PROVE  \E j \in Builds(q) : /\ j > g /\ j - g = k /\ q[j].got = r[k].got
                              /\ q[j].at = r[k].at /\ q[j].answer = r[k].answer
  <1>1. /\ Len(q) \in Nat /\ Len(r) \in Nat
        /\ \A j \in 1..Len(q) : j > g => j - g \in 1..Len(r) /\ Alike(q[j], r[j - g])
        /\ \A i \in 1..Len(r) : i + g \in 1..Len(q) \/ r[i].got = "nothing"
    BY CarriedInOrder
  <1>2. k \in 1..Len(r) /\ r[k].kind = "build"
    BY DEF Builds
  <1>3. PICK j \in 1..Len(q) : j = k + g
    BY <1>1, <1>2
  <1>4. j > g /\ j - g = k /\ Alike(q[j], r[k])
    BY <1>1, <1>2, <1>3
  <1> QED
    BY <1>2, <1>4 DEF Builds, Alike

\* The answers on their way to FutureBuilders go on fitting.
LEMMA BuildsFitCarried ==
  ASSUME NEW q \in Seq(Call), NEW r \in Seq(Call), NEW g \in {0, 1}, Carried(q, r, g),
         NEW scr, NEW t, SameBuilds(scr, t, r), NEW pf, BuildsFit(scr, q, pf)
  PROVE  BuildsFit(t, r, pf)
  <1>1. SUFFICES ASSUME NEW k \in Builds(r), r[k].got # "nothing", "delete" \notin t[r[k].at].missed
                 PROVE  Fits(r, pf, k, r[k].answer)
    BY DEF BuildsFit
  <1>2. PICK j \in Builds(q) : /\ j > g /\ j - g = k /\ q[j].got = r[k].got
                               /\ q[j].at = r[k].at /\ q[j].answer = r[k].answer
    BY <1>1, BuildCarried
  <1>3. PICK s : s = r[k].answer
    OBVIOUS
  <1>4. Fits(q, pf, j, s)
    BY <1>1, <1>2, <1>3 DEF SameBuilds, BuildsFit
  <1>5. j \in 0..Len(q) /\ k = (IF j >= g THEN j - g ELSE j) /\ (j < g => ~Removes(q[g]))
    <2>1. Len(q) \in Nat /\ j \in 1..Len(q)
      BY DEF Builds
    <2> QED
      BY <2>1, <1>2
  <1>6. Fits(r, pf, k, s)
    BY <1>4, <1>5, FitsCarried
  <1> QED
    BY <1>3, <1>6

\* A list that is drawn goes on fitting.
LEMMA GridFitCarried ==
  ASSUME NEW q \in Seq(Call), NEW r \in Seq(Call), NEW g \in {0, 1}, Carried(q, r, g),
         g = 0 \/ ~Removes(q[g]), NEW pf, NEW s, Fits(q, pf, 0, s)
  PROVE  Fits(r, pf, 0, s)
  <1>1. 0 \in 0..Len(q)
    <2>1. Len(q) \in Nat
      OBVIOUS
    <2> QED
      BY <2>1
  <1>2. 0 = (IF 0 >= g THEN 0 - g ELSE 0) /\ (0 < g => ~Removes(q[g]))
    OBVIOUS
  <1> QED
    BY <1>1, <1>2, FitsCarried

\* The first half of the invariant, for every step that keeps the grids.
LEMMA KeptHits ==
  ASSUME NEW q \in Seq(Call), NEW r \in Seq(Call), NEW g \in {0, 1}, Carried(q, r, g),
         g = 0 \/ ~Removes(q[g]), NEW scr, NEW t, SameGrids(scr, t), SameBuilds(scr, t, r),
         NEW pf, NEW ls, Hits(scr, q, pf, ls)
  PROVE  Hits(t, r, pf, ls)
  <1>1. InTurn(r)
    BY InTurnCarried DEF Hits
  <1>2. GridsFit(t, r, pf, ls)
    <2>1. SUFFICES ASSUME NEW p \in Managing(t), t[p].view = "grid", "delete" \notin t[p].missed
                   PROVE  \E s \in Seq(Categories) : Draws(t[p].drawn, s) /\ Agree(s, ls) /\ Fits(r, pf, 0, s)
      BY DEF GridsFit
    <2>2. p \in Managing(scr) /\ scr[p].view = "grid" /\ "delete" \notin scr[p].missed /\ t[p].drawn = scr[p].drawn
      BY <2>1 DEF SameGrids
    <2>3. PICK s \in Seq(Categories) : Draws(scr[p].drawn, s) /\ Agree(s, ls) /\ Fits(q, pf, 0, s)
      BY <2>2 DEF Hits, GridsFit
    <2>4. Fits(r, pf, 0, s)
      BY <2>3, GridFitCarried
    <2> QED
      BY <2>2, <2>3, <2>4
  <1>3. BuildsFit(t, r, pf)
    BY BuildsFitCarried DEF Hits
  <1> QED
    BY <1>1, <1>2, <1>3 DEF Hits

\* The answers on their way to FutureBuilders stay true.
LEMMA BuildTrueCarried ==
  ASSUME NEW q \in Seq(Call), NEW r \in Seq(Call), NEW g, Carried(q, r, g),
         NEW scr, NEW t, SameBuilds(scr, t, r), NEW pf, NEW ls, Truth(scr, q, pf, ls), ~Removing(q),
         NEW n \in Builds(r), r[n].got = "ok", t[r[n].at].missed = {}
  PROVE  r[n].answer = pf
  <1>1. n \in 1..Len(r) /\ r[n].kind = "build" /\ r[n].got # "nothing"
    BY DEF Builds
  <1>2. PICK j \in 1..Len(q) : j # g /\ n = Place(g, j)
    BY <1>1 DEF Carried
  <1>3. Alike(q[j], r[n])
    BY <1>2 DEF Carried
  <1>4. j \in Builds(q) /\ q[j].got = "ok" /\ q[j].at = r[n].at /\ q[j].answer = r[n].answer
    BY <1>1, <1>3 DEF Builds, Alike
  <1>5. scr[q[j].at].missed = {}
    BY <1>1, <1>4 DEF SameBuilds
  <1> QED
    BY <1>4, <1>5 DEF Truth

\* The second half of the invariant, for every step that keeps the grids.
LEMMA KeptTruth ==
  ASSUME NEW q \in Seq(Call), NEW r \in Seq(Call), NEW g, Carried(q, r, g),
         g = 0 \/ ~Removes(q[g]), NEW scr, NEW t, SameGrids(scr, t), SameBuilds(scr, t, r),
         NEW pf, NEW ls, Truth(scr, q, pf, ls)
  PROVE  Truth(t, r, pf, ls)
  <1>1. CASE Removing(q)
    <2>1. Len(q) \in Nat
      OBVIOUS
    <2> QED
      BY <1>1, <2>1, RemovingCarried DEF Truth
  <1>2. CASE ~Removing(q)
    <2>1. ASSUME NEW p \in Managing(t), t[p].view = "grid", t[p].missed = {} PROVE t[p].drawn = pf /\ ls = pf
      BY <1>2, <2>1 DEF SameGrids, Truth
    <2>2. ASSUME NEW n \in Builds(r), r[n].got = "ok", t[r[n].at].missed = {} PROVE r[n].answer = pf
      BY <1>2, <2>2, BuildTrueCarried
    <2> QED
      BY <2>1, <2>2 DEF Truth
  <1> QED
    BY <1>1, <1>2

\* Answers that leave nothing else to show stay so.
LEMMA AnswersCarried ==
  ASSUME NEW q \in Seq(Call), NEW r \in Seq(Call), NEW g \in {0, 1}, Carried(q, r, g),
         NEW n \in 0..Len(q), NEW pf, Answers(q, n, pf), NEW o, o = IF n >= g THEN n - g ELSE n
  PROVE  Answers(r, o, pf)
  <1>1. /\ Len(q) \in Nat /\ Len(r) \in Nat
        /\ \A j \in 1..Len(q) : j > g => j - g \in 1..Len(r) /\ Alike(q[j], r[j - g])
        /\ \A k \in 1..Len(r) : k + g \in 1..Len(q) \/ r[k].got = "nothing"
    BY CarriedInOrder
  <1>2. SUFFICES ASSUME NEW m \in 1..Len(r), m > o, Fetching(r[m]), r[m].got = "ok"
                 PROVE  r[m].answer = pf
    BY DEF Answers
  <1>3. PICK j : j = m + g
    OBVIOUS
  <1>4. j \in 1..Len(q) /\ j > g /\ j - g = m /\ j > n
    BY <1>1, <1>2, <1>3
  <1>5. Alike(q[j], r[m])
    BY <1>1, <1>4
  <1>6. Fetching(q[j]) /\ q[j].got = "ok" /\ q[j].answer = r[m].answer
    BY <1>2, <1>5 DEF Alike, Fetching
  <1> QED
    BY <1>4, <1>6 DEF Answers

\* The answers behind those on their way to FutureBuilders.
LEMMA BuildAnswersCarried ==
  ASSUME NEW q \in Seq(Call), NEW r \in Seq(Call), NEW g \in {0, 1}, Carried(q, r, g),
         NEW scr, NEW t, SameBuilds(scr, t, r), NEW pf, Current(scr, q, pf), ~Removing(q),
         NEW k \in Builds(r), r[k].got = "ok", t[r[k].at].missed = {}
  PROVE  Answers(r, k, pf)
  <1>1. r[k].got # "nothing"
    OBVIOUS
  <1>2. PICK j \in Builds(q) : j > g /\ j - g = k /\ q[j].got = r[k].got /\ q[j].at = r[k].at
    BY <1>1, BuildCarried
  <1>3. scr[q[j].at].missed = {}
    BY <1>1, <1>2 DEF SameBuilds
  <1>4. Answers(q, j, pf)
    BY <1>2, <1>3 DEF Current
  <1>5. j \in 0..Len(q) /\ k = (IF j >= g THEN j - g ELSE j)
    <2>1. Len(q) \in Nat /\ j \in 1..Len(q)
      BY DEF Builds
    <2> QED
      BY <2>1, <1>2
  <1> QED
    BY <1>4, <1>5, AnswersCarried

\* In order, for every step that keeps the grids.
LEMMA KeptCurrent ==
  ASSUME NEW q \in Seq(Call), NEW r \in Seq(Call), NEW g \in {0, 1}, Carried(q, r, g),
         g = 0 \/ ~Removes(q[g]), NEW scr, NEW t, SameGrids(scr, t), SameBuilds(scr, t, r),
         NEW pf, Current(scr, q, pf)
  PROVE  Current(t, r, pf)
  <1>1. Len(q) \in Nat
    OBVIOUS
  <1>2. CASE Removing(q)
    BY <1>1, <1>2, RemovingCarried DEF Current
  <1>3. CASE ~Removing(q)
    <2>1. ASSUME NEW p \in Managing(t), t[p].view = "grid", t[p].missed = {} PROVE Answers(r, 0, pf)
      <3>1. Answers(q, 0, pf)
        BY <1>3, <2>1 DEF SameGrids, Current
      <3>2. 0 \in 0..Len(q) /\ 0 = (IF 0 >= g THEN 0 - g ELSE 0)
        BY <1>1
      <3> QED
        BY <3>1, <3>2, AnswersCarried
    <2>2. ASSUME NEW k \in Builds(r), r[k].got = "ok", t[r[k].at].missed = {} PROVE Answers(r, k, pf)
      BY <1>3, <2>2, BuildAnswersCarried
    <2> QED
      BY <2>1, <2>2 DEF Current
  <1> QED
    BY <1>2, <1>3

\* All that is invariant.
PreferencesInv == /\ Typed /\ AllHonest(net) /\ Truth(stack, net, prefs, list)
                  /\ inOrder => Hits(stack, net, prefs, list) /\ Current(stack, net, prefs)

\* The invariant, for every step that keeps the grids.
LEMMA KeptStep ==
  ASSUME PreferencesInv, Typed', NEW g, g = 0 \/ (~Removes(net[g]) /\ (inOrder => g = 1)), Kept(g)
  PROVE  PreferencesInv'
  <1>1. /\ net \in Seq(Call) /\ net' \in Seq(Call) /\ Carried(net, net', g)
        /\ SameGrids(stack, stack') /\ SameBuilds(stack, stack', net')
        /\ prefs' = prefs /\ list' = list /\ inOrder' = inOrder
    BY DEF PreferencesInv, Typed, Queue, Kept
  <1>2. AllHonest(net')
    BY <1>1, HonestCarried DEF PreferencesInv
  <1>3. Truth(stack', net', prefs, list)
    BY <1>1, KeptTruth DEF PreferencesInv
  <1>4. ASSUME inOrder PROVE Hits(stack', net', prefs, list) /\ Current(stack', net', prefs)
    <2>1. g \in {0, 1}
      BY <1>4
    <2>2. Hits(stack', net', prefs, list)
      BY <1>1, <1>4, <2>1, KeptHits DEF PreferencesInv
    <2>3. Current(stack', net', prefs)
      BY <1>1, <1>4, <2>1, KeptCurrent DEF PreferencesInv
    <2> QED
      BY <2>2, <2>3
  <1>5. AllHonest(net)'
    <2>1. \A c : Honest(c)' <=> Honest(c)
      BY <1>1 DEF Honest
    <2> QED
      BY <1>2, <2>1 DEF AllHonest
  <1> QED
    BY <1>1, <1>3, <1>4, <1>5 DEF PreferencesInv

\* Whether a call is honest depends on no variable that a step changes.
LEMMA HonestAfter ==
  ASSUME inOrder' = inOrder, AllHonest(net')
  PROVE  AllHonest(net)'
  <1>1. \A c : Honest(c)' <=> Honest(c)
    BY DEF Honest
  <1> QED
    BY <1>1 DEF AllHonest

\* What the arrival of a list is to the calls that stay.
LEMMA BroughtParts ==
  ASSUME PreferencesInv, Typed', NEW n, Brought(n)
  PROVE  /\ net \in Seq(Call) /\ net' \in Seq(Call) /\ Carried(net, net', n) /\ n \in 1..Len(net)
         /\ prefs' = prefs /\ list' = net[n].answer /\ inOrder' = inOrder /\ Len(net) \in Nat
         /\ Fetching(net[n]) /\ ~Removes(net[n]) /\ SameBuilds(stack, stack', net')
         /\ net[n].answer \in Seq(Categories) /\ Managing(stack') = Managing(stack)
         /\ \A p : Listens(n, p) => n \in Builds(net) /\ net[n].at = p
  <1>1. /\ net \in Seq(Call) /\ net' \in Seq(Call) /\ Carried(net, net', n) /\ n \in 1..Len(net)
        /\ prefs' = prefs /\ list' = net[n].answer /\ inOrder' = inOrder /\ Len(net) \in Nat
        /\ net[n].answer \in Seq(Categories) /\ Managing(stack') = Managing(stack)
    BY DEF PreferencesInv, Typed, Queue, Brought
  <1>2. Fetching(net[n]) /\ ~Removes(net[n])
    BY DEF Brought, Fetching, Removes
  <1>3. SameBuilds(stack, stack', net')
    BY DEF Brought, SameBuilds
  <1>4. \A p : Listens(n, p) => n \in Builds(net) /\ net[n].at = p
    BY <1>1 DEF Listens, Builds
  <1> QED
    BY <1>1, <1>2, <1>3, <1>4

\* A grid that has missed nothing of a list that arrived: it listened to a true answer, or was
\* true itself and the answer is in order or true.
LEMMA BroughtTruth ==
  ASSUME PreferencesInv, Typed', NEW n, Brought(n)
  PROVE  Truth(stack', net', prefs, net[n].answer)
  <1>1. /\ net \in Seq(Call) /\ net' \in Seq(Call) /\ Carried(net, net', n) /\ n \in 1..Len(net)
        /\ Len(net) \in Nat /\ Fetching(net[n]) /\ ~Removes(net[n]) /\ SameBuilds(stack, stack', net')
        /\ Managing(stack') = Managing(stack) /\ \A p : Listens(n, p) => n \in Builds(net) /\ net[n].at = p
    BY BroughtParts
  <1>2. CASE Removing(net)
    BY <1>1, <1>2, RemovingCarried DEF Truth
  <1>3. CASE ~Removing(net)
    <2>1. ASSUME NEW p \in Managing(stack), stack'[p].view = "grid", stack'[p].missed = {}
          PROVE  stack'[p].drawn = prefs /\ net[n].answer = prefs
      <3>1. CASE Listens(n, p)
        <4>1. stack'[p].drawn = net[n].answer
          BY <3>1 DEF Brought
        <4>2. net[n].got = "ok" /\ stack[p].missed = {}
          BY <2>1, <3>1 DEF Brought
        <4>3. n \in Builds(net) /\ net[n].at = p
          BY <1>1, <3>1
        <4> QED
          BY <1>3, <4>1, <4>2, <4>3 DEF PreferencesInv, Truth
      <3>2. CASE ~Listens(n, p)
        <4>1. /\ stack[p].view = "grid" /\ stack'[p].drawn = stack[p].drawn /\ stack[p].missed = {}
              /\ net[n].got = "ok" /\ (inOrder \/ net[n].answer = prefs)
          BY <2>1, <3>2 DEF Brought
        <4>2. stack[p].drawn = prefs
          BY <1>3, <4>1 DEF PreferencesInv, Truth
        <4>3. ASSUME inOrder PROVE net[n].answer = prefs
          <5>1. Answers(net, 0, prefs)
            BY <1>3, <4>1, <4>3 DEF PreferencesInv, Current
          <5> QED
            BY <1>1, <4>1, <5>1 DEF Answers
        <4> QED
          BY <4>1, <4>2, <4>3
      <3> QED
        BY <3>1, <3>2
    <2>2. ASSUME NEW k \in Builds(net'), net'[k].got = "ok", stack'[net'[k].at].missed = {}
          PROVE  net'[k].answer = prefs
      BY <1>1, <1>3, <2>2, BuildTrueCarried DEF PreferencesInv
    <2> QED
      BY <1>1, <2>1, <2>2 DEF Truth
  <1> QED
    BY <1>2, <1>3

\* In order: what follows the list that arrived brings nothing else.
LEMMA BroughtCurrent ==
  ASSUME PreferencesInv, Typed', inOrder, NEW n, Brought(n)
  PROVE  Current(stack', net', prefs)
  <1>1. /\ net \in Seq(Call) /\ net' \in Seq(Call) /\ Carried(net, net', n) /\ n \in 1..Len(net)
        /\ Len(net) \in Nat /\ ~Removes(net[n]) /\ SameBuilds(stack, stack', net')
        /\ Managing(stack') = Managing(stack) /\ \A p : Listens(n, p) => n \in Builds(net) /\ net[n].at = p
    BY BroughtParts
  <1>2. n = 1 /\ n \in {0, 1} /\ Current(stack, net, prefs)
    BY DEF Brought, PreferencesInv
  <1>3. CASE Removing(net)
    BY <1>1, <1>3, RemovingCarried DEF Current
  <1>4. CASE ~Removing(net)
    <2>1. ASSUME NEW p \in Managing(stack), stack'[p].view = "grid", stack'[p].missed = {}
          PROVE  Answers(net', 0, prefs)
      <3>1. CASE Listens(n, p)
        <4>1. net[n].got = "ok" /\ stack[p].missed = {} /\ n \in Builds(net) /\ net[n].at = p
          BY <1>1, <2>1, <3>1 DEF Brought
        <4>2. Answers(net, 1, prefs)
          BY <1>2, <1>4, <4>1 DEF Current
        <4>3. 1 \in 0..Len(net) /\ 0 = (IF 1 >= 1 THEN 1 - 1 ELSE 1) /\ 1 \in {0, 1} /\ Carried(net, net', 1)
          BY <1>1, <1>2
        <4> QED
          BY <1>1, <4>2, <4>3, AnswersCarried
      <3>2. CASE ~Listens(n, p)
        <4>1. stack[p].view = "grid" /\ stack[p].missed = {}
          BY <2>1, <3>2 DEF Brought
        <4>2. Answers(net, 0, prefs)
          BY <1>2, <1>4, <4>1 DEF Current
        <4>3. 0 \in 0..Len(net) /\ 0 = (IF 0 >= 1 THEN 0 - 1 ELSE 0) /\ 1 \in {0, 1} /\ Carried(net, net', 1)
          BY <1>1, <1>2
        <4> QED
          BY <1>1, <4>2, <4>3, AnswersCarried
      <3> QED
        BY <3>1, <3>2
    <2>2. ASSUME NEW k \in Builds(net'), net'[k].got = "ok", stack'[net'[k].at].missed = {}
          PROVE  Answers(net', k, prefs)
      BY <1>1, <1>2, <1>4, <2>2, BuildAnswersCarried
    <2> QED
      BY <1>1, <2>1, <2>2 DEF Current
  <1> QED
    BY <1>3, <1>4

\* In order, the list that arrives is the first call's, with which every grid agreed already.
LEMMA BroughtHits ==
  ASSUME PreferencesInv, Typed', inOrder, NEW n, Brought(n)
  PROVE  Hits(stack', net', prefs, list')
  <1>1. /\ net \in Seq(Call) /\ net' \in Seq(Call) /\ Carried(net, net', n) /\ n \in 1..Len(net)
        /\ list' = net[n].answer /\ Len(net) \in Nat /\ net[n].answer \in Seq(Categories)
        /\ Fetching(net[n]) /\ ~Removes(net[n]) /\ SameBuilds(stack, stack', net')
        /\ Managing(stack') = Managing(stack) /\ \A p : Listens(n, p) => n \in Builds(net) /\ net[n].at = p
    BY BroughtParts
  <1>2. /\ n = 1 /\ n \in {0, 1} /\ InTurn(net) /\ net[n].got # "nothing"
        /\ GridsFit(stack, net, prefs, list) /\ BuildsFit(stack, net, prefs)
    BY DEF Brought, PreferencesInv, Hits
  <1>3. InTurn(net')
    BY <1>1, <1>2, InTurnCarried
  <1>4. BuildsFit(stack', net', prefs)
    BY <1>1, <1>2, BuildsFitCarried
  <1>5. GridsFit(stack', net', prefs, list')
    <2>1. SUFFICES ASSUME NEW p \in Managing(stack), stack'[p].view = "grid", "delete" \notin stack'[p].missed
                   PROVE  \E s \in Seq(Categories) :
                            Draws(stack'[p].drawn, s) /\ Agree(s, list') /\ Fits(net', prefs, 0, s)
      BY <1>1 DEF GridsFit
    <2>2. CASE ~Listens(n, p)
      <3>1. stack[p].view = "grid" /\ "delete" \notin stack[p].missed /\ stack'[p].drawn = stack[p].drawn
        BY <2>1, <2>2 DEF Brought
      <3>2. PICK s \in Seq(Categories) : Draws(stack[p].drawn, s) /\ Fits(net, prefs, 0, s)
        BY <1>2, <3>1 DEF GridsFit
      <3>3. Clear(net, 0, 1)
        BY DEF Clear
      <3>4. Agree(s, net[n].answer)
        BY <1>1, <1>2, <3>2, <3>3 DEF Fits
      <3>5. Fits(net', prefs, 0, s)
        BY <1>1, <1>2, <3>2, GridFitCarried
      <3> QED
        BY <1>1, <3>1, <3>2, <3>4, <3>5
    <2>3. CASE Listens(n, p)
      <3>1. PICK s : s = net[n].answer
        OBVIOUS
      <3>2. s \in Seq(Categories) /\ stack'[p].drawn = s /\ "delete" \notin stack[p].missed
        BY <1>1, <2>1, <2>3, <3>1 DEF Brought
      <3>3. Fits(net, prefs, 1, s)
        BY <1>1, <1>2, <2>3, <3>1, <3>2 DEF BuildsFit
      <3>4. /\ 1 \in 0..Len(net) /\ 0 = (IF 1 >= 1 THEN 1 - 1 ELSE 1) /\ (1 < 1 => ~Removes(net[1]))
            /\ 1 \in {0, 1} /\ Carried(net, net', 1)
        BY <1>1, <1>2
      <3>5. Fits(net', prefs, 0, s)
        BY <1>1, <3>3, <3>4, FitsCarried
      <3>6. Draws(s, s) /\ Agree(s, list')
        BY <1>1, <3>1 DEF Draws, Agree
      <3> QED
        BY <3>2, <3>5, <3>6
    <2> QED
      BY <2>2, <2>3
  <1> QED
    BY <1>3, <1>4, <1>5 DEF Hits

\* The invariant when a list arrives.
LEMMA BroughtStep ==
  ASSUME PreferencesInv, Typed', NEW n, Brought(n)
  PROVE  PreferencesInv'
  <1>1. /\ Carried(net, net', n) /\ prefs' = prefs /\ list' = net[n].answer /\ inOrder' = inOrder
    BY BroughtParts
  <1>2. AllHonest(net)'
    BY <1>1, HonestCarried, HonestAfter DEF PreferencesInv
  <1>3. Truth(stack', net', prefs, net[n].answer)
    BY BroughtTruth
  <1>4. inOrder => Hits(stack', net', prefs, list') /\ Current(stack', net', prefs)
    BY BroughtHits, BroughtCurrent
  <1> QED
    BY <1>1, <1>2, <1>3, <1>4 DEF PreferencesInv

\* The invariant when a card is drawn again: a screen that has missed nothing draws from a
\* list that is true, and in order from one that agrees with the list it was built with.
LEMMA ScrolledStep ==
  ASSUME PreferencesInv, Typed', NEW a, NEW i, Scrolled(a, i)
  PROVE  PreferencesInv'
  <1>1. PICK scr, t, d, e, f :
          /\ scr = stack /\ t = stack' /\ d = scr[a].drawn /\ f = t[a].drawn
          /\ e = IF i \in DOMAIN list THEN list[i] ELSE NoCategory
    OBVIOUS
  <1>2. /\ net' = net /\ prefs' = prefs /\ list' = list /\ inOrder' = inOrder
        /\ a \in Managing(scr) /\ scr[a].view = "grid" /\ Managing(t) = Managing(scr)
        /\ \A p \in Managing(scr) : t[p].view = scr[p].view /\ t[p].missed = scr[p].missed
        /\ \A p \in Managing(scr) : p # a => t[p].drawn = scr[p].drawn
        /\ i \in 1..Len(d) /\ f = [d EXCEPT ![i] = e]
    BY <1>1 DEF Scrolled
  <1>3. /\ Standing(scr) /\ list \in Seq(Categories) /\ prefs \in Seq(Categories)
        /\ \A k \in Builds(net) : net[k].at \in Managing(scr)
    BY <1>1 DEF PreferencesInv, Typed, Data, Heard, Expecting
  <1>4. AllHonest(net)'
    BY <1>2, HonestAfter DEF PreferencesInv
  <1>5. Truth(t, net, prefs, list)
    <2>1. CASE Removing(net)
      BY <2>1 DEF Truth
    <2>2. CASE ~Removing(net)
      <3>1. ASSUME scr[a].missed = {} PROVE f = d
        <4>1. d = prefs /\ list = prefs
          BY <1>1, <1>2, <2>2, <3>1 DEF PreferencesInv, Truth
        <4>2. i \in DOMAIN list /\ e = d[i]
          BY <1>1, <1>2, <1>3, <4>1
        <4> QED
          BY <1>2, <1>3, <4>1, <4>2
      <3>2. ASSUME NEW p \in Managing(t), t[p].view = "grid", t[p].missed = {}
            PROVE  t[p].drawn = prefs /\ list = prefs
        <4>1. p \in Managing(scr) /\ scr[p].view = "grid" /\ scr[p].missed = {}
          BY <1>2, <3>2
        <4>2. scr[p].drawn = prefs /\ list = prefs
          BY <1>1, <2>2, <4>1 DEF PreferencesInv, Truth
        <4>3. t[p].drawn = scr[p].drawn
          BY <1>1, <1>2, <3>1, <4>1
        <4> QED
          BY <4>2, <4>3
      <3>3. ASSUME NEW k \in Builds(net), net[k].got = "ok", t[net[k].at].missed = {}
            PROVE  net[k].answer = prefs
        BY <1>1, <1>2, <1>3, <2>2, <3>3 DEF PreferencesInv, Truth
      <3> QED
        BY <3>2, <3>3 DEF Truth
    <2> QED
      BY <2>1, <2>2
  <1>6. inOrder => Current(t, net, prefs)
    BY <1>1, <1>2, <1>3 DEF PreferencesInv, Current
  <1>7. ASSUME inOrder PROVE Hits(t, net, prefs, list)
    <2>1. Hits(scr, net, prefs, list)
      BY <1>1, <1>7 DEF PreferencesInv
    <2>2. BuildsFit(t, net, prefs)
      BY <1>2, <1>3, <2>1 DEF Hits, BuildsFit
    <2>3. GridsFit(t, net, prefs, list)
      <3>1. SUFFICES ASSUME NEW p \in Managing(scr), t[p].view = "grid", "delete" \notin t[p].missed
                     PROVE  \E s \in Seq(Categories) :
                              Draws(t[p].drawn, s) /\ Agree(s, list) /\ Fits(net, prefs, 0, s)
        BY <1>2 DEF GridsFit
      <3>2. scr[p].view = "grid" /\ "delete" \notin scr[p].missed
        BY <1>2, <3>1
      <3>3. PICK s \in Seq(Categories) : Draws(scr[p].drawn, s) /\ Agree(s, list) /\ Fits(net, prefs, 0, s)
        BY <2>1, <3>2 DEF Hits, GridsFit
      <3>4. CASE p # a
        BY <1>2, <3>3, <3>4
      <3>5. CASE p = a
        <4>1. Draws(d, s) /\ Len(s) \in Nat /\ Len(list) \in Nat /\ DOMAIN list = 1..Len(list)
          BY <1>1, <1>3, <3>3, <3>5
        <4>2. e \in {s[i], NoCategory}
          <5>1. CASE i \in DOMAIN list
            <6>1. i \in 1..Len(s) /\ i <= Len(list)
              BY <1>2, <4>1, <5>1 DEF Draws
            <6> QED
              BY <1>1, <3>3, <5>1, <6>1 DEF Agree
          <5> QED
            BY <1>1, <5>1
        <4>3. /\ DOMAIN d = 1..Len(d) /\ Len(f) = Len(d)
              /\ \A j \in 1..Len(d) : f[j] = IF j = i THEN e ELSE d[j]
          <5>1. d \in Seq(Categories \cup {NoCategory})
            <6>1. a \in 1..Len(scr)
              BY <1>2, <1>3, ScreenFields
            <6> QED
              BY <1>1, <1>3, <6>1, ScreenFields
          <5> QED
            BY <1>2, <5>1
        <4>4. Draws(f, s)
          BY <1>2, <4>1, <4>2, <4>3 DEF Draws
        <4> QED
          BY <1>1, <3>3, <3>5, <4>4
      <3> QED
        BY <3>4, <3>5
    <2> QED
      BY <2>1, <2>2, <2>3 DEF Hits
  <1> QED
    BY <1>1, <1>2, <1>4, <1>5, <1>6, <1>7 DEF PreferencesInv

\* The invariant when update() has run: every grid waits.
LEMMA AnewStep ==
  ASSUME PreferencesInv, Typed', NEW n, Anew(n)
  PROVE  PreferencesInv'
  <1>1. /\ net \in Seq(Call) /\ net' \in Seq(Call) /\ Carried(net, net', n) /\ inOrder' = inOrder
    BY DEF PreferencesInv, Typed, Queue, Anew
  <1>2. AllHonest(net)'
    BY <1>1, HonestCarried, HonestAfter DEF PreferencesInv
  <1>3. Truth(stack', net', prefs', list')
    BY DEF Anew, Truth
  <1>4. ASSUME inOrder PROVE Hits(stack', net', prefs', list') /\ Current(stack', net', prefs')
    <2>1. n \in {0, 1} /\ InTurn(net)
      BY <1>4 DEF Anew, PreferencesInv, Hits
    <2>2. InTurn(net')
      BY <1>1, <2>1, InTurnCarried
    <2> QED
      BY <2>2 DEF Anew, Hits, GridsFit, BuildsFit, Current
  <1> QED
    BY <1>1, <1>2, <1>3, <1>4 DEF PreferencesInv

\* What only has more than what has more.
LEMMA OpensTransitive ==
  ASSUME NEW s \in Seq(Categories), NEW t \in Seq(Categories), NEW u \in Seq(Categories),
         Opens(s, t), Opens(t, u)
  PROVE  Opens(s, u)
  <1>1. Len(s) \in Nat /\ Len(t) \in Nat /\ Len(u) \in Nat /\ Len(s) <= Len(t) /\ Len(t) <= Len(u)
    BY DEF Opens
  <1>2. ASSUME NEW i \in 1..Len(s) PROVE s[i] = u[i]
    <2>1. i <= Len(t) /\ i \in 1..Len(t) /\ i <= Len(u)
      BY <1>1
    <2>2. s[i] = t[i]
      BY <2>1 DEF Opens, Agree
    <2>3. t[i] = u[i]
      BY <2>1 DEF Opens, Agree
    <2> QED
      BY <2>2, <2>3
  <1> QED
    BY <1>1, <1>2 DEF Opens, Agree

\* A list agrees with itself, and with a refused answer.
LEMMA OpensSelf ==
  ASSUME NEW s \in Seq(Categories)
  PROVE  Opens(s, s) /\ Opens(<<>>, s) /\ Agree(s, <<>>)
  <1>1. Len(s) \in Nat /\ Len(<<>>) = 0
    BY EmptySeq
  <1> QED
    BY <1>1 DEF Opens, Agree

\* In order, what fitted before call n is served fits after.
LEMMA FitsServed ==
  ASSUME NEW q \in Seq(Call), NEW r \in Seq(Call), Len(r) = Len(q), NEW n \in 1..Len(q),
         q[n].got = "nothing", \A k \in 1..Len(q) : k # n => r[k] = q[k], r[n].kind = q[n].kind, InTurn(q),
         NEW pf \in Seq(Categories), NEW pf2 \in Seq(Categories),
         Fetching(q[n]) => r[n].answer \in {pf, <<>>}, Removes(r[n]) \/ Opens(pf, pf2),
         NEW s \in Seq(Categories), NEW j \in 0..(n - 1), Fits(q, pf, j, s)
  PROVE  Fits(r, pf2, j, s)
  <1>1. Len(q) \in Nat
    OBVIOUS
  <1>2. ~Removes(q[n])
    BY DEF Removes
  <1>3. \A k \in 1..Len(q) : k > n => q[k].got = "nothing"
    BY <1>1 DEF InTurn
  <1>4. ASSUME NEW l \in Nat, l >= n, \A k \in 1..Len(q) : j < k /\ k < n => ~Removes(q[k])
        PROVE  Opens(s, pf)
    <2>1. Clear(q, j, Len(q) + 1)
      <3>1. SUFFICES ASSUME NEW k \in 1..Len(q), j < k PROVE ~Removes(q[k])
        BY DEF Clear
      <3>2. CASE k < n
        BY <1>4, <3>1, <3>2
      <3>3. CASE k = n
        BY <1>2, <3>3
      <3>4. CASE k > n
        BY <1>3, <3>4 DEF Removes
      <3> QED
        BY <1>1, <3>2, <3>3, <3>4
    <2> QED
      BY <2>1 DEF Fits
  <1>5. ASSUME NEW m \in 1..Len(q), m > j, Fetching(r[m]), r[m].got # "nothing", Clear(r, j, m)
        PROVE  Agree(s, r[m].answer)
    <2>1. CASE m # n
      <3>1. r[m] = q[m]
        BY <2>1
      <3>2. m < n
        BY <1>1, <1>3, <1>5, <2>1, <3>1
      <3>3. Clear(q, j, m)
        <4>1. \A k \in 1..Len(q) : k < m => r[k] = q[k]
          BY <1>1, <3>2
        <4> QED
          BY <1>5, <4>1 DEF Clear
      <3> QED
        BY <1>5, <3>1, <3>3 DEF Fits
    <2>2. CASE m = n
      <3>1. \A k \in 1..Len(q) : j < k /\ k < n => ~Removes(q[k])
        <4>1. \A k \in 1..Len(q) : k < n => r[k] = q[k]
          BY <1>1
        <4> QED
          BY <1>5, <2>2, <4>1 DEF Clear
      <3>2. n \in Nat /\ n >= n
        BY <1>1
      <3>3. Opens(s, pf)
        BY <1>4, <3>1, <3>2
      <3>4. Fetching(q[n])
        BY <1>5, <2>2 DEF Fetching
      <3>5. CASE r[n].answer = pf
        BY <2>2, <3>3, <3>5 DEF Opens
      <3>6. CASE r[n].answer = <<>>
        BY <2>2, <3>6, OpensSelf
      <3> QED
        BY <3>4, <3>5, <3>6
    <2> QED
      BY <2>1, <2>2
  <1>6. ASSUME Clear(r, j, Len(q) + 1) PROVE Opens(s, pf2)
    <2>1. \A k \in 1..Len(q) : j < k => ~Removes(r[k])
      BY <1>1, <1>6 DEF Clear
    <2>2. \A k \in 1..Len(q) : j < k /\ k < n => ~Removes(q[k])
      <3>1. \A k \in 1..Len(q) : k < n => r[k] = q[k]
        BY <1>1
      <3> QED
        BY <2>1, <3>1
    <2>3. ~Removes(r[n])
      BY <1>1, <2>1
    <2>4. n \in Nat /\ n >= n
      BY <1>1
    <2>5. Opens(s, pf)
      BY <1>4, <2>2, <2>4
    <2> QED
      BY <2>3, <2>5, OpensTransitive
  <1> QED
    BY <1>5, <1>6 DEF Fits

\* What a step of the backend must say of the calls and the screens.
ServedTruly(n) ==
  /\ Fetching(net[n]) /\ net'[n].got = "ok" => net'[n].answer = prefs'
  /\ \/ Removes(net'[n])
     \/ \A p \in Managing(stack) :
          stack'[p].missed = {} /\ ~(net[n].kind = "build" /\ net[n].at = p) =>
            stack[p].missed = {} /\ prefs' = prefs

ServedFitly(n) ==
  /\ Fetching(net[n]) => prefs' = prefs /\ net'[n].answer \in {prefs, <<>>}
  /\ \A p \in Managing(stack) :
       "delete" \notin stack'[p].missed /\ ~(net[n].kind = "build" /\ net[n].at = p) =>
         "delete" \notin stack[p].missed /\ (Removes(net'[n]) \/ Opens(prefs, prefs'))

\* The screens of the builds.
LEMMA BuildPlaces ==
  ASSUME Typed, NEW k \in Builds(net)
  PROVE  /\ k \in 1..Len(net) /\ net[k].kind = "build" /\ net[k].at \in Managing(stack)
         /\ stack[net[k].at].view = "waiting"
         /\ \A j \in Builds(net) : net[j].at = net[k].at => j = k
  BY DEF Typed, Queue, Single, Heard, Expecting, Builds

\* The second half of the invariant when the backend serves a call.
LEMMA ServedTruth ==
  ASSUME PreferencesInv, NEW n, Served(n), ServedTruly(n)
  PROVE  Truth(stack', net', prefs', list')
  <1>1. /\ Typed /\ n \in 1..Len(net) /\ Len(net') = Len(net) /\ Builds(net') = Builds(net)
        /\ \A k \in 1..Len(net) : k # n => net'[k] = net[k]
        /\ Truth(stack, net, prefs, list) /\ list' = list
    BY DEF PreferencesInv, Served
  <1>2. CASE Removing(net)
    <2>1. PICK k \in 1..Len(net) : Removes(net[k])
      BY <1>2 DEF Removing
    <2>2. k # n
      BY <2>1 DEF Removes, Served
    <2> QED
      BY <1>1, <2>1, <2>2 DEF Truth, Removing
  <1>3. CASE Removes(net'[n])
    BY <1>1, <1>3 DEF Truth, Removing
  <1>4. CASE ~Removing(net) /\ ~Removes(net'[n])
    <2>1. ASSUME NEW p \in Managing(stack'), stack'[p].view = "grid", stack'[p].missed = {}
          PROVE  stack'[p].drawn = prefs' /\ list' = prefs'
      <3>1. p \in Managing(stack) /\ stack[p].view = "grid" /\ stack'[p].drawn = stack[p].drawn
        BY <2>1 DEF Served
      <3>2. ~(net[n].kind = "build" /\ net[n].at = p)
        <4>1. ASSUME net[n].kind = "build" PROVE net[n].at # p
          <5>1. n \in Builds(net)
            BY <1>1, <4>1 DEF Builds
          <5> QED
            BY <1>1, <3>1, <5>1, BuildPlaces
        <4> QED
          BY <4>1
      <3>3. stack[p].missed = {} /\ prefs' = prefs
        BY <1>4, <2>1, <3>1, <3>2 DEF ServedTruly
      <3> QED
        BY <1>1, <1>4, <3>1, <3>3 DEF Truth
    <2>2. ASSUME NEW k \in Builds(net'), net'[k].got = "ok", stack'[net'[k].at].missed = {}
          PROVE  net'[k].answer = prefs'
      <3>1. k \in Builds(net)
        BY <1>1
      <3>2. CASE k = n
        BY <2>2, <3>1, <3>2 DEF ServedTruly, Builds, Fetching
      <3>3. CASE k # n
        <4>1. /\ net'[k] = net[k] /\ net[k].at \in Managing(stack)
              /\ ~(net[n].kind = "build" /\ net[n].at = net[k].at)
          <5>1. /\ k \in 1..Len(net) /\ net[k].at \in Managing(stack)
                /\ \A j \in Builds(net) : net[j].at = net[k].at => j = k
            BY <1>1, <3>1, BuildPlaces
          <5> QED
            BY <1>1, <3>3, <5>1 DEF Builds
        <4>2. stack[net[k].at].missed = {} /\ prefs' = prefs
          BY <1>4, <2>2, <4>1 DEF ServedTruly
        <4> QED
          BY <1>1, <1>4, <2>2, <3>1, <4>1, <4>2 DEF Truth
      <3> QED
        BY <3>2, <3>3
    <2> QED
      BY <2>1, <2>2 DEF Truth
  <1> QED
    BY <1>2, <1>3, <1>4

\* The first half of the invariant when the backend serves a call.
LEMMA ServedHits ==
  ASSUME PreferencesInv, Typed', inOrder, NEW n, Served(n), ServedFitly(n)
  PROVE  Hits(stack', net', prefs', list')
  <1>1. /\ Typed /\ net \in Seq(Call) /\ net' \in Seq(Call) /\ Len(net) \in Nat
        /\ n \in 1..Len(net) /\ Len(net') = Len(net) /\ Builds(net') = Builds(net)
        /\ \A k \in 1..Len(net) : k # n => net'[k] = net[k]
        /\ net[n].got = "nothing" /\ net'[n].kind = net[n].kind
        /\ \A m \in 1..Len(net) : m < n => net[m].got # "nothing"
        /\ list' = list /\ prefs \in Seq(Categories) /\ prefs' \in Seq(Categories)
    <2>1. Typed /\ net \in Seq(Call) /\ net' \in Seq(Call) /\ prefs \in Seq(Categories) /\ prefs' \in Seq(Categories)
      BY DEF PreferencesInv, Typed, Data, Queue
    <2>2. \A m \in 1..Len(net) : m < n => net[m].got # "nothing"
      <3>1. Len(net) \in Nat /\ n \in 1..Len(net) /\ \A m \in 1..(n - 1) : net[m].got # "nothing"
        BY <2>1 DEF Served
      <3>2. \A m \in 1..Len(net) : m < n => m \in 1..(n - 1)
        BY <3>1
      <3> QED
        BY <3>1, <3>2
    <2> QED
      BY <2>1, <2>2 DEF Served
  <1>2. InTurn(net) /\ GridsFit(stack, net, prefs, list) /\ BuildsFit(stack, net, prefs)
    BY DEF PreferencesInv, Hits
  <1>3. \A k \in 1..Len(net) : k > n => net[k].got = "nothing"
    BY <1>1, <1>2 DEF InTurn
  <1>4. InTurn(net')
    <2>1. SUFFICES ASSUME NEW k \in 1..Len(net'), net'[k].got # "nothing", NEW m \in 1..Len(net'), m < k
                   PROVE  net'[m].got # "nothing"
      BY DEF InTurn
    <2>2. k <= n
      BY <1>1, <1>3, <2>1
    <2>3. m # n /\ m < n
      BY <1>1, <2>1, <2>2
    <2> QED
      BY <1>1, <2>3
  <1>5. ASSUME NEW s \in Seq(Categories), NEW j \in 0..(n - 1), Fits(net, prefs, j, s),
               NEW p \in Managing(stack), "delete" \notin stack'[p].missed,
               ~(net[n].kind = "build" /\ net[n].at = p)
        PROVE  Fits(net', prefs', j, s)
    <2>1. Fetching(net[n]) => net'[n].answer \in {prefs, <<>>}
      BY DEF ServedFitly
    <2>2. Removes(net'[n]) \/ Opens(prefs, prefs')
      BY <1>5 DEF ServedFitly
    <2> QED
      BY <1>1, <1>2, <1>5, <2>1, <2>2, FitsServed
  <1>6. GridsFit(stack', net', prefs', list')
    <2>1. SUFFICES ASSUME NEW p \in Managing(stack'), stack'[p].view = "grid", "delete" \notin stack'[p].missed
                   PROVE  \E s \in Seq(Categories) :
                            Draws(stack'[p].drawn, s) /\ Agree(s, list) /\ Fits(net', prefs', 0, s)
      BY <1>1 DEF GridsFit
    <2>2. p \in Managing(stack) /\ stack[p].view = "grid" /\ stack'[p].drawn = stack[p].drawn
      BY <2>1 DEF Served
    <2>3. ~(net[n].kind = "build" /\ net[n].at = p)
      <3>1. ASSUME net[n].kind = "build" PROVE net[n].at # p
        <4>1. n \in Builds(net)
          BY <1>1, <3>1 DEF Builds
        <4> QED
          BY <1>1, <2>2, <4>1, BuildPlaces
      <3> QED
        BY <3>1
    <2>4. "delete" \notin stack[p].missed
      BY <2>1, <2>2, <2>3 DEF ServedFitly
    <2>5. PICK s \in Seq(Categories) : Draws(stack[p].drawn, s) /\ Agree(s, list) /\ Fits(net, prefs, 0, s)
      BY <1>2, <2>2, <2>4 DEF GridsFit
    <2>6. 0 \in 0..(n - 1)
      BY <1>1
    <2>7. Fits(net', prefs', 0, s)
      BY <1>5, <2>1, <2>2, <2>3, <2>5, <2>6
    <2> QED
      BY <2>2, <2>5, <2>7
  <1>7. BuildsFit(stack', net', prefs')
    <2>1. SUFFICES ASSUME NEW k \in Builds(net), net'[k].got # "nothing", "delete" \notin stack'[net'[k].at].missed
                   PROVE  Fits(net', prefs', k, net'[k].answer)
      BY <1>1 DEF BuildsFit
    <2>2. PICK s : s = net'[k].answer
      OBVIOUS
    <2>3. /\ k \in 1..Len(net) /\ net[k].kind = "build" /\ net[k].at \in Managing(stack)
          /\ \A j \in Builds(net) : net[j].at = net[k].at => j = k
      BY <1>1, <2>1, BuildPlaces
    <2>4. s \in Seq(Categories)
      BY <1>1, <2>2, <2>3, CallFields
    <2>5. CASE k # n
      <3>1. net'[k] = net[k] /\ k \in 0..(n - 1)
        BY <1>1, <1>3, <2>1, <2>3, <2>5, SMTT(30)
      <3>2. ~(net[n].kind = "build" /\ net[n].at = net[k].at)
        BY <1>1, <2>3, <2>5 DEF Builds
      <3>3. "delete" \notin stack[net[k].at].missed
        BY <2>1, <2>3, <3>1, <3>2 DEF ServedFitly
      <3>4. Fits(net, prefs, k, s)
        BY <1>2, <2>1, <2>2, <3>1, <3>3 DEF BuildsFit
      <3>5. "delete" \notin stack'[net[k].at].missed
        BY <2>1, <3>1
      <3>6. Fits(net', prefs', k, s)
        BY <1>5, <2>3, <2>4, <3>1, <3>2, <3>4, <3>5
      <3> QED
        BY <2>2, <3>6
    <2>6. CASE k = n
      <3>1. prefs' = prefs /\ s \in {prefs, <<>>}
        BY <2>2, <2>3, <2>6 DEF ServedFitly, Fetching
      <3>2. Opens(s, prefs')
        BY <1>1, <3>1, OpensSelf
      <3>3. \A m \in 1..Len(net') : m > k => net'[m].got = "nothing"
        BY <1>1, <1>3, <2>6
      <3>4. Fits(net', prefs', k, s)
        BY <3>2, <3>3 DEF Fits
      <3> QED
        BY <2>2, <3>4
    <2> QED
      BY <2>5, <2>6
  <1> QED
    BY <1>4, <1>6, <1>7 DEF Hits

\* In order, when the backend serves a call: an answer that succeeds is what it holds, and no
\* call behind it is served yet.
LEMMA ServedCurrent ==
  ASSUME PreferencesInv, inOrder, NEW n, Served(n), ServedTruly(n)
  PROVE  Current(stack', net', prefs')
  <1>1. /\ Typed /\ n \in 1..Len(net) /\ Len(net') = Len(net) /\ Builds(net') = Builds(net)
        /\ \A k \in 1..Len(net) : k # n => net'[k] = net[k]
        /\ net[n].got = "nothing" /\ net'[n].kind = net[n].kind /\ Len(net) \in Nat
        /\ InTurn(net) /\ Current(stack, net, prefs)
    <2>1. Typed /\ InTurn(net) /\ Current(stack, net, prefs)
      BY DEF PreferencesInv, Hits
    <2>2. Len(net) \in Nat
      BY <2>1 DEF Typed, Queue
    <2> QED
      BY <2>1, <2>2 DEF Served
  <1>2. CASE Removing(net)
    <2>1. PICK k \in 1..Len(net) : Removes(net[k])
      BY <1>2 DEF Removing
    <2>2. k # n
      BY <1>1, <2>1 DEF Removes
    <2> QED
      BY <1>1, <2>1, <2>2 DEF Current, Removing
  <1>3. CASE Removes(net'[n])
    BY <1>1, <1>3 DEF Current, Removing
  <1>4. CASE ~Removing(net) /\ ~Removes(net'[n])
    <2>1. ASSUME NEW j, Answers(net, j, prefs), prefs' = prefs PROVE Answers(net', j, prefs')
      <3>1. SUFFICES ASSUME NEW m \in 1..Len(net), m > j, Fetching(net'[m]), net'[m].got = "ok"
                     PROVE  net'[m].answer = prefs'
        BY <1>1 DEF Answers
      <3>2. CASE m = n
        BY <1>1, <3>1, <3>2 DEF ServedTruly, Fetching
      <3>3. CASE m # n
        BY <1>1, <2>1, <3>1, <3>3 DEF Answers
      <3> QED
        BY <3>2, <3>3
    <2>2. ASSUME NEW p \in Managing(stack'), stack'[p].view = "grid", stack'[p].missed = {}
          PROVE  Answers(net', 0, prefs')
      <3>1. p \in Managing(stack) /\ stack[p].view = "grid"
        BY <2>2 DEF Served
      <3>2. ~(net[n].kind = "build" /\ net[n].at = p)
        <4>1. ASSUME net[n].kind = "build" PROVE net[n].at # p
          <5>1. n \in Builds(net)
            BY <1>1, <4>1 DEF Builds
          <5> QED
            BY <1>1, <3>1, <5>1, BuildPlaces
        <4> QED
          BY <4>1
      <3>3. stack[p].missed = {} /\ prefs' = prefs
        BY <1>4, <2>2, <3>1, <3>2 DEF ServedTruly
      <3> QED
        BY <1>1, <1>4, <2>1, <3>1, <3>3 DEF Current
    <2>3. ASSUME NEW k \in Builds(net'), net'[k].got = "ok", stack'[net'[k].at].missed = {}
          PROVE  Answers(net', k, prefs')
      <3>1. /\ k \in Builds(net) /\ k \in 1..Len(net) /\ net[k].at \in Managing(stack)
            /\ \A j \in Builds(net) : net[j].at = net[k].at => j = k
        BY <1>1, BuildPlaces
      <3>2. CASE k = n
        <4>1. \A m \in 1..Len(net) : m > n => net'[m].got = "nothing"
          BY <1>1 DEF InTurn
        <4> QED
          BY <1>1, <3>2, <4>1 DEF Answers
      <3>3. CASE k # n
        <4>1. net'[k] = net[k] /\ ~(net[n].kind = "build" /\ net[n].at = net[k].at)
          BY <1>1, <3>1, <3>3 DEF Builds
        <4>2. stack[net[k].at].missed = {} /\ prefs' = prefs
          BY <1>4, <2>3, <3>1, <4>1 DEF ServedTruly
        <4> QED
          BY <1>1, <1>4, <2>1, <2>3, <3>1, <4>1, <4>2 DEF Current
      <3> QED
        BY <3>2, <3>3
    <2> QED
      BY <2>2, <2>3 DEF Current
  <1> QED
    BY <1>2, <1>3, <1>4

\* The invariant when the backend serves a call.
LEMMA ServedStep ==
  ASSUME PreferencesInv, Typed', NEW n, Served(n), ServedTruly(n), ServedFitly(n)
  PROVE  PreferencesInv'
  <1>1. AllHonest(net')
    <2>1. SUFFICES ASSUME NEW k \in 1..Len(net) PROVE Honest(net'[k])
      BY DEF AllHonest, Served
    <2>2. Honest(net[k])
      BY DEF PreferencesInv, AllHonest
    <2>3. net'[k].kind = net[k].kind /\ net'[k].of = net[k].of /\ net'[k].card = net[k].card
      BY DEF Served
    <2> QED
      BY <2>2, <2>3 DEF Honest
  <1>2. inOrder' = inOrder
    BY DEF Served
  <1>3. AllHonest(net)'
    BY <1>1, <1>2, HonestAfter
  <1>4. Truth(stack', net', prefs', list')
    BY ServedTruth
  <1>5. inOrder => Hits(stack', net', prefs', list') /\ Current(stack', net', prefs')
    BY ServedHits, ServedCurrent
  <1> QED
    BY <1>2, <1>3, <1>4, <1>5 DEF PreferencesInv

\* The invariant after ServeFetch.
LEMMA ReadStep ==
  ASSUME PreferencesInv, Typed', NEW n, Served(n), Read(n)
  PROVE  PreferencesInv'
  <1>1. prefs \in Seq(Categories)
    BY DEF PreferencesInv, Typed, Data
  <1>2. ServedTruly(n)
    BY DEF Read, ServedTruly, Fetching
  <1>3. ServedFitly(n)
    BY <1>1, OpensSelf DEF Read, ServedFitly
  <1> QED
    BY <1>2, <1>3, ServedStep

\* The invariant after ServeDelete.
LEMMA DeletingStep ==
  ASSUME PreferencesInv, Typed', NEW n, Served(n), Deleting(n)
  PROVE  PreferencesInv'
  <1>1. prefs \in Seq(Categories)
    BY DEF PreferencesInv, Typed, Data
  <1>2. net[n].kind # "build"
    BY DEF Deleting, Fetching
  <1>3. ServedTruly(n)
    BY <1>2 DEF Deleting, ServedTruly
  <1>4. ServedFitly(n)
    BY <1>1, <1>2, OpensSelf DEF Deleting, ServedFitly
  <1> QED
    BY <1>3, <1>4, ServedStep

\* The invariant after ServeAdd.
LEMMA AddingStep ==
  ASSUME PreferencesInv, Typed', NEW n, Served(n), Adding(n)
  PROVE  PreferencesInv'
  <1>1. net[n].kind # "build" /\ ~Fetching(net[n])
    BY DEF Adding, Fetching
  <1>2. ServedTruly(n)
    BY <1>1 DEF Adding, ServedTruly, Fetching
  <1>3. ServedFitly(n)
    BY <1>1 DEF Adding, ServedFitly
  <1> QED
    BY <1>2, <1>3, ServedStep

\* The invariant holds at first.
LEMMA InitialPreferences ==
  Init => PreferencesInv
  <1> SUFFICES ASSUME Init PROVE PreferencesInv
    OBVIOUS
  <1>1. prefs \in Seq(Categories) /\ IsInjective(prefs)
    BY ListsAreSequences, PreferencesAssumption DEF Init
  <1>2. net \in Seq(Call) /\ Len(net) = 0 /\ list \in Seq(Categories)
    BY EmptySeq DEF Init
  <1>3. Builds(net) = {}
    BY <1>2 DEF Builds
  <1>4. Standing(stack) /\ Managing(stack) = {}
    <2>1. PICK c : c = Page("home")
      OBVIOUS
    <2>2. c \in Screen /\ c.page = "home"
      BY <2>1, PageScreen
    <2>3. stack = <<c>>
      BY <2>1 DEF Init
    <2>4. stack \in Seq(Screen) /\ Len(stack) = 1 /\ DOMAIN stack = 1..1 /\ stack[1] = c
      BY <2>2, <2>3
    <2> QED
      BY <2>2, <2>4, PreferencesAssumption DEF Standing, Managing
  <1>5. Queue(net) /\ Heard(net) = Expecting(stack)
    BY <1>2, <1>3, <1>4 DEF Queue, Single, Heard, Expecting
  <1>6. Data /\ Len(net) <= MaxCalls[inOrder]
    <2>1. inOrder \in BOOLEAN
      BY PreferencesAssumption DEF Init
    <2>2. MaxCalls[inOrder] \in Nat
      BY <2>1, PreferencesAssumption
    <2>3. taps \in 0..MaxTaps /\ failures \in 0..MaxFailures
      BY PreferencesAssumption DEF Init
    <2>4. registered \in BOOLEAN
      BY DEF Init
    <2>5. Data
      BY <1>1, <1>2, <2>1, <2>3, <2>4 DEF Data
    <2> QED
      BY <1>2, <2>2, <2>5
  <1>7. AllHonest(net) /\ Truth(stack, net, prefs, list) /\ Current(stack, net, prefs)
    BY <1>2, <1>3, <1>4 DEF AllHonest, Truth, Current
  <1>8. Hits(stack, net, prefs, list)
    BY <1>2, <1>3, <1>4 DEF Hits, InTurn, GridsFit, BuildsFit
  <1> QED
    BY <1>4, <1>5, <1>6, <1>7, <1>8 DEF PreferencesInv, Typed

\* The Remove button of a grid asks for what the card shows, as far as the list of the
\* controller still agrees with the grid.
LEMMA RequestedHonest ==
  ASSUME PreferencesInv, NEW i, RemoveCard(i)
  PROVE  Honest(Requested(i))
  <1>1. PICK c : c = Requested(i)
    OBVIOUS
  <1>2. c.kind = "delete" /\ c.of = list[i] /\ c.card = Card(i)
    BY <1>1 DEF Requested, Deletion, Sent
  <1>3. ASSUME inOrder, c.card # NoCategory PROVE c.of = c.card
    <2>1. "delete" \notin Top.missed /\ c.card = Top.drawn[i]
      BY <1>2, <1>3 DEF Card
    <2>2. Len(stack) \in Managing(stack)
      <3>1. Len(stack) \in 1..Len(stack) /\ DOMAIN stack = 1..Len(stack)
        BY ScreenFields DEF PreferencesInv, Typed
      <3> QED
        BY <3>1 DEF RemoveCard, Managing, Top
    <2>3. PICK s \in Seq(Categories) : Draws(Top.drawn, s) /\ Agree(s, list)
      BY <1>3, <2>1, <2>2 DEF RemoveCard, PreferencesInv, Hits, GridsFit, Top
    <2>4. i \in 1..Len(Top.drawn) /\ i \in 1..Len(list) /\ Len(list) \in Nat
      <3>1. Top.drawn \in Seq(Categories \cup {NoCategory}) /\ list \in Seq(Categories)
        BY <2>2, ScreenFields DEF PreferencesInv, Typed, Data, Top
      <3> QED
        BY <3>1 DEF RemoveCard
    <2>5. Top.drawn[i] = s[i]
      BY <1>3, <2>1, <2>3, <2>4 DEF Draws
    <2>6. s[i] = list[i]
      BY <2>3, <2>4 DEF Draws, Agree
    <2> QED
      BY <1>2, <2>1, <2>5, <2>6
  <1> QED
    BY <1>1, <1>2, <1>3 DEF Honest

\* Every step keeps the invariant.
LEMMA PreferencesInductive ==
  PreferencesInv /\ [Next]_vars => PreferencesInv'
  <1> SUFFICES ASSUME PreferencesInv, [Next]_vars PROVE PreferencesInv'
    OBVIOUS
  <1>1. Typed
    BY DEF PreferencesInv
  <1>2. CASE UNCHANGED vars
    <2>1. Typed'
      BY <1>1, <1>2 DEF vars, Typed, Data
    <2>2. Kept(0)
      BY <1>1, <1>2, SameParts DEF vars, Kept
    <2> QED
      BY <2>1, <2>2, KeptStep
  <1>3. CASE Next
    <2> USE <1>1
    <2>1. Len(net') <= MaxCalls[inOrder']
      <3>1. inOrder' = inOrder
        BY <1>3 DEF Next, Act, Serve, Resume, OpenManage, OpenAdd, Back, Dispose, Scroll, RemoveCard, Choose,
                    ServeFetch, ServeDelete, ServeAdd, Fetched, FetchFailed, Deleted, NotDeleted,
                    AddedOne, AddedAll, AddFailed
      <3> QED
        BY <1>3, <3>1 DEF Next
    <2>2. CASE OpenManage
      BY <2>1, <2>2, OpenManageStep, KeptStep
    <2>3. CASE OpenAdd
      BY <2>1, <2>3, OpenAddStep, KeptStep
    <2>4. CASE Back
      BY <2>1, <2>4, BackStep, KeptStep
    <2>5. CASE Dispose
      BY <2>1, <2>5, DisposeStep, KeptStep
    <2>6. ASSUME NEW i \in 1..Len(Top.drawn), RemoveCard(i) PROVE PreferencesInv'
      BY <2>1, <2>6, RequestedHonest, RemoveCardStep, KeptStep
    <2>7. ASSUME NEW i \in 1..Len(Top.drawn), Scroll(i) PROVE PreferencesInv'
      BY <2>1, <2>7, ScrollStep, ScrolledStep
    <2>8. ASSUME NEW s \in Selections, Choose(s) PROVE PreferencesInv'
      BY <2>1, <2>8, ChooseStep, KeptStep
    <2>9. ASSUME NEW n \in DOMAIN net, ServeFetch(n) PROVE PreferencesInv'
      BY <2>1, <2>9, ServeFetchStep, ReadStep
    <2>10. ASSUME NEW n \in DOMAIN net, ServeDelete(n) PROVE PreferencesInv'
      BY <2>1, <2>10, ServeDeleteStep, DeletingStep
    <2>11. ASSUME NEW n \in DOMAIN net, ServeAdd(n) PROVE PreferencesInv'
      <3>1. \A k \in 1..Len(net) : Honest(net[k])
        BY DEF PreferencesInv, AllHonest
      <3> QED
        BY <2>1, <2>11, <3>1, ServeAddStep, AddingStep
    <2>12. ASSUME NEW n \in DOMAIN net, Fetched(n) PROVE PreferencesInv'
      BY <2>1, <2>12, FetchedStep, BroughtStep
    <2>13. ASSUME NEW n \in DOMAIN net, Deleted(n) PROVE PreferencesInv'
      BY <2>1, <2>13, DeletedStep, AnewStep
    <2>14. ASSUME NEW n \in DOMAIN net, FetchFailed(n) PROVE PreferencesInv'
      <3>1. ~Removes(net[n]) /\ (inOrder => n = 1)
        BY <2>14 DEF FetchFailed, Arrived, Removes
      <3> QED
        BY <2>1, <2>14, <3>1, FetchFailedStep, KeptStep
    <2>15. ASSUME NEW n \in DOMAIN net, NotDeleted(n) PROVE PreferencesInv'
      <3>1. ~Removes(net[n]) /\ (inOrder => n = 1)
        BY <2>15 DEF NotDeleted, Arrived, Removes
      <3> QED
        BY <2>1, <2>15, <3>1, NotDeletedStep, KeptStep
    <2>16. ASSUME NEW n \in DOMAIN net, AddedOne(n) PROVE PreferencesInv'
      <3>1. ~Removes(net[n]) /\ (inOrder => n = 1)
        BY <2>16 DEF AddedOne, Arrived, Removes
      <3> QED
        BY <2>1, <2>16, <3>1, AddedOneStep, KeptStep
    <2>17. ASSUME NEW n \in DOMAIN net, AddedAll(n) PROVE PreferencesInv'
      <3>1. ~Removes(net[n]) /\ (inOrder => n = 1)
        BY <2>17 DEF AddedAll, Arrived, Removes
      <3> QED
        BY <2>1, <2>17, <3>1, AddedAllStep, KeptStep
    <2>18. ASSUME NEW n \in DOMAIN net, AddFailed(n) PROVE PreferencesInv'
      <3>1. ~Removes(net[n]) /\ (inOrder => n = 1)
        BY <2>18 DEF AddFailed, Arrived, Removes
      <3> QED
        BY <2>1, <2>18, <3>1, AddFailedStep, KeptStep
    <2> QED
      BY <1>3, <2>2, <2>3, <2>4, <2>5, <2>6, <2>7, <2>8, <2>9, <2>10, <2>11, <2>12, <2>13, <2>14,
         <2>15, <2>16, <2>17, <2>18 DEF Next, Act, Serve, Resume
  <1> QED
    BY <1>2, <1>3

\* The invariant, of every behaviour.
THEOREM PreferencesInvariant ==
  Spec => []PreferencesInv
  <1>1. Init => PreferencesInv
    BY InitialPreferences
  <1>2. PreferencesInv /\ [Next]_vars => PreferencesInv'
    BY PreferencesInductive
  <1> QED
    BY <1>1, <1>2, PTL DEF Spec

\* Every variable is of its type, no two calls are heard by one FutureBuilder, and a manage
\* screen that shows nothing has a call under way (manage_user_prefences_screen.dart).
THEOREM PreferencesTypeCorrect ==
  Spec => []TypeOK
  <1>1. PreferencesInv => TypeOK
    BY TypeParts DEF PreferencesInv, Typed
  <1> QED
    BY <1>1, PreferencesInvariant, PTL

\* While the network keeps the order of calls, the Remove button under a card asks the backend
\* to delete what the card shows, though it reads the controller's list, not the card
\* (manage_user_prefences_screen.dart:71-78).
THEOREM RemovesHitCards ==
  Spec => []RemoveHitsCard
  <1>1. PreferencesInv => RemoveHitsCard
    <2> SUFFICES ASSUME PreferencesInv PROVE RemoveHitsCard
      OBVIOUS
    <2>1. DOMAIN net = 1..Len(net)
      BY DEF PreferencesInv, Typed, Queue
    <2> QED
      BY <2>1 DEF PreferencesInv, AllHonest, Honest, RemoveHitsCard
  <1> QED
    BY <1>1, PreferencesInvariant, PTL

\* In whatever order calls are served and answered: with no call under way, the visible manage
\* screen shows what the backend holds, and its cards are drawn again from a list that is the
\* same, unless the backend was changed without telling the screen or an answer that was refused
\* or came out of order replaced the list (prefences_controller.dart:10-33,
\* manage_user_prefences_screen.dart:44-80).
THEOREM PreferencesShownTrue ==
  Spec => []ShownPreferencesTrue
  <1>1. PreferencesInv => ShownPreferencesTrue
    <2> SUFFICES ASSUME PreferencesInv, net = <<>>, Top.page = "manage", Top.view = "grid", Top.missed = {}
                 PROVE  Top.drawn = prefs /\ list = prefs
      BY DEF ShownPreferencesTrue
    <2>1. ~Removing(net)
      BY EmptySeq DEF Removing
    <2>2. Len(stack) \in Managing(stack)
      <3>1. Len(stack) \in 1..Len(stack) /\ DOMAIN stack = 1..Len(stack)
        BY ScreenFields DEF PreferencesInv, Typed
      <3> QED
        BY <3>1 DEF Managing, Top
    <2> QED
      BY <2>1, <2>2 DEF PreferencesInv, Truth, Top
  <1> QED
    BY <1>1, PreferencesInvariant, PTL
=============================================================================
