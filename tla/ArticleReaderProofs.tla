-------------------------- MODULE ArticleReaderProofs --------------------------
(***************************************************************************)
(* ArticleReader: every reachable state is well typed, and an article that *)
(* no race has hit shows what the backend holds once its calls have been   *)
(* answered, for any number of articles, screens, calls and taps.          *)
(***************************************************************************)
EXTENDS ArticleReader, FiniteSetTheorems, SequenceTheorems, TLAPS

Views == {"waiting", "body", "error", "broken"}

-----------------------------------------------------------------------------
(* What the handlers make of the screens.                                  *)

\* st2 are the screens st, some of them with another view or upset.
Kept(st, st2) ==
  /\ st2 \in Seq(Screen) /\ Len(st2) = Len(st)
  /\ \A i \in 1..Len(st) : /\ st2[i].article = st[i].article
                           /\ st[i].upset => st2[i].upset

LEMMA Positions ==
  ASSUME NEW st \in Seq(Screen)
  PROVE  /\ Len(st) \in Nat /\ DOMAIN st = 1..Len(st)
         /\ \A i \in 1..Len(st) : st[i] \in Screen
  BY ElementOfSeq, LenProperties

LEMMA KeptReflexive ==
  ASSUME NEW st \in Seq(Screen)
  PROVE  Kept(st, st)
  BY DEF Kept

LEMMA KeptTwice ==
  ASSUME NEW st1, NEW st2, NEW st3, Kept(st1, st2), Kept(st2, st3)
  PROVE  Kept(st1, st3)
  BY DEF Kept

\* One screen gives way to another of the same article.
LEMMA OneScreenKept ==
  ASSUME NEW st \in Seq(Screen), NEW i \in 1..Len(st), NEW e \in Screen,
         e.article = st[i].article, st[i].upset => e.upset, e.upset => st[i].upset
  PROVE  /\ Kept(st, [st EXCEPT ![i] = e])
         /\ \A j \in 1..Len(st) : [st EXCEPT ![i] = e][j].upset => st[j].upset
  <1>1. /\ [st EXCEPT ![i] = e] \in Seq(Screen)
        /\ Len([st EXCEPT ![i] = e]) = Len(st)
        /\ \A j \in 1..Len(st) : [st EXCEPT ![i] = e][j] = IF j = i THEN e ELSE st[j]
    BY ExceptSeq
  <1> DEFINE s == [st EXCEPT ![i] = e]
  <1>2. ASSUME NEW j \in 1..Len(st)
        PROVE  /\ s[j].article = st[j].article
               /\ st[j].upset => s[j].upset
               /\ s[j].upset => st[j].upset
    <2>1. s[j] = IF j = i THEN e ELSE st[j]
      BY <1>1
    <2> HIDE DEF s
    <2> QED
      BY <2>1
  <1> QED
    BY <1>1, <1>2 DEF Kept

LEMMA ViewShape ==
  ASSUME NEW scr \in Screen, NEW view \in Views
  PROVE  /\ [scr EXCEPT !.view = view] \in Screen
         /\ [scr EXCEPT !.view = view].article = scr.article
         /\ scr.upset => [scr EXCEPT !.view = view].upset
         /\ [scr EXCEPT !.view = view].upset => scr.upset
  BY DEF Screen, Views

LEMMA ViewKept ==
  ASSUME NEW st \in Seq(Screen), NEW k \in Call, k.at <= Len(st), NEW view \in Views
  PROVE  /\ Kept(st, WithView(st, k, view))
         /\ \A i \in 1..Len(st) : WithView(st, k, view)[i].upset => st[i].upset
  <1>1. CASE k.kind = "build" /\ k.at # 0
    <2> DEFINE e == [st[k.at] EXCEPT !.view = view]
               i == k.at
    <2>1. i \in 1..Len(st)
      BY <1>1, Positions, ReaderAssumption DEF Call
    <2>2. /\ e \in Screen /\ e.article = st[i].article
          /\ st[i].upset => e.upset
          /\ e.upset => st[i].upset
      BY <2>1, Positions, ViewShape
    <2>3. WithView(st, k, view) = [st EXCEPT ![i] = e]
      BY <1>1 DEF WithView
    <2> HIDE DEF e, i
    <2>4. /\ Kept(st, [st EXCEPT ![i] = e])
          /\ \A j \in 1..Len(st) : [st EXCEPT ![i] = e][j].upset => st[j].upset
      BY <2>1, <2>2, OneScreenKept
    <2> QED
      BY <2>3, <2>4
  <1>2. CASE ~(k.kind = "build" /\ k.at # 0)
    BY <1>2, KeptReflexive DEF WithView
  <1> QED
    BY <1>1, <1>2

LEMMA UpsetShape ==
  ASSUME NEW scr \in Screen, NEW b \in BOOLEAN
  PROVE  /\ [scr EXCEPT !.upset = b] \in Screen
         /\ [scr EXCEPT !.upset = b].article = scr.article
         /\ [scr EXCEPT !.upset = b].upset = b
  BY DEF Screen

\* Screens of which some are upset.
LEMMA UpsetKept ==
  ASSUME NEW st \in Seq(Screen), NEW st2, DOMAIN st2 = DOMAIN st,
         st2 = [i \in DOMAIN st |-> st2[i]],
         \A i \in 1..Len(st) : /\ st2[i] \in Screen /\ st2[i].article = st[i].article
                               /\ st[i].upset => st2[i].upset
  PROVE  Kept(st, st2)
  <1>1. Len(st) \in Nat /\ DOMAIN st = 1..Len(st)
    BY Positions
  <1>2. st2 \in [1..Len(st) -> Screen]
    BY <1>1
  <1>3. st2 \in Seq(Screen) /\ Len(st2) = Len(st)
    BY <1>1, <1>2, SeqDef
  <1> QED
    BY <1>3 DEF Kept

LEMMA MissedKept ==
  ASSUME NEW st \in Seq(Screen), NEW k
  PROVE  /\ Kept(st, Missed(st, k))
         /\ \A i \in 1..Len(st) : ~Missed(st, k)[i].upset => k.article # st[i].article
  <1>1. Len(st) \in Nat /\ DOMAIN st = 1..Len(st) /\ \A i \in 1..Len(st) : st[i] \in Screen
    BY Positions
  <1>2. ASSUME NEW i \in 1..Len(st)
        PROVE  /\ Missed(st, k)[i] \in Screen /\ Missed(st, k)[i].article = st[i].article
               /\ st[i].upset => Missed(st, k)[i].upset
               /\ ~Missed(st, k)[i].upset => k.article # st[i].article
    <2> DEFINE b == st[i].upset \/ k.article = st[i].article
    <2>1. Missed(st, k)[i] = [st[i] EXCEPT !.upset = b]
      BY <1>1 DEF Missed
    <2>2. b \in BOOLEAN
      OBVIOUS
    <2> QED
      BY <2>1, <2>2, <1>1, UpsetShape
  <1>3. DOMAIN Missed(st, k) = DOMAIN st /\ Missed(st, k) = [i \in DOMAIN st |-> Missed(st, k)[i]]
    BY DEF Missed
  <1> QED
    BY <1>2, <1>3, UpsetKept

\* Answer ans of chain k is older than what is shown.
Older(k) ==
  \/ k.kind # "save" /\ k.answer.of = shown.like.of /\ k.answer.likes < shown.like.likes
  \/ k.kind # "like" /\ k.answer.of = shown.save.of /\ k.answer.saves < shown.save.saves

LEMMA AnswerKept ==
  ASSUME NEW st \in Seq(Screen), NEW k
  PROVE  /\ Kept(st, Upset(st, k))
         /\ \A i \in 1..Len(st) : ~Upset(st, k)[i].upset =>
              ~Older(k) /\ k.answer.of = st[i].article /\ k.answer.by = signedIn
  <1>1. Len(st) \in Nat /\ DOMAIN st = 1..Len(st) /\ \A i \in 1..Len(st) : st[i] \in Screen
    BY Positions
  <1>2. ASSUME NEW i \in 1..Len(st)
        PROVE  /\ Upset(st, k)[i] \in Screen /\ Upset(st, k)[i].article = st[i].article
               /\ st[i].upset => Upset(st, k)[i].upset
               /\ ~Upset(st, k)[i].upset =>
                    ~Older(k) /\ k.answer.of = st[i].article /\ k.answer.by = signedIn
    <2> DEFINE b == st[i].upset \/ Older(k) \/ k.answer.of # st[i].article \/ k.answer.by # signedIn
    <2>1. Upset(st, k)[i] = [st[i] EXCEPT !.upset = b]
      BY <1>1 DEF Upset, Older
    <2>2. b \in BOOLEAN
      OBVIOUS
    <2> QED
      BY <2>1, <2>2, <1>1, UpsetShape
  <1>3. DOMAIN Upset(st, k) = DOMAIN st /\ Upset(st, k) = [i \in DOMAIN st |-> Upset(st, k)[i]]
    BY DEF Upset
  <1> QED
    BY <1>2, <1>3, UpsetKept

\* Every screen is upset.
AllUpset(st) == [i \in DOMAIN st |-> [st[i] EXCEPT !.upset = TRUE]]

LEMMA AllUpsetKept ==
  ASSUME NEW st \in Seq(Screen)
  PROVE  Kept(st, AllUpset(st)) /\ \A i \in 1..Len(st) : AllUpset(st)[i].upset
  <1>1. Len(st) \in Nat /\ DOMAIN st = 1..Len(st) /\ \A i \in 1..Len(st) : st[i] \in Screen
    BY Positions
  <1>2. ASSUME NEW i \in 1..Len(st)
        PROVE  /\ AllUpset(st)[i] \in Screen /\ AllUpset(st)[i].article = st[i].article
               /\ AllUpset(st)[i].upset
    <2>1. AllUpset(st)[i] = [st[i] EXCEPT !.upset = TRUE]
      BY <1>1 DEF AllUpset
    <2> QED
      BY <2>1, <1>1 DEF Screen
  <1>3. DOMAIN AllUpset(st) = DOMAIN st /\ AllUpset(st) = [i \in DOMAIN st |-> AllUpset(st)[i]]
    BY DEF AllUpset
  <1> QED
    BY <1>2, <1>3, UpsetKept

-----------------------------------------------------------------------------
(* Calls.                                                                  *)

\* How a chain's kind, step, article and place go together.
Formed(k) ==
  /\ k.kind \in {"like", "save"} <=> k.step \in {"toggle", "refetch"}
  /\ k.kind # "none" => k.article \in Articles
  /\ k.kind = "push" => k.at = 0
  /\ k.step = "article" => k.got = "nothing"

\* An answer counts no toggle that the backend has not seen; sv is its state.
Behind(k, sv) ==
  k.answer.of \in Articles =>
    k.answer.likes <= sv[k.answer.of].likes /\ k.answer.saves <= sv[k.answer.of].saves

\* The taps on an article that the backend has yet to see: together with what it has
\* seen they are no more than the taps there were.
Pending(a) ==
  {c \in Calls : call[c].step = "toggle" /\ call[c].got = "nothing" /\ call[c].article = a}

Counted == \A a \in Articles :
             server[a].likes + server[a].saves + Cardinality(Pending(a)) <= taps

TypeInv ==
  /\ TypeOK
  /\ \A c \in Calls : Formed(call[c]) /\ Behind(call[c], server)
  /\ Counted

LEMMA NoAnswerShape ==
  NoAnswer \in Answer /\ NoAnswer.of = NoArticle
  BY ReaderAssumption DEF NoAnswer, Answer

LEMMA IdleShape ==
  /\ Idle \in Call
  /\ Idle.kind = "none" /\ Idle.step = "article" /\ Idle.article = NoArticle /\ Idle.at = 0
  /\ Idle.got = "nothing" /\ Idle.answer = NoAnswer
  BY NoAnswerShape, ReaderAssumption DEF Idle, Call

LEMMA IdleFormed ==
  Formed(Idle) /\ \A sv : Behind(Idle, sv)
  BY IdleShape, NoAnswerShape, ReaderAssumption DEF Formed, Behind

LEMMA SentShape ==
  ASSUME NEW kind \in {"none", "init", "build", "push", "like", "save"},
         NEW step \in {"article", "details", "toggle", "refetch"},
         NEW a \in Articles, NEW i \in 0..MaxScreens, signedIn \in BOOLEAN
  PROVE  /\ Sent(kind, step, a, i) \in Call
         /\ Sent(kind, step, a, i).kind = kind /\ Sent(kind, step, a, i).step = step
         /\ Sent(kind, step, a, i).article = a /\ Sent(kind, step, a, i).at = i
         /\ Sent(kind, step, a, i).got = "nothing"
         /\ Sent(kind, step, a, i).answer = NoAnswer
  BY IdleShape DEF Sent, Call

LEMMA ThenShape ==
  ASSUME NEW c \in Calls, call[c] \in Call, signedIn \in BOOLEAN,
         NEW step \in {"article", "details", "toggle", "refetch"}
  PROVE  /\ Then(c, step) \in Call
         /\ Then(c, step).kind = call[c].kind /\ Then(c, step).step = step
         /\ Then(c, step).article = call[c].article /\ Then(c, step).at = call[c].at
         /\ Then(c, step).got = "nothing" /\ Then(c, step).answer = NoAnswer
  BY NoAnswerShape DEF Then, Call

\* A chain whose request has been answered.
LEMMA AnsweredShape ==
  ASSUME NEW k \in Call, NEW got \in {"nothing", "ok", "refused", "failed"}, NEW ans \in Answer
  PROVE  /\ [k EXCEPT !.got = got, !.answer = ans] \in Call
         /\ [k EXCEPT !.got = got, !.answer = ans].kind = k.kind
         /\ [k EXCEPT !.got = got, !.answer = ans].step = k.step
         /\ [k EXCEPT !.got = got, !.answer = ans].article = k.article
         /\ [k EXCEPT !.got = got, !.answer = ans].at = k.at
         /\ [k EXCEPT !.got = got, !.answer = ans].got = got
         /\ [k EXCEPT !.got = got, !.answer = ans].answer = ans
  BY DEF Call

\* The taps that the backend has not seen are finitely many.
LEMMA PendingFinite ==
  ASSUME NEW a
  PROVE  IsFiniteSet(Pending(a)) /\ Cardinality(Pending(a)) \in Nat
  <1>1. Pending(a) \in SUBSET Calls
    BY DEF Pending
  <1> QED
    BY <1>1, FS_Subset, FS_CardinalityType, ReaderAssumption

LEMMA NoNewTap ==
  ASSUME NEW a, Pending(a)' \subseteq Pending(a)
  PROVE  Cardinality(Pending(a)') <= Cardinality(Pending(a)) /\ Cardinality(Pending(a)') \in Nat
  <1>1. Pending(a)' \in SUBSET Pending(a)
    OBVIOUS
  <1> QED
    BY <1>1, PendingFinite, FS_Subset, FS_CardinalityType

\* The counts of the backend.
LEMMA ServerCounts ==
  ASSUME TypeOK, NEW a \in Articles
  PROVE  server[a].likes \in Nat /\ server[a].saves \in Nat /\ taps \in Nat
  BY ReaderAssumption DEF TypeOK

LEMMA StillCounted ==
  ASSUME TypeInv, server' = server, taps' = taps,
         \A a \in Articles : Pending(a)' \subseteq Pending(a)
  PROVE  Counted'
  <1> SUFFICES ASSUME NEW a \in Articles
               PROVE  (server[a].likes + server[a].saves + Cardinality(Pending(a)) <= taps)'
    BY DEF Counted
  <1>1. /\ Cardinality(Pending(a)') <= Cardinality(Pending(a))
        /\ Cardinality(Pending(a)') \in Nat
        /\ Cardinality(Pending(a)) \in Nat
    BY NoNewTap, PendingFinite
  <1>2. server[a].likes + server[a].saves + Cardinality(Pending(a)) <= taps
    BY DEF TypeInv, Counted
  <1>3. server[a].likes \in Nat /\ server[a].saves \in Nat /\ taps \in Nat
    BY ServerCounts DEF TypeInv
  <1>4. Cardinality(Pending(a))' = Cardinality(Pending(a)')
    OBVIOUS
  <1> QED
    BY <1>1, <1>2, <1>3, <1>4

\* Chain c goes on as k, and no chain is added to a screen.
Goes(c, k) ==
  /\ c \in Calls /\ k \in Call
  /\ call' = [call EXCEPT ![c] = k]
  /\ Formed(k)
  /\ k.at # 0 => k.at = call[c].at /\ k.article = call[c].article
  /\ k.kind = "build" /\ k.at # 0 => call[c].kind = "build"

\* The calls of TypeOK, when one of them goes on.
CallsOK ==
  /\ call \in [Calls -> Call]
  /\ \A c \in Calls : call[c].at # 0 =>
       call[c].at <= Len(stack) /\ stack[call[c].at].article = call[c].article
  /\ \A c, d \in Calls :
       call[c].kind = "build" /\ call[d].kind = "build" /\ call[c].at = call[d].at /\ call[c].at # 0
       => c = d

LEMMA OneCall ==
  ASSUME TypeInv, NEW c, NEW k, Goes(c, k), Kept(stack, stack')
  PROVE  /\ \A d \in Calls : call'[d] = IF d = c THEN k ELSE call[d]
         /\ CallsOK'
         /\ \A d \in Calls : Formed(call'[d])
  <1>1. \A d \in Calls : call'[d] = IF d = c THEN k ELSE call[d]
    BY DEF TypeInv, TypeOK, Goes
  <1>2. call' \in [Calls -> Call]
    BY DEF TypeInv, TypeOK, Goes
  <1>3. ASSUME NEW d \in Calls, call'[d].at # 0
        PROVE  call'[d].at <= Len(stack') /\ stack'[call'[d].at].article = call'[d].article
    <2> DEFINE i == call[d].at
    <2>1. call'[d].at = i /\ call'[d].article = call[d].article /\ i # 0
      BY <1>1, <1>3 DEF Goes
    <2>2. i <= Len(stack) /\ stack[i].article = call[d].article /\ i \in Nat
      BY <2>1, ReaderAssumption DEF TypeInv, TypeOK, Call
    <2>3. Len(stack) \in Nat
      BY Positions DEF TypeInv, TypeOK
    <2> HIDE DEF i
    <2>4. i \in 1..Len(stack)
      BY <2>1, <2>2, <2>3
    <2> QED
      BY <2>1, <2>2, <2>4 DEF Kept
  <1>4. ASSUME NEW d \in Calls, NEW e \in Calls, call'[d].kind = "build", call'[e].kind = "build",
               call'[d].at = call'[e].at, call'[d].at # 0
        PROVE  d = e
    <2>1. call[d].kind = "build" /\ call[d].at = call'[d].at
      BY <1>1, <1>4 DEF Goes
    <2>2. call[e].kind = "build" /\ call[e].at = call'[e].at
      BY <1>1, <1>4 DEF Goes
    <2> QED
      BY <2>1, <2>2, <1>4 DEF TypeInv, TypeOK
  <1>5. \A d \in Calls : Formed(call'[d])
    BY <1>1 DEF TypeInv, Goes
  <1> QED
    BY <1>1, <1>2, <1>3, <1>4, <1>5 DEF CallsOK

\* The step of a chain that toggles nothing.
LEMMA PlainStep ==
  ASSUME TypeInv, NEW c, NEW k, Goes(c, k), Kept(stack, stack'),
         Behind(k, server), k.step = "toggle" => k.got # "nothing",
         server' = server, signedIn' \in BOOLEAN, shown' \in [like : Answer, save : Answer],
         taps' = taps, rebuilds' = rebuilds
  PROVE  TypeInv'
  <1>1. /\ \A d \in Calls : call'[d] = IF d = c THEN k ELSE call[d]
        /\ CallsOK'
        /\ \A d \in Calls : Formed(call'[d])
    BY OneCall
  <1>2. \A d \in Calls : Behind(call'[d], server')
    BY <1>1 DEF TypeInv
  <1>3. \A a \in Articles : Pending(a)' \subseteq Pending(a)
    BY <1>1 DEF Pending
  <1>4. Counted'
    BY <1>3, StillCounted
  <1>5. TypeOK'
    BY <1>1 DEF TypeInv, TypeOK, CallsOK, Kept
  <1> QED
    BY <1>1, <1>2, <1>4, <1>5 DEF TypeInv

-----------------------------------------------------------------------------
(* Every handler keeps the states well typed.                              *)

\* What TypeInv says of one chain.
LEMMA ChainShape ==
  ASSUME TypeInv, NEW c \in Calls
  PROVE  /\ call[c] \in Call /\ Formed(call[c]) /\ Behind(call[c], server)
         /\ call[c].at <= Len(stack)
         /\ stack \in Seq(Screen) /\ signedIn \in BOOLEAN
         /\ shown \in [like : Answer, save : Answer]
  <1>1. call[c] \in Call /\ stack \in Seq(Screen)
    BY DEF TypeInv, TypeOK
  <1>2. call[c].at \in Nat /\ Len(stack) \in Nat
    BY <1>1, Positions, ReaderAssumption DEF Call
  <1>3. call[c].at # 0 => call[c].at <= Len(stack)
    BY DEF TypeInv, TypeOK
  <1> QED
    BY <1>1, <1>2, <1>3 DEF TypeInv, TypeOK


\* The answer to a chain's request.
LEMMA ServedCall ==
  ASSUME TypeInv, NEW c \in Calls, Waiting(c), call[c].step # "article",
         NEW got \in Outcomes, Answered(c, got)
  PROVE  \E k : /\ Goes(c, k) /\ Behind(k, server)
                /\ k.kind = call[c].kind /\ k.step = call[c].step /\ k.article = call[c].article
                /\ k.got = got /\ got # "nothing"
                /\ got = "ok" /\ k.step # "toggle" =>
                     /\ k.answer.likes = server[call[c].article].likes
                     /\ k.answer.saves = server[call[c].article].saves
  <1> DEFINE k0 == call[c]
             a == k0.article
             fresh == [of |-> a, by |-> k0.by, likes |-> server[a].likes, saves |-> server[a].saves]
             ans == IF got # "ok" \/ k0.step = "toggle" THEN NoAnswer ELSE fresh
             k == [k0 EXCEPT !.got = got, !.answer = ans]
  <1>1. k0 \in Call /\ Formed(k0)
    BY ChainShape
  <1>2. a \in Articles
    BY <1>1 DEF Waiting, Formed
  <1>3. fresh \in Answer
    <2>1. server[a] \in [likes : 0..MaxTaps, saves : 0..MaxTaps]
      BY <1>2 DEF TypeInv, TypeOK
    <2> QED
      BY <1>1, <1>2, <2>1 DEF Call, Answer
  <1>4. ans \in Answer
    BY <1>3, NoAnswerShape
  <1>5. got \in {"ok", "refused", "failed"}
    BY ReaderAssumption
  <1>6. call' = [call EXCEPT ![c] = k]
    BY DEF Answered
  <1>7. /\ got = "ok" /\ k0.step # "toggle" =>
             ans.of = a /\ ans.likes = server[a].likes /\ ans.saves = server[a].saves
        /\ ~(got = "ok" /\ k0.step # "toggle") => ans = NoAnswer
    OBVIOUS
  <1>8. server[a].likes \in Nat /\ server[a].saves \in Nat
    BY <1>2, ServerCounts DEF TypeInv
  <1>9. k0.step # "article"
    OBVIOUS
  <1> HIDE DEF ans, fresh
  <1> HIDE DEF k0
  <1>10. /\ k \in Call /\ k.kind = k0.kind /\ k.step = k0.step
         /\ k.article = k0.article /\ k.at = k0.at /\ k.got = got /\ k.answer = ans
    BY <1>1, <1>4, <1>5 DEF Call
  <1> HIDE DEF k
  <1>11. Behind(k, server)
    BY <1>7, <1>8, <1>10, NoAnswerShape, ReaderAssumption DEF Behind
  <1>12. Formed(k)
    BY <1>1, <1>9, <1>10 DEF Formed
  <1>13. Goes(c, k)
    BY <1>6, <1>10, <1>12 DEF Goes, k0
  <1> QED
    BY <1>5, <1>7, <1>10, <1>11, <1>13 DEF k0

\* The backend sees a tap: as much as was still pending, it now counts.
LEMMA TapSeen ==
  ASSUME TypeInv, NEW c \in Calls, Waiting(c), call[c].step = "toggle",
         NEW a, a = call[c].article,
         NEW sv, sv = IF call[c].kind = "like" THEN [server EXCEPT ![a].likes = @ + 1]
                                               ELSE [server EXCEPT ![a].saves = @ + 1],
         server' = sv, taps' = taps,
         \A d \in Calls : d # c => call'[d] = call[d],
         call'[c].got # "nothing"
  PROVE  /\ server' \in [Articles -> [likes : 0..MaxTaps, saves : 0..MaxTaps]]
         /\ \A b \in Articles : /\ server[b].likes <= server'[b].likes
                                /\ server[b].saves <= server'[b].saves
         /\ \A b \in Articles : b # a => server'[b] = server[b]
         /\ call[c].kind = "like" => server'[a].saves = server[a].saves
         /\ call[c].kind # "like" => server'[a].likes = server[a].likes
         /\ Counted'
  <1>1. a \in Articles
    BY ChainShape DEF Waiting, Formed
  <1>2. server \in [Articles -> [likes : 0..MaxTaps, saves : 0..MaxTaps]]
    BY DEF TypeInv, TypeOK
  <1>3. /\ server[a].likes \in Nat /\ server[a].saves \in Nat /\ taps \in Nat
        /\ taps <= MaxTaps /\ MaxTaps \in Nat
    BY <1>1, ServerCounts, ReaderAssumption DEF TypeInv, TypeOK
  <1>4. c \in Pending(a)
    BY DEF Pending, Waiting
  <1>5. Pending(a)' \subseteq Pending(a) \ {c}
    BY DEF Pending
  <1>6. /\ IsFiniteSet(Pending(a) \ {c})
        /\ Cardinality(Pending(a) \ {c}) = Cardinality(Pending(a)) - 1
    BY <1>4, PendingFinite, FS_RemoveElement
  <1>7. /\ Cardinality(Pending(a)') <= Cardinality(Pending(a)) - 1
        /\ Cardinality(Pending(a)') \in Nat /\ Cardinality(Pending(a)) \in Nat
    <2>1. Pending(a)' \in SUBSET (Pending(a) \ {c})
      BY <1>5
    <2>2. /\ IsFiniteSet(Pending(a)')
          /\ Cardinality(Pending(a)') <= Cardinality(Pending(a) \ {c})
      BY <2>1, <1>6, FS_Subset
    <2> QED
      BY <2>2, <1>6, PendingFinite, FS_CardinalityType
  <1>8. server[a].likes + server[a].saves + Cardinality(Pending(a)) <= taps
    BY <1>1 DEF TypeInv, Counted
  <1>9. server[a].likes + 1 \in 0..MaxTaps /\ server[a].saves + 1 \in 0..MaxTaps
    BY <1>3, <1>7, <1>8
  <1>10. /\ server' \in [Articles -> [likes : 0..MaxTaps, saves : 0..MaxTaps]]
         /\ \A b \in Articles : b # a => server'[b] = server[b]
         /\ call[c].kind = "like" => /\ server'[a].likes = server[a].likes + 1
                                     /\ server'[a].saves = server[a].saves
         /\ call[c].kind # "like" => /\ server'[a].saves = server[a].saves + 1
                                     /\ server'[a].likes = server[a].likes
    BY <1>1, <1>2, <1>9
  <1>11. ASSUME NEW b \in Articles
         PROVE  server[b].likes <= server'[b].likes /\ server[b].saves <= server'[b].saves
    <2>1. server[b].likes \in Nat /\ server[b].saves \in Nat
      BY ServerCounts DEF TypeInv
    <2> QED
      BY <2>1, <1>3, <1>10
  <1>12. ASSUME NEW b \in Articles
         PROVE  (server[b].likes + server[b].saves + Cardinality(Pending(b)) <= taps)'
    <2>1. CASE b = a
      <3>1. server'[a].likes + server'[a].saves = server[a].likes + server[a].saves + 1
        BY <1>3, <1>10
      <3>2. server'[a].likes \in Nat /\ server'[a].saves \in Nat
        BY <1>1, <1>10, ReaderAssumption
      <3>3. server'[a].likes + server'[a].saves + Cardinality(Pending(a)') <= taps
        BY <3>1, <3>2, <1>3, <1>7, <1>8
      <3> QED
        BY <2>1, <3>3
    <2>2. CASE b # a
      <3>1. Pending(b)' \subseteq Pending(b)
        BY DEF Pending
      <3>2. /\ Cardinality(Pending(b)') <= Cardinality(Pending(b))
            /\ Cardinality(Pending(b)') \in Nat /\ Cardinality(Pending(b)) \in Nat
        BY <3>1, NoNewTap, PendingFinite
      <3>3. server[b].likes + server[b].saves + Cardinality(Pending(b)) <= taps
        BY DEF TypeInv, Counted
      <3>4. server[b].likes \in Nat /\ server[b].saves \in Nat
        BY ServerCounts DEF TypeInv
      <3>5. server[b].likes + server[b].saves + Cardinality(Pending(b)') <= taps
        BY <3>2, <3>3, <3>4, <1>3
      <3> QED
        BY <2>2, <3>5, <1>10
    <2> QED
      BY <2>1, <2>2
  <1>13. Counted'
    BY <1>12 DEF Counted
  <1> QED
    BY <1>10, <1>11, <1>13

-----------------------------------------------------------------------------
(* What an article that no race has hit can rely on.                       *)

Marks == {"like", "save"}

Count(r, m) == IF m = "like" THEN r.likes ELSE r.saves

Shows(m) == IF m = "like" THEN shown.like ELSE shown.save

\* What is displayed as mark m of article a comes from an answer about a, for this
\* user, that counts as much as the backend (now) does.
Truthful(ans, a, m, by, now) ==
  ans.of = a /\ ans.by = by /\ Count(ans, m) = Count(now, m)

\* Chain k has yet to fetch mark m of article a, or brings what the backend holds now.
Owes(k, a, m, now) ==
  /\ k.kind # "none" /\ k.article = a
  /\ k.kind # (IF m = "like" THEN "save" ELSE "like")
  /\ k.step \in {"details", "refetch"} /\ k.got = "ok" => Count(k.answer, m) = Count(now, m)

Fresh(a, m) ==
  \/ Truthful(Shows(m), a, m, signedIn, server[a])
  \/ \E c \in Calls : Owes(call[c], a, m, server[a])

\* An article that no race has hit is the visible one, and each of its marks is
\* displayed as the backend holds it or some chain will still see to it.
FreshInv ==
  \A a \in Articles : \A i \in 1..Len(stack) :
    stack[i].article = a /\ ~stack[i].upset
    => i = Len(stack) /\ \A m \in Marks : Fresh(a, m)

LEMMA FreshStep ==
  ASSUME FreshInv, Kept(stack, stack'),
         \A a \in Articles : \A i \in 1..Len(stack) : \A m \in Marks :
           stack[i].article = a /\ ~stack'[i].upset /\ Fresh(a, m) => Fresh(a, m)'
  PROVE  FreshInv'
  <1> SUFFICES ASSUME NEW a \in Articles, NEW i \in 1..Len(stack'),
                      stack'[i].article = a, ~stack'[i].upset
               PROVE  i = Len(stack') /\ \A m \in Marks : Fresh(a, m)'
    BY DEF FreshInv
  <1>1. Len(stack') = Len(stack) /\ i \in 1..Len(stack)
        /\ stack[i].article = a /\ ~stack[i].upset
    BY DEF Kept
  <1>2. i = Len(stack) /\ \A m \in Marks : Fresh(a, m)
    BY <1>1 DEF FreshInv
  <1> QED
    BY <1>1, <1>2

\* A step of one chain that changes neither the backend nor what is displayed.
LEMMA QuietStep ==
  ASSUME TypeInv, FreshInv, NEW c, NEW k, Goes(c, k), Kept(stack, stack'),
         server' = server, shown' = shown, signedIn' = signedIn,
         \A a \in Articles : \A i \in 1..Len(stack) : \A m \in Marks :
           stack[i].article = a /\ ~stack'[i].upset /\ Owes(call[c], a, m, server[a])
           => Owes(k, a, m, server[a])
  PROVE  FreshInv'
  <1>1. \A d \in Calls : call'[d] = IF d = c THEN k ELSE call[d]
    BY OneCall
  <1>2. c \in Calls
    BY DEF Goes
  <1>3. ASSUME NEW a \in Articles, NEW i \in 1..Len(stack), NEW m \in Marks,
               stack[i].article = a, ~stack'[i].upset, Fresh(a, m)
        PROVE  Fresh(a, m)'
    <2>1. CASE Truthful(Shows(m), a, m, signedIn, server[a])
      BY <2>1 DEF Fresh, Shows
    <2>2. CASE \E d \in Calls : Owes(call[d], a, m, server[a])
      <3>1. PICK d \in Calls : Owes(call[d], a, m, server[a])
        BY <2>2
      <3>2. CASE d = c
        <4>1. Owes(k, a, m, server[a])
          BY <3>1, <3>2, <1>3
        <4> QED
          BY <4>1, <1>1, <1>2 DEF Fresh
      <3>3. CASE d # c
        BY <3>1, <3>3, <1>1 DEF Fresh
      <3> QED
        BY <3>2, <3>3
    <2> QED
      BY <1>3, <2>1, <2>2 DEF Fresh
  <1> QED
    BY <1>3, FreshStep

\* The whole invariant, over such a step.
ReaderInv == TypeInv /\ FreshInv

LEMMA QuietKeeps ==
  ASSUME ReaderInv, NEW c, NEW k, Goes(c, k), Kept(stack, stack'),
         Behind(k, server), k.step = "toggle" => k.got # "nothing",
         server' = server, shown' = shown, signedIn' = signedIn, taps' = taps, rebuilds' = rebuilds,
         \A a \in Articles : \A i \in 1..Len(stack) : \A m \in Marks :
           stack[i].article = a /\ ~stack'[i].upset /\ Owes(call[c], a, m, server[a])
           => Owes(k, a, m, server[a])
  PROVE  ReaderInv'
  <1>1. signedIn' \in BOOLEAN /\ shown' \in [like : Answer, save : Answer]
    BY DEF ReaderInv, TypeInv, TypeOK
  <1>2. TypeInv'
    BY <1>1, PlainStep DEF ReaderInv
  <1>3. FreshInv'
    BY QuietStep DEF ReaderInv
  <1> QED
    BY <1>2, <1>3 DEF ReaderInv

LEMMA ReaderPushMessage ==
  ASSUME ReaderInv, NEW a \in Articles, PushMessage(a)
  PROVE  ReaderInv'
  <1> PICK c \in FreeCalls : call' = [call EXCEPT ![c] = Sent("push", "details", a, 0)]
    BY DEF PushMessage
  <1> DEFINE k == Sent("push", "details", a, 0)
  <1>1. c \in Calls /\ call[c].kind = "none"
    BY DEF FreeCalls
  <1>2. /\ k \in Call /\ k.kind = "push" /\ k.step = "details" /\ k.article = a /\ k.at = 0
        /\ k.got = "nothing" /\ k.answer = NoAnswer
    BY <1>1, ChainShape, SentShape, ReaderAssumption DEF ReaderInv
  <1>3. call' = [call EXCEPT ![c] = k]
    OBVIOUS
  <1> HIDE DEF k
  <1>4. Formed(k) /\ Behind(k, server)
    BY <1>2, NoAnswerShape, ReaderAssumption DEF Formed, Behind
  <1>5. Goes(c, k)
    BY <1>1, <1>2, <1>3, <1>4 DEF Goes
  <1>6. /\ stack' = stack /\ server' = server /\ signedIn' = signedIn /\ shown' = shown
        /\ taps' = taps /\ rebuilds' = rebuilds
    BY DEF PushMessage
  <1>7. Kept(stack, stack')
    BY <1>1, <1>6, ChainShape, KeptReflexive DEF ReaderInv
  <1>8. \A b, m : ~Owes(call[c], b, m, server[b])
    BY <1>1 DEF Owes
  <1> QED
    BY <1>2, <1>4, <1>5, <1>6, <1>7, <1>8, QuietKeeps

LEMMA ReaderServeFetch ==
  ASSUME ReaderInv, NEW c \in Calls, ServeFetch(c)
  PROVE  ReaderInv'
  <1>1. Waiting(c) /\ call[c].step \in {"details", "refetch"} /\ call[c].got = "nothing"
    BY DEF ServeFetch, Waiting
  <1>2. PICK got \in Outcomes : Answered(c, got)
    BY DEF ServeFetch
  <1>3. PICK k : /\ Goes(c, k) /\ Behind(k, server)
                 /\ k.kind = call[c].kind /\ k.step = call[c].step /\ k.article = call[c].article
                 /\ k.got = got /\ got # "nothing"
                 /\ got = "ok" /\ k.step # "toggle" =>
                      /\ k.answer.likes = server[call[c].article].likes
                      /\ k.answer.saves = server[call[c].article].saves
    BY <1>1, <1>2, ServedCall DEF ReaderInv
  <1>4. /\ stack' = stack /\ server' = server /\ signedIn' = signedIn /\ shown' = shown
        /\ taps' = taps /\ rebuilds' = rebuilds
    BY DEF ServeFetch
  <1>5. Kept(stack, stack')
    BY <1>4, ChainShape, KeptReflexive DEF ReaderInv
  <1>6. ASSUME NEW a, NEW m, Owes(call[c], a, m, server[a])
        PROVE  Owes(k, a, m, server[a])
    BY <1>1, <1>3, <1>6 DEF Owes, Count
  <1> QED
    BY <1>1, <1>3, <1>4, <1>5, <1>6, QuietKeeps

\* A tap reaches the backend: its chain fetches the count again before it is done.
LEMMA ReaderServeToggle ==
  ASSUME ReaderInv, NEW c \in Calls, ServeToggle(c)
  PROVE  ReaderInv'
  <1> PICK a : a = call[c].article
    OBVIOUS
  <1> DEFINE toggled == IF call[c].kind = "like" THEN [server EXCEPT ![a].likes = @ + 1]
                                                 ELSE [server EXCEPT ![a].saves = @ + 1]
  <1>1. Waiting(c) /\ call[c].step = "toggle" /\ call[c].got = "nothing" /\ call[c].kind # "none"
    BY DEF ServeToggle, Waiting
  <1>2. PICK got \in Outcomes : Answered(c, got) /\ (server' = toggled \/ server' = server)
    BY DEF ServeToggle
  <1>3. PICK k : /\ Goes(c, k) /\ Behind(k, server)
                 /\ k.kind = call[c].kind /\ k.step = call[c].step /\ k.article = call[c].article
                 /\ k.got = got /\ got # "nothing"
    BY <1>1, <1>2, ServedCall DEF ReaderInv
  <1>4. /\ stack' = stack /\ signedIn' = signedIn /\ shown' = shown
        /\ taps' = taps /\ rebuilds' = rebuilds
    BY DEF ServeToggle
  <1>5. Kept(stack, stack')
    BY <1>4, ChainShape, KeptReflexive DEF ReaderInv
  <1>6. CASE server' = server
    <2>1. ASSUME NEW b, NEW m, Owes(call[c], b, m, server[b])
          PROVE  Owes(k, b, m, server[b])
      BY <1>1, <1>3, <2>1 DEF Owes
    <2> QED
      BY <1>1, <1>3, <1>4, <1>5, <1>6, <2>1, QuietKeeps
  <1>7. CASE server' = toggled
    <2>1. /\ \A d \in Calls : call'[d] = IF d = c THEN k ELSE call[d]
          /\ CallsOK'
          /\ \A d \in Calls : Formed(call'[d])
      BY <1>3, <1>5, OneCall DEF ReaderInv
    <2>2. /\ server' \in [Articles -> [likes : 0..MaxTaps, saves : 0..MaxTaps]]
          /\ \A b \in Articles : /\ server[b].likes <= server'[b].likes
                                 /\ server[b].saves <= server'[b].saves
          /\ \A b \in Articles : b # a => server'[b] = server[b]
          /\ call[c].kind = "like" => server'[a].saves = server[a].saves
          /\ call[c].kind # "like" => server'[a].likes = server[a].likes
          /\ Counted'
      <3>1. call'[c].got # "nothing" /\ \A d \in Calls : d # c => call'[d] = call[d]
        BY <2>1, <1>3
      <3> HIDE DEF toggled
      <3>2. PICK sv : sv = IF call[c].kind = "like" THEN [server EXCEPT ![a].likes = @ + 1]
                                                    ELSE [server EXCEPT ![a].saves = @ + 1]
        OBVIOUS
      <3>3. server' = sv
        BY <1>7, <3>2 DEF toggled
      <3>4. TypeInv /\ taps' = taps
        BY <1>4 DEF ReaderInv
      <3> QED
        BY <1>1, <3>1, <3>2, <3>3, <3>4, TapSeen, ZenonT(60)
    <2> HIDE DEF toggled
    <2>3. ASSUME NEW d \in Calls
          PROVE  Behind(call'[d], server')
      <3>1. Behind(call'[d], server) /\ call'[d] \in Call
        BY <2>1, <1>3 DEF ReaderInv, TypeInv, CallsOK
      <3>2. /\ call'[d].answer.likes \in Nat /\ call'[d].answer.saves \in Nat
        BY <3>1, ReaderAssumption DEF Call, Answer
      <3>3. \A b \in Articles : server[b].likes \in Nat /\ server[b].saves \in Nat
        BY ServerCounts DEF ReaderInv, TypeInv
      <3>4. \A b \in Articles : server'[b].likes \in Nat /\ server'[b].saves \in Nat
        BY <2>2, ReaderAssumption
      <3> QED
        BY <2>2, <3>1, <3>2, <3>3, <3>4 DEF Behind
    <2>4. TypeOK'
      BY <1>4, <2>1, <2>2 DEF ReaderInv, TypeInv, TypeOK, CallsOK
    <2>5. TypeInv'
      BY <2>1, <2>2, <2>3, <2>4 DEF TypeInv
    <2>6. ASSUME NEW b \in Articles, NEW m \in Marks, Fresh(b, m)
          PROVE  Fresh(b, m)'
      <3>1. CASE b = a /\ call[c].kind # (IF m = "like" THEN "save" ELSE "like")
        <4>1. Owes(k, a, m, server'[a])
          BY <1>1, <1>3, <3>1 DEF Owes
        <4>2. call'[c] = k
          BY <2>1
        <4> QED
          BY <3>1, <4>1, <4>2 DEF Fresh
      <3>2. CASE ~(b = a /\ call[c].kind # (IF m = "like" THEN "save" ELSE "like"))
        <4>1. Count(server'[b], m) = Count(server[b], m)
          <5>1. CASE b # a
            BY <2>2, <5>1
          <5>2. CASE b = a
            <6>1. call[c].kind = "like" \/ call[c].kind = "save"
              BY <1>1, ChainShape DEF ReaderInv, Formed
            <6> QED
              BY <2>2, <3>2, <5>2, <6>1 DEF Count, Marks
          <5> QED
            BY <5>1, <5>2
        <4>2. ~Owes(call[c], b, m, server[b])
          BY <3>2 DEF Owes
        <4>3. ASSUME NEW d \in Calls, Owes(call[d], b, m, server[b])
              PROVE  Owes(call'[d], b, m, server'[b])
          <5>1. call'[d] = call[d]
            BY <4>2, <4>3, <2>1
          <5> QED
            BY <4>1, <4>3, <5>1 DEF Owes
        <4>4. Truthful(Shows(m), b, m, signedIn, server[b])
              => Truthful(Shows(m), b, m, signedIn, server[b])'
          BY <4>1, <1>4 DEF Truthful, Shows
        <4> QED
          BY <2>6, <4>3, <4>4 DEF Fresh
      <3> QED
        BY <3>1, <3>2
    <2>7. FreshInv'
      BY <2>6, <1>5, FreshStep DEF ReaderInv
    <2> QED
      BY <2>5, <2>7 DEF ReaderInv
  <1> QED
    BY <1>2, <1>6, <1>7

\* A chain that asks its next request keeps what it owes.
LEMMA ThenGoes ==
  ASSUME ReaderInv, NEW c \in Calls, NEW step \in {"details", "refetch"},
         call[c].kind # "none", (step = "refetch") <=> (call[c].kind \in {"like", "save"}),
         call' = [call EXCEPT ![c] = Then(c, step)], Kept(stack, stack'),
         server' = server, shown' = shown, signedIn' = signedIn, taps' = taps, rebuilds' = rebuilds
  PROVE  ReaderInv'
  <1> DEFINE k == Then(c, step)
  <1>1. /\ k \in Call /\ k.kind = call[c].kind /\ k.step = step /\ k.article = call[c].article
        /\ k.at = call[c].at /\ k.got = "nothing" /\ k.answer = NoAnswer
    BY ChainShape, ThenShape DEF ReaderInv
  <1>2. call' = [call EXCEPT ![c] = k]
    OBVIOUS
  <1> HIDE DEF k
  <1>3. Formed(k) /\ Behind(k, server)
    BY <1>1, ChainShape, NoAnswerShape, ReaderAssumption DEF ReaderInv, Formed, Behind
  <1>4. Goes(c, k)
    BY <1>1, <1>2, <1>3 DEF Goes
  <1>5. ASSUME NEW a, NEW m, Owes(call[c], a, m, server[a])
        PROVE  Owes(k, a, m, server[a])
    BY <1>1, <1>5 DEF Owes
  <1> QED
    BY <1>1, <1>3, <1>4, <1>5, QuietKeeps

\* A chain that ends without an answer: the screens of its article are upset.
LEMMA MissedEnds ==
  ASSUME ReaderInv, NEW c \in Calls, NEW st, Kept(stack, st), stack' = Missed(st, call[c]),
         call' = [call EXCEPT ![c] = Idle],
         server' = server, shown' = shown, signedIn' = signedIn, taps' = taps, rebuilds' = rebuilds
  PROVE  ReaderInv'
  <1>1. Goes(c, Idle)
    BY IdleShape, IdleFormed DEF Goes
  <1>2. /\ Kept(st, stack')
        /\ \A i \in 1..Len(st) : ~stack'[i].upset => call[c].article # st[i].article
    <2>1. st \in Seq(Screen)
      BY DEF Kept
    <2> QED
      BY <2>1, MissedKept
  <1>3. Kept(stack, stack')
    BY <1>2, KeptTwice
  <1>4. ASSUME NEW a \in Articles, NEW i \in 1..Len(stack), NEW m,
               stack[i].article = a, ~stack'[i].upset
        PROVE  ~Owes(call[c], a, m, server[a])
    <2>1. call[c].article # a
      BY <1>2, <1>4 DEF Kept
    <2> QED
      BY <2>1 DEF Owes
  <1> QED
    BY <1>1, <1>3, <1>4, IdleShape, IdleFormed, QuietKeeps

LEMMA ReaderArticleFetched ==
  ASSUME ReaderInv, NEW c \in Calls, ArticleFetched(c)
  PROVE  ReaderInv'
  <1>1. /\ call[c].kind # "none" /\ call[c].step = "article"
        /\ call' = [call EXCEPT ![c] = Then(c, "details")]
        /\ server' = server /\ signedIn' = signedIn /\ shown' = shown
        /\ taps' = taps /\ rebuilds' = rebuilds
    BY DEF ArticleFetched, ArticleArrives, Arrived
  <1>2. call[c].kind \notin {"like", "save"}
    BY <1>1, ChainShape DEF ReaderInv, Formed
  <1>3. Kept(stack, stack')
    <2> DEFINE i == call[c].at
               e == [stack[i] EXCEPT !.set = TRUE]
    <2>1. CASE i = 0
      BY <2>1, ChainShape, KeptReflexive DEF ReaderInv, ArticleFetched
    <2>2. CASE i # 0
      <3>1. stack \in Seq(Screen) /\ i <= Len(stack) /\ i \in Nat
        BY ChainShape, ReaderAssumption DEF ReaderInv, Call
      <3>2. i \in 1..Len(stack)
        BY <2>2, <3>1, Positions
      <3>3. stack[i] \in Screen
        BY <3>1, <3>2, Positions
      <3>4. /\ e \in Screen /\ e.article = stack[i].article
            /\ stack[i].upset => e.upset
            /\ e.upset => stack[i].upset
        BY <3>3 DEF Screen
      <3>5. stack' = [stack EXCEPT ![i] = e]
        BY <2>2 DEF ArticleFetched
      <3> HIDE DEF e, i
      <3>6. Kept(stack, [stack EXCEPT ![i] = e])
        BY <3>1, <3>2, <3>4, OneScreenKept
      <3> QED
        BY <3>5, <3>6
    <2> QED
      BY <2>1, <2>2
  <1> QED
    BY <1>1, <1>2, <1>3, ThenGoes

LEMMA ReaderArticleRefused ==
  ASSUME ReaderInv, NEW c \in Calls, ArticleRefused(c)
  PROVE  ReaderInv'
  <1> DEFINE k == call[c]
             view == IF k.at # 0 /\ stack[k.at].set THEN "body" ELSE "broken"
  <1>1. /\ stack' = Missed(WithView(stack, k, view), k)
        /\ call' = [call EXCEPT ![c] = Idle]
        /\ server' = server /\ signedIn' = signedIn /\ shown' = shown
        /\ taps' = taps /\ rebuilds' = rebuilds
    BY DEF ArticleRefused
  <1>2. view \in Views
    BY DEF Views
  <1>3. k \in Call /\ k.at <= Len(stack) /\ stack \in Seq(Screen)
    BY ChainShape DEF ReaderInv
  <1> HIDE DEF view
  <1>4. Kept(stack, WithView(stack, k, view))
    BY <1>2, <1>3, ViewKept
  <1> QED
    BY <1>1, <1>4, MissedEnds

LEMMA ReaderFetchFailed ==
  ASSUME ReaderInv, NEW c \in Calls, FetchFailed(c)
  PROVE  ReaderInv'
  <1>1. /\ stack' = Missed(WithView(stack, call[c], "error"), call[c])
        /\ call' = [call EXCEPT ![c] = Idle]
        /\ server' = server /\ signedIn' = signedIn /\ shown' = shown
        /\ taps' = taps /\ rebuilds' = rebuilds
    BY DEF FetchFailed
  <1>2. call[c] \in Call /\ call[c].at <= Len(stack) /\ stack \in Seq(Screen)
    BY ChainShape DEF ReaderInv
  <1>3. Kept(stack, WithView(stack, call[c], "error"))
    BY <1>2, ViewKept DEF Views
  <1> QED
    BY <1>1, <1>3, MissedEnds

LEMMA ReaderTapFailed ==
  ASSUME ReaderInv, NEW c \in Calls, TapFailed(c)
  PROVE  ReaderInv'
  <1>1. /\ stack' = Missed(stack, call[c])
        /\ call' = [call EXCEPT ![c] = Idle]
        /\ server' = server /\ signedIn' = signedIn /\ shown' = shown
        /\ taps' = taps /\ rebuilds' = rebuilds
    BY DEF TapFailed
  <1>2. Kept(stack, stack)
    BY ChainShape, KeptReflexive DEF ReaderInv
  <1> QED
    BY <1>1, <1>2, MissedEnds

LEMMA ReaderToggled ==
  ASSUME ReaderInv, NEW c \in Calls, Toggled(c)
  PROVE  ReaderInv'
  <1>1. /\ call[c].kind # "none" /\ call[c].step = "toggle"
        /\ call' = [call EXCEPT ![c] = Then(c, "refetch")]
        /\ stack' = stack /\ server' = server /\ signedIn' = signedIn /\ shown' = shown
        /\ taps' = taps /\ rebuilds' = rebuilds
    BY DEF Toggled, Arrived, AfterToggle
  <1>2. call[c].kind \in {"like", "save"}
    BY <1>1, ChainShape DEF ReaderInv, Formed
  <1>3. Kept(stack, stack')
    BY <1>1, ChainShape, KeptReflexive DEF ReaderInv
  <1> QED
    BY <1>1, <1>2, <1>3, ThenGoes

\* An answer about the visible article that is not older than what is displayed: it says
\* what the backend holds if what is displayed did, or if it was itself owed.
LEMMA AnswerTruthful ==
  ASSUME ReaderInv, NEW c \in Calls, NEW a \in Articles, NEW m \in Marks,
         call[c].answer.of = a, call[c].answer.by = signedIn, ~Older(call[c]),
         call[c].kind # (IF m = "like" THEN "save" ELSE "like"),
         \/ Truthful(Shows(m), a, m, signedIn, server[a])
         \/ Count(call[c].answer, m) = Count(server[a], m)
  PROVE  Truthful(call[c].answer, a, m, signedIn, server[a])
  <1> DEFINE ans == call[c].answer
  <1>1. CASE Count(ans, m) = Count(server[a], m)
    BY <1>1 DEF Truthful
  <1>2. CASE Truthful(Shows(m), a, m, signedIn, server[a])
    <2>1. Behind(call[c], server) /\ ans \in Answer /\ shown \in [like : Answer, save : Answer]
      BY ChainShape DEF ReaderInv, Call
    <2>2. Count(ans, m) <= Count(server[a], m)
      BY <2>1 DEF Behind, Count
    <2>3. ~(Count(ans, m) < Count(Shows(m), m))
      BY <1>2 DEF Older, Truthful, Shows, Count, Marks
    <2>4. Count(Shows(m), m) = Count(server[a], m)
      BY <1>2 DEF Truthful
    <2>5. Count(ans, m) \in Nat
      BY <2>1, ReaderAssumption DEF Count, Answer
    <2>6. Count(server[a], m) \in Nat
      BY ServerCounts DEF Count, ReaderInv, TypeInv
    <2>7. Count(ans, m) = Count(server[a], m)
      BY <2>2, <2>3, <2>4, <2>5, <2>6
    <2> QED
      BY <2>7 DEF Truthful
  <1> QED
    BY <1>1, <1>2

LEMMA ReaderDetailsFetched ==
  ASSUME ReaderInv, NEW c \in Calls, DetailsFetched(c)
  PROVE  ReaderInv'
  <1> DEFINE k == call[c]
  <1>1. /\ k.kind # "none" /\ k.step = "details" /\ k.got \in {"ok", "refused"}
        /\ call' = [call EXCEPT ![c] = Idle]
        /\ server' = server /\ signedIn' = signedIn
        /\ taps' = taps /\ rebuilds' = rebuilds
    BY DEF DetailsFetched, Arrived
  <1>2. /\ k \in Call /\ Formed(k) /\ k.at <= Len(stack) /\ stack \in Seq(Screen)
        /\ signedIn \in BOOLEAN
    BY ChainShape DEF ReaderInv
  <1>3. CASE k.got # "ok"
    <2>1. stack' = Missed(WithView(stack, k, "body"), k) /\ shown' = shown
      BY <1>3 DEF DetailsFetched
    <2>2. Kept(stack, WithView(stack, k, "body"))
      BY <1>2, ViewKept DEF Views
    <2> QED
      BY <1>1, <2>1, <2>2, MissedEnds
  <1>4. CASE k.got = "ok"
    <2>1. /\ shown' = [like |-> k.answer, save |-> k.answer]
          /\ stack' = WithView(Upset(stack, k), k, "body")
      BY <1>4 DEF DetailsFetched
    <2>2. /\ Kept(stack, Upset(stack, k))
          /\ \A i \in 1..Len(stack) : ~Upset(stack, k)[i].upset =>
               ~Older(k) /\ k.answer.of = stack[i].article /\ k.answer.by = signedIn
      BY <1>2, AnswerKept
    <2>3. Upset(stack, k) \in Seq(Screen) /\ Len(Upset(stack, k)) = Len(stack)
      BY <2>2 DEF Kept
    <2>4. Kept(Upset(stack, k), stack')
      BY <1>2, <2>1, <2>3, ViewKept DEF Views
    <2>5. Kept(stack, stack')
      BY <2>2, <2>4, KeptTwice
    <2>6. \A i \in 1..Len(stack) : ~stack'[i].upset =>
            ~Older(k) /\ k.answer.of = stack[i].article /\ k.answer.by = signedIn
      BY <2>2, <2>3, <2>4 DEF Kept
    <2>7. Goes(c, Idle)
      BY <1>1, IdleShape, IdleFormed DEF Goes
    <2>8. TypeInv'
      <3>1. shown' \in [like : Answer, save : Answer]
        BY <1>2, <2>1 DEF Call
      <3> QED
        BY <1>1, <1>2, <2>5, <2>7, <3>1, IdleShape, IdleFormed, PlainStep DEF ReaderInv
    <2>9. \A d \in Calls : call'[d] = IF d = c THEN Idle ELSE call[d]
      BY <2>5, <2>7, OneCall DEF ReaderInv
    <2>10. ASSUME NEW a \in Articles, NEW i \in 1..Len(stack), NEW m \in Marks,
                  stack[i].article = a, ~stack'[i].upset, Fresh(a, m)
           PROVE  Fresh(a, m)'
      <3>1. ~Older(k) /\ k.answer.of = a /\ k.answer.by = signedIn
        BY <2>6, <2>10
      <3>2. k.kind \notin {"like", "save"}
        BY <1>1, <1>2 DEF Formed
      <3>3. k.kind # (IF m = "like" THEN "save" ELSE "like")
        BY <3>2
      <3>4. CASE \/ Truthful(Shows(m), a, m, signedIn, server[a])
                 \/ Owes(k, a, m, server[a])
        <4>1. \/ Truthful(Shows(m), a, m, signedIn, server[a])
              \/ Count(k.answer, m) = Count(server[a], m)
          BY <3>4, <1>1, <1>4 DEF Owes
        <4>2. Truthful(k.answer, a, m, signedIn, server[a])
          BY <3>1, <3>3, <4>1, AnswerTruthful
        <4>3. Shows(m)' = k.answer
          BY <2>1 DEF Shows
        <4> QED
          BY <4>2, <4>3, <1>1 DEF Fresh
      <3>5. ASSUME NEW d \in Calls, d # c, Owes(call[d], a, m, server[a])
            PROVE  Fresh(a, m)'
        BY <3>5, <2>9, <1>1 DEF Fresh
      <3> QED
        BY <2>10, <3>4, <3>5 DEF Fresh
    <2>11. FreshInv'
      BY <2>5, <2>10, FreshStep DEF ReaderInv
    <2> QED
      BY <2>8, <2>11 DEF ReaderInv
  <1> QED
    BY <1>3, <1>4

LEMMA ReaderRefetched ==
  ASSUME ReaderInv, NEW c \in Calls, Refetched(c)
  PROVE  ReaderInv'
  <1> DEFINE k == call[c]
  <1>1. /\ k.kind # "none" /\ k.step = "refetch" /\ k.got = "ok"
        /\ stack' = Upset(stack, k)
        /\ call' = [call EXCEPT ![c] = Idle]
        /\ shown' = IF k.kind = "like" THEN [shown EXCEPT !.like = k.answer]
                                       ELSE [shown EXCEPT !.save = k.answer]
        /\ server' = server /\ signedIn' = signedIn
        /\ taps' = taps /\ rebuilds' = rebuilds
    BY DEF Refetched, Arrived
  <1>2. /\ k \in Call /\ Formed(k) /\ stack \in Seq(Screen) /\ signedIn \in BOOLEAN
        /\ shown \in [like : Answer, save : Answer]
    BY ChainShape DEF ReaderInv
  <1>3. k.kind \in {"like", "save"}
    BY <1>1, <1>2 DEF Formed
  <1>4. k.answer \in Answer
    BY <1>2 DEF Call
  <1>5. /\ shown' \in [like : Answer, save : Answer]
        /\ shown'.like = IF k.kind = "like" THEN k.answer ELSE shown.like
        /\ shown'.save = IF k.kind = "like" THEN shown.save ELSE k.answer
    BY <1>1, <1>2, <1>4
  <1>6. /\ Kept(stack, stack')
        /\ \A i \in 1..Len(stack) : ~stack'[i].upset =>
             ~Older(k) /\ k.answer.of = stack[i].article /\ k.answer.by = signedIn
    BY <1>1, <1>2, AnswerKept
  <1>7. Goes(c, Idle)
    BY <1>1, IdleShape, IdleFormed DEF Goes
  <1>8. TypeInv'
    BY <1>1, <1>2, <1>5, <1>6, <1>7, IdleShape, IdleFormed, PlainStep DEF ReaderInv
  <1>9. \A d \in Calls : call'[d] = IF d = c THEN Idle ELSE call[d]
    BY <1>6, <1>7, OneCall DEF ReaderInv
  <1>10. ASSUME NEW a \in Articles, NEW i \in 1..Len(stack), NEW m \in Marks,
                stack[i].article = a, ~stack'[i].upset, Fresh(a, m)
         PROVE  Fresh(a, m)'
    <2>1. ~Older(k) /\ k.answer.of = a /\ k.answer.by = signedIn
      BY <1>6, <1>10
    <2>2. CASE k.kind = m
      <3>1. k.kind # (IF m = "like" THEN "save" ELSE "like")
        BY <2>2 DEF Marks
      <3>2. Shows(m)' = k.answer
        BY <1>5, <2>2 DEF Shows, Marks
      <3>3. CASE \/ Truthful(Shows(m), a, m, signedIn, server[a])
                 \/ Owes(k, a, m, server[a])
        <4>1. \/ Truthful(Shows(m), a, m, signedIn, server[a])
              \/ Count(k.answer, m) = Count(server[a], m)
          BY <3>3, <1>1 DEF Owes
        <4>2. Truthful(k.answer, a, m, signedIn, server[a])
          BY <2>1, <3>1, <4>1, AnswerTruthful
        <4> QED
          BY <4>2, <3>2, <1>1 DEF Fresh
      <3>4. ASSUME NEW d \in Calls, d # c, Owes(call[d], a, m, server[a])
            PROVE  Fresh(a, m)'
        BY <3>4, <1>9, <1>1 DEF Fresh
      <3> QED
        BY <1>10, <3>3, <3>4 DEF Fresh
    <2>3. CASE k.kind # m
      <3>1. Shows(m)' = Shows(m)
        BY <1>3, <1>5, <2>3 DEF Shows, Marks
      <3>2. ~Owes(k, a, m, server[a])
        BY <1>3, <2>3 DEF Owes, Marks
      <3>3. CASE Truthful(Shows(m), a, m, signedIn, server[a])
        BY <3>3, <3>1, <1>1 DEF Fresh
      <3>4. ASSUME NEW d \in Calls, Owes(call[d], a, m, server[a])
            PROVE  Fresh(a, m)'
        <4>1. call'[d] = call[d]
          BY <3>2, <3>4, <1>9
        <4> QED
          BY <3>4, <4>1, <1>1 DEF Fresh
      <3> QED
        BY <1>10, <3>3, <3>4 DEF Fresh
    <2> QED
      BY <2>2, <2>3
  <1>11. FreshInv'
    BY <1>6, <1>10, FreshStep DEF ReaderInv
  <1> QED
    BY <1>8, <1>11 DEF ReaderInv

LEMMA ReaderTap ==
  ASSUME ReaderInv, NEW kind, Tap(kind)
  PROVE  ReaderInv'
  <1> PICK a : a = Top.article
    OBVIOUS
  <1> PICK c \in FreeCalls : call' = [call EXCEPT ![c] = Sent(kind, "toggle", a, 0)]
    BY DEF Tap
  <1> DEFINE k == Sent(kind, "toggle", a, 0)
  <1>1. c \in Calls /\ call[c].kind = "none"
    BY DEF FreeCalls
  <1>2. /\ stack' = stack /\ server' = server /\ signedIn' = signedIn /\ shown' = shown
        /\ taps' = taps + 1 /\ taps < MaxTaps /\ rebuilds' = rebuilds
        /\ kind \in {"like", "save"} /\ stack # <<>>
    BY DEF Tap
  <1>3. stack \in Seq(Screen) /\ signedIn \in BOOLEAN /\ taps \in Nat
    BY <1>1, ChainShape DEF ReaderInv, TypeInv, TypeOK
  <1>4. a \in Articles
    <2>1. Len(stack) \in 1..Len(stack)
      BY <1>2, <1>3, EmptySeq, Positions
    <2>2. stack[Len(stack)] \in Screen
      BY <1>3, <2>1, Positions
    <2> QED
      BY <2>2 DEF Top, Screen
  <1>5. /\ k \in Call /\ k.kind = kind /\ k.step = "toggle" /\ k.article = a /\ k.at = 0
        /\ k.got = "nothing" /\ k.answer = NoAnswer
    BY <1>2, <1>3, <1>4, SentShape, ReaderAssumption
  <1>6. call' = [call EXCEPT ![c] = k]
    OBVIOUS
  <1> HIDE DEF k
  <1>7. Formed(k) /\ Behind(k, server)
    BY <1>2, <1>4, <1>5, NoAnswerShape, ReaderAssumption DEF Formed, Behind
  <1>8. Goes(c, k)
    BY <1>1, <1>2, <1>5, <1>6, <1>7 DEF Goes
  <1>9. Kept(stack, stack')
    BY <1>2, <1>3, KeptReflexive
  <1>10. /\ \A d \in Calls : call'[d] = IF d = c THEN k ELSE call[d]
         /\ CallsOK'
         /\ \A d \in Calls : Formed(call'[d])
    BY <1>8, <1>9, OneCall DEF ReaderInv
  <1>11. Counted'
    <2> SUFFICES ASSUME NEW b \in Articles
                 PROVE  (server[b].likes + server[b].saves + Cardinality(Pending(b)) <= taps)'
      BY DEF Counted
    <2>1. Pending(b)' \in SUBSET (Pending(b) \cup {c})
      BY <1>10 DEF Pending
    <2>2. /\ IsFiniteSet(Pending(b) \cup {c})
          /\ Cardinality(Pending(b) \cup {c}) <= Cardinality(Pending(b)) + 1
          /\ Cardinality(Pending(b) \cup {c}) \in Nat /\ Cardinality(Pending(b)) \in Nat
      <3>1. IsFiniteSet(Pending(b)) /\ Cardinality(Pending(b)) \in Nat
        BY PendingFinite
      <3>2. /\ IsFiniteSet(Pending(b) \cup {c})
            /\ \/ Cardinality(Pending(b) \cup {c}) = Cardinality(Pending(b))
               \/ Cardinality(Pending(b) \cup {c}) = Cardinality(Pending(b)) + 1
        BY <3>1, FS_AddElement
      <3> QED
        BY <3>1, <3>2
    <2>3. Cardinality(Pending(b)') <= Cardinality(Pending(b)) + 1 /\ Cardinality(Pending(b)') \in Nat
      <3>1. /\ IsFiniteSet(Pending(b)')
            /\ Cardinality(Pending(b)') <= Cardinality(Pending(b) \cup {c})
        BY <2>1, <2>2, FS_Subset
      <3>2. Cardinality(Pending(b)') \in Nat
        BY <3>1, FS_CardinalityType
      <3> QED
        BY <2>2, <3>1, <3>2
    <2>4. server[b].likes + server[b].saves + Cardinality(Pending(b)) <= taps
      BY DEF ReaderInv, TypeInv, Counted
    <2>5. server[b].likes \in Nat /\ server[b].saves \in Nat
      BY ServerCounts DEF ReaderInv, TypeInv
    <2>6. server[b].likes + server[b].saves + Cardinality(Pending(b)') <= taps + 1
      BY <2>2, <2>3, <2>4, <2>5, <1>3, SMTT(30)
    <2> QED
      BY <2>6, <1>2
  <1>12. \A d \in Calls : Behind(call'[d], server')
    BY <1>2, <1>7, <1>10 DEF ReaderInv, TypeInv
  <1>13. TypeOK'
    <2>1. taps' \in 0..MaxTaps
      BY <1>2, <1>3, ReaderAssumption
    <2> QED
      BY <1>2, <1>10, <2>1 DEF ReaderInv, TypeInv, TypeOK, CallsOK
  <1>14. \A b, m : ~Owes(call[c], b, m, server[b])
    BY <1>1 DEF Owes
  <1>15. FreshInv'
    BY <1>2, <1>8, <1>9, <1>14, QuietStep DEF ReaderInv
  <1> QED
    BY <1>10, <1>11, <1>12, <1>13, <1>15 DEF ReaderInv, TypeInv

LEMMA ReaderSessionChanges ==
  ASSUME ReaderInv, SessionChanges
  PROVE  ReaderInv'
  <1>1. /\ stack' = AllUpset(stack) /\ call' = call /\ server' = server /\ shown' = shown
        /\ taps' = taps /\ rebuilds' = rebuilds /\ signedIn' = ~signedIn
    BY DEF SessionChanges, AllUpset
  <1>2. stack \in Seq(Screen) /\ call \in [Calls -> Call]
    BY DEF ReaderInv, TypeInv, TypeOK
  <1>3. Kept(stack, stack') /\ \A i \in 1..Len(stack) : stack'[i].upset
    BY <1>1, <1>2, AllUpsetKept
  <1>4. FreshInv'
    BY <1>3 DEF FreshInv, Kept
  <1>5. ASSUME NEW c \in Calls, call'[c].at # 0
        PROVE  call'[c].at <= Len(stack') /\ stack'[call'[c].at].article = call'[c].article
    <2> DEFINE i == call[c].at
    <2>1. i # 0 /\ i \in Nat
      BY <1>1, <1>2, <1>5, ReaderAssumption DEF Call
    <2>2. i <= Len(stack) /\ stack[i].article = call[c].article
      BY <2>1 DEF ReaderInv, TypeInv, TypeOK
    <2>3. i \in 1..Len(stack)
      BY <2>1, <2>2, <1>2, Positions
    <2> HIDE DEF i
    <2>4. i <= Len(stack') /\ stack'[i].article = call[c].article
      BY <2>2, <2>3, <1>3 DEF Kept
    <2> QED
      BY <2>4, <1>1 DEF i
  <1>6. signedIn' \in BOOLEAN
    BY <1>1
  <1>7. TypeOK'
    BY <1>1, <1>3, <1>5, <1>6 DEF ReaderInv, TypeInv, TypeOK, Kept
  <1>8. Counted' /\ \A c \in Calls : Formed(call'[c]) /\ Behind(call'[c], server')
    <2>1. \A a \in Articles : Pending(a)' \subseteq Pending(a)
      BY <1>1 DEF Pending
    <2> QED
      BY <1>1, <2>1, StillCounted DEF ReaderInv, TypeInv
  <1> QED
    BY <1>4, <1>7, <1>8 DEF ReaderInv, TypeInv

\* A new article: its two chains owe it both marks, and the screens below are upset.
LEMMA ReaderOpenArticle ==
  ASSUME ReaderInv, NEW a \in Articles, OpenArticle(a)
  PROVE  ReaderInv'
  <1> DEFINE n == Len(stack) + 1
             k1 == Sent("init", "article", a, n)
             k2 == Sent("build", "article", a, n)
             scr == [article |-> a, view |-> "waiting", set |-> FALSE, upset |-> FALSE]
  <1>1. /\ Len(stack) < MaxScreens /\ stack' = Append(AllUpset(stack), scr)
        /\ server' = server /\ signedIn' = signedIn /\ shown' = shown
        /\ taps' = taps /\ rebuilds' = rebuilds
    BY DEF OpenArticle, AllUpset
  <1>2. PICK c \in FreeCalls, d \in FreeCalls :
          c # d /\ call' = [call EXCEPT ![c] = k1, ![d] = k2]
    BY DEF OpenArticle
  <1>3. /\ stack \in Seq(Screen) /\ call \in [Calls -> Call] /\ signedIn \in BOOLEAN
        /\ Len(stack) \in Nat
    BY Positions DEF ReaderInv, TypeInv, TypeOK
  <1>4. c \in Calls /\ d \in Calls /\ call[c].kind = "none" /\ call[d].kind = "none"
    BY DEF FreeCalls
  <1>5. n \in Nat /\ n # 0 /\ n \in 0..MaxScreens /\ n <= MaxScreens /\ n = Len(stack) + 1
    BY <1>1, <1>3, ReaderAssumption
  <1> HIDE DEF n
  <1>6. /\ k1 \in Call /\ k1.kind = "init" /\ k1.step = "article" /\ k1.article = a /\ k1.at = n
        /\ k1.got = "nothing" /\ k1.answer = NoAnswer
    BY <1>3, <1>5, SentShape
  <1>7. /\ k2 \in Call /\ k2.kind = "build" /\ k2.step = "article" /\ k2.article = a /\ k2.at = n
        /\ k2.got = "nothing" /\ k2.answer = NoAnswer
    BY <1>3, <1>5, SentShape
  <1> HIDE DEF k1, k2
  <1>8. /\ call' \in [Calls -> Call]
        /\ \A e \in Calls : call'[e] = IF e = d THEN k2 ELSE IF e = c THEN k1 ELSE call[e]
    BY <1>2, <1>3, <1>4, <1>6, <1>7
  <1>9. scr \in Screen /\ scr.article = a
    BY DEF Screen
  <1> HIDE DEF scr
  <1>10. /\ Kept(stack, AllUpset(stack)) /\ \A i \in 1..Len(stack) : AllUpset(stack)[i].upset
    BY <1>3, AllUpsetKept
  <1>11. /\ stack' \in Seq(Screen) /\ Len(stack') = n /\ stack'[n].article = a
         /\ \A i \in 1..Len(stack) : stack'[i].article = stack[i].article /\ stack'[i].upset
    <2>1. AllUpset(stack) \in Seq(Screen) /\ Len(AllUpset(stack)) = Len(stack)
      BY <1>10 DEF Kept
    <2>2. /\ Append(AllUpset(stack), scr) \in Seq(Screen)
          /\ Len(Append(AllUpset(stack), scr)) = Len(stack) + 1
          /\ \A i \in 1..Len(stack) : Append(AllUpset(stack), scr)[i] = AllUpset(stack)[i]
          /\ Append(AllUpset(stack), scr)[Len(stack) + 1] = scr
      BY <2>1, <1>9, AppendProperties
    <2> QED
      BY <2>2, <1>1, <1>5, <1>9, <1>10 DEF Kept
  <1>12. ASSUME NEW e \in Calls, call'[e].at # 0
         PROVE  call'[e].at <= Len(stack') /\ stack'[call'[e].at].article = call'[e].article
    <2>1. CASE e = c \/ e = d
      BY <2>1, <1>5, <1>6, <1>7, <1>8, <1>11
    <2>2. CASE e # c /\ e # d
      <3> DEFINE i == call[e].at
      <3>1. call'[e] = call[e]
        BY <2>2, <1>8
      <3>2. i # 0 /\ i \in Nat
        BY <1>3, <1>12, <3>1, ReaderAssumption DEF Call
      <3>3. i <= Len(stack) /\ stack[i].article = call[e].article
        BY <3>2 DEF ReaderInv, TypeInv, TypeOK
      <3> HIDE DEF i
      <3>4. i \in 1..Len(stack) /\ i <= n
        BY <3>2, <3>3, <1>3, <1>5
      <3> QED
        BY <3>1, <3>3, <3>4, <1>11 DEF i
    <2> QED
      BY <2>1, <2>2
  <1>13. ASSUME NEW e \in Calls, call[e].at # 0
         PROVE  call[e].at # n
    <2>1. call[e].at <= Len(stack) /\ call[e].at \in Nat
      BY <1>3, <1>13, ReaderAssumption DEF ReaderInv, TypeInv, TypeOK, Call
    <2> QED
      BY <2>1, <1>3, <1>5
  <1>14. ASSUME NEW e \in Calls, NEW f \in Calls, call'[e].kind = "build", call'[f].kind = "build",
                call'[e].at = call'[f].at, call'[e].at # 0
         PROVE  e = f
    <2>1. e # c /\ f # c
      BY <1>4, <1>6, <1>8, <1>14, <1>2
    <2>2. CASE e = d \/ f = d
      BY <2>1, <2>2, <1>7, <1>8, <1>13, <1>14
    <2>3. CASE e # d /\ f # d
      <3>1. call'[e] = call[e] /\ call'[f] = call[f]
        BY <2>1, <2>3, <1>8
      <3> QED
        BY <3>1, <1>14 DEF ReaderInv, TypeInv, TypeOK
    <2> QED
      BY <2>2, <2>3
  <1>15. TypeOK'
    BY <1>1, <1>5, <1>8, <1>11, <1>12, <1>14 DEF ReaderInv, TypeInv, TypeOK
  <1>16. /\ Formed(k1) /\ Formed(k2) /\ Behind(k1, server) /\ Behind(k2, server)
    BY <1>6, <1>7, NoAnswerShape, ReaderAssumption DEF Formed, Behind
  <1>17. \A e \in Calls : Formed(call'[e]) /\ Behind(call'[e], server')
    BY <1>1, <1>8, <1>16 DEF ReaderInv, TypeInv
  <1>18. Counted'
    <2>1. \A b \in Articles : Pending(b)' \subseteq Pending(b)
      BY <1>6, <1>7, <1>8 DEF Pending
    <2> QED
      BY <1>1, <2>1, StillCounted DEF ReaderInv
  <1>19. FreshInv'
    <2> SUFFICES ASSUME NEW b \in Articles, NEW i \in 1..Len(stack'),
                        stack'[i].article = b, ~stack'[i].upset
                 PROVE  i = Len(stack') /\ \A m \in Marks : Fresh(b, m)'
      BY DEF FreshInv
    <2>1. i \notin 1..Len(stack)
      BY <1>11
    <2>2. i = n
      BY <2>1, <1>3, <1>5, <1>11
    <2>3. b = a
      BY <2>2, <1>11
    <2>4. ASSUME NEW m \in Marks
          PROVE  Owes(call'[c], a, m, server'[a])
      <3>1. call'[c] = k1
        BY <1>2, <1>4, <1>8
      <3> QED
        BY <3>1, <1>6 DEF Owes
    <2> QED
      BY <2>2, <2>3, <2>4, <1>4, <1>11 DEF Fresh
  <1> QED
    BY <1>15, <1>17, <1>18, <1>19 DEF ReaderInv, TypeInv

\* A rebuild: one more chain for the visible article, the one listened to so far goes on unheard.
LEMMA ReaderRebuild ==
  ASSUME ReaderInv, Rebuild
  PROVE  ReaderInv'
  <1> PICK n, a : n = Len(stack) /\ a = Top.article
    OBVIOUS
  <1> DEFINE k == Sent("build", "article", a, n)
             Unheard(d) == call[d].kind = "build" /\ call[d].at = n
             init(d) == [call[d] EXCEPT !.kind = "init"]
             e == [stack[n] EXCEPT !.view = "waiting"]
  <1>1. /\ stack # <<>> /\ stack' = [stack EXCEPT ![n] = e]
        /\ server' = server /\ signedIn' = signedIn /\ shown' = shown /\ taps' = taps
        /\ rebuilds < MaxRebuilds /\ rebuilds' = rebuilds + 1
    BY DEF Rebuild
  <1>2. PICK c \in FreeCalls :
          call' = [d \in Calls |-> IF d = c THEN k ELSE IF Unheard(d) THEN init(d) ELSE call[d]]
    BY DEF Rebuild
  <1>3. /\ stack \in Seq(Screen) /\ call \in [Calls -> Call] /\ signedIn \in BOOLEAN
        /\ n \in Nat /\ n <= MaxScreens /\ rebuilds \in Nat
    BY Positions DEF ReaderInv, TypeInv, TypeOK
  <1>4. n \in 1..Len(stack) /\ n # 0 /\ n \in 0..MaxScreens
    BY <1>1, <1>3, EmptySeq, ReaderAssumption
  <1>5. stack[n] \in Screen /\ stack[n].article = a
    BY <1>3, <1>4, Positions DEF Top
  <1>6. a \in Articles
    BY <1>5 DEF Screen
  <1>7. c \in Calls /\ call[c].kind = "none"
    BY DEF FreeCalls
  <1>8. /\ k \in Call /\ k.kind = "build" /\ k.step = "article" /\ k.article = a /\ k.at = n
        /\ k.got = "nothing" /\ k.answer = NoAnswer
    BY <1>3, <1>4, <1>6, SentShape
  <1>9. ASSUME NEW d \in Calls
        PROVE  /\ init(d) \in Call /\ init(d).kind = "init" /\ init(d).step = call[d].step
               /\ init(d).article = call[d].article /\ init(d).at = call[d].at
               /\ init(d).got = call[d].got /\ init(d).answer = call[d].answer
    <2>1. call[d] \in Call
      BY <1>3
    <2> QED
      BY <2>1 DEF Call
  <1> HIDE DEF k, init
  <1>10. \A d \in Calls : call'[d] = IF d = c THEN k ELSE IF Unheard(d) THEN init(d) ELSE call[d]
    BY <1>2
  <1>11. call' \in [Calls -> Call]
    BY <1>2, <1>3, <1>8, <1>9
  <1>12. /\ Kept(stack, stack')
         /\ \A i \in 1..Len(stack) : stack'[i].upset => stack[i].upset
    <2>1. /\ e \in Screen /\ e.article = stack[n].article
          /\ stack[n].upset => e.upset
          /\ e.upset => stack[n].upset
      BY <1>5, ViewShape DEF Views
    <2> HIDE DEF e
    <2> QED
      BY <2>1, <1>1, <1>3, <1>4, OneScreenKept
  \* What a chain other than the new one keeps.
  <1>13. ASSUME NEW d \in Calls, d # c
         PROVE  /\ call'[d].article = call[d].article /\ call'[d].at = call[d].at
                /\ call'[d].step = call[d].step /\ call'[d].got = call[d].got
                /\ call'[d].answer = call[d].answer
                /\ call'[d].kind = call[d].kind \/ (call[d].kind = "build" /\ call'[d].kind = "init")
                /\ call'[d].kind = "build" => call[d].kind = "build" /\ call[d].at # n
    <2>1. CASE Unheard(d)
      <3>1. call'[d] = init(d)
        BY <2>1, <1>10, <1>13
      <3> QED
        BY <2>1, <3>1, <1>9
    <2>2. CASE ~Unheard(d)
      <3>1. call'[d] = call[d]
        BY <2>2, <1>10, <1>13
      <3> QED
        BY <2>2, <3>1
    <2> QED
      BY <2>1, <2>2
  <1>14. call'[c] = k
    BY <1>7, <1>10
  <1>15. ASSUME NEW d \in Calls, call'[d].at # 0
         PROVE  call'[d].at <= Len(stack') /\ stack'[call'[d].at].article = call'[d].article
    <2>1. CASE d = c
      BY <2>1, <1>3, <1>4, <1>5, <1>8, <1>12, <1>14 DEF Kept
    <2>2. CASE d # c
      <3> DEFINE i == call[d].at
      <3>1. i # 0 /\ i \in Nat
        BY <2>2, <1>3, <1>13, <1>15, ReaderAssumption DEF Call
      <3>2. i <= Len(stack) /\ stack[i].article = call[d].article
        BY <3>1 DEF ReaderInv, TypeInv, TypeOK
      <3>3. i \in 1..Len(stack)
        BY <3>1, <3>2, <1>3, Positions
      <3>4. call'[d].at = i /\ call'[d].article = call[d].article
        BY <2>2, <1>13
      <3> HIDE DEF i
      <3> QED
        BY <3>2, <3>3, <3>4, <1>12 DEF Kept
    <2> QED
      BY <2>1, <2>2
  <1>16. ASSUME NEW d \in Calls, NEW f \in Calls, call'[d].kind = "build", call'[f].kind = "build",
                call'[d].at = call'[f].at, call'[d].at # 0
         PROVE  d = f
    <2>1. CASE d = c \/ f = c
      BY <2>1, <1>8, <1>13, <1>14, <1>16
    <2>2. CASE d # c /\ f # c
      <3>1. /\ call[d].kind = "build" /\ call[f].kind = "build"
            /\ call[d].at = call[f].at /\ call[d].at # 0
        BY <2>2, <1>13, <1>16
      <3> QED
        BY <3>1 DEF ReaderInv, TypeInv, TypeOK
    <2> QED
      BY <2>1, <2>2
  <1>17. rebuilds' \in 0..MaxRebuilds
    BY <1>1, <1>3, ReaderAssumption
  <1>18. TypeOK'
    BY <1>1, <1>11, <1>12, <1>15, <1>16, <1>17 DEF ReaderInv, TypeInv, TypeOK, Kept
  <1>19. ASSUME NEW d \in Calls
         PROVE  Formed(call'[d]) /\ Behind(call'[d], server')
    <2>1. CASE d = c
      BY <2>1, <1>6, <1>8, <1>14, NoAnswerShape, ReaderAssumption DEF Formed, Behind
    <2>2. CASE d # c
      <3>1. Formed(call[d]) /\ Behind(call[d], server)
        BY DEF ReaderInv, TypeInv
      <3>2. Formed(call'[d])
        BY <2>2, <3>1, <1>13 DEF Formed
      <3>3. Behind(call'[d], server')
        BY <2>2, <3>1, <1>1, <1>13 DEF Behind
      <3> QED
        BY <3>2, <3>3
    <2> QED
      BY <2>1, <2>2
  <1>20. Counted'
    <2>1. \A b \in Articles : Pending(b)' \subseteq Pending(b)
      BY <1>8, <1>13, <1>14 DEF Pending
    <2> QED
      BY <1>1, <2>1, StillCounted DEF ReaderInv
  <1>21. ASSUME NEW b \in Articles, NEW m \in Marks, Fresh(b, m)
         PROVE  Fresh(b, m)'
    <2>1. CASE Truthful(Shows(m), b, m, signedIn, server[b])
      BY <2>1, <1>1 DEF Fresh, Shows
    <2>2. ASSUME NEW d \in Calls, Owes(call[d], b, m, server[b])
          PROVE  Fresh(b, m)'
      <3>1. d # c
        BY <2>2, <1>7 DEF Owes
      <3>2. Owes(call'[d], b, m, server[b])
        BY <2>2, <3>1, <1>13 DEF Owes
      <3> QED
        BY <3>2, <1>1 DEF Fresh
    <2> QED
      BY <1>21, <2>1, <2>2 DEF Fresh
  <1>22. FreshInv'
    BY <1>12, <1>21, FreshStep DEF ReaderInv
  <1> QED
    BY <1>18, <1>19, <1>20, <1>22 DEF ReaderInv, TypeInv

\* The article underneath was upset when the one that closes was opened over it.
LEMMA ReaderCloseArticle ==
  ASSUME ReaderInv, CloseArticle
  PROVE  ReaderInv'
  <1> PICK n : n = Len(stack)
    OBVIOUS
  <1> DEFINE alone(d) == [call[d] EXCEPT !.at = 0]
  <1>1. /\ stack # <<>> /\ stack' = SubSeq(stack, 1, n - 1)
        /\ call' = [d \in Calls |-> IF call[d].at = n THEN alone(d) ELSE call[d]]
        /\ server' = server /\ signedIn' = signedIn /\ shown' = shown /\ taps' = taps
        /\ rebuilds' = rebuilds
    BY DEF CloseArticle, Detached
  <1>2. /\ stack \in Seq(Screen) /\ call \in [Calls -> Call]
        /\ n \in Nat /\ n <= MaxScreens
    BY Positions DEF ReaderInv, TypeInv, TypeOK
  <1>3. n \in 1..Len(stack) /\ n # 0
    BY <1>1, <1>2, EmptySeq
  <1>4. ASSUME NEW d \in Calls
        PROVE  /\ alone(d) \in Call /\ alone(d).kind = call[d].kind /\ alone(d).step = call[d].step
               /\ alone(d).article = call[d].article /\ alone(d).at = 0
               /\ alone(d).got = call[d].got /\ alone(d).answer = call[d].answer
    <2>1. call[d] \in Call
      BY <1>2
    <2> QED
      BY <2>1, ReaderAssumption DEF Call
  <1> HIDE DEF alone
  <1>5. call' \in [Calls -> Call]
    BY <1>1, <1>2, <1>4
  <1>6. ASSUME NEW d \in Calls
        PROVE  /\ call'[d].article = call[d].article /\ call'[d].kind = call[d].kind
               /\ call'[d].step = call[d].step /\ call'[d].got = call[d].got
               /\ call'[d].answer = call[d].answer
               /\ call'[d].at # 0 => call'[d].at = call[d].at /\ call[d].at # n
    BY <1>1, <1>4
  <1>7. /\ stack' \in Seq(Screen) /\ Len(stack') = n - 1
        /\ \A i \in 1..(n - 1) : stack'[i] = stack[i]
    <2>1. \A i \in 1..(n - 1) : stack[i] \in Screen
      BY <1>2, <1>3, Positions
    <2> QED
      BY <1>1, <1>2, <1>3, <2>1, SubSeqProperties
  <1>8. ASSUME NEW d \in Calls, call'[d].at # 0
        PROVE  call'[d].at <= Len(stack') /\ stack'[call'[d].at].article = call'[d].article
    <2> DEFINE i == call[d].at
    <2>1. call'[d].at = i /\ i # 0 /\ i # n /\ i \in Nat
      BY <1>2, <1>6, <1>8, ReaderAssumption DEF Call
    <2>2. i <= n /\ stack[i].article = call[d].article
      BY <2>1 DEF ReaderInv, TypeInv, TypeOK
    <2> HIDE DEF i
    <2>3. i \in 1..(n - 1)
      BY <2>1, <2>2, <1>2
    <2> QED
      BY <2>1, <2>2, <2>3, <1>6, <1>7
  <1>9. ASSUME NEW d \in Calls, NEW f \in Calls, call'[d].kind = "build", call'[f].kind = "build",
               call'[d].at = call'[f].at, call'[d].at # 0
        PROVE  d = f
    <2>1. /\ call[d].kind = "build" /\ call[f].kind = "build"
          /\ call[d].at = call[f].at /\ call[d].at # 0
      BY <1>6, <1>9
    <2> QED
      BY <2>1 DEF ReaderInv, TypeInv, TypeOK
  <1>10. Len(stack') <= MaxScreens
    BY <1>2, <1>3, <1>7, ReaderAssumption
  <1>11. TypeOK'
    BY <1>1, <1>5, <1>7, <1>8, <1>9, <1>10 DEF ReaderInv, TypeInv, TypeOK
  <1>12. ASSUME NEW d \in Calls
         PROVE  Formed(call'[d]) /\ Behind(call'[d], server')
    <2>1. Formed(call[d]) /\ Behind(call[d], server)
      BY DEF ReaderInv, TypeInv
    <2>2. Formed(call'[d])
      BY <2>1, <1>6 DEF Formed
    <2>3. Behind(call'[d], server')
      BY <2>1, <1>1, <1>6 DEF Behind
    <2> QED
      BY <2>2, <2>3
  <1>13. Counted'
    <2>1. \A b \in Articles : Pending(b)' \subseteq Pending(b)
      BY <1>6 DEF Pending
    <2> QED
      BY <1>1, <2>1, StillCounted DEF ReaderInv
  <1>14. FreshInv'
    <2> SUFFICES ASSUME NEW b \in Articles, NEW i \in 1..Len(stack'), stack'[i].article = b
                 PROVE  stack'[i].upset
      BY DEF FreshInv
    <2>1. i \in 1..Len(stack) /\ i # Len(stack) /\ stack'[i] = stack[i]
      BY <1>2, <1>3, <1>7
    <2> QED
      BY <2>1 DEF ReaderInv, FreshInv
  <1> QED
    BY <1>11, <1>12, <1>13, <1>14 DEF ReaderInv, TypeInv

-----------------------------------------------------------------------------
(* The theorems.                                                           *)

LEMMA ReaderInit ==
  ASSUME Init
  PROVE  ReaderInv
  <1>1. /\ stack = <<>> /\ call = [c \in Calls |-> Idle] /\ signedIn \in Sessions
        /\ server = [a \in Articles |-> [likes |-> 0, saves |-> 0]]
        /\ shown = [like |-> NoAnswer, save |-> NoAnswer] /\ taps = 0 /\ rebuilds = 0
    BY DEF Init
  <1>2. stack \in Seq(Screen) /\ Len(stack) = 0
    BY <1>1, EmptySeq
  <1>3. TypeOK
    <2>1. /\ call \in [Calls -> Call] /\ \A c \in Calls : call[c].at = 0
      BY <1>1, IdleShape
    <2>2. server \in [Articles -> [likes : 0..MaxTaps, saves : 0..MaxTaps]]
      BY <1>1, ReaderAssumption
    <2>3. shown \in [like : Answer, save : Answer]
      BY <1>1, NoAnswerShape
    <2>4. Len(stack) <= MaxScreens /\ taps \in 0..MaxTaps /\ rebuilds \in 0..MaxRebuilds
          /\ signedIn \in BOOLEAN
      BY <1>1, <1>2, ReaderAssumption
    <2> QED
      BY <1>2, <2>1, <2>2, <2>3, <2>4 DEF TypeOK
  <1>4. \A c \in Calls : Formed(call[c]) /\ Behind(call[c], server)
    BY <1>1, IdleFormed
  <1>5. Counted
    <2>1. \A a : Pending(a) = {}
      BY <1>1, IdleShape DEF Pending
    <2>2. \A a \in Articles : server[a].likes = 0 /\ server[a].saves = 0
      BY <1>1
    <2>3. \A a \in Articles : Cardinality(Pending(a)) = 0
      BY <2>1, FS_EmptySet
    <2> QED
      BY <1>1, <2>2, <2>3 DEF Counted
  <1>6. FreshInv
    BY <1>2 DEF FreshInv
  <1> QED
    BY <1>3, <1>4, <1>5, <1>6 DEF ReaderInv, TypeInv

LEMMA ReaderNext ==
  ASSUME ReaderInv, [Next]_vars
  PROVE  ReaderInv'
  <1>1. ASSUME NEW a \in Articles, OpenArticle(a) \/ PushMessage(a)
        PROVE  ReaderInv'
    BY <1>1, ReaderOpenArticle, ReaderPushMessage
  <1>2. ASSUME NEW kind, Tap(kind)
        PROVE  ReaderInv'
    BY <1>2, ReaderTap
  <1>3. CASE Rebuild
    BY <1>3, ReaderRebuild
  <1>4. CASE CloseArticle
    BY <1>4, ReaderCloseArticle
  <1>5. CASE SessionChanges
    BY <1>5, ReaderSessionChanges
  <1>6. ASSUME NEW c \in Calls, Service(c)
        PROVE  ReaderInv'
    BY <1>6, ReaderServeFetch, ReaderServeToggle DEF Service
  <1>7. ASSUME NEW c \in Calls, Resume(c)
        PROVE  ReaderInv'
    BY <1>7, ReaderArticleFetched, ReaderArticleRefused, ReaderFetchFailed, ReaderDetailsFetched,
       ReaderToggled, ReaderRefetched, ReaderTapFailed DEF Resume
  <1>8. CASE UNCHANGED vars
    <2>1. /\ stack' = stack /\ call' = call /\ server' = server /\ signedIn' = signedIn
          /\ shown' = shown /\ taps' = taps /\ rebuilds' = rebuilds
      BY <1>8 DEF vars
    <2>2. TypeOK'
      BY <2>1 DEF ReaderInv, TypeInv, TypeOK
    <2>3. Counted' /\ \A c \in Calls : Formed(call'[c]) /\ Behind(call'[c], server')
      BY <2>1 DEF ReaderInv, TypeInv, Counted, Pending
    <2>4. FreshInv'
      BY <2>1 DEF ReaderInv, FreshInv, Fresh, Shows
    <2> QED
      BY <2>2, <2>3, <2>4 DEF ReaderInv, TypeInv
  <1> QED
    BY <1>1, <1>2, <1>3, <1>4, <1>5, <1>6, <1>7, <1>8 DEF Next

LEMMA ReaderAlways ==
  Spec => []ReaderInv
  <1>1. Init => ReaderInv
    BY ReaderInit
  <1>2. ReaderInv /\ [Next]_vars => ReaderInv'
    BY ReaderNext
  <1> QED
    BY <1>1, <1>2, PTL DEF Spec

\* Every reachable state is well typed: a chain of calls belongs to a screen that is open
\* and shows its article, at most one chain is listened to by a screen's FutureBuilder, and
\* the backend never counts more toggles than the reader tapped. (getArticle, updateLikes
\* and updateSaves of ArticleController, the FutureBuilder of ArticleScreen.)
THEOREM ReaderTypeCorrect == Spec => []TypeOK
  <1>1. ReaderInv => TypeOK
    BY DEF ReaderInv, TypeInv
  <1> QED
    BY <1>1, ReaderAlways, PTL

\* When every call has been answered, the visible article shows the like and the save that
\* the backend holds, unless one of the races that ArticleController does not handle hit it,
\* however many articles, chains of calls, taps and rebuilds there were.
THEOREM SettledArticleTruthful == Spec => []SettledShowsServer
  <1>1. ReaderInv => SettledShowsServer
    <2> SUFFICES ASSUME ReaderInv, \A c \in Calls : call[c].kind = "none", stack # <<>>, ~Top.upset
                 PROVE  /\ shown.like.of = Top.article /\ shown.save.of = Top.article
                        /\ IsLiked = Mark(signedIn, server[Top.article].likes)
                        /\ IsSaved = Mark(signedIn, server[Top.article].saves)
      BY DEF SettledShowsServer
    <2> PICK n, a : n = Len(stack) /\ a = Top.article
      OBVIOUS
    <2>1. stack \in Seq(Screen)
      BY DEF ReaderInv, TypeInv, TypeOK
    <2>2. n \in 1..Len(stack)
      BY <2>1, EmptySeq, Positions
    <2>3. stack[n].article = a /\ ~stack[n].upset
      BY DEF Top
    <2>4. a \in Articles
      BY <2>1, <2>2, <2>3, Positions DEF Screen
    <2>5. \A m \in Marks : Fresh(a, m)
      BY <2>2, <2>3, <2>4 DEF ReaderInv, FreshInv
    <2>6. \A m \in Marks : Truthful(Shows(m), a, m, signedIn, server[a])
      BY <2>5 DEF Fresh, Owes
    <2>7. /\ Truthful(shown.like, a, "like", signedIn, server[a])
          /\ Truthful(shown.save, a, "save", signedIn, server[a])
      BY <2>6 DEF Marks, Shows
    <2>8. /\ shown.like.of = a /\ shown.like.by = signedIn /\ shown.like.likes = server[a].likes
          /\ shown.save.of = a /\ shown.save.by = signedIn /\ shown.save.saves = server[a].saves
      BY <2>7 DEF Truthful, Count
    <2> QED
      BY <2>8 DEF IsLiked, IsSaved
  <1> QED
    BY <1>1, ReaderAlways, PTL

=============================================================================
