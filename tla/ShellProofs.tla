------------------------------- MODULE ShellProofs ------------------------------
(***************************************************************************)
(* MainScreen and what it shows: retries, losses of the connection and     *)
(* links; the feed under the chips; the language of the news that are      *)
(* drawn and of the reader's profile; the buttons of videos.  For any      *)
(* number of handlers and calls under way and any depth of the Navigator.  *)
(* Each part has its theorems, and the last section puts them together     *)
(* into theorems of the instance's Spec.                                   *)
(***************************************************************************)
EXTENDS MCShell, QueueLemmas, FiniteSetTheorems

-----------------------------------------------------------------------------
(* MainShell.                                                              *)

Routes   == [page : {"main", "sheet", "content", "other"}, of : Nat]
HandlerT == [kind : {"none", "retry", "video"}, at : Nat, life : {"shown", "exiting", "gone"},
             seen : SUBSET BOOLEAN]

\* The types that the arguments below rest on.
ShellTyped == /\ routes \in Seq(Routes)
              /\ handler \in [Handlers -> HandlerT]
              /\ online \in BOOLEAN

-----------------------------------------------------------------------------
(* The Navigator.                                                          *)

\* What was on the Navigator is there, at the same place.
Kept == \A k \in 1..Len(routes) : k \in 1..Len(routes') /\ routes'[k] = routes[k]

LEMMA Extended ==
  ASSUME NEW S, NEW s \in Seq(S), NEW t \in Seq(S)
  PROVE  /\ s \o t \in Seq(S)
         /\ Len(s \o t) = Len(s) + Len(t)
         /\ \A k \in 1..Len(s) : k \in 1..Len(s \o t) /\ (s \o t)[k] = s[k]
         /\ \A j \in 1..Len(t) : Len(s) + j \in 1..Len(s \o t) /\ (s \o t)[Len(s) + j] = t[j]
         /\ \A k \in 1..Len(s \o t) : k \in 1..Len(s) \/ \E j \in 1..Len(t) : (s \o t)[k] = t[j]
  <1>1. /\ s \o t \in Seq(S) /\ Len(s \o t) = Len(s) + Len(t)
        /\ \A k \in 1..Len(s) + Len(t) : (s \o t)[k] = IF k <= Len(s) THEN s[k] ELSE t[k - Len(s)]
    BY ConcatProperties
  <1>2. Len(s) \in Nat /\ Len(t) \in Nat
    OBVIOUS
  <1>3. ASSUME NEW j \in 1..Len(t)
        PROVE  Len(s) + j \in 1..Len(s \o t) /\ (s \o t)[Len(s) + j] = t[j]
    <2>1. Len(s) + j \in 1..Len(s) + Len(t) /\ ~(Len(s) + j <= Len(s)) /\ Len(s) + j - Len(s) = j
      BY <1>2
    <2> QED
      BY <2>1, <1>1
  <1>4. ASSUME NEW k \in 1..Len(s \o t), k \notin 1..Len(s)
        PROVE  \E j \in 1..Len(t) : (s \o t)[k] = t[j]
    <2>1. k \in 1..Len(s) + Len(t) /\ ~(k <= Len(s)) /\ k - Len(s) \in 1..Len(t)
      BY <1>1, <1>2, <1>4
    <2> QED
      BY <2>1, <1>1
  <1> QED
    BY <1>1, <1>2, <1>3, <1>4

\* The listeners are positions, and somebody listens unless all are deaf.
LEMMA ListenersTyped ==
  ASSUME ShellTyped, NEW ls \in Listening
  PROVE  ls \in Seq(Nat) /\ (~Deaf => Len(ls) > 0)
  <1>1. IsFiniteSet(Mains) /\ Cardinality(Mains) \in Nat /\ Mains \subseteq Nat
        /\ (Mains # {} => Cardinality(Mains) > 0)
    <2>1. Len(routes) \in Nat /\ DOMAIN routes = 1..Len(routes) /\ Mains \subseteq 1..Len(routes)
      BY DEF ShellTyped, Mains
    <2>2. IsFiniteSet(1..Len(routes))
      BY <2>1, FS_Interval
    <2>3. IsFiniteSet(Mains)
      BY <2>1, <2>2, FS_Subset
    <2> QED
      BY <2>1, <2>3, FS_CardinalityType, FS_EmptySet
  <1>2. PICK s \in [1..Cardinality(Mains) -> Mains] : ls = s \o (IF exiting THEN <<0>> ELSE <<>>)
    BY DEF Listening
  <1>3. s \in Seq(Nat) /\ Len(s) = Cardinality(Mains)
    <2>1. s \in [1..Cardinality(Mains) -> Nat]
      BY <1>1, <1>2
    <2> QED
      BY <2>1, <1>1, SeqDef
  <1> DEFINE t == IF exiting THEN <<0>> ELSE <<>>
  <1>4. t \in Seq(Nat) /\ Len(t) = IF exiting THEN 1 ELSE 0
    <2>1. CASE exiting
      BY <2>1
    <2>2. CASE ~exiting
      BY <2>2, EmptySeq
    <2> QED
      BY <2>1, <2>2
  <1>5. ls = s \o t
    BY <1>2
  <1> HIDE DEF t
  <1>6. ls \in Seq(Nat) /\ Len(ls) = Len(s) + Len(t)
    <2>1. s \in Seq(Nat) /\ t \in Seq(Nat)
      BY <1>3, <1>4
    <2>2. s \o t \in Seq(Nat) /\ Len(s \o t) = Len(s) + Len(t)
      BY <2>1, Extended
    <2> QED
      BY <1>5, <2>2
  <1> QED
    BY <1>1, <1>3, <1>4, <1>6 DEF Deaf

\* One sheet, or one article, of each listener.
LEMMA NewRoutes ==
  ASSUME NEW ls \in Seq(Nat)
  PROVE  /\ NewSheets(ls) \in Seq(Routes) /\ Len(NewSheets(ls)) = Len(ls)
         /\ \A j \in 1..Len(ls) : NewSheets(ls)[j].page = "sheet"
         /\ [n \in DOMAIN ls |-> Plain("content")] \in Seq(Routes)
         /\ \A j \in 1..Len([n \in DOMAIN ls |-> Plain("content")]) :
              [n \in DOMAIN ls |-> Plain("content")][j].page = "content"
  <1>1. Len(ls) \in Nat /\ DOMAIN ls = 1..Len(ls) /\ \A j \in 1..Len(ls) : ls[j] \in Nat
    OBVIOUS
  <1>2. \A i \in Nat : SheetOf(i) \in Routes /\ SheetOf(i).page = "sheet"
    BY DEF SheetOf, Routes
  <1>3. Plain("content") \in Routes /\ Plain("content").page = "content"
    BY DEF Plain, Routes
  <1>4. NewSheets(ls) \in [1..Len(ls) -> Routes]
    BY <1>1, <1>2 DEF NewSheets
  <1>5. [n \in DOMAIN ls |-> Plain("content")] \in [1..Len(ls) -> Routes]
    BY <1>1, <1>3
  <1>6. NewSheets(ls) \in Seq(Routes) /\ Len(NewSheets(ls)) = Len(ls)
    BY <1>1, <1>4, SeqDef
  <1>7. [n \in DOMAIN ls |-> Plain("content")] \in Seq(Routes)
        /\ Len([n \in DOMAIN ls |-> Plain("content")]) = Len(ls)
    BY <1>1, <1>5, SeqDef
  <1>8. \A j \in 1..Len(ls) : NewSheets(ls)[j].page = "sheet"
    BY <1>1, <1>2 DEF NewSheets
  <1>9. \A j \in 1..Len(ls) : [n \in DOMAIN ls |-> Plain("content")][j].page = "content"
    BY <1>1, <1>3
  <1> QED
    BY <1>6, <1>7, <1>8, <1>9

\* The visible route leaves; no handler changes what it waits for.
LEMMA Popped ==
  ASSUME ShellTyped, routes # <<>>, NEW hs \in [Handlers -> HandlerT], Pop(hs)
  PROVE  /\ routes' \in Seq(Routes)
         /\ Len(routes) \in Nat \ {0} /\ Len(routes') = Len(routes) - 1
         /\ \A k \in 1..Len(routes) - 1 : routes'[k] = routes[k]
         /\ handler' \in [Handlers -> HandlerT]
         /\ \A h \in Handlers : handler'[h].kind = hs[h].kind /\ handler'[h].seen = hs[h].seen
  <1>1. /\ routes' \in Seq(Routes)
        /\ Len(routes) \in Nat \ {0} /\ Len(routes') = Len(routes) - 1
        /\ \A k \in 1..Len(routes) - 1 : routes'[k] = routes[k]
    BY FrontProperties DEF ShellTyped, Pop
  <1>2. \A c \in HandlerT : LET d == [c EXCEPT !.at = 0, !.life = "exiting"] IN
                            d \in HandlerT /\ d.kind = c.kind /\ d.seen = c.seen
    BY DEF HandlerT
  <1>3. ASSUME NEW h \in Handlers
        PROVE  handler'[h] \in HandlerT /\ handler'[h].kind = hs[h].kind /\ handler'[h].seen = hs[h].seen
    <2>1. hs[h] \in HandlerT
      OBVIOUS
    <2>2. handler'[h] = IF hs[h].at = Len(routes) THEN [hs[h] EXCEPT !.at = 0, !.life = "exiting"] ELSE hs[h]
      BY DEF Pop
    <2> QED
      BY <2>1, <2>2, <1>2
  <1>4. handler' \in [Handlers -> HandlerT]
    BY <1>3 DEF Pop
  <1> QED
    BY <1>1, <1>3, <1>4

LEMMA EndedHandler ==
  ASSUME ShellTyped, NEW h \in Handlers
  PROVE  /\ Ended(h) \in [Handlers -> HandlerT]
         /\ Ended(h)[h].kind = "none"
         /\ \A g \in Handlers : g # h => Ended(h)[g] = handler[g]
  <1>1. NoHandler \in HandlerT /\ NoHandler.kind = "none"
    BY DEF NoHandler, HandlerT
  <1> QED
    BY <1>1 DEF Ended, ShellTyped

LEMMA NoticedHandlers ==
  ASSUME ShellTyped, NEW now \in BOOLEAN, Noticed(now)
  PROVE  /\ handler' \in [Handlers -> HandlerT]
         /\ \A h \in Handlers : /\ handler'[h].kind = handler[h].kind
                                /\ handler'[h].seen \subseteq handler[h].seen \cup {now}
  <1>1. \A c \in HandlerT : LET d == [c EXCEPT !.seen = @ \cup {now}] IN
          d \in HandlerT /\ d.kind = c.kind /\ d.seen = c.seen \cup {now}
    BY DEF HandlerT
  <1>2. ASSUME NEW h \in Handlers
        PROVE  /\ handler'[h] \in HandlerT /\ handler'[h].kind = handler[h].kind
               /\ handler'[h].seen \subseteq handler[h].seen \cup {now}
    <2>1. handler[h] \in HandlerT
      BY DEF ShellTyped
    <2>2. handler'[h] = IF h \in Of("retry") THEN [handler[h] EXCEPT !.seen = @ \cup {now}] ELSE handler[h]
      BY DEF Noticed
    <2> QED
      BY <2>1, <2>2, <1>1
  <1> QED
    BY <1>2 DEF Noticed

LEMMA TryAgainHandlers ==
  ASSUME ShellTyped, NEW h \in Handlers, TryAgain(h)
  PROVE  /\ handler' \in [Handlers -> HandlerT]
         /\ handler'[h].seen = {online}
         /\ \A g \in Handlers : g # h => handler'[g] = handler[g]
         /\ Len(routes) \in 1..Len(routes) /\ routes[Len(routes)].page = "sheet"
  <1>1. routes # <<>> /\ Visible.page = "sheet"
    BY DEF TryAgain, Shows
  <1>2. Len(routes) \in 1..Len(routes) /\ Visible \in Routes
    BY <1>1, FrontProperties, ElementOfSeq DEF ShellTyped, Visible
  <1>3. PICK life \in {"shown", "gone", "exiting"} :
          handler' = [handler EXCEPT ![h] = Started("retry", Visible.of, life, {online})]
    BY DEF TryAgain
  <1>4. /\ Started("retry", Visible.of, life, {online}) \in HandlerT
        /\ Started("retry", Visible.of, life, {online}).seen = {online}
    BY <1>2 DEF Started, HandlerT, Routes, ShellTyped
  <1> QED
    BY <1>1, <1>2, <1>3, <1>4 DEF ShellTyped, Visible

LEMMA VideoLinkHandlers ==
  ASSUME ShellTyped, VideoLink
  PROVE  /\ handler' \in [Handlers -> HandlerT]
         /\ \A h \in Handlers : handler'[h] = handler[h] \/ handler'[h].kind = "video"
  <1>0. PICK ls \in Listening : \E f \in [DOMAIN ls -> Of("none")] :
          handler' = [h \in Handlers |->
            IF \E n \in DOMAIN f : f[n] = h
              THEN LET i == ls[CHOOSE n \in DOMAIN f : f[n] = h]
                   IN  Started("video", i, IF i > 0 THEN "shown" ELSE "exiting", {})
              ELSE handler[h]]
    BY DEF VideoLink
  <1>1. PICK f \in [DOMAIN ls -> Of("none")] :
          handler' = [h \in Handlers |->
            IF \E n \in DOMAIN f : f[n] = h
              THEN LET i == ls[CHOOSE n \in DOMAIN f : f[n] = h]
                   IN  Started("video", i, IF i > 0 THEN "shown" ELSE "exiting", {})
              ELSE handler[h]]
    BY <1>0
  <1>2. \A i \in Nat : LET d == Started("video", i, IF i > 0 THEN "shown" ELSE "exiting", {}) IN
                       d \in HandlerT /\ d.kind = "video"
    BY DEF Started, HandlerT
  <1>3. ls \in Seq(Nat)
    BY ListenersTyped
  <1>4. ASSUME NEW h \in Handlers
        PROVE  handler'[h] \in HandlerT /\ (handler'[h] = handler[h] \/ handler'[h].kind = "video")
    <2>1. handler[h] \in HandlerT
      BY DEF ShellTyped
    <2>2. CASE \E n \in DOMAIN f : f[n] = h
      <3> DEFINE m == CHOOSE n \in DOMAIN f : f[n] = h
      <3>1. m \in DOMAIN ls
        BY <2>2
      <3>2. ls[m] \in Nat
        BY <3>1, <1>3
      <3>3. handler'[h] = Started("video", ls[m], IF ls[m] > 0 THEN "shown" ELSE "exiting", {})
        BY <2>2, <1>1
      <3> QED
        BY <3>2, <3>3, <1>2
    <2>3. CASE ~\E n \in DOMAIN f : f[n] = h
      BY <2>1, <2>3, <1>1
    <2> QED
      BY <2>2, <2>3
  <1>5. handler' \in [Handlers -> HandlerT]
    BY <1>1, <1>4
  <1> QED
    BY <1>4, <1>5

\* Retries under way neither begin nor learn anything.
RetriesKept ==
  \A h \in Handlers : handler'[h].kind = "retry" => /\ handler[h].kind = "retry"
                                                    /\ handler'[h].seen = handler[h].seen

LEMMA DisposedHandlers ==
  ASSUME ShellTyped, DisposeMain
  PROVE  handler' \in [Handlers -> HandlerT] /\ RetriesKept
  <1>1. \A c \in HandlerT : LET d == [c EXCEPT !.life = "gone"] IN
                            d \in HandlerT /\ d.kind = c.kind /\ d.seen = c.seen
    BY DEF HandlerT
  <1>2. ASSUME NEW h \in Handlers
        PROVE  handler'[h] \in HandlerT /\ handler'[h].kind = handler[h].kind /\ handler'[h].seen = handler[h].seen
    <2>1. handler[h] \in HandlerT
      BY DEF ShellTyped
    <2>2. handler'[h] = IF handler[h].life = "exiting" THEN [handler[h] EXCEPT !.life = "gone"] ELSE handler[h]
      BY DEF DisposeMain
    <2> QED
      BY <2>1, <2>2, <1>1
  <1> QED
    BY <1>2 DEF DisposeMain, RetriesKept

\* Steps that take nothing from the Navigator.
LEMMA OpenedRoute ==
  ASSUME ShellTyped, NEW r \in {"main", "other", "content"}, routes' = Append(routes, Plain(r))
  PROVE  /\ routes' \in Seq(Routes) /\ Kept
         /\ \A k \in 1..Len(routes') : k \in 1..Len(routes) \/ routes'[k].page = r
  <1>1. Plain(r) \in Routes /\ Plain(r).page = r
    BY DEF Plain, Routes
  <1>2. /\ routes' \in Seq(Routes) /\ Len(routes') = Len(routes) + 1 /\ Len(routes) \in Nat
        /\ routes'[Len(routes) + 1] = Plain(r)
        /\ \A k \in 1..Len(routes) : routes'[k] = routes[k]
    BY <1>1, AppendProperties DEF ShellTyped
  <1> QED
    BY <1>1, <1>2 DEF Kept

LEMMA LostRoutes ==
  ASSUME ShellTyped, ConnectionLost
  PROVE  /\ routes' \in Seq(Routes) /\ Kept
         /\ \A k \in 1..Len(routes') : k \in 1..Len(routes) \/ routes'[k].page = "sheet"
         /\ ~Deaf => \E k \in 1..Len(routes') : k \notin 1..Len(routes) /\ routes'[k].page = "sheet"
  <1>1. PICK ls \in Listening : routes' = routes \o NewSheets(ls)
    BY DEF ConnectionLost
  <1>2. ls \in Seq(Nat) /\ (~Deaf => Len(ls) > 0) /\ Len(ls) \in Nat /\ Len(routes) \in Nat
    BY ListenersTyped DEF ShellTyped
  <1>3. /\ NewSheets(ls) \in Seq(Routes) /\ Len(NewSheets(ls)) = Len(ls)
        /\ \A j \in 1..Len(ls) : NewSheets(ls)[j].page = "sheet"
    BY <1>2, NewRoutes
  <1>4. /\ routes' \in Seq(Routes)
        /\ \A k \in 1..Len(routes) : k \in 1..Len(routes') /\ routes'[k] = routes[k]
        /\ \A j \in 1..Len(ls) : Len(routes) + j \in 1..Len(routes') /\ routes'[Len(routes) + j] = NewSheets(ls)[j]
        /\ \A k \in 1..Len(routes') : k \in 1..Len(routes) \/ \E j \in 1..Len(ls) : routes'[k] = NewSheets(ls)[j]
    <2>1. routes \in Seq(Routes)
      BY DEF ShellTyped
    <2> HIDE DEF Routes
    <2> QED
      BY <1>1, <1>3, <2>1, Extended
  <1>5. ASSUME ~Deaf PROVE \E k \in 1..Len(routes') : k \notin 1..Len(routes) /\ routes'[k].page = "sheet"
    <2>1. 1 \in 1..Len(ls) /\ Len(routes) + 1 \notin 1..Len(routes)
      BY <1>2, <1>5
    <2> QED
      BY <2>1, <1>3, <1>4, SMTT(30)
  <1> QED
    BY <1>3, <1>4, <1>5 DEF Kept

LEMMA LinkedRoutes ==
  ASSUME ShellTyped, ArticleLink
  PROVE  /\ routes' \in Seq(Routes) /\ Kept
         /\ \A k \in 1..Len(routes') : k \in 1..Len(routes) \/ routes'[k].page = "content"
  <1>1. PICK ls \in Listening : routes' = routes \o [n \in DOMAIN ls |-> Plain("content")]
    BY DEF ArticleLink
  <1> DEFINE t == [n \in DOMAIN ls |-> Plain("content")]
  <1>2. t \in Seq(Routes) /\ \A j \in 1..Len(t) : t[j].page = "content"
    BY ListenersTyped, NewRoutes
  <1>3. routes' = routes \o t
    BY <1>1
  <1> HIDE DEF t
  <1>4. /\ routes' \in Seq(Routes)
        /\ \A k \in 1..Len(routes) : k \in 1..Len(routes') /\ routes'[k] = routes[k]
        /\ \A k \in 1..Len(routes') : k \in 1..Len(routes) \/ \E j \in 1..Len(t) : routes'[k] = t[j]
    BY <1>2, <1>3, Extended DEF ShellTyped
  <1> QED
    BY <1>2, <1>4 DEF Kept

-----------------------------------------------------------------------------
(* The invariant.                                                          *)

\* A MainScreen, or a sign-in screen, lies over a first MainScreen.
Founded == \E k \in 1..Len(routes) : routes[k].page \in {"main", "other"}
BaseInv == Founded => routes[1].page = "main"

\* Unless retries overlapped there is one at most, and its sheet, which is not the first screen.
NavInv == "overlapped" \notin excuse =>
  /\ 1 \in 1..Len(routes) /\ routes[1].page # "sheet"
  /\ \A g, h \in Handlers : handler[g].kind = "retry" /\ handler[h].kind = "retry" => g = h
  /\ (\E h \in Handlers : handler[h].kind = "retry") => \E k \in 1..Len(routes) : routes[k].page = "sheet"

\* While there is no connection there is a sheet, and a second one when a retry can be told
\* of a connection.
OffInv == excuse = {} /\ ~online =>
  /\ \E k \in 1..Len(routes) : routes[k].page = "sheet"
  /\ (\E h \in Handlers : handler[h].kind = "retry" /\ TRUE \in handler[h].seen) =>
       \E k, l \in 1..Len(routes) : k # l /\ routes[k].page = "sheet" /\ routes[l].page = "sheet"

ShellInv == ShellTyped /\ BaseInv /\ NavInv /\ OffInv

\* What a step that takes no route, and begins no retry, leaves.
Grown ==
  /\ routes' \in Seq(Routes) /\ Kept
  /\ \A k \in 1..Len(routes') : k \in 1..Len(routes) \/ (routes'[k].page \in {"main", "other"} => Founded)
  /\ handler' \in [Handlers -> HandlerT] /\ RetriesKept
  /\ excuse' = excuse /\ online' = online

LEMMA OpeningGrows ==
  ASSUME ShellTyped, NEW p \in {"main", "other"}, NEW q \in {"main", "other"}, Shows(p), Open(q)
  PROVE  Grown
  <1>1. routes # <<>> /\ routes[Len(routes)].page = p
    BY DEF Shows, Visible
  <1>2. Len(routes) \in 1..Len(routes)
    BY <1>1, FrontProperties DEF ShellTyped
  <1>3. routes' \in Seq(Routes) /\ Kept
    BY OpenedRoute DEF Open
  <1>4. Founded
    BY <1>1, <1>2 DEF Founded
  <1> QED
    BY <1>3, <1>4 DEF Grown, Open, ShellTyped, RetriesKept

LEMMA UnchangedGrows ==
  ASSUME ShellTyped, routes' = routes, handler' = handler, excuse' = excuse, online' = online
  PROVE  Grown
  BY DEF Grown, ShellTyped, Kept, RetriesKept

LEMMA VideoArrivesGrows ==
  ASSUME ShellTyped, NEW h \in Handlers, NEW found \in BOOLEAN, VideoArrives(h, found)
  PROVE  Grown
  <1>1. handler' = Ended(h) /\ excuse' = excuse /\ online' = online
    BY DEF VideoArrives
  <1>2. handler' \in [Handlers -> HandlerT] /\ RetriesKept
    BY <1>1, EndedHandler DEF RetriesKept
  <1>3. CASE routes' = routes
    BY <1>1, <1>2, <1>3 DEF Grown, ShellTyped, Kept
  <1>4. CASE routes' = Append(routes, Plain("content"))
    <2>1. routes' \in Seq(Routes) /\ Kept
          /\ \A k \in 1..Len(routes') : k \in 1..Len(routes) \/ routes'[k].page = "content"
      BY <1>4, OpenedRoute
    <2> QED
      BY <1>1, <1>2, <2>1 DEF Grown
  <1>5. routes' = routes \/ routes' = Append(routes, Plain("content"))
    BY DEF VideoArrives
  <1> QED
    BY <1>3, <1>4, <1>5

LEMMA LinksGrow ==
  ASSUME ShellTyped, ArticleLink \/ VideoLink
  PROVE  Grown
  <1>1. CASE ArticleLink
    <2>1. routes' \in Seq(Routes) /\ Kept
          /\ \A k \in 1..Len(routes') : k \in 1..Len(routes) \/ routes'[k].page = "content"
      BY <1>1, LinkedRoutes
    <2>2. handler' = handler /\ excuse' = excuse /\ online' = online
      BY <1>1 DEF ArticleLink
    <2> QED
      BY <2>1, <2>2 DEF Grown, ShellTyped, RetriesKept
  <1>2. CASE VideoLink
    <2>1. handler' \in [Handlers -> HandlerT] /\ RetriesKept
      BY <1>2, VideoLinkHandlers DEF RetriesKept
    <2>2. routes' = routes /\ excuse' = excuse /\ online' = online
      BY <1>2 DEF VideoLink
    <2> QED
      BY <2>1, <2>2 DEF Grown, ShellTyped, Kept
  <1> QED
    BY <1>1, <1>2

LEMMA DisposalGrows ==
  ASSUME ShellTyped, DisposeMain
  PROVE  Grown
  <1>1. handler' \in [Handlers -> HandlerT] /\ RetriesKept
    BY DisposedHandlers
  <1> QED
    BY <1>1 DEF Grown, ShellTyped, Kept, DisposeMain

-----------------------------------------------------------------------------
(* The steps.                                                              *)

LEMMA GrownKeeps ==
  ASSUME ShellInv, Grown
  PROVE  ShellInv'
  <1>1. ShellTyped'
    BY DEF ShellInv, ShellTyped, Grown
  <1>2. \A k \in 1..Len(routes) : k \in 1..Len(routes') /\ routes'[k] = routes[k]
    BY DEF Grown, Kept
  <1>3. \A h \in Handlers : handler'[h].kind = "retry" => /\ handler[h].kind = "retry"
                                                          /\ handler'[h].seen = handler[h].seen
    BY DEF Grown, RetriesKept
  <1>4. BaseInv'
    <2>1. SUFFICES ASSUME Founded' PROVE routes'[1].page = "main"
      BY DEF BaseInv
    <2>2. Founded
      BY <2>1, <1>2 DEF Founded, Grown
    <2>3. 1 \in 1..Len(routes) /\ routes[1].page = "main"
      BY <2>2 DEF Founded, BaseInv, ShellInv, ShellTyped
    <2> QED
      BY <2>3, <1>2
  <1>5. NavInv'
    <2>1. SUFFICES ASSUME "overlapped" \notin excuse
          PROVE  /\ 1 \in 1..Len(routes') /\ routes'[1].page # "sheet"
                 /\ \A g, h \in Handlers : handler'[g].kind = "retry" /\ handler'[h].kind = "retry" => g = h
                 /\ (\E h \in Handlers : handler'[h].kind = "retry") =>
                      \E k \in 1..Len(routes') : routes'[k].page = "sheet"
      BY DEF NavInv, Grown
    <2>2. /\ 1 \in 1..Len(routes) /\ routes[1].page # "sheet"
          /\ \A g, h \in Handlers : handler[g].kind = "retry" /\ handler[h].kind = "retry" => g = h
          /\ (\E h \in Handlers : handler[h].kind = "retry") => \E k \in 1..Len(routes) : routes[k].page = "sheet"
      BY <2>1 DEF NavInv, ShellInv
    <2> QED
      BY <2>2, <1>2, <1>3
  <1>6. OffInv'
    <2>1. SUFFICES ASSUME excuse = {}, ~online
          PROVE  /\ \E k \in 1..Len(routes') : routes'[k].page = "sheet"
                 /\ (\E h \in Handlers : handler'[h].kind = "retry" /\ TRUE \in handler'[h].seen) =>
                      \E k, l \in 1..Len(routes') : k # l /\ routes'[k].page = "sheet" /\ routes'[l].page = "sheet"
      BY DEF OffInv, Grown
    <2>2. /\ \E k \in 1..Len(routes) : routes[k].page = "sheet"
          /\ (\E h \in Handlers : handler[h].kind = "retry" /\ TRUE \in handler[h].seen) =>
               \E k, l \in 1..Len(routes) : k # l /\ routes[k].page = "sheet" /\ routes[l].page = "sheet"
      BY <2>1 DEF OffInv, ShellInv
    <2> QED
      BY <2>2, <1>2, <1>3
  <1> QED
    BY <1>1, <1>4, <1>5, <1>6 DEF ShellInv

\* A pop, whoever asked for it, leaves the first MainScreen the first.
LEMMA PopKeepsBase ==
  ASSUME ShellTyped, BaseInv, routes # <<>>, NEW hs \in [Handlers -> HandlerT], Pop(hs)
  PROVE  BaseInv'
  <1>1. /\ Len(routes) \in Nat \ {0} /\ Len(routes') = Len(routes) - 1
        /\ \A k \in 1..Len(routes) - 1 : routes'[k] = routes[k]
    BY Popped
  <1>2. SUFFICES ASSUME NEW k \in 1..Len(routes'), routes'[k].page \in {"main", "other"}
        PROVE  routes'[1].page = "main"
    BY DEF BaseInv, Founded
  <1>3. k \in 1..Len(routes) /\ k \in 1..Len(routes) - 1 /\ 1 \in 1..Len(routes) - 1
    BY <1>1
  <1>4. routes[1].page = "main"
    BY <1>1, <1>2, <1>3 DEF BaseInv, Founded
  <1> QED
    BY <1>1, <1>3, <1>4

LEMMA GoBackKeeps ==
  ASSUME ShellInv, GoBack
  PROVE  ShellInv'
  <1>1. ShellTyped /\ Len(routes) > 1 /\ Pop(handler) /\ handler \in [Handlers -> HandlerT] /\ online' = online
    BY DEF ShellInv, ShellTyped, GoBack
  <1>2. routes # <<>>
    BY <1>1, EmptySeq
  <1>3. /\ routes' \in Seq(Routes)
        /\ Len(routes) \in Nat \ {0} /\ Len(routes') = Len(routes) - 1
        /\ \A k \in 1..Len(routes) - 1 : routes'[k] = routes[k]
        /\ handler' \in [Handlers -> HandlerT]
        /\ \A h \in Handlers : handler'[h].kind = handler[h].kind /\ handler'[h].seen = handler[h].seen
    BY <1>1, <1>2, Popped
  <1>4. ShellTyped' /\ BaseInv'
    BY <1>1, <1>2, <1>3, PopKeepsBase DEF ShellTyped, ShellInv
  <1>5. \A k \in 1..Len(routes) : k = Len(routes) \/ k \in 1..Len(routes')
    BY <1>3
  <1>6. excuse \subseteq excuse'
        /\ (routes[Len(routes)].page = "sheet" /\ (\E h \in Handlers : handler[h].kind = "retry")
              => "overlapped" \in excuse')
        /\ (routes[Len(routes)].page = "sheet" /\ ~online => "dismissed" \in excuse')
    BY <1>2 DEF GoBack, Shows, Visible, Of
  <1>7. NavInv'
    <2>1. SUFFICES ASSUME "overlapped" \notin excuse'
          PROVE  /\ 1 \in 1..Len(routes') /\ routes'[1].page # "sheet"
                 /\ \A g, h \in Handlers : handler'[g].kind = "retry" /\ handler'[h].kind = "retry" => g = h
                 /\ (\E h \in Handlers : handler'[h].kind = "retry") =>
                      \E k \in 1..Len(routes') : routes'[k].page = "sheet"
      BY DEF NavInv
    <2>2. /\ routes[1].page # "sheet"
          /\ \A g, h \in Handlers : handler[g].kind = "retry" /\ handler[h].kind = "retry" => g = h
          /\ (\E h \in Handlers : handler[h].kind = "retry") => \E k \in 1..Len(routes) : routes[k].page = "sheet"
      BY <2>1, <1>6 DEF NavInv, ShellInv
    <2>3. 1 \in 1..Len(routes') /\ 1 \in 1..Len(routes) - 1
      BY <1>1, <1>3
    <2>4. ASSUME NEW h \in Handlers, handler[h].kind = "retry"
          PROVE  \E k \in 1..Len(routes') : routes'[k].page = "sheet"
      <3>1. PICK k \in 1..Len(routes) : routes[k].page = "sheet"
        BY <2>2, <2>4
      <3>2. k # Len(routes)
        BY <2>1, <2>4, <3>1, <1>6
      <3> QED
        BY <3>1, <3>2, <1>3, <1>5
    <2> QED
      BY <2>2, <2>3, <2>4, <1>3
  <1>8. OffInv'
    <2>1. SUFFICES ASSUME excuse' = {}, ~online
          PROVE  /\ \E k \in 1..Len(routes') : routes'[k].page = "sheet"
                 /\ (\E h \in Handlers : handler'[h].kind = "retry" /\ TRUE \in handler'[h].seen) =>
                      \E k, l \in 1..Len(routes') : k # l /\ routes'[k].page = "sheet" /\ routes'[l].page = "sheet"
      BY <1>1 DEF OffInv
    <2>2. /\ \E k \in 1..Len(routes) : routes[k].page = "sheet"
          /\ (\E h \in Handlers : handler[h].kind = "retry" /\ TRUE \in handler[h].seen) =>
               \E k, l \in 1..Len(routes) : k # l /\ routes[k].page = "sheet" /\ routes[l].page = "sheet"
      BY <2>1, <1>6 DEF OffInv, ShellInv
    <2>3. \A k \in 1..Len(routes) : routes[k].page = "sheet" => k \in 1..Len(routes') /\ routes'[k].page = "sheet"
      <3>1. routes[Len(routes)].page # "sheet"
        BY <2>1, <1>6
      <3> QED
        BY <3>1, <1>3, <1>5
    <2> QED
      BY <2>2, <2>3, <1>3
  <1> QED
    BY <1>4, <1>7, <1>8 DEF ShellInv

LEMMA ConnectionLostKeeps ==
  ASSUME ShellInv, ConnectionLost
  PROVE  ShellInv'
  <1>1. ShellTyped /\ online' = FALSE /\ Noticed(FALSE)
        /\ excuse' = IF Deaf THEN excuse \cup {"deaf"} ELSE excuse
    BY DEF ShellInv, ConnectionLost
  <1>2. /\ routes' \in Seq(Routes)
        /\ \A k \in 1..Len(routes) : k \in 1..Len(routes') /\ routes'[k] = routes[k]
        /\ \A k \in 1..Len(routes') : k \in 1..Len(routes) \/ routes'[k].page = "sheet"
        /\ ~Deaf => \E k \in 1..Len(routes') : k \notin 1..Len(routes) /\ routes'[k].page = "sheet"
    BY <1>1, LostRoutes DEF Kept
  <1>3. /\ handler' \in [Handlers -> HandlerT]
        /\ \A h \in Handlers : handler'[h].kind = handler[h].kind
    BY <1>1, NoticedHandlers
  <1>4. ShellTyped'
    BY <1>1, <1>2, <1>3 DEF ShellTyped
  <1>5. BaseInv'
    <2>1. SUFFICES ASSUME NEW k \in 1..Len(routes'), routes'[k].page \in {"main", "other"}
          PROVE  routes'[1].page = "main"
      BY DEF BaseInv, Founded
    <2>2. k \in 1..Len(routes) /\ 1 \in 1..Len(routes)
      BY <2>1, <1>1, <1>2 DEF ShellTyped
    <2>3. routes[1].page = "main"
      BY <2>1, <2>2, <1>2 DEF BaseInv, Founded, ShellInv
    <2> QED
      BY <2>2, <2>3, <1>2
  <1>6. NavInv'
    <2>1. SUFFICES ASSUME "overlapped" \notin excuse'
          PROVE  /\ 1 \in 1..Len(routes') /\ routes'[1].page # "sheet"
                 /\ \A g, h \in Handlers : handler'[g].kind = "retry" /\ handler'[h].kind = "retry" => g = h
                 /\ (\E h \in Handlers : handler'[h].kind = "retry") =>
                      \E k \in 1..Len(routes') : routes'[k].page = "sheet"
      BY DEF NavInv
    <2>2. "overlapped" \notin excuse
      BY <2>1, <1>1
    <2>3. /\ 1 \in 1..Len(routes) /\ routes[1].page # "sheet"
          /\ \A g, h \in Handlers : handler[g].kind = "retry" /\ handler[h].kind = "retry" => g = h
          /\ (\E h \in Handlers : handler[h].kind = "retry") => \E k \in 1..Len(routes) : routes[k].page = "sheet"
      BY <2>2 DEF NavInv, ShellInv
    <2> QED
      BY <2>3, <1>2, <1>3
  <1>7. OffInv'
    <2>1. SUFFICES ASSUME excuse' = {}
          PROVE  /\ \E k \in 1..Len(routes') : routes'[k].page = "sheet"
                 /\ (\E h \in Handlers : handler'[h].kind = "retry" /\ TRUE \in handler'[h].seen) =>
                      \E k, l \in 1..Len(routes') : k # l /\ routes'[k].page = "sheet" /\ routes'[l].page = "sheet"
      BY DEF OffInv
    <2>2. excuse = {} /\ ~Deaf
      BY <2>1, <1>1
    <2>3. PICK k \in 1..Len(routes') : k \notin 1..Len(routes) /\ routes'[k].page = "sheet"
      BY <2>2, <1>2
    <2>4. ASSUME NEW h \in Handlers, handler'[h].kind = "retry"
          PROVE  \E l \in 1..Len(routes') : l # k /\ routes'[l].page = "sheet"
      <3>1. \E l \in 1..Len(routes) : routes[l].page = "sheet"
        BY <2>2, <2>4, <1>3 DEF NavInv, ShellInv
      <3> QED
        BY <3>1, <2>3, <1>2
    <2> QED
      BY <2>3, <2>4
  <1> QED
    BY <1>4, <1>5, <1>6, <1>7 DEF ShellInv

\* With nothing under way and a MainScreen that listens, what was excused is over.
LEMMA ConnectionBackKeeps ==
  ASSUME ShellInv, ConnectionBack
  PROVE  ShellInv'
  <1>1. ShellTyped /\ online' = TRUE /\ Noticed(TRUE) /\ routes' = routes
        /\ excuse' = IF Of("retry") = {} /\ Mains # {} THEN {} ELSE excuse \ {"dismissed", "deaf"}
    BY DEF ShellInv, ConnectionBack
  <1>2. /\ handler' \in [Handlers -> HandlerT]
        /\ \A h \in Handlers : handler'[h].kind = handler[h].kind
    BY <1>1, NoticedHandlers
  <1>3. ShellTyped' /\ BaseInv' /\ OffInv'
    BY <1>1, <1>2 DEF ShellTyped, BaseInv, Founded, OffInv, ShellInv
  <1>4. CASE Of("retry") = {} /\ Mains # {}
    <2>1. 1 \in 1..Len(routes) /\ routes[1].page = "main"
      BY <1>1, <1>4 DEF Mains, ShellTyped, BaseInv, Founded, ShellInv
    <2>2. \A h \in Handlers : handler'[h].kind # "retry"
      BY <1>2, <1>4 DEF Of
    <2> QED
      BY <2>1, <2>2, <1>1, <1>3 DEF NavInv, ShellInv
  <1>5. CASE ~(Of("retry") = {} /\ Mains # {})
    <2>1. "overlapped" \in excuse => "overlapped" \in excuse'
      BY <1>1, <1>5
    <2>2. NavInv'
      BY <2>1, <1>1, <1>2 DEF NavInv, ShellInv
    <2> QED
      BY <2>2, <1>3 DEF ShellInv
  <1> QED
    BY <1>4, <1>5

LEMMA TryAgainKeeps ==
  ASSUME ShellInv, NEW h \in Handlers, TryAgain(h)
  PROVE  ShellInv'
  <1>1. ShellTyped /\ routes' = routes /\ online' = online
        /\ excuse' = IF Of("retry") = {} THEN excuse ELSE excuse \cup {"overlapped"}
    BY DEF ShellInv, TryAgain
  <1>2. /\ handler' \in [Handlers -> HandlerT]
        /\ handler'[h].seen = {online}
        /\ \A g \in Handlers : g # h => handler'[g] = handler[g]
        /\ Len(routes) \in 1..Len(routes) /\ routes[Len(routes)].page = "sheet"
    BY <1>1, TryAgainHandlers
  <1>3. ShellTyped' /\ BaseInv'
    BY <1>1, <1>2 DEF ShellTyped, BaseInv, Founded, ShellInv
  <1>4. ASSUME "overlapped" \notin excuse'
        PROVE  "overlapped" \notin excuse /\ excuse' = excuse /\ \A g \in Handlers : g # h => handler'[g].kind # "retry"
    BY <1>1, <1>2, <1>4 DEF Of
  <1>5. NavInv'
    <2>1. SUFFICES ASSUME "overlapped" \notin excuse'
          PROVE  /\ 1 \in 1..Len(routes) /\ routes[1].page # "sheet"
                 /\ \A g, k \in Handlers : handler'[g].kind = "retry" /\ handler'[k].kind = "retry" => g = k
                 /\ \E k \in 1..Len(routes) : routes[k].page = "sheet"
      BY <1>1 DEF NavInv
    <2> QED
      BY <2>1, <1>2, <1>4 DEF NavInv, ShellInv
  <1>6. OffInv'
    <2>1. SUFFICES ASSUME excuse' = {}, ~online
          PROVE  /\ \E k \in 1..Len(routes) : routes[k].page = "sheet"
                 /\ \A g \in Handlers : handler'[g].kind = "retry" => TRUE \notin handler'[g].seen
      BY <1>1 DEF OffInv
    <2>2. TRUE \notin {online}
      BY <2>1, <1>1 DEF ShellTyped
    <2> QED
      BY <2>1, <2>2, <1>2, <1>4
  <1> QED
    BY <1>3, <1>5, <1>6 DEF ShellInv

\* A retry that is alone pops a sheet, or leaves one beneath what it pops.
LEMMA RetriedKeeps ==
  ASSUME ShellInv, NEW h \in Handlers, NEW connected \in BOOLEAN, Retried(h, connected)
  PROVE  ShellInv'
  <1>1. ShellTyped /\ handler[h].kind = "retry" /\ connected \in handler[h].seen
        /\ online' = online /\ excuse' = excuse
    BY DEF ShellInv, Retried
  <1>2. /\ Ended(h) \in [Handlers -> HandlerT]
        /\ Ended(h)[h].kind = "none"
        /\ \A g \in Handlers : g # h => Ended(h)[g] = handler[g]
    BY <1>1, EndedHandler
  <1>3. CASE routes' = routes /\ handler' = Ended(h)
    <2>1. Grown
      BY <1>1, <1>2, <1>3 DEF Grown, ShellTyped, Kept, RetriesKept
    <2> QED
      BY <2>1, GrownKeeps
  <1>4. CASE connected /\ routes # <<>> /\ Pop(Ended(h))
    <2>1. /\ routes' \in Seq(Routes)
          /\ Len(routes) \in Nat \ {0} /\ Len(routes') = Len(routes) - 1
          /\ \A k \in 1..Len(routes) - 1 : routes'[k] = routes[k]
          /\ handler' \in [Handlers -> HandlerT]
          /\ \A g \in Handlers : handler'[g].kind = Ended(h)[g].kind
      BY <1>1, <1>2, <1>4, Popped
    <2>2. ShellTyped' /\ BaseInv'
      BY <1>1, <1>2, <1>4, <2>1, PopKeepsBase DEF ShellTyped, ShellInv
    <2>3. ASSUME "overlapped" \notin excuse
          PROVE  /\ 1 \in 1..Len(routes') /\ routes'[1].page # "sheet"
                 /\ \A g \in Handlers : handler'[g].kind # "retry"
      <3>1. /\ 1 \in 1..Len(routes) /\ routes[1].page # "sheet"
            /\ \A g \in Handlers : handler[g].kind = "retry" => g = h
            /\ \E k \in 1..Len(routes) : routes[k].page = "sheet"
        BY <2>3, <1>1 DEF NavInv, ShellInv
      <3>2. PICK k \in 1..Len(routes) : k # 1
        BY <3>1
      <3>3. 1 \in 1..Len(routes') /\ 1 \in 1..Len(routes) - 1
        BY <3>2, <2>1
      <3> QED
        BY <3>1, <3>3, <2>1, <1>2
    <2>4. NavInv'
      BY <2>3, <1>1 DEF NavInv
    <2>5. ASSUME excuse = {}, ~online
          PROVE  \E k \in 1..Len(routes') : routes'[k].page = "sheet"
      <3>1. connected = TRUE
        BY <1>4
      <3>2. \E k, l \in 1..Len(routes) : k # l /\ routes[k].page = "sheet" /\ routes[l].page = "sheet"
        BY <2>5, <3>1, <1>1 DEF OffInv, ShellInv
      <3>3. PICK k \in 1..Len(routes) : k # Len(routes) /\ routes[k].page = "sheet"
        BY <3>2
      <3>4. k \in 1..Len(routes') /\ k \in 1..Len(routes) - 1
        BY <3>3, <2>1
      <3> QED
        BY <3>3, <3>4, <2>1
    <2>6. OffInv'
      BY <2>3, <2>5, <1>1 DEF OffInv
    <2> QED
      BY <2>2, <2>4, <2>6 DEF ShellInv
  <1>5. \/ routes' = routes /\ handler' = Ended(h)
        \/ connected /\ routes # <<>> /\ Pop(Ended(h))
    BY DEF Retried
  <1> QED
    BY <1>3, <1>4, <1>5

-----------------------------------------------------------------------------
(* The theorems.                                                           *)

LEMMA ShellInvInit == ShellInit => ShellInv
  <1>1. SUFFICES ASSUME ShellInit PROVE ShellInv
    OBVIOUS
  <1>2. Plain("main") \in Routes /\ Plain("main").page = "main"
    BY DEF Plain, Routes
  <1>3. routes \in Seq(Routes) /\ Len(routes) = 1 /\ routes[1].page = "main"
    BY <1>1, <1>2 DEF ShellInit
  <1>4. NoHandler \in HandlerT /\ NoHandler.kind = "none"
    BY DEF NoHandler, HandlerT
  <1>5. handler \in [Handlers -> HandlerT] /\ \A h \in Handlers : handler[h].kind = "none"
    BY <1>1, <1>4 DEF ShellInit
  <1>6. excuse = IF online THEN {} ELSE {"deaf"}
    BY <1>1 DEF ShellInit
  <1>7. online \in BOOLEAN
    BY <1>1 DEF ShellInit
  <1>8. ShellTyped /\ BaseInv
    BY <1>3, <1>5, <1>7 DEF ShellTyped, BaseInv, Founded
  <1>9. NavInv
    BY <1>3, <1>5 DEF NavInv
  <1>10. OffInv
    BY <1>6 DEF OffInv
  <1> QED
    BY <1>8, <1>9, <1>10 DEF ShellInv

LEMMA ShellInvStep == ShellInv /\ [ShellNext]_shellVars => ShellInv'
  <1>1. SUFFICES ASSUME ShellInv, [ShellNext]_shellVars PROVE ShellInv'
    OBVIOUS
  <1>2. ShellTyped
    BY <1>1 DEF ShellInv
  <1>3. CASE GoBack
    BY <1>1, <1>3, GoBackKeeps
  <1>4. CASE DisposeMain
    BY <1>1, <1>2, <1>4, DisposalGrows, GrownKeeps
  <1>5. CASE LeaveMain
    BY <1>1, <1>2, <1>5, OpeningGrows, GrownKeeps DEF LeaveMain
  <1>6. CASE LogInAgain
    BY <1>1, <1>2, <1>6, OpeningGrows, GrownKeeps DEF LogInAgain
  <1>7. CASE ConnectionLost
    BY <1>1, <1>7, ConnectionLostKeeps
  <1>8. CASE ConnectionBack
    BY <1>1, <1>8, ConnectionBackKeeps
  <1>9. CASE ArticleLink \/ VideoLink
    BY <1>1, <1>2, <1>9, LinksGrow, GrownKeeps
  <1>10. ASSUME NEW h \in Handlers, TryAgain(h) PROVE ShellInv'
    BY <1>1, <1>10, TryAgainKeeps
  <1>11. ASSUME NEW h \in Handlers, NEW yes \in BOOLEAN, Retried(h, yes) PROVE ShellInv'
    BY <1>1, <1>11, RetriedKeeps
  <1>12. ASSUME NEW h \in Handlers, NEW yes \in BOOLEAN, VideoArrives(h, yes) PROVE ShellInv'
    BY <1>1, <1>2, <1>12, VideoArrivesGrows, GrownKeeps
  <1>13. CASE UNCHANGED shellVars
    <2>1. routes' = routes /\ handler' = handler /\ excuse' = excuse /\ online' = online
      BY <1>13 DEF shellVars
    <2> QED
      BY <2>1, <1>1, <1>2, UnchangedGrows, GrownKeeps
  <1> QED
    BY <1>1, <1>3, <1>4, <1>5, <1>6, <1>7, <1>8, <1>9, <1>10, <1>11, <1>12, <1>13 DEF ShellNext

LEMMA ShellInvariant == ShellSpec => []ShellInv
  BY ShellInvInit, ShellInvStep, PTL DEF ShellSpec

\* With any number of links and losses, Try again (main_screen.dart:76) pops the last screen
\* only when retries overlapped, or their sheet was closed by hand.
THEOREM ShellKeepsAScreen == ShellSpec => []NavigatorKeepsAScreen
  <1>1. ShellInv => NavigatorKeepsAScreen
    <2>1. SUFFICES ASSUME ShellInv, routes = <<>>, "overlapped" \notin excuse PROVE FALSE
      BY DEF NavigatorKeepsAScreen
    <2>2. 1 \in 1..Len(routes) /\ Len(routes) = 0
      BY <2>1, EmptySeq DEF ShellInv, NavInv
    <2> QED
      BY <2>2
  <1> QED
    BY <1>1, ShellInvariant, PTL

\* A device without a connection shows a sheet, whatever the retries under way are told.
THEOREM ShellSaysItIsOffline == ShellSpec => []OfflineIsShown
  <1>1. ShellInv => OfflineIsShown
    BY DEF ShellInv, OffInv, ShellTyped, OfflineIsShown
  <1> QED
    BY <1>1, ShellInvariant, PTL

-----------------------------------------------------------------------------
\* A retry and a video link test whether they are mounted before they touch the context, and an
\* article link does not (main_screen.dart:72, 90 and 100).
THEOREM ShellDeadOnlyByLinks == ShellSpec => []LateUseOnlyByLinks
  <1>1. ShellInit => LateUseOnlyByLinks
    BY DEF ShellInit, LateUseOnlyByLinks
  <1>2. LateUseOnlyByLinks /\ [ShellNext]_shellVars => LateUseOnlyByLinks'
    <2> SUFFICES ASSUME LateUseOnlyByLinks, [ShellNext]_shellVars PROVE LateUseOnlyByLinks'
      OBVIOUS
    <2>1. CASE GoBack \/ DisposeMain \/ LeaveMain \/ LogInAgain
      BY <2>1 DEF GoBack, DisposeMain, LeaveMain, LogInAgain, Open, LateUseOnlyByLinks
    <2>2. CASE ConnectionLost \/ ConnectionBack
      BY <2>2 DEF ConnectionLost, ConnectionBack, LateUseOnlyByLinks
    <2>3. CASE ArticleLink
      BY <2>3 DEF ArticleLink, LateUseOnlyByLinks
    <2>4. CASE VideoLink
      BY <2>4 DEF VideoLink, LateUseOnlyByLinks
    <2>5. ASSUME NEW h \in Handlers, TryAgain(h) PROVE LateUseOnlyByLinks'
      BY <2>5 DEF TryAgain, LateUseOnlyByLinks
    <2>6. ASSUME NEW h \in Handlers, NEW yes \in BOOLEAN, Retried(h, yes) PROVE LateUseOnlyByLinks'
      BY <2>6 DEF Retried, Mounted, Uses, LateUseOnlyByLinks
    <2>7. ASSUME NEW h \in Handlers, NEW yes \in BOOLEAN, VideoArrives(h, yes) PROVE LateUseOnlyByLinks'
      BY <2>7 DEF VideoArrives, Mounted, Uses, LateUseOnlyByLinks
    <2>8. CASE UNCHANGED shellVars
      BY <2>8 DEF shellVars, LateUseOnlyByLinks
    <2> QED
      BY <2>1, <2>2, <2>3, <2>4, <2>5, <2>6, <2>7, <2>8 DEF ShellNext
  <1> QED
    BY <1>1, <1>2, PTL DEF ShellSpec

-----------------------------------------------------------------------------
(* HomeFeed and Settings.                                                  *)

\* The calls of FeedAnswered, noted as overtaken and without the one that is answered.
LEMMA OvertookCalls ==
  ASSUME FeedTypeOK, NEW n \in DOMAIN feedCalls
  PROVE  /\ Overtook(n) \in Seq(FeedCall)
         /\ Len(Overtook(n)) = Len(feedCalls) - 1
         /\ \A k \in 1..Len(feedCalls) - 1 :
              IF k < n THEN Overtook(n)[k] = [feedCalls[k] EXCEPT !.late = TRUE]
              ELSE Overtook(n)[k] = feedCalls[k + 1]
  <1> DEFINE q == [m \in DOMAIN feedCalls |->
                     IF m < n THEN [feedCalls[m] EXCEPT !.late = TRUE] ELSE feedCalls[m]]
  <1>1. feedCalls \in Seq(FeedCall) /\ Len(feedCalls) \in Nat /\ DOMAIN feedCalls = 1..Len(feedCalls)
    BY DEF FeedTypeOK
  <1>2. \A m \in DOMAIN feedCalls : feedCalls[m] \in FeedCall
    BY <1>1
  <1>3. \A c \in FeedCall : [c EXCEPT !.late = TRUE] \in FeedCall
    BY DEF FeedCall
  <1>4. \A m \in DOMAIN feedCalls : q[m] \in FeedCall
    BY <1>2, <1>3
  <1>5. q \in Seq(FeedCall) /\ Len(q) = Len(feedCalls)
    <2>1. q \in [1..Len(feedCalls) -> FeedCall]
      BY <1>1, <1>4
    <2> QED
      BY <2>1, <1>1, SeqDef
  <1>6. Overtook(n) = RemoveAt(q, n)
    BY DEF Overtook
  <1>7. ASSUME NEW k \in 1..Len(feedCalls) - 1
        PROVE  /\ k < n => q[k] = [feedCalls[k] EXCEPT !.late = TRUE]
               /\ ~(k < n) => q[k + 1] = feedCalls[k + 1]
    <2>1. k \in DOMAIN feedCalls /\ k + 1 \in DOMAIN feedCalls /\ n \in Nat
      BY <1>1
    <2>2. k < n => q[k] = [feedCalls[k] EXCEPT !.late = TRUE]
      BY <2>1, Zenon
    <2>3. ~(k < n) => ~(k + 1 < n)
      BY <2>1, <1>1
    <2>4. ~(k + 1 < n) => q[k + 1] = feedCalls[k + 1]
      BY <2>1, Zenon
    <2> QED
      BY <2>2, <2>3, <2>4
  <1> HIDE DEF q
  <1>8. /\ RemoveAt(q, n) \in Seq(FeedCall) /\ Len(RemoveAt(q, n)) = Len(q) - 1
        /\ \A k \in 1..Len(q) - 1 : RemoveAt(q, n)[k] = IF k < n THEN q[k] ELSE q[k + 1]
    BY <1>1, <1>5, RemoveAtProperties
  <1> QED
    BY <1>5, <1>6, <1>7, <1>8

\* The calls of FeedAnswered when nothing is overtaken.
LEMMA RemovedCalls ==
  ASSUME FeedTypeOK, NEW n \in DOMAIN feedCalls
  PROVE  /\ RemoveAt(feedCalls, n) \in Seq(FeedCall)
         /\ Len(RemoveAt(feedCalls, n)) = Len(feedCalls) - 1
         /\ \A k \in 1..Len(feedCalls) - 1 :
              RemoveAt(feedCalls, n)[k] = IF k < n THEN feedCalls[k] ELSE feedCalls[k + 1]
BY RemoveAtProperties, SMTT(30) DEF FeedTypeOK

\* The variables of HomeFeed keep their types, whatever chips are tapped and fetches answered.
THEOREM FeedTypeCorrect == FeedSpec => []FeedTypeOK
  <1>1. FeedInit => FeedTypeOK
    <2>1. <<>> \in Seq(FeedCall) /\ Len(<<>>) = 0
      BY EmptySeq
    <2> SUFFICES ASSUME FeedInit PROVE FeedTypeOK
      OBVIOUS
    <2>2. Len(feedCalls) <= MaxFeed
      BY <2>1, FeedAssumption DEF FeedInit
    <2> QED
      BY <2>1, <2>2, FeedAssumption DEF FeedInit, FeedTypeOK
  <1>2. FeedTypeOK /\ [FeedNext]_feedVars => FeedTypeOK'
    <2> SUFFICES ASSUME FeedTypeOK, [FeedNext]_feedVars PROVE FeedTypeOK'
      OBVIOUS
    <2>1. CASE OpenHome
      <3>1. <<[of |-> FirstChip, late |-> FALSE]>> \in Seq(FeedCall)
            /\ Len(<<[of |-> FirstChip, late |-> FALSE]>>) = 1
        BY FeedAssumption DEF FeedCall
      <3>2. feedCalls' \in Seq(FeedCall) /\ Len(feedCalls') <= MaxFeed
        BY <2>1, <3>1, FeedAssumption DEF OpenHome
      <3> QED
        BY <2>1, <3>2, FeedAssumption DEF OpenHome, FeedTypeOK
    <2>2. CASE LeaveHome
      <3>1. <<>> \in Seq(FeedCall) /\ Len(<<>>) = 0
        BY EmptySeq
      <3>2. feedCalls' \in Seq(FeedCall) /\ Len(feedCalls') <= MaxFeed
        BY <2>2, <3>1, FeedAssumption DEF LeaveHome
      <3> QED
        BY <2>2, <3>2 DEF LeaveHome, FeedTypeOK
    <2>3. ASSUME NEW c \in Chips, TapChip(c) PROVE FeedTypeOK'
      <3>1. Request(c) \in FeedCall
        BY DEF Request, FeedCall
      <3>2. feedCalls' \in Seq(FeedCall) /\ Len(feedCalls') = Len(feedCalls) + 1
        BY <2>3, <3>1, AppendProperties DEF TapChip, FeedTypeOK
      <3> QED
        BY <2>3, <3>2, FeedAssumption DEF TapChip, FeedTypeOK
    <2>4. ASSUME NEW n \in DOMAIN feedCalls, NEW got \in FeedOutcomes, FeedAnswered(n, got)
          PROVE  FeedTypeOK'
      <3>1. feedCalls' \in Seq(FeedCall) /\ Len(feedCalls') = Len(feedCalls) - 1
        BY <2>4, OvertookCalls, RemovedCalls DEF FeedAnswered
      <3>2. feedCalls[n].of \in Chips /\ feedCalls[n].late \in BOOLEAN
        <4>1. feedCalls[n] \in FeedCall
          BY DEF FeedTypeOK
        <4> QED
          BY <4>1 DEF FeedCall
      <3>3. Len(feedCalls') <= MaxFeed
        BY <3>1, FeedAssumption DEF FeedTypeOK
      <3> QED
        BY <2>4, <3>1, <3>2, <3>3 DEF FeedAnswered, FeedTypeOK
    <2>5. CASE UNCHANGED feedVars
      BY <2>5 DEF feedVars, FeedTypeOK
    <2> QED
      BY <2>1, <2>2, <2>3, <2>4, <2>5 DEF FeedNext
  <1> QED
    BY <1>1, <1>2, PTL DEF FeedSpec

\* While the newest fetch is unanswered it is the last in the queue and asks for the selected
\* chip; once it brought articles, every other fetch is late, and the articles are its own
\* unless a late one has come since.
NewestFetch ==
  mounted =>
    /\ answered = "pending" => /\ feedCalls # <<>>
                               /\ feedCalls[Len(feedCalls)].of = selected
                               /\ ~feedCalls[Len(feedCalls)].late
    /\ answered = "some" => /\ \A k \in 1..Len(feedCalls) : feedCalls[k].late
                            /\ ~overtaken => feed = selected

\* An answer to fetch n leaves the newest fetch where it was, or is its answer.
LEMMA AnswerKeepsNewest ==
  ASSUME FeedTypeOK, NewestFetch, NEW n \in DOMAIN feedCalls, NEW got \in FeedOutcomes,
         FeedAnswered(n, got)
  PROVE  NewestFetch'
  <1> SUFFICES ASSUME mounted
               PROVE  /\ answered' = "pending" => /\ feedCalls' # <<>>
                                                  /\ feedCalls'[Len(feedCalls')].of = selected
                                                  /\ ~feedCalls'[Len(feedCalls')].late
                      /\ answered' = "some" => /\ \A k \in 1..Len(feedCalls') : feedCalls'[k].late
                                               /\ ~overtaken' => feed' = selected
    BY DEF NewestFetch, FeedAnswered
  <1>1. /\ Len(feedCalls) \in Nat /\ n \in 1..Len(feedCalls)
        /\ \A k \in 1..Len(feedCalls) : feedCalls[k] \in FeedCall
    BY DEF FeedTypeOK
  <1>2. /\ feedCalls' \in Seq(FeedCall)
        /\ Len(feedCalls') = Len(feedCalls) - 1
        /\ \A k \in 1..Len(feedCalls) - 1 : k >= n => feedCalls'[k] = feedCalls[k + 1]
    <2>0. \A k \in 1..Len(feedCalls) - 1 : k >= n => ~(k < n)
      BY <1>1
    <2>1. CASE got = "some"
      <3>1. feedCalls' = Overtook(n)
        BY <2>1 DEF FeedAnswered
      <3> QED
        BY <3>1, <2>0, OvertookCalls
    <2>2. CASE got # "some"
      <3>1. feedCalls' = RemoveAt(feedCalls, n)
        BY <2>2 DEF FeedAnswered
      <3> QED
        BY <3>1, <2>0, RemovedCalls
    <2> QED
      BY <2>1, <2>2
  <1>3. CASE answered = "pending" /\ n = Len(feedCalls) /\ got = "some"
    <2>1. answered' = "some" /\ feed' = selected
      BY <1>3 DEF FeedAnswered, NewestFetch
    <2>2. ASSUME NEW k \in 1..Len(feedCalls') PROVE feedCalls'[k].late
      <3>1. k \in 1..Len(feedCalls) - 1 /\ k < n
        BY <1>1, <1>2, <1>3
      <3>2. feedCalls'[k] = [feedCalls[k] EXCEPT !.late = TRUE]
        BY <3>1, <1>3, OvertookCalls DEF FeedAnswered
      <3>3. feedCalls[k] \in FeedCall
        BY <3>1, <1>1
      <3> QED
        BY <3>2, <3>3 DEF FeedCall
    <2> QED
      BY <2>1, <2>2
  <1>4. CASE answered = "pending" /\ n = Len(feedCalls) /\ got # "some"
    BY <1>4 DEF FeedAnswered, FeedOutcomes
  <1>5. CASE answered = "pending" /\ n # Len(feedCalls)
    <2>1. answered' = "pending"
      BY <1>5 DEF FeedAnswered
    <2>2. /\ Len(feedCalls') \in 1..Len(feedCalls) - 1 /\ Len(feedCalls') >= n
          /\ Len(feedCalls') + 1 = Len(feedCalls)
      BY <1>1, <1>2, <1>5
    <2>3. feedCalls'[Len(feedCalls')] = feedCalls[Len(feedCalls)]
      BY <2>2, <1>2
    <2>4. feedCalls' # <<>>
      BY <2>2, EmptySeq
    <2> QED
      BY <2>1, <2>3, <2>4, <1>5 DEF NewestFetch
  <1>6. CASE answered = "some"
    <2>1. answered' = "some"
      BY <1>6 DEF FeedAnswered
    <2>2. \A k \in 1..Len(feedCalls) : feedCalls[k].late
      BY <1>6 DEF NewestFetch
    <2>3. ASSUME NEW k \in 1..Len(feedCalls') PROVE feedCalls'[k].late
      <3>1. /\ k \in 1..Len(feedCalls) - 1 /\ k \in 1..Len(feedCalls) /\ k + 1 \in 1..Len(feedCalls)
            /\ k < n \/ k >= n
        BY <1>1, <1>2
      <3>2. CASE k >= n
        BY <3>1, <3>2, <1>2, <2>2
      <3>3. CASE k < n /\ got = "some"
        <4>1. feedCalls'[k] = [feedCalls[k] EXCEPT !.late = TRUE]
          BY <3>1, <3>3, OvertookCalls DEF FeedAnswered
        <4>2. feedCalls[k] \in FeedCall
          BY <3>1, <1>1
        <4> QED
          BY <4>1, <4>2 DEF FeedCall
      <3>4. CASE k < n /\ got # "some"
        <4>1. feedCalls'[k] = feedCalls[k]
          BY <3>1, <3>4, RemovedCalls DEF FeedAnswered
        <4> QED
          BY <4>1, <3>1, <2>2
      <3> QED
        BY <3>1, <3>2, <3>3, <3>4
    <2>4. ~overtaken' => feed' = selected
      BY <1>6, <1>1, <2>2 DEF FeedAnswered, NewestFetch
    <2> QED
      BY <2>1, <2>3, <2>4
  <1>7. CASE answered \notin {"pending", "some"}
    BY <1>7 DEF FeedAnswered
  <1> QED
    BY <1>3, <1>4, <1>5, <1>6, <1>7

\* Once every fetch is answered and the newest brought articles, they are of the chip that is
\* highlighted, unless an older answer came after a newer one: for any number of chips tapped in a row.
THEOREM FeedIsOfItsChip == FeedSpec => []FeedMatchesChip
  <1>1. FeedInit => NewestFetch
    BY DEF FeedInit, NewestFetch
  <1>2. FeedTypeOK /\ NewestFetch /\ [FeedNext]_feedVars => NewestFetch'
    <2> SUFFICES ASSUME FeedTypeOK, NewestFetch, [FeedNext]_feedVars PROVE NewestFetch'
      OBVIOUS
    <2>1. CASE OpenHome
      <3> DEFINE first == [of |-> FirstChip, late |-> FALSE]
      <3>1. <<first>> # <<>> /\ Len(<<first>>) = 1 /\ <<first>>[1] = first
        OBVIOUS
      <3>2. first.of = FirstChip /\ first.late = FALSE
        OBVIOUS
      <3>3. feedCalls' = <<first>> /\ selected' = FirstChip /\ answered' = "pending"
        BY <2>1 DEF OpenHome
      <3> QED
        BY <3>1, <3>2, <3>3 DEF NewestFetch
    <2>2. CASE LeaveHome
      BY <2>2 DEF LeaveHome, NewestFetch
    <2>3. ASSUME NEW c \in Chips, TapChip(c) PROVE NewestFetch'
      <3>1. Request(c) \in FeedCall /\ Request(c).of = c /\ ~Request(c).late
        BY DEF Request, FeedCall
      <3>2. /\ feedCalls' = Append(feedCalls, Request(c)) /\ feedCalls \in Seq(FeedCall)
            /\ selected' = c /\ answered' = "pending"
        BY <2>3 DEF TapChip, FeedTypeOK
      <3>3. feedCalls' # <<>> /\ feedCalls'[Len(feedCalls')] = Request(c)
        BY <3>1, <3>2
      <3> QED
        BY <3>1, <3>2, <3>3 DEF NewestFetch
    <2>4. ASSUME NEW n \in DOMAIN feedCalls, NEW got \in FeedOutcomes, FeedAnswered(n, got)
          PROVE  NewestFetch'
      BY <2>4, AnswerKeepsNewest
    <2>5. CASE UNCHANGED feedVars
      BY <2>5 DEF feedVars, NewestFetch
    <2> QED
      BY <2>1, <2>2, <2>3, <2>4, <2>5 DEF FeedNext
  <1>3. NewestFetch => FeedMatchesChip
    BY DEF NewestFetch, FeedMatchesChip
  <1> QED
    BY <1>1, <1>2, <1>3, FeedTypeCorrect, PTL DEF FeedSpec

-----------------------------------------------------------------------------
(* The news, and the language of the profile.                              *)

\* A build leaves every call where it was, none of them heard, and adds one that is.
LEMMA RebuiltCalls ==
  ASSUME NEW calls \in Seq(NewsCall), newsLoaded \in BOOLEAN, locale' \in Languages
  PROVE  /\ Rebuilt(calls) \in Seq(NewsCall)
         /\ Len(Rebuilt(calls)) = Len(calls) + (IF newsLoaded THEN 1 ELSE 0)
         /\ \A k \in 1..Len(Rebuilt(calls)) :
              \/ /\ k \in 1..Len(calls)
                 /\ Rebuilt(calls)[k].of = calls[k].of
                 /\ Rebuilt(calls)[k].role = IF calls[k].role = "heard" THEN "unheard" ELSE calls[k].role
              \/ k = Len(calls) + 1 /\ Rebuilt(calls)[k] = [of |-> locale', role |-> "heard"]
  <1> DEFINE a == [n \in DOMAIN calls |-> [calls[n] EXCEPT !.role = IF @ = "heard" THEN "unheard" ELSE @]]
             b == IF newsLoaded THEN <<[of |-> locale', role |-> "heard"]>> ELSE <<>>
             fresh == [of |-> locale', role |-> "heard"]
  <1>1. /\ Len(calls) \in Nat /\ DOMAIN calls = 1..Len(calls)
        /\ \A n \in 1..Len(calls) : calls[n] \in NewsCall
    OBVIOUS
  <1>2. ASSUME NEW c \in NewsCall
        PROVE  LET d == [c EXCEPT !.role = IF @ = "heard" THEN "unheard" ELSE @] IN
               d \in NewsCall /\ d.of = c.of /\ d.role = IF c.role = "heard" THEN "unheard" ELSE c.role
    BY DEF NewsCall
  <1>3. \A n \in 1..Len(calls) : /\ a[n] \in NewsCall /\ a[n].of = calls[n].of
                                 /\ a[n].role = IF calls[n].role = "heard" THEN "unheard" ELSE calls[n].role
    BY <1>1, <1>2
  <1>4. a \in Seq(NewsCall) /\ Len(a) = Len(calls)
    <2>1. a \in [1..Len(calls) -> NewsCall]
      BY <1>1, <1>3
    <2> QED
      BY <2>1, <1>1, SeqDef
  <1>5. fresh \in NewsCall
    BY DEF NewsCall
  <1>6. /\ b \in Seq(NewsCall) /\ Len(b) = IF newsLoaded THEN 1 ELSE 0
        /\ newsLoaded => b[1] = fresh
    <2>1. CASE newsLoaded
      BY <2>1, <1>5
    <2>2. CASE ~newsLoaded
      BY <2>2, EmptySeq
    <2> QED
      BY <2>1, <2>2
  <1>7. Rebuilt(calls) = a \o b
    BY DEF Rebuilt
  <1> HIDE DEF a, b
  <1>8. /\ a \o b \in Seq(NewsCall) /\ Len(a \o b) = Len(a) + Len(b)
        /\ \A k \in 1..Len(a) + Len(b) : (a \o b)[k] = IF k <= Len(a) THEN a[k] ELSE b[k - Len(a)]
    <2>1. a \in Seq(NewsCall) /\ b \in Seq(NewsCall)
      BY <1>4, <1>6
    <2> QED
      BY <2>1, ConcatProperties, Zenon
  <1>9. ASSUME NEW k \in 1..Len(a) + Len(b)
        PROVE  \/ k \in 1..Len(calls) /\ (a \o b)[k] = a[k]
               \/ k = Len(calls) + 1 /\ (a \o b)[k] = fresh
    <2>1. CASE k <= Len(calls)
      BY <2>1, <1>1, <1>4, <1>8
    <2>2. CASE ~(k <= Len(calls))
      <3>1. newsLoaded /\ k = Len(calls) + 1 /\ k - Len(a) = 1
        BY <2>2, <1>1, <1>4, <1>6
      <3> QED
        BY <3>1, <2>2, <1>4, <1>6, <1>8
    <2> QED
      BY <2>1, <2>2
  <1> QED
    BY <1>3, <1>4, <1>6, <1>7, <1>8, <1>9

\* The updates once number n is served: those sent before it are late.
LEMMA UpdatesLeft ==
  ASSUME updates \in Seq(Update), NEW n \in DOMAIN updates, Updated(n)
  PROVE  /\ updates' \in Seq(Update)
         /\ Len(updates') = Len(updates) - 1
         /\ \A k \in 1..Len(updates) - 1 :
              IF k < n THEN updates'[k].late /\ updates'[k].of = updates[k].of
              ELSE updates'[k] = updates[k + 1]
  <1> DEFINE q == [m \in DOMAIN updates |-> IF m < n THEN [updates[m] EXCEPT !.late = TRUE] ELSE updates[m]]
  <1>1. Len(updates) \in Nat /\ DOMAIN updates = 1..Len(updates) /\ \A m \in 1..Len(updates) : updates[m] \in Update
    OBVIOUS
  <1>2. \A u \in Update : LET v == [u EXCEPT !.late = TRUE] IN v \in Update /\ v.late /\ v.of = u.of
    BY DEF Update
  <1>3. \A m \in 1..Len(updates) : /\ q[m] \in Update
                                   /\ m < n => q[m].late /\ q[m].of = updates[m].of
                                   /\ ~(m < n) => q[m] = updates[m]
    BY <1>1, <1>2
  <1>4. q \in Seq(Update) /\ Len(q) = Len(updates)
    <2>1. q \in [1..Len(updates) -> Update]
      BY <1>1, <1>3
    <2> QED
      BY <2>1, <1>1, SeqDef
  <1>5. updates' = RemoveAt(q, n)
    BY DEF Updated
  <1> HIDE DEF q
  <1>6. /\ RemoveAt(q, n) \in Seq(Update) /\ Len(RemoveAt(q, n)) = Len(q) - 1
        /\ \A k \in 1..Len(q) - 1 : RemoveAt(q, n)[k] = IF k < n THEN q[k] ELSE q[k + 1]
    BY <1>1, <1>4, RemoveAtProperties
  <1>7. ASSUME NEW k \in 1..Len(updates) - 1
        PROVE  IF k < n THEN updates'[k].late /\ updates'[k].of = updates[k].of
               ELSE updates'[k] = updates[k + 1]
    <2>1. k \in 1..Len(updates) /\ k + 1 \in 1..Len(updates) /\ n \in Nat /\ (k < n \/ ~(k + 1 < n))
      BY <1>1
    <2>2. updates'[k] = IF k < n THEN q[k] ELSE q[k + 1]
      BY <1>4, <1>5, <1>6
    <2>3. CASE k < n
      BY <2>1, <2>2, <2>3, <1>3
    <2>4. CASE ~(k < n)
      BY <2>1, <2>2, <2>4, <1>3
    <2> QED
      BY <2>3, <2>4
  <1> QED
    BY <1>4, <1>5, <1>6, <1>7

\* The types that the arguments below rest on.
CallsTyped ==
  /\ newsLoaded \in BOOLEAN /\ newsCalls \in Seq(NewsCall)
  /\ locale \in Languages /\ stored \in Languages
  /\ updates \in Seq(Update)

LEMMA CallsStayTyped == SettingsSpec => []CallsTyped
  <1>1. SettingsInit => CallsTyped
    <2>1. <<>> \in Seq(NewsCall) /\ <<>> \in Seq(Update)
      BY EmptySeq
    <2> QED
      BY <2>1 DEF SettingsInit, CallsTyped
  <1>2. CallsTyped /\ [SettingsNext]_settingsVars => CallsTyped'
    <2> SUFFICES ASSUME CallsTyped, [SettingsNext]_settingsVars PROVE CallsTyped'
      OBVIOUS
    <2> USE DEF CallsTyped
    <2>1. CASE OpenNews
      <3> DEFINE first == [of |-> locale, role |-> "unheard"]
      <3>1. first \in NewsCall
        BY DEF NewsCall
      <3>2. Append(newsCalls, first) \in Seq(NewsCall)
        BY <3>1, AppendProperties
      <3>3. newsCalls' = Rebuilt(Append(newsCalls, first)) /\ locale' = locale
        BY <2>1 DEF OpenNews, Build, languageVars
      <3>4. newsCalls' \in Seq(NewsCall)
        BY <3>2, <3>3, RebuiltCalls
      <3> QED
        BY <2>1, <3>4 DEF OpenNews, languageVars
    <2>2. CASE LeaveNews
      <3>1. \A n \in 1..Len(newsCalls) : newsCalls[n] \in NewsCall
        OBVIOUS
      <3>2. \A c \in NewsCall : [c EXCEPT !.role = "orphan"] \in NewsCall
        BY DEF NewsCall
      <3>3. newsCalls' \in [1..Len(newsCalls) -> NewsCall] /\ Len(newsCalls) \in Nat
        BY <2>2, <3>1, <3>2 DEF LeaveNews
      <3>4. newsCalls' \in Seq(NewsCall)
        BY <3>3, SeqDef
      <3> QED
        BY <2>2, <3>4 DEF LeaveNews, languageVars
    <2>3. CASE TapTheme
      <3>1. newsCalls' = Rebuilt(newsCalls) /\ locale' = locale
        BY <2>3 DEF TapTheme, Build, languageVars
      <3> QED
        BY <2>3, <3>1, RebuiltCalls DEF TapTheme, languageVars
    <2>4. CASE Flush
      BY <2>4 DEF Flush, newsVars
    <2>5. CASE Die
      <3>1. <<>> \in Seq(NewsCall)
        BY EmptySeq
      <3> QED
        BY <2>5, <3>1 DEF Die
    <2>6. ASSUME NEW n \in DOMAIN newsCalls, NEW got \in NewsOutcomes, NewsAnswered(n, got)
          PROVE  CallsTyped'
      <3>1. newsCalls' \in Seq(NewsCall)
        BY <2>6, RemoveAtProperties DEF NewsAnswered
      <3> QED
        BY <2>6, <3>1 DEF NewsAnswered, languageVars
    <2>7. ASSUME NEW l \in Languages, NEW guest \in BOOLEAN, TapLanguage(l, guest)
          PROVE  CallsTyped'
      <3>1. [of |-> l, late |-> FALSE] \in Update
        BY DEF Update
      <3>2. updates' \in Seq(Update)
        BY <2>7, <3>1, AppendProperties DEF TapLanguage, Told
      <3>3. newsCalls' \in Seq(NewsCall)
        BY <2>7, RebuiltCalls DEF TapLanguage, Build
      <3> QED
        BY <2>7, <3>2, <3>3 DEF TapLanguage
    <2>8. ASSUME NEW n \in DOMAIN updates, Updated(n) \/ UpdateLost(n)
          PROVE  CallsTyped'
      <3>1. updates' \in Seq(Update)
        <4>1. CASE UpdateLost(n)
          BY <4>1, RemoveAtProperties DEF UpdateLost
        <4>2. CASE Updated(n)
          BY <4>2, UpdatesLeft DEF Updated
        <4> QED
          BY <2>8, <4>1, <4>2
      <3> QED
        BY <2>8, <3>1 DEF Updated, UpdateLost, newsVars
    <2>9. CASE UNCHANGED settingsVars
      BY <2>9 DEF settingsVars, newsVars, languageVars
    <2> QED
      BY <2>1, <2>2, <2>3, <2>4, <2>5, <2>6, <2>7, <2>8, <2>9 DEF SettingsNext
  <1> QED
    BY <1>1, <1>2, PTL DEF SettingsSpec

-----------------------------------------------------------------------------
(* The news.                                                               *)

\* Without a home tab nobody waits for the calls under way.  With one, the call that is heard
\* is in the app's language, and nothing is drawn meanwhile; and as long as the
\* language did not change under a call, every call that writes to the list is.
NewsInv ==
  /\ \A k \in 1..Len(newsCalls) :
       /\ ~home => newsCalls[k].role = "orphan"
       /\ newsCalls[k].role = "heard" => newsCalls[k].of = locale
       /\ ~switched /\ newsCalls[k].role # "orphan" => newsCalls[k].of = locale
  /\ NewsInLanguage

\* A build establishes it, whatever the calls of the former language were.
LEMMA BuildEstablishes ==
  ASSUME NEW calls \in Seq(NewsCall), newsLoaded \in BOOLEAN, locale' \in Languages,
         Nothing \notin Languages, Build(calls), home',
         \A k \in 1..Len(calls) : ~switched' /\ calls[k].role # "orphan" => calls[k].of = locale'
  PROVE  NewsInv'
  <1>1. newsCalls' = Rebuilt(calls) /\ drawn' = Nothing
    BY DEF Build
  <1>2. ASSUME NEW k \in 1..Len(newsCalls')
        PROVE  /\ newsCalls'[k].role = "heard" => newsCalls'[k].of = locale'
               /\ ~switched' /\ newsCalls'[k].role # "orphan" => newsCalls'[k].of = locale'
    <2>1. CASE /\ k \in 1..Len(calls) /\ newsCalls'[k].of = calls[k].of
               /\ newsCalls'[k].role = IF calls[k].role = "heard" THEN "unheard" ELSE calls[k].role
      BY <2>1
    <2>2. CASE newsCalls'[k] = [of |-> locale', role |-> "heard"]
      BY <2>2
    <2> QED
      BY <1>1, <2>1, <2>2, RebuiltCalls
  <1> QED
    BY <1>1, <1>2 DEF NewsInv, NewsInLanguage

\* An answer that arrives, in whatever order, keeps it.
LEMMA AnswerKeepsNews ==
  ASSUME CallsTyped, NewsInv, NEW n \in DOMAIN newsCalls, NEW got \in NewsOutcomes, NewsAnswered(n, got)
  PROVE  NewsInv'
  <1>1. n \in 1..Len(newsCalls) /\ newsCalls[n] \in NewsCall
    BY DEF CallsTyped
  <1>2. newsCalls' = RemoveAt(newsCalls, n) /\ UNCHANGED <<home, switched, locale>>
    BY DEF NewsAnswered, languageVars
  <1>3. ASSUME NEW k \in 1..Len(newsCalls')
        PROVE  /\ ~home => newsCalls'[k].role = "orphan"
               /\ newsCalls'[k].role = "heard" => newsCalls'[k].of = locale
               /\ ~switched /\ newsCalls'[k].role # "orphan" => newsCalls'[k].of = locale
    <2>1. PICK j \in 1..Len(newsCalls) : newsCalls'[k] = newsCalls[j]
      BY <1>1, <1>2, RemoveAtSubset DEF CallsTyped
    <2> QED
      BY <2>1 DEF NewsInv
  <1>4. NewsInLanguage'
    <2> SUFFICES ASSUME home, drawn' # Nothing
                 PROVE  drawn' = locale /\ (switched \/ ~newsLoaded' \/ listed' = drawn')
      BY <1>2 DEF NewsInLanguage
    <2> DEFINE c == newsCalls[n]
    <2>1. CASE c.role = "heard"
      <3>1. drawn' = c.of /\ got = "some" /\ listed' = c.of
        BY <2>1, <1>1 DEF NewsAnswered
      <3> QED
        BY <3>1, <2>1, <1>1 DEF NewsInv
    <2>2. CASE c.role # "heard"
      <3>1. drawn' = drawn /\ drawn = locale /\ (switched \/ ~newsLoaded \/ listed = drawn)
        BY <2>2 DEF NewsAnswered, NewsInv, NewsInLanguage
      <3>2. CASE got = "none" \/ ~newsLoaded
        BY <3>1, <3>2 DEF NewsAnswered
      <3>3. CASE got = "some" /\ c.role # "orphan"
        BY <3>1, <3>3, <1>1 DEF NewsAnswered, NewsInv
      <3>4. CASE got = "failed" \/ c.role = "orphan"
        BY <3>1, <3>4 DEF NewsAnswered
      <3> QED
        BY <3>2, <3>3, <3>4 DEF NewsOutcomes
    <2> QED
      BY <2>1, <2>2
  <1> QED
    BY <1>2, <1>3, <1>4 DEF NewsInv

\* What is drawn is in the app's language, and so are the cards that scroll into view, for
\* any number of fetches, builds and languages.
THEOREM NewsFollowLanguage == SettingsSpec => []NewsInLanguage
  <1>1. SettingsInit => NewsInv
    <2>1. Len(<<>>) = 0
      BY EmptySeq
    <2>2. \A k \in 1..0 : FALSE
      OBVIOUS
    <2> SUFFICES ASSUME SettingsInit PROVE NewsInv
      OBVIOUS
    <2>3. 1..Len(newsCalls) = 1..0
      BY <2>1 DEF SettingsInit
    <2> QED
      BY <2>2, <2>3 DEF SettingsInit, NewsInv, NewsInLanguage
  <1>2. CallsTyped /\ NewsInv /\ [SettingsNext]_settingsVars => NewsInv'
    <2> SUFFICES ASSUME CallsTyped, NewsInv, [SettingsNext]_settingsVars PROVE NewsInv'
      OBVIOUS
    <2>0. Nothing \notin Languages /\ newsLoaded \in BOOLEAN /\ newsCalls \in Seq(NewsCall)
          /\ locale \in Languages /\ Len(newsCalls) \in Nat
      BY SettingsAssumption DEF CallsTyped
    <2>1. CASE OpenNews
      <3> DEFINE first == [of |-> locale, role |-> "unheard"]
                 calls == Append(newsCalls, first)
      <3>1. /\ first \in NewsCall
            /\ calls \in Seq(NewsCall) /\ Len(calls) = Len(newsCalls) + 1
            /\ calls[Len(newsCalls) + 1] = first
            /\ \A k \in 1..Len(newsCalls) : calls[k] = newsCalls[k]
        BY <2>0, AppendProperties DEF NewsCall
      <3>2. home' /\ locale' = locale /\ ~home
        BY <2>1 DEF OpenNews, languageVars
      <3>3. Build(calls)
        BY <2>1 DEF OpenNews
      <3> HIDE DEF calls
      <3>4. ASSUME NEW k \in 1..Len(calls), calls[k].role # "orphan" PROVE calls[k].of = locale'
        <4>1. CASE k \in 1..Len(newsCalls)
          BY <4>1, <3>1, <3>2, <3>4 DEF NewsInv
        <4>2. CASE k = Len(newsCalls) + 1
          BY <4>2, <3>1, <3>2
        <4> QED
          BY <4>1, <4>2, <3>1, <2>0
      <3> QED
        BY <2>0, <3>1, <3>2, <3>3, <3>4, BuildEstablishes
    <2>2. CASE LeaveNews
      <3>1. /\ ~home' /\ Len(newsCalls') = Len(newsCalls)
            /\ \A k \in 1..Len(newsCalls) : newsCalls'[k] = [newsCalls[k] EXCEPT !.role = "orphan"]
        BY <2>2, <2>0 DEF LeaveNews
      <3>2. \A k \in 1..Len(newsCalls) : newsCalls[k] \in NewsCall
        BY <2>0
      <3>3. \A c \in NewsCall : [c EXCEPT !.role = "orphan"].role = "orphan"
        BY DEF NewsCall
      <3>4. ASSUME NEW k \in 1..Len(newsCalls') PROVE newsCalls'[k].role = "orphan"
        <4>1. k \in 1..Len(newsCalls)
          BY <3>1
        <4>2. newsCalls[k] \in NewsCall /\ newsCalls'[k] = [newsCalls[k] EXCEPT !.role = "orphan"]
          BY <4>1, <3>1, <3>2
        <4> QED
          BY <4>2, <3>3
      <3> QED
        BY <3>1, <3>4 DEF NewsInv, NewsInLanguage
    <2>3. CASE TapTheme
      <3>1. home' /\ locale' = locale /\ switched' = switched /\ Build(newsCalls)
        BY <2>3 DEF TapTheme, languageVars
      <3>2. \A k \in 1..Len(newsCalls) : ~switched' /\ newsCalls[k].role # "orphan" => newsCalls[k].of = locale'
        BY <3>1 DEF NewsInv
      <3> QED
        BY <2>0, <3>1, <3>2, BuildEstablishes
    <2>4. CASE Flush
      BY <2>4 DEF Flush, newsVars, NewsInv, NewsInLanguage
    <2>5. CASE Die
      <3>1. Len(newsCalls') = 0 /\ \A k \in 1..0 : FALSE
        BY <2>5, EmptySeq DEF Die
      <3> QED
        BY <2>5, <3>1 DEF Die, NewsInv, NewsInLanguage
    <2>6. ASSUME NEW n \in DOMAIN newsCalls, NEW got \in NewsOutcomes, NewsAnswered(n, got)
          PROVE  NewsInv'
      BY <2>6, AnswerKeepsNews
    <2>7. ASSUME NEW l \in Languages, NEW guest \in BOOLEAN, TapLanguage(l, guest)
          PROVE  NewsInv'
      <3>1. CASE home /\ l # locale
        <4>1. /\ home' /\ locale' = l /\ Build(newsCalls)
              /\ switched' = (switched \/ \E k \in DOMAIN newsCalls : newsCalls[k].role # "orphan")
          BY <2>7, <3>1 DEF TapLanguage
        <4>2. DOMAIN newsCalls = 1..Len(newsCalls)
          BY <2>0
        <4>3. ASSUME NEW k \in 1..Len(newsCalls), ~switched' PROVE newsCalls[k].role = "orphan"
          BY <4>1, <4>2, <4>3, Zenon
        <4> QED
          BY <2>0, <4>1, <4>3, BuildEstablishes
      <3>2. CASE home /\ l = locale
        BY <2>7, <3>2 DEF TapLanguage, NewsInv, NewsInLanguage
      <3>3. CASE ~home
        BY <2>7, <3>3 DEF TapLanguage, NewsInv, NewsInLanguage
      <3> QED
        BY <3>1, <3>2, <3>3
    <2>8. ASSUME NEW n \in DOMAIN updates, Updated(n) \/ UpdateLost(n)
          PROVE  NewsInv'
      BY <2>8 DEF Updated, UpdateLost, newsVars, NewsInv, NewsInLanguage
    <2>9. CASE UNCHANGED settingsVars
      BY <2>9 DEF settingsVars, newsVars, languageVars, NewsInv, NewsInLanguage
    <2> QED
      BY <2>1, <2>2, <2>3, <2>4, <2>5, <2>6, <2>7, <2>8, <2>9 DEF SettingsNext
  <1>3. NewsInv => NewsInLanguage
    BY DEF NewsInv
  <1> QED
    BY <1>1, <1>2, <1>3, CallsStayTyped, PTL DEF SettingsSpec

-----------------------------------------------------------------------------
(* The profile.                                                            *)

\* As long as nothing set them apart, the profile has the device's language and no call under
\* way is of consequence, or the newest call carries that language.
ProfileInv ==
  ~drifted => \/ profile = locale /\ \A k \in 1..Len(updates) : updates[k].late
              \/ /\ updates # <<>>
                 /\ updates[Len(updates)].of = locale
                 /\ ~updates[Len(updates)].late

LEMMA ServingKeepsProfile ==
  ASSUME CallsTyped, ProfileInv, NEW n \in DOMAIN updates, Updated(n)
  PROVE  ProfileInv'
  <1>1. /\ updates \in Seq(Update) /\ Len(updates) \in Nat /\ n \in 1..Len(updates)
    BY DEF CallsTyped
  <1>2. /\ Len(updates') = Len(updates) - 1
        /\ \A k \in 1..Len(updates) - 1 :
              IF k < n THEN updates'[k].late /\ updates'[k].of = updates[k].of
              ELSE updates'[k] = updates[k + 1]
    BY <1>1, UpdatesLeft
  <1>3. /\ profile' = updates[n].of /\ locale' = locale
        /\ drifted' = (updates[n].late \/ (drifted /\ ~(n = Len(updates) /\ updates[n].of = locale)))
    BY DEF Updated
  <1> SUFFICES ASSUME ~drifted' PROVE ProfileInv'
    BY DEF ProfileInv
  <1>4. ~updates[n].late /\ (drifted => n = Len(updates) /\ updates[n].of = locale)
    BY <1>3
  <1>5. CASE n = Len(updates)
    <2>1. updates[n].of = locale
      BY <1>1, <1>4, <1>5 DEF ProfileInv
    <2>2. \A k \in 1..Len(updates') : updates'[k].late
      BY <1>1, <1>2, <1>5
    <2> QED
      BY <1>3, <2>1, <2>2 DEF ProfileInv
  <1>6. CASE n # Len(updates)
    <2>1. updates[Len(updates)].of = locale /\ ~updates[Len(updates)].late
      BY <1>1, <1>4, <1>6 DEF ProfileInv
    <2>2. /\ Len(updates') \in 1..Len(updates) - 1 /\ ~(Len(updates') < n)
          /\ Len(updates') + 1 = Len(updates)
      BY <1>1, <1>2, <1>6
    <2>3. updates'[Len(updates')] = updates[Len(updates)]
      BY <1>2, <2>2
    <2>4. updates' # <<>>
      BY <2>2, EmptySeq
    <2> QED
      BY <1>3, <2>1, <2>3, <2>4 DEF ProfileInv
  <1> QED
    BY <1>5, <1>6

\* The profile has the device's language when no update is under way, unless one of the
\* causes that the handler does not provide for has set them apart: for any number of languages tapped in a row.
THEOREM ProfileHasLanguage == SettingsSpec => []ProfileFollowsDevice
  <1>1. SettingsInit => ProfileInv
    <2> SUFFICES ASSUME SettingsInit PROVE ProfileInv
      OBVIOUS
    <2>1. Len(updates) = 0 /\ \A k \in 1..0 : FALSE
      BY EmptySeq DEF SettingsInit
    <2> QED
      BY <2>1 DEF SettingsInit, ProfileInv
  <1>2. CallsTyped /\ ProfileInv /\ [SettingsNext]_settingsVars => ProfileInv'
    <2> SUFFICES ASSUME CallsTyped, ProfileInv, [SettingsNext]_settingsVars PROVE ProfileInv'
      OBVIOUS
    <2>1. CASE OpenNews \/ LeaveNews \/ TapTheme \/ Flush
      BY <2>1 DEF OpenNews, LeaveNews, TapTheme, Flush, languageVars, ProfileInv
    <2>2. CASE Die
      BY <2>2 DEF Die, ProfileInv
    <2>3. ASSUME NEW n \in DOMAIN newsCalls, NEW got \in NewsOutcomes, NewsAnswered(n, got)
          PROVE  ProfileInv'
      BY <2>3 DEF NewsAnswered, languageVars, ProfileInv
    <2>4. ASSUME NEW l \in Languages, NEW guest \in BOOLEAN, TapLanguage(l, guest)
          PROVE  ProfileInv'
      <3> DEFINE sent == [of |-> l, late |-> FALSE]
      <3>1. CASE guest
        BY <2>4, <3>1 DEF TapLanguage, ProfileInv
      <3>2. CASE ~guest
        <4>1. updates' = Append(updates, sent) /\ locale' = l /\ updates \in Seq(Update)
          BY <2>4, <3>2 DEF TapLanguage, Told, CallsTyped
        <4>2. sent \in Update /\ sent.of = l /\ ~sent.late
          BY DEF Update
        <4>3. updates' # <<>> /\ updates'[Len(updates')] = sent
          BY <4>1, <4>2
        <4> QED
          BY <4>1, <4>2, <4>3 DEF ProfileInv
      <3> QED
        BY <3>1, <3>2
    <2>5. ASSUME NEW n \in DOMAIN updates, Updated(n) PROVE ProfileInv'
      BY <2>5, ServingKeepsProfile
    <2>6. ASSUME NEW n \in DOMAIN updates, UpdateLost(n) PROVE ProfileInv'
      BY <2>6 DEF UpdateLost, ProfileInv
    <2>7. CASE UNCHANGED settingsVars
      BY <2>7 DEF settingsVars, newsVars, languageVars, ProfileInv
    <2> QED
      BY <2>1, <2>2, <2>3, <2>4, <2>5, <2>6, <2>7 DEF SettingsNext
  <1>3. ProfileInv => ProfileFollowsDevice
    <2> SUFFICES ASSUME ProfileInv, updates = <<>>, ~drifted PROVE profile = locale
      BY DEF ProfileFollowsDevice
    <2> QED
      BY DEF ProfileInv
  <1> QED
    BY <1>1, <1>2, <1>3, CallsStayTyped, PTL DEF SettingsSpec

-----------------------------------------------------------------------------
(* VideoReader.                                                            *)

\* The types that the arguments below rest on.
VideoTyped == /\ videoCalls \in Seq(VideoCall)
              /\ backend \in [Videos -> [Buttons -> BOOLEAN]]
              /\ \A k \in 1..Len(shown) : shown[k].video \in Videos
              /\ shown \in Seq(Video)

-----------------------------------------------------------------------------
(* The queue.                                                              *)

\* Where call k was before call n was taken out, and where call j is afterwards.
Origin(n, k) == IF k < n THEN k ELSE k + 1
Place(n, j)  == IF j < n THEN j ELSE j - 1

LEMMA CallFields ==
  ASSUME NEW c \in VideoCall
  PROVE  /\ c.video \in Videos /\ c.kind \in {"info", "toggle"}
         /\ c.kind = "info" => /\ c.session \in BOOLEAN /\ c.answer \in [Buttons -> BOOLEAN]
                               /\ [c EXCEPT !.late = TRUE] \in VideoCall
                               /\ [c EXCEPT !.late = TRUE].late
                               /\ [c EXCEPT !.late = TRUE].kind = "info"
         /\ c.kind = "toggle" => c.button \in Buttons
  BY DEF VideoCall

LEMMA InfoIsCall ==
  ASSUME NEW v \in Videos, signedIn \in BOOLEAN
  PROVE  /\ Info(v) \in VideoCall
         /\ Info(v).kind = "info" /\ Info(v).video = v /\ ~Info(v).late /\ ~Info(v).served
         /\ Info(v).session = signedIn
  BY DEF Info, VideoCall, Unmarked

LEMMA ToggleIsCall ==
  ASSUME NEW v \in Videos, NEW b \in Buttons
  PROVE  Toggle(v, b) \in VideoCall /\ Toggle(v, b).kind = "toggle" /\ ~Toggle(v, b).served
  BY DEF Toggle, VideoCall

LEMMA LateCalls ==
  ASSUME VideoTyped, NEW S \in SUBSET Infos
  PROVE  /\ Late(S) \in Seq(VideoCall) /\ Len(Late(S)) = Len(videoCalls)
         /\ \A m \in 1..Len(videoCalls) : /\ m \in S => Late(S)[m].kind = "info" /\ Late(S)[m].late
                                          /\ m \notin S => Late(S)[m] = videoCalls[m]
  <1>1. /\ Len(videoCalls) \in Nat /\ DOMAIN videoCalls = 1..Len(videoCalls)
        /\ \A m \in 1..Len(videoCalls) : videoCalls[m] \in VideoCall
    BY DEF VideoTyped
  <1>2. ASSUME NEW m \in 1..Len(videoCalls)
        PROVE  /\ Late(S)[m] \in VideoCall
               /\ m \in S => Late(S)[m].kind = "info" /\ Late(S)[m].late
               /\ m \notin S => Late(S)[m] = videoCalls[m]
    <2>1. Late(S)[m] = IF m \in S THEN [videoCalls[m] EXCEPT !.late = TRUE] ELSE videoCalls[m]
      BY <1>1 DEF Late
    <2>2. m \in S => videoCalls[m].kind = "info"
      BY DEF Infos
    <2> QED
      BY <2>1, <2>2, <1>1, CallFields
  <1>3. Late(S) \in [1..Len(videoCalls) -> VideoCall]
    BY <1>1, <1>2 DEF Late
  <1>4. Late(S) \in Seq(VideoCall) /\ Len(Late(S)) = Len(videoCalls)
    BY <1>1, <1>3, SeqDef
  <1> QED
    BY <1>2, <1>4

\* The calls without number n, those of S being late.
LEMMA TakenOut ==
  ASSUME VideoTyped, NEW S \in SUBSET Infos, NEW n \in DOMAIN videoCalls, NEW q, q = RemoveAt(Late(S), n)
  PROVE  /\ n \in 1..Len(videoCalls) /\ Len(videoCalls) \in Nat
         /\ q \in Seq(VideoCall) /\ Len(q) = Len(videoCalls) - 1
         /\ \A k \in 1..Len(q) : /\ Origin(n, k) \in 1..Len(videoCalls) /\ Origin(n, k) # n
                                 /\ q[k] = Late(S)[Origin(n, k)]
         /\ \A j \in 1..Len(videoCalls) : j # n =>
              /\ Place(n, j) \in 1..Len(q) /\ Origin(n, Place(n, j)) = j
  <1>1. Len(videoCalls) \in Nat /\ n \in 1..Len(videoCalls)
    BY DEF VideoTyped
  <1>2. Late(S) \in Seq(VideoCall) /\ Len(Late(S)) = Len(videoCalls)
    BY LateCalls
  <1>3. /\ q \in Seq(VideoCall) /\ Len(q) = Len(videoCalls) - 1
        /\ \A k \in 1..Len(videoCalls) - 1 : q[k] = IF k < n THEN Late(S)[k] ELSE Late(S)[k + 1]
    BY <1>1, <1>2, RemoveAtProperties
  <1>4. ASSUME NEW k \in 1..Len(q)
        PROVE  /\ Origin(n, k) \in 1..Len(videoCalls) /\ Origin(n, k) # n
    BY <1>1, <1>3 DEF Origin
  <1>5. ASSUME NEW k \in 1..Len(q)
        PROVE  q[k] = Late(S)[Origin(n, k)]
    BY <1>3 DEF Origin
  <1>6. ASSUME NEW j \in 1..Len(videoCalls), j # n
        PROVE  Place(n, j) \in 1..Len(q) /\ Origin(n, Place(n, j)) = j
    BY <1>1, <1>3, <1>6 DEF Origin, Place
  <1> QED
    BY <1>1, <1>3, <1>4, <1>5, <1>6

-----------------------------------------------------------------------------
(* The invariant.                                                          *)

\* What the buttons should show under video v.
Truth(v) == IF signedIn THEN backend[v] ELSE Unmarked

\* Toggle n was served, and its answer will ask for v again.
Owes(n, v) == videoCalls[n].kind = "toggle" /\ videoCalls[n].video = v /\ videoCalls[n].served

\* Info n will bring the truth about v.
Good(n, v) == /\ videoCalls[n].kind = "info" /\ videoCalls[n].video = v /\ ~videoCalls[n].late
              /\ videoCalls[n].session = signedIn
              /\ ~videoCalls[n].served \/ videoCalls[n].answer = Truth(v)

Owed(v)       == \E n \in 1..Len(videoCalls) : Owes(n, v)
Awaited(v, m) == \E n \in 1..Len(videoCalls) : n > m /\ Good(n, v)

\* An info that is not late is true, or something that comes after it will be.
Sound(n) ==
  videoCalls[n].kind = "info" /\ ~videoCalls[n].late =>
    /\ videoCalls[n].session = signedIn
    /\ \/ ~videoCalls[n].served
       \/ videoCalls[n].answer = Truth(videoCalls[n].video)
       \/ Owed(videoCalls[n].video)
       \/ Awaited(videoCalls[n].video, n)

\* And so are the marks that are shown.
MarksSound == settled =>
  \E v \in Videos : OnScreen(v) /\ (marks = Truth(v) \/ Owed(v) \/ Awaited(v, 0))

VideoInv == /\ VideoTyped /\ signedIn \in BOOLEAN
            /\ \A n \in 1..Len(videoCalls) : Sound(n)
            /\ MarksSound

-----------------------------------------------------------------------------
(* What a step leaves of it.                                               *)

\* A call that stays as it is stays sound, if what covers it does.
LEMMA SoundStays ==
  ASSUME NEW j, NEW k, NEW v, v = videoCalls[j].video,
         Sound(j), videoCalls'[k] = videoCalls[j], signedIn' = signedIn,
         Truth(v)' = Truth(v) \/ Owed(v)', Owed(v) => Owed(v)', Awaited(v, j) => Awaited(v, k)'
  PROVE  Sound(k)'
  <1>1. videoCalls'[k].video = v
    OBVIOUS
  <1>2. CASE videoCalls'[k].kind = "info" /\ ~videoCalls'[k].late
    <2>1. /\ videoCalls'[k].session = signedIn
          /\ ~videoCalls'[k].served \/ videoCalls'[k].answer = Truth(v) \/ Owed(v) \/ Awaited(v, j)
      BY <1>2 DEF Sound
    <2>2. ~videoCalls'[k].served \/ videoCalls'[k].answer = Truth(v)' \/ Owed(v)' \/ Awaited(v, k)'
      BY <2>1
    <2> QED
      BY <1>1, <2>1, <2>2 DEF Sound, Truth, Owed, Owes, Awaited, Good
  <1> QED
    BY <1>2 DEF Sound

LEMMA OwedStays ==
  ASSUME NEW v,
         \A j \in 1..Len(videoCalls) : Owes(j, v) =>
           \E k \in 1..Len(videoCalls') : videoCalls'[k] = videoCalls[j]
  PROVE  Owed(v) => Owed(v)'
  BY DEF Owed, Owes

LEMMA AwaitedStays ==
  ASSUME NEW v, NEW lo, NEW hi, signedIn' = signedIn, Truth(v)' = Truth(v),
         \A j \in 1..Len(videoCalls) : j > lo /\ Good(j, v) =>
           \E k \in 1..Len(videoCalls') : k > hi /\ videoCalls'[k] = videoCalls[j]
  PROVE  Awaited(v, lo) => Awaited(v, hi)'
  <1>1. SUFFICES ASSUME NEW j \in 1..Len(videoCalls), j > lo, Good(j, v)
        PROVE  Awaited(v, hi)'
    BY DEF Awaited
  <1>2. PICK k \in 1..Len(videoCalls') : k > hi /\ videoCalls'[k] = videoCalls[j]
    BY <1>1
  <1>3. Good(k, v)'
    <2>1. videoCalls'[k].answer = Truth(v) => videoCalls'[k].answer = Truth(v)'
      OBVIOUS
    <2>2. ~videoCalls'[k].served \/ videoCalls'[k].answer = Truth(v)'
      BY <2>1, <1>1, <1>2 DEF Good
    <2> QED
      BY <2>2, <1>1, <1>2 DEF Good
  <1> QED
    BY <1>2, <1>3 DEF Awaited

\* What covers a video after call n was taken out.
LEMMA CoverStays ==
  ASSUME VideoTyped, signedIn' = signedIn, NEW S \in SUBSET Infos, NEW n \in DOMAIN videoCalls,
         videoCalls' = RemoveAt(Late(S), n),
         NEW v, Truth(v)' = Truth(v), ~Owes(n, v), NEW lo \in Nat,
         \A m \in 1..Len(videoCalls) : m > lo /\ Good(m, v) => m # n /\ m \notin S
  PROVE  /\ Owed(v) => Owed(v)'
         /\ Awaited(v, lo) => Awaited(v, 0)'
         /\ \A k \in Nat : lo = Origin(n, k) => (Awaited(v, lo) => Awaited(v, k)')
  <1>1. /\ n \in 1..Len(videoCalls) /\ Len(videoCalls) \in Nat
        /\ \A j \in 1..Len(videoCalls) : j # n =>
             /\ Place(n, j) \in 1..Len(videoCalls')
             /\ videoCalls'[Place(n, j)] = Late(S)[j]
    BY TakenOut
  <1>2. \A m \in 1..Len(videoCalls) : m \notin S => Late(S)[m] = videoCalls[m]
    BY LateCalls
  <1>3. Owed(v) => Owed(v)'
    <2>1. ASSUME NEW j \in 1..Len(videoCalls), Owes(j, v)
          PROVE  \E k \in 1..Len(videoCalls') : videoCalls'[k] = videoCalls[j]
      <3>1. j # n /\ j \notin S
        BY <2>1 DEF Owes, Infos
      <3> QED
        BY <3>1, <1>1, <1>2
    <2> QED
      BY <2>1, OwedStays
  <1>4. ASSUME NEW j \in 1..Len(videoCalls), j > lo, Good(j, v)
        PROVE  /\ Place(n, j) \in 1..Len(videoCalls') /\ videoCalls'[Place(n, j)] = videoCalls[j]
    BY <1>1, <1>2, <1>4
  <1>5. Awaited(v, lo) => Awaited(v, 0)'
    <2>1. \A j \in 1..Len(videoCalls) : j > lo /\ Good(j, v) =>
            \E k \in 1..Len(videoCalls') : k > 0 /\ videoCalls'[k] = videoCalls[j]
      BY <1>4
    <2> QED
      BY <2>1, AwaitedStays
  <1>6. ASSUME NEW k \in Nat, lo = Origin(n, k)
        PROVE  Awaited(v, lo) => Awaited(v, k)'
    <2>1. ASSUME NEW j \in 1..Len(videoCalls), j > lo, Good(j, v)
          PROVE  \E i \in 1..Len(videoCalls') : i > k /\ videoCalls'[i] = videoCalls[j]
      <3>1. Place(n, j) \in 1..Len(videoCalls') /\ videoCalls'[Place(n, j)] = videoCalls[j]
        BY <2>1, <1>4
      <3>2. Place(n, j) > k
        BY <2>1, <1>1, <1>6 DEF Place, Origin
      <3> QED
        BY <3>1, <3>2
    <2> QED
      BY <2>1, AwaitedStays
  <1> QED
    BY <1>3, <1>5, <1>6

\* The calls that are left are sound, if none of those that are not late depended on what is gone.
LEMMA TakenOutSound ==
  ASSUME VideoTyped, signedIn' = signedIn, backend' = backend,
         \A i \in 1..Len(videoCalls) : Sound(i),
         NEW S \in SUBSET Infos, NEW n \in DOMAIN videoCalls,
         videoCalls' = RemoveAt(Late(S), n),
         \A j \in Infos : j # n /\ j \notin S =>
           /\ ~Owes(n, videoCalls[j].video)
           /\ \A m \in 1..Len(videoCalls) : m > j /\ Good(m, videoCalls[j].video) => m # n /\ m \notin S
  PROVE  videoCalls' \in Seq(VideoCall) /\ \A k \in 1..Len(videoCalls') : Sound(k)'
  <1>1. /\ videoCalls' \in Seq(VideoCall)
        /\ \A k \in 1..Len(videoCalls') : /\ Origin(n, k) \in 1..Len(videoCalls) /\ Origin(n, k) # n
                                          /\ videoCalls'[k] = Late(S)[Origin(n, k)]
    BY TakenOut
  <1>2. ASSUME NEW k \in 1..Len(videoCalls') PROVE Sound(k)'
    <2> DEFINE j == Origin(n, k)
               v == videoCalls[j].video
    <2>1. j \in 1..Len(videoCalls) /\ j # n /\ videoCalls'[k] = Late(S)[j] /\ k \in Nat
      BY <1>1
    <2>2. CASE j \in S
      BY <2>1, <2>2, LateCalls DEF Sound
    <2>3. CASE j \notin S /\ videoCalls[j].kind # "info"
      BY <2>1, <2>3, LateCalls DEF Sound
    <2>4. CASE j \notin S /\ videoCalls[j].kind = "info"
      <3>1. j \in Infos
        BY <2>1, <2>4 DEF Infos, VideoTyped
      <3>2. ~Owes(n, v) /\ \A m \in 1..Len(videoCalls) : m > j /\ Good(m, v) => m # n /\ m \notin S
        BY <2>1, <2>4, <3>1
      <3>3. PICK w : w = v
        OBVIOUS
      <3>4. Truth(w)' = Truth(w)
        BY DEF Truth
      <3>5. j = Origin(n, k) /\ j \in Nat
        BY <2>1
      <3>6. videoCalls'[k] = videoCalls[j] /\ Sound(j)
        BY <2>1, <2>4, LateCalls
      <3> HIDE DEF j, v
      <3>7. (Owed(w) => Owed(w)') /\ (Awaited(w, j) => Awaited(w, k)')
        BY <2>1, <3>2, <3>3, <3>4, <3>5, CoverStays
      <3> USE DEF v
      <3> QED
        BY <3>3, <3>4, <3>6, <3>7, SoundStays
    <2> QED
      BY <2>2, <2>3, <2>4
  <1> QED
    BY <1>1, <1>2

\* Every call stays where it was, and one more may have been sent, which is a toggle or good.
LEMMA SentSound ==
  ASSUME VideoInv, signedIn' = signedIn, backend' = backend, NEW c \in VideoCall,
         videoCalls' = Append(videoCalls, c),
         c.kind = "info" => c.session = signedIn /\ ~c.served
  PROVE  /\ videoCalls' \in Seq(VideoCall) /\ \A k \in 1..Len(videoCalls') : Sound(k)'
         /\ \A v \in Videos : (Owed(v) => Owed(v)') /\ (Awaited(v, 0) => Awaited(v, 0)')
  <1>1. /\ videoCalls' \in Seq(VideoCall) /\ Len(videoCalls) \in Nat /\ Len(videoCalls') = Len(videoCalls) + 1
        /\ videoCalls'[Len(videoCalls) + 1] = c
        /\ \A k \in 1..Len(videoCalls) : k \in 1..Len(videoCalls') /\ videoCalls'[k] = videoCalls[k]
    BY AppendProperties DEF VideoInv, VideoTyped
  <1>2. ASSUME NEW v PROVE Truth(v)' = Truth(v) /\ (Owed(v) => Owed(v)')
    BY <1>1, OwedStays DEF Truth
  <1>3. ASSUME NEW v, NEW m PROVE Awaited(v, m) => Awaited(v, m)'
    <2>1. \A j \in 1..Len(videoCalls) : j > m /\ Good(j, v) =>
            \E k \in 1..Len(videoCalls') : k > m /\ videoCalls'[k] = videoCalls[j]
      BY <1>1
    <2> QED
      BY <2>1, <1>2, AwaitedStays
  <1>4. ASSUME NEW k \in 1..Len(videoCalls') PROVE Sound(k)'
    <2>1. CASE k \in 1..Len(videoCalls)
      <3>1. PICK v : v = videoCalls[k].video
        OBVIOUS
      <3>2. Sound(k) /\ videoCalls'[k] = videoCalls[k]
        BY <2>1, <1>1 DEF VideoInv
      <3> QED
        BY <3>1, <3>2, <1>2, <1>3, SoundStays
    <2>2. CASE k = Len(videoCalls) + 1
      BY <2>2, <1>1 DEF Sound
    <2> QED
      BY <2>1, <2>2, <1>1
  <1> QED
    BY <1>1, <1>2, <1>3, <1>4

LEMMA Appears ==
  ASSUME NEW v \in Videos, NEW page \in {"slide", "screen"}, shown \in Seq(Video),
         \/ shown' = Append(shown, [video |-> v, page |-> page])
         \/ shown # <<>> /\ shown' = [shown EXCEPT ![Len(shown)].video = v]
  PROVE  shown' \in Seq(Video) /\ \A k \in 1..Len(shown') : shown'[k].video \in Videos
  <1>1. \A c \in Video : c.video \in Videos /\ [c EXCEPT !.video = v] \in Video
    BY DEF Video
  <1>2. shown' \in Seq(Video)
    <2>1. CASE shown' = Append(shown, [video |-> v, page |-> page])
      <3>1. [video |-> v, page |-> page] \in Video
        BY DEF Video
      <3> QED
        BY <2>1, <3>1, AppendProperties
    <2>2. CASE shown # <<>> /\ shown' = [shown EXCEPT ![Len(shown)].video = v]
      <3>1. Len(shown) \in Nat /\ DOMAIN shown = 1..Len(shown) /\ shown \in [1..Len(shown) -> Video]
        OBVIOUS
      <3>2. ASSUME NEW k \in 1..Len(shown) PROVE shown'[k] \in Video
        <4>1. shown[k] \in Video
          BY <3>1
        <4>2. shown'[k] = IF k = Len(shown) THEN [shown[k] EXCEPT !.video = v] ELSE shown[k]
          BY <2>2, <3>1
        <4> QED
          BY <4>1, <4>2, <1>1
      <3>3. shown' \in [1..Len(shown) -> Video]
        BY <2>2, <3>1, <3>2
      <3>4. PICK m \in Nat : m = Len(shown)
        BY <3>1
      <3>5. shown' \in [1..m -> Video]
        BY <3>3, <3>4
      <3>6. \A f : f \in [1..m -> Video] => f \in Seq(Video)
        BY SeqDef
      <3> QED
        BY <3>5, <3>6, Zenon
    <2> QED
      BY <2>1, <2>2
  <1>3. \A k \in 1..Len(shown') : shown'[k] \in Video
    BY <1>2, ElementOfSeq
  <1> QED
    BY <1>1, <1>2, <1>3

\* A video, or a slide, is built.
LEMMA BuildingKeeps ==
  ASSUME VideoInv, NEW v \in Videos, Built(v), settled' => settled /\ shown' = shown,
         shown' \in Seq(Video), \A k \in 1..Len(shown') : shown'[k].video \in Videos
  PROVE  VideoInv'
  <1>1. /\ signedIn' = signedIn /\ marks' = marks /\ backend' = backend
        /\ videoCalls' = Append(videoCalls, Info(v))
    BY DEF Built
  <1>2. Info(v) \in VideoCall /\ Info(v).session = signedIn /\ ~Info(v).served
    BY InfoIsCall DEF VideoInv
  <1>3. /\ videoCalls' \in Seq(VideoCall) /\ \A k \in 1..Len(videoCalls') : Sound(k)'
        /\ \A w \in Videos : (Owed(w) => Owed(w)') /\ (Awaited(w, 0) => Awaited(w, 0)')
    BY <1>1, <1>2, SentSound
  <1>4. VideoTyped' /\ (signedIn \in BOOLEAN)'
    BY <1>1, <1>3 DEF VideoTyped, VideoInv
  <1>5. MarksSound'
    <2>1. SUFFICES ASSUME settled' PROVE \E w \in Videos : OnScreen(w)' /\ (marks' = Truth(w)' \/ Owed(w)' \/ Awaited(w, 0)')
      BY DEF MarksSound
    <2>2. settled /\ shown' = shown
      BY <2>1
    <2>3. PICK w \in Videos : OnScreen(w) /\ (marks = Truth(w) \/ Owed(w) \/ Awaited(w, 0))
      BY <2>2 DEF VideoInv, MarksSound
    <2>4. OnScreen(w)' /\ Truth(w)' = Truth(w)
      BY <2>2, <2>3, <1>1 DEF OnScreen, Truth
    <2> QED
      BY <2>3, <2>4, <1>1, <1>3
  <1> QED
    BY <1>3, <1>4, <1>5 DEF VideoInv

LEMMA TapKeeps ==
  ASSUME VideoInv, NEW b \in Buttons, TapButton(b)
  PROVE  VideoInv'
  <1> DEFINE t == Toggle(shown[Len(shown)].video, b)
  <1>1. /\ signedIn' = signedIn /\ marks' = marks /\ backend' = backend /\ shown' = shown /\ settled' = settled
        /\ videoCalls' = Append(videoCalls, t)
    BY DEF TapButton
  <1>2. t \in VideoCall /\ t.kind = "toggle"
    <2>1. shown # <<>> /\ shown \in Seq(Video)
      BY DEF TapButton, VideoInv, VideoTyped
    <2>2. Len(shown) \in 1..Len(shown)
      BY <2>1, EmptySeq
    <2>3. shown[Len(shown)].video \in Videos
      BY <2>2 DEF VideoInv, VideoTyped
    <2> QED
      BY <2>3, ToggleIsCall
  <1> HIDE DEF t
  <1>3. /\ videoCalls' \in Seq(VideoCall) /\ \A k \in 1..Len(videoCalls') : Sound(k)'
        /\ \A w \in Videos : (Owed(w) => Owed(w)') /\ (Awaited(w, 0) => Awaited(w, 0)')
    BY <1>1, <1>2, SentSound
  <1>4. VideoTyped' /\ (signedIn \in BOOLEAN)'
    BY <1>1, <1>3 DEF VideoTyped, VideoInv
  <1>5. MarksSound'
    <2>1. SUFFICES ASSUME settled PROVE \E w \in Videos : OnScreen(w)' /\ (marks' = Truth(w)' \/ Owed(w)' \/ Awaited(w, 0)')
      BY <1>1 DEF MarksSound
    <2>2. PICK w \in Videos : OnScreen(w) /\ (marks = Truth(w) \/ Owed(w) \/ Awaited(w, 0))
      BY <2>1 DEF VideoInv, MarksSound
    <2>3. OnScreen(w)' /\ Truth(w)' = Truth(w)
      BY <2>2, <1>1 DEF OnScreen, Truth
    <2> QED
      BY <2>2, <2>3, <1>1, <1>3
  <1> QED
    BY <1>3, <1>4, <1>5 DEF VideoInv

LEMMA BuiltKeeps ==
  ASSUME VideoInv, NEW v \in Videos,
         \/ \E page \in {"slide", "screen"} : OpenVideo(v, page)
         \/ \E there \in BOOLEAN : Swipe(v, there)
  PROVE  VideoInv'
  <1>1. shown \in Seq(Video) /\ \A k \in 1..Len(shown) : shown[k].video \in Videos
    BY DEF VideoInv, VideoTyped
  <1>2. ASSUME NEW page \in {"slide", "screen"}, OpenVideo(v, page) PROVE VideoInv'
    <2>1. Built(v) /\ ~settled' /\ shown' = Append(shown, [video |-> v, page |-> page])
      BY <1>2 DEF OpenVideo
    <2>2. shown' \in Seq(Video) /\ \A k \in 1..Len(shown') : shown'[k].video \in Videos
      BY <2>1, <1>1, Appears
    <2> QED
      BY <2>1, <2>2, BuildingKeeps
  <1>3. ASSUME NEW there \in BOOLEAN, Swipe(v, there) PROVE VideoInv'
    <2>1. Built(v) /\ (settled' => settled /\ ~there) /\ shown # <<>>
      BY <1>3 DEF Swipe
    <2>2. CASE there
      <3>1. shown' = [shown EXCEPT ![Len(shown)].video = v]
        BY <1>3, <2>2 DEF Swipe
      <3>2. shown' \in Seq(Video) /\ \A k \in 1..Len(shown') : shown'[k].video \in Videos
        BY <3>1, <2>1, <1>1, Appears
      <3> QED
        BY <2>1, <2>2, <3>2, BuildingKeeps
    <2>3. CASE ~there
      <3>1. shown' = shown
        BY <1>3, <2>3 DEF Swipe
      <3> QED
        BY <2>1, <3>1, <1>1, BuildingKeeps
    <2> QED
      BY <2>2, <2>3
  <1> QED
    BY <1>2, <1>3

LEMMA ClosingKeeps ==
  ASSUME VideoInv, CloseVideo
  PROVE  VideoInv'
  <1>1. /\ shown \in Seq(Video) /\ shown # <<>> /\ shown' = Front(shown) /\ ~settled'
        /\ signedIn' = signedIn /\ backend' = backend /\ videoCalls' = videoCalls
        /\ \A k \in 1..Len(shown) : shown[k].video \in Videos
    BY DEF CloseVideo, VideoInv, VideoTyped
  <1>2. shown' \in Seq(Video) /\ \A k \in 1..Len(shown') : shown'[k].video \in Videos
    <2>1. Len(shown) \in Nat /\ Len(shown) >= 1
      BY <1>1, EmptySeq
    <2>2. \A k \in 1..Len(shown) - 1 : shown[k] \in Video
      BY <1>1, <2>1, ElementOfSeq
    <2>3. /\ shown' \in Seq(Video) /\ Len(shown') = IF 1 <= Len(shown) - 1 THEN Len(shown) - 1 - 1 + 1 ELSE 0
          /\ \A k \in 1..Len(shown) - 1 - 1 + 1 : shown'[k] = shown[1 + k - 1]
      BY <1>1, <2>1, <2>2, SubSeqProperties DEF Front
    <2> QED
      BY <1>1, <2>1, <2>3
  <1>3. ASSUME NEW n \in 1..Len(videoCalls') PROVE Sound(n)'
    <2>1. Sound(n)
      BY <1>1 DEF VideoInv
    <2> QED
      BY <2>1, <1>1 DEF Sound, Truth, Owed, Owes, Awaited, Good
  <1>4. VideoTyped' /\ (signedIn \in BOOLEAN)' /\ MarksSound'
    BY <1>1, <1>2 DEF VideoTyped, VideoInv, MarksSound
  <1> QED
    BY <1>3, <1>4 DEF VideoInv

\* Signing in or out leaves every info late.
LEMMA SessionKeeps ==
  ASSUME VideoInv, ChangeSignedIn
  PROVE  VideoInv'
  <1>1. /\ videoCalls' \in Seq(VideoCall) /\ Len(videoCalls') = Len(videoCalls)
        /\ \A m \in 1..Len(videoCalls) : /\ m \in Infos => videoCalls'[m].late
                                         /\ m \notin Infos => videoCalls'[m] = videoCalls[m]
    BY LateCalls DEF VideoInv, ChangeSignedIn
  <1>2. ASSUME NEW n \in 1..Len(videoCalls') PROVE Sound(n)'
    <2>1. n \notin Infos => videoCalls[n].kind # "info"
      BY <1>1 DEF Infos, VideoInv, VideoTyped
    <2> QED
      BY <2>1, <1>1 DEF Sound
  <1>3. VideoTyped' /\ (signedIn \in BOOLEAN)' /\ MarksSound'
    BY <1>1 DEF VideoTyped, VideoInv, MarksSound, ChangeSignedIn
  <1> QED
    BY <1>2, <1>3 DEF VideoInv

-----------------------------------------------------------------------------
(* The backend serves.                                                     *)

\* A toggle that is served owes the marks of its video to whoever shows or awaits them.
LEMMA ServedToggleKeeps ==
  ASSUME VideoInv, NEW n \in DOMAIN videoCalls, ServeToggleOf(n)
  PROVE  VideoInv'
  <1>1. PICK v : v = videoCalls[n].video
    OBVIOUS
  <1>2. /\ videoCalls \in Seq(VideoCall) /\ Len(videoCalls) \in Nat /\ DOMAIN videoCalls = 1..Len(videoCalls)
        /\ videoCalls[n] \in VideoCall /\ videoCalls[n].kind = "toggle" /\ ~videoCalls[n].served
        /\ v \in Videos /\ videoCalls[n].button \in Buttons
    <2>1. /\ videoCalls \in Seq(VideoCall) /\ Len(videoCalls) \in Nat /\ DOMAIN videoCalls = 1..Len(videoCalls)
          /\ videoCalls[n] \in VideoCall
      BY DEF VideoInv, VideoTyped
    <2>2. videoCalls[n].kind = "toggle" /\ ~videoCalls[n].served
      BY DEF ServeToggleOf
    <2> QED
      BY <1>1, <2>1, <2>2, CallFields
  <1>3. /\ signedIn' = signedIn /\ marks' = marks /\ shown' = shown /\ settled' = settled
        /\ backend' = [backend EXCEPT ![v][videoCalls[n].button] = ~@]
        /\ videoCalls' = [videoCalls EXCEPT ![n].served = TRUE]
    BY <1>1 DEF ServeToggleOf
  <1>4. [videoCalls[n] EXCEPT !.served = TRUE] \in VideoCall
    BY <1>2 DEF VideoCall
  <1>5. /\ Len(videoCalls') = Len(videoCalls) /\ videoCalls' \in Seq(VideoCall)
        /\ videoCalls'[n] = [videoCalls[n] EXCEPT !.served = TRUE]
        /\ \A k \in 1..Len(videoCalls) : k # n => videoCalls'[k] = videoCalls[k]
    BY <1>2, <1>3, <1>4, ExceptSeq
  <1>6. videoCalls'[n].kind = "toggle" /\ videoCalls'[n].video = v /\ videoCalls'[n].served
    BY <1>1, <1>2, <1>5 DEF VideoCall
  <1>7. Owed(v)'
    BY <1>2, <1>5, <1>6 DEF Owed, Owes
  <1>8. backend' \in [Videos -> [Buttons -> BOOLEAN]] /\ \A w \in Videos : w # v => backend'[w] = backend[w]
    BY <1>2, <1>3 DEF VideoInv, VideoTyped
  <1>9. ASSUME NEW w \in Videos, w # v
        PROVE  /\ Truth(w)' = Truth(w) /\ (Owed(w) => Owed(w)')
               /\ \A m : Awaited(w, m) => Awaited(w, m)'
    <2>1. Truth(w)' = Truth(w)
      BY <1>3, <1>8, <1>9 DEF Truth
    <2>2. Owed(w) => Owed(w)'
      BY <1>1, <1>2, <1>5, <1>9, OwedStays DEF Owes
    <2>3. ASSUME NEW m PROVE Awaited(w, m) => Awaited(w, m)'
      <3>1. \A j \in 1..Len(videoCalls) : j > m /\ Good(j, w) =>
              \E k \in 1..Len(videoCalls') : k > m /\ videoCalls'[k] = videoCalls[j]
        BY <1>1, <1>5, <1>9 DEF Good
      <3> QED
        BY <3>1, <2>1, <1>3, AwaitedStays
    <2> QED
      BY <2>1, <2>2, <2>3
  <1>10. ASSUME NEW k \in 1..Len(videoCalls') PROVE Sound(k)'
    <2>1. CASE k = n
      BY <2>1, <1>6 DEF Sound
    <2>2. CASE k # n
      <3>1. PICK w : w = videoCalls[k].video
        OBVIOUS
      <3>2. videoCalls'[k] = videoCalls[k] /\ Sound(k)
        BY <2>2, <1>5 DEF VideoInv
      <3>5. w \in Videos
        <4>1. videoCalls[k] \in VideoCall
          BY <1>2, <1>5
        <4> QED
          BY <4>1, <3>1, CallFields
      <3>3. CASE w = v
        BY <3>1, <3>2, <3>3, <1>3, <1>7 DEF Sound
      <3>4. CASE w # v
        BY <3>1, <3>2, <3>4, <3>5, <1>3, <1>9, SoundStays
      <3> QED
        BY <3>3, <3>4
    <2> QED
      BY <2>1, <2>2
  <1>11. MarksSound'
    <2>1. SUFFICES ASSUME settled PROVE \E w \in Videos : OnScreen(w)' /\ (marks' = Truth(w)' \/ Owed(w)' \/ Awaited(w, 0)')
      BY <1>3 DEF MarksSound
    <2>2. PICK w \in Videos : OnScreen(w) /\ (marks = Truth(w) \/ Owed(w) \/ Awaited(w, 0))
      BY <2>1 DEF VideoInv, MarksSound
    <2>3. OnScreen(w)'
      BY <2>2, <1>3 DEF OnScreen
    <2> QED
      BY <2>2, <2>3, <1>3, <1>7, <1>9
  <1>12. VideoTyped' /\ (signedIn \in BOOLEAN)'
    BY <1>3, <1>5, <1>8 DEF VideoTyped, VideoInv
  <1> QED
    BY <1>10, <1>11, <1>12 DEF VideoInv

\* An info that was asked for with the present session is answered with the truth.
LEMMA ServedInfoKeeps ==
  ASSUME VideoInv, NEW n \in DOMAIN videoCalls, ServeInfo(n)
  PROVE  VideoInv'
  <1>1. PICK v : v = videoCalls[n].video
    OBVIOUS
  <1>2. /\ videoCalls \in Seq(VideoCall) /\ Len(videoCalls) \in Nat /\ DOMAIN videoCalls = 1..Len(videoCalls)
        /\ videoCalls[n] \in VideoCall /\ videoCalls[n].kind = "info" /\ ~videoCalls[n].served
        /\ v \in Videos
    <2>1. /\ videoCalls \in Seq(VideoCall) /\ Len(videoCalls) \in Nat /\ DOMAIN videoCalls = 1..Len(videoCalls)
          /\ videoCalls[n] \in VideoCall
      BY DEF VideoInv, VideoTyped
    <2>2. videoCalls[n].kind = "info" /\ ~videoCalls[n].served
      BY DEF ServeInfo
    <2> QED
      BY <1>1, <2>1, <2>2, CallFields
  <1> DEFINE a == IF videoCalls[n].session THEN backend[v] ELSE Unmarked
             c == [videoCalls[n] EXCEPT !.served = TRUE, !.answer = a]
  <1>3. /\ signedIn' = signedIn /\ marks' = marks /\ shown' = shown /\ settled' = settled /\ backend' = backend
        /\ videoCalls' = [videoCalls EXCEPT ![n] = c]
    BY <1>1, <1>2 DEF ServeInfo
  <1>4. a \in [Buttons -> BOOLEAN]
    BY <1>2 DEF Unmarked, VideoInv, VideoTyped
  <1>5. /\ c \in VideoCall /\ c.kind = "info" /\ c.video = v /\ c.served /\ c.answer = a
        /\ c.session = videoCalls[n].session /\ c.late = videoCalls[n].late
    <2> HIDE DEF a
    <2> QED
      BY <1>1, <1>2, <1>4 DEF VideoCall
  <1>6. videoCalls[n].session = signedIn => a = Truth(v)
    BY DEF Truth
  <1> HIDE DEF a, c
  <1>7. /\ Len(videoCalls') = Len(videoCalls) /\ videoCalls' \in Seq(VideoCall) /\ videoCalls'[n] = c
        /\ \A k \in 1..Len(videoCalls) : k # n => videoCalls'[k] = videoCalls[k]
    BY <1>2, <1>3, <1>5, ExceptSeq
  <1>8. ASSUME NEW w
        PROVE  /\ Truth(w)' = Truth(w) /\ (Owed(w) => Owed(w)')
               /\ \A m : Awaited(w, m) => Awaited(w, m)'
    <2>1. Truth(w)' = Truth(w)
      BY <1>3 DEF Truth
    <2>2. Owed(w) => Owed(w)'
      BY <1>2, <1>7, OwedStays DEF Owes
    <2>3. ASSUME NEW m, NEW j \in 1..Len(videoCalls), j > m, Good(j, w) PROVE Awaited(w, m)'
      <3>1. Good(j, w)'
        <4>1. CASE j # n
          <5>1. ~videoCalls'[j].served \/ videoCalls'[j].answer = Truth(w)'
            BY <4>1, <2>1, <2>3, <1>7 DEF Good
          <5> QED
            BY <5>1, <4>1, <2>3, <1>3, <1>7 DEF Good
        <4>2. CASE j = n
          <5>1. w = v /\ videoCalls[n].session = signedIn /\ ~videoCalls[n].late
            BY <4>2, <2>3, <1>1 DEF Good
          <5>2. videoCalls'[n].answer = Truth(w)'
            BY <5>1, <2>1, <1>5, <1>6, <1>7
          <5> QED
            BY <5>1, <5>2, <4>2, <1>3, <1>5, <1>7 DEF Good
        <4> QED
          BY <4>1, <4>2
      <3> QED
        BY <3>1, <2>3, <1>7 DEF Awaited
    <2> QED
      BY <2>1, <2>2, <2>3 DEF Awaited
  <1>9. ASSUME NEW k \in 1..Len(videoCalls') PROVE Sound(k)'
    <2>1. PICK w : w = videoCalls[k].video
      OBVIOUS
    <2>2. Sound(k)
      BY <1>7 DEF VideoInv
    <2>3. CASE k # n
      BY <2>1, <2>2, <2>3, <1>3, <1>7, <1>8, SoundStays
    <2>4. CASE k = n /\ ~videoCalls[n].late
      <3>1. videoCalls[n].session = signedIn
        BY <2>2, <2>4, <1>2 DEF Sound
      <3>2. videoCalls'[n].answer = Truth(v)'
        BY <3>1, <1>5, <1>6, <1>7, <1>8
      <3>3. videoCalls'[n].video = v /\ videoCalls'[n].session = signedIn'
        BY <3>1, <1>3, <1>5, <1>7
      <3> QED
        BY <2>4, <3>2, <3>3 DEF Sound
    <2>5. CASE k = n /\ videoCalls[n].late
      BY <2>5, <1>5, <1>7 DEF Sound
    <2> QED
      BY <2>3, <2>4, <2>5
  <1>10. MarksSound'
    <2>1. SUFFICES ASSUME settled PROVE \E w \in Videos : OnScreen(w)' /\ (marks' = Truth(w)' \/ Owed(w)' \/ Awaited(w, 0)')
      BY <1>3 DEF MarksSound
    <2>2. PICK w \in Videos : OnScreen(w) /\ (marks = Truth(w) \/ Owed(w) \/ Awaited(w, 0))
      BY <2>1 DEF VideoInv, MarksSound
    <2>3. OnScreen(w)'
      BY <2>2, <1>3 DEF OnScreen
    <2> QED
      BY <2>2, <2>3, <1>3, <1>8
  <1>11. VideoTyped' /\ (signedIn \in BOOLEAN)'
    BY <1>3, <1>7 DEF VideoTyped, VideoInv
  <1> QED
    BY <1>9, <1>10, <1>11 DEF VideoInv

-----------------------------------------------------------------------------
(* Answers.                                                                *)

\* The answer to a toggle sends an info after whatever else is under way for the video.
LEMMA AnsweredToggleKeeps ==
  ASSUME VideoInv, NEW n \in DOMAIN videoCalls, ToggleAnswered(n)
  PROVE  VideoInv'
  <1> DEFINE q == RemoveAt(videoCalls, n)
  <1>1. PICK v : v = videoCalls[n].video
    OBVIOUS
  <1>2. /\ videoCalls \in Seq(VideoCall) /\ Len(videoCalls) \in Nat /\ n \in 1..Len(videoCalls)
        /\ videoCalls[n] \in VideoCall /\ signedIn \in BOOLEAN
    BY DEF VideoInv, VideoTyped
  <1>3. /\ signedIn' = signedIn /\ marks' = marks /\ shown' = shown /\ settled' = settled /\ backend' = backend
        /\ videoCalls' = Append(q, Info(v)) /\ videoCalls[n].kind = "toggle"
    BY <1>1 DEF ToggleAnswered, ToggledAgain
  <1>4. v \in Videos
    BY <1>1, <1>2, CallFields
  <1>5. /\ Info(v) \in VideoCall /\ Info(v).kind = "info" /\ Info(v).video = v /\ ~Info(v).late
        /\ ~Info(v).served /\ Info(v).session = signedIn
    BY <1>2, <1>4, InfoIsCall
  <1>6. /\ q \in Seq(VideoCall) /\ Len(q) = Len(videoCalls) - 1
        /\ \A k \in 1..Len(videoCalls) - 1 : q[k] = IF k < n THEN videoCalls[k] ELSE videoCalls[k + 1]
    BY <1>2, RemoveAtProperties
  <1> HIDE DEF q
  <1>7. /\ videoCalls' \in Seq(VideoCall) /\ Len(videoCalls') = Len(videoCalls)
        /\ videoCalls'[Len(videoCalls)] = Info(v)
        /\ \A k \in 1..Len(videoCalls) - 1 : videoCalls'[k] = q[k]
    <2>1. /\ Append(q, Info(v)) \in Seq(VideoCall) /\ Len(Append(q, Info(v))) = Len(q) + 1
          /\ Append(q, Info(v))[Len(q) + 1] = Info(v)
          /\ \A k \in 1..Len(q) : Append(q, Info(v))[k] = q[k]
      BY <1>5, <1>6, AppendProperties
    <2>2. Len(q) + 1 = Len(videoCalls)
      BY <1>2, <1>6
    <2> QED
      BY <2>1, <2>2, <1>3, <1>6
  <1>8. ASSUME NEW k \in 1..Len(videoCalls) - 1
        PROVE  Origin(n, k) \in 1..Len(videoCalls) /\ videoCalls'[k] = videoCalls[Origin(n, k)]
    <2>1. Origin(n, k) \in 1..Len(videoCalls)
      BY <1>2 DEF Origin
    <2> QED
      BY <2>1, <1>6, <1>7 DEF Origin
  <1>9. ASSUME NEW j \in 1..Len(videoCalls), j # n
        PROVE  Place(n, j) \in 1..Len(videoCalls) - 1 /\ videoCalls'[Place(n, j)] = videoCalls[j]
    <2>1. Place(n, j) \in 1..Len(videoCalls) - 1 /\ Origin(n, Place(n, j)) = j
      BY <1>2, <1>9 DEF Origin, Place
    <2> QED
      BY <2>1, <1>8
  <1>10. ASSUME NEW m \in Nat, m < Len(videoCalls) PROVE Awaited(v, m)'
    <2>1. Good(Len(videoCalls), v)'
      BY <1>3, <1>5, <1>7 DEF Good
    <2> QED
      BY <2>1, <1>2, <1>7, <1>10 DEF Awaited
  <1>11. ASSUME NEW w, w # v
         PROVE  /\ Truth(w)' = Truth(w) /\ (Owed(w) => Owed(w)')
                /\ (Awaited(w, 0) => Awaited(w, 0)')
                /\ \A k \in 1..Len(videoCalls) - 1 : Awaited(w, Origin(n, k)) => Awaited(w, k)'
    <2>1. Truth(w)' = Truth(w)
      BY <1>3 DEF Truth
    <2>2. Owed(w) => Owed(w)'
      <3>1. ASSUME NEW j \in 1..Len(videoCalls), Owes(j, w)
            PROVE  \E k \in 1..Len(videoCalls') : videoCalls'[k] = videoCalls[j]
        <4>1. j # n
          BY <3>1, <1>1, <1>11 DEF Owes
        <4>2. Place(n, j) \in 1..Len(videoCalls')
          BY <4>1, <1>2, <1>7, <1>9
        <4> QED
          BY <4>1, <4>2, <1>9
      <3> QED
        BY <3>1, OwedStays
    <2>3. ASSUME NEW j \in 1..Len(videoCalls), Good(j, w)
          PROVE  /\ j # n /\ Place(n, j) \in 1..Len(videoCalls') /\ videoCalls'[Place(n, j)] = videoCalls[j]
      <3>1. j # n
        BY <2>3, <1>1, <1>11 DEF Good
      <3>2. Place(n, j) \in 1..Len(videoCalls')
        BY <3>1, <1>2, <1>7, <1>9
      <3> QED
        BY <3>1, <3>2, <1>9
    <2>4. Awaited(w, 0) => Awaited(w, 0)'
      <3>1. \A j \in 1..Len(videoCalls) : j > 0 /\ Good(j, w) =>
              \E k \in 1..Len(videoCalls') : k > 0 /\ videoCalls'[k] = videoCalls[j]
        BY <2>3
      <3> QED
        BY <3>1, <2>1, <1>3, AwaitedStays
    <2>5. ASSUME NEW k \in 1..Len(videoCalls) - 1 PROVE Awaited(w, Origin(n, k)) => Awaited(w, k)'
      <3>1. ASSUME NEW j \in 1..Len(videoCalls), j > Origin(n, k), Good(j, w)
            PROVE  \E i \in 1..Len(videoCalls') : i > k /\ videoCalls'[i] = videoCalls[j]
        <4>1. Place(n, j) > k
          BY <3>1, <2>3, <1>2 DEF Place, Origin
        <4> QED
          BY <4>1, <3>1, <2>3
      <3> QED
        BY <3>1, <2>1, <1>3, AwaitedStays
    <2> QED
      BY <2>1, <2>2, <2>4, <2>5
  <1>12. ASSUME NEW k \in 1..Len(videoCalls') PROVE Sound(k)'
    <2>1. CASE k = Len(videoCalls)
      BY <2>1, <1>3, <1>5, <1>7 DEF Sound
    <2>2. CASE k # Len(videoCalls)
      <3>1. PICK j \in 1..Len(videoCalls) : j = Origin(n, k) /\ videoCalls'[k] = videoCalls[j]
        BY <2>2, <1>2, <1>7, <1>8
      <3>2. PICK w : w = videoCalls[j].video
        OBVIOUS
      <3>3. Sound(j) /\ k \in 1..Len(videoCalls) - 1
        BY <2>2, <1>2, <1>7 DEF VideoInv
      <3>4. CASE w = v
        <4>1. k \in Nat /\ k < Len(videoCalls)
          BY <3>3, <1>2
        <4>2. Awaited(v, k)'
          BY <4>1, <1>10
        <4> QED
          BY <4>2, <3>1, <3>2, <3>3, <3>4, <1>3 DEF Sound
      <3>5. CASE w # v
        BY <3>1, <3>2, <3>3, <3>5, <1>3, <1>11, SoundStays
      <3> QED
        BY <3>4, <3>5
    <2> QED
      BY <2>1, <2>2
  <1>13. MarksSound'
    <2>1. SUFFICES ASSUME settled PROVE \E w \in Videos : OnScreen(w)' /\ (marks' = Truth(w)' \/ Owed(w)' \/ Awaited(w, 0)')
      BY <1>3 DEF MarksSound
    <2>2. PICK w \in Videos : OnScreen(w) /\ (marks = Truth(w) \/ Owed(w) \/ Awaited(w, 0))
      BY <2>1 DEF VideoInv, MarksSound
    <2>3. OnScreen(w)'
      BY <2>2, <1>3 DEF OnScreen
    <2>4. Awaited(v, 0)'
      BY <1>2, <1>10
    <2> QED
      BY <2>2, <2>3, <2>4, <1>3, <1>11
  <1>14. VideoTyped' /\ (signedIn \in BOOLEAN)'
    BY <1>3, <1>7 DEF VideoTyped, VideoInv
  <1> QED
    BY <1>12, <1>13, <1>14 DEF VideoInv

\* A toggle that was served and failed owes nothing: the infos of its video are late, and its marks
\* are not settled.
LEMMA FailedToggleKeeps ==
  ASSUME VideoInv, NEW n \in DOMAIN videoCalls, ToggleFailed(n)
  PROVE  VideoInv'
  <1> DEFINE S == {m \in Infos : videoCalls[n].served /\ videoCalls[m].video = videoCalls[n].video}
  <1>1. /\ videoCalls[n].kind = "toggle" /\ videoCalls' = RemoveAt(Late(S), n)
        /\ settled' = (settled /\ ~(videoCalls[n].served /\ OnScreen(videoCalls[n].video)))
        /\ shown' = shown /\ signedIn' = signedIn /\ marks' = marks /\ backend' = backend
    BY DEF ToggleFailed
  <1>2. /\ S \in SUBSET Infos
        /\ \A m \in S : videoCalls[n].served /\ videoCalls[m].video = videoCalls[n].video
        /\ \A m \in Infos : m \notin S => ~videoCalls[n].served \/ videoCalls[m].video # videoCalls[n].video
    OBVIOUS
  <1> HIDE DEF S
  <1>3. /\ VideoTyped /\ signedIn \in BOOLEAN /\ \A i \in 1..Len(videoCalls) : Sound(i)
    BY DEF VideoInv
  <1>4. ASSUME NEW w, ~videoCalls[n].served \/ w # videoCalls[n].video
        PROVE  ~Owes(n, w) /\ \A m : Good(m, w) => m # n /\ m \notin S
    BY <1>1, <1>2, <1>4 DEF Owes, Good
  <1>5. /\ videoCalls' \in Seq(VideoCall) /\ \A k \in 1..Len(videoCalls') : Sound(k)'
    <2>1. \A j \in Infos : j # n /\ j \notin S =>
           /\ ~Owes(n, videoCalls[j].video)
           /\ \A m \in 1..Len(videoCalls) : m > j /\ Good(m, videoCalls[j].video) => m # n /\ m \notin S
      BY <1>2, <1>4
    <2> QED
      BY <2>1, <1>1, <1>2, <1>3, TakenOutSound
  <1>6. MarksSound'
    <2>1. SUFFICES ASSUME settled' PROVE \E w \in Videos : OnScreen(w)' /\ (marks' = Truth(w)' \/ Owed(w)' \/ Awaited(w, 0)')
      BY DEF MarksSound
    <2>2. PICK w \in Videos : OnScreen(w) /\ (marks = Truth(w) \/ Owed(w) \/ Awaited(w, 0))
      BY <2>1, <1>1 DEF VideoInv, MarksSound
    <2>3. OnScreen(w)' /\ Truth(w)' = Truth(w)
      BY <2>2, <1>1 DEF OnScreen, Truth
    <2>4. ~videoCalls[n].served \/ w # videoCalls[n].video
      BY <2>1, <2>2, <1>1
    <2>5. (Owed(w) => Owed(w)') /\ (Awaited(w, 0) => Awaited(w, 0)')
      <3>1. ~Owes(n, w) /\ \A m \in 1..Len(videoCalls) : m > 0 /\ Good(m, w) => m # n /\ m \notin S
        BY <2>4, <1>4
      <3> QED
        BY <3>1, <2>3, <1>1, <1>2, <1>3, CoverStays
    <2> QED
      BY <2>2, <2>3, <2>5, <1>1
  <1>7. VideoTyped' /\ (signedIn \in BOOLEAN)'
    BY <1>1, <1>3, <1>5 DEF VideoTyped
  <1> QED
    BY <1>5, <1>6, <1>7 DEF VideoInv

\* Info n of v is gone, and those for the same video that were sent before it are late.
LEMMA WithoutKeeps ==
  ASSUME VideoInv, NEW n \in DOMAIN videoCalls, videoCalls[n].kind = "info", videoCalls' = Without(n),
         signedIn' = signedIn, backend' = backend, shown' = shown, NEW v, v = videoCalls[n].video
  PROVE  /\ VideoTyped' /\ \A k \in 1..Len(videoCalls') : Sound(k)'
         /\ \A w : Owed(w) => Owed(w)'
         /\ \A w : w # v => (Awaited(w, 0) => Awaited(w, 0)')
         /\ Awaited(v, n) => Awaited(v, 0)'
  <1> DEFINE S == {m \in Infos : m < n /\ videoCalls[m].video = videoCalls[n].video}
  <1>1. videoCalls' = RemoveAt(Late(S), n)
    BY DEF Without
  <1>2. /\ S \in SUBSET Infos
        /\ \A m \in S : m < n /\ videoCalls[m].video = v
        /\ \A m \in Infos : m \notin S => ~(m < n) \/ videoCalls[m].video # v
    OBVIOUS
  <1> HIDE DEF S
  <1>3. /\ VideoTyped /\ \A i \in 1..Len(videoCalls) : Sound(i)
        /\ n \in Nat /\ Infos \subseteq 1..Len(videoCalls) /\ Len(videoCalls) \in Nat
    BY DEF VideoInv, VideoTyped, Infos
  <1>4. \A w : ~Owes(n, w) /\ Truth(w)' = Truth(w)
    BY DEF Owes, Truth
  <1>5. \A w, m : w # v /\ Good(m, w) => m # n /\ m \notin S
    BY <1>2 DEF Good
  <1>6. ASSUME NEW m \in 1..Len(videoCalls), m > n PROVE m # n /\ m \notin S
    BY <1>2, <1>3, <1>6
  <1>7. /\ videoCalls' \in Seq(VideoCall) /\ \A k \in 1..Len(videoCalls') : Sound(k)'
    <2>1. ASSUME NEW j \in Infos, j # n, j \notin S,
                 NEW m \in 1..Len(videoCalls), m > j, Good(m, videoCalls[j].video)
          PROVE  m # n /\ m \notin S
      <3>1. CASE videoCalls[j].video # v
        BY <3>1, <2>1, <1>5
      <3>2. CASE videoCalls[j].video = v
        <4>1. j > n
          BY <3>2, <2>1, <1>2, <1>3
        <4>2. m > n
          BY <4>1, <2>1, <1>3
        <4> QED
          BY <4>2, <1>6
      <3> QED
        BY <3>1, <3>2
    <2>2. \A j \in Infos : j # n /\ j \notin S =>
           /\ ~Owes(n, videoCalls[j].video)
           /\ \A m \in 1..Len(videoCalls) : m > j /\ Good(m, videoCalls[j].video) => m # n /\ m \notin S
      BY <2>1, <1>4
    <2> QED
      BY <2>2, <1>1, <1>2, <1>3, TakenOutSound
  <1>8. ASSUME NEW w, w # v PROVE (Owed(w) => Owed(w)') /\ (Awaited(w, 0) => Awaited(w, 0)')
    <2>1. \A m \in 1..Len(videoCalls) : m > 0 /\ Good(m, w) => m # n /\ m \notin S
      BY <1>8, <1>5
    <2> QED
      BY <2>1, <1>1, <1>2, <1>3, <1>4, CoverStays
  <1>9. (Owed(v) => Owed(v)') /\ (Awaited(v, n) => Awaited(v, 0)')
    <2>1. \A m \in 1..Len(videoCalls) : m > n /\ Good(m, v) => m # n /\ m \notin S
      BY <1>6
    <2> QED
      BY <2>1, <1>1, <1>2, <1>3, <1>4, CoverStays
  <1>10. VideoTyped'
    BY <1>3, <1>7 DEF VideoTyped
  <1> QED
    BY <1>7, <1>8, <1>9, <1>10

\* An info that was not late shows the truth, or what is still to come will.
LEMMA ArrivingKeeps ==
  ASSUME VideoInv, NEW n \in DOMAIN videoCalls, InfoArrives(n)
  PROVE  VideoInv'
  <1>1. PICK v : v = videoCalls[n].video
    OBVIOUS
  <1>2. /\ videoCalls[n].kind = "info" /\ videoCalls[n].served /\ marks' = videoCalls[n].answer
        /\ settled' = (OnScreen(v) /\ ~videoCalls[n].late)
        /\ videoCalls' = Without(n)
        /\ shown' = shown /\ signedIn' = signedIn /\ backend' = backend
    BY <1>1 DEF InfoArrives
  <1>3. /\ VideoTyped' /\ \A k \in 1..Len(videoCalls') : Sound(k)'
        /\ Owed(v) => Owed(v)'
        /\ Awaited(v, n) => Awaited(v, 0)'
    BY <1>1, <1>2, WithoutKeeps
  <1>4. MarksSound'
    <2>1. SUFFICES ASSUME settled' PROVE \E w \in Videos : OnScreen(w)' /\ (marks' = Truth(w)' \/ Owed(w)' \/ Awaited(w, 0)')
      BY DEF MarksSound
    <2>2. Sound(n)
      BY DEF VideoInv, VideoTyped
    <2>3. videoCalls[n].answer = Truth(v) \/ Owed(v) \/ Awaited(v, n)
      BY <2>1, <2>2, <1>1, <1>2 DEF Sound
    <2>4. OnScreen(v)' /\ Truth(v)' = Truth(v)
      BY <2>1, <1>2 DEF OnScreen, Truth
    <2>5. v \in Videos
      <3>1. videoCalls[n] \in VideoCall
        BY DEF VideoInv, VideoTyped
      <3> QED
        BY <3>1, <1>1, CallFields
    <2> QED
      BY <2>3, <2>4, <2>5, <1>2, <1>3
  <1>5. (signedIn \in BOOLEAN)'
    BY <1>2 DEF VideoInv
  <1> QED
    BY <1>3, <1>4, <1>5 DEF VideoInv

LEMMA LosingKeeps ==
  ASSUME VideoInv, NEW n \in DOMAIN videoCalls, InfoFailed(n)
  PROVE  VideoInv'
  <1>1. PICK v : v = videoCalls[n].video
    OBVIOUS
  <1>2. /\ videoCalls[n].kind = "info" /\ marks' = marks
        /\ settled' = (settled /\ ~OnScreen(v))
        /\ videoCalls' = Without(n)
        /\ shown' = shown /\ signedIn' = signedIn /\ backend' = backend
    BY <1>1 DEF InfoFailed
  <1>3. /\ VideoTyped' /\ \A k \in 1..Len(videoCalls') : Sound(k)'
        /\ \A w : Owed(w) => Owed(w)'
        /\ \A w : w # v => (Awaited(w, 0) => Awaited(w, 0)')
    BY <1>1, <1>2, WithoutKeeps
  <1>4. MarksSound'
    <2>1. SUFFICES ASSUME settled' PROVE \E w \in Videos : OnScreen(w)' /\ (marks' = Truth(w)' \/ Owed(w)' \/ Awaited(w, 0)')
      BY DEF MarksSound
    <2>2. PICK w \in Videos : OnScreen(w) /\ (marks = Truth(w) \/ Owed(w) \/ Awaited(w, 0))
      BY <2>1, <1>2 DEF VideoInv, MarksSound
    <2>3. OnScreen(w)' /\ Truth(w)' = Truth(w) /\ w # v
      BY <2>1, <2>2, <1>2 DEF OnScreen, Truth
    <2> QED
      BY <2>2, <2>3, <1>2, <1>3
  <1>5. (signedIn \in BOOLEAN)'
    BY <1>2 DEF VideoInv
  <1> QED
    BY <1>3, <1>4, <1>5 DEF VideoInv

-----------------------------------------------------------------------------
LEMMA VideoInitInv == VideoInit => VideoInv
  <1> SUFFICES ASSUME VideoInit PROVE VideoInv
    OBVIOUS
  <1>1. Unmarked \in [Buttons -> BOOLEAN]
    BY DEF Unmarked
  <1>2. VideoTyped
    BY <1>1 DEF VideoInit, VideoTyped
  <1> QED
    BY <1>2 DEF VideoInit, VideoInv, MarksSound

LEMMA VideoStepInv == VideoInv /\ [VideoNext]_videoVars => VideoInv'
  <1> SUFFICES ASSUME VideoInv, [VideoNext]_videoVars PROVE VideoInv'
    OBVIOUS
  <1>1. CASE CloseVideo
    BY <1>1, ClosingKeeps
  <1>2. CASE ChangeSignedIn
    BY <1>2, SessionKeeps
  <1>3. ASSUME NEW v \in Videos, NEW page \in {"slide", "screen"}, OpenVideo(v, page) PROVE VideoInv'
    BY <1>3, BuiltKeeps
  <1>4. ASSUME NEW v \in Videos, NEW there \in BOOLEAN, Swipe(v, there) PROVE VideoInv'
    BY <1>4, BuiltKeeps
  <1>5. ASSUME NEW b \in Buttons, TapButton(b) PROVE VideoInv'
    BY <1>5, TapKeeps
  <1>6. ASSUME NEW n \in DOMAIN videoCalls, ServeToggleOf(n) PROVE VideoInv'
    BY <1>6, ServedToggleKeeps
  <1>7. ASSUME NEW n \in DOMAIN videoCalls, ToggleAnswered(n) PROVE VideoInv'
    BY <1>7, AnsweredToggleKeeps
  <1>8. ASSUME NEW n \in DOMAIN videoCalls, ToggleFailed(n) PROVE VideoInv'
    BY <1>8, FailedToggleKeeps
  <1>9. ASSUME NEW n \in DOMAIN videoCalls, ServeInfo(n) PROVE VideoInv'
    BY <1>9, ServedInfoKeeps
  <1>10. ASSUME NEW n \in DOMAIN videoCalls, InfoArrives(n) PROVE VideoInv'
    BY <1>10, ArrivingKeeps
  <1>11. ASSUME NEW n \in DOMAIN videoCalls, InfoFailed(n) PROVE VideoInv'
    BY <1>11, LosingKeeps
  <1>12. CASE UNCHANGED videoVars
    <2>1. \A n \in 1..Len(videoCalls) : Sound(n) <=> Sound(n)'
      BY <1>12 DEF videoVars, Sound, Truth, Owed, Owes, Awaited, Good
    <2>2. MarksSound'
      BY <1>12 DEF videoVars, VideoInv, MarksSound, OnScreen, Truth, Owed, Owes, Awaited, Good
    <2>3. VideoTyped' /\ (signedIn \in BOOLEAN)'
      BY <1>12 DEF videoVars, VideoInv, VideoTyped
    <2> QED
      BY <2>1, <2>2, <2>3, <1>12 DEF VideoInv, videoVars
  <1> QED
    BY <1>1, <1>2, <1>3, <1>4, <1>5, <1>6, <1>7, <1>8, <1>9, <1>10, <1>11, <1>12 DEF VideoNext

LEMMA VideoInvTruth == VideoInv => VideoMarksTrue
  <1> SUFFICES ASSUME VideoInv, settled, \A n \in DOMAIN videoCalls : ~OnScreen(videoCalls[n].video), NEW b \in Buttons
        PROVE  marks[b] = (signedIn /\ backend[shown[Len(shown)].video][b])
    BY DEF VideoMarksTrue
  <1>1. PICK v \in Videos : OnScreen(v) /\ (marks = Truth(v) \/ Owed(v) \/ Awaited(v, 0))
    BY DEF VideoInv, MarksSound
  <1>2. ~Owed(v) /\ ~Awaited(v, 0)
    <2>1. DOMAIN videoCalls = 1..Len(videoCalls)
      BY DEF VideoInv, VideoTyped
    <2> QED
      BY <2>1, <1>1 DEF Owed, Owes, Awaited, Good
  <1>3. marks = Truth(v) /\ shown[Len(shown)].video = v
    BY <1>1, <1>2 DEF OnScreen
  <1>4. backend[v][b] \in BOOLEAN /\ Unmarked[b] = FALSE /\ signedIn \in BOOLEAN
    BY DEF VideoInv, VideoTyped, Unmarked
  <1> QED
    BY <1>3, <1>4 DEF Truth

\* Whatever the videos, the taps and the order in which calls are served and answered: with nothing of
\* the visible video under way, the buttons show the reader's marks of it, since the answer to a toggle
\* asks again (video_article_controller.dart:38 and 50).
THEOREM VideoMarksStayTrue == VideoSpec => []VideoMarksTrue
  <1>1. VideoSpec => []VideoInv
    BY VideoInitInv, VideoStepInv, PTL DEF VideoSpec
  <1> QED
    BY <1>1, VideoInvTruth, PTL

-----------------------------------------------------------------------------
(* The types of MainShell.                                                 *)

\* A Navigator on which each sheet lies over its MainScreen, and handlers that stand for one.
Standing(rs) == /\ rs \in Seq(Route) /\ Len(rs) <= MaxRoutes
                /\ \A j \in 1..Len(rs) : rs[j].of > 0 => rs[j].of < j /\ rs[rs[j].of].page = "main"
Placed(hs, rs) == /\ hs \in [Handlers -> Handler]
                  /\ \A h \in Handlers : hs[h].at > 0 => hs[h].at <= Len(rs) /\ rs[hs[h].at].page = "main"
ShellFlags == /\ online \in BOOLEAN /\ exiting \in BOOLEAN /\ dead \in BOOLEAN
              /\ excuse \subseteq {"deaf", "dismissed", "overlapped"}
              /\ lateUse \subseteq {"retry", "video", "article"}

LEMMA ShellTypeParts == ShellTypeOK <=> Standing(routes) /\ Placed(handler, routes) /\ ShellFlags
  <1>1. ASSUME routes \in Seq(Route) PROVE DOMAIN routes = 1..Len(routes)
    BY <1>1
  <1> QED
    BY <1>1 DEF ShellTypeOK, Standing, Placed, ShellFlags

LEMMA ShellTypedByType ==
  ASSUME ShellTypeOK
  PROVE  /\ ShellTyped /\ Len(routes) \in Nat /\ DOMAIN routes = 1..Len(routes)
         /\ \A k \in 1..Len(routes) : routes[k] \in Route
  <1>1. /\ Len(routes) \in Nat /\ DOMAIN routes = 1..Len(routes)
        /\ \A k \in 1..Len(routes) : routes[k] \in Route
    BY DEF ShellTypeOK
  <1>2. \A i \in 0..MaxRoutes : i \in Nat
    BY ShellAssumption
  <1>3. \A r \in Route : r \in Routes
    BY <1>2 DEF Route, Routes
  <1>4. \A c \in Handler : c \in HandlerT
    BY <1>2 DEF Handler, HandlerT
  <1>5. routes \in [1..Len(routes) -> Routes]
    BY <1>1, <1>3 DEF ShellTypeOK
  <1>6. routes \in Seq(Routes)
    BY <1>1, <1>5, SeqDef
  <1>7. handler \in [Handlers -> HandlerT]
    BY <1>4 DEF ShellTypeOK
  <1> QED
    BY <1>1, <1>6, <1>7 DEF ShellTyped, ShellTypeOK

\* Each listener is a MainScreen of the Navigator, or the one that left.
LEMMA ListenersAreMains ==
  ASSUME ShellTypeOK, NEW ls \in Listening
  PROVE  /\ ls \in Seq(Nat)
         /\ \A j \in 1..Len(ls) : ls[j] = 0 \/ (ls[j] \in 1..Len(routes) /\ routes[ls[j]].page = "main")
  <1>1. /\ ShellTyped /\ Len(routes) \in Nat /\ DOMAIN routes = 1..Len(routes)
        /\ \A i \in Mains : i \in Nat /\ i \in 1..Len(routes) /\ routes[i].page = "main"
    BY ShellTypedByType DEF Mains
  <1>2. ls \in Seq(Nat)
    BY <1>1, ListenersTyped
  <1>3. PICK s \in [1..Cardinality(Mains) -> Mains] : ls = s \o (IF exiting THEN <<0>> ELSE <<>>)
    BY DEF Listening
  <1>4. Cardinality(Mains) \in Nat
    <2>1. IsFiniteSet(1..Len(routes)) /\ Mains \subseteq 1..Len(routes)
      BY <1>1, FS_Interval
    <2> QED
      BY <2>1, FS_Subset, FS_CardinalityType
  <1>5. s \in Seq(Mains) /\ Len(s) = Cardinality(Mains)
    BY <1>3, <1>4, SeqDef
  <1> DEFINE t == IF exiting THEN <<0>> ELSE <<>>
  <1>6. t \in Seq({0})
    <2>1. CASE exiting
      BY <2>1
    <2>2. CASE ~exiting
      BY <2>2, EmptySeq
    <2> QED
      BY <2>1, <2>2
  <1>7. ls = s \o t
    BY <1>3
  <1> HIDE DEF t
  <1>8. s \in Seq(Mains \cup {0}) /\ t \in Seq(Mains \cup {0})
    BY <1>5, <1>6
  <1>9. \A j \in 1..Len(ls) : ls[j] \in Mains \cup {0}
    <2>1. PICK T : T = Mains \cup {0}
      OBVIOUS
    <2>2. s \in Seq(T) /\ t \in Seq(T)
      BY <2>1, <1>8
    <2>3. ls \in Seq(T)
      BY <2>2, <1>7, ConcatProperties
    <2> QED
      BY <2>1, <2>3, ElementOfSeq
  <1> QED
    BY <1>1, <1>2, <1>9

\* Routes that are put on top, each for a MainScreen beneath or for none.
LEMMA StandingExtended ==
  ASSUME ShellTypeOK, NEW t \in Seq(Route), Len(routes) + Len(t) <= MaxRoutes,
         \A j \in 1..Len(t) : t[j].of = 0 \/ (t[j].of \in 1..Len(routes) /\ routes[t[j].of].page = "main")
  PROVE  /\ Standing(routes \o t)
         /\ Placed(handler, routes \o t)
  <1> DEFINE rs == routes \o t
  <1>1. /\ Len(routes) \in Nat /\ \A k \in 1..Len(routes) : routes[k] \in Route
        /\ Standing(routes) /\ Placed(handler, routes)
    BY ShellTypedByType, ShellTypeParts
  <1>2. /\ rs \in Seq(Route) /\ Len(rs) = Len(routes) + Len(t) /\ Len(t) \in Nat
        /\ \A k \in 1..Len(routes) : k \in 1..Len(rs) /\ rs[k] = routes[k]
        /\ \A k \in 1..Len(rs) : k \in 1..Len(routes) \/ (k > Len(routes) /\ \E j \in 1..Len(t) : rs[k] = t[j])
    <2>1. routes \in Seq(Route)
      BY <1>1 DEF Standing
    <2>2. /\ rs \in Seq(Route) /\ Len(rs) = Len(routes) + Len(t)
          /\ \A k \in 1..Len(routes) : k \in 1..Len(rs) /\ rs[k] = routes[k]
          /\ \A k \in 1..Len(rs) : k \in 1..Len(routes) \/ \E j \in 1..Len(t) : rs[k] = t[j]
      BY <2>1, Extended
    <2> HIDE DEF rs
    <2>3. Len(t) \in Nat
      OBVIOUS
    <2>4. ASSUME NEW k \in 1..Len(rs), k \notin 1..Len(routes) PROVE k > Len(routes)
      BY <2>2, <2>4, <1>1
    <2> QED
      BY <2>2, <2>3, <2>4
  <1> HIDE DEF rs
  <1>3. \A k \in 1..Len(routes) : routes[k].of \in Nat /\ (routes[k].of > 0 => routes[k].of \in 1..Len(routes))
    BY <1>1, ShellAssumption DEF Route, Standing
  <1>4. ASSUME NEW k \in 1..Len(rs), rs[k].of > 0
        PROVE  rs[k].of < k /\ rs[rs[k].of].page = "main"
    <2>1. CASE k \in 1..Len(routes)
      <3>1. rs[k] = routes[k] /\ routes[k].of > 0
        BY <2>1, <1>2, <1>4
      <3>2. /\ routes[k].of < k /\ routes[routes[k].of].page = "main"
            /\ routes[k].of \in 1..Len(routes)
        BY <2>1, <3>1, <1>1, <1>3 DEF Standing
      <3> QED
        BY <3>1, <3>2, <1>2
    <2>2. CASE k > Len(routes) /\ \E j \in 1..Len(t) : rs[k] = t[j]
      BY <2>2, <1>1, <1>2, <1>4
    <2> QED
      BY <2>1, <2>2, <1>2
  <1>5. ASSUME NEW h \in Handlers, handler[h].at > 0
        PROVE  handler[h].at <= Len(rs) /\ rs[handler[h].at].page = "main"
    <2>1. handler[h].at \in 0..MaxRoutes /\ handler[h].at <= Len(routes) /\ routes[handler[h].at].page = "main"
      BY <1>1, <1>5 DEF Placed, Handler
    <2> QED
      BY <2>1, <1>1, <1>2, <1>5, ShellAssumption
  <1>6. Len(rs) <= MaxRoutes
    BY <1>2
  <1>7. Standing(rs)
    BY <1>2, <1>4, <1>6 DEF Standing
  <1>8. Placed(handler, rs)
    BY <1>1, <1>5 DEF Placed
  <1> QED
    BY <1>7, <1>8 DEF rs

\* One route that belongs to none.
LEMMA StandingOpened ==
  ASSUME ShellTypeOK, NEW p \in {"main", "content", "other"}, Len(routes) < MaxRoutes,
         NEW hs, Placed(hs, routes)
  PROVE  Standing(Append(routes, Plain(p))) /\ Placed(hs, Append(routes, Plain(p)))
  <1>1. /\ Plain(p) \in Route /\ Plain(p).of = 0
    BY ShellAssumption DEF Plain, Route
  <1>2. /\ Len(routes) \in Nat /\ \A k \in 1..Len(routes) : routes[k] \in Route
        /\ routes \in Seq(Route) /\ Standing(routes)
    BY ShellTypedByType, ShellTypeParts DEF Standing
  <1> DEFINE rs == Append(routes, Plain(p))
  <1>3. /\ rs \in Seq(Route) /\ Len(rs) = Len(routes) + 1 /\ rs[Len(routes) + 1] = Plain(p)
        /\ \A k \in 1..Len(routes) : rs[k] = routes[k]
    BY <1>1, <1>2, AppendProperties
  <1> HIDE DEF rs
  <1>4. ASSUME NEW k \in 1..Len(rs), rs[k].of > 0
        PROVE  rs[k].of < k /\ rs[rs[k].of].page = "main"
    <2>1. k \in 1..Len(routes)
      BY <1>1, <1>2, <1>3, <1>4
    <2>2. routes[k].of \in Nat /\ routes[k].of < k /\ routes[routes[k].of].page = "main"
      BY <2>1, <1>2, <1>3, <1>4, ShellAssumption DEF Route, Standing
    <2> QED
      BY <2>1, <2>2, <1>2, <1>3, <1>4
  <1>5. ASSUME NEW h \in Handlers, hs[h].at > 0
        PROVE  hs[h].at <= Len(rs) /\ rs[hs[h].at].page = "main"
    <2>1. hs[h].at \in 0..MaxRoutes /\ hs[h].at <= Len(routes) /\ routes[hs[h].at].page = "main"
      BY <1>5 DEF Placed, Handler
    <2> QED
      BY <2>1, <1>2, <1>3, <1>5, ShellAssumption
  <1>6. Len(rs) <= MaxRoutes
    BY <1>2, <1>3, ShellAssumption
  <1>7. Standing(rs)
    BY <1>3, <1>4, <1>6 DEF Standing
  <1>8. Placed(hs, rs)
    BY <1>5 DEF Placed
  <1> QED
    BY <1>7, <1>8 DEF rs

\* The visible route leaves, and what stood for it stands for none.
LEMMA StandingPopped ==
  ASSUME ShellTypeOK, routes # <<>>, NEW hs, Placed(hs, routes), Pop(hs)
  PROVE  \E rs, gs : rs = routes' /\ gs = handler' /\ Standing(rs) /\ Placed(gs, rs)
  <1>1. PICK rs, gs : rs = routes' /\ gs = handler'
    OBVIOUS
  <1>2. /\ routes \in Seq(Route) /\ Standing(routes) /\ \A k \in 1..Len(routes) : routes[k] \in Route
    BY ShellTypedByType, ShellTypeParts DEF Standing
  <1>3. /\ rs \in Seq(Route) /\ Len(routes) \in Nat \ {0} /\ Len(rs) = Len(routes) - 1
        /\ \A k \in 1..Len(routes) - 1 : rs[k] = routes[k]
    BY <1>1, <1>2, FrontProperties DEF Pop
  <1>4. ASSUME NEW k \in 1..Len(rs), rs[k].of > 0
        PROVE  rs[k].of < k /\ rs[rs[k].of].page = "main"
    <2>1. k \in 1..Len(routes) /\ k \in 1..Len(routes) - 1
      BY <1>3
    <2>2. routes[k].of \in Nat /\ routes[k].of < k /\ routes[routes[k].of].page = "main"
      BY <2>1, <1>2, <1>3, <1>4, ShellAssumption, SMTT(30) DEF Route, Standing
    <2> QED
      BY <2>1, <2>2, <1>3, <1>4
  <1>5. Standing(rs)
    BY <1>2, <1>3, <1>4, ShellAssumption DEF Standing
  <1>6. /\ gs \in [Handlers -> Handler]
        /\ \A h \in Handlers : gs[h].at > 0 => gs[h].at = hs[h].at /\ hs[h].at # Len(routes)
    <2>1. ASSUME NEW c \in Handler, NEW d, d = [c EXCEPT !.at = 0, !.life = "exiting"]
          PROVE  d \in Handler /\ d.at = 0
      <3>1. PICK N : N = 0..MaxRoutes /\ 0 \in N
        BY ShellAssumption
      <3>2. Handler = [kind : {"none", "retry", "video"}, at : N, life : {"shown", "exiting", "gone"},
                       seen : SUBSET BOOLEAN]
        BY <3>1 DEF Handler
      <3> QED
        BY <3>1, <3>2, <2>1
    <2>2. gs = [h \in Handlers |-> IF hs[h].at = Len(routes) THEN [hs[h] EXCEPT !.at = 0, !.life = "exiting"]
                                   ELSE hs[h]]
      BY <1>1 DEF Pop
    <2>3. \A h \in Handlers : hs[h] \in Handler
      BY DEF Placed
    <2>4. ASSUME NEW h \in Handlers
          PROVE  gs[h] \in Handler /\ (gs[h].at > 0 => gs[h].at = hs[h].at /\ hs[h].at # Len(routes))
      <3>1. CASE hs[h].at = Len(routes)
        <4>1. gs[h] = [hs[h] EXCEPT !.at = 0, !.life = "exiting"]
          BY <3>1, <2>2
        <4>2. gs[h] \in Handler /\ gs[h].at = 0
          BY <4>1, <2>1, <2>3
        <4> QED
          BY <4>2
      <3>2. CASE hs[h].at # Len(routes)
        <4>1. gs[h] = hs[h]
          BY <3>2, <2>2
        <4> QED
          BY <3>2, <4>1, <2>3
      <3> QED
        BY <3>1, <3>2
    <2> QED
      BY <2>2, <2>4
  <1>7. ASSUME NEW h \in Handlers, gs[h].at > 0
        PROVE  gs[h].at <= Len(rs) /\ rs[gs[h].at].page = "main"
    <2>1. hs[h].at \in 0..MaxRoutes /\ hs[h].at <= Len(routes) /\ routes[hs[h].at].page = "main"
          /\ gs[h].at = hs[h].at /\ hs[h].at # Len(routes)
      BY <1>6, <1>7 DEF Placed, Handler
    <2>2. hs[h].at \in 1..Len(routes) - 1
      BY <2>1, <1>3, <1>7, ShellAssumption
    <2> QED
      BY <2>1, <2>2, <1>3
  <1>8. Placed(gs, rs)
    BY <1>6, <1>7 DEF Placed
  <1> QED
    BY <1>1, <1>5, <1>8

\* How a step leaves the types of MainShell: the new Navigator and handlers, and the flags.
LEMMA ShellTypeByParts ==
  ASSUME NEW rs, NEW gs, rs = routes', gs = handler', Standing(rs), Placed(gs, rs), ShellFlags'
  PROVE  ShellTypeOK'
  <1>1. DOMAIN rs = 1..Len(rs)
    BY DEF Standing
  <1> QED
    BY <1>1 DEF ShellTypeOK, Standing, Placed, ShellFlags

LEMMA FlagsStay ==
  ASSUME ShellTypeOK, [ShellNext]_shellVars
  PROVE  ShellFlags'
  <1>1. ShellFlags
    BY ShellTypeParts
  <1>2. CASE GoBack
    BY <1>1, <1>2 DEF GoBack, Pop, ShellFlags
  <1>3. CASE DisposeMain \/ LeaveMain \/ LogInAgain \/ VideoLink
    BY <1>1, <1>3 DEF DisposeMain, LeaveMain, LogInAgain, Open, VideoLink, ShellFlags
  <1>4. CASE ConnectionLost \/ ConnectionBack
    BY <1>1, <1>4 DEF ConnectionLost, ConnectionBack, ShellFlags
  <1>5. CASE ArticleLink
    BY <1>1, <1>5 DEF ArticleLink, ShellFlags
  <1>6. ASSUME NEW h \in Handlers, TryAgain(h) PROVE ShellFlags'
    BY <1>1, <1>6 DEF TryAgain, ShellFlags
  <1>7. ASSUME NEW h \in Handlers, NEW yes \in BOOLEAN, Retried(h, yes) PROVE ShellFlags'
    BY <1>1, <1>7 DEF Retried, Uses, Pop, ShellFlags
  <1>8. ASSUME NEW h \in Handlers, NEW yes \in BOOLEAN, VideoArrives(h, yes) PROVE ShellFlags'
    BY <1>1, <1>8 DEF VideoArrives, Uses, ShellFlags
  <1>9. CASE UNCHANGED shellVars
    BY <1>1, <1>9 DEF shellVars, ShellFlags
  <1> QED
    BY <1>2, <1>3, <1>4, <1>5, <1>6, <1>7, <1>8, <1>9 DEF ShellNext

\* A handler that ends stands for none.
LEMMA EndedPlaced ==
  ASSUME ShellTypeOK, NEW h \in Handlers
  PROVE  Placed(Ended(h), routes)
  <1>1. NoHandler \in Handler /\ NoHandler.at = 0
    BY ShellAssumption DEF NoHandler, Handler
  <1>2. Placed(handler, routes)
    BY ShellTypeParts
  <1> QED
    BY <1>1, <1>2 DEF Ended, Placed

\* Handlers that keep their places, whatever else of them changes.
LEMMA PlacesStay ==
  ASSUME ShellTypeOK, NEW gs \in [Handlers -> Handler], \A h \in Handlers : gs[h].at = handler[h].at
  PROVE  Placed(gs, routes)
  BY ShellTypeParts DEF Placed

LEMMA ShellTypeInit == ShellInit => ShellTypeOK
  <1> SUFFICES ASSUME ShellInit PROVE ShellTypeOK
    OBVIOUS
  <1>1. Plain("main") \in Route /\ Plain("main").of = 0
    BY ShellAssumption DEF Plain, Route
  <1>2. NoHandler \in Handler /\ NoHandler.at = 0
    BY ShellAssumption DEF NoHandler, Handler
  <1>3. routes \in Seq(Route) /\ Len(routes) = 1 /\ routes[1].of = 0
    BY <1>1 DEF ShellInit
  <1>4. Standing(routes)
    BY <1>3, ShellAssumption DEF Standing
  <1>5. Placed(handler, routes)
    BY <1>2 DEF ShellInit, Placed
  <1>6. ShellFlags
    BY DEF ShellInit, ShellFlags
  <1> QED
    BY <1>4, <1>5, <1>6, ShellTypeParts

\* Steps that leave the Navigator alone.
LEMMA HandlersStep ==
  ASSUME ShellTypeOK, routes' = routes, ShellFlags', NEW gs, gs = handler', Placed(gs, routes)
  PROVE  ShellTypeOK'
  <1>1. Standing(routes)
    BY ShellTypeParts
  <1> QED
    BY <1>1, ShellTypeByParts

LEMMA TryAgainTypes ==
  ASSUME ShellTypeOK, ShellFlags', NEW h \in Handlers, TryAgain(h)
  PROVE  ShellTypeOK'
  <1>1. Shows("sheet") /\ routes' = routes
    BY DEF TryAgain
  <1>2. /\ Len(routes) \in Nat /\ \A k \in 1..Len(routes) : routes[k] \in Route
        /\ routes \in Seq(Route) /\ Standing(routes) /\ Placed(handler, routes)
    BY ShellTypedByType, ShellTypeParts DEF Standing
  <1>3. Len(routes) \in 1..Len(routes)
    BY <1>1, <1>2, FrontProperties DEF Shows
  <1>4. PICK i : i = Visible.of
    OBVIOUS
  <1>5. i \in 0..MaxRoutes /\ (i > 0 => i <= Len(routes) /\ routes[i].page = "main")
    <2>1. routes[Len(routes)] \in Route
      BY <1>2, <1>3
    <2>2. i = routes[Len(routes)].of
      BY <1>4 DEF Visible
    <2>3. i \in 0..MaxRoutes
      BY <2>1, <2>2 DEF Route
    <2>4. i > 0 => i < Len(routes) /\ routes[i].page = "main"
      BY <2>2, <1>2, <1>3 DEF Standing
    <2> QED
      BY <2>3, <2>4, <1>2, ShellAssumption
  <1>6. PICK life \in {"shown", "gone", "exiting"} :
          handler' = [handler EXCEPT ![h] = Started("retry", i, life, {online})]
    BY <1>4 DEF TryAgain
  <1>7. PICK new : new = Started("retry", i, life, {online})
    OBVIOUS
  <1>8. new \in Handler /\ new.at = i
    BY <1>5, <1>7, ShellTypeParts DEF Started, Handler, ShellFlags
  <1>9. PICK gs : gs = handler'
    OBVIOUS
  <1>10. gs = [handler EXCEPT ![h] = new]
    BY <1>6, <1>7, <1>9
  <1>11. Placed(gs, routes)
    BY <1>2, <1>5, <1>8, <1>10 DEF Placed
  <1> QED
    BY <1>1, <1>9, <1>11, HandlersStep

LEMMA VideoLinkTypes ==
  ASSUME ShellTypeOK, ShellFlags', VideoLink
  PROVE  ShellTypeOK'
  <1>0. PICK ls \in Listening : \E f \in [DOMAIN ls -> Of("none")] :
          handler' = [h \in Handlers |->
            IF \E n \in DOMAIN f : f[n] = h
              THEN LET i == ls[CHOOSE n \in DOMAIN f : f[n] = h]
                   IN  Started("video", i, IF i > 0 THEN "shown" ELSE "exiting", {})
              ELSE handler[h]]
    BY DEF VideoLink
  <1>1. PICK f \in [DOMAIN ls -> Of("none")] :
          handler' = [h \in Handlers |->
            IF \E n \in DOMAIN f : f[n] = h
              THEN LET i == ls[CHOOSE n \in DOMAIN f : f[n] = h]
                   IN  Started("video", i, IF i > 0 THEN "shown" ELSE "exiting", {})
              ELSE handler[h]]
    BY <1>0
  <1>2. PICK gs : gs = handler'
    OBVIOUS
  <1>3. /\ Len(routes) \in Nat /\ Len(routes) <= MaxRoutes /\ Placed(handler, routes)
    BY ShellTypedByType, ShellTypeParts DEF Standing
  <1>4. ASSUME NEW i, i = 0 \/ (i \in 1..Len(routes) /\ routes[i].page = "main")
        PROVE  LET d == Started("video", i, IF i > 0 THEN "shown" ELSE "exiting", {}) IN
               d \in Handler /\ d.at = i
    <2>1. i \in 0..MaxRoutes
      BY <1>3, <1>4, ShellAssumption
    <2> QED
      BY <2>1 DEF Started, Handler
  <1>5. /\ DOMAIN ls = 1..Len(ls)
        /\ \A j \in 1..Len(ls) : ls[j] = 0 \/ (ls[j] \in 1..Len(routes) /\ routes[ls[j]].page = "main")
    BY ListenersAreMains
  <1>6. ASSUME NEW h \in Handlers
        PROVE  /\ gs[h] \in Handler
               /\ gs[h].at > 0 => gs[h].at <= Len(routes) /\ routes[gs[h].at].page = "main"
    <2>1. CASE \E n \in DOMAIN f : f[n] = h
      <3>1. PICK m : m = CHOOSE n \in DOMAIN f : f[n] = h
        OBVIOUS
      <3>2. m \in DOMAIN ls
        BY <2>1, <3>1
      <3>3. PICK i : i = ls[m]
        OBVIOUS
      <3>4. i = 0 \/ (i \in 1..Len(routes) /\ routes[i].page = "main")
        BY <3>2, <3>3, <1>5
      <3>5. gs[h] = Started("video", i, IF i > 0 THEN "shown" ELSE "exiting", {})
        BY <2>1, <3>1, <3>3, <1>1, <1>2
      <3>6. gs[h] \in Handler /\ gs[h].at = i
        BY <3>4, <3>5, <1>4
      <3> QED
        BY <3>4, <3>6, <1>3
    <2>2. CASE ~\E n \in DOMAIN f : f[n] = h
      <3>1. gs[h] = handler[h]
        BY <2>2, <1>1, <1>2
      <3> QED
        BY <3>1, <1>3 DEF Placed
    <2> QED
      BY <2>1, <2>2
  <1>7. gs \in [Handlers -> Handler]
    BY <1>1, <1>2, <1>6
  <1>8. Placed(gs, routes)
    BY <1>6, <1>7 DEF Placed
  <1>9. routes' = routes
    BY DEF VideoLink
  <1> QED
    BY <1>2, <1>8, <1>9, HandlersStep

\* Routes that a loss of the connection, or a link, puts on top.
LEMMA OnTopTypes ==
  ASSUME ShellTypeOK, ShellFlags', NEW gs, gs = handler', Placed(gs, routes), NEW ls \in Listening,
         NEW t, DOMAIN t = DOMAIN ls, NEW sheets \in BOOLEAN,
         t = [n \in DOMAIN ls |-> IF sheets THEN SheetOf(ls[n]) ELSE Plain("content")],
         routes' = routes \o t, Len(routes') <= MaxRoutes
  PROVE  ShellTypeOK'
  <1>1. /\ ls \in Seq(Nat) /\ Len(ls) \in Nat /\ DOMAIN ls = 1..Len(ls)
        /\ \A j \in 1..Len(ls) : ls[j] = 0 \/ (ls[j] \in 1..Len(routes) /\ routes[ls[j]].page = "main")
    BY ListenersAreMains
  <1>2. /\ Len(routes) \in Nat /\ Len(routes) <= MaxRoutes /\ routes \in Seq(Route)
    BY ShellTypedByType, ShellTypeParts DEF Standing
  <1>3. Plain("content") \in Route /\ Plain("content").of = 0
    BY ShellAssumption DEF Plain, Route
  <1>4. ASSUME NEW i, i = 0 \/ (i \in 1..Len(routes) /\ routes[i].page = "main")
        PROVE  SheetOf(i) \in Route /\ SheetOf(i).of = i
    <2>1. i \in 0..MaxRoutes
      BY <1>2, <1>4, ShellAssumption
    <2> QED
      BY <2>1 DEF SheetOf, Route
  <1>5. ASSUME NEW j \in 1..Len(ls)
        PROVE  /\ t[j] \in Route
               /\ t[j].of = 0 \/ (t[j].of \in 1..Len(routes) /\ routes[t[j].of].page = "main")
    <2>1. PICK i : i = ls[j]
      OBVIOUS
    <2>2. i = 0 \/ (i \in 1..Len(routes) /\ routes[i].page = "main")
      BY <2>1, <1>1
    <2>3. t[j] = IF sheets THEN SheetOf(i) ELSE Plain("content")
      BY <2>1, <1>1
    <2> QED
      BY <2>2, <2>3, <1>3, <1>4
  <1>6. t \in Seq(Route) /\ Len(t) = Len(ls)
    <2>1. t \in [1..Len(ls) -> Route]
      BY <1>1, <1>5
    <2> QED
      BY <2>1, <1>1, SeqDef
  <1>7. PICK rs : rs = routes'
    OBVIOUS
  <1>8. Len(routes) + Len(t) <= MaxRoutes
    <2>1. Len(rs) = Len(routes) + Len(t)
      BY <1>2, <1>6, <1>7, ConcatProperties
    <2> QED
      BY <2>1, <1>7
  <1>9. Standing(rs)
    BY <1>5, <1>6, <1>7, <1>8, StandingExtended
  <1>10. Placed(gs, rs)
    <2>1. \A k \in 1..Len(routes) : k \in 1..Len(rs) /\ rs[k] = routes[k]
      BY <1>2, <1>6, <1>7, Extended
    <2>2. ASSUME NEW h \in Handlers, gs[h].at > 0
          PROVE  gs[h].at <= Len(rs) /\ rs[gs[h].at].page = "main"
      <3>1. gs[h].at \in 0..MaxRoutes /\ gs[h].at <= Len(routes) /\ routes[gs[h].at].page = "main"
        BY <2>2 DEF Placed, Handler
      <3>2. gs[h].at \in 1..Len(routes)
        BY <3>1, <2>2, <1>2, ShellAssumption
      <3> QED
        BY <3>1, <3>2, <2>1
    <2> QED
      BY <2>2 DEF Placed
  <1> QED
    BY <1>7, <1>9, <1>10, ShellTypeByParts

\* MainShell's variables keep their types; a sheet keeps lying over its MainScreen, and a
\* handler keeps standing for one that is on the Navigator, whatever is popped (main_screen.dart:76).
THEOREM ShellTypeCorrect == ShellSpec => []ShellTypeOK
  <1>1. ShellTypeOK /\ [ShellNext]_shellVars => ShellTypeOK'
    <2> SUFFICES ASSUME ShellTypeOK, [ShellNext]_shellVars PROVE ShellTypeOK'
      OBVIOUS
    <2>0. ShellFlags' /\ Placed(handler, routes) /\ Standing(routes) /\ ShellTyped
      BY FlagsStay, ShellTypeParts, ShellTypedByType
    <2> DEFINE gs == handler'
    <2>1. CASE GoBack
      <3>1. routes # <<>> /\ Pop(handler)
        BY <2>1, <2>0, EmptySeq DEF GoBack
      <3> QED
        BY <3>1, <2>0, StandingPopped, ShellTypeByParts
    <2>2. CASE DisposeMain
      <3>1. ASSUME NEW c \in Handler, NEW d, d = [c EXCEPT !.life = "gone"]
            PROVE  d \in Handler /\ d.at = c.at
        BY <3>1 DEF Handler
      <3>2. ASSUME NEW h \in Handlers PROVE gs[h] \in Handler /\ gs[h].at = handler[h].at
        <4>1. handler[h] \in Handler
          BY <2>0 DEF Placed
        <4>2. gs[h] = IF handler[h].life = "exiting" THEN [handler[h] EXCEPT !.life = "gone"] ELSE handler[h]
          BY <2>2 DEF DisposeMain
        <4> QED
          BY <4>1, <4>2, <3>1
      <3>3. gs \in [Handlers -> Handler] /\ routes' = routes
        BY <2>2, <3>2 DEF DisposeMain
      <3> HIDE DEF gs
      <3>4. Placed(gs, routes)
        BY <3>2, <3>3, PlacesStay
      <3> QED
        BY <3>3, <3>4, <2>0, HandlersStep DEF gs
    <2>3. CASE LeaveMain \/ LogInAgain
      <3>1. PICK p \in {"main", "other"} : Open(p)
        BY <2>3 DEF LeaveMain, LogInAgain
      <3>2. PICK rs : rs = routes'
        OBVIOUS
      <3>3. Standing(rs) /\ Placed(handler, rs) /\ handler' = handler
        BY <3>1, <3>2, <2>0, StandingOpened DEF Open
      <3> QED
        BY <3>2, <3>3, <2>0, ShellTypeByParts
    <2>4. CASE ConnectionLost \/ ConnectionBack
      <3>1. PICK now \in BOOLEAN : Noticed(now)
        BY <2>4 DEF ConnectionLost, ConnectionBack
      <3>2. ASSUME NEW c \in Handler, NEW d, d = [c EXCEPT !.seen = @ \cup {now}]
            PROVE  d \in Handler /\ d.at = c.at
        BY <3>2 DEF Handler
      <3>3. ASSUME NEW h \in Handlers PROVE gs[h] \in Handler /\ gs[h].at = handler[h].at
        <4>1. handler[h] \in Handler
          BY <2>0 DEF Placed
        <4>2. gs[h] = IF h \in Of("retry") THEN [handler[h] EXCEPT !.seen = @ \cup {now}] ELSE handler[h]
          BY <3>1 DEF Noticed
        <4> QED
          BY <4>1, <4>2, <3>2
      <3>4. gs \in [Handlers -> Handler]
        BY <3>1, <3>3 DEF Noticed
      <3> HIDE DEF gs
      <3>5. Placed(gs, routes)
        BY <3>3, <3>4, PlacesStay
      <3>6. CASE ConnectionBack
        BY <3>5, <3>6, <2>0, HandlersStep DEF ConnectionBack, gs
      <3>7. CASE ConnectionLost
        <4>1. PICK ls \in Listening : routes' = routes \o NewSheets(ls) /\ Len(routes') <= MaxRoutes
          BY <3>7 DEF ConnectionLost
        <4>2. PICK t : t = NewSheets(ls)
          OBVIOUS
        <4>3. DOMAIN t = DOMAIN ls /\ t = [n \in DOMAIN ls |-> IF TRUE THEN SheetOf(ls[n]) ELSE Plain("content")]
          BY <4>2 DEF NewSheets
        <4> QED
          BY <4>1, <4>2, <4>3, <3>5, <2>0, OnTopTypes DEF gs
      <3> QED
        BY <2>4, <3>6, <3>7
    <2>5. CASE ArticleLink
      <3>1. PICK ls \in Listening : /\ routes' = routes \o [n \in DOMAIN ls |-> Plain("content")]
                                    /\ Len(routes') <= MaxRoutes
        BY <2>5 DEF ArticleLink
      <3>2. PICK t : t = [n \in DOMAIN ls |-> Plain("content")]
        OBVIOUS
      <3>3. DOMAIN t = DOMAIN ls /\ t = [n \in DOMAIN ls |-> IF FALSE THEN SheetOf(ls[n]) ELSE Plain("content")]
        BY <3>2
      <3>4. handler' = handler
        BY <2>5 DEF ArticleLink
      <3> QED
        BY <3>1, <3>2, <3>3, <3>4, <2>0, OnTopTypes
    <2>6. CASE VideoLink
      BY <2>6, <2>0, VideoLinkTypes
    <2>7. ASSUME NEW h \in Handlers, TryAgain(h) PROVE ShellTypeOK'
      BY <2>7, <2>0, TryAgainTypes
    <2>8. ASSUME NEW h \in Handlers, NEW yes \in BOOLEAN, Retried(h, yes) PROVE ShellTypeOK'
      <3>1. Placed(Ended(h), routes)
        BY EndedPlaced
      <3>2. CASE routes' = routes /\ handler' = Ended(h)
        BY <3>1, <3>2, <2>0, HandlersStep
      <3>3. CASE routes # <<>> /\ Pop(Ended(h))
        BY <3>1, <3>3, <2>0, StandingPopped, ShellTypeByParts
      <3> QED
        BY <2>8, <3>2, <3>3 DEF Retried
    <2>9. ASSUME NEW h \in Handlers, NEW yes \in BOOLEAN, VideoArrives(h, yes) PROVE ShellTypeOK'
      <3>1. Placed(Ended(h), routes) /\ handler' = Ended(h)
        BY <2>9, EndedPlaced DEF VideoArrives
      <3>2. CASE routes' = routes
        BY <3>1, <3>2, <2>0, HandlersStep
      <3>3. CASE Len(routes) < MaxRoutes /\ routes' = Append(routes, Plain("content"))
        <4>1. PICK rs : rs = routes'
          OBVIOUS
        <4>2. Standing(rs) /\ Placed(Ended(h), rs)
          BY <3>1, <3>3, <4>1, StandingOpened
        <4> QED
          BY <3>1, <4>1, <4>2, <2>0, ShellTypeByParts
      <3> QED
        BY <2>9, <3>2, <3>3 DEF VideoArrives
    <2>10. CASE UNCHANGED shellVars
      BY <2>10 DEF shellVars, ShellTypeOK
    <2> QED
      BY <2>1, <2>2, <2>3, <2>4, <2>5, <2>6, <2>7, <2>8, <2>9, <2>10 DEF ShellNext
  <1> QED
    BY <1>1, ShellTypeInit, PTL DEF ShellSpec

-----------------------------------------------------------------------------
(* The types of Settings and of VideoReader.                               *)

\* At most one call is heard, by a home tab that draws nothing meanwhile.
Hearing(calls) ==
  /\ \A m, n \in 1..Len(calls) : calls[m].role = "heard" /\ calls[n].role = "heard" => m = n
SettingsFlags ==
  /\ {home, newsLoaded, switched, drifted} \subseteq BOOLEAN
  /\ {listed, drawn} \subseteq Languages \cup {Nothing}
  /\ {locale, stored, profile} \subseteq Languages
NewsTyped ==
  /\ newsCalls \in Seq(NewsCall) /\ Len(newsCalls) <= MaxNews
  /\ Hearing(newsCalls)
  /\ \A n \in 1..Len(newsCalls) : newsCalls[n].role = "heard" => home /\ drawn = Nothing
UpdatesTyped == updates \in Seq(Update) /\ Len(updates) <= MaxUpdates

LEMMA SettingsTypeParts == SettingsTypeOK <=> SettingsFlags /\ NewsTyped /\ UpdatesTyped
  <1>1. ASSUME newsCalls \in Seq(NewsCall) PROVE DOMAIN newsCalls = 1..Len(newsCalls)
    BY <1>1
  <1> QED
    BY <1>1 DEF SettingsTypeOK, SettingsFlags, NewsTyped, Hearing, UpdatesTyped

\* A build hears its own call, and no other.
LEMMA BuildTypes ==
  ASSUME NEW calls \in Seq(NewsCall), newsLoaded \in BOOLEAN, locale' \in Languages, Build(calls), home'
  PROVE  NewsTyped'
  <1>1. PICK q : q = newsCalls'
    OBVIOUS
  <1>2. PICK l : l = locale'
    OBVIOUS
  <1>3. /\ q \in Seq(NewsCall)
        /\ \A k \in 1..Len(q) :
             \/ k \in 1..Len(calls) /\ q[k].role = IF calls[k].role = "heard" THEN "unheard" ELSE calls[k].role
             \/ k = Len(calls) + 1
    BY <1>1, RebuiltCalls DEF Build
  <1>4. \A k \in 1..Len(q) : q[k].role = "heard" => k = Len(calls) + 1
    BY <1>3
  <1>5. Hearing(q)
    BY <1>4 DEF Hearing
  <1>6. Len(q) <= MaxNews /\ drawn' = Nothing
    BY <1>1 DEF Build
  <1> QED
    BY <1>1, <1>3, <1>5, <1>6 DEF NewsTyped, Hearing

\* Calls that are left, each with the role it had or heard no more.
LEMMA CallsLeft ==
  ASSUME NewsTyped, NEW q \in Seq(NewsCall), Len(q) <= Len(newsCalls), q = newsCalls',
         NEW n \in 0..Len(newsCalls),
         \A k \in 1..Len(q) : LET j == IF n = 0 \/ k < n THEN k ELSE k + 1 IN
           j \in 1..Len(newsCalls) /\ j # n /\ (q[k].role = "heard" => newsCalls[j].role = "heard"),
         \A k \in 1..Len(q) : q[k].role = "heard" => home' /\ drawn' = Nothing
  PROVE  NewsTyped'
  <1>1. Len(q) <= MaxNews
    BY SettingsAssumption DEF NewsTyped
  <1>2. Hearing(q)
    BY SMTT(30) DEF NewsTyped, Hearing
  <1> QED
    BY <1>1, <1>2 DEF NewsTyped, Hearing

\* The variables of Settings keep their types: across builds, answers and restarts the FutureBuilder hears
\* one call at most, and draws nothing while it waits (home_screen.dart's section of news).
THEOREM SettingsTypeCorrect == SettingsSpec => []SettingsTypeOK
  <1>1. SettingsInit => SettingsTypeOK
    <2> SUFFICES ASSUME SettingsInit PROVE SettingsTypeOK
      OBVIOUS
    <2>1. Len(newsCalls) = 0 /\ Len(updates) = 0 /\ newsCalls \in Seq(NewsCall) /\ updates \in Seq(Update)
      BY EmptySeq DEF SettingsInit
    <2>2. \A k \in 1..0 : FALSE
      OBVIOUS
    <2>3. NewsTyped
      BY <2>1, <2>2, SettingsAssumption DEF NewsTyped, Hearing
    <2>4. UpdatesTyped
      BY <2>1, SettingsAssumption DEF UpdatesTyped
    <2>5. SettingsFlags
      BY DEF SettingsInit, SettingsFlags
    <2> QED
      BY <2>3, <2>4, <2>5, SettingsTypeParts
  <1>2. SettingsTypeOK /\ [SettingsNext]_settingsVars => SettingsTypeOK'
    <2> SUFFICES ASSUME SettingsTypeOK, [SettingsNext]_settingsVars PROVE SettingsTypeOK'
      OBVIOUS
    <2>0. /\ SettingsFlags /\ NewsTyped /\ UpdatesTyped
          /\ newsCalls \in Seq(NewsCall) /\ Len(newsCalls) \in Nat /\ DOMAIN newsCalls = 1..Len(newsCalls)
          /\ \A k \in 1..Len(newsCalls) : newsCalls[k] \in NewsCall
      BY SettingsTypeParts DEF NewsTyped
    <2>a. ASSUME SettingsFlags', NewsTyped', UpdatesTyped' PROVE SettingsTypeOK'
      <3>1. PICK q : q = newsCalls'
        OBVIOUS
      <3>2. DOMAIN q = 1..Len(q)
        BY <2>a, <3>1 DEF NewsTyped
      <3> QED
        BY <2>a, <3>1, <3>2 DEF SettingsTypeOK, SettingsFlags, NewsTyped, Hearing, UpdatesTyped
    <2>1. CASE OpenNews
      <3> DEFINE first == [of |-> locale, role |-> "unheard"]
      <3>1. first \in NewsCall
        BY <2>0 DEF NewsCall, SettingsFlags
      <3>2. Append(newsCalls, first) \in Seq(NewsCall)
        BY <3>1, <2>0, AppendProperties
      <3>3. Build(Append(newsCalls, first)) /\ home' /\ locale' = locale
        BY <2>1 DEF OpenNews, languageVars
      <3>4. NewsTyped'
        BY <3>2, <3>3, <2>0, BuildTypes DEF SettingsFlags
      <3>5. SettingsFlags' /\ UpdatesTyped'
        BY <2>1, <2>0 DEF OpenNews, Build, languageVars, SettingsFlags, UpdatesTyped
      <3> QED
        BY <3>4, <3>5, <2>a
    <2>2. CASE LeaveNews
      <3>1. PICK q : q = newsCalls'
        OBVIOUS
      <3>2. \A c \in NewsCall : [c EXCEPT !.role = "orphan"] \in NewsCall
            /\ [c EXCEPT !.role = "orphan"].role = "orphan"
        BY DEF NewsCall
      <3>3. /\ q \in [1..Len(newsCalls) -> NewsCall]
            /\ \A k \in 1..Len(newsCalls) : q[k].role = "orphan"
        BY <2>2, <3>1, <3>2, <2>0 DEF LeaveNews
      <3>4. q \in Seq(NewsCall) /\ Len(q) = Len(newsCalls)
        BY <3>3, <2>0, SeqDef
      <3>5. Hearing(q) /\ \A k \in 1..Len(q) : q[k].role # "heard"
        BY <3>3, <3>4 DEF Hearing
      <3>6. NewsTyped'
        BY <3>1, <3>4, <3>5, <2>0 DEF NewsTyped, Hearing
      <3>7. SettingsFlags' /\ UpdatesTyped'
        BY <2>2, <2>0 DEF LeaveNews, languageVars, SettingsFlags, UpdatesTyped
      <3> QED
        BY <3>6, <3>7, <2>a
    <2>3. CASE TapTheme
      <3>1. Build(newsCalls) /\ home' /\ locale' = locale
        BY <2>3 DEF TapTheme, languageVars
      <3>2. NewsTyped'
        BY <3>1, <2>0, BuildTypes DEF SettingsFlags
      <3>3. SettingsFlags' /\ UpdatesTyped'
        BY <2>3, <2>0 DEF TapTheme, Build, languageVars, SettingsFlags, UpdatesTyped
      <3> QED
        BY <3>2, <3>3, <2>a
    <2>4. CASE Flush
      <3>1. SettingsFlags' /\ UpdatesTyped' /\ NewsTyped'
        BY <2>4, <2>0 DEF Flush, newsVars, SettingsFlags, UpdatesTyped, NewsTyped, Hearing
      <3> QED
        BY <3>1, <2>a
    <2>5. CASE Die
      <3>1. <<>> \in Seq(NewsCall) /\ Len(<<>>) = 0 /\ \A k \in 1..0 : FALSE
        BY EmptySeq
      <3>2. NewsTyped'
        BY <2>5, <3>1, SettingsAssumption DEF Die, NewsTyped, Hearing
      <3>3. SettingsFlags' /\ UpdatesTyped'
        BY <2>5, <2>0 DEF Die, SettingsFlags, UpdatesTyped
      <3> QED
        BY <3>2, <3>3, <2>a
    <2>6. ASSUME NEW n \in DOMAIN newsCalls, NEW got \in NewsOutcomes, NewsAnswered(n, got)
          PROVE  SettingsTypeOK'
      <3>1. PICK q : q = newsCalls'
        OBVIOUS
      <3>2. /\ q \in Seq(NewsCall) /\ Len(q) = Len(newsCalls) - 1 /\ n \in 1..Len(newsCalls)
            /\ \A k \in 1..Len(newsCalls) - 1 : q[k] = IF k < n THEN newsCalls[k] ELSE newsCalls[k + 1]
        BY <2>6, <3>1, <2>0, RemoveAtProperties DEF NewsAnswered
      <3>3. PICK c : c = newsCalls[n]
        OBVIOUS
      <3>4. /\ c \in NewsCall /\ home' = home
            /\ drawn' = IF c.role = "heard" THEN (IF got = "some" THEN c.of ELSE Nothing) ELSE drawn
        BY <2>6, <3>2, <3>3, <2>0 DEF NewsAnswered
      <3>5. \A k \in 1..Len(q) : LET j == IF n = 0 \/ k < n THEN k ELSE k + 1 IN
              j \in 1..Len(newsCalls) /\ j # n /\ q[k] = newsCalls[j]
        BY <3>2, <2>0
      <3>6. ASSUME NEW k \in 1..Len(q), q[k].role = "heard"
            PROVE  home' /\ drawn' = Nothing
        <4>1. PICK j \in 1..Len(newsCalls) : j # n /\ q[k] = newsCalls[j]
          BY <3>5
        <4>2. c.role # "heard" /\ home /\ drawn = Nothing
          BY <4>1, <3>2, <3>3, <3>6, <2>0 DEF NewsTyped, Hearing
        <4> QED
          BY <4>2, <3>4
      <3>7. NewsTyped'
        BY <3>1, <3>2, <3>5, <3>6, <2>0, CallsLeft
      <3>8. c.of \in Languages
        BY <3>4 DEF NewsCall
      <3>9. SettingsFlags' /\ UpdatesTyped'
        BY <2>6, <3>3, <3>8, <2>0 DEF NewsAnswered, languageVars, SettingsFlags, UpdatesTyped
      <3> QED
        BY <3>7, <3>9, <2>a
    <2>7. ASSUME NEW l \in Languages, NEW guest \in BOOLEAN, TapLanguage(l, guest)
          PROVE  SettingsTypeOK'
      <3>1. [of |-> l, late |-> FALSE] \in Update
        BY DEF Update
      <3>2. UpdatesTyped'
        <4>1. updates' = updates \/ updates' = Append(updates, [of |-> l, late |-> FALSE])
          BY <2>7 DEF TapLanguage, Told
        <4>2. Len(updates) < MaxUpdates /\ updates \in Seq(Update) /\ Len(updates) \in Nat
          BY <2>7, <2>0 DEF TapLanguage, UpdatesTyped
        <4>3. CASE updates' = updates
          BY <4>3, <2>0 DEF UpdatesTyped
        <4>4. CASE updates' = Append(updates, [of |-> l, late |-> FALSE])
          <5>1. updates' \in Seq(Update) /\ Len(updates') = Len(updates) + 1
            BY <3>1, <4>2, <4>4, AppendProperties
          <5> QED
            BY <5>1, <4>2, SettingsAssumption DEF UpdatesTyped
        <4> QED
          BY <4>1, <4>3, <4>4
      <3>3. NewsTyped'
        <4>1. CASE home /\ l # locale
          <5>1. Build(newsCalls) /\ home' /\ locale' = l
            BY <2>7, <4>1 DEF TapLanguage
          <5> QED
            BY <5>1, <2>0, BuildTypes DEF SettingsFlags
        <4>2. CASE ~(home /\ l # locale)
          <5>1. newsCalls' = newsCalls /\ drawn' = drawn /\ home' = home
            BY <2>7, <4>2 DEF TapLanguage
          <5> QED
            BY <5>1, <2>0 DEF NewsTyped, Hearing
        <4> QED
          BY <4>1, <4>2
      <3>4. SettingsFlags'
        BY <2>7, <2>0 DEF TapLanguage, Build, SettingsFlags
      <3> QED
        BY <3>2, <3>3, <3>4, <2>a
    <2>8. ASSUME NEW n \in DOMAIN updates, Updated(n) \/ UpdateLost(n)
          PROVE  SettingsTypeOK'
      <3>1. updates \in Seq(Update) /\ Len(updates) \in Nat /\ DOMAIN updates = 1..Len(updates)
            /\ Len(updates) <= MaxUpdates /\ updates[n] \in Update
        BY <2>0 DEF UpdatesTyped
      <3>2. updates' \in Seq(Update) /\ Len(updates') = Len(updates) - 1
        <4>1. CASE UpdateLost(n)
          BY <4>1, <3>1, RemoveAtProperties DEF UpdateLost
        <4>2. CASE Updated(n)
          BY <4>2, <3>1, UpdatesLeft
        <4> QED
          BY <2>8, <4>1, <4>2
      <3>3. UpdatesTyped'
        BY <3>1, <3>2, SettingsAssumption DEF UpdatesTyped
      <3>4. NewsTyped'
        BY <2>8, <2>0 DEF Updated, UpdateLost, newsVars, NewsTyped, Hearing
      <3>5. updates[n].of \in Languages /\ updates[n].late \in BOOLEAN
        BY <3>1 DEF Update
      <3>6. SettingsFlags'
        <4>1. CASE UpdateLost(n)
          BY <4>1, <2>0 DEF UpdateLost, newsVars, SettingsFlags
        <4>2. CASE Updated(n)
          BY <4>2, <3>5, <2>0 DEF Updated, newsVars, SettingsFlags
        <4> QED
          BY <2>8, <4>1, <4>2
      <3> QED
        BY <3>3, <3>4, <3>6, <2>a
    <2>9. CASE UNCHANGED settingsVars
      BY <2>9 DEF settingsVars, newsVars, languageVars, SettingsTypeOK
    <2> QED
      BY <2>1, <2>2, <2>3, <2>4, <2>5, <2>6, <2>7, <2>8, <2>9 DEF SettingsNext
  <1> QED
    BY <1>1, <1>2, PTL DEF SettingsSpec

\* What the types of VideoReader say beyond VideoTyped: the bounds, the marks, and slides at the bottom.
VideoRest ==
  /\ Len(shown) <= MaxShown /\ Len(videoCalls) <= MaxVideoCalls
  /\ \A k \in 1..Len(shown) : shown[k].page = "slide" => k = 1
  /\ settled \in BOOLEAN /\ marks \in [Buttons -> BOOLEAN]

LEMMA VideoRestStep == VideoInv /\ VideoInv' /\ VideoRest /\ [VideoNext]_videoVars => VideoRest'
  <1> SUFFICES ASSUME VideoInv, VideoInv', VideoRest, [VideoNext]_videoVars PROVE VideoRest'
    OBVIOUS
  <1> DEFINE q == videoCalls'
  <1>0. /\ shown \in Seq(Video) /\ Len(shown) \in Nat /\ videoCalls \in Seq(VideoCall) /\ Len(videoCalls) \in Nat
        /\ DOMAIN videoCalls = 1..Len(videoCalls) /\ q \in Seq(VideoCall) /\ signedIn \in BOOLEAN
        /\ MaxShown \in Nat /\ MaxVideoCalls \in Nat
    BY VideoAssumption DEF VideoInv, VideoTyped
  <1>1. ASSUME NEW v \in Videos, Built(v) PROVE Len(q) <= MaxVideoCalls /\ marks' = marks
    <2>1. Info(v) \in VideoCall
      BY <1>0, InfoIsCall
    <2>2. Len(q) = Len(videoCalls) + 1 /\ Len(videoCalls) < MaxVideoCalls
      BY <1>1, <2>1, <1>0, AppendProperties DEF Built
    <2> QED
      BY <1>0, <1>1, <2>2 DEF Built
  <1>2. ASSUME NEW v \in Videos, NEW page \in {"slide", "screen"}, OpenVideo(v, page) PROVE VideoRest'
    <2>1. PICK c : c = [video |-> v, page |-> page]
      OBVIOUS
    <2>2. c \in Video /\ c.page = page
      BY <2>1 DEF Video
    <2>3. PICK s : s = shown'
      OBVIOUS
    <2>4. /\ s \in Seq(Video) /\ Len(s) = Len(shown) + 1 /\ s[Len(shown) + 1] = c
          /\ \A k \in 1..Len(shown) : s[k] = shown[k]
      BY <1>2, <2>1, <2>2, <2>3, <1>0, AppendProperties DEF OpenVideo
    <2>5. page = "slide" => Len(shown) = 0
      <3>1. SUFFICES ASSUME page = "slide" PROVE Len(shown) = 0
        OBVIOUS
      <3>2. shown = <<>>
        BY <1>2, <3>1 DEF OpenVideo
      <3> QED
        BY <3>2, <1>0, EmptySeq
    <2>6. ASSUME NEW k \in 1..Len(s), s[k].page = "slide" PROVE k = 1
      <3>1. CASE k \in 1..Len(shown)
        BY <2>4, <2>6, <3>1 DEF VideoRest
      <3>2. CASE k = Len(shown) + 1
        BY <2>2, <2>4, <2>5, <2>6, <3>2
      <3> QED
        BY <2>4, <3>1, <3>2, <1>0
    <2>7. Len(s) <= MaxShown
      BY <1>2, <2>4, <1>0 DEF OpenVideo
    <2> QED
      BY <1>1, <1>2, <2>3, <2>6, <2>7 DEF OpenVideo, VideoRest
  <1>3. ASSUME NEW v \in Videos, NEW there \in BOOLEAN, Swipe(v, there) PROVE VideoRest'
    <2>1. PICK s : s = shown'
      OBVIOUS
    <2>2. Len(s) = Len(shown) /\ \A k \in 1..Len(shown) : s[k].page = shown[k].page
      <3>1. CASE there
        <4>1. s = [shown EXCEPT ![Len(shown)].video = v]
          BY <1>3, <2>1, <3>1 DEF Swipe
        <4>2. DOMAIN shown = 1..Len(shown) /\ \A k \in 1..Len(shown) : shown[k] \in Video
          BY <1>0
        <4>3. ASSUME NEW c \in Video PROVE [c EXCEPT !.video = v].page = c.page
          BY DEF Video
        <4>4. \A k \in 1..Len(shown) : s[k] = IF k = Len(shown) THEN [shown[k] EXCEPT !.video = v] ELSE shown[k]
          BY <4>1, <4>2
        <4>5. ASSUME NEW k \in 1..Len(shown) PROVE s[k].page = shown[k].page
          <5>1. PICK c : c = shown[k]
            OBVIOUS
          <5>2. c \in Video /\ s[k] = IF k = Len(shown) THEN [c EXCEPT !.video = v] ELSE c
            BY <5>1, <4>2, <4>4
          <5> QED
            BY <5>1, <5>2, <4>3
        <4>6. s \in Seq(Video) /\ DOMAIN s = DOMAIN shown
          BY <4>1, <2>1 DEF VideoInv, VideoTyped
        <4>7. Len(s) = Len(shown)
          BY <4>6, <1>0
        <4> QED
          BY <4>5, <4>7
      <3>2. CASE ~there
        BY <1>3, <2>1, <3>2 DEF Swipe
      <3> QED
        BY <3>1, <3>2
    <2>3. Len(s) <= MaxShown /\ \A k \in 1..Len(s) : s[k].page = "slide" => k = 1
      BY <2>2 DEF VideoRest
    <2>4. settled' \in BOOLEAN
      BY <1>3 DEF Swipe, VideoRest
    <2> QED
      BY <1>1, <1>3, <2>1, <2>3, <2>4 DEF Swipe, VideoRest
  <1>4. CASE CloseVideo
    <2>1. PICK s : s = shown'
      OBVIOUS
    <2>2. /\ Len(shown) \in Nat \ {0} /\ Len(s) = Len(shown) - 1
          /\ \A k \in 1..Len(shown) - 1 : s[k] = shown[k]
      BY <1>4, <2>1, <1>0, FrontProperties DEF CloseVideo
    <2>3. \A k \in 1..Len(s) : s[k].page = "slide" => k = 1
      BY <2>2 DEF VideoRest
    <2>4. Len(s) <= MaxShown
      BY <2>2, <1>0 DEF VideoRest
    <2> QED
      BY <1>4, <2>1, <2>3, <2>4 DEF CloseVideo, VideoRest
  <1>5. CASE ChangeSignedIn
    <2>1. Len(q) = Len(videoCalls)
      BY <1>5, LateCalls DEF ChangeSignedIn, VideoInv
    <2> QED
      BY <1>5, <2>1 DEF ChangeSignedIn, VideoRest
  <1>6. ASSUME NEW b \in Buttons, TapButton(b) PROVE VideoRest'
    <2>1. shown[Len(shown)] \in Video
      BY <1>6, <1>0, FrontProperties DEF TapButton
    <2>2. PICK v \in Videos : v = shown[Len(shown)].video
      BY <2>1 DEF Video
    <2>3. Toggle(v, b) \in VideoCall
      BY ToggleIsCall
    <2>4. Len(q) = Len(videoCalls) + 1 /\ Len(videoCalls) < MaxVideoCalls
      BY <1>6, <2>2, <2>3, <1>0, AppendProperties DEF TapButton
    <2>5. Len(q) <= MaxVideoCalls
      BY <2>4, <1>0
    <2> QED
      BY <1>6, <2>5 DEF TapButton, VideoRest
  <1>7. ASSUME NEW n \in DOMAIN videoCalls, ServeToggleOf(n) \/ ServeInfo(n) PROVE VideoRest'
    <2>1. DOMAIN q = DOMAIN videoCalls
      BY <1>7 DEF ServeToggleOf, ServeInfo
    <2>2. Len(q) = Len(videoCalls)
      BY <2>1, <1>0
    <2> QED
      BY <1>7, <2>2 DEF ServeToggleOf, ServeInfo, VideoRest
  <1>8. ASSUME NEW S \in SUBSET Infos, NEW n \in DOMAIN videoCalls, q = RemoveAt(Late(S), n)
        PROVE  Len(q) <= MaxVideoCalls
    <2>1. Len(q) = Len(videoCalls) - 1
      BY <1>8, TakenOut DEF VideoInv
    <2> QED
      BY <2>1, <1>0 DEF VideoRest
  <1>9. ASSUME NEW n \in DOMAIN videoCalls, ToggleAnswered(n) PROVE VideoRest'
    <2>1. /\ RemoveAt(videoCalls, n) \in Seq(VideoCall)
          /\ Len(RemoveAt(videoCalls, n)) = Len(videoCalls) - 1
      BY <1>0, RemoveAtProperties
    <2>2. videoCalls[n] \in VideoCall
      BY <1>0
    <2>3. PICK v \in Videos : v = videoCalls[n].video
      BY <2>2, CallFields
    <2>4. Info(v) \in VideoCall /\ q = Append(RemoveAt(videoCalls, n), Info(v))
      BY <1>9, <2>3, <1>0, InfoIsCall DEF ToggleAnswered, ToggledAgain
    <2>5. Len(q) = Len(videoCalls)
      BY <2>1, <2>4, <1>0, AppendProperties
    <2> QED
      BY <1>9, <2>5 DEF ToggleAnswered, VideoRest
  <1>10. ASSUME NEW n \in DOMAIN videoCalls, ToggleFailed(n) PROVE VideoRest'
    <2>1. PICK S \in SUBSET Infos : q = RemoveAt(Late(S), n)
      BY <1>10 DEF ToggleFailed
    <2>2. settled' \in BOOLEAN
      BY <1>10 DEF ToggleFailed, VideoRest
    <2> QED
      BY <1>8, <1>10, <2>1, <2>2 DEF ToggleFailed, VideoRest
  <1>11. ASSUME NEW n \in DOMAIN videoCalls, InfoArrives(n) \/ InfoFailed(n) PROVE VideoRest'
    <2>1. PICK S \in SUBSET Infos : q = RemoveAt(Late(S), n)
      BY <1>11 DEF InfoArrives, InfoFailed, Without
    <2>2. PICK c : c = videoCalls[n]
      OBVIOUS
    <2>3. c \in VideoCall
      BY <2>2, <1>0
    <2>4. c.kind = "info" => c.answer \in [Buttons -> BOOLEAN]
      BY <2>3, CallFields
    <2>5. CASE InfoArrives(n)
      <3>1. marks' = c.answer /\ c.kind = "info" /\ shown' = shown /\ settled' \in BOOLEAN
        BY <2>2, <2>5 DEF InfoArrives
      <3> QED
        BY <1>8, <2>1, <2>4, <3>1 DEF VideoRest
    <2>6. CASE InfoFailed(n)
      <3>1. marks' = marks /\ shown' = shown /\ settled' \in BOOLEAN
        BY <2>6 DEF InfoFailed, VideoRest
      <3> QED
        BY <1>8, <2>1, <3>1 DEF VideoRest
    <2> QED
      BY <1>11, <2>5, <2>6
  <1>12. CASE UNCHANGED videoVars
    BY <1>12 DEF videoVars, VideoRest
  <1> QED
    BY <1>2, <1>3, <1>4, <1>5, <1>6, <1>7, <1>9, <1>10, <1>11, <1>12 DEF VideoNext

\* The variables of VideoReader keep their types, and a slide stays beneath the video screens.
THEOREM VideoTypeCorrect == VideoSpec => []VideoTypeOK
  <1>1. VideoInit => VideoRest
    <2> SUFFICES ASSUME VideoInit PROVE VideoRest
      OBVIOUS
    <2>1. Len(shown) = 0 /\ Len(videoCalls) = 0 /\ \A k \in 1..0 : FALSE
      BY EmptySeq DEF VideoInit
    <2>2. Len(shown) <= MaxShown /\ Len(videoCalls) <= MaxVideoCalls
      BY <2>1, VideoAssumption
    <2>3. \A k \in 1..Len(shown) : FALSE
      BY <2>1
    <2>4. marks \in [Buttons -> BOOLEAN] /\ settled \in BOOLEAN
      BY DEF VideoInit, Unmarked
    <2> QED
      BY <2>2, <2>3, <2>4 DEF VideoRest
  <1>2. VideoInv /\ VideoRest => VideoTypeOK
    <2> SUFFICES ASSUME VideoInv, VideoRest PROVE VideoTypeOK
      OBVIOUS
    <2>1. DOMAIN shown = 1..Len(shown)
      BY DEF VideoInv, VideoTyped
    <2> QED
      BY <2>1 DEF VideoInv, VideoTyped, VideoRest, VideoTypeOK
  <1>3. VideoSpec => []VideoInv
    BY VideoInitInv, VideoStepInv, PTL DEF VideoSpec
  <1>4. VideoSpec => []VideoRest
    BY <1>1, <1>3, VideoRestStep, PTL DEF VideoSpec
  <1> QED
    BY <1>2, <1>3, <1>4, PTL

-----------------------------------------------------------------------------
(* The four of them side by side.                                          *)

\* A behaviour of the instance is one of each part: what the others do leaves its variables alone.
LEMMA Composed == Spec => ShellSpec /\ FeedSpec /\ SettingsSpec /\ VideoSpec
  <1>1. Init => ShellInit /\ FeedInit /\ SettingsInit /\ VideoInit
    BY DEF Init
  <1>2. [Next]_vars => [ShellNext]_shellVars /\ [FeedNext]_feedVars
                       /\ [SettingsNext]_settingsVars /\ [VideoNext]_videoVars
    BY DEF Next, vars, Shell, Feed, Language, Watching
  <1> QED
    BY <1>1, <1>2, PTL DEF Spec, ShellSpec, FeedSpec, SettingsSpec, VideoSpec

\* The types of the four parts, side by side in one Spec.
THEOREM PartsTypeCorrect == Spec => []PartsTypeOK
  BY Composed, ShellTypeCorrect, FeedTypeCorrect, SettingsTypeCorrect, VideoTypeCorrect, PTL DEF PartsTypeOK

\* And so what each part promises on its own (MainScreen's sheet and links, the chips' feed, the news, the
\* profile's language, the buttons of videos) holds of the four together.
THEOREM PartsCorrect ==
  Spec => [](/\ NavigatorKeepsAScreen /\ OfflineIsShown /\ LateUseOnlyByLinks
             /\ FeedMatchesChip /\ NewsInLanguage /\ ProfileFollowsDevice /\ VideoMarksTrue)
  BY Composed, ShellKeepsAScreen, ShellSaysItIsOffline, ShellDeadOnlyByLinks, FeedIsOfItsChip,
     NewsFollowLanguage, ProfileHasLanguage, VideoMarksStayTrue, PTL
=============================================================================
