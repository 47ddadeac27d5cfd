---------------------------- MODULE AdBannersProofs ----------------------------
(***************************************************************************)
(* AdBanners: every reachable state is well typed; a banner that has       *)
(* loaded is shown, a builder that fails has one of two causes, and a      *)
(* screen that is gone has freed its banner, but for the exceptions that   *)
(* the properties name, for any number of screens, controllers and kinds.  *)
(***************************************************************************)
EXTENDS AdBanners, SequenceTheorems, TLAPS

State == [kind : Kinds \cup {"account"}, place : {"free", "shown", "leaving", "gone"},
          ctl : Controllers \cup {NoController}, info : {"asked", "answered"},
          ad : {"none", "loading", "loaded", "dead"}, late : BOOLEAN,
          shows : {"unbuilt", "nothing", "banner", "crash"}]

Alive(r) == r.place \in {"shown", "leaving"}

-----------------------------------------------------------------------------
(* The invariant.                                                          *)

\* Each kind of screen has its own kind of controller.
Owned(r) ==
  r.ctl # NoController =>
    /\ r.kind = "article" => r.ctl = "ArticleAd"
    /\ r.kind = "category" => r.ctl = "CategoryNewsAd"
    /\ r.kind \notin {"article", "category"} => UsesApp(r.kind) /\ r.ctl \in AppControllers

\* A State r under the flags f, when the controllers odd are shared past the tabs' deletes:
\* its call and its banner can reach its controller; a banner that is gone was freed; a
\* builder that failed has its cause; a loaded banner has its flag set and is shown; and as
\* long as nobody else marks its controller, its flag waits for its banner.
Sound(r, f, odd) ==
  /\ Owned(r)
  /\ Alive(r) => (r.ctl = NoController <=> r.kind = "account")
  /\ r.info = "asked" \/ r.ad = "loading" => r.ctl # NoController
  /\ r.info = "asked" => r.ad = "none"
  /\ r.place = "gone" /\ r.kind # "video" /\ ~r.late => r.ad \in {"none", "dead"}
  /\ r.place = "shown" /\ r.shows = "crash"
       => r.ad = "dead" \/ (r.kind = "article" /\ "article" \in f["ArticleAd"])
  /\ Alive(r) /\ r.ad = "loaded" => r.ctl # NoController /\ Sets(r.kind) \in f[r.ctl]
  /\ r.place = "shown" /\ r.ad = "loaded" /\ r.shows # "unbuilt" /\ r.kind # "video" /\ r.ctl \notin odd
       => r.shows = "banner"
  /\ r.kind \in BannerTabs /\ r.ctl # NoController /\ r.ctl \notin odd /\ r.ad \in {"none", "loading"}
       => r.kind \notin f[r.ctl]

\* The registered AppAdController belongs to tabs that are alive; of the tabs that share
\* an AppAdController that is not odd no two are alike; and the flags that are set in the
\* registered one are those of its tabs.
RegisteredAlive(scr, reg) ==
  reg # NoController =>
    \A s \in Screens : scr[s].ctl = reg /\ scr[s].kind \in BannerTabs => Alive(scr[s])

Unalike(scr, odd) ==
  \A s, t \in Screens :
    /\ scr[s].ctl = scr[t].ctl /\ scr[s].ctl # NoController /\ scr[s].ctl \notin odd
    /\ scr[s].kind = scr[t].kind /\ scr[s].kind \in BannerTabs
    => s = t

FlagsOwned(scr, reg, f, odd) ==
  reg # NoController /\ reg \notin odd =>
    \A k \in BannerTabs : k \in f[reg] => \E s \in Screens : scr[s].ctl = reg /\ scr[s].kind = k

\* All of that, of the screens scr under the registration reg, the flags f and the history odd.
Tidy(scr, reg, f, odd) ==
  /\ scr \in [Screens -> State]
  /\ reg \in AppControllers \cup {NoController}
  /\ f \in [Controllers -> SUBSET Flags]
  /\ odd \in SUBSET AppControllers
  /\ \A s \in Screens : Sound(scr[s], f, odd)
  /\ RegisteredAlive(scr, reg)
  /\ Unalike(scr, odd)
  /\ FlagsOwned(scr, reg, f, odd)

\* The stack stk lists the screens that are shown, each once.
Listed(stk, scr) ==
  /\ stk \in Seq(Screens) /\ Len(stk) <= MaxDepth
  /\ \A i, j \in DOMAIN stk : stk[i] = stk[j] => i = j
  /\ \A s \in Screens : scr[s].place = "shown" <=> \E i \in DOMAIN stk : stk[i] = s

\* An AppAdController that nothing refers to has no flag set.
Unused ==
  \A c \in AppControllers :
    c # registered /\ (\A s \in Screens : screen[s].ctl # c) => flags[c] = {}

AdInv ==
  /\ Tidy(screen, registered, flags, tainted)
  /\ Listed(stack, screen)
  /\ Unused

-----------------------------------------------------------------------------
(* The operators.                                                          *)

LEMMA BuiltShape ==
  ASSUME NEW r, NEW f
  PROVE  /\ Built(r, f) \in {"nothing", "crash", "banner"}
         /\ Built(r, f) = "crash" => r.ad = "dead" \/ (r.kind = "article" /\ "article" \in f[r.ctl])
         /\ r.kind \notin {"account", "video"} /\ r.ad = "loaded" /\ r.kind \in f[r.ctl]
              => Built(r, f) = "banner"
  BY DEF Built, Reads, Guarded

LEMMA FreeShape ==
  /\ Free \in State
  /\ Free.kind = "account" /\ Free.place = "free" /\ Free.ctl = NoController
  /\ Free.info = "answered" /\ Free.ad = "none" /\ Free.shows = "nothing"
  BY DEF Free, State

LEMMA FreeSound ==
  ASSUME NEW f, NEW odd
  PROVE  Sound(Free, f, odd)
  BY FreeShape DEF Sound, Owned, Alive, BannerTabs

\* What becomes of a State when nothing can call it back.
LEMMA SettledShape ==
  ASSUME NEW r \in State
  PROVE  /\ Settled(r) \in State
         /\ \/ Settled(r) = r
            \/ Settled(r) = Free /\ r.place = "gone"
            \/ /\ r.place = "gone" /\ Settled(r).place = "gone"
               /\ Settled(r).kind = r.kind /\ Settled(r).info = r.info /\ Settled(r).ad = r.ad
               /\ Settled(r).late = r.late /\ Settled(r).ctl = NoController
               /\ r.ad = "loaded"
         /\ r.place # "gone" => Settled(r) = r
  <1> DEFINE e == [r EXCEPT !.ctl = NoController]
  <1>1. /\ e \in State /\ e.place = r.place /\ e.kind = r.kind /\ e.info = r.info /\ e.ad = r.ad
        /\ e.late = r.late /\ e.ctl = NoController
    BY DEF State
  <1>2. \/ Settled(r) = Free /\ r.place = "gone"
        \/ Settled(r) = e /\ r.place = "gone" /\ r.ad = "loaded"
        \/ Settled(r) = r
    BY DEF Settled
  <1>3. r.place # "gone" => Settled(r) = r
    BY DEF Settled
  <1> HIDE DEF e
  <1> QED
    BY <1>1, <1>2, <1>3, FreeShape

LEMMA SettledSound ==
  ASSUME NEW r \in State, NEW f, NEW odd, Sound(r, f, odd)
  PROVE  Sound(Settled(r), f, odd)
  <1>1. CASE Settled(r) = r
    BY <1>1
  <1>2. CASE Settled(r) = Free
    BY <1>2, FreeSound
  <1>3. CASE Settled(r) # r /\ Settled(r) # Free
    <2> DEFINE q == Settled(r)
    <2>1. /\ r.place = "gone" /\ q.place = "gone" /\ q.kind = r.kind /\ q.info = r.info
          /\ q.ad = r.ad /\ q.late = r.late /\ q.ctl = NoController
          /\ r.ad = "loaded"
      BY <1>3, SettledShape
    <2> HIDE DEF q
    <2>2. Sound(q, f, odd)
      BY <2>1 DEF Sound, Owned, Alive
    <2> QED
      BY <2>2 DEF q
  <1> QED
    BY <1>1, <1>2, <1>3

\* dispose().
LEMMA DisposedShape ==
  ASSUME NEW r \in State
  PROVE  /\ Disposed(r) \in State
         /\ Disposed(r).place \in {"gone", "free"}
         /\ Disposed(r).ctl \in {r.ctl, NoController}
         /\ Disposed(r).ctl # NoController => Disposed(r).kind = r.kind
  <1> DEFINE e == [r EXCEPT !.place = "gone", !.shows = "nothing",
                            !.ad = IF Frees(r.kind) /\ r.ad # "none" THEN "dead" ELSE r.ad]
  <1>1. e \in State /\ e.place = "gone" /\ e.ctl = r.ctl /\ e.kind = r.kind
    BY DEF State
  <1>2. Disposed(r) = Settled(e)
    BY DEF Disposed
  <1> HIDE DEF e
  <1> QED
    BY <1>1, <1>2, SettledShape, FreeShape

LEMMA DisposedSound ==
  ASSUME NEW r \in State, NEW f, NEW odd, Sound(r, f, odd)
  PROVE  Sound(Disposed(r), f, odd)
  <1> DEFINE ad == IF Frees(r.kind) /\ r.ad # "none" THEN "dead" ELSE r.ad
             e == [r EXCEPT !.place = "gone", !.shows = "nothing", !.ad = ad]
  <1>1. /\ e \in State /\ e.place = "gone" /\ e.ctl = r.ctl /\ e.kind = r.kind /\ e.info = r.info
        /\ e.ad = ad /\ e.late = r.late /\ e.shows = "nothing"
    BY DEF State
  <1>2. Disposed(r) = Settled(e)
    BY DEF Disposed
  <1>3. /\ r.kind # "video" => ad \in {"none", "dead"}
        /\ ad \in {"none", "loading"} => ad = r.ad
        /\ r.ad = "none" => ad = "none"
    BY DEF Frees, State
  <1> HIDE DEF e, ad
  <1>4. Sound(e, f, odd)
    BY <1>1, <1>3 DEF Sound, Owned, Alive
  <1> QED
    BY <1>1, <1>2, <1>4, SettledSound

-----------------------------------------------------------------------------
(* One step.                                                               *)

LEMMA NamesDiffer ==
  /\ "ArticleAd" \in Controllers /\ "CategoryNewsAd" \in Controllers
  /\ "ArticleAd" \notin AppControllers /\ "CategoryNewsAd" \notin AppControllers
  /\ NoController \notin Controllers /\ NoController \notin AppControllers
  /\ AppControllers \subseteq Controllers
  BY ScreensAssumption DEF Controllers

\* Commit forgets what was known of the controllers that nothing refers to, and only that.
LEMMA CommitTidy ==
  ASSUME NEW scr, NEW reg, NEW f, NEW odd,
         Tidy(scr, reg, f, odd), Commit(scr, reg, f, odd)
  PROVE  Tidy(screen, registered, flags, tainted)' /\ Unused' /\ screen' = scr
  <1> DEFINE Kept(c) == \/ c \notin AppControllers
                        \/ c = reg
                        \/ \E t \in Screens : scr[t].ctl = c
  <1>1. /\ screen' = scr /\ registered' = reg
        /\ flags' = [c \in Controllers |-> IF Kept(c) THEN f[c] ELSE {}]
        /\ tainted' = {c \in odd : Kept(c)}
    BY DEF Commit
  <1>2. /\ scr \in [Screens -> State] /\ reg \in AppControllers \cup {NoController}
        /\ f \in [Controllers -> SUBSET Flags] /\ odd \in SUBSET AppControllers
    BY DEF Tidy
  <1>3. \A c \in Controllers : flags'[c] = IF Kept(c) THEN f[c] ELSE {}
    BY <1>1
  <1>4. flags' \in [Controllers -> SUBSET Flags]
    BY <1>1, <1>2
  <1>5. tainted' \in SUBSET AppControllers
    BY <1>1, <1>2
  <1>6. \A s \in Screens : scr[s].ctl # NoController =>
          flags'[scr[s].ctl] = f[scr[s].ctl] /\ (scr[s].ctl \in tainted' <=> scr[s].ctl \in odd)
    <2> SUFFICES ASSUME NEW s \in Screens, scr[s].ctl # NoController
                 PROVE  flags'[scr[s].ctl] = f[scr[s].ctl]
                        /\ (scr[s].ctl \in tainted' <=> scr[s].ctl \in odd)
      OBVIOUS
    <2>1. scr[s].ctl \in Controllers /\ Kept(scr[s].ctl)
      BY <1>2 DEF State
    <2> QED
      BY <2>1, <1>1, <1>3
  <1>7. flags'["ArticleAd"] = f["ArticleAd"]
    BY <1>3, NamesDiffer
  <1>8. reg # NoController => flags'[reg] = f[reg] /\ (reg \in tainted' <=> reg \in odd)
    BY <1>1, <1>2, <1>3, NamesDiffer
  <1>9. ASSUME NEW s \in Screens
        PROVE  Sound(scr[s], flags', tainted')
    <2> DEFINE r == scr[s]
    <2>1. Sound(r, f, odd)
      BY DEF Tidy
    <2>2. r.ctl # NoController =>
            flags'[r.ctl] = f[r.ctl] /\ (r.ctl \in tainted' <=> r.ctl \in odd)
      BY <1>6
    <2>3. r.place = "shown" /\ r.ad = "loaded" => r.ctl # NoController
      BY <2>1 DEF Sound, Alive
    <2> HIDE DEF r
    <2>4. Sound(r, flags', tainted')
      BY <2>1, <2>2, <2>3, <1>7 DEF Sound
    <2> QED
      BY <2>4 DEF r
  <1>10. Unalike(scr, tainted')
    BY <1>6 DEF Tidy, Unalike
  <1>11. FlagsOwned(scr, reg, flags', tainted')
    BY <1>8 DEF Tidy, FlagsOwned
  <1>12. Tidy(scr, reg, flags', tainted')
    BY <1>2, <1>4, <1>5, <1>9, <1>10, <1>11 DEF Tidy
  <1>13. \A c \in AppControllers : c # reg /\ (\A s \in Screens : scr[s].ctl # c) => flags'[c] = {}
    BY <1>3, NamesDiffer
  <1> QED
    BY <1>1, <1>12, <1>13 DEF Unused

\* One State changes; it keeps its kind and its controller, or lets go of them when it
\* is no tab that the registered controller still belongs to.
LEMMA OneState ==
  ASSUME AdInv, NEW s \in Screens, NEW r \in State, Sound(r, flags, tainted),
         NEW reg \in {registered, NoController},
         r.ctl # NoController => r.ctl = screen[s].ctl /\ r.kind = screen[s].kind,
         reg # NoController /\ screen[s].ctl = reg /\ screen[s].kind \in BannerTabs
           => r.ctl = screen[s].ctl /\ Alive(r)
  PROVE  /\ Tidy([screen EXCEPT ![s] = r], reg, flags, tainted)
         /\ \A t \in Screens : [screen EXCEPT ![s] = r][t] = IF t = s THEN r ELSE screen[t]
  <1> DEFINE scr == [screen EXCEPT ![s] = r]
  <1>1. /\ screen \in [Screens -> State] /\ registered \in AppControllers \cup {NoController}
        /\ flags \in [Controllers -> SUBSET Flags] /\ tainted \in SUBSET AppControllers
        /\ \A t \in Screens : Sound(screen[t], flags, tainted)
    BY DEF AdInv, Tidy
  <1>2. /\ scr \in [Screens -> State]
        /\ \A t \in Screens : scr[t] = IF t = s THEN r ELSE screen[t]
    BY <1>1
  <1> HIDE DEF scr
  <1>3. \A t \in Screens : Sound(scr[t], flags, tainted)
    BY <1>1, <1>2
  <1>4. RegisteredAlive(scr, reg)
    BY <1>2 DEF AdInv, Tidy, RegisteredAlive
  <1>5. Unalike(scr, tainted)
    <2> SUFFICES ASSUME NEW t \in Screens, NEW u \in Screens,
                        scr[t].ctl = scr[u].ctl, scr[t].ctl # NoController, scr[t].ctl \notin tainted,
                        scr[t].kind = scr[u].kind, scr[t].kind \in BannerTabs
                 PROVE  t = u
      BY DEF Unalike
    <2>1. /\ screen[t].ctl = scr[t].ctl /\ screen[t].kind = scr[t].kind
          /\ screen[u].ctl = scr[u].ctl /\ screen[u].kind = scr[u].kind
      BY <1>2
    <2> QED
      BY <2>1 DEF AdInv, Tidy, Unalike
  <1>6. FlagsOwned(scr, reg, flags, tainted)
    <2> SUFFICES ASSUME reg # NoController, reg \notin tainted, NEW k \in BannerTabs, k \in flags[reg]
                 PROVE  \E t \in Screens : scr[t].ctl = reg /\ scr[t].kind = k
      BY DEF FlagsOwned
    <2>1. PICK t \in Screens : screen[t].ctl = reg /\ screen[t].kind = k
      BY DEF AdInv, Tidy, FlagsOwned
    <2>2. scr[t].ctl = reg /\ scr[t].kind = k
      BY <2>1, <1>2
    <2> QED
      BY <2>2
  <1>7. Tidy(scr, reg, flags, tainted)
    BY <1>1, <1>2, <1>3, <1>4, <1>5, <1>6 DEF Tidy
  <1> QED
    BY <1>2, <1>7 DEF scr

\* The stack lists the same screens when none appears and none goes.
LEMMA SameList ==
  ASSUME AdInv, stack' = stack,
         \A t \in Screens : screen'[t].place = "shown" <=> screen[t].place = "shown"
  PROVE  Listed(stack, screen)'
  BY DEF AdInv, Listed

\* One State changes by Commit, on the stack or off it.
LEMMA OneStateCommits ==
  ASSUME AdInv, NEW s \in Screens, NEW r \in State, Sound(r, flags, tainted),
         NEW reg \in {registered, NoController},
         r.ctl # NoController => r.ctl = screen[s].ctl /\ r.kind = screen[s].kind,
         reg # NoController /\ screen[s].ctl = reg /\ screen[s].kind \in BannerTabs
           => r.ctl = screen[s].ctl /\ Alive(r),
         Commit([screen EXCEPT ![s] = r], reg, flags, tainted),
         stack' = stack, r.place = "shown" <=> screen[s].place = "shown"
  PROVE  AdInv'
  <1> DEFINE scr == [screen EXCEPT ![s] = r]
  <1>1. /\ Tidy(scr, reg, flags, tainted)
        /\ \A t \in Screens : scr[t] = IF t = s THEN r ELSE screen[t]
    BY OneState
  <1> HIDE DEF scr
  <1>2. Commit(scr, reg, flags, tainted)
    BY DEF scr
  <1>3. Tidy(screen, registered, flags, tainted)' /\ Unused' /\ screen' = scr
    BY <1>1, <1>2, CommitTidy
  <1>4. Listed(stack, screen)'
    BY <1>1, <1>3, SameList
  <1> QED
    BY <1>3, <1>4 DEF AdInv

\* One State changes and keeps its kind and its controller.
LEMMA OneStateStays ==
  ASSUME AdInv, NEW s \in Screens, NEW r \in State, Sound(r, flags, tainted),
         r.ctl = screen[s].ctl, r.kind = screen[s].kind, Alive(screen[s]) => Alive(r),
         screen' = [screen EXCEPT ![s] = r],
         registered' = registered, flags' = flags, tainted' = tainted
  PROVE  /\ Tidy(screen, registered, flags, tainted)' /\ Unused'
         /\ \A t \in Screens : screen'[t] = IF t = s THEN r ELSE screen[t]
  <1>1. registered # NoController /\ screen[s].ctl = registered /\ screen[s].kind \in BannerTabs
          => Alive(r)
    BY DEF AdInv, Tidy, RegisteredAlive
  <1>2. /\ Tidy([screen EXCEPT ![s] = r], registered, flags, tainted)
        /\ \A t \in Screens : [screen EXCEPT ![s] = r][t] = IF t = s THEN r ELSE screen[t]
    BY <1>1, OneState
  <1>3. \A t \in Screens : screen'[t] = IF t = s THEN r ELSE screen[t]
    BY <1>2
  <1>4. Tidy(screen, registered, flags, tainted)'
    BY <1>2
  <1>5. \A t \in Screens : screen'[t].ctl = screen[t].ctl
    BY <1>3
  <1>6. Unused'
    BY <1>5 DEF AdInv, Unused
  <1> QED
    BY <1>3, <1>4, <1>6

-----------------------------------------------------------------------------
(* Calls and banners of one screen.                                        *)

LEMMA StateOf ==
  ASSUME AdInv, NEW s \in Screens
  PROVE  screen[s] \in State /\ Sound(screen[s], flags, tainted)
  BY DEF AdInv, Tidy

LEMMA AdsAdInfo ==
  ASSUME AdInv, NEW s \in Screens, AdInfo(s)
  PROVE  AdInv'
  <1> DEFINE r == screen[s]
             late == ~Live(s)
             e == [r EXCEPT !.info = "answered", !.ad = "loading", !.late = late]
  <1>1. r \in State /\ Sound(r, flags, tainted) /\ r.info = "asked"
    BY StateOf DEF AdInfo
  <1>2. late \in BOOLEAN
    OBVIOUS
  <1>3. late <=> ~Alive(r)
    BY DEF Live, Alive
  <1>4. screen' = [screen EXCEPT ![s] = e]
    BY DEF AdInfo
  <1> HIDE DEF late
  <1>5. /\ e \in State /\ e.kind = r.kind /\ e.place = r.place /\ e.ctl = r.ctl
        /\ e.info = "answered" /\ e.ad = "loading" /\ e.late = late /\ e.shows = r.shows
    BY <1>1, <1>2 DEF State
  <1> HIDE DEF e
  <1>6. Sound(e, flags, tainted)
    BY <1>1, <1>3, <1>5 DEF Sound, Owned, Alive
  <1>7. /\ stack' = stack /\ registered' = registered /\ flags' = flags /\ tainted' = tainted
    BY DEF AdInfo
  <1>8. /\ Tidy(screen, registered, flags, tainted)' /\ Unused'
        /\ \A t \in Screens : screen'[t] = IF t = s THEN e ELSE screen[t]
    BY <1>1, <1>4, <1>5, <1>6, <1>7, OneStateStays DEF Alive
  <1>9. Listed(stack, screen)'
    BY <1>5, <1>7, <1>8, SameList
  <1> QED
    BY <1>8, <1>9 DEF AdInv

LEMMA AdsBuild ==
  ASSUME AdInv, NEW s \in Screens, Build(s)
  PROVE  AdInv'
  <1> DEFINE r == screen[s]
             view == Built(r, flags)
             e == [r EXCEPT !.shows = view]
  <1>1. r \in State /\ Sound(r, flags, tainted) /\ Alive(r)
    BY StateOf DEF Build, Live, Alive
  <1>2. screen' = [screen EXCEPT ![s] = e]
    BY DEF Build
  <1>3. /\ view \in {"nothing", "crash", "banner"}
        /\ view = "crash" => r.ad = "dead" \/ (r.kind = "article" /\ "article" \in flags[r.ctl])
        /\ r.kind \notin {"account", "video"} /\ r.ad = "loaded" /\ r.kind \in flags[r.ctl]
             => view = "banner"
    BY BuiltShape
  <1> HIDE DEF view
  <1>4. /\ e \in State /\ e.kind = r.kind /\ e.place = r.place /\ e.ctl = r.ctl
        /\ e.info = r.info /\ e.ad = r.ad /\ e.late = r.late /\ e.shows = view
    BY <1>1, <1>3 DEF State
  <1> HIDE DEF e, r
  <1>5. Sound(e, flags, tainted)
    <2>1. r.ad = "loaded" => r.ctl # NoController /\ Sets(r.kind) \in flags[r.ctl]
      BY <1>1 DEF Sound
    <2>2. r.ctl # NoController <=> r.kind # "account"
      BY <1>1 DEF Sound
    <2>3. r.kind # "video" => Sets(r.kind) = r.kind
      BY DEF Sets
    <2>4. r.kind = "article" => r.ctl = "ArticleAd"
      BY <1>1, <2>2 DEF Sound, Owned
    <2> QED
      BY <1>1, <1>3, <1>4, <2>1, <2>2, <2>3, <2>4 DEF Sound, Owned, Alive
  <1>6. /\ stack' = stack /\ registered' = registered /\ flags' = flags /\ tainted' = tainted
    BY DEF Build
  <1>7. /\ Tidy(screen, registered, flags, tainted)' /\ Unused'
        /\ \A t \in Screens : screen'[t] = IF t = s THEN e ELSE screen[t]
    BY <1>1, <1>2, <1>4, <1>5, <1>6, OneStateStays DEF Alive, r
  <1>8. Listed(stack, screen)'
    BY <1>4, <1>6, <1>7, SameList DEF r
  <1> QED
    BY <1>7, <1>8 DEF AdInv

LEMMA AdsNoAds ==
  ASSUME AdInv, NEW s \in Screens, NoAds(s)
  PROVE  AdInv'
  <1> DEFINE r == screen[s]
             e == [r EXCEPT !.info = "answered"]
             q == Settled(e)
  <1>1. r \in State /\ Sound(r, flags, tainted) /\ r.info = "asked"
    BY StateOf DEF NoAds
  <1>2. Commit([screen EXCEPT ![s] = q], registered, flags, tainted) /\ stack' = stack
    BY DEF NoAds
  <1>3. /\ e \in State /\ e.kind = r.kind /\ e.place = r.place /\ e.ctl = r.ctl
        /\ e.info = "answered" /\ e.ad = r.ad /\ e.late = r.late /\ e.shows = r.shows
    BY <1>1 DEF State
  <1> HIDE DEF e
  <1>4. Sound(e, flags, tainted)
    BY <1>1, <1>3 DEF Sound, Owned, Alive
  <1>5. /\ q \in State /\ Sound(q, flags, tainted)
        /\ q.ctl # NoController => q.ctl = r.ctl /\ q.kind = r.kind
        /\ Alive(r) => q = e
        /\ q.place = "shown" <=> r.place = "shown"
    BY <1>3, <1>4, SettledShape, SettledSound, FreeShape DEF Alive
  <1>6. registered # NoController /\ r.ctl = registered /\ r.kind \in BannerTabs
          => q.ctl = r.ctl /\ Alive(q)
    BY <1>3, <1>5 DEF AdInv, Tidy, RegisteredAlive, Alive
  <1> HIDE DEF q
  <1> QED
    BY <1>2, <1>5, <1>6, OneStateCommits

LEMMA AdsAdFailed ==
  ASSUME AdInv, NEW s \in Screens, AdFailed(s)
  PROVE  AdInv'
  <1> DEFINE r == screen[s]
             e == [r EXCEPT !.ad = "dead"]
             q == Settled(e)
  <1>1. r \in State /\ Sound(r, flags, tainted) /\ r.ad = "loading"
    BY StateOf DEF AdFailed
  <1>2. Commit([screen EXCEPT ![s] = q], registered, flags, tainted) /\ stack' = stack
    BY DEF AdFailed
  <1>3. /\ e \in State /\ e.kind = r.kind /\ e.place = r.place /\ e.ctl = r.ctl
        /\ e.info = r.info /\ e.ad = "dead" /\ e.late = r.late /\ e.shows = r.shows
    BY <1>1 DEF State
  <1> HIDE DEF e
  <1>4. Sound(e, flags, tainted)
    BY <1>1, <1>3 DEF Sound, Owned, Alive
  <1>5. /\ q \in State /\ Sound(q, flags, tainted)
        /\ q.ctl # NoController => q.ctl = r.ctl /\ q.kind = r.kind
        /\ Alive(r) => q = e
        /\ q.place = "shown" <=> r.place = "shown"
    BY <1>3, <1>4, SettledShape, SettledSound, FreeShape DEF Alive
  <1>6. registered # NoController /\ r.ctl = registered /\ r.kind \in BannerTabs
          => q.ctl = r.ctl /\ Alive(q)
    BY <1>3, <1>5 DEF AdInv, Tidy, RegisteredAlive, Alive
  <1> HIDE DEF q
  <1> QED
    BY <1>2, <1>5, <1>6, OneStateCommits

LEMMA AdsDispose ==
  ASSUME AdInv, NEW s \in Screens, Dispose(s)
  PROVE  AdInv'
  <1> DEFINE r == screen[s]
             q == Disposed(r)
             reg == IF Deletes(r.kind) THEN NoController ELSE registered
  <1>1. r \in State /\ Sound(r, flags, tainted) /\ r.place = "leaving"
    BY StateOf DEF Dispose
  <1>2. Commit([screen EXCEPT ![s] = q], reg, flags, tainted) /\ stack' = stack
    BY DEF Dispose
  <1>3. /\ q \in State /\ Sound(q, flags, tainted)
        /\ q.ctl # NoController => q.ctl = r.ctl /\ q.kind = r.kind
        /\ q.place # "shown"
    BY <1>1, DisposedShape, DisposedSound
  <1>4. reg \in {registered, NoController} /\ (r.kind \in BannerTabs => reg = NoController)
    BY DEF Deletes
  <1> HIDE DEF q, reg
  <1> QED
    BY <1>1, <1>2, <1>3, <1>4, OneStateCommits

\* onAdLoaded: of the screens, this one has its banner, and those that are told are built again.
LEMMA AdsAdLoaded ==
  ASSUME AdInv, NEW s \in Screens, AdLoaded(s)
  PROVE  AdInv'
  <1> DEFINE r == screen[s]
  <1> PICK kind, ctl, flag : kind = r.kind /\ ctl = r.ctl /\ flag = Sets(kind)
    OBVIOUS
  <1> DEFINE f == [flags EXCEPT ![ctl] = @ \cup {flag}]
             Told(t) == /\ Live(t) /\ screen[t].shows # "unbuilt"
                        /\ screen[t].ctl = ctl
                        /\ Reads(screen[t].kind) = flag
                        /\ UsesApp(kind) => flag \notin flags[ctl]
             e == [r EXCEPT !.ad = "loaded"]
             q == Settled(e)
             after == [screen EXCEPT ![s] = q]
             scr == [t \in Screens |->
                       IF Told(t) THEN [after[t] EXCEPT !.shows = Built(after[t], f)] ELSE after[t]]
             odd == IF kind = "video" THEN tainted \cup {ctl} ELSE tainted
  <1>1. r \in State /\ Sound(r, flags, tainted) /\ r.ad = "loading"
    BY StateOf DEF AdLoaded
  <1>2. Commit(scr, registered, f, odd) /\ stack' = stack
    BY DEF AdLoaded
  <1>3. /\ ctl # NoController /\ ctl \in Controllers /\ kind # "account"
        /\ UsesApp(kind) => ctl \in AppControllers
        /\ flag \in Flags
        /\ kind = "video" => ctl \in AppControllers
    <2>1. ctl # NoController /\ ctl \in Controllers
      BY <1>1 DEF Sound, State
    <2>2. kind # "account"
      BY <1>1, <2>1 DEF Sound, Owned, UsesApp, BannerTabs
    <2>3. kind \in {"home", "videoNews", "search", "video", "article", "category"}
      BY <1>1, <2>2, ScreensAssumption DEF State
    <2> QED
      BY <1>1, <2>1, <2>2, <2>3 DEF Sound, Owned, UsesApp, BannerTabs, Flags, Sets
  <1>4. /\ screen \in [Screens -> State] /\ registered \in AppControllers \cup {NoController}
        /\ flags \in [Controllers -> SUBSET Flags] /\ tainted \in SUBSET AppControllers
        /\ \A t \in Screens : Sound(screen[t], flags, tainted)
    BY DEF AdInv, Tidy
  <1>5. /\ f \in [Controllers -> SUBSET Flags]
        /\ \A c \in Controllers : f[c] = IF c = ctl THEN flags[c] \cup {flag} ELSE flags[c]
    BY <1>3, <1>4
  <1>6. /\ odd \in SUBSET AppControllers /\ tainted \subseteq odd
        /\ kind = "video" => ctl \in odd
        /\ \A c : c \in odd => c \in tainted \/ (c = ctl /\ kind = "video")
    BY <1>3, <1>4
  <1>7. /\ e \in State /\ e.kind = kind /\ e.place = r.place /\ e.ctl = ctl
        /\ e.info = r.info /\ e.ad = "loaded" /\ e.late = r.late /\ e.shows = r.shows
    BY <1>1 DEF State
  <1> HIDE DEF e
  <1>8. /\ q \in State
        /\ Alive(r) => q = e
        /\ q.place = "shown" <=> r.place = "shown"
        /\ Alive(q) <=> Alive(r)
        /\ q.ctl # NoController => q.ctl = ctl /\ q.kind = kind
    BY <1>7, SettledShape, FreeShape DEF Alive
  <1>9. \A t \in Screens : after[t] = IF t = s THEN q ELSE screen[t]
    BY <1>4
  <1>10. \A t \in Screens : after[t] \in State
    BY <1>4, <1>8, <1>9
  <1> HIDE DEF after, f, odd
  \* What happens to one State.
  <1>11. ASSUME NEW t \in Screens
         PROVE  /\ scr[t] \in State /\ scr[t].kind = after[t].kind /\ scr[t].place = after[t].place
                /\ scr[t].ctl = after[t].ctl /\ scr[t].info = after[t].info
                /\ scr[t].ad = after[t].ad /\ scr[t].late = after[t].late
                /\ Told(t) => scr[t].shows = Built(after[t], f)
                /\ ~Told(t) => scr[t].shows = after[t].shows
    <2>1. CASE Told(t)
      <3> DEFINE view == Built(after[t], f)
      <3>1. scr[t] = [after[t] EXCEPT !.shows = view]
        BY <2>1
      <3>2. view \in {"nothing", "crash", "banner"}
        BY BuiltShape
      <3> HIDE DEF scr, view, Told
      <3>3. /\ scr[t] \in State /\ scr[t].kind = after[t].kind /\ scr[t].place = after[t].place
            /\ scr[t].ctl = after[t].ctl /\ scr[t].info = after[t].info
            /\ scr[t].ad = after[t].ad /\ scr[t].late = after[t].late
            /\ scr[t].shows = view
        BY <1>10, <3>1, <3>2 DEF State
      <3> QED
        BY <2>1, <3>3 DEF view
    <2>2. CASE ~Told(t)
      <3>1. scr[t] = after[t]
        BY <2>2
      <3> HIDE DEF scr, Told
      <3> QED
        BY <2>2, <3>1, <1>10
    <2> QED
      BY <2>1, <2>2
  <1>12. scr \in [Screens -> State]
    BY <1>11
  <1> HIDE DEF scr
  <1>13. ASSUME NEW t \in Screens
         PROVE  Sound(scr[t], f, odd)
    <2> DEFINE a == after[t]
    <2>a. t # s => a = screen[t] /\ Sound(a, flags, tainted)
      BY <1>4, <1>9
    <2>b. t = s => a = q
      BY <1>9
    <2>c. \A c \in Controllers : flags[c] \subseteq f[c]
      BY <1>5
    <2>d. a.ctl \in Controllers \cup {NoController}
      BY <1>10 DEF State
    <2>e. r.kind = kind /\ r.ctl = ctl /\ r.info = "answered"
      BY <1>1 DEF Sound, State
    <2>f. q # e /\ q # Free =>
            /\ r.place = "gone" /\ q.place = "gone" /\ q.kind = kind /\ q.info = r.info
            /\ q.ad = "loaded" /\ q.late = r.late /\ q.ctl = NoController
      BY <1>7, SettledShape
    <2>g. r.place = "gone" /\ kind # "video" => r.late
      BY <1>1, <2>e DEF Sound
    <2> HIDE DEF a, q, r
    \* The State under the flag that is now set, before it is built again.
    <2>1. /\ Owned(a)
          /\ Alive(a) => (a.ctl = NoController <=> a.kind = "account")
          /\ a.info = "asked" \/ a.ad = "loading" => a.ctl # NoController
          /\ a.info = "asked" => a.ad = "none"
          /\ a.place = "gone" /\ a.kind # "video" /\ ~a.late => a.ad \in {"none", "dead"}
          /\ a.place = "shown" /\ a.shows = "crash"
               => a.ad = "dead" \/ (a.kind = "article" /\ "article" \in f["ArticleAd"])
          /\ Alive(a) /\ a.ad = "loaded" => a.ctl # NoController /\ Sets(a.kind) \in f[a.ctl]
      <3>1. CASE t # s
        BY <3>1, <2>a, <2>c, <2>d, NamesDiffer DEF Sound
      <3>2. CASE t = s /\ q = Free
        BY <3>2, <2>b, FreeShape DEF Owned, Alive
      <3>3. CASE t = s /\ q # e /\ q # Free
        BY <3>3, <2>b, <2>e, <2>f, <2>g DEF Owned, Alive
      <3>4. CASE t = s /\ q = e
        <4>1. flag \in f[ctl]
          BY <1>3, <1>5
        <4>2. r.place = "shown" /\ r.shows = "crash"
                => kind = "article" /\ "article" \in f["ArticleAd"]
          BY <1>1, <2>c, <2>e, NamesDiffer DEF Sound
        <4>3. Owned(r)
          BY <1>1 DEF Sound
        <4> QED
          BY <3>4, <4>1, <4>2, <4>3, <1>3, <1>7, <2>b, <2>e, <2>g DEF Owned
      <3> QED
        BY <3>1, <3>2, <3>3, <3>4
    <2>2. a.place = "shown" /\ a.ad = "loaded" /\ a.shows # "unbuilt" /\ a.kind # "video"
            /\ a.ctl \notin odd /\ ~Told(t) => a.shows = "banner"
      <3> SUFFICES ASSUME a.place = "shown", a.ad = "loaded", a.shows # "unbuilt", a.kind # "video",
                          a.ctl \notin odd, ~Told(t)
                   PROVE  a.shows = "banner"
        OBVIOUS
      <3>1. CASE t # s
        BY <3>1, <2>a, <1>6 DEF Sound
      <3>2. CASE t = s
        <4>1. r.place = "shown" /\ q = e /\ a.shows = r.shows /\ a.kind = kind /\ a.ctl = ctl
          BY <3>2, <2>b, <1>7, <1>8 DEF Alive
        <4>2. flag = kind /\ Reads(kind) = flag
          BY <4>1 DEF Sets, Reads
        <4>3. UsesApp(kind) /\ flag \in flags[ctl]
          BY <3>2, <4>1, <4>2, <2>e DEF Live, r
        <4>4. kind \in BannerTabs /\ ctl \notin tainted
          BY <4>1, <4>3, <1>6 DEF UsesApp
        <4>5. kind \notin flags[ctl]
          BY <4>4, <1>1, <1>3, <2>e DEF Sound
        <4> QED
          BY <4>2, <4>3, <4>5
      <3> QED
        BY <3>1, <3>2
    <2>3. a.kind \in BannerTabs /\ a.ctl # NoController /\ a.ctl \notin odd /\ a.ad \in {"none", "loading"}
            => a.kind \notin f[a.ctl]
      <3> SUFFICES ASSUME a.kind \in BannerTabs, a.ctl # NoController, a.ctl \notin odd,
                          a.ad \in {"none", "loading"}, a.kind \in f[a.ctl]
                   PROVE  FALSE
        OBVIOUS
      <3>1. t # s
        BY <2>b, <2>f, <1>7, FreeShape DEF BannerTabs
      <3>2. a.kind \notin flags[a.ctl]
        BY <3>1, <2>a, <1>6 DEF Sound
      <3>3. a.ctl = ctl /\ a.kind = flag
        BY <3>2, <2>d, <1>5
      <3>4. kind # "video"
        BY <3>3, <1>6
      <3>5. kind = flag
        BY <3>4 DEF Sets
      <3>6. screen[t].ctl = ctl /\ screen[t].kind = kind /\ screen[s].ctl = ctl /\ screen[s].kind = kind
        BY <3>1, <3>3, <3>5, <2>a, <2>e DEF r
      <3>7. ctl \notin tainted
        BY <3>3, <1>6
      <3> QED
        BY <3>1, <3>3, <3>5, <3>6, <3>7, <1>3 DEF AdInv, Tidy, Unalike
    <2>4. Told(t) =>
            /\ Built(a, f) = "crash" => a.ad = "dead" \/ (a.kind = "article" /\ "article" \in f["ArticleAd"])
            /\ a.place = "shown" /\ a.ad = "loaded" /\ a.kind # "video" => Built(a, f) = "banner"
      <3> SUFFICES ASSUME Told(t)
                   PROVE  /\ Built(a, f) = "crash"
                               => a.ad = "dead" \/ (a.kind = "article" /\ "article" \in f["ArticleAd"])
                          /\ a.place = "shown" /\ a.ad = "loaded" /\ a.kind # "video"
                               => Built(a, f) = "banner"
        OBVIOUS
      <3>1. t = s => q = e
        BY <1>8 DEF Live, Alive, r
      <3>2. a.ctl = ctl /\ a.kind = screen[t].kind
        BY <3>1, <2>a, <2>b, <2>e, <1>7 DEF r
      <3>3. a.kind = "article" => a.ctl = "ArticleAd"
        BY <3>2, <2>1, <1>3 DEF Owned
      <3>4. a.kind # "video" => a.kind \in f[a.ctl]
        BY <3>2, <1>3, <1>5 DEF Reads
      <3>5. a.kind # "account"
        BY <3>2, <2>1, <1>3 DEF Owned, UsesApp, BannerTabs
      <3> HIDE DEF Told
      <3> QED
        BY <3>3, <3>4, <3>5, BuiltShape
    <2> HIDE DEF Told
    <2>5. /\ scr[t].kind = a.kind /\ scr[t].place = a.place
          /\ scr[t].ctl = a.ctl /\ scr[t].info = a.info
          /\ scr[t].ad = a.ad /\ scr[t].late = a.late
          /\ Told(t) => scr[t].shows = Built(a, f)
          /\ ~Told(t) => scr[t].shows = a.shows
      BY <1>11 DEF a
    <2> QED
      BY <2>1, <2>2, <2>3, <2>4, <2>5 DEF Sound, Owned, Alive
  \* The States of the other tabs and this one's, while it is alive, keep their controllers.
  <1>14. ASSUME NEW t \in Screens
         PROVE  /\ scr[t].place = "shown" <=> screen[t].place = "shown"
                /\ Alive(scr[t]) <=> Alive(screen[t])
                /\ scr[t].ctl # NoController =>
                     scr[t].ctl = screen[t].ctl /\ scr[t].kind = screen[t].kind
                /\ Alive(screen[t]) => scr[t].ctl = screen[t].ctl /\ scr[t].kind = screen[t].kind
    <2>1. scr[t].place = after[t].place /\ scr[t].ctl = after[t].ctl /\ scr[t].kind = after[t].kind
      BY <1>11
    <2> HIDE DEF q
    <2> QED
      BY <2>1, <1>7, <1>8, <1>9 DEF Alive
  <1> HIDE DEF q
  <1>15. RegisteredAlive(scr, registered)
    BY <1>14 DEF AdInv, Tidy, RegisteredAlive
  <1>16. Unalike(scr, odd)
    BY <1>6, <1>14 DEF AdInv, Tidy, Unalike
  <1>17. FlagsOwned(scr, registered, f, odd)
    <2> SUFFICES ASSUME registered # NoController, registered \notin odd,
                        NEW k \in BannerTabs, k \in f[registered]
                 PROVE  \E t \in Screens : scr[t].ctl = registered /\ scr[t].kind = k
      BY DEF FlagsOwned
    <2>1. \E t \in Screens : screen[t].ctl = registered /\ screen[t].kind = k
      <3>1. CASE k \in flags[registered]
        BY <3>1, <1>6 DEF AdInv, Tidy, FlagsOwned
      <3>2. CASE k \notin flags[registered]
        <4>1. registered = ctl /\ k = flag
          BY <3>2, <1>4, <1>5, NamesDiffer
        <4>2. kind # "video"
          BY <4>1, <1>6
        <4>3. k = kind
          BY <4>1, <4>2 DEF Sets
        <4> QED
          BY <4>1, <4>3
      <3> QED
        BY <3>1, <3>2
    <2>2. PICK t \in Screens : screen[t].ctl = registered /\ screen[t].kind = k
      BY <2>1
    <2>3. Alive(screen[t])
      BY <2>2 DEF AdInv, Tidy, RegisteredAlive
    <2> QED
      BY <2>2, <2>3, <1>14
  <1>18. Tidy(scr, registered, f, odd)
    BY <1>4, <1>5, <1>6, <1>12, <1>13, <1>15, <1>16, <1>17 DEF Tidy
  <1>19. Commit(scr, registered, f, odd) /\ stack' = stack
    BY <1>2 DEF scr, after, f, odd, q, e
  <1>20. Tidy(screen, registered, flags, tainted)' /\ Unused' /\ screen' = scr
    BY <1>18, <1>19, CommitTidy
  <1>21. Listed(stack, screen)'
    BY <1>14, <1>19, <1>20, SameList
  <1> QED
    BY <1>20, <1>21 DEF AdInv

-----------------------------------------------------------------------------
(* Navigation.                                                             *)

\* The top of the stack.
LEMMA TopShown ==
  ASSUME AdInv, stack # <<>>
  PROVE  /\ Len(stack) \in Nat \ {0} /\ DOMAIN stack = 1..Len(stack)
         /\ stack \in Seq(Screens) /\ stack[Len(stack)] \in Screens
         /\ screen[stack[Len(stack)]].place = "shown"
  <1>1. stack \in Seq(Screens)
    BY DEF AdInv, Listed
  <1>2. Len(stack) \in Nat \ {0} /\ DOMAIN stack = 1..Len(stack)
    BY <1>1, EmptySeq, LenProperties
  <1>3. Len(stack) \in 1..Len(stack)
    BY <1>2
  <1>4. stack[Len(stack)] \in Screens
    BY <1>1, <1>3, ElementOfSeq
  <1> QED
    BY <1>1, <1>2, <1>3, <1>4 DEF AdInv, Listed

LEMMA AdsLeave ==
  ASSUME AdInv, Leave
  PROVE  AdInv'
  <1> PICK n, s : n = Len(stack) /\ s = stack[n]
    OBVIOUS
  <1> DEFINE r == screen[s]
             e == [r EXCEPT !.place = "leaving"]
  <1>1. /\ stack # <<>> /\ screen' = [screen EXCEPT ![s] = e]
        /\ stack' = SubSeq(stack, 1, n - 1)
        /\ registered' = registered /\ flags' = flags /\ tainted' = tainted
    BY DEF Leave
  <1>2. /\ n \in Nat \ {0} /\ DOMAIN stack = 1..n /\ stack \in Seq(Screens)
        /\ s \in Screens /\ r.place = "shown"
    BY <1>1, TopShown
  <1>3. r \in State /\ Sound(r, flags, tainted)
    BY <1>2, StateOf
  <1>4. /\ e \in State /\ e.kind = r.kind /\ e.place = "leaving" /\ e.ctl = r.ctl
        /\ e.info = r.info /\ e.ad = r.ad /\ e.late = r.late /\ e.shows = r.shows
    BY <1>3 DEF State
  <1> HIDE DEF e
  <1>5. Sound(e, flags, tainted)
    BY <1>2, <1>3, <1>4 DEF Sound, Owned, Alive
  <1>6. /\ Tidy(screen, registered, flags, tainted)' /\ Unused'
        /\ \A t \in Screens : screen'[t] = IF t = s THEN e ELSE screen[t]
    BY <1>1, <1>2, <1>4, <1>5, OneStateStays DEF Alive
  <1>7. /\ stack' \in Seq(Screens) /\ Len(stack') = n - 1 /\ DOMAIN stack' = 1..(n - 1)
        /\ \A i \in 1..(n - 1) : stack'[i] = stack[i]
    <2>1. \A i \in 1..(n - 1) : stack[i] \in Screens
      BY <1>2, ElementOfSeq
    <2>2. /\ stack' \in Seq(Screens) /\ Len(stack') = n - 1
          /\ \A i \in 1..(n - 1) : stack'[i] = stack[i]
      BY <1>1, <1>2, <2>1, SubSeqProperties
    <2> QED
      BY <2>2, LenProperties
  <1>8. Listed(stack, screen)'
    <2>1. /\ Len(stack) <= MaxDepth
          /\ \A i, j \in 1..n : stack[i] = stack[j] => i = j
          /\ \A t \in Screens : screen[t].place = "shown" <=> \E i \in 1..n : stack[i] = t
      BY <1>2 DEF AdInv, Listed
    <2>2. Len(stack') <= MaxDepth
      BY <2>1, <1>2, <1>7, ScreensAssumption
    <2>3. \A i, j \in DOMAIN stack' : stack'[i] = stack'[j] => i = j
      <3>1. \A i \in 1..(n - 1) : i \in 1..n
        BY <1>2
      <3> QED
        BY <2>1, <3>1, <1>7, SMTT(30)
    <2>4. ASSUME NEW t \in Screens
          PROVE  screen'[t].place = "shown" <=> \E i \in DOMAIN stack' : stack'[i] = t
      <3>1. CASE t = s
        <4>1. screen'[t].place # "shown"
          BY <3>1, <1>4, <1>6
        <4>2. \A i \in 1..(n - 1) : i # n /\ i \in 1..n /\ n \in 1..n
          BY <1>2
        <4> QED
          BY <3>1, <4>1, <4>2, <1>7, <2>1, SMTT(30)
      <3>2. CASE t # s
        <4>1. \A i \in 1..n : i # n => i \in 1..(n - 1)
          BY <1>2
        <4>2. \A i \in 1..(n - 1) : i \in 1..n
          BY <1>2
        <4>3. (\E i \in 1..n : stack[i] = t) <=> (\E i \in 1..(n - 1) : stack[i] = t)
          BY <3>2, <4>1, <4>2
        <4> QED
          BY <3>2, <4>3, <1>6, <1>7, <2>1
      <3> QED
        BY <3>1, <3>2
    <2> QED
      BY <1>7, <2>2, <2>3, <2>4 DEF Listed
  <1> QED
    BY <1>6, <1>8 DEF AdInv

\* What is sound stays so when more controllers are odd.
LEMMA SoundWhenOdd ==
  ASSUME NEW r, NEW f, NEW odd, NEW odd2, Sound(r, f, odd), odd \subseteq odd2
  PROVE  Sound(r, f, odd2)
  BY DEF Sound

\* A new State of kind k with controller c comes into slot s. going are the tabs disposed of
\* in the same frame, which leaves the screens as scr0; reg, odd and scr are what Commit gets.
Comes(k, s, c, going, scr0, reg, odd, scr) ==
  /\ k \in Kinds \cup {"account"} /\ s \in Screens /\ Reusable(s)
  /\ c \in Controllers \cup {NoController} /\ Put(k, c)
  /\ going \in SUBSET Screens /\ s \notin going
  /\ scr0 \in [Screens -> State]
  /\ \A t \in Screens : Sound(scr0[t], flags, tainted)
  /\ \A t \in Screens \ going : scr0[t] = screen[t]
  /\ \A t \in going : /\ screen[t].kind # k
                      /\ scr0[t].ctl # NoController =>
                           scr0[t].ctl = screen[t].ctl /\ scr0[t].kind = screen[t].kind
  /\ \/ reg = NoController
     \/ /\ \A t \in going : screen[t].kind \notin BannerTabs
        /\ reg = IF UsesApp(k) THEN c ELSE registered
  /\ odd = IF Shares(k, c, going) THEN tainted \cup {c} ELSE tainted
  /\ scr = [scr0 EXCEPT ![s] = NewState(k, c)]

LEMMA NewScreen ==
  ASSUME AdInv, NEW k, NEW s, NEW c, NEW going, NEW scr0, NEW reg, NEW odd, NEW scr,
         Comes(k, s, c, going, scr0, reg, odd, scr)
  PROVE  /\ Tidy(scr, reg, flags, odd)
         /\ NewState(k, c) \in State /\ NewState(k, c).place = "shown"
  <1> SUFFICES ASSUME k \in Kinds \cup {"account"}, s \in Screens, Reusable(s),
                      c \in Controllers \cup {NoController}, Put(k, c),
                      going \in SUBSET Screens, s \notin going,
                      scr0 \in [Screens -> State],
                      \A t \in Screens : Sound(scr0[t], flags, tainted),
                      \A t \in Screens \ going : scr0[t] = screen[t],
                      \A t \in going : /\ screen[t].kind # k
                                       /\ scr0[t].ctl # NoController =>
                                            scr0[t].ctl = screen[t].ctl /\ scr0[t].kind = screen[t].kind,
                      \/ reg = NoController
                      \/ /\ \A t \in going : screen[t].kind \notin BannerTabs
                         /\ reg = IF UsesApp(k) THEN c ELSE registered,
                      odd = IF Shares(k, c, going) THEN tainted \cup {c} ELSE tainted,
                      scr = [scr0 EXCEPT ![s] = NewState(k, c)]
               PROVE  /\ Tidy(scr, reg, flags, odd)
                      /\ NewState(k, c) \in State /\ NewState(k, c).place = "shown"
    BY DEF Comes
  <1> DEFINE new == NewState(k, c)
  <1>1. /\ screen \in [Screens -> State] /\ registered \in AppControllers \cup {NoController}
        /\ flags \in [Controllers -> SUBSET Flags] /\ tainted \in SUBSET AppControllers
    BY DEF AdInv, Tidy
  \* The controller.
  <1>2. /\ k = "article" => c = "ArticleAd"
        /\ k = "category" => c = "CategoryNewsAd"
        /\ k = "account" => c = NoController
        /\ k # "account" /\ k # "article" /\ k # "category" =>
             /\ UsesApp(k) /\ c \in AppControllers
             /\ \/ registered # NoController /\ c = registered
                \/ registered = NoController /\ \A t \in Screens : screen[t].ctl # c
    BY <1>1, NamesDiffer, ScreensAssumption DEF Put, UsesApp, BannerTabs
  <1>3. /\ k \notin {"account", "article", "category"} <=> UsesApp(k)
        /\ k \in BannerTabs => UsesApp(k)
    BY <1>2 DEF UsesApp, BannerTabs
  <1>4. Reusable(s) => ~Alive(screen[s])
    BY DEF Reusable, Alive
  <1>5. /\ odd \in SUBSET AppControllers /\ tainted \subseteq odd
        /\ Shares(k, c, going) => c \in odd
    BY <1>1, <1>2, <1>3 DEF Shares
  \* No other tab shares the controller, unless it is odd.
  <1>6. ASSUME k \in BannerTabs, c \notin odd,
               NEW t \in Screens, screen[t].ctl = c, screen[t].kind \in BannerTabs
        PROVE  t \in going
    <2>1. c = registered /\ c # NoController
      BY <1>2, <1>3, <1>6, NamesDiffer
    <2>2. ~Shares(k, c, going)
      BY <1>5, <1>6
    <2>3. Live(t)
      BY <2>1, <1>6 DEF AdInv, Tidy, RegisteredAlive, Alive, Live
    <2> QED
      BY <2>2, <2>3, <1>6 DEF Shares
  <1>7. k \in BannerTabs /\ c \notin odd => k \notin flags[c]
    <2> SUFFICES ASSUME k \in BannerTabs, c \notin odd, k \in flags[c]
                 PROVE  FALSE
      OBVIOUS
    <2>1. c \in AppControllers /\ c # NoController
      BY <1>2, <1>3, NamesDiffer
    <2>2. CASE c = registered
      <3>1. PICK t \in Screens : screen[t].ctl = c /\ screen[t].kind = k
        BY <2>1, <2>2, <1>5 DEF AdInv, Tidy, FlagsOwned
      <3>2. t \in going
        BY <3>1, <1>6
      <3> QED
        BY <3>1, <3>2
    <2>3. CASE c # registered
      <3>1. \A t \in Screens : screen[t].ctl # c
        BY <2>3, <1>2, <1>3
      <3> QED
        BY <2>1, <2>3, <3>1 DEF AdInv, Unused
    <2> QED
      BY <2>2, <2>3
  <1>8. /\ new \in State /\ new.kind = k /\ new.place = "shown" /\ new.ctl = c
        /\ new.info = "asked" => k # "account"
        /\ new.ad = "none" /\ new.shows # "crash"
    <2> DEFINE info == IF k = "account" THEN "answered" ELSE "asked"
               r == [kind |-> k, place |-> "shown", ctl |-> c, info |-> info,
                     ad |-> "none", late |-> FALSE, shows |-> "unbuilt"]
               view == Built(r, flags)
               e == [r EXCEPT !.shows = view]
    <2>1. /\ r \in State /\ r.kind = k /\ r.place = "shown" /\ r.ctl = c /\ r.info = info
          /\ r.ad = "none" /\ r.shows = "unbuilt"
      BY DEF State
    <2>2. new = IF k = "article" THEN r ELSE e
      BY DEF NewState
    <2> HIDE DEF r
    <2>3. view \in {"nothing", "banner", "crash"} /\ (k # "article" => view # "crash")
      BY <2>1, BuiltShape
    <2> HIDE DEF view, new
    <2>4. /\ e \in State /\ e.kind = k /\ e.place = "shown" /\ e.ctl = c /\ e.info = info
          /\ e.ad = "none" /\ e.shows = view
      BY <2>1, <2>3 DEF State
    <2> HIDE DEF e
    <2> QED
      BY <2>1, <2>2, <2>3, <2>4
  <1> HIDE DEF new
  <1>9. c = NoController <=> k = "account"
    BY <1>2, NamesDiffer
  <1>10. Sound(new, flags, odd)
    <2>1. Owned(new)
      BY <1>2, <1>8 DEF Owned
    <2> QED
      BY <2>1, <1>7, <1>8, <1>9 DEF Sound, Alive
  <1>11. /\ scr \in [Screens -> State]
         /\ \A t \in Screens : scr[t] = IF t = s THEN new ELSE scr0[t]
    BY <1>8 DEF new
  <1>12. \A t \in Screens : Sound(scr[t], flags, odd)
    BY <1>5, <1>10, <1>11, SoundWhenOdd
  \* A State other than the new one that has a controller.
  <1>13. ASSUME NEW t \in Screens, t # s, scr[t].ctl # NoController
         PROVE  /\ scr[t].ctl = screen[t].ctl /\ scr[t].kind = screen[t].kind
                /\ t \in going => screen[t].kind # k
                /\ t \notin going => scr[t] = screen[t]
    BY <1>11, <1>13
  <1>14. RegisteredAlive(scr, reg)
    <2> SUFFICES ASSUME reg # NoController, NEW t \in Screens, scr[t].ctl = reg,
                        scr[t].kind \in BannerTabs
                 PROVE  Alive(scr[t])
      BY DEF RegisteredAlive
    <2>1. CASE t = s
      BY <2>1, <1>8, <1>11 DEF Alive
    <2>2. CASE t # s
      <3>1. t \notin going /\ scr[t] = screen[t]
        BY <2>2, <1>13
      <3>2. reg = registered
        BY <3>1, <1>2, <1>3
      <3> QED
        BY <3>1, <3>2 DEF AdInv, Tidy, RegisteredAlive
    <2> QED
      BY <2>1, <2>2
  <1>15. Unalike(scr, odd)
    <2>1. ASSUME NEW t \in Screens, t # s, scr[t].ctl = c, scr[t].kind = k,
                 k \in BannerTabs, c \notin odd
          PROVE  FALSE
      <3>1. c # NoController
        BY <2>1, <1>9 DEF BannerTabs
      <3>2. screen[t].ctl = c /\ screen[t].kind = k /\ t \notin going
        BY <2>1, <3>1, <1>13
      <3> QED
        BY <2>1, <3>2, <1>6
    <2> SUFFICES ASSUME NEW t \in Screens, NEW u \in Screens, scr[t].ctl = scr[u].ctl,
                        scr[t].ctl # NoController, scr[t].ctl \notin odd,
                        scr[t].kind = scr[u].kind, scr[t].kind \in BannerTabs
                 PROVE  t = u
      BY DEF Unalike
    <2>2. CASE t # s /\ u # s
      <3>1. /\ screen[t].ctl = scr[t].ctl /\ screen[t].kind = scr[t].kind
            /\ screen[u].ctl = scr[u].ctl /\ screen[u].kind = scr[u].kind
            /\ scr[t].ctl \notin tainted
        BY <2>2, <1>5, <1>13
      <3> QED
        BY <3>1 DEF AdInv, Tidy, Unalike
    <2>3. CASE t = s /\ u # s
      BY <2>1, <2>3, <1>8, <1>11
    <2>4. CASE u = s /\ t # s
      BY <2>1, <2>4, <1>8, <1>11
    <2> QED
      BY <2>2, <2>3, <2>4
  <1>16. FlagsOwned(scr, reg, flags, odd)
    <2> SUFFICES ASSUME reg # NoController, reg \notin odd, NEW b \in BannerTabs, b \in flags[reg]
                 PROVE  \E t \in Screens : scr[t].ctl = reg /\ scr[t].kind = b
      BY DEF FlagsOwned
    <2>1. CASE reg = registered
      <3>1. PICK t \in Screens : screen[t].ctl = reg /\ screen[t].kind = b
        BY <2>1, <1>5 DEF AdInv, Tidy, FlagsOwned
      <3>2. Alive(screen[t])
        BY <2>1, <3>1 DEF AdInv, Tidy, RegisteredAlive
      <3>3. t # s /\ t \notin going
        BY <3>1, <3>2, <1>4
      <3> QED
        BY <3>1, <3>3, <1>11
    <2>2. CASE reg # registered
      <3>1. reg = c /\ c \in AppControllers /\ \A t \in Screens : screen[t].ctl # c
        BY <2>2, <1>2, <1>3
      <3> QED
        BY <2>2, <3>1 DEF AdInv, Unused
    <2> QED
      BY <2>1, <2>2
  <1>17. reg \in AppControllers \cup {NoController}
    BY <1>1, <1>2, <1>3
  <1>18. Tidy(scr, reg, flags, odd)
    BY <1>1, <1>5, <1>11, <1>12, <1>14, <1>15, <1>16, <1>17 DEF Tidy
  <1> QED
    BY <1>8, <1>18 DEF new

LEMMA AdsOpen ==
  ASSUME AdInv, NEW k \in Kinds, Open(k)
  PROVE  AdInv'
  <1> DEFINE odd(c) == IF Shares(k, c, {}) THEN tainted \cup {c} ELSE tainted
             reg(c) == IF UsesApp(k) THEN c ELSE registered
             scr(s, c) == [screen EXCEPT ![s] = NewState(k, c)]
  <1>1. PICK s \in Screens, c \in Controllers \cup {NoController} :
          /\ Reusable(s) /\ Put(k, c)
          /\ Commit(scr(s, c), reg(c), flags, odd(c))
          /\ stack' = Append(stack, s)
    BY DEF Open
  <1>2. screen \in [Screens -> State] /\ \A t \in Screens : Sound(screen[t], flags, tainted)
    BY DEF AdInv, Tidy
  <1>3. /\ Tidy(scr(s, c), reg(c), flags, odd(c))
        /\ NewState(k, c) \in State /\ NewState(k, c).place = "shown"
    <2>1. Comes(k, s, c, {}, screen, reg(c), odd(c), scr(s, c))
      BY <1>1, <1>2 DEF Comes
    <2> QED
      BY <2>1, NewScreen
  <1>4. \A t \in Screens : scr(s, c)[t] = IF t = s THEN NewState(k, c) ELSE screen[t]
    BY <1>2
  <1> HIDE DEF scr, reg, odd
  <1>5. Tidy(screen, registered, flags, tainted)' /\ Unused' /\ screen' = scr(s, c)
    BY <1>1, <1>3, CommitTidy
  <1>6. /\ stack \in Seq(Screens) /\ Len(stack) \in Nat /\ DOMAIN stack = 1..Len(stack)
        /\ \A i, j \in 1..Len(stack) : stack[i] = stack[j] => i = j
        /\ \A t \in Screens : screen[t].place = "shown" <=> \E i \in 1..Len(stack) : stack[i] = t
    <2>1. stack \in Seq(Screens)
      BY DEF AdInv, Listed
    <2>2. Len(stack) \in Nat /\ DOMAIN stack = 1..Len(stack)
      BY <2>1, LenProperties
    <2> QED
      BY <2>1, <2>2 DEF AdInv, Listed
  <1> PICK n : n = Len(stack)
    OBVIOUS
  <1>7. /\ stack' \in Seq(Screens) /\ Len(stack') = n + 1 /\ DOMAIN stack' = 1..(n + 1)
        /\ \A i \in 1..n : stack'[i] = stack[i]
        /\ stack'[n + 1] = s
    <2>1. /\ stack' \in Seq(Screens) /\ Len(stack') = n + 1
          /\ \A i \in 1..n : stack'[i] = stack[i]
          /\ stack'[n + 1] = s
      BY <1>1, <1>6, AppendProperties
    <2> QED
      BY <2>1, LenProperties
  <1>8. Len(stack') <= MaxDepth
    <2>1. n < MaxDepth /\ n \in Nat
      BY <1>6 DEF Open
    <2> QED
      BY <2>1, <1>7, ScreensAssumption
  <1>9. \A i \in 1..n : stack[i] # s
    <2>1. screen[s].place # "shown"
      BY <1>1 DEF Reusable
    <2> QED
      BY <2>1, <1>1, <1>6
  <1>10. \A i \in 1..(n + 1) : i # n + 1 => i \in 1..n
    BY <1>6
  <1>11. ASSUME NEW i \in 1..(n + 1), NEW j \in 1..(n + 1), stack'[i] = stack'[j]
         PROVE  i = j
    <2>1. CASE i = n + 1 /\ j # n + 1
      BY <2>1, <1>7, <1>9, <1>10, <1>11
    <2>2. CASE j = n + 1 /\ i # n + 1
      BY <2>2, <1>7, <1>9, <1>10, <1>11
    <2>3. CASE i # n + 1 /\ j # n + 1
      BY <2>3, <1>6, <1>7, <1>10, <1>11
    <2> QED
      BY <2>1, <2>2, <2>3
  <1>12. ASSUME NEW t \in Screens
         PROVE  screen'[t].place = "shown" <=> \E i \in 1..(n + 1) : stack'[i] = t
    <2>1. n + 1 \in 1..(n + 1) /\ \A i \in 1..n : i \in 1..(n + 1)
      BY <1>6
    <2>2. CASE t = s
      BY <2>1, <2>2, <1>3, <1>4, <1>5, <1>7
    <2>3. CASE t # s
      <3>1. screen'[t].place = "shown" <=> \E i \in 1..n : stack[i] = t
        BY <2>3, <1>4, <1>5, <1>6
      <3>2. (\E i \in 1..(n + 1) : stack'[i] = t) <=> \E i \in 1..n : stack[i] = t
        BY <2>1, <2>3, <1>7, <1>10
      <3> QED
        BY <3>1, <3>2
    <2> QED
      BY <2>2, <2>3
  <1>13. Listed(stack, screen)'
    BY <1>7, <1>8, <1>11, <1>12 DEF Listed
  <1> QED
    BY <1>5, <1>13 DEF AdInv

LEMMA AdsSelectTab ==
  ASSUME AdInv, NEW k \in Kinds, SelectTab(k)
  PROVE  AdInv'
  <1> PICK n, old : n = Len(stack) /\ old = stack[n]
    OBVIOUS
  <1> DEFINE r == screen[old]
             going == {old}
             odd(c) == IF Shares(k, c, going) THEN tainted \cup {c} ELSE tainted
             reg(c) == IF Deletes(r.kind) THEN NoController ELSE IF UsesApp(k) THEN c ELSE registered
             scr0 == [screen EXCEPT ![old] = Disposed(r)]
             scr(s, c) == [scr0 EXCEPT ![s] = NewState(k, c)]
  <1>1. stack # <<>> /\ r.kind \in Tabs \ {k}
    BY DEF SelectTab, Top
  <1>2. /\ n \in Nat \ {0} /\ DOMAIN stack = 1..n /\ stack \in Seq(Screens)
        /\ old \in Screens /\ r.place = "shown"
    BY <1>1, TopShown
  <1>3. PICK s \in Screens, c \in Controllers \cup {NoController} :
          /\ Reusable(s) /\ Put(k, c)
          /\ Commit([screen EXCEPT ![s] = NewState(k, c), ![old] = Disposed(r)],
                    reg(c), flags, odd(c))
          /\ stack' = [stack EXCEPT ![n] = s]
    BY DEF SelectTab, Top
  <1>4. s # old
    BY <1>2, <1>3 DEF Reusable
  <1>5. /\ screen \in [Screens -> State] /\ \A t \in Screens : Sound(screen[t], flags, tainted)
        /\ r \in State
    BY <1>2 DEF AdInv, Tidy
  <1>6. [screen EXCEPT ![s] = NewState(k, c), ![old] = Disposed(r)] = scr(s, c)
    BY <1>2, <1>4, <1>5
  <1>7. /\ Disposed(r) \in State /\ Sound(Disposed(r), flags, tainted)
        /\ Disposed(r).place # "shown"
        /\ Disposed(r).ctl # NoController => Disposed(r).ctl = r.ctl /\ Disposed(r).kind = r.kind
    BY <1>2, <1>5, DisposedShape, DisposedSound
  <1>8. /\ scr0 \in [Screens -> State]
        /\ \A t \in Screens : scr0[t] = IF t = old THEN Disposed(r) ELSE screen[t]
    BY <1>5, <1>7
  <1> HIDE DEF scr0
  <1>9. /\ \A t \in Screens : Sound(scr0[t], flags, tainted)
        /\ \A t \in Screens \ going : scr0[t] = screen[t]
        /\ \A t \in going : /\ screen[t].kind # k
                            /\ scr0[t].ctl # NoController =>
                                 scr0[t].ctl = screen[t].ctl /\ scr0[t].kind = screen[t].kind
    BY <1>1, <1>2, <1>5, <1>7, <1>8
  <1>10. \/ reg(c) = NoController
         \/ /\ \A t \in going : screen[t].kind \notin BannerTabs
            /\ reg(c) = IF UsesApp(k) THEN c ELSE registered
    BY DEF Deletes
  <1>11. going \in SUBSET Screens /\ s \notin going
    BY <1>2, <1>4
  <1> HIDE DEF reg, going
  <1>12. /\ Tidy(scr(s, c), reg(c), flags, odd(c))
         /\ NewState(k, c) \in State /\ NewState(k, c).place = "shown"
    <2>1. Comes(k, s, c, going, scr0, reg(c), odd(c), scr(s, c))
      BY <1>3, <1>8, <1>9, <1>10, <1>11 DEF Comes
    <2> QED
      BY <2>1, NewScreen
  <1>13. \A t \in Screens : scr(s, c)[t] = IF t = s THEN NewState(k, c) ELSE scr0[t]
    BY <1>8
  <1> HIDE DEF scr, odd
  <1>14. Tidy(screen, registered, flags, tainted)' /\ Unused' /\ screen' = scr(s, c)
    BY <1>3, <1>6, <1>12, CommitTidy
  <1>15. /\ Len(stack) <= MaxDepth
         /\ \A i, j \in 1..n : stack[i] = stack[j] => i = j
         /\ \A t \in Screens : screen[t].place = "shown" <=> \E i \in 1..n : stack[i] = t
    BY <1>2 DEF AdInv, Listed
  <1>16. /\ stack' \in Seq(Screens) /\ Len(stack') = n /\ DOMAIN stack' = 1..n /\ n \in 1..n
         /\ \A i \in 1..n : stack'[i] = IF i = n THEN s ELSE stack[i]
    <2>1. n \in 1..n
      BY <1>2
    <2>2. /\ stack' \in Seq(Screens) /\ Len(stack') = n
          /\ \A i \in 1..n : stack'[i] = IF i = n THEN s ELSE stack[i]
      BY <1>2, <1>3, <2>1, ExceptSeq
    <2> QED
      BY <2>1, <2>2, LenProperties
  <1>17. \A i \in 1..n : stack[i] # s
    <2>1. screen[s].place # "shown"
      BY <1>3 DEF Reusable
    <2> QED
      BY <2>1, <1>3, <1>15
  <1>18. \A i, j \in 1..n : stack'[i] = stack'[j] => i = j
    BY <1>15, <1>16, <1>17
  <1>19. ASSUME NEW t \in Screens
         PROVE  screen'[t].place = "shown" <=> \E i \in 1..n : stack'[i] = t
    <2>1. CASE t = s
      BY <2>1, <1>12, <1>13, <1>14, <1>16
    <2>2. CASE t = old
      <3>1. screen'[t].place # "shown"
        BY <2>2, <1>4, <1>7, <1>8, <1>13, <1>14
      <3>2. \A i \in 1..n : stack'[i] # old
        BY <1>4, <1>15, <1>16
      <3> QED
        BY <2>2, <3>1, <3>2
    <2>3. CASE t # s /\ t # old
      <3>1. screen'[t] = screen[t]
        BY <2>3, <1>8, <1>13, <1>14
      <3>2. (\E i \in 1..n : stack'[i] = t) <=> \E i \in 1..n : stack[i] = t
        BY <2>3, <1>16
      <3> QED
        BY <3>1, <3>2, <1>15
    <2> QED
      BY <2>1, <2>2, <2>3
  <1>20. Listed(stack, screen)'
    BY <1>2, <1>15, <1>16, <1>18, <1>19 DEF Listed
  <1> QED
    BY <1>14, <1>20 DEF AdInv

-----------------------------------------------------------------------------
(* The theorems.                                                           *)

LEMMA AdsInit ==
  ASSUME Init
  PROVE  AdInv
  <1>1. /\ screen = [s \in Screens |-> Free] /\ stack = <<>> /\ registered = NoController
        /\ flags = [c \in Controllers |-> {}] /\ tainted = {}
    BY DEF Init
  <1>2. screen \in [Screens -> State] /\ \A s \in Screens : screen[s] = Free
    BY <1>1, FreeShape
  <1>3. /\ flags \in [Controllers -> SUBSET Flags] /\ tainted \in SUBSET AppControllers
        /\ \A c \in AppControllers : flags[c] = {}
    BY <1>1, NamesDiffer
  <1>4. Tidy(screen, registered, flags, tainted)
    BY <1>1, <1>2, <1>3, FreeShape, FreeSound DEF Tidy, RegisteredAlive, Unalike, FlagsOwned
  <1>5. Listed(stack, screen)
    <2>1. stack \in Seq(Screens) /\ Len(stack) = 0 /\ DOMAIN stack = {}
      BY <1>1, EmptySeq
    <2> QED
      BY <2>1, <1>2, FreeShape, ScreensAssumption DEF Listed
  <1> QED
    BY <1>3, <1>4, <1>5 DEF AdInv, Unused

LEMMA AdsNext ==
  ASSUME AdInv, [Next]_vars
  PROVE  AdInv'
  <1>1. CASE Next
    BY <1>1, AdsOpen, AdsSelectTab, AdsLeave, AdsDispose, AdsAdInfo, AdsNoAds, AdsAdLoaded,
       AdsAdFailed, AdsBuild DEF Next
  <1>2. CASE UNCHANGED vars
    BY <1>2 DEF vars, AdInv, Unused
  <1> QED
    BY <1>1, <1>2

LEMMA AdsAlways ==
  Spec => []AdInv
  <1>1. Init => AdInv
    BY AdsInit
  <1>2. AdInv /\ [Next]_vars => AdInv'
    BY AdsNext
  <1> QED
    BY <1>1, <1>2, PTL DEF Spec

\* Every reachable state is well typed: the stack holds the shown screens, each once, and
\* a screen that is alive has a controller unless it is the account tab. (initState and
\* dispose of the screens, Get.put and Get.delete of AppAdController.)
THEOREM AdsTypeCorrect == Spec => []TypeOK
  <1>1. AdInv => TypeOK
    BY DEF AdInv, Tidy, Listed, Sound, State, TypeOK, Shown, Live, Alive
  <1> QED
    BY <1>1, AdsAlways, PTL

\* A banner that has loaded is on its screen, but for the video screen and for an
\* AppAdController shared past the tabs' Get.delete. (onAdLoaded and the Obx and GetBuilder
\* of each screen.)
THEOREM LoadedBannersShown == Spec => []LoadedBannerShown
  <1>1. AdInv => LoadedBannerShown
    BY DEF AdInv, Tidy, Sound, LoadedBannerShown, Shown
  <1> QED
    BY <1>1, AdsAlways, PTL

\* A builder fails only on a banner that failed to load, or in the article screen, which
\* does not test for null. (The builders' smallBannerAd! and AdWidget.)
THEOREM BrokenBuildsHaveCause == Spec => []BrokenBuildHasCause
  <1>1. AdInv => BrokenBuildHasCause
    BY DEF AdInv, Tidy, Sound, BrokenBuildHasCause, Shown
  <1> QED
    BY <1>1, AdsAlways, PTL

\* When a screen is gone its banner is freed, but for the video screen and a banner created
\* when the ad unit arrived too late. (dispose() and getAdInfo of each screen.)
THEOREM BannersFreed == Spec => []GoneBannersFreed
  <1>1. AdInv => GoneBannersFreed
    BY DEF AdInv, Tidy, Sound, GoneBannersFreed
  <1> QED
    BY <1>1, AdsAlways, PTL

=============================================================================
