------------------------------- MODULE AdBanners -------------------------------
(***************************************************************************)
(* Banner advertisements. Each screen that shows one asks the backend for  *)
(* the ad unit (getAdInfo), creates a BannerAd and loads it; the ad's      *)
(* callback sets a "loaded" flag in a GetX controller, and the builder of  *)
(* the screen shows the banner when it finds the flag set. The flags live  *)
(* in controllers that outlive the screens: AppAdController is shared by   *)
(* the tabs and the video screen and deleted by the tab that goes,         *)
(* ArticleAdController and CategoryNewsAdController are never deleted.     *)
(*                                                                         *)
(* The flags and banners of one screen are alike (four on the home screen, *)
(* three on an article), so one of each is carried.                        *)
(***************************************************************************)
EXTENDS Naturals, Sequences, FiniteSets

CONSTANTS
  Screens,          \* slots for the State objects that are alive at one time
  AppControllers,   \* identities for the instances of AppAdController
  NoController,     \* nothing registered
  Kinds,            \* the kinds of screen that are opened
  MaxDepth          \* bound on the Navigator's stack

ASSUME ScreensAssumption ==
  /\ NoController \notin AppControllers \cup {"ArticleAd", "CategoryNewsAd"}
  /\ AppControllers \cap {"ArticleAd", "CategoryNewsAd"} = {}
  /\ Kinds \subseteq {"home", "videoNews", "search", "account", "video", "article", "category"}
  /\ MaxDepth \in Nat \ {0}

VARIABLES
  screen,       \* the State object in each slot
  stack,        \* the Navigator: the slots of the screens that are shown
  registered,   \* the AppAdController that Get.put would return
  flags,        \* the flags that are set in each controller
  tainted       \* history: AppAdControllers shared in a way the tabs' deletes do not cover

vars == <<screen, stack, registered, flags, tainted>>

-----------------------------------------------------------------------------
(* What the screens' code says of their banners.                           *)

BannerTabs == {"home", "videoNews", "search"}
Tabs       == BannerTabs \cup {"account"}
Flags      == BannerTabs \cup {"article", "category"}

Controllers == AppControllers \cup {"ArticleAd", "CategoryNewsAd"}

\* The flag that onAdLoaded sets. VideoScreen sets the one of the search screen.
Sets(k) == IF k = "video" THEN "search" ELSE k

\* The flag that the builder reads. VideoScreen reads the one of the video tab.
Reads(k) == IF k = "video" THEN "videoNews" ELSE k

\* A category screen that dereferences the banner untested.
GuardedLess(k) == k \notin {"article", "category"}

\* The builder also tests that the banner is there: all do but ArticleScreen.
Guarded(k) == k # "article"

\* A category screen without a dispose().
FreesLess(k) == k \notin {"video", "category"}

\* dispose() frees the banner: VideoScreen's does not.
Frees(k) == k # "video"

\* A home tab that leaves AppAdController registered.
DeletesLess(k) == k \in {"videoNews", "search"}

\* dispose() calls Get.delete<AppAdController>().
Deletes(k) == k \in BannerTabs

\* Uses AppAdController, whose flags are RxBool: setting one that is set notifies nobody.
UsesApp(k) == k \in BannerTabs \cup {"video"}

Free == [kind |-> "account", place |-> "free", ctl |-> NoController, info |-> "answered",
         ad |-> "none", late |-> FALSE, shows |-> "nothing"]

Shown(s) == screen[s].place = "shown"

\* The State is mounted: on the stack, or off it with its exit transition running.
Live(s) == screen[s].place \in {"shown", "leaving"}

Top == screen[stack[Len(stack)]]

\* Nothing can happen any more to the State in this slot or to its banner.
Reusable(s) == /\ screen[s].place \in {"free", "gone"}
               /\ screen[s].info = "answered"
               /\ screen[s].ad # "loading"

-----------------------------------------------------------------------------
(* Building a banner.                                                      *)

\* What the builder of a screen makes of its State r and the flags f.
Built(r, f) ==
  CASE r.kind = "account" \/ Reads(r.kind) \notin f[r.ctl] -> "nothing"
    [] Reads(r.kind) \in f[r.ctl] /\ r.ad = "none"  -> IF Guarded(r.kind) THEN "nothing" ELSE "crash"
    [] Reads(r.kind) \in f[r.ctl] /\ r.ad = "dead"  -> "crash"
    [] OTHER -> "banner"

\* Get.put: the instance that is registered, or a new one.
Put(k, c) ==
  CASE k = "article"  -> c = "ArticleAd"
    [] k = "category" -> c = "CategoryNewsAd"
    [] k = "account"  -> c = NoController
    [] OTHER -> IF registered # NoController
                  THEN c = registered
                  ELSE c \in AppControllers /\ \A t \in Screens : screen[t].ctl # c

\* The new screens, registration, flags and history. An AppAdController that
\* nothing refers to is garbage; a new one under its identity has no flag set.
Commit(scr, reg, f, odd) ==
  LET Kept(c) == \/ c \notin AppControllers
                 \/ c = reg
                 \/ \E t \in Screens : scr[t].ctl = c
  IN  /\ screen' = scr
      /\ registered' = reg
      /\ flags' = [c \in Controllers |-> IF Kept(c) THEN f[c] ELSE {}]
      /\ tainted' = {c \in odd : Kept(c)}

\* A State of kind k with controller c: initState asks for the ad unit. Every
\* builder runs at once, except the article's, which waits for the article.
NewState(k, c) ==
  LET r == [kind |-> k, place |-> "shown", ctl |-> c,
            info |-> IF k = "account" THEN "answered" ELSE "asked",
            ad |-> "none", late |-> FALSE, shows |-> "unbuilt"]
  IN  IF k = "article" THEN r ELSE [r EXCEPT !.shows = Built(r, flags)]

\* A State that is gone, when no call and no banner is left that could call it back.
Settled(r) ==
  CASE r.place = "gone" /\ r.info = "answered" /\ r.ad \in {"none", "dead"} -> Free
    [] r.place = "gone" /\ r.ad = "loaded" -> [r EXCEPT !.ctl = NoController]
    [] OTHER -> r

\* A MainScreen that keeps its old tabs mounted.
DisposedNever(r) == r

\* dispose(): the banner is freed, unless the ad unit has not arrived yet.
Disposed(r) ==
  Settled([r EXCEPT !.place = "gone",
                    !.shows = "nothing",
                    !.ad = IF Frees(r.kind) /\ r.ad # "none" THEN "dead" ELSE r.ad])

\* Controller c is taken by a tab while a tab other than the one going still uses it.
Shares(k, c, going) ==
  k \in BannerTabs /\ \E t \in Screens \ going :
    Live(t) /\ screen[t].kind \in BannerTabs /\ screen[t].ctl = c

-----------------------------------------------------------------------------
Init ==
  /\ screen = [s \in Screens |-> Free]
  /\ stack = <<>>
  /\ registered = NoController
  /\ flags = [c \in Controllers |-> {}]
  /\ tainted = {}

\* Which screens open over which: MainScreen (with its home tab) after signing
\* in, an article or a video from a card or from a link at any time once
\* MainScreen runs, a category from the home tab.
MayOpen(k) ==
  CASE k = "home"               -> stack # <<>> => Top.kind \in Tabs \cup {"article"}
    [] k = "category"           -> stack # <<>> /\ Top.kind = "home"
    [] k \in {"article", "video"} -> stack # <<>>
    [] OTHER -> FALSE

\* Navigator.push of a screen with a banner.
Open(k) ==
  /\ MayOpen(k)
  /\ Len(stack) < MaxDepth
  /\ \E s \in Screens, c \in Controllers \cup {NoController} :
       /\ Reusable(s)
       /\ Put(k, c)
       /\ Commit([screen EXCEPT ![s] = NewState(k, c)],
                 IF UsesApp(k) THEN c ELSE registered,
                 flags,
                 IF Shares(k, c, {}) THEN tainted \cup {c} ELSE tainted)
       /\ stack' = Append(stack, s)

\* The bottom bar: the new tab is built (Get.put), then the old one is disposed
\* of (Get.delete), in one frame.
SelectTab(k) ==
  /\ k \in Tabs
  /\ stack # <<>>
  /\ Top.kind \in Tabs \ {k}
  /\ \E s \in Screens, c \in Controllers \cup {NoController} :
       LET old == stack[Len(stack)] IN
       /\ Reusable(s)
       /\ Put(k, c)
       /\ Commit([screen EXCEPT ![s] = NewState(k, c), ![old] = Disposed(Top)],
                 IF Deletes(Top.kind) THEN NoController ELSE IF UsesApp(k) THEN c ELSE registered,
                 flags,
                 IF Shares(k, c, {old}) THEN tainted \cup {c} ELSE tainted)
       /\ stack' = [stack EXCEPT ![Len(stack)] = s]

\* Navigator.pop, or the replacement of MainScreen on logout.
Leave ==
  /\ stack # <<>>
  /\ Len(stack) = 1 => Top.kind \in Tabs
  /\ screen' = [screen EXCEPT ![stack[Len(stack)]].place = "leaving"]
  /\ stack' = SubSeq(stack, 1, Len(stack) - 1)
  /\ UNCHANGED <<registered, flags, tainted>>

\* The exit transition ends.
Dispose(s) ==
  /\ screen[s].place = "leaving"
  /\ Commit([screen EXCEPT ![s] = Disposed(@)],
            IF Deletes(screen[s].kind) THEN NoController ELSE registered, flags, tainted)
  /\ UNCHANGED stack

\* getAdInfo answers with an ad unit: the BannerAd is created and starts loading,
\* mounted or not.
AdInfo(s) ==
  /\ screen[s].info = "asked"
  /\ screen' = [screen EXCEPT ![s].info = "answered", ![s].ad = "loading", ![s].late = ~Live(s)]
  /\ UNCHANGED <<stack, registered, flags, tainted>>

\* getAdInfo fails, or ads are switched off.
NoAds(s) ==
  /\ screen[s].info = "asked"
  /\ Commit([screen EXCEPT ![s] = Settled([@ EXCEPT !.info = "answered"])],
            registered, flags, tainted)
  /\ UNCHANGED stack

\* onAdLoaded: the flag is set. GetBuilder's update() rebuilds every builder of the
\* controller; an RxBool notifies its Obx only when the value changes.
AdLoaded(s) ==
  LET r    == screen[s]
      f    == [flags EXCEPT ![r.ctl] = @ \cup {Sets(r.kind)}]
      Told(t) == /\ Live(t) /\ screen[t].shows # "unbuilt"
                 /\ screen[t].ctl = r.ctl
                 /\ Reads(screen[t].kind) = Sets(r.kind)
                 /\ UsesApp(r.kind) => Sets(r.kind) \notin flags[r.ctl]
      after == [screen EXCEPT ![s] = Settled([r EXCEPT !.ad = "loaded"])]
  IN  /\ r.ad = "loading"
      /\ Commit([t \in Screens |->
                   IF Told(t) THEN [after[t] EXCEPT !.shows = Built(after[t], f)] ELSE after[t]],
                registered, f,
                IF r.kind = "video" THEN tainted \cup {r.ctl} ELSE tainted)
      /\ UNCHANGED stack

\* onAdFailedToLoad: ad.dispose().
AdFailed(s) ==
  /\ screen[s].ad = "loading"
  /\ Commit([screen EXCEPT ![s] = Settled([@ EXCEPT !.ad = "dead"])],
            registered, flags, tainted)
  /\ UNCHANGED stack

\* build() runs: the article has arrived, or something the screen depends on changed.
Build(s) ==
  /\ Live(s)
  /\ screen' = [screen EXCEPT ![s].shows = Built(screen[s], flags)]
  /\ UNCHANGED <<stack, registered, flags, tainted>>

Next ==
  \/ \E k \in Kinds : Open(k) \/ SelectTab(k)
  \/ Leave
  \/ \E s \in Screens : \/ Dispose(s) \/ AdInfo(s) \/ NoAds(s)
                        \/ AdLoaded(s) \/ AdFailed(s) \/ Build(s)

Spec == Init /\ [][Next]_vars
-----------------------------------------------------------------------------
\* Every variable is of its type, and the stack holds the shown screens, each once,
\* with nothing but banner screens using a controller.
TypeOK ==
  /\ screen \in [Screens -> [kind : Kinds \cup {"account"}, place : {"free", "shown", "leaving", "gone"},
                             ctl : Controllers \cup {NoController}, info : {"asked", "answered"},
                             ad : {"none", "loading", "loaded", "dead"}, late : BOOLEAN,
                             shows : {"unbuilt", "nothing", "banner", "crash"}]]
  /\ stack \in Seq(Screens) /\ Len(stack) <= MaxDepth
  /\ registered \in AppControllers \cup {NoController}
  /\ flags \in [Controllers -> SUBSET Flags]
  /\ tainted \subseteq AppControllers
  /\ \A i, j \in DOMAIN stack : stack[i] = stack[j] => i = j
  /\ \A s \in Screens : Shown(s) <=> \E i \in DOMAIN stack : stack[i] = s
  /\ \A s \in Screens : Live(s) => (screen[s].ctl = NoController <=> screen[s].kind = "account")

\* A banner that has loaded is on its screen. Only two things hide one: the
\* video screen reads a flag that is not its own, and an AppAdController that was
\* shared past the tabs' Get.delete (by two MainScreens at once, or marked by a
\* video screen) has the flag set already, so that setting it again notifies nobody.
LoadedBannerShown ==
  \A s \in Screens :
    /\ Shown(s) /\ screen[s].ad = "loaded" /\ screen[s].shows # "unbuilt"
    /\ screen[s].kind # "video" /\ screen[s].ctl \notin tainted
    => screen[s].shows = "banner"

\* A builder fails only on a banner that failed to load under a flag an earlier
\* banner left set, or in the article screen, which does not test for null.
BrokenBuildHasCause ==
  \A s \in Screens :
    Shown(s) /\ screen[s].shows = "crash"
    => screen[s].ad = "dead" \/ (screen[s].kind = "article" /\ "article" \in flags["ArticleAd"])

\* When a screen is gone its banner is freed, or was never created; the exceptions
\* are the video screen, and a banner created when the ad unit arrived too late.
GoneBannersFreed ==
  \A s \in Screens :
    screen[s].place = "gone" /\ screen[s].kind # "video" /\ ~screen[s].late
    => screen[s].ad \in {"none", "dead"}

\* The article screen's builders dereference smallBannerAd!, mediumBannerAd! and
\* bottomBannerAd! whenever the loaded flag is set: the banner is there.
ArticleBannerThere ==
  \A s \in Screens :
    Shown(s) /\ screen[s].kind = "article" /\ screen[s].shows = "crash" => screen[s].ad # "none"

\* The flag that AppAdController declares under "Search Screen Ads" is set
\* when the banner of a search screen loads, and then only.
SearchFlagForSearch ==
  [][\A c \in Controllers : "search" \in flags'[c] \ flags[c] =>
       \E s \in Screens : /\ screen[s].kind = "search"
                          /\ screen[s].ad = "loading" /\ screen'[s].ad = "loaded"]_vars
=============================================================================
