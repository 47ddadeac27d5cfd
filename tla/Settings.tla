------------------------------- MODULE Settings -------------------------------
(***************************************************************************)
(* The app's language, which AppSettingsManager caches, the preferences    *)
(* write behind and the backend keeps in the reader's profile; and the     *)
(* section of the home tab that shows news in it.  The news are fetched by *)
(* initState and by every build, and what is drawn reads the State's list  *)
(* again whenever a card scrolls into view.  HomeScreenController hides    *)
(* the section for good once it came back empty.                           *)
(*                                                                         *)
(* Calls stand in the order they were sent; answers arrive in any order.   *)
(***************************************************************************)
EXTENDS Naturals, Sequences, SequencesExt

CONSTANTS
  Languages,
  Nothing,      \* an empty list
  MaxNews,      \* bounds on the calls of a kind under way
  MaxUpdates

ASSUME SettingsAssumption == Nothing \notin Languages /\ MaxNews \in Nat /\ MaxUpdates \in Nat

VARIABLES
  home,         \* the home tab is there
  newsLoaded,   \* HomeScreenController.isTrendingArticlesLoaded
  listed,       \* the language of the State's trendingArticleList
  drawn,        \* the language of the list as the FutureBuilder drew it
  newsCalls,    \* fetchTrendingArticles, under way
  locale,       \* AppSettingsManager.appLocale, and the preferences as they are read
  stored,       \* the preferences as they are on disk
  profile,      \* the language in the backend's row of the reader
  updates,      \* updateUserData, under way
  \* history, read by no handler:
  switched,     \* the language changed while news in the former one were under way
  drifted       \* a guest, a lost or an overtaken call, or a death set device and profile apart

newsVars == <<home, newsLoaded, listed, drawn, newsCalls, switched>>
languageVars == <<locale, stored, profile, updates, drifted>>
settingsVars == <<newsVars, languageVars>>

\* The FutureBuilder hears one call; of the others, those of a home tab that is gone
\* write to a list that nobody sees.
NewsCall == [of : Languages, role : {"heard", "unheard", "orphan"}]
NewsOutcomes == {"some", "none", "failed"}

\* late is history: the backend has served a call sent after this one.
Update == [of : Languages, late : BOOLEAN]

SettingsInit ==
  /\ home = FALSE
  /\ newsLoaded = TRUE /\ listed = Nothing /\ drawn = Nothing /\ newsCalls = <<>>
  /\ locale \in Languages /\ stored = locale /\ profile = locale /\ updates = <<>>
  /\ switched = FALSE /\ drifted = FALSE

-----------------------------------------------------------------------------
(* The section of news.                                                    *)

\* A FutureBuilder that keeps the future it is waiting for.
FutureKept(calls) ==
  IF ~newsLoaded \/ \E n \in DOMAIN calls : calls[n].role = "heard" THEN calls
  ELSE Append(calls, [of |-> locale', role |-> "heard"])

\* The calls once the section is built: the FutureBuilder hears a new one, unless it is hidden.
Rebuilt(calls) ==
  [n \in DOMAIN calls |-> [calls[n] EXCEPT !.role = IF @ = "heard" THEN "unheard" ELSE @]]
  \o (IF newsLoaded THEN <<[of |-> locale', role |-> "heard"]>> ELSE <<>>)

\* build(), the language being locale'.
Build(calls) ==
  /\ newsCalls' = Rebuilt(calls)
  /\ Len(newsCalls') <= MaxNews
  /\ drawn' = Nothing

\* initState fetches, and so does the first build.
OpenNews ==
  /\ ~home
  /\ home' = TRUE
  /\ listed' = Nothing /\ switched' = FALSE
  /\ UNCHANGED <<newsLoaded, languageVars>>
  /\ Build(Append(newsCalls, [of |-> locale, role |-> "unheard"]))

LeaveNews ==
  /\ home
  /\ home' = FALSE
  /\ newsCalls' = [n \in DOMAIN newsCalls |-> [newsCalls[n] EXCEPT !.role = "orphan"]]
  /\ UNCHANGED <<newsLoaded, listed, drawn, switched, languageVars>>

\* The theme changes (updateTheme): the home tab is built again.
TapTheme ==
  /\ home
  /\ UNCHANGED languageVars
  /\ Build(newsCalls)
  /\ UNCHANGED <<home, newsLoaded, listed, switched>>

\* getTrendingArticles: an empty list, a refusal too, hides the section from the next build on.
NewsAnswered(n, got) ==
  LET c == newsCalls[n]
      list == IF got = "some" THEN c.of ELSE Nothing IN
  /\ newsCalls' = RemoveAt(newsCalls, n)
  /\ listed' = IF c.role = "orphan" \/ got = "failed" THEN listed ELSE list
  /\ drawn' = IF c.role = "heard" THEN list ELSE drawn
  /\ newsLoaded' = (newsLoaded /\ got # "none")
  /\ UNCHANGED <<home, switched, languageVars>>

-----------------------------------------------------------------------------
(* The language.                                                           *)

\* A handler that sends the language which was selected before.
ToldFormer(l, guest) == IF guest THEN updates ELSE Append(updates, [of |-> locale, late |-> FALSE])

\* updateUserData, for a reader who is signed in.
Told(l, guest) == IF guest THEN updates ELSE Append(updates, [of |-> l, late |-> FALSE])

\* The locale changes at once and the home tab is built again; the profile is told by a call
\* that a guest's currentUser! prevents and whose failure nobody handles.
TapLanguage(l, guest) ==
  /\ Len(updates) < MaxUpdates
  /\ locale' = l
  /\ updates' = Told(l, guest)
  /\ drifted' = (drifted \/ guest)
  /\ IF home /\ l # locale
       THEN /\ Build(newsCalls)
            /\ switched' = (switched \/ \E n \in DOMAIN newsCalls : newsCalls[n].role # "orphan")
       ELSE UNCHANGED <<newsCalls, drawn, switched>>
  /\ UNCHANGED <<home, newsLoaded, listed, stored, profile>>

\* The preferences reach the disk.
Flush ==
  /\ stored # locale
  /\ stored' = locale
  /\ UNCHANGED <<newsVars, locale, profile, updates, drifted>>

\* updateUserData.php, in whatever order the calls arrive there.
Updated(n) ==
  LET u == updates[n] IN
  /\ updates' = RemoveAt([m \in DOMAIN updates |-> IF m < n THEN [updates[m] EXCEPT !.late = TRUE]
                                                   ELSE updates[m]], n)
  /\ profile' = u.of
  /\ drifted' = (u.late \/ (drifted /\ ~(n = Len(updates) /\ u.of = locale)))
  /\ UNCHANGED <<newsVars, locale, stored>>

UpdateLost(n) ==
  /\ updates' = RemoveAt(updates, n)
  /\ drifted' = TRUE
  /\ UNCHANGED <<newsVars, locale, stored, profile>>

\* The process dies and starts again with what is on disk.  Calls to the backend go on.
Die ==
  /\ locale' = stored
  /\ drifted' = (drifted \/ locale # stored)
  /\ home' = FALSE
  /\ newsLoaded' = TRUE /\ listed' = Nothing /\ drawn' = Nothing /\ newsCalls' = <<>> /\ switched' = FALSE
  /\ UNCHANGED <<stored, profile, updates>>

-----------------------------------------------------------------------------
SettingsNext ==
  \/ OpenNews \/ LeaveNews \/ TapTheme \/ Flush \/ Die
  \/ \E n \in DOMAIN newsCalls, got \in NewsOutcomes : NewsAnswered(n, got)
  \/ \E l \in Languages, guest \in BOOLEAN : TapLanguage(l, guest)
  \/ \E n \in DOMAIN updates : Updated(n) \/ UpdateLost(n)

SettingsSpec == SettingsInit /\ [][SettingsNext]_settingsVars
-----------------------------------------------------------------------------
\* Every variable is of its type, and the FutureBuilder hears one call at most, which it
\* waits for with nothing drawn.
SettingsTypeOK ==
  /\ {home, newsLoaded, switched, drifted} \subseteq BOOLEAN
  /\ {listed, drawn} \subseteq Languages \cup {Nothing}
  /\ newsCalls \in Seq(NewsCall) /\ Len(newsCalls) <= MaxNews
  /\ {locale, stored, profile} \subseteq Languages
  /\ updates \in Seq(Update) /\ Len(updates) <= MaxUpdates
  /\ \A m, n \in DOMAIN newsCalls : newsCalls[m].role = "heard" /\ newsCalls[n].role = "heard" => m = n
  /\ \A n \in DOMAIN newsCalls : newsCalls[n].role = "heard" => home /\ drawn = Nothing

\* The news that are drawn are in the app's language, in whatever order the answers in the
\* former language arrive, since each build hears its own call only; and the cards that
\* scroll into view later (home_screen.dart:340 reads the list again) are of the same list,
\* unless the language changed while a fetch was under way, or a later answer was empty.
NewsInLanguage ==
  home /\ drawn # Nothing => /\ drawn = locale
                             /\ switched \/ ~newsLoaded \/ listed = drawn

\* The profile in the backend has the device's language when no update is under way,
\* unless the language was changed by a guest, a call was lost or overtaken, or the
\* process died before the preferences were written.
ProfileFollowsDevice == updates = <<>> /\ ~drifted => profile = locale
=============================================================================
