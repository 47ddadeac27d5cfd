------------------------------- MODULE HomeFeed -------------------------------
(***************************************************************************)
(* The articles of the home tab under the selected category chip:          *)
(* HomeScreenCategoryController, which lives as long as the tab is there.  *)
(* A tap on a chip starts a fetch that nobody awaits, and whatever fetch   *)
(* is answered fills the one list.                                         *)
(***************************************************************************)
EXTENDS Naturals, Sequences, SequencesExt

CONSTANTS
  Chips,
  FirstChip,    \* the category that a new controller selects
  NoArticles,   \* an empty articleList
  MaxFeed       \* bound on the fetches under way

ASSUME FeedAssumption == FirstChip \in Chips /\ NoArticles \notin Chips /\ MaxFeed \in Nat \ {0}

VARIABLES
  mounted,      \* the home tab is there
  selected,     \* selectedCategory
  feed,         \* the category whose articles articleList holds
  feedCalls,    \* fetchCategoryArticle, under way, in the order they were sent
  \* history, read by no handler:
  answered,     \* what became of the newest fetch
  overtaken     \* articleList comes from an answer to a fetch older than one answered before

feedVars == <<mounted, selected, feed, feedCalls, answered, overtaken>>

\* Articles, an empty list (a refusal, too), or an exception that nobody handles.
FeedOutcomes == {"some", "none", "failed"}

\* late is history: a fetch sent after this one has brought articles.
FeedCall == [of : Chips, late : BOOLEAN]

Overtook(n) ==
  RemoveAt([m \in DOMAIN feedCalls |-> IF m < n THEN [feedCalls[m] EXCEPT !.late = TRUE] ELSE feedCalls[m]], n)

FeedInit ==
  /\ mounted = FALSE
  /\ selected = FirstChip /\ feed = NoArticles /\ feedCalls = <<>>
  /\ answered = "pending" /\ overtaken = FALSE

\* A fetch for the chip that was selected before.
RequestFormer(c) == [of |-> selected, late |-> FALSE]

Request(c) == [of |-> c, late |-> FALSE]

\* The tab is built: a new controller selects and fetches the first chip.
OpenHome ==
  /\ ~mounted
  /\ mounted' = TRUE
  /\ selected' = FirstChip /\ feed' = NoArticles
  /\ feedCalls' = <<[of |-> FirstChip, late |-> FALSE]>>
  /\ answered' = "pending" /\ overtaken' = FALSE

\* Another tab: dispose() deletes the controller, whose fetches fill a list nobody sees.
LeaveHome ==
  /\ mounted
  /\ mounted' = FALSE
  /\ feedCalls' = <<>>
  /\ UNCHANGED <<selected, feed, answered, overtaken>>

\* updateCategory: nobody awaits the articles.
TapChip(c) ==
  /\ mounted
  /\ Len(feedCalls) < MaxFeed
  /\ selected' = c
  /\ feedCalls' = Append(feedCalls, Request(c))
  /\ answered' = "pending"
  /\ UNCHANGED <<mounted, feed, overtaken>>

\* getCategoryArticle: an empty answer leaves the articles that are there.
FeedAnswered(n, got) ==
  /\ feedCalls' = IF got = "some" THEN Overtook(n) ELSE RemoveAt(feedCalls, n)
  /\ feed' = IF got = "some" THEN feedCalls[n].of ELSE feed
  /\ overtaken' = IF got = "some" THEN feedCalls[n].late ELSE overtaken
  /\ answered' = IF n = Len(feedCalls) /\ answered = "pending" THEN got ELSE answered
  /\ UNCHANGED <<mounted, selected>>

FeedNext ==
  \/ OpenHome \/ LeaveHome
  \/ \E c \in Chips : TapChip(c)
  \/ \E n \in DOMAIN feedCalls, got \in FeedOutcomes : FeedAnswered(n, got)

FeedSpec == FeedInit /\ [][FeedNext]_feedVars
-----------------------------------------------------------------------------
\* Every variable is of its type, and a fetch that is overtaken is not the newest.
FeedTypeOK ==
  /\ mounted \in BOOLEAN /\ overtaken \in BOOLEAN
  /\ selected \in Chips /\ feed \in Chips \cup {NoArticles}
  /\ feedCalls \in Seq(FeedCall) /\ Len(feedCalls) <= MaxFeed
  /\ answered \in FeedOutcomes \cup {"pending"}

\* The articles are of the chip that is highlighted, once every fetch is answered and the newest
\* brought some, unless an older answer came after a newer one
\* (home_screen_category_controller.dart:39 does not await, :47 does not look at selectedCategory).
FeedMatchesChip ==
  mounted /\ feedCalls = <<>> /\ answered = "some" /\ ~overtaken => feed = selected
=============================================================================
