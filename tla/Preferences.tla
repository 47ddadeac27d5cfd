------------------------------ MODULE Preferences ------------------------------
(***************************************************************************)
(* The reader's preferences: ManageUserPrefencesScreens (and the           *)
(* AddPrefencesScreen opened from them) over one global                    *)
(* PrefencesController, whose list is fetched again from the backend by    *)
(* the controller and by every FutureBuilder. A grid has as many cards as  *)
(* the list had when it was built; each is drawn from the list as it is    *)
(* when the card comes into view, and its Remove button reads the list as  *)
(* it is when it is tapped.                                                *)
(*                                                                         *)
(* net holds the calls under way in the order they were sent. Whether the  *)
(* network keeps that order is for a behaviour to choose (inOrder).        *)
(***************************************************************************)
EXTENDS Naturals, FiniteSets, Sequences, SequencesExt

CONSTANTS
  Categories,
  NoCategory,
  MaxDepth,     \* bound on the Navigator's stack, the home screen included
  MaxCalls,     \* bounds on the calls under way, by whether their order is kept
  MaxTaps,      \* bound on taps of Remove and Choose
  MaxFailures,  \* bound on calls that are not answered "ok"
  MaxStored,    \* bound on the preferences the reader starts with
  MaxChosen,    \* bound on the categories chosen at one time
  Orders,       \* whether calls are served and answered in the order sent
  Outcomes      \* what may become of a call: "ok", "refused", "failed"

ASSUME PreferencesAssumption ==
  /\ NoCategory \notin Categories
  /\ MaxDepth \in Nat \ {0}
  /\ MaxCalls \in [BOOLEAN -> Nat]
  /\ MaxTaps \in Nat /\ MaxFailures \in Nat /\ MaxStored \in Nat /\ MaxChosen \in Nat
  /\ Orders \subseteq BOOLEAN
  /\ Outcomes \subseteq {"ok", "refused", "failed"}

VARIABLES
  stack,        \* the Navigator
  net,          \* the calls under way
  prefs,        \* the backend's preferences of the reader
  list,         \* PrefencesController.userPrefencesList
  registered,   \* the controller exists: Get.put has run its onInit
  inOrder,      \* the network keeps the order of calls
  taps,         \* taps so far
  failures      \* calls so far that were not answered "ok"

vars == <<stack, net, prefs, list, registered, inOrder, taps, failures>>

-----------------------------------------------------------------------------
(* Screens and calls.                                                      *)

\* view is what the FutureBuilder of a manage screen shows, drawn its cards; a card that
\* found no category in the list is an error widget.
\* missed is history: the kinds of calls that changed the backend without this manage
\* screen being told to fetch again, and "list" when the list it draws from was
\* replaced by an answer that was refused or came out of order.
Screen == [page : {"home", "manage", "add"}, view : {"waiting", "grid", "error"},
           drawn : Seq(Categories \cup {NoCategory}), missed : SUBSET {"delete", "add", "list"}]

Page(p) == [page |-> p, view |-> "waiting", drawn |-> <<>>, missed |-> {}]

\* getUserPrefences called by the controller ("fetch") or by the FutureBuilder
\* of the screen at position at ("build"); deletePrefences of a category ("delete"),
\* where card is what the button stood under, unless the screen missed a deletion; one step of the upload loop of
\* an add screen ("add") with the rest of its loop and the life of that screen.
Call == [kind : {"fetch", "build", "delete", "add"}, at : 0..MaxDepth,
         of : Categories \cup {NoCategory}, card : Categories \cup {NoCategory},
         rest : Seq(Categories), life : {"shown", "exiting", "gone"},
         got : {"nothing", "ok", "refused", "failed"}, answer : Seq(Categories)]

Sent(kind) == [kind |-> kind, at |-> 0, of |-> NoCategory, card |-> NoCategory, rest |-> <<>>,
               life |-> "shown", got |-> "nothing", answer |-> <<>>]

Deletion(c, card) == [Sent("delete") EXCEPT !.of = c, !.card = card]
Upload(s, life)   == [Sent("add") EXCEPT !.of = Head(s), !.rest = Tail(s), !.life = life]

Top == stack[Len(stack)]

\* Up to n categories, each once, in some order.
Lists(n) == {s \in BoundedSeq(Categories, n) : IsInjective(s)}

\* What may be chosen on the add screen.
Selections == Lists(MaxChosen)

-----------------------------------------------------------------------------
(* The FutureBuilders.                                                     *)

\* A FutureBuilder stops listening to the call it had.
Unheard(k) == [k EXCEPT !.kind = "fetch", !.at = 0]

Fetch(i) == [Sent("build") EXCEPT !.at = i]

\* The calls, when the FutureBuilders at these places are built again, one after the other:
\* each stops listening to the call it had and starts a new one.
Refetched(calls, places) ==
  [n \in DOMAIN calls |-> IF calls[n].kind = "build" /\ (\E m \in DOMAIN places : places[m] = calls[n].at)
                            THEN Unheard(calls[n]) ELSE calls[n]]
  \o [m \in DOMAIN places |-> Fetch(places[m])]

\* Positions from the lowest up.
Ascending(S) == {s \in [1..Cardinality(S) -> S] : \A m, n \in DOMAIN s : m < n => s[m] < s[n]}

Managing(scr) == {i \in DOMAIN scr : scr[i].page = "manage"}

\* Screens that keep their grid while they wait.
KeepsGrid(scr, positions) == scr

\* Those screens show an empty box until the new call is back.
Waiting(scr, positions) ==
  [i \in DOMAIN scr |-> IF i \in positions THEN [scr[i] EXCEPT !.view = "waiting", !.drawn = <<>>] ELSE scr[i]]

\* A manage screen is pushed, or replaces what is visible: calls are those still
\* under way. The first one ever makes Get.put create the controller, whose onInit fetches too.
ShowManage(below, calls) ==
  LET scr == Append(below, Page("manage")) IN
  /\ stack' = scr
  /\ net' = Refetched(IF registered THEN calls ELSE Append(calls, Sent("fetch")), <<Len(scr)>>)
  /\ registered' = TRUE

\* The calls of a screen that leaves the top: nobody listens to its FutureBuilder,
\* and its upload loops run on until its exit transition is over.
Orphaned(calls) ==
  [n \in DOMAIN calls |->
     CASE calls[n].kind = "build" /\ calls[n].at = Len(stack) -> Unheard(calls[n])
       [] calls[n].kind = "add" /\ calls[n].life = "shown" /\ Top.page = "add" ->
            [calls[n] EXCEPT !.life = "exiting"]
       [] OTHER -> calls[n]]

-----------------------------------------------------------------------------
Init ==
  /\ stack = <<Page("home")>>
  /\ net = <<>>
  /\ prefs \in Lists(MaxStored)
  /\ list = <<>>
  /\ registered = FALSE
  /\ inOrder \in Orders
  /\ taps = 0
  /\ failures = 0

\* The drawer or the account tab opens the manage screen.
OpenManage ==
  /\ Top.page = "home"
  /\ Len(stack) < MaxDepth
  /\ ShowManage(stack, net)
  /\ UNCHANGED <<prefs, list, inOrder, taps, failures>>

\* The floating button.
OpenAdd ==
  /\ Top.page = "manage"
  /\ Len(stack) < MaxDepth
  /\ stack' = Append(stack, Page("add"))
  /\ UNCHANGED <<net, prefs, list, registered, inOrder, taps, failures>>

Back ==
  /\ Len(stack) > 1
  /\ stack' = Front(stack)
  /\ net' = Orphaned(net)
  /\ UNCHANGED <<prefs, list, registered, inOrder, taps, failures>>

\* The exit transition of an add screen ends: its State is unmounted.
Dispose ==
  /\ \E n \in DOMAIN net : net[n].life = "exiting"
  /\ net' = [n \in DOMAIN net |->
               IF net[n].life = "exiting" THEN [net[n] EXCEPT !.life = "gone"] ELSE net[n]]
  /\ UNCHANGED <<stack, prefs, list, registered, inOrder, taps, failures>>

\* The i-th card comes into view, for the first time or again.
Scroll(i) ==
  /\ Top.page = "manage" /\ Top.view = "grid"
  /\ i \in DOMAIN Top.drawn
  /\ stack' = [stack EXCEPT ![Len(stack)].drawn[i] = IF i \in DOMAIN list THEN list[i] ELSE NoCategory]
  /\ UNCHANGED <<net, prefs, list, registered, inOrder, taps, failures>>

Card(i) == IF "delete" \in Top.missed THEN NoCategory ELSE Top.drawn[i]

\* The Remove button under the i-th card.
Requested(i) == Deletion(list[i], Card(i))

\* An index that the list no longer has makes the handler throw.
RemoveCard(i) ==
  /\ Top.page = "manage" /\ Top.view = "grid"
  /\ i \in DOMAIN Top.drawn /\ Top.drawn[i] # NoCategory
  /\ i \in DOMAIN list
  /\ taps < MaxTaps
  /\ net' = Append(net, Requested(i))
  /\ taps' = taps + 1
  /\ UNCHANGED <<stack, prefs, list, registered, inOrder, failures>>

\* Choose with nothing selected replaces the add screen; otherwise the loop starts.
Choose(s) ==
  /\ Top.page = "add"
  /\ s \in Selections
  /\ taps < MaxTaps
  /\ IF s = <<>> THEN ShowManage(Front(stack), Orphaned(net))
     ELSE /\ net' = Append(net, Upload(s, "shown"))
          /\ UNCHANGED <<stack, registered>>
  /\ taps' = taps + 1
  /\ UNCHANGED <<prefs, list, inOrder, failures>>

-----------------------------------------------------------------------------
(* The backend.                                                            *)

\* The next call to serve.
Unserved(n) ==
  /\ n \in DOMAIN net
  /\ net[n].got = "nothing"
  /\ inOrder => \A m \in 1..(n - 1) : net[m].got # "nothing"

\* Call n is answered got. Only an answer that succeeds is not a failure.
Answered(n, got, answer) ==
  /\ got \in Outcomes
  /\ failures' = IF got = "ok" THEN failures ELSE failures + 1
  /\ failures' <= MaxFailures
  /\ net' = [net EXCEPT ![n].got = got, ![n].answer = answer]

ServeFetch(n) ==
  /\ Unserved(n)
  /\ net[n].kind \in {"fetch", "build"}
  /\ \/ Answered(n, "ok", prefs)
     \/ \E got \in {"refused", "failed"} : Answered(n, got, <<>>)
  /\ stack' = IF net[n].kind = "build" THEN [stack EXCEPT ![net[n].at].missed = {}] ELSE stack
  /\ UNCHANGED <<prefs, list, registered, inOrder, taps>>

Unaware(kind) ==
  [i \in DOMAIN stack |->
     IF i \in Managing(stack) THEN [stack[i] EXCEPT !.missed = @ \cup {kind}] ELSE stack[i]]

\* What the backend holds without category c, which it holds once at most.
Without(c) ==
  IF Contains(prefs, c) THEN RemoveAt(prefs, CHOOSE i \in DOMAIN prefs : prefs[i] = c) ELSE prefs

\* deleteUserPrefences.php. Only an "ok" that arrives makes anyone fetch again.
ServeDelete(n) ==
  /\ Unserved(n)
  /\ net[n].kind = "delete"
  /\ \/ /\ prefs' = Without(net[n].of)
        /\ \/ Answered(n, "ok", <<>>) /\ UNCHANGED stack
           \/ Answered(n, "failed", <<>>) /\ stack' = Unaware("delete")
     \/ /\ \E got \in {"refused", "failed"} : Answered(n, got, <<>>)
        /\ UNCHANGED <<prefs, stack>>
  /\ UNCHANGED <<list, registered, inOrder, taps>>

\* addUserIntrest.php: a new preference is stored last, one that is there stays.
ServeAdd(n) ==
  /\ Unserved(n)
  /\ net[n].kind = "add"
  /\ \/ /\ \E got \in {"ok", "failed"} : Answered(n, got, <<>>)
        /\ prefs' = IF Contains(prefs, net[n].of)
                      THEN prefs ELSE Append(prefs, net[n].of)
        /\ stack' = Unaware("add")
     \/ /\ \E got \in {"refused", "failed"} : Answered(n, got, <<>>)
        /\ UNCHANGED <<prefs, stack>>
  /\ UNCHANGED <<list, registered, inOrder, taps>>

-----------------------------------------------------------------------------
(* Answers arrive.                                                         *)

Arrived(n, kinds, results) ==
  /\ n \in DOMAIN net
  /\ inOrder => n = 1
  /\ net[n].kind \in kinds
  /\ net[n].got \in results

\* The screen that listens draws answer k.
Drawn(screen, k) ==
  [screen EXCEPT !.view = "grid", !.drawn = k.answer, !.missed = @ \cup (IF k.got = "ok" THEN {} ELSE {"list"})]

\* A grid that does not listen to k: its cards come from the new list all the same.
Overwritten(screen, k) ==
  IF screen.view = "grid" /\ (k.got # "ok" \/ (~inOrder /\ k.answer # prefs))
    THEN [screen EXCEPT !.missed = @ \cup {"list"}] ELSE screen

\* getUserPrefences: the list is replaced, by nothing when the backend refuses,
\* and a FutureBuilder that listens draws it.
Fetched(n) ==
  LET k == net[n] IN
  /\ Arrived(n, {"fetch", "build"}, {"ok", "refused"})
  /\ list' = k.answer
  /\ stack' = [i \in DOMAIN stack |-> IF k.kind = "build" /\ i = k.at THEN Drawn(stack[i], k)
                                     ELSE Overwritten(stack[i], k)]
  /\ net' = RemoveAt(net, n)
  /\ UNCHANGED <<prefs, registered, inOrder, taps, failures>>

FetchFailed(n) ==
  LET k == net[n] IN
  /\ Arrived(n, {"fetch", "build"}, {"failed"})
  /\ stack' = IF k.kind = "fetch" THEN stack ELSE [stack EXCEPT ![k.at].view = "error"]
  /\ net' = RemoveAt(net, n)
  /\ UNCHANGED <<prefs, list, registered, inOrder, taps, failures>>

\* A deletePrefences without its update().
NoUpdate(scr) == {}

\* update() builds every manage screen again, the covered ones too.
Updated(scr) == Managing(scr)

\* deletePrefences: the controller fetches (nobody awaits it) and update() runs.
Deleted(n) ==
  /\ Arrived(n, {"delete"}, {"ok"})
  /\ \E places \in Ascending(Updated(stack)) :
       net' = Refetched(Append(RemoveAt(net, n), Sent("fetch")), places)
  /\ stack' = Waiting(stack, Updated(stack))
  /\ UNCHANGED <<prefs, list, registered, inOrder, taps, failures>>

\* The snack bar, or an exception.
NotDeleted(n) ==
  /\ Arrived(n, {"delete"}, {"refused", "failed"})
  /\ net' = RemoveAt(net, n)
  /\ UNCHANGED <<stack, prefs, list, registered, inOrder, taps, failures>>

\* The loop goes on, whatever addUserIntrest returned.
AddedOne(n) ==
  /\ Arrived(n, {"add"}, {"ok", "refused"})
  /\ net[n].rest # <<>>
  /\ net' = Append(RemoveAt(net, n), Upload(net[n].rest, net[n].life))
  /\ UNCHANGED <<stack, prefs, list, registered, inOrder, taps, failures>>

\* The loop ends. While its screen is mounted a manage screen replaces what is
\* visible, which after a tap on back is no longer the add screen.
AddedAll(n) ==
  /\ Arrived(n, {"add"}, {"ok", "refused"})
  /\ net[n].rest = <<>>
  /\ IF net[n].life = "gone"
       THEN net' = RemoveAt(net, n) /\ UNCHANGED <<stack, registered>>
       ELSE ShowManage(Front(stack), RemoveAt(Orphaned(net), n))
  /\ UNCHANGED <<prefs, list, inOrder, taps, failures>>

\* An exception ends the loop.
AddFailed(n) ==
  /\ Arrived(n, {"add"}, {"failed"})
  /\ net' = RemoveAt(net, n)
  /\ UNCHANGED <<stack, prefs, list, registered, inOrder, taps, failures>>

-----------------------------------------------------------------------------
Act == \/ OpenManage \/ OpenAdd \/ Back \/ Dispose
       \/ \E i \in 1..Len(Top.drawn) : Scroll(i) \/ RemoveCard(i)
       \/ \E s \in Selections : Choose(s)

Serve(n) == ServeFetch(n) \/ ServeDelete(n) \/ ServeAdd(n)

Resume(n) == \/ Fetched(n) \/ FetchFailed(n) \/ Deleted(n) \/ NotDeleted(n)
             \/ AddedOne(n) \/ AddedAll(n) \/ AddFailed(n)

\* No step sends a call when that many are under way.
Next == /\ Act \/ \E n \in DOMAIN net : Serve(n) \/ Resume(n)
        /\ Len(net') <= MaxCalls[inOrder]

Spec == Init /\ [][Next]_vars
-----------------------------------------------------------------------------
\* Every variable is of its type; a FutureBuilder listens to one call at most, and
\* a manage screen that shows nothing has one under way.
TypeOK ==
  /\ stack \in Seq(Screen) /\ Len(stack) \in 1..MaxDepth
  /\ net \in Seq(Call) /\ Len(net) <= MaxCalls[inOrder]
  /\ prefs \in Seq(Categories) /\ IsInjective(prefs)
  /\ list \in Seq(Categories)
  /\ registered \in BOOLEAN /\ inOrder \in BOOLEAN
  /\ taps \in 0..MaxTaps /\ failures \in 0..MaxFailures
  /\ \A n \in DOMAIN net : net[n].kind = "build" =>
       net[n].at \in Managing(stack) /\ stack[net[n].at].view = "waiting"
  /\ \A i \in Managing(stack) : stack[i].view = "waiting" =>
       \E n \in DOMAIN net : net[n].kind = "build" /\ net[n].at = i
  /\ \A n, m \in DOMAIN net : net[n].kind = "build" /\ net[m].kind = "build"
       /\ net[n].at = net[m].at => n = m

\* The Remove button under a card asks the backend to delete what the card shows,
\* as long as the network keeps the order of calls: the button sends the id at
\* the card's index in the list of that moment
\* (manage_user_prefences_screen.dart:71-78), not the id the card was drawn from.
RemoveHitsCard ==
  inOrder => \A n \in DOMAIN net : net[n].kind = "delete" /\ net[n].card # NoCategory => net[n].of = net[n].card

\* When no call is under way, the visible manage screen shows what the backend holds, and
\* goes on to when its cards leave the view and come back: each is drawn from the list of
\* that moment (manage_user_prefences_screen.dart:57-70), which the unawaited fetch of a
\* deletion (prefences_controller.dart:26) replaces too. Unless the backend changed
\* without telling the screen: an upload went on beneath or behind it, or a call for it
\* failed; or an answer that was refused, or came out of order, replaced the list.
ShownPreferencesTrue ==
  net = <<>> /\ Top.page = "manage" /\ Top.view = "grid" /\ Top.missed = {} =>
    Top.drawn = prefs /\ list = prefs
=============================================================================
