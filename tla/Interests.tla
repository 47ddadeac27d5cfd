------------------------------- MODULE Interests -------------------------------
(***************************************************************************)
(* Choosing categories: SelectIntrestScreen and AddPrefencesScreen over    *)
(* one global CategoryController.  A tap puts an OBJECT of the screen's    *)
(* category list on the controller's list; Category defines no equality,   *)
(* and every fetch makes objects of its own, so a category that was chosen *)
(* before the list was replaced is another one to contains() and remove(). *)
(*                                                                         *)
(* The Choose button uploads the chosen categories one after the other,    *)
(* over a list that taps, and other screens, change meanwhile.  Handlers   *)
(* of the sign-in screens and of the log-out button that were suspended    *)
(* long before change the session, and navigate, over all of this.         *)
(***************************************************************************)
EXTENDS Naturals, Sequences, FiniteSets, SequencesExt

CONSTANTS
  Categories,
  Users,
  Nobody,
  Loops,        \* bound: how many uploads may be under way at once
  MaxDepth,     \* bound on the Navigator's stack
  MaxGrids,     \* bound on the screens with category cards on it
  MaxChoices    \* bound on the choices selected at one time, and with those an upload keeps

ASSUME InterestsAssumption ==
  /\ Nobody \notin Users
  /\ MaxDepth \in Nat \ {0} /\ MaxGrids \in Nat /\ MaxChoices \in Nat

VARIABLES
  stack,        \* the Navigator
  session,      \* who is signed in
  selected,     \* CategoryController.selectedCategoryList
  loop          \* the uploads under way

vars == <<stack, session, selected, loop>>

-----------------------------------------------------------------------------
(* Screens, choices and uploads.                                           *)

\* pending are the fetches of the categories under way, one of initState and one of
\* the FutureBuilder; listed says that categoryList holds the categories, cards that the
\* FutureBuilder drew cards that still find them there.  Other screens are "other".  History: an
\* add screen is covered when another was pushed over it, and crossed when the signed-in
\* user changed while it was on the Navigator.
Screen == [page : {"select", "add", "other"}, pending : SUBSET {"init", "build"},
           listed : BOOLEAN, cards : BOOLEAN, covered : BOOLEAN, crossed : BOOLEAN]

Other == [page |-> "other", pending |-> {}, listed |-> FALSE, cards |-> FALSE,
          covered |-> FALSE, crossed |-> FALSE]

Choosing(p) == [Other EXCEPT !.page = p, !.pending = {"init", "build"}]

\* A category and (history) whether the signed-in user changed since it was tapped.
Item == [cat : Categories, past : BOOLEAN]

\* What is selected is an object on the list of the screen at position on while seen is
\* "card"; that list was "replaced", or the screen "left".
Choice == [item : Item, on : 0..MaxDepth, seen : {"card", "replaced", "left"}]

Items(s) == [k \in DOMAIN s |-> s[k].item]

\* One run of a Choose handler.  sent counts the turns of its loop, length is what the iterator
\* of a for-in remembers, and own the list it goes over once the controller has another.
\* History: due is what it was started with, not sent yet and still chosen; an
\* upload is disturbed when something before its position is untapped or, for
\* a loop that reads the controller each turn, when the whole list is exchanged;
\* it is crossed when the signed-in user changes after its screen is opened, and foreign
\* when, uncrossed, it files what it sent last in another session than that of the tap.
Upload == [kind : {"none", "select", "add"}, at : 0..MaxDepth, life : {"shown", "exiting", "gone"},
           sent : Nat, length : Nat, kept : BOOLEAN, own : Seq(Item),
           due : Seq(Item), disturbed : BOOLEAN, crossed : BOOLEAN, foreign : BOOLEAN]

Idle == [kind |-> "none", at |-> 0, life |-> "gone", sent |-> 0, length |-> 0, kept |-> FALSE,
         own |-> <<>>, due |-> <<>>, disturbed |-> FALSE, crossed |-> FALSE, foreign |-> FALSE]

Top == stack[Len(stack)]
Grids(st) == {i \in DOMAIN st : st[i].page # "other"}
Running(l) == loop[l].kind # "none"

\* An upload of which no account is kept.
Disturbed(u) == [u EXCEPT !.disturbed = TRUE, !.due = <<>>]

\* The list that upload u goes over.
ListOf(u) == IF u.kept THEN u.own ELSE Items(selected)

Init ==
  /\ stack = <<Choosing("select")>>
  /\ session \in Users
  /\ selected = <<>>
  /\ loop = [l \in Loops |-> Idle]

-----------------------------------------------------------------------------
(* Coming and going.                                                       *)

\* The selection when the list at position i is gone.
Gone(i, why) ==
  [k \in DOMAIN selected |-> IF selected[k].on = i THEN [selected[k] EXCEPT !.on = 0, !.seen = why]
                             ELSE selected[k]]

\* The top leaves: its handlers' State stays mounted until the transition ends.
TopLeaves(ups) ==
  /\ selected' = Gone(Len(stack), "left")
  /\ loop' = [l \in Loops |-> IF ups[l].at = Len(stack)
                                THEN [ups[l] EXCEPT !.at = 0, !.life = "exiting"] ELSE ups[l]]

\* Navigator.pushReplacement: the visible screen leaves, whosever handler called.
ReplaceTop(screen, ups) == stack' = Append(Front(stack), screen) /\ TopLeaves(ups)

\* Navigator.push.
Push(screen) ==
  /\ Len(stack) < MaxDepth
  /\ stack' = Append([stack EXCEPT ![Len(stack)].covered = (Top.page = "add")], screen)

Back ==
  /\ Len(stack) > 1
  /\ stack' = Front(stack)
  /\ TopLeaves(loop)
  /\ UNCHANGED session

\* Exit transitions end: the States are unmounted.
Dispose ==
  /\ \E l \in Loops : loop[l].life = "exiting"
  /\ loop' = [l \in Loops |-> IF loop[l].life = "exiting" THEN [loop[l] EXCEPT !.life = "gone"] ELSE loop[l]]
  /\ UNCHANGED <<stack, session, selected>>

\* Skip pushes MainScreen: the interests screen stays beneath it.
Skip ==
  /\ Top.page = "select"
  /\ Push(Other)
  /\ UNCHANGED <<session, selected, loop>>

Past(items) == [k \in DOMAIN items |-> [items[k] EXCEPT !.past = TRUE]]

Crossed(u) ==
  [u EXCEPT !.crossed = TRUE, !.foreign = FALSE, !.due = Past(@), !.own = Past(@)]

SessionBecomes(u) ==
  /\ session # u
  /\ session' = u
  /\ stack' = [i \in DOMAIN stack |-> [stack[i] EXCEPT !.crossed = (stack[i].page = "add")]]
  /\ selected' = [k \in DOMAIN selected |-> [selected[k] EXCEPT !.item.past = TRUE]]
  /\ loop' = [l \in Loops |-> IF Running(l) THEN Crossed(loop[l]) ELSE loop[l]]

\* signOut() and the sign-in calls take effect within an await, whatever is visible by
\* then and whoever is signed in.
LogOut == SessionBecomes(Nobody)
SignIn(u) == SessionBecomes(u)

\* A handler that finds its State mounted goes on: log-out, log-in and the e-mail
\* verification replace whatever is visible, Google (and a link to an article) push.
Arrive ==
  /\ \E screen \in {Other, Choosing("select")} :
       \/ Push(screen) /\ UNCHANGED <<selected, loop>>
       \/ ReplaceTop(screen, loop)
  /\ Cardinality(Grids(stack')) <= MaxGrids
  /\ UNCHANGED session

\* A screen that takes the selection as it finds it.
NotReset == UNCHANGED <<selected, loop>>

\* The same list, emptied with clear().
ClearedInPlace == selected' = <<>> /\ UNCHANGED loop

\* Upload u when the controller gets another list: a for-in loop keeps the one it has.
LosesList(u) ==
  IF u.kind = "add" /\ ~u.kept THEN [u EXCEPT !.kept = TRUE, !.own = Items(selected)]
  ELSE IF u.kind = "select" THEN Disturbed(u) ELSE u

\* resetList: the controller gets another list, unless the one it has is empty.
ResetList ==
  /\ selected' = <<>>
  /\ loop' = IF selected = <<>> THEN loop ELSE [l \in Loops |-> LosesList(loop[l])]

OpenAdd ==
  /\ Top.page = "other"
  /\ Cardinality(Grids(stack)) < MaxGrids
  /\ Push(Choosing("add"))
  /\ ResetList
  /\ UNCHANGED session

-----------------------------------------------------------------------------
(* The categories arrive.                                                  *)

\* Whether the answer replaces categoryList, and by what: the interests screen takes
\* an empty list for a refusal, the add screen then keeps the list it has.
Replaces(page, got) == got = "ok" \/ (got = "refused" /\ page = "select")

Fetched(i, which, got) ==
  LET s == stack[i]
      listed == IF Replaces(s.page, got) THEN got = "ok" ELSE s.listed IN
  /\ which \in s.pending
  /\ stack' = [stack EXCEPT ![i].pending = @ \ {which}, ![i].listed = listed,
                            ![i].cards = listed /\ (IF which = "init" THEN @ ELSE got # "failed")]
  /\ selected' = IF Replaces(s.page, got) THEN Gone(i, "replaced") ELSE selected
  /\ UNCHANGED <<session, loop>>

-----------------------------------------------------------------------------
(* Taps.                                                                   *)

\* contains() and remove() find the choice for the card of category c.
IsCard(choice, c) == choice.item.cat = c /\ choice.on = Len(stack)

Room ==
  /\ Len(selected) < MaxChoices
  /\ \A l \in Loops : Len(selected) + Len(loop[l].own) < MaxChoices

\* A button that adds its category without looking.
ChooseAgain(c) ==
  /\ Top.cards /\ Room
  /\ selected' = Append(selected, [item |-> [cat |-> c, past |-> FALSE], on |-> Len(stack), seen |-> "card"])
  /\ UNCHANGED <<stack, session, loop>>

Choose(c) ==
  /\ Top.cards /\ Room
  /\ \A k \in DOMAIN selected : ~IsCard(selected[k], c)
  /\ selected' = Append(selected, [item |-> [cat |-> c, past |-> FALSE], on |-> Len(stack), seen |-> "card"])
  /\ UNCHANGED <<stack, session, loop>>

\* What upload u still owes when choice k is untapped.
Spared(u, k) ==
  IF k <= u.sent THEN Disturbed(u)
  ELSE IF k - u.sent \in DOMAIN u.due THEN [u EXCEPT !.due = RemoveAt(@, k - u.sent)]
  ELSE u

Unchoose(c, k) ==
  /\ Top.cards
  /\ IsCard(selected[k], c)
  /\ selected' = RemoveAt(selected, k)
  /\ loop' = [l \in Loops |-> IF Running(l) /\ ~loop[l].kept THEN Spared(loop[l], k) ELSE loop[l]]
  /\ UNCHANGED <<stack, session>>

\* addUserIntrest of the next choice, for the user signed in now.
Sends(u) ==
  [u EXCEPT !.sent = @ + 1, !.due = IF @ = <<>> THEN @ ELSE Tail(@),
            !.foreign = ~u.crossed /\ ListOf(u)[u.sent + 1].past]

\* With nothing selected: a snack bar, or the preferences.
ChooseNothing ==
  /\ Top.page = "add" /\ selected = <<>>
  /\ ReplaceTop(Other, loop)
  /\ UNCHANGED session

TapChoose(l) ==
  /\ Top.page # "other" /\ selected # <<>>
  /\ session # Nobody
  /\ ~Running(l)
  /\ loop' = [loop EXCEPT ![l] = Sends([Idle EXCEPT !.kind = Top.page, !.at = Len(stack), !.life = "shown",
                !.length = IF Top.page = "add" THEN Len(selected) ELSE 0,
                !.due = Items(selected), !.crossed = Top.crossed])]
  /\ UNCHANGED <<stack, session, selected>>

-----------------------------------------------------------------------------
(* An upload is answered.  Whatever string addUserIntrest returns is not   *)
(* looked at, an exception ends the handler.                               *)

\* moveNext() throws when the length is not the one it started with.
Unmodified(u) == Len(ListOf(u)) = u.length

More(u) == u.sent < Len(ListOf(u))

\* currentUser! is of a user signed in.
MaySend(u) == session # Nobody /\ More(u)

Threw(l) ==
  /\ Running(l)
  /\ loop' = [loop EXCEPT ![l] = Idle]
  /\ UNCHANGED <<stack, session, selected>>

\* for (Category category in selectedCategoryList) goes on.
AddNext(l) ==
  LET u == loop[l] IN
  /\ u.kind = "add" /\ Unmodified(u) /\ MaySend(u)
  /\ loop' = [loop EXCEPT ![l] = Sends(u)]
  /\ UNCHANGED <<stack, session, selected>>

\* It is over: the preferences replace the visible screen.
AddDone(l) ==
  LET u == loop[l] IN
  /\ u.kind = "add" /\ Unmodified(u) /\ ~More(u)
  /\ IF u.life = "gone"
       THEN loop' = [loop EXCEPT ![l] = Idle] /\ UNCHANGED <<stack, selected>>
       ELSE ReplaceTop(Other, [loop EXCEPT ![l] = Idle])
  /\ UNCHANGED session

\* The interests screen's loop navigates after every answer that finds it mounted, and
\* then reads the controller's list again.
SelectNext(l) ==
  LET u == loop[l] IN
  /\ u.kind = "select"
  /\ IF u.life = "gone"
       THEN loop' = [loop EXCEPT ![l] = Idle] /\ UNCHANGED <<stack, selected>>
       ELSE ReplaceTop(Other, [loop EXCEPT ![l] = IF MaySend(u) THEN Sends(u) ELSE Idle])
  /\ UNCHANGED session

-----------------------------------------------------------------------------
Next ==
  \/ Back \/ Dispose \/ Skip \/ LogOut \/ Arrive \/ OpenAdd \/ ChooseNothing
  \/ \E u \in Users : SignIn(u)
  \/ \E i \in DOMAIN stack, which \in {"init", "build"}, got \in {"ok", "refused", "failed"} :
       Fetched(i, which, got)
  \/ \E c \in Categories : Choose(c)
  \/ \E c \in Categories, k \in DOMAIN selected : Unchoose(c, k)
  \/ \E l \in Loops : TapChoose(l) \/ Threw(l) \/ AddNext(l) \/ AddDone(l) \/ SelectNext(l)

Spec == Init /\ [][Next]_vars
-----------------------------------------------------------------------------
\* Every variable is of its type; no object is selected twice, and an upload belongs to
\* a screen of its kind.
TypeOK ==
  /\ stack \in Seq(Screen) /\ Len(stack) \in 1..MaxDepth
  /\ session \in Users \cup {Nobody}
  /\ selected \in Seq(Choice) /\ Len(selected) <= MaxChoices
  /\ loop \in [Loops -> Upload]
  /\ \A j, k \in DOMAIN selected :
       selected[j].item.cat = selected[k].item.cat /\ selected[j].on = selected[k].on /\ selected[j].on > 0 => j = k
  /\ \A l \in Loops : loop[l].at > 0 => loop[l].at <= Len(stack) /\ stack[loop[l].at].page = loop[l].kind

\* What an upload still has to send lies ahead of it, so that a loop that comes to
\* its end has sent every category it was started with and that is still chosen
\* (add_prefences_screen.dart:131, select_intrest_screen.dart:137), unless one that
\* it had sent was untapped meanwhile, which moves the next one behind it.
DueAhead ==
  \A l \in Loops : Running(l) /\ ~loop[l].disturbed =>
    LET u == loop[l] IN IsPrefix(u.due, SubSeq(ListOf(u), u.sent + 1, Len(ListOf(u))))

\* The add screen files a category under the account that chose it (addUserIntrest reads
\* currentUser! when it is called, neews_networking.dart:74), unless the user changed after
\* the screen was opened: the selection outlives screens and sessions, and only resetList
\* (add_prefences_screen.dart:39) drops what was chosen in the session of another account.
UploadsOwn ==
  \A l \in Loops : loop[l].kind = "add" => ~loop[l].foreign

\* On the add screen Choose sends what the cards show as selected, and what was chosen
\* there from a category list that a later answer replaced
\* (add_prefences_screen.dart:27 and 72 both fetch), unless a screen was pushed over it,
\* from which a selection may come back.
AddShowsChoices ==
  Top.page = "add" /\ ~Top.covered => \A k \in DOMAIN selected :
    selected[k].seen = "replaced" \/ selected[k].on = Len(stack)
=============================================================================
