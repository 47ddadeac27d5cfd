------------------------------- MODULE MainShell -------------------------------
(***************************************************************************)
(* MainScreen as a listener: to the connection, whose loss puts a sheet    *)
(* with a Try again button on the Navigator, and to the Branch links that  *)
(* open articles and videos.  Every MainScreen listens, the ones beneath   *)
(* other screens too (whoever logs out and in again has two), and the      *)
(* subscription to the links is never cancelled.                           *)
(*                                                                         *)
(* A MainScreen that is popped leaves the Navigator at once and stays      *)
(* mounted, and listening, until its transition ends.                      *)
(***************************************************************************)
EXTENDS Naturals, FiniteSets, Sequences, SequencesExt

CONSTANTS
  Handlers,    \* bound: how many retries and video links may be under way at once
  MaxRoutes    \* bound: nothing is opened on a Navigator this deep

ASSUME ShellAssumption == MaxRoutes \in Nat \ {0}

VARIABLES
  routes,      \* the Navigator
  online,      \* whether the device has a connection
  handler,     \* the retries and the video links under way
  exiting,     \* a MainScreen left the Navigator and is still mounted
  dead,        \* a MainScreen was disposed of
  \* history, read by no handler:
  excuse,      \* what happened that the retries do not provide for
  lateUse      \* the handlers that used the context of a State disposed of

shellVars == <<routes, online, handler, exiting, dead, excuse, lateUse>>

-----------------------------------------------------------------------------
(* Routes and handlers.                                                    *)

\* A sheet belongs to the MainScreen at position of, or to one that left (0, as for the
\* other routes).
Route == [page : {"main", "sheet", "content", "other"}, of : 0..MaxRoutes]
Plain(p) == [page |-> p, of |-> 0]
SheetOf(i) == [page |-> "sheet", of |-> i]

\* A handler of the MainScreen at position at waits for a video, or for the connection's
\* state: seen are those it had since it was asked for.
Handler == [kind : {"none", "retry", "video"}, at : 0..MaxRoutes,
            life : {"shown", "exiting", "gone"}, seen : SUBSET BOOLEAN]

NoHandler == [kind |-> "none", at |-> 0, life |-> "gone", seen |-> {}]
Started(kind, i, life, seen) == [kind |-> kind, at |-> i, life |-> life, seen |-> seen]

Visible == routes[Len(routes)]
Shows(p) == routes # <<>> /\ Visible.page = p
Mains == {i \in DOMAIN routes : routes[i].page = "main"}
Of(kind) == {h \in Handlers : handler[h].kind = kind}

\* Those that listen: the MainScreens mounted, in the order of their subscriptions; 0 is
\* one that left.
Listening ==
  {s \o (IF exiting THEN <<0>> ELSE <<>>) :
     s \in {s \in [1..Cardinality(Mains) -> Mains] : \A m, n \in DOMAIN s : m < n => s[m] < s[n]}}

Deaf == Mains = {} /\ ~exiting

\* "if (!mounted) return" after an await.
AlwaysMounted(k) == TRUE
Mounted(k) == k.life # "gone"

\* What reads the context of a State that is disposed of throws.
Uses(h) == lateUse' = IF handler[h].life = "gone" THEN lateUse \cup {handler[h].kind} ELSE lateUse

ShellInit ==
  /\ routes = <<Plain("main")>>
  /\ online \in BOOLEAN
  /\ handler = [h \in Handlers |-> NoHandler]
  /\ exiting = FALSE
  /\ dead = FALSE
  /\ excuse = IF online THEN {} ELSE {"deaf"}
  /\ lateUse = {}

-----------------------------------------------------------------------------
(* Coming and going.                                                       *)

\* A Navigator that leaves the handlers of the route that it drops where they were.
PopRouteOnly(hs) ==
  /\ routes' = Front(routes)
  /\ exiting' = (exiting \/ Visible.page = "main")
  /\ handler' = hs

\* The visible route leaves, the handlers being hs.
Pop(hs) ==
  /\ routes' = Front(routes)
  /\ exiting' = (exiting \/ Visible.page = "main")
  /\ handler' = [h \in Handlers |-> IF hs[h].at = Len(routes) THEN [hs[h] EXCEPT !.at = 0, !.life = "exiting"]
                                    ELSE hs[h]]

\* Back, or a sheet dragged down: only its barrier does not dismiss it.
GoBack ==
  /\ Len(routes) > 1
  /\ Pop(handler)
  /\ excuse' = excuse
       \cup (IF Shows("sheet") /\ ~online THEN {"dismissed"} ELSE {})
       \cup (IF Shows("sheet") /\ Of("retry") # {} THEN {"overlapped"} ELSE {})
  /\ UNCHANGED <<online, dead, lateUse>>

\* dispose(): the subscription to the connection is cancelled, that to the links is not.
DisposeMain ==
  /\ exiting
  /\ exiting' = FALSE
  /\ dead' = TRUE
  /\ handler' = [h \in Handlers |-> IF handler[h].life = "exiting" THEN [handler[h] EXCEPT !.life = "gone"]
                                    ELSE handler[h]]
  /\ UNCHANGED <<routes, online, excuse, lateUse>>

Open(p) ==
  /\ Len(routes) < MaxRoutes
  /\ routes' = Append(routes, Plain(p))
  /\ UNCHANGED <<online, handler, exiting, dead, excuse, lateUse>>

\* Logging out puts the sign-in screen over MainScreen, logging in another MainScreen over that.
LeaveMain  == Shows("main") /\ Open("other")
LogInAgain == Shows("other") /\ Open("main")

-----------------------------------------------------------------------------
(* The connection.                                                         *)

\* The retries under way may be told the connection's new state.
Noticed(now) ==
  handler' = [h \in Handlers |-> IF h \in Of("retry") THEN [handler[h] EXCEPT !.seen = @ \cup {now}]
                                 ELSE handler[h]]

\* Listeners for which one sheet is enough.
SheetUnlessShown(ls) == IF Shows("sheet") THEN <<>> ELSE [n \in DOMAIN ls |-> SheetOf(ls[n])]

\* One sheet of each.
NewSheets(ls) == [n \in DOMAIN ls |-> SheetOf(ls[n])]

ConnectionLost ==
  /\ online
  /\ \E ls \in Listening : /\ routes' = routes \o NewSheets(ls)
                           /\ Len(routes') <= MaxRoutes
  /\ online' = FALSE
  /\ Noticed(FALSE)
  /\ excuse' = IF Deaf THEN excuse \cup {"deaf"} ELSE excuse
  /\ UNCHANGED <<exiting, dead, lateUse>>

ConnectionBack ==
  /\ ~online
  /\ online' = TRUE
  /\ Noticed(TRUE)
  /\ excuse' = IF Of("retry") = {} /\ Mains # {} THEN {} ELSE excuse \ {"dismissed", "deaf"}
  /\ UNCHANGED <<routes, exiting, dead, lateUse>>

\* A button that closes its sheet at once, and again when the answer is there.
TryAgainClosing(h) ==
  /\ Shows("sheet")
  /\ handler[h] = NoHandler
  /\ routes' = Front(routes)
  /\ handler' = [handler EXCEPT ![h] = Started("retry", Visible.of, "shown", {online})]
  /\ excuse' = IF Of("retry") = {} THEN excuse ELSE excuse \cup {"overlapped"}
  /\ UNCHANGED <<online, exiting, dead, lateUse>>

\* Try again: the button stays while the answer is awaited.
TryAgain(h) ==
  /\ Shows("sheet")
  /\ handler[h] = NoHandler
  /\ \E life \in IF Visible.of > 0 THEN {"shown"} ELSE {"gone"} \cup (IF exiting THEN {"exiting"} ELSE {}) :
       handler' = [handler EXCEPT ![h] = Started("retry", Visible.of, life, {online})]
  /\ excuse' = IF Of("retry") = {} THEN excuse ELSE excuse \cup {"overlapped"}
  /\ UNCHANGED <<routes, online, exiting, dead, lateUse>>

Ended(h) == [handler EXCEPT ![h] = NoHandler]

\* checkConnectivity answers.  A connection pops whatever is on top, and with nothing
\* left pop() throws.
Retried(h, connected) ==
  /\ handler[h].kind = "retry"
  /\ connected \in handler[h].seen
  /\ IF Mounted(handler[h]) /\ connected
       THEN /\ Uses(h)
            /\ IF routes = <<>> THEN handler' = Ended(h) /\ UNCHANGED <<routes, exiting>>
               ELSE Pop(Ended(h))
       ELSE handler' = Ended(h) /\ UNCHANGED <<routes, exiting, lateUse>>
  /\ UNCHANGED <<online, dead, excuse>>

-----------------------------------------------------------------------------
(* Links.                                                                  *)

\* Every listener opens the article; one disposed of does so through its context.
ArticleLink ==
  /\ ~Deaf \/ dead
  /\ \E ls \in Listening : /\ routes' = routes \o [n \in DOMAIN ls |-> Plain("content")]
                           /\ Len(routes') <= MaxRoutes
  /\ lateUse' = IF dead THEN lateUse \cup {"article"} ELSE lateUse
  /\ UNCHANGED <<online, handler, exiting, dead, excuse>>

\* Every listener asks for the video; one disposed of will return when it comes.
VideoLink ==
  /\ ~Deaf
  /\ \E ls \in Listening : \E f \in [DOMAIN ls -> Of("none")] :
       /\ IsInjective(f)
       /\ handler' = [h \in Handlers |->
            IF \E n \in DOMAIN f : f[n] = h
              THEN LET i == ls[CHOOSE n \in DOMAIN f : f[n] = h]
                   IN  Started("video", i, IF i > 0 THEN "shown" ELSE "exiting", {})
              ELSE handler[h]]
  /\ UNCHANGED <<routes, online, exiting, dead, excuse, lateUse>>

\* The video is shown, if there is one and its listener is mounted.
VideoArrives(h, found) ==
  /\ handler[h].kind = "video"
  /\ handler' = Ended(h)
  /\ IF found /\ Mounted(handler[h])
       THEN /\ Len(routes) < MaxRoutes
            /\ Uses(h)
            /\ routes' = Append(routes, Plain("content"))
       ELSE UNCHANGED <<routes, lateUse>>
  /\ UNCHANGED <<online, exiting, dead, excuse>>

-----------------------------------------------------------------------------
ShellNext ==
  \/ GoBack \/ DisposeMain \/ LeaveMain \/ LogInAgain
  \/ ConnectionLost \/ ConnectionBack
  \/ ArticleLink \/ VideoLink
  \/ \E h \in Handlers : \/ TryAgain(h)
                         \/ \E yes \in BOOLEAN : Retried(h, yes) \/ VideoArrives(h, yes)

ShellSpec == ShellInit /\ [][ShellNext]_shellVars
-----------------------------------------------------------------------------
\* Every variable is of its type; a sheet lies over the MainScreen it belongs to, and so
\* does the position of a handler.
ShellTypeOK ==
  /\ routes \in Seq(Route) /\ Len(routes) <= MaxRoutes
  /\ online \in BOOLEAN /\ exiting \in BOOLEAN /\ dead \in BOOLEAN
  /\ handler \in [Handlers -> Handler]
  /\ excuse \subseteq {"deaf", "dismissed", "overlapped"}
  /\ lateUse \subseteq {"retry", "video", "article"}
  /\ \A j \in DOMAIN routes : routes[j].of > 0 => routes[j].of < j /\ routes[routes[j].of].page = "main"
  /\ \A h \in Handlers : handler[h].at > 0 =>
       handler[h].at <= Len(routes) /\ routes[handler[h].at].page = "main"

\* Try again never closes the last screen (main_screen.dart:76 pops whatever is on top),
\* unless it was tapped while another retry was under way, or its sheet was closed by hand meanwhile.
NavigatorKeepsAScreen == routes = <<>> => "overlapped" \in excuse

\* While there is no connection a sheet says so, also when a retry is told of a connection
\* that is gone again: the loss that came after has put a sheet of its own on top.  Unless retries
\* overlapped, the sheet was closed by hand, or nobody listened when it was lost.
OfflineIsShown ==
  ~online /\ excuse = {} => \E i \in DOMAIN routes : routes[i].page = "sheet"

\* A MainScreen that was disposed of does nothing with its context, except for article
\* links (main_screen.dart:90), which its subscription goes on delivering and which have no mounted check.
LateUseOnlyByLinks == lateUse \subseteq {"article"}
=============================================================================
