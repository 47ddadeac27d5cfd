------------------------------ MODULE VideoReader ------------------------------
(***************************************************************************)
(* The like and save buttons of videos.  Slides of the video tab and video *)
(* screens over it share one VideoArticleController, which is never        *)
(* deleted.  A video asks for its info once, when it is built; a toggle    *)
(* asks again when the backend has answered it; and whatever info arrives, *)
(* the buttons of every video show it.                                     *)
(*                                                                         *)
(* Calls stand in the order they were sent, and are served and answered in *)
(* any order.                                                              *)
(***************************************************************************)
EXTENDS Naturals, Sequences, SequencesExt

CONSTANTS
  Videos,
  Buttons,      \* like and save, which are the same code
  MaxShown,     \* bound on the videos one over the other
  MaxVideoCalls \* bound on the calls under way

ASSUME VideoAssumption == MaxShown \in Nat /\ MaxVideoCalls \in Nat

VARIABLES
  shown,        \* the videos that are there, one over the other
  signedIn,     \* whether there is a session
  marks,        \* isLiked and isSaved
  backend,      \* the reader's marks
  videoCalls,   \* fetchVideoArticleInfo and the toggles, under way
  settled       \* history: the marks are of the visible video and of the session, and were
                \* asked for last

videoVars == <<shown, signedIn, marks, backend, videoCalls, settled>>

-----------------------------------------------------------------------------
Unmarked == [b \in Buttons |-> FALSE]

Video == [video : Videos, page : {"slide", "screen"}]

\* answer is what the backend answers, once it has served the call; of an info it is the
\* marks, and session says whether it was asked for with a session.  late is history: an info
\* of the video that was sent after this one came, or failed to come, first.
VideoCall == [kind : {"info"}, video : Videos, session : BOOLEAN, served : BOOLEAN,
              answer : [Buttons -> BOOLEAN], late : BOOLEAN]
        \cup [kind : {"toggle"}, video : Videos, button : Buttons, served : BOOLEAN]

Info(v) == [kind |-> "info", video |-> v, session |-> signedIn, served |-> FALSE, answer |-> Unmarked,
            late |-> FALSE]
Toggle(v, b) == [kind |-> "toggle", video |-> v, button |-> b, served |-> FALSE]

OnScreen(v) == shown # <<>> /\ shown[Len(shown)].video = v
Infos == {n \in DOMAIN videoCalls : videoCalls[n].kind = "info"}

\* The calls, those of which S are late.
Late(S) == [n \in DOMAIN videoCalls |-> IF n \in S THEN [videoCalls[n] EXCEPT !.late = TRUE] ELSE videoCalls[n]]

VideoInit ==
  /\ shown = <<>>
  /\ signedIn \in BOOLEAN
  /\ marks = Unmarked
  /\ backend = [v \in Videos |-> Unmarked]
  /\ videoCalls = <<>>
  /\ settled = FALSE

-----------------------------------------------------------------------------
(* Videos come and go.                                                     *)

\* initState asks for the info of the video.
Built(v) ==
  /\ Len(videoCalls) < MaxVideoCalls
  /\ videoCalls' = Append(videoCalls, Info(v))
  /\ UNCHANGED <<signedIn, marks, backend>>

\* A video screen over whatever is there, or the tab with its first slide.
OpenVideo(v, page) ==
  /\ page = "slide" => shown = <<>>
  /\ Len(shown) < MaxShown
  /\ shown' = Append(shown, [video |-> v, page |-> page])
  /\ settled' = FALSE
  /\ Built(v)

\* A slide that begins to appear is built; the finger may let go of it.
Swipe(v, there) ==
  /\ shown # <<>> /\ shown[Len(shown)].page = "slide"
  /\ shown' = IF there THEN [shown EXCEPT ![Len(shown)].video = v] ELSE shown
  /\ settled' = (settled /\ ~there)
  /\ Built(v)

\* Back, or another tab: the video beneath asks for nothing.
CloseVideo ==
  /\ shown # <<>>
  /\ shown' = Front(shown)
  /\ settled' = FALSE
  /\ UNCHANGED <<signedIn, marks, backend, videoCalls>>

ChangeSignedIn ==
  /\ signedIn' = ~signedIn
  /\ settled' = FALSE
  /\ videoCalls' = Late(Infos)
  /\ UNCHANGED <<shown, marks, backend>>

-----------------------------------------------------------------------------
(* Toggles.  A guest is sent to the login sheet, or, on a video screen,    *)
(* runs into currentUser!, which throws.                                   *)

TapButton(b) ==
  /\ shown # <<>> /\ signedIn
  /\ Len(videoCalls) < MaxVideoCalls
  /\ videoCalls' = Append(videoCalls, Toggle(shown[Len(shown)].video, b))
  /\ UNCHANGED <<shown, signedIn, marks, backend, settled>>

ServeToggleOf(n) ==
  LET c == videoCalls[n] IN
  /\ c.kind = "toggle" /\ ~c.served
  /\ backend' = [backend EXCEPT ![c.video][c.button] = ~@]
  /\ videoCalls' = [videoCalls EXCEPT ![n].served = TRUE]
  /\ UNCHANGED <<shown, signedIn, marks, settled>>

\* A controller that leaves the marks to the next video.
ToggledQuietly(n) == RemoveAt(videoCalls, n)

\* The toggle is answered: the info is asked for again.
ToggledAgain(n) == Append(RemoveAt(videoCalls, n), Info(videoCalls[n].video))

ToggleAnswered(n) ==
  /\ videoCalls[n].kind = "toggle" /\ videoCalls[n].served
  /\ videoCalls' = ToggledAgain(n)
  /\ UNCHANGED <<shown, signedIn, marks, backend, settled>>

\* Refused, lost on its way, or answered in vain: then the backend has changed, and nobody asks.
ToggleFailed(n) ==
  LET c == videoCalls[n]
      unseen == {m \in Infos : c.served /\ videoCalls[m].video = c.video} IN
  /\ c.kind = "toggle"
  /\ videoCalls' = RemoveAt(Late(unseen), n)
  /\ settled' = (settled /\ ~(c.served /\ OnScreen(c.video)))
  /\ UNCHANGED <<shown, signedIn, marks, backend>>

-----------------------------------------------------------------------------
(* Infos.                                                                  *)

ServeInfo(n) ==
  LET c == videoCalls[n] IN
  /\ c.kind = "info" /\ ~c.served
  /\ videoCalls' = [videoCalls EXCEPT ![n].served = TRUE,
                      ![n].answer = IF c.session THEN backend[c.video] ELSE Unmarked]
  /\ UNCHANGED <<shown, signedIn, marks, backend, settled>>

\* The calls without n, those for the same info that were sent before it being late.
Without(n) == RemoveAt(Late({m \in Infos : m < n /\ videoCalls[m].video = videoCalls[n].video}), n)

\* getVideoArticleInfo fills the controller, whichever video is on the screen.
InfoArrives(n) ==
  LET c == videoCalls[n] IN
  /\ c.kind = "info" /\ c.served
  /\ marks' = c.answer
  /\ settled' = (OnScreen(c.video) /\ ~c.late)
  /\ videoCalls' = Without(n)
  /\ UNCHANGED <<shown, signedIn, backend>>

\* It is refused, lost, or no JSON: the marks stay.
InfoFailed(n) ==
  LET c == videoCalls[n] IN
  /\ c.kind = "info"
  /\ settled' = (settled /\ ~OnScreen(c.video))
  /\ videoCalls' = Without(n)
  /\ UNCHANGED <<shown, signedIn, marks, backend>>

-----------------------------------------------------------------------------
VideoNext ==
  \/ CloseVideo \/ ChangeSignedIn
  \/ \E v \in Videos, page \in {"slide", "screen"} : OpenVideo(v, page)
  \/ \E v \in Videos, there \in BOOLEAN : Swipe(v, there)
  \/ \E b \in Buttons : TapButton(b)
  \/ \E n \in DOMAIN videoCalls :
       ServeToggleOf(n) \/ ToggleAnswered(n) \/ ToggleFailed(n) \/ ServeInfo(n) \/ InfoArrives(n) \/ InfoFailed(n)

VideoSpec == VideoInit /\ [][VideoNext]_videoVars
-----------------------------------------------------------------------------
\* Every variable is of its type, and slides lie beneath video screens.
VideoTypeOK ==
  /\ shown \in Seq(Video) /\ Len(shown) <= MaxShown
  /\ \A k \in DOMAIN shown : shown[k].page = "slide" => k = 1
  /\ signedIn \in BOOLEAN /\ settled \in BOOLEAN
  /\ marks \in [Buttons -> BOOLEAN] /\ backend \in [Videos -> [Buttons -> BOOLEAN]]
  /\ videoCalls \in Seq(VideoCall) /\ Len(videoCalls) <= MaxVideoCalls

\* The buttons show the reader's marks of the visible video once nothing of it is under way, for
\* whatever toggles were tapped and in whatever order they were served, since each asks
\* again after its answer (video_article_controller.dart:38 and 50).  Unless what filled them last was
\* asked for by another video, session or earlier, or what should have was lost.
VideoMarksTrue ==
  settled /\ (\A n \in DOMAIN videoCalls : ~OnScreen(videoCalls[n].video)) =>
    \A b \in Buttons : marks[b] = (signedIn /\ backend[shown[Len(shown)].video][b])
=============================================================================
