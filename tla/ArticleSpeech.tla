----------------------------- MODULE ArticleSpeech -----------------------------
(***************************************************************************)
(* Reading an article aloud. One registered ArticleController serves every *)
(* open article. Commands go to the platform in order (commands), the      *)
(* platform's speech engine runs on its own, and its results and callbacks *)
(* come back in order (events). isSpeaking is what the speaker icon shows, *)
(* and what its next tap does depends on it.                               *)
(*                                                                         *)
(* Every article, and every push message, calls Get.put with an            *)
(* ArticleController just made: Get keeps the first, but the FlutterTts of *)
(* each, as it is made, takes the one channel callbacks come by (channel). *)
(***************************************************************************)
EXTENDS Naturals, Sequences

CONSTANTS
  MaxScreens,   \* bound on the ArticleScreens alive at one time
  MaxQueue      \* bound on commands, and on events, under way

ASSUME SpeechAssumption == MaxScreens \in Nat /\ MaxQueue \in Nat

VARIABLES
  open,         \* ArticleScreens on the Navigator
  leaving,      \* ArticleScreens popped and not yet disposed of
  isSpeaking,   \* ArticleController.isSpeaking
  commands,     \* speak and stop, on their way to the platform
  engine,       \* the platform's speech engine
  events,       \* results and callbacks, on their way back
  channel,      \* whose FlutterTts the platform calls back: nobody's, the registered
                \* controller's or that of one Get.put discarded, which has no handlers
  overtaken,    \* history: the last stop was issued while a speak was under way
  unheard       \* history: the last speech ended and no handler heard it

vars == <<open, leaving, isSpeaking, commands, engine, events, channel, overtaken, unheard>>

Holds(queue, x) == \E i \in DOMAIN queue : queue[i] = x

\* A speak whose effects have not all come back yet.
SpeakUnderWay == \/ Holds(commands, "speak")
                 \/ engine = "starting"
                 \/ \E e \in {"spoken", "start"} : Holds(events, e)

Init ==
  /\ open = 0
  /\ leaving = 0
  /\ isSpeaking = FALSE
  /\ commands = <<>>
  /\ engine = "idle"
  /\ events = <<>>
  /\ channel = "nobody"
  /\ overtaken = FALSE
  /\ unheard = FALSE

-----------------------------------------------------------------------------
(* The app.                                                                *)

\* stopArticle: the icon changes at once, the command is sent.
StopArticle ==
  /\ Len(commands) < MaxQueue
  /\ isSpeaking' = FALSE
  /\ commands' = Append(commands, "stop")
  /\ overtaken' = SpeakUnderWay
  /\ unheard' = FALSE

\* speakArticle: the command is sent; the icon changes when the result is back.
SpeakArticle ==
  /\ Len(commands) < MaxQueue
  /\ commands' = Append(commands, "speak")
  /\ UNCHANGED <<isSpeaking, overtaken, unheard>>

\* Get.put(ArticleController()): only the first is registered and sets its handlers (onInit).
PutController == channel' = IF channel = "nobody" THEN "registered" ELSE "discarded"

OpenArticle ==
  /\ open + leaving < MaxScreens
  /\ open' = open + 1
  /\ PutController
  /\ UNCHANGED <<leaving, isSpeaking, commands, engine, events, overtaken, unheard>>

\* showFlutterNotification, whatever is on the Navigator.
PushMessage ==
  /\ PutController
  /\ UNCHANGED <<open, leaving, isSpeaking, commands, engine, events, overtaken, unheard>>

\* A back button that forgets to pop.
AfterPopNothing == open

AfterPop == open - 1

CloseArticle ==
  /\ open > 0
  /\ open' = AfterPop
  /\ leaving' = leaving + 1
  /\ UNCHANGED <<isSpeaking, commands, engine, events, channel, overtaken, unheard>>

\* A dispose() that frees the banners only.
QuietDispose == UNCHANGED <<isSpeaking, commands, overtaken, unheard>>

\* dispose() of any article stops whatever is spoken.
LastWords == StopArticle

Dispose ==
  /\ leaving > 0
  /\ leaving' = leaving - 1
  /\ LastWords
  /\ UNCHANGED <<open, engine, events, channel>>

TapSpeaker ==
  /\ open > 0
  /\ IF isSpeaking THEN StopArticle ELSE SpeakArticle
  /\ UNCHANGED <<open, leaving, engine, events, channel>>

\* A completion handler that is not set.
HeardWithoutDone(e) == IF e = "done" THEN isSpeaking ELSE e \in {"spoken", "start"}

\* The result of speak and the start handler set isSpeaking, the completion and
\* error handlers clear it.
Heard(e) == e \in {"spoken", "start"}

\* The result of speak goes to its caller, a callback to the handlers of whoever
\* holds the channel.
Reaches(e) == e = "spoken" \/ channel = "registered"

Deliver ==
  /\ events # <<>>
  /\ events' = Tail(events)
  /\ LET e == Head(events)
     IN  \/ /\ Reaches(e)
            /\ isSpeaking' = Heard(e)
            /\ unheard' = FALSE
         \/ /\ ~Reaches(e)
            /\ unheard' = (e \in {"done", "error"})
            /\ UNCHANGED isSpeaking
  /\ UNCHANGED <<open, leaving, commands, engine, channel, overtaken>>

-----------------------------------------------------------------------------
(* The platform.                                                           *)

\* speak answers at once and replaces what is being spoken; stop ends it without a callback.
Execute ==
  /\ commands # <<>>
  /\ commands' = Tail(commands)
  /\ \/ /\ Head(commands) = "speak"
        /\ Len(events) < MaxQueue
        /\ engine' = "starting"
        /\ events' = Append(events, "spoken")
     \/ /\ Head(commands) = "stop"
        /\ engine' = "idle"
        /\ UNCHANGED events
  /\ UNCHANGED <<open, leaving, isSpeaking, channel, overtaken, unheard>>

EngineStep(from, to, event) ==
  /\ engine = from
  /\ Len(events) < MaxQueue
  /\ engine' = to
  /\ events' = Append(events, event)
  /\ UNCHANGED <<open, leaving, isSpeaking, commands, channel, overtaken, unheard>>

Starts    == EngineStep("starting", "speaking", "start")
Completes == EngineStep("speaking", "idle", "done")
Fails     == \E from \in {"starting", "speaking"} : EngineStep(from, "idle", "error")

-----------------------------------------------------------------------------
Next == \/ OpenArticle \/ PushMessage \/ CloseArticle \/ Dispose \/ TapSpeaker
        \/ Deliver \/ Execute \/ Starts \/ Completes \/ Fails

Spec == Init /\ [][Next]_vars

\* Exit transitions end, the platform takes commands, the event loop its events.
Fairness == WF_vars(Dispose) /\ WF_vars(Execute) /\ WF_vars(Deliver)

FairSpec == Spec /\ Fairness
-----------------------------------------------------------------------------
\* Every variable is of its type and within its bound.
TypeOK ==
  /\ open \in Nat /\ leaving \in Nat /\ open + leaving <= MaxScreens
  /\ isSpeaking \in BOOLEAN
  /\ commands \in Seq({"speak", "stop"}) /\ Len(commands) <= MaxQueue
  /\ engine \in {"idle", "starting", "speaking"}
  /\ events \in Seq({"spoken", "start", "done", "error"}) /\ Len(events) <= MaxQueue
  /\ channel \in {"nobody", "registered", "discarded"}
  /\ overtaken \in BOOLEAN /\ unheard \in BOOLEAN

\* Nothing is spoken, nor about to be, once the last article is gone, except what
\* a stop on its way will end.
NoOrphanVoice ==
  open + leaving = 0 /\ (engine # "idle" \/ Holds(commands, "speak"))
    => commands # <<>> /\ commands[Len(commands)] = "stop"

\* When nothing is under way a voice that speaks is shown, and an icon that shows one where
\* there is none has missed its end, which takes a controller that came after the registered
\* one and took its callbacks (article_screen.dart:43, firebase_api.dart:83). Exempt: the last
\* stop was issued before the result of a speak was back (article_controller.dart:70), which
\* then sets isSpeaking for a voice that has been stopped.
IconMatchesVoice ==
  commands = <<>> /\ events = <<>> /\ engine # "starting" /\ ~overtaken =>
    /\ engine = "speaking" => isSpeaking
    /\ isSpeaking /\ engine # "speaking" => unheard /\ channel = "discarded"

\* The voice as the reader will hear it: a stop that is the last command will end it.
Voiced == IF engine = "idle" /\ ~Holds(commands, "speak") THEN "silent"
          ELSE IF commands # <<>> /\ commands[Len(commands)] = "stop" THEN "ending" ELSE "on"

Promise == INSTANCE Voice WITH readers <- open + leaving, voice <- Voiced

\* Commands that are under way, an engine that acts on its own and callbacks that come late
\* amount to Voice: no step but a tap on an open article's icon
\* (article_controller.dart:70) turns a voice on that was silent or ending.
ImplementsVoice == Promise!Spec

\* A reader who closes the last article hears it end, unless another is opened.
SilentAfterClosing == (open = 0) ~> (engine = "idle" \/ open > 0)
=============================================================================
