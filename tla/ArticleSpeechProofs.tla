-------------------------- MODULE ArticleSpeechProofs --------------------------
(***************************************************************************)
(* The voice of ArticleSpeech never outlives the articles, ArticleSpeech   *)
(* implements Voice, and the icon shows whether the engine speaks unless    *)
(* its callbacks no longer reach the controller, for any number of         *)
(* articles and of push messages and any length of the queues.             *)
(***************************************************************************)
EXTENDS ArticleSpeech, TLAPS

Commands == {"speak", "stop"}
Events   == {"spoken", "start", "done", "error"}

\* What a queue holds after its first element is taken.
LEMMA TailOfQueue ==
  ASSUME NEW S, NEW q \in Seq(S), q # <<>>
  PROVE  /\ Tail(q) \in Seq(S)
         /\ Len(Tail(q)) = Len(q) - 1
         /\ Len(Tail(q)) > 0 => Tail(q)[Len(Tail(q))] = q[Len(q)]
         /\ \A x : Holds(Tail(q), x) => Holds(q, x)
  <1>1. Tail(q) \in Seq(S) /\ Len(Tail(q)) = Len(q) - 1
    OBVIOUS
  <1>2. \A i \in DOMAIN Tail(q) : Tail(q)[i] = q[i + 1] /\ i + 1 \in DOMAIN q
    OBVIOUS
  <1>3. Len(Tail(q)) > 0 => Tail(q)[Len(Tail(q))] = q[Len(q)]
    BY <1>1, <1>2
  <1>4. ASSUME NEW x, Holds(Tail(q), x) PROVE Holds(q, x)
    <2>1. PICK i \in DOMAIN Tail(q) : Tail(q)[i] = x
      BY <1>4 DEF Holds
    <2> QED
      BY <2>1, <1>2 DEF Holds
  <1> QED
    BY <1>1, <1>3, <1>4

\* What a queue holds after an element is appended.
LEMMA AppendToQueue ==
  ASSUME NEW S, NEW q \in Seq(S), NEW e \in S
  PROVE  /\ Append(q, e) \in Seq(S)
         /\ Append(q, e) # <<>>
         /\ Len(Append(q, e)) = Len(q) + 1
         /\ Append(q, e)[Len(Append(q, e))] = e
  OBVIOUS

\* A queue holds what it held and what is appended.
LEMMA HoldsAppended ==
  ASSUME NEW S, NEW q \in Seq(S), NEW e \in S, NEW x
  PROVE  Holds(Append(q, e), x) <=> Holds(q, x) \/ e = x
  <1>1. DOMAIN Append(q, e) = 1..Len(q) + 1 /\ DOMAIN q = 1..Len(q) /\ Len(q) \in Nat
    OBVIOUS
  <1>2. Append(q, e)[Len(q) + 1] = e /\ \A i \in 1..Len(q) : Append(q, e)[i] = q[i]
    OBVIOUS
  <1>3. ASSUME Holds(Append(q, e), x) PROVE Holds(q, x) \/ e = x
    <2>1. PICK i \in 1..Len(q) + 1 : Append(q, e)[i] = x
      BY <1>3, <1>1 DEF Holds
    <2>2. CASE i \in 1..Len(q)
      BY <2>1, <2>2, <1>1, <1>2 DEF Holds
    <2>3. CASE i = Len(q) + 1
      BY <2>1, <2>3, <1>2
    <2> QED
      BY <2>1, <2>2, <2>3, <1>1
  <1>4. ASSUME Holds(q, x) PROVE Holds(Append(q, e), x)
    <2>1. PICK i \in 1..Len(q) : q[i] = x
      BY <1>4, <1>1 DEF Holds
    <2>2. i \in 1..Len(q) + 1
      BY <2>1, <1>1
    <2> QED
      BY <2>1, <2>2, <1>1, <1>2 DEF Holds
  <1>5. ASSUME e = x PROVE Holds(Append(q, e), x)
    <2>1. Len(q) + 1 \in 1..Len(q) + 1
      BY <1>1
    <2> QED
      BY <2>1, <1>5, <1>1, <1>2 DEF Holds
  <1> QED
    BY <1>3, <1>4, <1>5

\* The positions of a queue move up by one when its first element is taken.
LEMMA TailPositions ==
  ASSUME NEW S, NEW q \in Seq(S), q # <<>>
  PROVE  /\ Len(q) \in Nat \ {0} /\ DOMAIN q = 1..Len(q)
         /\ DOMAIN Tail(q) = 1..Len(q) - 1
         /\ q[1] = Head(q)
         /\ \A i \in 1..Len(q) - 1 : Tail(q)[i] = q[i + 1]
  <1>1. Len(q) \in Nat \ {0} /\ DOMAIN q = 1..Len(q) /\ q[1] = Head(q)
    OBVIOUS
  <1>2. DOMAIN Tail(q) = 1..Len(q) - 1 /\ \A i \in 1..Len(q) - 1 : Tail(q)[i] = q[i + 1]
    OBVIOUS
  <1> QED
    BY <1>1, <1>2

\* The variables stay in their types and bounds.
THEOREM SpeechTypeCorrect == Spec => []TypeOK
  <1>1. Init => TypeOK
    <2>1. <<>> \in Seq(Commands) /\ <<>> \in Seq(Events) /\ Len(<<>>) = 0
      OBVIOUS
    <2>2. 0 \in Nat /\ 0 + 0 <= MaxScreens /\ 0 <= MaxQueue
      BY SpeechAssumption
    <2> SUFFICES ASSUME Init PROVE TypeOK
      OBVIOUS
    <2>3. Len(commands) <= MaxQueue /\ Len(events) <= MaxQueue /\ open + leaving <= MaxScreens
      BY <2>1, <2>2 DEF Init
    <2> QED
      BY <2>1, <2>2, <2>3 DEF Init, TypeOK, Commands, Events
  <1>2. TypeOK /\ [Next]_vars => TypeOK'
    <2> SUFFICES ASSUME TypeOK, [Next]_vars PROVE TypeOK'
      OBVIOUS
    <2> USE SpeechAssumption DEF TypeOK
    <2>1. ASSUME StopArticle \/ SpeakArticle
          PROVE  /\ commands' \in Seq(Commands) /\ Len(commands') <= MaxQueue
                 /\ isSpeaking' \in BOOLEAN /\ overtaken' \in BOOLEAN /\ unheard' \in BOOLEAN
      <3>1. ASSUME NEW e \in Commands, Len(commands) < MaxQueue
            PROVE  Append(commands, e) \in Seq(Commands) /\ Len(Append(commands, e)) <= MaxQueue
        BY <3>1, AppendToQueue DEF Commands
      <3>2. SpeakUnderWay \in BOOLEAN
        BY DEF SpeakUnderWay, Holds
      <3>3. CASE StopArticle
        BY <3>1, <3>2, <3>3 DEF StopArticle, Commands
      <3>4. CASE SpeakArticle
        BY <3>1, <3>4 DEF SpeakArticle, Commands
      <3> QED
        BY <2>1, <3>3, <3>4
    <2>2. CASE OpenArticle \/ PushMessage
      BY <2>2 DEF OpenArticle, PushMessage, PutController
    <2>3. CASE CloseArticle
      BY <2>3 DEF CloseArticle, AfterPop
    <2>4. CASE Dispose
      BY <2>4, <2>1 DEF Dispose, LastWords, Commands
    <2>5. CASE TapSpeaker
      BY <2>5, <2>1 DEF TapSpeaker, Commands
    <2>6. CASE Deliver
      <3>1. events' \in Seq(Events) /\ Len(events') <= MaxQueue
        BY <2>6, TailOfQueue DEF Deliver, Events
      <3>2. isSpeaking' \in BOOLEAN /\ unheard' \in BOOLEAN
        <4>1. \A e : Heard(e) \in BOOLEAN /\ (e \in {"done", "error"}) \in BOOLEAN
          BY DEF Heard
        <4> QED
          BY <2>6, <4>1 DEF Deliver
      <3> QED
        BY <2>6, <3>1, <3>2 DEF Deliver, Events
    <2>7. CASE Execute
      <3>1. Tail(commands) \in Seq(Commands) /\ Len(Tail(commands)) <= MaxQueue
        BY <2>7, TailOfQueue DEF Execute, Commands
      <3>2. Len(events) < MaxQueue =>
              Append(events, "spoken") \in Seq(Events) /\ Len(Append(events, "spoken")) <= MaxQueue
        BY AppendToQueue DEF Events
      <3> QED
        BY <2>7, <3>1, <3>2 DEF Execute, Commands, Events
    <2>8. ASSUME NEW from, NEW to \in {"idle", "speaking"}, NEW e \in Events,
                 EngineStep(from, to, e)
          PROVE  TypeOK'
      BY <2>8, AppendToQueue DEF EngineStep, Events
    <2>9. CASE Starts \/ Completes \/ Fails
      BY <2>9, <2>8 DEF Starts, Completes, Fails, Events
    <2>10. CASE UNCHANGED vars
      BY <2>10 DEF vars
    <2> QED
      BY <2>2, <2>3, <2>4, <2>5, <2>6, <2>7, <2>9, <2>10 DEF Next
  <1> QED
    BY <1>1, <1>2, PTL DEF Spec

\* Once the last article is gone, a stop is the last command on its way
\* as long as anything is spoken or about to be: every dispose() sends one, and
\* only an open article sends a speak.
THEOREM VoiceEndsWithArticles == Spec => []NoOrphanVoice
  <1>1. Init => NoOrphanVoice
    BY DEF Init, NoOrphanVoice, Holds
  <1>2. TypeOK /\ NoOrphanVoice /\ [Next]_vars => NoOrphanVoice'
    <2> SUFFICES ASSUME TypeOK, NoOrphanVoice, [Next]_vars,
                        (open + leaving = 0)',
                        (engine # "idle" \/ Holds(commands, "speak"))'
                 PROVE  (commands # <<>> /\ commands[Len(commands)] = "stop")'
      BY DEF NoOrphanVoice
    <2>0. commands \in Seq(Commands) /\ open \in Nat /\ leaving \in Nat
      BY DEF TypeOK, Commands
    <2>1. CASE OpenArticle \/ CloseArticle \/ TapSpeaker
      BY <2>1, <2>0 DEF OpenArticle, CloseArticle, TapSpeaker, AfterPop
    <2>2. CASE Dispose
      <3>1. commands' = Append(commands, "stop")
        BY <2>2 DEF Dispose, LastWords, StopArticle
      <3> QED
        BY <3>1, <2>0, AppendToQueue DEF Commands
    <2>3. CASE Execute
      <3>1. /\ commands # <<>> /\ commands' = Tail(commands)
            /\ open + leaving = 0
        BY <2>3 DEF Execute
      <3>2. commands[Len(commands)] = "stop"
        <4>1. CASE Head(commands) = "speak"
          <5>1. Holds(commands, "speak")
            BY <4>1, <3>1, <2>0 DEF Holds
          <5> QED
            BY <5>1, <3>1 DEF NoOrphanVoice
        <4>2. CASE engine' = "idle"
          <5>1. Holds(commands', "speak")
            BY <4>2
          <5>2. Holds(commands, "speak")
            BY <5>1, <3>1, <2>0, TailOfQueue
          <5> QED
            BY <5>2, <3>1 DEF NoOrphanVoice
        <4> QED
          BY <4>1, <4>2, <2>3 DEF Execute
      <3>3. Len(commands') > 0
        <4>1. CASE Len(commands) = 1
          <5>1. Head(commands) = "stop"
            BY <4>1, <3>2, <2>0
          <5>2. engine' = "idle"
            BY <5>1, <2>3 DEF Execute
          <5>3. ~Holds(commands', "speak")
            BY <4>1, <3>1, <2>0 DEF Holds
          <5> QED
            BY <5>2, <5>3
        <4>2. CASE Len(commands) # 1
          <5>1. Len(commands) \in Nat \ {0, 1}
            BY <4>2, <3>1, <2>0
          <5>2. Len(Tail(commands)) = Len(commands) - 1
            BY <3>1, <2>0
          <5>3. \A n \in Nat \ {0, 1} : n - 1 > 0
            OBVIOUS
          <5>4. Len(Tail(commands)) > 0
            BY <5>1, <5>2, <5>3
          <5> QED
            BY <5>4, <3>1
        <4> QED
          BY <4>1, <4>2
      <3>4. commands'[Len(commands')] = commands[Len(commands)]
        BY <3>1, <3>3, <2>0, TailOfQueue
      <3>5. commands' # <<>>
        BY <3>3
      <3> QED
        BY <3>2, <3>4, <3>5
    <2>4. CASE PushMessage \/ Deliver \/ Starts \/ Completes \/ Fails \/ UNCHANGED vars
      BY <2>4 DEF PushMessage, Deliver, Starts, Completes, Fails, EngineStep, vars, NoOrphanVoice, Holds
    <2> QED
      BY <2>1, <2>2, <2>3, <2>4 DEF Next
  <1> QED
    BY <1>1, <1>2, SpeechTypeCorrect, PTL DEF Spec
-----------------------------------------------------------------------------
(* The queues and callbacks implement Voice.                               *)

Sounding == engine # "idle" \/ Holds(commands, "speak")
StopLast == commands # <<>> /\ commands[Len(commands)] = "stop"

LEMMA VoicedBySounding ==
  /\ ~Sounding => Voiced = "silent"
  /\ Sounding /\ StopLast => Voiced = "ending"
  /\ Sounding /\ ~StopLast => Voiced = "on"
BY DEF Voiced, Sounding, StopLast

\* A stop that is sent makes a voice that is on an ending one.
LEMMA StopEndsVoice ==
  ASSUME TypeOK, StopArticle, UNCHANGED engine
  PROVE  Voiced' = Promise!Ended
  <1>1. commands \in Seq(Commands) /\ commands' = Append(commands, "stop")
    BY DEF TypeOK, StopArticle, Commands
  <1>2. Sounding' <=> Sounding
    BY <1>1, HoldsAppended DEF Sounding, Commands
  <1>3. StopLast'
    BY <1>1, AppendToQueue DEF StopLast, Commands
  <1>4. (~Sounding' => Voiced' = "silent") /\ (Sounding' /\ StopLast' => Voiced' = "ending")
    BY DEF Voiced, Sounding, StopLast
  <1> QED
    BY <1>2, <1>3, <1>4, VoicedBySounding DEF Promise!Ended

LEMMA SpeakTurnsVoiceOn ==
  ASSUME TypeOK, SpeakArticle, UNCHANGED engine
  PROVE  Voiced' = "on"
  <1>1. commands \in Seq(Commands) /\ commands' = Append(commands, "speak")
    BY DEF TypeOK, SpeakArticle, Commands
  <1>2. Sounding' /\ ~StopLast'
    <2>1. Holds(commands', "speak")
      BY <1>1, HoldsAppended DEF Commands
    <2>2. commands'[Len(commands')] = "speak"
      BY <1>1, AppendToQueue DEF Commands
    <2> QED
      BY <2>1, <2>2 DEF Sounding, StopLast
  <1> QED
    BY <1>2 DEF Voiced, Sounding, StopLast

\* What the platform does leaves the voice as it is, or silent.
LEMMA ExecutionKeepsPromise ==
  ASSUME TypeOK, Execute
  PROVE  Voiced' = Voiced \/ Voiced' = "silent"
  <1>1. commands \in Seq(Commands) /\ commands # <<>> /\ commands' = Tail(commands)
    BY DEF TypeOK, Execute, Commands
  <1>2. Holds(commands', "speak") => Holds(commands, "speak")
    BY <1>1, TailOfQueue
  <1>3. (~Sounding' => Voiced' = "silent") /\ (Sounding' /\ StopLast' => Voiced' = "ending")
        /\ (Sounding' /\ ~StopLast' => Voiced' = "on")
    BY DEF Voiced, Sounding, StopLast
  <1>4. Sounding' => Sounding
    <2>1. CASE Head(commands) = "speak"
      BY <2>1, <1>1 DEF Sounding, Holds
    <2>2. CASE engine' = "idle"
      BY <2>2, <1>2 DEF Sounding
    <2> QED
      BY <2>1, <2>2 DEF Execute
  <1>5. Sounding' => (StopLast' <=> StopLast)
    <2>1. CASE commands' = <<>>
      <3>1. Len(commands) = 1 /\ commands[Len(commands)] = Head(commands)
        <4>1. Len(Tail(commands)) = 0
          <5>1. Len(<<>>) = 0
            OBVIOUS
          <5>2. Tail(commands) = <<>>
            BY <2>1, <1>1
          <5> QED
            BY <5>1, <5>2, Zenon
        <4>2. Len(Tail(commands)) = Len(commands) - 1 /\ Len(commands) \in Nat
          BY <1>1, TailOfQueue
        <4>3. Len(commands) = 1
          BY <4>1, <4>2
        <4> QED
          BY <4>3, <1>1
      <3>2. ~StopLast' /\ ~Holds(commands', "speak")
        BY <2>1 DEF StopLast, Holds
      <3>3. Sounding' => Head(commands) = "speak"
        BY <3>2 DEF Sounding, Execute
      <3> QED
        BY <3>1, <3>2, <3>3 DEF StopLast
    <2>2. CASE commands' # <<>>
      <3>1. Len(commands') > 0
        BY <2>2, <1>1
      <3>2. commands'[Len(commands')] = commands[Len(commands)]
        BY <3>1, <1>1, TailOfQueue
      <3> QED
        BY <3>2, <2>2, <1>1 DEF StopLast
    <2> QED
      BY <2>1, <2>2
  <1> QED
    BY <1>3, <1>4, <1>5, VoicedBySounding

\* Commands, the engine and late callbacks together promise what Voice does: every step
\* of ArticleSpeech is one of Voice, or changes nothing that Voice speaks of.
THEOREM SpeechImplementsVoice == Spec => ImplementsVoice
  <1>1. Init => Promise!Init
    <2> SUFFICES ASSUME Init PROVE Promise!Init
      OBVIOUS
    <2>1. ~Sounding
      BY DEF Init, Sounding, Holds
    <2> QED
      BY <2>1, VoicedBySounding DEF Init, Promise!Init
  <1>2. TypeOK /\ [Next]_vars => [Promise!Next]_(Promise!voiceVars)
    <2> SUFFICES ASSUME TypeOK, [Next]_vars
                 PROVE  Promise!Next \/ UNCHANGED Promise!voiceVars
      OBVIOUS
    <2>0. open \in Nat /\ leaving \in Nat
      BY DEF TypeOK
    <2>1. ASSUME UNCHANGED <<engine, commands>> PROVE Voiced' = Voiced
      BY <2>1 DEF Voiced, Holds
    <2>2. CASE OpenArticle
      <3>1. Promise!Arrive
        BY <2>0, <2>1, <2>2 DEF OpenArticle, Promise!Arrive
      <3> QED
        BY <3>1 DEF Promise!Next
    <2>3. CASE CloseArticle
      BY <2>0, <2>1, <2>3 DEF CloseArticle, AfterPop, Promise!voiceVars
    <2>4. CASE Dispose
      <3>1. Voiced' = Promise!Ended
        BY <2>4, StopEndsVoice DEF Dispose, LastWords
      <3>2. open + leaving > 0 /\ (open + leaving)' = (open + leaving) - 1
        BY <2>0, <2>4 DEF Dispose
      <3>3. Promise!Leave
        BY <3>1, <3>2 DEF Promise!Leave
      <3> QED
        BY <3>3 DEF Promise!Next
    <2>5. CASE TapSpeaker
      <3>1. open + leaving > 0 /\ UNCHANGED (open + leaving) /\ UNCHANGED engine
        BY <2>0, <2>5 DEF TapSpeaker
      <3>2. CASE StopArticle
        BY <3>1, <3>2, StopEndsVoice DEF Promise!Hush, Promise!Next
      <3>3. CASE SpeakArticle
        BY <3>1, <3>3, SpeakTurnsVoiceOn DEF Promise!Ask, Promise!Next
      <3> QED
        BY <2>5, <3>2, <3>3 DEF TapSpeaker
    <2>6. CASE Deliver \/ PushMessage
      BY <2>1, <2>6 DEF Deliver, PushMessage, Promise!voiceVars
    <2>7. CASE Execute
      <3>1. UNCHANGED (open + leaving)
        BY <2>7 DEF Execute
      <3> QED
        BY <2>7, <3>1, ExecutionKeepsPromise DEF Promise!FallSilent, Promise!Next, Promise!voiceVars
    <2>8. ASSUME NEW from \in {"starting", "speaking"}, NEW to \in {"idle", "speaking"}, NEW e,
                 EngineStep(from, to, e)
          PROVE  Promise!Next \/ UNCHANGED Promise!voiceVars
      <3>1. UNCHANGED (open + leaving) /\ UNCHANGED commands /\ engine = from /\ engine' = to
        BY <2>8 DEF EngineStep
      <3>2. Voiced' = Voiced \/ Voiced' = "silent"
        BY <3>1 DEF Voiced, Holds
      <3> QED
        BY <3>1, <3>2 DEF Promise!FallSilent, Promise!Next, Promise!voiceVars
    <2>9. CASE Starts \/ Completes \/ Fails
      BY <2>9, <2>8 DEF Starts, Completes, Fails
    <2>10. CASE UNCHANGED vars
      BY <2>1, <2>10 DEF vars, Promise!voiceVars
    <2> QED
      BY <2>2, <2>3, <2>4, <2>5, <2>6, <2>7, <2>9, <2>10 DEF Next
  <1> QED
    BY <1>1, <1>2, SpeechTypeCorrect, PTL DEF Spec, ImplementsVoice, Promise!Spec
-----------------------------------------------------------------------------
(* What the icon shows.                                                    *)

\* What the youngest event means for the icon, or the icon when none is under way.
Final == IF events = <<>> THEN isSpeaking ELSE Heard(events[Len(events)])

\* The stops are the oldest commands.
StopsFirst ==
  \A i, j \in DOMAIN commands : i < j /\ commands[j] = "stop" => commands[i] = "stop"

\* A start, which may reach nobody, finds the icon set by the result of its speak.
StartsShown ==
  \A i \in DOMAIN events :
    events[i] = "start" => IF i = 1 THEN isSpeaking ELSE events[i - 1] = "spoken"

\* What the last speak will show, by its result alone.
SpokenLast == IF events = <<>> THEN isSpeaking ELSE events[Len(events)] = "spoken"

\* Unless a stop overtook a speak: while one is on its way the engine starts
\* nothing and no event will set the icon; without one, the icon is to show
\* what the engine does, or has missed the end of it.
IconInv ==
  ~overtaken =>
    /\ StopsFirst
    /\ StartsShown
    /\ Holds(commands, "stop") =>
         /\ ~isSpeaking /\ engine # "starting"
         /\ ~Holds(events, "spoken") /\ ~Holds(events, "start")
    /\ ~Holds(commands, "stop") =>
         /\ engine = "starting" => SpokenLast
         /\ engine = "speaking" => Final
         /\ engine = "idle" /\ Final => events = <<>> /\ unheard

\* Before the first controller nothing was ever spoken.
FirstIsHeard ==
  /\ channel = "nobody" =>
       /\ open = 0 /\ leaving = 0
       /\ commands = <<>> /\ events = <<>> /\ engine = "idle"
  /\ unheard => channel = "discarded"

\* A stop sent while no speak is under way finds nothing but stops before it.
LEMMA StopKeepsIcon ==
  ASSUME TypeOK, StopArticle, UNCHANGED <<engine, events>>
  PROVE  IconInv'
  <1> SUFFICES ASSUME ~SpeakUnderWay PROVE IconInv'
    BY DEF StopArticle, IconInv
  <1>1. commands \in Seq(Commands) /\ commands' = Append(commands, "stop") /\ ~isSpeaking'
    BY DEF TypeOK, StopArticle, Commands
  <1>2. \A x : Holds(commands', x) <=> Holds(commands, x) \/ x = "stop"
    BY <1>1, HoldsAppended DEF Commands
  <1>3. ~Holds(commands', "speak") /\ Holds(commands', "stop")
    BY <1>2 DEF SpeakUnderWay
  <1>4. commands' \in Seq(Commands)
    BY <1>1, AppendToQueue DEF Commands
  <1>5. \A i \in DOMAIN commands' : commands'[i] = "stop"
    <2>1. \A i \in DOMAIN commands' : commands'[i] \in Commands
      BY <1>4
    <2> QED
      BY <2>1, <1>3 DEF Holds, Commands
  <1>6. engine' # "starting" /\ ~Holds(events', "spoken") /\ ~Holds(events', "start")
    BY DEF SpeakUnderWay
  <1>7. StartsShown'
    BY <1>6 DEF StartsShown, Holds
  <1> QED
    BY <1>1, <1>3, <1>5, <1>6, <1>7 DEF IconInv, StopsFirst

\* A speak is sent behind the stops.
LEMMA SpeakKeepsIcon ==
  ASSUME TypeOK, IconInv, SpeakArticle, UNCHANGED <<engine, events>>
  PROVE  IconInv'
  <1>1. /\ commands \in Seq(Commands) /\ commands' = Append(commands, "speak")
        /\ UNCHANGED <<isSpeaking, overtaken, unheard>>
    BY DEF TypeOK, SpeakArticle, Commands
  <1>2. Holds(commands', "stop") <=> Holds(commands, "stop")
    BY <1>1, HoldsAppended DEF Commands
  <1>3. /\ DOMAIN commands' = 1..Len(commands) + 1 /\ DOMAIN commands = 1..Len(commands)
        /\ Len(commands) \in Nat
        /\ commands'[Len(commands) + 1] = "speak"
        /\ \A i \in 1..Len(commands) : commands'[i] = commands[i]
    BY <1>1
  <1>4. StopsFirst => StopsFirst'
    <2> SUFFICES ASSUME StopsFirst, NEW i \in DOMAIN commands', NEW j \in DOMAIN commands',
                        i < j, commands'[j] = "stop"
                 PROVE  commands'[i] = "stop"
      BY DEF StopsFirst
    <2>1. i \in 1..Len(commands) /\ j \in 1..Len(commands)
      BY <1>3
    <2> QED
      BY <1>3, <2>1 DEF StopsFirst
  <1>5. (Final' <=> Final) /\ (SpokenLast' <=> SpokenLast) /\ (StartsShown' <=> StartsShown)
    BY <1>1 DEF Final, Heard, SpokenLast, StartsShown
  <1> QED
    BY <1>1, <1>2, <1>4, <1>5 DEF IconInv

\* An event is appended: a start behind the result of its speak, or anything else.
LEMMA AppendedStart ==
  ASSUME events \in Seq(Events), StartsShown, NEW e \in Events,
         e = "start" => SpokenLast,
         events' = Append(events, e), UNCHANGED isSpeaking
  PROVE  StartsShown'
  <1>1. /\ DOMAIN events' = 1..Len(events) + 1 /\ DOMAIN events = 1..Len(events)
        /\ Len(events) \in Nat
        /\ events'[Len(events) + 1] = e
        /\ \A i \in 1..Len(events) : events'[i] = events[i]
    OBVIOUS
  <1> SUFFICES ASSUME NEW i \in DOMAIN events', events'[i] = "start"
               PROVE  IF i = 1 THEN isSpeaking' ELSE events'[i - 1] = "spoken"
    BY DEF StartsShown
  <1>2. CASE i \in 1..Len(events)
    <2>1. i # 1 => i - 1 \in 1..Len(events)
      BY <1>2, <1>1
    <2> QED
      BY <1>1, <1>2, <2>1 DEF StartsShown
  <1>3. CASE i = Len(events) + 1
    <2>1. SpokenLast
      BY <1>1, <1>3
    <2>2. CASE events = <<>>
      BY <2>1, <2>2, <1>3 DEF SpokenLast
    <2>3. CASE events # <<>>
      <3>1. Len(events) \in 1..Len(events) /\ i # 1 /\ i - 1 = Len(events)
        BY <2>3, <1>1, <1>3
      <3> QED
        BY <2>1, <2>3, <3>1, <1>1 DEF SpokenLast
    <2> QED
      BY <2>2, <2>3
  <1> QED
    BY <1>1, <1>2, <1>3

LEMMA ExecutionKeepsIcon ==
  ASSUME TypeOK, IconInv, Execute
  PROVE  IconInv'
  <1> SUFFICES ASSUME ~overtaken PROVE IconInv'
    BY DEF Execute, IconInv
  <1>1. /\ commands \in Seq(Commands) /\ commands # <<>> /\ commands' = Tail(commands)
        /\ UNCHANGED <<isSpeaking, overtaken, unheard>>
        /\ events \in Seq(Events)
    BY DEF TypeOK, Execute, Commands, Events
  <1>2. /\ Len(commands) \in Nat \ {0} /\ DOMAIN commands = 1..Len(commands)
        /\ DOMAIN commands' = 1..Len(commands) - 1
        /\ commands[1] = Head(commands)
        /\ \A i \in 1..Len(commands) - 1 : commands'[i] = commands[i + 1]
    BY <1>1, TailPositions
  <1>3. StopsFirst'
    <2> SUFFICES ASSUME NEW i \in DOMAIN commands', NEW j \in DOMAIN commands',
                        i < j, commands'[j] = "stop"
                 PROVE  commands'[i] = "stop"
      BY DEF StopsFirst
    <2>1. i + 1 \in DOMAIN commands /\ j + 1 \in DOMAIN commands /\ i + 1 < j + 1
      BY <1>2
    <2> QED
      BY <1>2, <2>1 DEF IconInv, StopsFirst
  <1>4. Holds(commands', "stop") => Holds(commands, "stop")
    BY <1>1, TailOfQueue
  <1>5. CASE Head(commands) = "stop"
    <2>1. Holds(commands, "stop")
      BY <1>2, <1>5 DEF Holds
    <2>2. engine' = "idle" /\ events' = events
      BY <1>5 DEF Execute
    <2>3. /\ ~isSpeaking' /\ ~Holds(events', "spoken") /\ ~Holds(events', "start")
      BY <1>1, <2>1, <2>2 DEF IconInv
    <2>4. ~Final'
      <3>1. events # <<>> => Len(events) \in DOMAIN events
        BY <1>1
      <3> QED
        BY <2>2, <2>3, <3>1 DEF Final, Heard, Holds
    <2>5. StartsShown'
      BY <2>3 DEF StartsShown, Holds
    <2> QED
      BY <1>3, <2>2, <2>3, <2>4, <2>5 DEF IconInv
  <1>6. CASE Head(commands) = "speak"
    <2>1. ~Holds(commands, "stop")
      <3> SUFFICES ASSUME NEW j \in DOMAIN commands, commands[j] = "stop" PROVE FALSE
        BY DEF Holds
      <3>1. 1 \in DOMAIN commands /\ j # 1 => 1 < j
        BY <1>2
      <3> QED
        BY <1>2, <1>6, <3>1 DEF IconInv, StopsFirst
    <2>2. engine' = "starting" /\ events' = Append(events, "spoken")
      BY <1>6 DEF Execute
    <2>3. SpokenLast'
      BY <1>1, <2>2, AppendToQueue DEF SpokenLast, Events
    <2>4. StartsShown'
      BY <1>1, <2>2, AppendedStart DEF IconInv, Events
    <2> QED
      BY <1>3, <1>4, <2>1, <2>2, <2>3, <2>4 DEF IconInv
  <1> QED
    BY <1>5, <1>6 DEF Execute

LEMMA EngineKeepsIcon ==
  ASSUME TypeOK, IconInv, Starts \/ Completes \/ Fails
  PROVE  IconInv'
  <1> SUFFICES ASSUME ~overtaken PROVE IconInv'
    BY DEF Starts, Completes, Fails, EngineStep, IconInv
  <1>1. PICK e \in {"start", "done", "error"} :
          /\ events' = Append(events, e)
          /\ UNCHANGED <<commands, isSpeaking, overtaken, unheard>>
          /\ e = "start" => engine = "starting" /\ engine' = "speaking"
          /\ e # "start" => engine' = "idle"
    BY DEF Starts, Completes, Fails, EngineStep
  <1>2. events \in Seq(Events) /\ e \in Events
    BY DEF TypeOK, Events
  <1>3. events' # <<>> /\ events'[Len(events')] = e
    BY <1>1, <1>2, AppendToQueue
  <1>4. Final' <=> e = "start"
    BY <1>3 DEF Final, Heard
  <1>5. \A x : Holds(events', x) <=> Holds(events, x) \/ x = e
    BY <1>1, <1>2, HoldsAppended
  <1>6. (StopsFirst' <=> StopsFirst) /\ (Holds(commands, "stop")' <=> Holds(commands, "stop"))
    BY <1>1 DEF StopsFirst, Holds
  <1>7. e = "start" => SpokenLast
    BY <1>1 DEF IconInv
  <1>8. StartsShown'
    BY <1>1, <1>2, <1>7, AppendedStart DEF IconInv
  <1> QED
    BY <1>1, <1>4, <1>5, <1>6, <1>8 DEF IconInv

LEMMA DeliveryKeepsIcon ==
  ASSUME TypeOK, IconInv, Deliver
  PROVE  IconInv'
  <1> SUFFICES ASSUME ~overtaken PROVE IconInv'
    BY DEF Deliver, IconInv
  <1> DEFINE e == Head(events)
  <1>1. /\ events \in Seq(Events) /\ events # <<>> /\ events' = Tail(events)
        /\ UNCHANGED <<commands, engine, overtaken>>
        /\ isSpeaking \in BOOLEAN
    BY DEF TypeOK, Deliver, Events
  <1>2. /\ Len(events) \in Nat \ {0} /\ DOMAIN events = 1..Len(events)
        /\ DOMAIN events' = 1..Len(events) - 1
        /\ events[1] = e
        /\ \A i \in 1..Len(events) - 1 : events'[i] = events[i + 1]
    BY <1>1, TailPositions
  <1>3. \A x : Holds(events', x) => Holds(events, x)
    BY <1>1, TailOfQueue
  <1>4. (StopsFirst' <=> StopsFirst) /\ (Holds(commands, "stop")' <=> Holds(commands, "stop"))
    BY <1>1 DEF StopsFirst, Holds
  \* A start leaves the icon set, whoever hears it.
  <1>5. /\ e = "spoken" => isSpeaking'
        /\ e = "start" => isSpeaking'
        /\ e \notin {"spoken", "start"} => ~isSpeaking' \/ unheard'
    <2>1. e \in Events
      BY <1>1, <1>2
    <2>2. e = "start" => isSpeaking
      <3>1. 1 \in DOMAIN events /\ StartsShown
        BY <1>2 DEF IconInv
      <3> QED
        BY <1>2, <3>1 DEF StartsShown
    <2>3. CASE Reaches(e) /\ isSpeaking' = Heard(e)
      BY <2>3 DEF Heard
    <2>4. CASE ~Reaches(e) /\ unheard' = (e \in {"done", "error"}) /\ isSpeaking' = isSpeaking
      BY <2>1, <2>2, <2>4 DEF Events, Reaches
    <2> QED
      BY <2>3, <2>4 DEF Deliver
  <1>6. ~isSpeaking /\ ~Heard(e) => ~isSpeaking'
    BY DEF Deliver
  <1>7. StartsShown'
    <2> SUFFICES ASSUME NEW i \in DOMAIN events', events'[i] = "start"
                 PROVE  IF i = 1 THEN isSpeaking' ELSE events'[i - 1] = "spoken"
      BY DEF StartsShown
    <2>1. /\ i + 1 \in DOMAIN events /\ i + 1 # 1 /\ (i + 1) - 1 = i
          /\ i # 1 => i - 1 \in DOMAIN events' /\ (i - 1) + 1 = i
      BY <1>2
    <2>2. events[i + 1] = "start" /\ events[i] = "spoken"
      BY <1>2, <2>1 DEF IconInv, StartsShown
    <2>3. CASE i = 1
      BY <2>2, <2>3, <1>2, <1>5
    <2>4. CASE i # 1
      BY <2>1, <2>2, <2>4, <1>2
    <2> QED
      BY <2>3, <2>4
  <1>8. CASE Holds(commands, "stop")
    <2>1. ~Heard(e)
      BY <1>2, <1>8 DEF Heard, Holds, IconInv
    <2> QED
      BY <2>1, <1>1, <1>3, <1>4, <1>6, <1>7, <1>8 DEF IconInv
  <1>9. CASE ~Holds(commands, "stop")
    <2>1. CASE events' = <<>>
      <3>1. Len(events) = 1
        <4>1. Len(<<>>) = 0
          OBVIOUS
        <4>2. Len(Tail(events)) = 0
          BY <1>1, <2>1, <4>1, Zenon
        <4>3. Len(Tail(events)) = Len(events) - 1
          BY <1>1, TailOfQueue
        <4> QED
          BY <1>2, <4>2, <4>3
      <3>2. (Final <=> Heard(e)) /\ (SpokenLast <=> e = "spoken")
        BY <1>1, <1>2, <3>1 DEF Final, SpokenLast
      <3>3. (Final' <=> isSpeaking') /\ (SpokenLast' <=> isSpeaking')
        BY <2>1 DEF Final, SpokenLast
      <3>4. Heard(e) <=> e \in {"spoken", "start"}
        BY DEF Heard
      <3>5. /\ engine = "starting" => isSpeaking'
            /\ engine = "speaking" => isSpeaking'
            /\ engine = "idle" => ~isSpeaking' \/ unheard'
        <4>1. /\ engine = "starting" => SpokenLast
              /\ engine = "speaking" => Final
              /\ engine = "idle" => ~Final
          BY <1>1, <1>9 DEF IconInv
        <4> QED
          BY <3>2, <3>4, <4>1, <1>5
      <3> QED
        BY <2>1, <3>3, <3>5, <1>1, <1>4, <1>7, <1>9 DEF IconInv
    <2>2. CASE events' # <<>>
      <3>1. events'[Len(events')] = events[Len(events)]
        <4>1. Len(Tail(events)) > 0
          BY <1>1, <2>2
        <4> QED
          BY <1>1, <4>1, TailOfQueue
      <3>2. (Final' <=> Final) /\ (SpokenLast' <=> SpokenLast)
        BY <1>1, <2>2, <3>1 DEF Final, SpokenLast, Heard
      <3>3. engine = "idle" => ~Final
        BY <1>1, <1>9 DEF IconInv
      <3> QED
        BY <3>2, <3>3, <1>1, <1>4, <1>7, <1>9 DEF IconInv
    <2> QED
      BY <2>1, <2>2
  <1> QED
    BY <1>8, <1>9

\* An unheard end needs a controller after the first, which is there before anything is said.
LEMMA FirstStaysHeard ==
  ASSUME TypeOK, FirstIsHeard, [Next]_vars
  PROVE  FirstIsHeard'
  <1>0. open \in Nat /\ leaving \in Nat /\ channel \in {"nobody", "registered", "discarded"}
    BY DEF TypeOK
  <1>1. CASE OpenArticle \/ PushMessage
    BY <1>0, <1>1 DEF OpenArticle, PushMessage, PutController, FirstIsHeard
  <1>2. CASE CloseArticle \/ Dispose \/ TapSpeaker
    BY <1>0, <1>2 DEF CloseArticle, Dispose, LastWords, TapSpeaker, StopArticle, SpeakArticle,
                      FirstIsHeard
  <1>3. CASE Deliver
    BY <1>0, <1>3 DEF Deliver, Reaches, FirstIsHeard
  <1>4. CASE Execute
    BY <1>4 DEF Execute, FirstIsHeard
  <1>5. CASE Starts \/ Completes \/ Fails
    BY <1>5 DEF Starts, Completes, Fails, EngineStep, FirstIsHeard
  <1>6. CASE UNCHANGED vars
    BY <1>6 DEF vars, FirstIsHeard
  <1> QED
    BY <1>1, <1>2, <1>3, <1>4, <1>5, <1>6 DEF Next

\* However commands, results and callbacks interleave, the icon comes to show what
\* the engine does, unless a stop overtook the result of a speak or the end of the voice
\* was called back to a controller that Get.put had discarded.
THEOREM IconTellsTruth == Spec => []IconMatchesVoice
  <1>1. Init => IconInv /\ FirstIsHeard
    <2> SUFFICES ASSUME Init PROVE IconInv /\ FirstIsHeard
      OBVIOUS
    <2>1. /\ ~Final /\ ~Holds(commands, "stop") /\ StopsFirst /\ StartsShown
          /\ engine = "idle"
      BY DEF Init, Final, Holds, StopsFirst, StartsShown
    <2> QED
      BY <2>1 DEF IconInv, FirstIsHeard, Init
  <1>2. TypeOK /\ IconInv /\ [Next]_vars => IconInv'
    <2> SUFFICES ASSUME TypeOK, IconInv, [Next]_vars PROVE IconInv'
      OBVIOUS
    <2>1. CASE OpenArticle \/ PushMessage \/ CloseArticle \/ UNCHANGED vars
      <3>1. UNCHANGED <<isSpeaking, commands, engine, events, overtaken, unheard>>
        BY <2>1 DEF OpenArticle, PushMessage, CloseArticle, vars
      <3>2. /\ Final' <=> Final
            /\ SpokenLast' <=> SpokenLast
            /\ StopsFirst' <=> StopsFirst
            /\ StartsShown' <=> StartsShown
        BY <3>1 DEF Final, SpokenLast, StopsFirst, StartsShown, Heard
      <3>3. /\ \A x : Holds(commands, x)' <=> Holds(commands, x)
            /\ \A x : Holds(events, x)' <=> Holds(events, x)
        BY <3>1 DEF Holds
      <3> QED
        BY <3>1, <3>2, <3>3 DEF IconInv
    <2>2. CASE Dispose
      BY <2>2, StopKeepsIcon DEF Dispose, LastWords
    <2>3. CASE TapSpeaker
      BY <2>3, StopKeepsIcon, SpeakKeepsIcon DEF TapSpeaker
    <2> QED
      BY <2>1, <2>2, <2>3, ExecutionKeepsIcon, EngineKeepsIcon, DeliveryKeepsIcon DEF Next
  <1>3. TypeOK /\ FirstIsHeard /\ [Next]_vars => FirstIsHeard'
    BY FirstStaysHeard
  <1>4. TypeOK /\ IconInv /\ FirstIsHeard => IconMatchesVoice
    <2> SUFFICES ASSUME TypeOK, IconInv, FirstIsHeard, commands = <<>>, events = <<>>,
                        engine # "starting", ~overtaken
                 PROVE  /\ engine = "speaking" => isSpeaking
                        /\ isSpeaking /\ engine # "speaking" => unheard /\ channel = "discarded"
      BY DEF IconMatchesVoice
    <2>1. ~Holds(commands, "stop") /\ (Final <=> isSpeaking)
      BY DEF Holds, Final
    <2>2. engine \in {"idle", "speaking"} /\ isSpeaking \in BOOLEAN
      BY DEF TypeOK
    <2> QED
      BY <2>1, <2>2 DEF IconInv, FirstIsHeard
  <1> QED
    BY <1>1, <1>2, <1>3, <1>4, SpeechTypeCorrect, PTL DEF Spec
=============================================================================
