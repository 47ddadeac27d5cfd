-------------------------------- MODULE Voice --------------------------------
(***************************************************************************)
(* What reading aloud promises: a voice is asked for from an article that  *)
(* is there, it may fall silent at any time, and it is on its way to       *)
(* silence from the moment an article goes, whichever it is.  ArticleSpeech *)
(* implements it with commands and callbacks.                              *)
(***************************************************************************)
EXTENDS Naturals

VARIABLES
  readers,    \* the articles that are there
  voice       \* silent, on, or ending: on, and certain to fall silent

voiceVars == <<readers, voice>>

Init == readers = 0 /\ voice = "silent"

Ended == IF voice = "on" THEN "ending" ELSE voice

Arrive == readers' = readers + 1 /\ UNCHANGED voice

Leave == readers > 0 /\ readers' = readers - 1 /\ voice' = Ended

Ask == readers > 0 /\ voice' = "on" /\ UNCHANGED readers

Hush == readers > 0 /\ voice' = Ended /\ UNCHANGED readers

FallSilent == voice' = "silent" /\ UNCHANGED readers

Next == Arrive \/ Leave \/ Ask \/ Hush \/ FallSilent

Spec == Init /\ [][Next]_voiceVars

\* Nobody hears a voice that goes on once the articles are gone.
NoVoiceAlone == readers = 0 => voice # "on"
=============================================================================
