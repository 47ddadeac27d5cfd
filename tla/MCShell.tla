-------------------------------- MODULE MCShell --------------------------------
(***************************************************************************)
(* MainShell, HomeFeed, Settings and VideoReader share no state.  A        *)
(* behaviour of this instance runs one of them while the others stay in an *)
(* initial state: TLC checks the sum of the four state spaces, which says  *)
(* as much as their product.                                               *)
(***************************************************************************)
EXTENDS MainShell, HomeFeed, Settings, VideoReader, TLC

VARIABLE part

vars == <<part, shellVars, feedVars, settingsVars, videoVars>>

Init == /\ part \in {"shell", "feed", "settings", "videos"}
        /\ ShellInit /\ FeedInit /\ SettingsInit /\ VideoInit
        /\ (part # "shell" => ~online) /\ (part # "videos" => ~signedIn)

Shell == /\ part = "shell" /\ ShellNext
         /\ UNCHANGED <<part, feedVars, settingsVars, videoVars>>
Feed == /\ part = "feed" /\ FeedNext
        /\ UNCHANGED <<part, shellVars, settingsVars, videoVars>>
Language == /\ part = "settings" /\ SettingsNext
            /\ UNCHANGED <<part, shellVars, feedVars, videoVars>>
Watching == /\ part = "videos" /\ VideoNext
            /\ UNCHANGED <<part, shellVars, feedVars, settingsVars>>

Next == Shell \/ Feed \/ Language \/ Watching

Spec == Init /\ [][Next]_vars

Symmetry == Permutations(Languages) \cup Permutations(Videos)

\* The variables of each part are of their types.
PartsTypeOK == ShellTypeOK /\ FeedTypeOK /\ SettingsTypeOK /\ VideoTypeOK
=============================================================================
