----------------------------- MODULE MCPreferences -----------------------------
\* Symmetry and bounds for the instance of Preferences that TLC checks.
EXTENDS Preferences, TLC

Symmetry == Permutations(Categories)

CallBounds == [kept \in BOOLEAN |-> IF kept THEN 4 ELSE 3]
=============================================================================
