------------------------------ MODULE MCInterests ------------------------------
\* Symmetry for the instance of Interests that TLC checks.
EXTENDS Interests, TLC

Symmetry == Permutations(Categories) \cup Permutations(Users)
=============================================================================
