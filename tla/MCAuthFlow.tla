------------------------------ MODULE MCAuthFlow ------------------------------
(***************************************************************************)
(* Small instances of AuthFlow for TLC.                                    *)
(***************************************************************************)
EXTENDS AuthFlow, TLC

Symmetry == Permutations(Users) \cup Permutations(Handlers)

================================================================================
