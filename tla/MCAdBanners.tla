----------------------------- MODULE MCAdBanners -----------------------------
(***************************************************************************)
(* AdBanners on a small instance. Slots and controllers are interchangeable.*)
(***************************************************************************)
EXTENDS AdBanners, TLC

Symmetry == Permutations(Screens) \cup Permutations(AppControllers)
=============================================================================
