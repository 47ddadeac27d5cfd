--------------------------- MODULE MCArticleReader ---------------------------
(***************************************************************************)
(* ArticleReader on a small instance. Articles and slots are               *)
(* interchangeable; liveness is checked without the reduction.             *)
(***************************************************************************)
EXTENDS ArticleReader, TLC

Symmetry == Permutations(Articles) \cup Permutations(Calls)
=============================================================================
