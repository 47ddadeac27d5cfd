SPECIFICATION FairSpec
CONSTANTS
  Articles = {a1}
  NoArticle = none
  Calls = {k1, k2}
  MaxScreens = 1
  MaxTaps = 1
  MaxRebuilds = 1
  Sessions = {TRUE, FALSE}
  Outcomes = {"ok", "refused", "failed"}
INVARIANT
  SettledShowsServer
PROPERTY
  ArticleAppears
