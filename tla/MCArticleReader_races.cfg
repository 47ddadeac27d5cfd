SPECIFICATION Spec
CONSTANTS
  Articles = {a1, a2}
  NoArticle = none
  Calls = {k1, k2, k3}
  MaxScreens = 2
  MaxTaps = 2
  MaxRebuilds = 0
  Sessions = {TRUE}
  Outcomes = {"ok"}
SYMMETRY Symmetry
INVARIANTS
  TypeOK
  SettledShowsServer
