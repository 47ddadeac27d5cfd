SPECIFICATION Spec
CONSTANTS
  Categories = {a, b}
  NoCategory = none
  MaxDepth = 3
  MaxCalls <- CallBounds
  MaxTaps = 2
  MaxFailures = 1
  MaxStored = 2
  MaxChosen = 2
  Orders = {TRUE, FALSE}
  Outcomes = {"ok", "refused", "failed"}
SYMMETRY Symmetry
INVARIANTS
  TypeOK
  RemoveHitsCard
  ShownPreferencesTrue
