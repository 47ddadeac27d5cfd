\* Two accounts, two suspended handlers that cross.  TLC may reach states in which
\* only the user could go on, and this instance's user may open no further screen.
SPECIFICATION Spec
CONSTANTS
  MaxDepth = 2
  Visited = {"SignUp", "Login"}
  Users = {a1, a2}
  Nobody = Nobody
  Handlers = {h1, h2}
  Taps = {"create", "login", "google"}
  Crashes = FALSE
SYMMETRY Symmetry
INVARIANTS
  
  RowMatchesAccount
  NoSilentOrphan
CHECK_DEADLOCK FALSE
