\* Liveness: no symmetry, no crash; the user may leave any screen.
SPECIFICATION FairSpec
CONSTANTS
  MaxDepth = 3
  Visited = {"SignUp", "Login", "Reset"}
  Users = {a1}
  Nobody = Nobody
  Handlers = {h1, h2}
  Taps = {"create", "login", "reset"}
  Crashes = FALSE
INVARIANTS
  SpinnerHasHandler
PROPERTIES
  SpinnerEnds
  RegistrationSettles
CHECK_DEADLOCK FALSE
