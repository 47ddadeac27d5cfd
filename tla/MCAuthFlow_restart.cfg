\* One account, one handler at a time, every screen and button; the process may
\* die at any step.
SPECIFICATION Spec
CONSTANTS
  MaxDepth = 3
  Visited = {"Splash", "Onboarding", "SignIn", "SignUp", "Login", "Reset", "Verify", "Interests", "Main", "LogoutSheet", "LoginSheet"}
  Users = {a1}
  Nobody = Nobody
  Handlers = {h1}
  Taps = {"create", "login", "reset", "google", "reload", "resend", "signOut", "logout", "choose"}
  Crashes = TRUE
SYMMETRY Symmetry
INVARIANTS
  TypeOK
  BeliefsTrue
  RowsBacked
  NoSilentOrphan
  DisposedUseOnlyWhereUnguarded
PROPERTIES
  AccountsSpec
  AdmitsVerifiedOnly
