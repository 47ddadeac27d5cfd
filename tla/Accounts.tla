------------------------------- MODULE Accounts --------------------------------
(***************************************************************************)
(* What the account system promises, with no screen, handler or network in *)
(* it: Firebase accounts, the backend's user rows and the signed-in user.  *)
(* AuthFlow implements it.                                                 *)
(***************************************************************************)
EXTENDS FiniteSets

CONSTANTS
  Users,     \* the people's e-mail accounts; a Firebase uid is named by its account
  Nobody     \* no user is signed in

ASSUME AccountsAssumption == Nobody \notin Users

VARIABLES
  fb,        \* fb[a]: "none", "unverified" or "verified", the Firebase account
  rows,      \* the backend's user table
  session    \* the signed-in user of the device

accountVars == <<fb, rows, session>>

FbState == {"none", "unverified", "verified"}
Row == [uid: Users, email: Users, verified: BOOLEAN]

HasRow(a) == \E r \in rows : r.uid = a

AccountsTypeOK ==
  /\ fb \in [Users -> FbState]
  /\ rows \subseteq Row
  /\ session \in Users \cup {Nobody}

AccountsInit ==
  /\ fb = [a \in Users |-> "none"]
  /\ rows = {}
  /\ session = Nobody

(* An e-mail account is created; its owner is signed in unless the answer  *)
(* never reaches the device.                                               *)
CreateAccount(a) ==
  /\ fb[a] = "none"
  /\ fb' = [fb EXCEPT ![a] = "unverified"]
  /\ session' \in {session, a}
  /\ UNCHANGED rows

(* The owner follows the link in the verification e-mail.                  *)
VerifyEmail(a) ==
  /\ fb[a] = "unverified"
  /\ fb' = [fb EXCEPT ![a] = "verified"]
  /\ UNCHANGED <<rows, session>>

(* Google vouches for the address, whether or not the account existed.     *)
GoogleSignIn(a) ==
  /\ fb' = [fb EXCEPT ![a] = "verified"]
  /\ session' = a
  /\ UNCHANGED rows

SignIn(a) ==
  /\ fb[a] # "none"
  /\ session' = a
  /\ UNCHANGED <<fb, rows>>

SignOut ==
  /\ session' = Nobody
  /\ UNCHANGED <<fb, rows>>

(* The backend gets one row per Firebase account, and never calls an       *)
(* account verified that Firebase has not verified.                        *)
AddRow(r) ==
  /\ fb[r.uid] # "none"
  /\ r.verified => fb[r.uid] = "verified"
  /\ ~HasRow(r.uid)
  /\ rows' = rows \cup {r}
  /\ UNCHANGED <<fb, session>>

MarkVerified(a) ==
  /\ fb[a] = "verified"
  /\ rows' = {IF r.uid = a THEN [r EXCEPT !.verified = TRUE] ELSE r : r \in rows}
  /\ UNCHANGED <<fb, session>>

AccountsNext ==
  \/ \E a \in Users : \/ CreateAccount(a)
                      \/ VerifyEmail(a)
                      \/ GoogleSignIn(a)
                      \/ SignIn(a)
                      \/ MarkVerified(a)
  \/ SignOut
  \/ \E r \in Row : AddRow(r)

AccountsSpec == AccountsInit /\ [][AccountsNext]_accountVars

--------------------------------------------------------------------------------

(* The backend agrees with Firebase: every row belongs to an account that  *)
(* exists, a row says verified only of an account Firebase has verified,   *)
(* and no account has two rows (register, verify and google handlers of    *)
(* src/lib/screens/authentication_screens).                                *)
RowsBacked ==
  /\ \A r \in rows : /\ fb[r.uid] # "none"
                     /\ r.verified => fb[r.uid] = "verified"
  /\ \A r, q \in rows : r.uid = q.uid => r = q

================================================================================
