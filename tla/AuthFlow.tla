------------------------------- MODULE AuthFlow --------------------------------
(***************************************************************************)
(* Signing up, signing in, verifying an address and signing out: the       *)
(* screens of src/lib/screens/authentication_screens, the splash screen    *)
(* and the logout sheet, as event handlers that interleave at every await. *)
(*                                                                         *)
(* A handler is a record in call: pc names the await it is suspended at    *)
(* ("create", the request is out) or about to resume from ("created", the  *)
(* reply has come).  Firebase, the backend, the user and the operating     *)
(* system act between those points.                                        *)
(*                                                                         *)
(* A screen that is popped or replaced leaves the stack at once, but its   *)
(* State stays mounted until the transition animation ends (Dispose).  In  *)
(* that window a handler of the screen that resumes from an await still    *)
(* passes its "if (!mounted) return" check.  Only such a handler can tell, *)
(* so what the model keeps of a screen that left the stack is the field    *)
(* life of the handlers suspended on it.                                   *)
(***************************************************************************)
EXTENDS ScreenStack, Accounts

CONSTANTS
  Handlers,  \* bound: how many event handlers may be suspended at once
  Taps,      \* bound: the handlers the user starts, by the pc of their first await
  Crashes    \* bound: whether the process may die in this instance

ASSUME AuthFlowAssumption == Crashes \in BOOLEAN

VARIABLES
  cached,      \* currentUser.emailVerified, as the device last heard it
  call,        \* call[h]: the handler in slot h, or Idle
  skip,        \* APP-LOGIN: "unset", TRUE in the "cache" only, or on "disk"
  \* history, read by no handler:
  crossed,     \* the session changed while another handler was suspended
  faulted,     \* accounts whose registration was cut short by a failure
  lateUse      \* the pcs at which a handler used a State already disposed

sessionVars == <<session, cached, crossed>>
authVars == <<fb, rows, session, cached, crossed>>
ghostVars == <<faulted, lateUse>>
vars == <<stack, fb, rows, session, cached, call, skip, crossed, faulted, lateUse>>

Idle == [pc |-> "idle", scr |-> 0, life |-> "none", acct |-> Nobody,
         reply |-> "none", uid |-> Nobody, ver |-> FALSE]

Waiting == {"create", "register", "mail", "login", "reset", "google", "gRegister",
            "reload", "mark", "resend", "signOut", "logout", "choose"}
Resuming == {"created", "registered", "mailed", "loggedIn", "resetDone",
             "googled", "gRegistered", "reloaded", "signedOut", "loggedOut", "chosen"}
Replies == {"none", "ok", "fail", "threw", "registered", "exists", "error"}

(* scr is the position of the handler's screen while life is "shown"; then *)
(* the screen is "exiting" (off the stack, State mounted) or "gone".       *)
Call == [pc: Waiting \cup Resuming \cup {"idle"}, scr: Nat,
         life: {"none", "shown", "exiting", "gone"},
         acct: Users \cup {Nobody}, reply: Replies, uid: Users \cup {Nobody},
         ver: BOOLEAN]

Busy(h) == call[h].pc # "idle"

Init ==
  /\ stack = <<Fresh("Splash")>>
  /\ AccountsInit
  /\ cached = FALSE
  /\ call = [h \in Handlers |-> Idle]
  /\ skip = "unset"
  /\ crossed = FALSE
  /\ faulted = {} /\ lateUse = {}

--------------------------------------------------------------------------------
(* Handlers.                                                               *)

Begin(h, c) == call[h] = Idle /\ call' = [call EXCEPT ![h] = c]
Finish(h) == call' = [call EXCEPT ![h] = Idle]
Answer(h, pc, reply) == call' = [call EXCEPT ![h].pc = pc, ![h].reply = reply]

(* A tap handler of the visible screen starts and suspends at pc.          *)
Start(h, pc, a) ==
  /\ pc \in Taps
  /\ Begin(h, [Idle EXCEPT !.pc = pc, !.scr = Len(stack), !.life = "shown", !.acct = a])

(* The handler of a button that gives way to a loader while it runs.       *)
StartLoading(h, pc, a) ==
  /\ Start(h, pc, a)
  /\ stack' = WithLoading(stack, Len(stack), TRUE)
  /\ UNCHANGED <<authVars, skip, ghostVars>>

(* The handler of a button that stays.                                     *)
StartPlain(h, pc, a) ==
  /\ Start(h, pc, a)
  /\ UNCHANGED <<stack, authVars, skip, ghostVars>>

(* "if (!mounted) return" after an await.                                  *)
MountedCheckDropped(c) == TRUE
MountedAfterAwait(c) == c.life # "gone"

(* setState and Navigator.of throw once the State is disposed.             *)
Uses(c) == lateUse' = IF c.life = "gone" THEN lateUse \cup {c.pc} ELSE lateUse

(* updateLoading(false): the screens when handler c has stopped its loader.*)
LoaderLeftOn(c) == stack
LoaderStopped(c) ==
  IF c.life = "shown" THEN WithLoading(stack, c.scr, FALSE) ELSE stack

(* The screen on top leaves: the handlers cs suspended on it are told.     *)
TopLeaves(cs) ==
  [g \in Handlers |->
     IF cs[g].life = "shown" /\ cs[g].scr = Len(stack)
     THEN [cs[g] EXCEPT !.scr = 0, !.life = "exiting"]
     ELSE cs[g]]

(* The handler returns without touching its screen.                        *)
Return(h) == Finish(h) /\ UNCHANGED <<stack, lateUse>>

(* An uncaught exception ends the handler: what it would still have done,  *)
(* updateLoading(false) included, is not done.                             *)
Throw(h) ==
  /\ Finish(h)
  /\ stack' = IF call[h].life = "shown"
              THEN [stack EXCEPT ![call[h].scr].threw = TRUE] ELSE stack
  /\ UNCHANGED lateUse

(* updateLoading(false) as the last thing a handler does.                  *)
StopLoading(h) ==
  /\ Finish(h) /\ Uses(call[h])
  /\ stack' = LoaderStopped(call[h])

(* pushReplacement and updateLoading(false), from the screen of h, which   *)
(* then goes on as c.                                                      *)
ReplaceTop(h, p, c) ==
  /\ Uses(call[h])
  /\ stack' = Replaced(LoaderStopped(call[h]), p)
  /\ call' = TopLeaves([call EXCEPT ![h] = c])

GoTo(h, p) == ReplaceTop(h, p, Idle)

(* The signed-in user of the device changes.                               *)
ChangeSession(h, a, v) ==
  /\ session' = a
  /\ cached' = v
  /\ crossed' = (crossed \/ (a # session /\ \E g \in Handlers \ {h} : Busy(g)))

--------------------------------------------------------------------------------
(* SignUpScreen: authenticateUser, register.                               *)

TapCreateAccount(h, a) ==
  OnTop("SignUp") /\ ~Top.loading /\ StartLoading(h, "create", a)

FirebaseCreate(h) ==
  LET a == call[h].acct IN
  /\ call[h].pc = "create"
  /\ \/ /\ fb[a] = "none"
        /\ fb' = [fb EXCEPT ![a] = "unverified"]
        /\ \/ /\ ChangeSession(h, a, FALSE)
              /\ Answer(h, "created", "ok")
              /\ UNCHANGED faulted
           \/ /\ Answer(h, "created", "fail")      \* the answer was lost
              /\ faulted' = faulted \cup {a}
              /\ UNCHANGED sessionVars
     \/ /\ Answer(h, "created", "fail")            \* any FirebaseAuthException
        /\ UNCHANGED <<fb, sessionVars, faulted>>
  /\ UNCHANGED <<stack, rows, skip, lateUse>>

(* The result string of createFirebaseUser is 'authentication-successful'. *)
SucceededUnread(c) == TRUE
Succeeded(c) == c.reply = "ok"

(* register(): the row is filed under whoever is signed in NOW, with the   *)
(* e-mail typed before the await.                                          *)
RegisterForgotten(h) == Finish(h)
RegisterAsVerified(h) ==
  call' = [call EXCEPT ![h].pc = "register", ![h].reply = "none", ![h].uid = session,
                       ![h].ver = TRUE]
Register(h) ==
  call' = [call EXCEPT ![h].pc = "register", ![h].reply = "none", ![h].uid = session,
                       ![h].ver = cached]

SignUpCreated(h) ==
  LET c == call[h] IN
  /\ c.pc = "created"
  /\ \/ /\ ~MountedAfterAwait(c)
        /\ Return(h)
        /\ faulted' = IF c.reply = "ok" THEN faulted \cup {c.acct} ELSE faulted
     \/ /\ MountedAfterAwait(c) /\ Succeeded(c)
        /\ faulted' = IF session = c.acct THEN faulted ELSE faulted \cup {c.acct}
        /\ \/ session = Nobody /\ Throw(h)         \* currentUser!.uid
           \/ session # Nobody /\ Register(h) /\ UNCHANGED <<stack, lateUse>>
     \/ /\ MountedAfterAwait(c) /\ ~Succeeded(c)
        /\ StopLoading(h)
        /\ UNCHANGED faulted
  /\ UNCHANGED <<authVars, skip>>

(* registerUser on the backend: one row per uid.                           *)
BackendRegister(h) ==
  LET c == call[h]
      done == IF c.pc = "register" THEN "registered" ELSE "gRegistered" IN
  /\ c.pc \in {"register", "gRegister"}
  /\ \/ /\ ~HasRow(c.uid)
        /\ rows' = rows \cup {[uid |-> c.uid, email |-> c.acct, verified |-> c.ver]}
        /\ \E reply \in {"registered", "error", "threw"} : Answer(h, done, reply)
        /\ UNCHANGED faulted
     \/ /\ HasRow(c.uid)
        /\ Answer(h, done, "exists")
        /\ UNCHANGED <<rows, faulted>>
     \/ /\ \E reply \in {"error", "threw"} : Answer(h, done, reply)
        /\ faulted' = faulted \cup {c.acct}
        /\ UNCHANGED rows
  /\ UNCHANGED <<stack, fb, sessionVars, skip, lateUse>>

SignUpRegistered(h) ==
  LET c == call[h] IN
  /\ c.pc = "registered"
  /\ \/ c.reply = "threw" /\ Throw(h)
     \/ c.reply # "threw" /\ ~MountedAfterAwait(c) /\ Return(h)
     \/ /\ c.reply = "registered" /\ MountedAfterAwait(c)
        /\ \/ session = Nobody /\ Throw(h)         \* currentUser!.sendEmailVerification
           \/ /\ session # Nobody
              /\ Answer(h, "mail", "none")
              /\ UNCHANGED <<stack, lateUse>>
     \/ c.reply \in {"exists", "error"} /\ MountedAfterAwait(c) /\ StopLoading(h)
  /\ UNCHANGED <<authVars, skip, faulted>>

(* sendEmailVerification.  register() ignores its outcome, and the mail    *)
(* itself is left out: FollowLink may happen once there is an account.     *)
FirebaseMail(h) ==
  /\ call[h].pc \in {"mail", "resend"}
  /\ IF call[h].pc = "mail" THEN Answer(h, "mailed", "ok") ELSE Finish(h)
  /\ UNCHANGED <<stack, authVars, skip, ghostVars>>

SignUpMailed(h) ==
  LET c == call[h] IN
  /\ c.pc = "mailed"
  /\ \/ ~MountedAfterAwait(c) /\ Return(h)
     \/ MountedAfterAwait(c) /\ GoTo(h, "Verify")
  /\ UNCHANGED <<authVars, skip, faulted>>

--------------------------------------------------------------------------------
(* LoginScreen: loginUser.  PasswordResetScreen: passwordResetEmail.       *)

TapLogin(h, a) ==
  OnTop("Login") /\ ~Top.loading /\ StartLoading(h, "login", a)

FirebaseLogin(h) ==
  LET a == call[h].acct IN
  /\ call[h].pc = "login"
  /\ \/ /\ fb[a] # "none"
        /\ ChangeSession(h, a, fb[a] = "verified")
        /\ Answer(h, "loggedIn", "ok")
     \/ /\ Answer(h, "loggedIn", "fail")
        /\ UNCHANGED sessionVars
  /\ UNCHANGED <<stack, fb, rows, skip, ghostVars>>

(* Where a signed-in user goes next.                                       *)
HomeIgnoringVerification(verified) == "Main"
HomeOf(verified) == IF verified THEN "Main" ELSE "Verify"

LoginDone(h) ==
  LET c == call[h] IN
  /\ c.pc = "loggedIn"
  /\ \/ ~MountedAfterAwait(c) /\ Return(h)
     \/ /\ MountedAfterAwait(c) /\ c.reply = "ok"
        /\ \/ session = Nobody /\ Throw(h)         \* currentUser!.emailVerified
           \/ session # Nobody /\ GoTo(h, HomeOf(cached))
     \/ MountedAfterAwait(c) /\ c.reply = "fail" /\ StopLoading(h)
  /\ UNCHANGED <<authVars, skip, faulted>>

(* "Resend email" calls the same handler and is never disabled.            *)
TapReset(h) == OnTop("Reset") /\ StartLoading(h, "reset", Nobody)

FirebaseReset(h) ==
  /\ call[h].pc = "reset"
  /\ \E reply \in {"ok", "fail"} : Answer(h, "resetDone", reply)
  /\ UNCHANGED <<stack, authVars, skip, ghostVars>>

ResetDone(h) ==
  LET c == call[h] IN
  /\ c.pc = "resetDone"
  /\ \/ ~MountedAfterAwait(c) /\ Return(h)
     \/ MountedAfterAwait(c) /\ StopLoading(h)
  /\ UNCHANGED <<authVars, skip, faulted>>

--------------------------------------------------------------------------------
(* SignInScreen: googleLogin.                                              *)

TapGoogle(h) ==
  OnTop("SignIn") /\ ~Top.loading /\ StartLoading(h, "google", Nobody)

(* A FirebaseAuthException is caught and returned; anything else, the      *)
(* user's cancelling included, leaves googleLogin as an exception.         *)
FirebaseGoogle(h) ==
  /\ call[h].pc = "google"
  /\ \/ \E a \in Users :
          /\ fb' = [fb EXCEPT ![a] = "verified"]
          /\ ChangeSession(h, a, TRUE)
          /\ call' = [call EXCEPT ![h].pc = "googled", ![h].reply = "ok", ![h].acct = a]
     \/ /\ \E reply \in {"fail", "threw"} : Answer(h, "googled", reply)
        /\ UNCHANGED <<fb, sessionVars>>
  /\ UNCHANGED <<stack, rows, skip, ghostVars>>

(* Neither branch has a mounted check before it acts, and the failure      *)
(* branch calls setState.                                                  *)
GoogleSigned(h) ==
  LET c == call[h] IN
  /\ c.pc = "googled"
  /\ \/ c.reply = "threw" /\ Throw(h) /\ UNCHANGED faulted
     \/ /\ c.reply = "ok"
        /\ faulted' = IF session = c.acct THEN faulted ELSE faulted \cup {c.acct}
        /\ \/ session = Nobody /\ Throw(h)         \* currentUser!
           \/ /\ session # Nobody
              /\ call' = [call EXCEPT ![h].pc = "gRegister", ![h].reply = "none",
                                      ![h].acct = session, ![h].uid = session,
                                      ![h].ver = cached]
              /\ UNCHANGED <<stack, lateUse>>
     \/ c.reply = "fail" /\ StopLoading(h) /\ UNCHANGED faulted
  /\ UNCHANGED <<authVars, skip>>

GoogleRegistered(h) ==
  LET c == call[h] IN
  /\ c.pc = "gRegistered"
  /\ \/ c.reply = "threw" /\ Throw(h)
     \/ c.reply # "threw" /\ ~MountedAfterAwait(c) /\ Return(h)
     \/ /\ c.reply \in {"registered", "exists"} /\ MountedAfterAwait(c)
        /\ stack' = Pushed(LoaderStopped(c),
                           IF c.reply = "exists" THEN "Main" ELSE "Interests")
        /\ Finish(h) /\ Uses(c)
     \/ c.reply = "error" /\ MountedAfterAwait(c) /\ StopLoading(h)
  /\ UNCHANGED <<authVars, skip, faulted>>

--------------------------------------------------------------------------------
(* EmailVerificationScreen: proceed, resend, back.  ShowAppDrawer: logout. *)

(* checkEmailVerified: currentUser?.reload() is of the user signed in now. *)
TapProceed(h) == OnTop("Verify") /\ StartPlain(h, "reload", session)

FirebaseReload(h) ==
  LET a == call[h].acct IN
  /\ call[h].pc = "reload"
  /\ \/ /\ cached' = IF a = session /\ a # Nobody THEN fb[a] = "verified" ELSE cached
        /\ Answer(h, "reloaded", "ok")
     \/ /\ a # Nobody
        /\ Answer(h, "reloaded", "threw")
        /\ UNCHANGED cached
  /\ UNCHANGED <<stack, fb, rows, session, crossed, skip, ghostVars>>

(* currentUser!.emailVerified, of the user signed in after the await.      *)
VerifiedUnchecked(c) == TRUE
VerifiedNow(c) == cached

CheckEmailVerified(h) ==
  LET c == call[h] IN
  /\ c.pc = "reloaded"
  /\ \/ c.reply = "threw" /\ Throw(h)
     \/ c.reply = "ok" /\ ~MountedAfterAwait(c) /\ Return(h)
     \/ /\ c.reply = "ok" /\ MountedAfterAwait(c)
        /\ \/ session = Nobody /\ Throw(h)
           \/ /\ session # Nobody /\ VerifiedNow(c)
              /\ ReplaceTop(h, "Interests", [Idle EXCEPT !.pc = "mark", !.uid = session])
           \/ session # Nobody /\ ~VerifiedNow(c) /\ Return(h)
  /\ UNCHANGED <<authVars, skip, faulted>>

(* updateUserVerification: the call may be lost, and nothing retries it.   *)
BackendMark(h) ==
  LET u == call[h].uid IN
  /\ call[h].pc = "mark"
  /\ \/ rows' = {IF r.uid = u THEN [r EXCEPT !.verified = TRUE] ELSE r : r \in rows}
     \/ UNCHANGED rows
  /\ Finish(h)
  /\ UNCHANGED <<stack, fb, sessionVars, skip, ghostVars>>

TapResend(h) ==
  OnTop("Verify") /\ session # Nobody /\ StartPlain(h, "resend", Nobody)

TapVerifyBack(h) == OnTop("Verify") /\ StartPlain(h, "signOut", Nobody)

(* The logout button of the sheet that the drawer or the account tab opens.*)
TapLogout(h) == OnTop("LogoutSheet") /\ StartPlain(h, "logout", Nobody)

FirebaseSignOut(h) ==
  /\ call[h].pc \in {"signOut", "logout"}
  /\ ChangeSession(h, Nobody, FALSE)
  /\ Answer(h, IF call[h].pc = "signOut" THEN "signedOut" ELSE "loggedOut", "ok")
  /\ UNCHANGED <<stack, fb, rows, skip, ghostVars>>

SignedOut(h) ==
  LET c == call[h] IN
  /\ c.pc = "signedOut"
  /\ \/ ~MountedAfterAwait(c) /\ Return(h)
     \/ MountedAfterAwait(c) /\ GoTo(h, "SignIn")
  /\ UNCHANGED <<authVars, skip, faulted>>

(* The mounted that the sheet's button reads is the drawer's or the tab's, *)
(* on the Main screen below; the context it navigates with is the sheet's. *)
LoggedOut(h) ==
  LET c == call[h] IN
  /\ c.pc = "loggedOut"
  /\ \/ c.life = "gone" /\ Return(h)
     \/ /\ c.life = "gone" /\ \E i \in DOMAIN stack : stack[i].page = "Main"
        /\ Finish(h) /\ Uses(c) /\ UNCHANGED stack
     \/ c.life # "gone" /\ GoTo(h, "SignIn")
  /\ UNCHANGED <<authVars, skip, faulted>>

--------------------------------------------------------------------------------
(* SelectIntrestScreen: choose, one call for each selected category.       *)

TapChoose(h) ==
  OnTop("Interests") /\ session # Nobody /\ StartPlain(h, "choose", Nobody)

BackendIntrest(h) ==
  /\ call[h].pc = "choose"
  /\ \E reply \in {"ok", "threw"} : Answer(h, "chosen", reply)
  /\ UNCHANGED <<stack, authVars, skip, ghostVars>>

(* pushReplacement is inside the loop: each answer that finds the screen   *)
(* mounted puts a new Main in the place of whatever is on top.             *)
IntrestAdded(h) ==
  LET c == call[h] IN
  /\ c.pc = "chosen"
  /\ \/ c.reply = "threw" /\ Throw(h)
     \/ c.reply = "ok" /\ ~MountedAfterAwait(c) /\ Return(h)
     \/ /\ c.reply = "ok" /\ MountedAfterAwait(c)
        /\ \/ GoTo(h, "Main")                        \* it was the last
           \/ /\ session # Nobody
              /\ ReplaceTop(h, "Main", [c EXCEPT !.pc = "choose", !.reply = "none"])
  /\ UNCHANGED <<authVars, skip, faulted>>

--------------------------------------------------------------------------------
(* The splash screen.                                                      *)

(* Three seconds after the launch it subscribes to authStateChanges, whose *)
(* first event is the current user.  The subscription is never cancelled;  *)
(* its later events find the screen unmounted and do nothing.              *)
SplashTarget ==
  IF session = Nobody THEN IF skip # "unset" THEN "Main" ELSE "Onboarding"
  ELSE HomeOf(cached)

SplashTimer ==
  /\ OnTop("Splash")
  /\ stack' = Replaced(stack, SplashTarget)
  /\ UNCHANGED <<authVars, call, skip, ghostVars>>

--------------------------------------------------------------------------------
(* Buttons that only navigate.                                             *)

(* <<from, to>>: Navigator.push.                                           *)
PushLinks == {<<"Onboarding", "SignIn">>, <<"SignIn", "Login">>, <<"SignIn", "SignUp">>,
              <<"SignUp", "Login">>, <<"Login", "SignUp">>, <<"Login", "Reset">>,
              <<"Interests", "Main">>}

Open(p) == MayOpen(p) /\ stack' = Pushed(stack, p)

OpenScreen ==
  /\ \E l \in PushLinks : OnTop(l[1]) /\ Open(l[2])
  /\ UNCHANGED <<authVars, call, skip, ghostVars>>

SkipOnboarding ==
  /\ OnTop("Onboarding")
  /\ stack' = Replaced(stack, "SignIn")
  /\ UNCHANGED <<authVars, call, skip, ghostVars>>

(* SignInScreen's skip: the preference is cached at once, on disk later.   *)
SkipLogin ==
  /\ OnTop("SignIn") /\ Open("Main")
  /\ skip' = IF skip = "disk" THEN skip ELSE "cache"
  /\ UNCHANGED <<authVars, call, ghostVars>>

PersistSkip ==
  /\ skip = "cache"
  /\ skip' = "disk"
  /\ UNCHANGED <<stack, authVars, call, ghostVars>>

(* The drawer and the account tab offer logout to a signed-in user, the    *)
(* login sheet and the sign-in screen to others.                           *)
OpenSheet ==
  /\ OnTop("Main")
  /\ IF session # Nobody THEN Open("LogoutSheet") ELSE Open("LoginSheet") \/ Open("SignIn")
  /\ UNCHANGED <<authVars, call, skip, ghostVars>>

(* The sheet's login button opens the sheet again, and SignIn above it.    *)
TapSheetLogin ==
  /\ OnTop("LoginSheet") /\ MayOpen("LoginSheet")
  /\ stack' = Pushed(Pushed(stack, "LoginSheet"), "SignIn")
  /\ UNCHANGED <<authVars, call, skip, ghostVars>>

SystemBack ==
  /\ Len(stack) > 1
  /\ stack' = Popped(stack)
  /\ call' = TopLeaves(call)
  /\ UNCHANGED <<authVars, skip, ghostVars>>

--------------------------------------------------------------------------------
(* The framework, the user's mail program and the operating system.        *)

(* The exit transition of the screen of h has ended.                       *)
Dispose(h) ==
  /\ call[h].life = "exiting"
  /\ call' = [call EXCEPT ![h].life = "gone"]
  /\ UNCHANGED <<stack, authVars, skip, ghostVars>>

FollowLink(a) ==
  /\ VerifyEmail(a)
  /\ UNCHANGED <<stack, cached, crossed, call, skip, ghostVars>>

(* The process dies and is started again: Firebase keeps the session, the  *)
(* disk keeps APP-LOGIN, everything else is gone.                          *)
Restart ==
  /\ Crashes
  /\ stack' = <<Fresh("Splash")>>
  /\ call' = [h \in Handlers |-> Idle]
  /\ skip' = IF skip = "cache" THEN "unset" ELSE skip
  /\ faulted' = faulted \cup ({call[h].acct : h \in Handlers} \ {Nobody})
  /\ UNCHANGED <<authVars, lateUse>>

--------------------------------------------------------------------------------

Service(h) ==
  \/ FirebaseCreate(h) \/ BackendRegister(h) \/ FirebaseMail(h) \/ FirebaseLogin(h)
  \/ FirebaseReset(h) \/ FirebaseGoogle(h) \/ FirebaseReload(h) \/ BackendMark(h)
  \/ FirebaseSignOut(h) \/ BackendIntrest(h)

Resume(h) ==
  \/ SignUpCreated(h) \/ SignUpRegistered(h) \/ SignUpMailed(h) \/ LoginDone(h)
  \/ ResetDone(h) \/ GoogleSigned(h) \/ GoogleRegistered(h) \/ CheckEmailVerified(h)
  \/ SignedOut(h) \/ LoggedOut(h) \/ IntrestAdded(h)

Tap(h) ==
  \/ \E a \in Users : TapCreateAccount(h, a) \/ TapLogin(h, a)
  \/ TapReset(h) \/ TapGoogle(h) \/ TapProceed(h) \/ TapResend(h)
  \/ TapVerifyBack(h) \/ TapLogout(h) \/ TapChoose(h)

Navigate ==
  OpenScreen \/ SkipOnboarding \/ SkipLogin \/ OpenSheet \/ TapSheetLogin \/ SystemBack

Next ==
  \/ \E h \in Handlers : Service(h) \/ Resume(h) \/ Tap(h) \/ Dispose(h)
  \/ \E a \in Users : FollowLink(a)
  \/ SplashTimer \/ Navigate \/ PersistSkip \/ Restart

Spec == Init /\ [][Next]_vars

(* The servers answer every call and the event loop resumes every handler; *)
(* the user, the links and crashes owe nothing.                            *)
Fairness == \A h \in Handlers : WF_vars(Service(h)) /\ WF_vars(Resume(h))

FairSpec == Spec /\ Fairness

--------------------------------------------------------------------------------

(* A handler whose screen is on the stack knows its position; one that     *)
(* talks to Firebase or the backend about an account names it.             *)
HandlersPlaced ==
  \A h \in Handlers : call[h].life = "shown" => call[h].scr \in 1 .. Len(stack)

Addressed(c) ==
  /\ \/ c.pc \in {"create", "created", "login", "register", "gRegister"}
     \/ c.pc = "googled" /\ c.reply = "ok"
     => c.acct \in Users
  /\ c.pc \in {"register", "gRegister", "mark"} => c.uid \in Users

HandlersAddressed == \A h \in Handlers : Addressed(call[h])

TypeOK ==
  /\ stack \in Seq(Screen) \ {<< >>}
  /\ AccountsTypeOK
  /\ cached \in BOOLEAN
  /\ call \in [Handlers -> Call]
  /\ HandlersPlaced
  /\ HandlersAddressed
  /\ skip \in {"unset", "cache", "disk"}
  /\ crossed \in BOOLEAN /\ faulted \subseteq Users
  /\ lateUse \subseteq Resuming

(* What the device believes about an address, and what a suspended handler *)
(* is about to tell the backend, was true when it was read and cannot have *)
(* become false: Firebase never takes a verification back, and every       *)
(* change of the session refreshes emailVerified                           *)
(* (neews_authentication_service.dart, email_verification_screen.dart:40). *)
Believed(c) ==
  /\ c.pc \in {"register", "gRegister"} =>
       fb[c.uid] # "none" /\ (c.ver => fb[c.uid] = "verified")
  /\ c.pc = "mark" => fb[c.uid] = "verified"

BeliefsTrue ==
  /\ session # Nobody => fb[session] # "none"
  /\ cached => session # Nobody /\ fb[session] = "verified"
  /\ \A h \in Handlers : Believed(call[h])

(* A backend row carries the e-mail of the account it is filed under,      *)
(* unless the session changed under a suspended handler: register() reads  *)
(* currentUser!.uid after the await but keeps the e-mail typed before it   *)
(* (sign_up_screen.dart:96-106).                                           *)
RowMatchesAccount == ~crossed => \A r \in rows : r.email = r.uid

(* An account Firebase knows and the backend does not is either on its way *)
(* there in a handler or was left behind by a failure the model names: a   *)
(* screen left during the call, an exception, a lost answer, a crash or a  *)
(* crossed session (sign_up_screen.dart:70-123, sign_in_screen.dart:29-63).*)
OnItsWay(a) ==
  \E h \in Handlers :
    LET c == call[h] IN
    /\ c.acct = a
    /\ \/ c.pc \in {"created", "googled"} /\ c.reply = "ok"
       \/ c.pc \in {"register", "gRegister"} /\ c.uid = a

NoSilentOrphan ==
  \A a \in Users : fb[a] # "none" /\ ~HasRow(a) /\ a \notin faulted => OnItsWay(a)

(* Two handlers touch a State or a context already disposed: googleLogin's *)
(* failure branch, which calls setState before its mounted check           *)
(* (sign_in_screen.dart:59), and logout, which checks another widget than  *)
(* the one whose context it uses (app_drawer.dart:297).  Every other       *)
(* resumption is guarded.                                                  *)
DisposedUseOnlyWhereUnguarded == lateUse \subseteq {"googled", "loggedOut"}

(* A screen that shows its loader has a handler in flight that will stop   *)
(* it, or lost that handler to an exception: no early return leaves a      *)
(* visible screen without its button (isLoading of the four auth screens). *)
SpinnerHasHandler ==
  \A i \in DOMAIN stack :
    stack[i].loading => \/ stack[i].threw
                        \/ \E h \in Handlers : call[h].life = "shown" /\ call[h].scr = i

(* Splash and login let an unverified address into the app in no order of  *)
(* events: where one of them goes on to Main, Firebase has verified the    *)
(* address of the user signed in now, or "skip" was pressed                *)
(* (splash_screen.dart:27, login_screen.dart:71).                          *)
LoginEnters(h) ==
  /\ call[h].pc = "loggedIn" /\ call[h].reply = "ok" /\ call[h].life # "gone"
  /\ session # Nobody /\ call'[h] = Idle

AdmitsVerifiedOnly ==
  [][ Top'.page = "Main" =>
      /\ OnTop("Splash") => IF session = Nobody THEN skip # "unset"
                            ELSE fb[session] = "verified"
      /\ \A h \in Handlers : LoginEnters(h) => fb[session] = "verified"
    ]_vars

(* A loader does not stay on a screen for good, except after an exception. *)
LoadingAt(i) == i \in DOMAIN stack /\ stack[i].loading /\ ~stack[i].threw

SpinnerEnds == \A i \in 1 .. MaxDepth : LoadingAt(i) ~> ~LoadingAt(i)

(* Every Firebase account comes to have a backend row, or was left behind  *)
(* by one of the failures that faulted names: register() is a handler's    *)
(* last chance, and nothing retries it (sign_up_screen.dart:96-123).       *)
RegistrationSettles ==
  \A a \in Users : fb[a] # "none" ~> HasRow(a) \/ a \in faulted

================================================================================
