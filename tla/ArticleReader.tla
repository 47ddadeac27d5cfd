----------------------------- MODULE ArticleReader -----------------------------
(***************************************************************************)
(* The article reader: ArticleScreens stacked on the Navigator, all of     *)
(* them showing the likes and saves of one global ArticleController, and   *)
(* the HTTP calls that fill it. A call that has been sent stays in flight  *)
(* for as long as it likes, is served at some moment in between, and is    *)
(* applied when its answer arrives, whatever is on the screen by then.     *)
(*                                                                         *)
(* An answer carries how often the reader's like and save had been toggled *)
(* when it was served; what is displayed is the parity (Mark). The counts  *)
(* themselves are read by no handler: they tell which answer is older.     *)
(***************************************************************************)
EXTENDS Naturals, Sequences, FiniteSets

CONSTANTS
  Articles,
  NoArticle,    \* what the controller's initial values are about
  Calls,        \* slots for the chains of calls in flight
  MaxScreens,   \* bound on the articles open at one time
  MaxTaps,      \* bound on taps of like and save
  MaxRebuilds,  \* bound on rebuilds of an open article
  Sessions,     \* whether the reader is signed in: {TRUE}, {FALSE} or both
  Outcomes      \* what may become of a call: "ok", "refused", "failed"

ASSUME ReaderAssumption ==
  /\ NoArticle \notin Articles
  /\ IsFiniteSet(Calls)
  /\ MaxScreens \in Nat /\ MaxTaps \in Nat /\ MaxRebuilds \in Nat
  /\ Sessions \subseteq BOOLEAN
  /\ Outcomes \subseteq {"ok", "refused", "failed"}

VARIABLES
  stack,        \* the open ArticleScreens, the visible one last
  call,         \* the chain of calls in each slot
  server,       \* how often the reader's like and save of each article were toggled
  signedIn,     \* FirebaseAuth.instance.currentUser != null
  shown,        \* ArticleController: the answers its isLiked and isSaved come from
  taps,         \* taps so far
  rebuilds      \* rebuilds so far

vars == <<stack, call, server, signedIn, shown, taps, rebuilds>>

-----------------------------------------------------------------------------
(* Screens, calls and answers.                                             *)

\* view is what the FutureBuilder shows; article, the late field, is set or not;
\* upset is history: one of the races that the code does not handle has hit the screen.
Screen == [article : Articles, view : {"waiting", "body", "error", "broken"},
           set : BOOLEAN, upset : BOOLEAN]

\* A chain is a getArticle() of initState ("init") or of the FutureBuilder
\* ("build"), the details asked for by a push message ("push"), or a tap. at is
\* the screen it belongs to (0: none), by whether its request names a user.
Answer == [of : Articles \cup {NoArticle}, by : BOOLEAN, likes : 0..MaxTaps, saves : 0..MaxTaps]
NoAnswer == [of |-> NoArticle, by |-> FALSE, likes |-> 0, saves |-> 0]

Call == [kind : {"none", "init", "build", "push", "like", "save"},
         step : {"article", "details", "toggle", "refetch"},
         article : Articles \cup {NoArticle}, at : 0..MaxScreens, by : BOOLEAN,
         got : {"nothing", "ok", "refused", "failed"}, answer : Answer]

Idle == [kind |-> "none", step |-> "article", article |-> NoArticle, at |-> 0,
         by |-> FALSE, got |-> "nothing", answer |-> NoAnswer]

Sent(kind, step, a, i) == [Idle EXCEPT !.kind = kind, !.step = step, !.article = a,
                                       !.at = i, !.by = signedIn]

\* The chain's next request, which reads the session again.
Then(c, step) == [call[c] EXCEPT !.step = step, !.by = signedIn, !.got = "nothing",
                                 !.answer = NoAnswer]

FreeCalls == {c \in Calls : call[c].kind = "none"}

\* is_liked and is_saved: the request without a user gets 0.
Mark(by, n) == IF by THEN n % 2 ELSE 0

IsLiked == Mark(shown.like.by, shown.like.likes)
IsSaved == Mark(shown.save.by, shown.save.saves)

Top == stack[Len(stack)]

-----------------------------------------------------------------------------
Init ==
  /\ stack = <<>>
  /\ call = [c \in Calls |-> Idle]
  /\ server = [a \in Articles |-> [likes |-> 0, saves |-> 0]]
  /\ signedIn \in Sessions
  /\ shown = [like |-> NoAnswer, save |-> NoAnswer]
  /\ taps = 0
  /\ rebuilds = 0

\* A card, a notification or a link pushes an article. initState and the first
\* build each start a getArticle(). The article underneath is not told.
OpenArticle(a) ==
  /\ Len(stack) < MaxScreens
  /\ \E c, d \in FreeCalls :
       /\ c # d
       /\ call' = [call EXCEPT ![c] = Sent("init", "article", a, Len(stack) + 1),
                               ![d] = Sent("build", "article", a, Len(stack) + 1)]
  /\ stack' = Append([i \in DOMAIN stack |-> [stack[i] EXCEPT !.upset = TRUE]],
                     [article |-> a, view |-> "waiting", set |-> FALSE, upset |-> FALSE])
  /\ UNCHANGED <<server, signedIn, shown, taps, rebuilds>>

\* The visible article is built again: a new getArticle(), and the FutureBuilder
\* stops listening to the one before.
Rebuild ==
  /\ stack # <<>>
  /\ rebuilds < MaxRebuilds
  /\ \E c \in FreeCalls :
       call' = [d \in Calls |->
                  IF d = c THEN Sent("build", "article", Top.article, Len(stack))
                  ELSE IF call[d].kind = "build" /\ call[d].at = Len(stack)
                    THEN [call[d] EXCEPT !.kind = "init"]
                  ELSE call[d]]
  /\ stack' = [stack EXCEPT ![Len(stack)].view = "waiting"]
  /\ rebuilds' = rebuilds + 1
  /\ UNCHANGED <<server, signedIn, shown, taps>>

\* Chains that keep writing to the screen in their closure, by then another one's.
DetachedNever(k, i) == k

\* A chain whose screen is gone runs on, with nothing of the screen to write to.
Detached(k, i) == IF k.at = i THEN [k EXCEPT !.at = 0] ELSE k

\* Navigator.pop.
CloseArticle ==
  /\ stack # <<>>
  /\ call' = [c \in Calls |-> Detached(call[c], Len(stack))]
  /\ stack' = SubSeq(stack, 1, Len(stack) - 1)
  /\ UNCHANGED <<server, signedIn, shown, taps, rebuilds>>

\* A tap on like or save. Signed out, it opens the login sheet instead.
Tap(kind) ==
  /\ kind \in {"like", "save"}
  /\ stack # <<>>
  /\ Top.view = "body"
  /\ signedIn
  /\ taps < MaxTaps
  /\ \E c \in FreeCalls : call' = [call EXCEPT ![c] = Sent(kind, "toggle", Top.article, 0)]
  /\ taps' = taps + 1
  /\ UNCHANGED <<stack, server, signedIn, shown, rebuilds>>

\* A push message in the foreground. showFlutterNotification starts the request
\* and casts its Future to an Article, which throws: no article opens, and the
\* request goes on.
PushMessage(a) ==
  /\ \E c \in FreeCalls : call' = [call EXCEPT ![c] = Sent("push", "details", a, 0)]
  /\ UNCHANGED <<stack, server, signedIn, shown, taps, rebuilds>>

\* The reader signs in or out on another screen; nothing here is fetched again.
SessionChanges ==
  /\ (~signedIn) \in Sessions
  /\ signedIn' = ~signedIn
  /\ stack' = [i \in DOMAIN stack |-> [stack[i] EXCEPT !.upset = TRUE]]
  /\ UNCHANGED <<call, server, shown, taps, rebuilds>>

-----------------------------------------------------------------------------
(* The backend.                                                            *)

Answered(c, got) ==
  LET k == call[c] IN
  call' = [call EXCEPT
             ![c].got = got,
             ![c].answer = IF got # "ok" \/ k.step = "toggle" THEN NoAnswer
                           ELSE [of |-> k.article, by |-> k.by,
                                 likes |-> server[k.article].likes,
                                 saves |-> server[k.article].saves]]

Waiting(c) == call[c].kind # "none" /\ call[c].got = "nothing"

\* getArticle.php, for the likes and saves.
ServeFetch(c) ==
  /\ Waiting(c)
  /\ call[c].step \in {"details", "refetch"}
  /\ \E got \in Outcomes : Answered(c, got)
  /\ UNCHANGED <<stack, server, signedIn, shown, taps, rebuilds>>

\* updateLike.php and updateSave.php. The answer may be lost after the toggle.
ServeToggle(c) ==
  /\ Waiting(c)
  /\ call[c].step = "toggle"
  /\ LET a == call[c].article
         toggled == IF call[c].kind = "like" THEN [server EXCEPT ![a].likes = @ + 1]
                                             ELSE [server EXCEPT ![a].saves = @ + 1]
     IN  \/ server' = toggled /\ \E got \in Outcomes \cap {"ok", "failed"} : Answered(c, got)
         \/ server' = server  /\ \E got \in Outcomes \cap {"refused", "failed"} : Answered(c, got)
  /\ UNCHANGED <<stack, signedIn, shown, taps, rebuilds>>

-----------------------------------------------------------------------------
(* The answer arrives.                                                     *)

Arrived(c, step, results) ==
  /\ call[c].kind # "none"
  /\ call[c].step = step
  /\ call[c].got \in results

\* The article itself does not change, so when its request was served does not matter.
ArticleArrives(c, result) ==
  /\ Arrived(c, "article", {"nothing"})
  /\ result \in Outcomes

\* The screens, when the answer of chain k is applied: the visible one is upset by
\* another article's answer, another user's, or one older than what is shown.
Upset(scr, k) ==
  LET ans == k.answer
      Older == \/ k.kind # "save" /\ ans.of = shown.like.of /\ ans.likes < shown.like.likes
               \/ k.kind # "like" /\ ans.of = shown.save.of /\ ans.saves < shown.save.saves
  IN  [i \in DOMAIN scr |->
         [scr[i] EXCEPT !.upset = @ \/ Older \/ ans.of # scr[i].article \/ ans.by # signedIn]]

\* The screens of an article one of whose calls did not succeed.
Missed(scr, k) == [i \in DOMAIN scr |-> [scr[i] EXCEPT !.upset = @ \/ k.article = scr[i].article]]

\* A FutureBuilder that shows nothing when its future fails.
WithViewUnlessError(scr, k, view) ==
  IF k.kind = "build" /\ k.at # 0 /\ view # "error" THEN [scr EXCEPT ![k.at].view = view] ELSE scr

\* The FutureBuilder of the screen that chain k belongs to, when k completes.
WithView(scr, k, view) ==
  IF k.kind = "build" /\ k.at # 0 THEN [scr EXCEPT ![k.at].view = view] ELSE scr

\* getArticle after its first await: article and category are set, the details asked for.
ArticleFetched(c) ==
  /\ ArticleArrives(c, "ok")
  /\ stack' = IF call[c].at = 0 THEN stack ELSE [stack EXCEPT ![call[c].at].set = TRUE]
  /\ call' = [call EXCEPT ![c] = Then(c, "details")]
  /\ UNCHANGED <<server, signedIn, shown, taps, rebuilds>>

\* status_code is not 0: getArticle completes, and the body reads the late field.
ArticleRefused(c) ==
  LET k == call[c] IN
  /\ ArticleArrives(c, "refused")
  /\ stack' = Missed(WithView(stack, k, IF k.at # 0 /\ stack[k.at].set THEN "body" ELSE "broken"), k)
  /\ call' = [call EXCEPT ![c] = Idle]
  /\ UNCHANGED <<server, signedIn, shown, taps, rebuilds>>

\* getArticle or getArticleDetails throws.
FetchFailed(c) ==
  /\ ArticleArrives(c, "failed") \/ Arrived(c, "details", {"failed"})
  /\ stack' = Missed(WithView(stack, call[c], "error"), call[c])
  /\ call' = [call EXCEPT ![c] = Idle]
  /\ UNCHANGED <<server, signedIn, shown, taps, rebuilds>>

\* getArticleDetails: everything in the controller comes from the answer.
DetailsFetched(c) ==
  /\ Arrived(c, "details", {"ok", "refused"})
  /\ IF call[c].got = "ok"
       THEN /\ shown' = [like |-> call[c].answer, save |-> call[c].answer]
            /\ stack' = WithView(Upset(stack, call[c]), call[c], "body")
       ELSE /\ UNCHANGED shown
            /\ stack' = Missed(WithView(stack, call[c], "body"), call[c])
  /\ call' = [call EXCEPT ![c] = Idle]
  /\ UNCHANGED <<server, signedIn, taps, rebuilds>>

\* A tap that leaves the controller as it is.
AfterToggleNothing(c) == Idle

\* updateLikes and updateSaves fetch the article again.
AfterToggle(c) == Then(c, "refetch")

Toggled(c) ==
  /\ Arrived(c, "toggle", {"ok"})
  /\ call' = [call EXCEPT ![c] = AfterToggle(c)]
  /\ UNCHANGED <<stack, server, signedIn, shown, taps, rebuilds>>

\* updateLikes writes totalLikes and isLiked, updateSaves isSaved.
Refetched(c) ==
  LET k == call[c] IN
  /\ Arrived(c, "refetch", {"ok"})
  /\ shown' = IF k.kind = "like" THEN [shown EXCEPT !.like = k.answer]
                                 ELSE [shown EXCEPT !.save = k.answer]
  /\ stack' = Upset(stack, k)
  /\ call' = [call EXCEPT ![c] = Idle]
  /\ UNCHANGED <<server, signedIn, taps, rebuilds>>

\* A tap's call is refused or throws: nothing more happens.
TapFailed(c) ==
  /\ Arrived(c, "toggle", {"refused", "failed"}) \/ Arrived(c, "refetch", {"refused", "failed"})
  /\ stack' = Missed(stack, call[c])
  /\ call' = [call EXCEPT ![c] = Idle]
  /\ UNCHANGED <<server, signedIn, shown, taps, rebuilds>>

-----------------------------------------------------------------------------
Service(c) == ServeFetch(c) \/ ServeToggle(c)

Resume(c) == \/ ArticleFetched(c) \/ ArticleRefused(c) \/ FetchFailed(c) \/ DetailsFetched(c)
             \/ Toggled(c) \/ Refetched(c) \/ TapFailed(c)

Next == \/ \E a \in Articles : OpenArticle(a) \/ PushMessage(a)
        \/ \E kind \in {"like", "save"} : Tap(kind)
        \/ Rebuild
        \/ CloseArticle
        \/ SessionChanges
        \/ \E c \in Calls : Service(c) \/ Resume(c)

Spec == Init /\ [][Next]_vars

\* Every request is answered or times out, and the event loop resumes its chain.
Fairness == \A c \in Calls : WF_vars(Service(c)) /\ WF_vars(Resume(c))

FairSpec == Spec /\ Fairness
-----------------------------------------------------------------------------
\* Every variable is of its type; a chain belongs to a screen that is open and
\* shows its article, and only one of them is listened to.
TypeOK ==
  /\ stack \in Seq(Screen) /\ Len(stack) <= MaxScreens
  /\ call \in [Calls -> Call]
  /\ server \in [Articles -> [likes : 0..MaxTaps, saves : 0..MaxTaps]]
  /\ signedIn \in BOOLEAN
  /\ shown \in [like : Answer, save : Answer]
  /\ taps \in 0..MaxTaps /\ rebuilds \in 0..MaxRebuilds
  /\ \A c \in Calls : call[c].at # 0 =>
       call[c].at <= Len(stack) /\ stack[call[c].at].article = call[c].article
  /\ \A c, d \in Calls :
       call[c].kind = "build" /\ call[d].kind = "build" /\ call[c].at = call[d].at /\ call[c].at # 0
       => c = d

\* When every call has been answered, the visible article shows the like and the
\* save that the backend holds, unless one of the races it does not handle came
\* in between: another article opened over it or filled the controller, an older answer came
\* last, the session changed, or a call for it failed.
SettledShowsServer ==
  /\ \A c \in Calls : call[c].kind = "none"
  /\ stack # <<>>
  /\ ~Top.upset
  => /\ shown.like.of = Top.article /\ shown.save.of = Top.article
     /\ IsLiked = Mark(signedIn, server[Top.article].likes)
     /\ IsSaved = Mark(signedIn, server[Top.article].saves)

\* An open article does not show its shimmer for ever: the body or an error follows.
ArticleAppears ==
  \A i \in 1..MaxScreens :
    (i <= Len(stack) /\ stack[i].view = "waiting")
      ~> (i > Len(stack) \/ stack[i].view # "waiting")
=============================================================================
