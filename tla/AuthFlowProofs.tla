---------------------------- MODULE AuthFlowProofs -----------------------------
(***************************************************************************)
(* AuthFlow: every reachable state is well typed, what the device believes *)
(* about a verification is true, and the flow implements Accounts, so that *)
(* the backend agrees with Firebase for every number of users, handlers    *)
(* and screens.  Then, each from an invariant of its own over these: rows  *)
(* match their accounts, no account is silently left without one, only two *)
(* resumptions use what is disposed, loaders have handlers, and only       *)
(* verified addresses are admitted.                                        *)
(***************************************************************************)
EXTENDS AuthFlow, SequenceTheorems, TLAPS

-----------------------------------------------------------------------------
(* What the operations of the Navigator return.                            *)

Stacks == Seq(Screen) \ {<< >>}

(* A stack has a top, and every position of it holds a screen.             *)
LEMMA StackShape ==
  ASSUME NEW st \in Stacks
  PROVE  /\ Len(st) \in Nat \ {0}
         /\ Len(st) \in 1 .. Len(st)
         /\ DOMAIN st = 1 .. Len(st)
         /\ \A i \in 1 .. Len(st) : st[i] \in Screen
<1>1. Len(st) \in Nat /\ DOMAIN st = 1 .. Len(st)
  BY LenProperties DEF Stacks
<1>2. Len(st) # 0
  BY EmptySeq DEF Stacks
<1>3. \A i \in 1 .. Len(st) : st[i] \in Screen
  BY ElementOfSeq DEF Stacks
<1> QED
  BY <1>1, <1>2, <1>3

(* A screen that has just been opened is a screen without a loader.        *)
LEMMA FreshScreen ==
  ASSUME NEW p \in Pages
  PROVE  Fresh(p) \in Screen /\ ~Fresh(p).loading /\ Fresh(p).page = p
BY DEF Fresh, Screen

(* Navigator.push adds one screen on top and leaves the others alone.      *)
LEMMA PushedShape ==
  ASSUME NEW st \in Stacks, NEW p \in Pages
  PROVE  /\ Pushed(st, p) \in Stacks
         /\ Len(Pushed(st, p)) = Len(st) + 1
         /\ \A i \in 1 .. Len(st) : Pushed(st, p)[i] = st[i]
         /\ Pushed(st, p)[Len(st) + 1] = Fresh(p)
<1>1. Fresh(p) \in Screen
  BY FreshScreen
<1> QED
  BY <1>1, AppendProperties DEF Pushed, Stacks

(* pushReplacement changes the top position only.                          *)
LEMMA ReplacedShape ==
  ASSUME NEW st \in Stacks, NEW p \in Pages
  PROVE  /\ Replaced(st, p) \in Stacks
         /\ Len(Replaced(st, p)) = Len(st)
         /\ \A i \in 1 .. Len(st) :
              Replaced(st, p)[i] = IF i = Len(st) THEN Fresh(p) ELSE st[i]
<1>1. Fresh(p) \in Screen /\ Len(st) \in 1 .. Len(st) /\ Len(st) # 0
  BY FreshScreen, StackShape
<1>2. /\ Replaced(st, p) \in Seq(Screen)
      /\ Len(Replaced(st, p)) = Len(st)
      /\ \A i \in 1 .. Len(st) :
           Replaced(st, p)[i] = IF i = Len(st) THEN Fresh(p) ELSE st[i]
  BY <1>1, ExceptSeq DEF Replaced, Stacks
<1> QED
  BY <1>1, <1>2, EmptySeq DEF Stacks

(* A pop takes the top screen away, and only that one.                     *)
LEMMA PoppedShape ==
  ASSUME NEW st \in Stacks, Len(st) > 1
  PROVE  /\ Popped(st) \in Stacks
         /\ Len(Popped(st)) = Len(st) - 1
         /\ \A i \in 1 .. Len(st) - 1 : Popped(st)[i] = st[i]
<1>1. Len(st) \in Nat \ {0} /\ \A i \in 1 .. Len(st) : st[i] \in Screen
  BY StackShape
<1>2. /\ Popped(st) \in Seq(Screen)
      /\ Len(Popped(st)) = Len(st) - 1
      /\ \A i \in 1 .. Len(st) - 1 : Popped(st)[i] = st[i]
  BY <1>1, SubSeqProperties DEF Popped
<1> QED
  BY <1>1, <1>2, EmptySeq DEF Stacks

(* setState of isLoading changes one field of one screen.                  *)
LEMMA WithLoadingShape ==
  ASSUME NEW st \in Stacks, NEW i \in 1 .. Len(st), NEW v \in BOOLEAN
  PROVE  /\ WithLoading(st, i, v) \in Stacks
         /\ Len(WithLoading(st, i, v)) = Len(st)
         /\ \A j \in 1 .. Len(st) :
              /\ WithLoading(st, i, v)[j].page = st[j].page
              /\ WithLoading(st, i, v)[j].threw = st[j].threw
              /\ WithLoading(st, i, v)[j].loading = IF j = i THEN v ELSE st[j].loading
<1> DEFINE e == [st[i] EXCEPT !.loading = v]
<1>1. st[i] \in Screen /\ Len(st) # 0
  BY StackShape
<1>2. e \in Screen /\ e.page = st[i].page /\ e.threw = st[i].threw /\ e.loading = v
  BY <1>1 DEF Screen
<1>3. WithLoading(st, i, v) = [st EXCEPT ![i] = e]
  BY DEF WithLoading
<1> HIDE DEF e
<1>4. /\ WithLoading(st, i, v) \in Seq(Screen)
      /\ Len(WithLoading(st, i, v)) = Len(st)
      /\ \A j \in 1 .. Len(st) :
           WithLoading(st, i, v)[j] = IF j = i THEN e ELSE st[j]
  BY <1>2, <1>3, ExceptSeq DEF Stacks
<1> QED
  BY <1>1, <1>2, <1>4, EmptySeq DEF Stacks

-----------------------------------------------------------------------------
(* The account system promises that the backend agrees with Firebase.      *)

(* Every reachable state is well typed and the backend's rows are backed by*)
(* Firebase accounts: what the abstract account system, and with it every  *)
(* implementation, promises.                                               *)
THEOREM AccountsBacked == AccountsSpec => [](AccountsTypeOK /\ RowsBacked)
<1> DEFINE Inv == AccountsTypeOK /\ RowsBacked
<1>1. AccountsInit => Inv
  BY DEF AccountsInit, AccountsTypeOK, FbState, RowsBacked
<1>2. Inv /\ [AccountsNext]_accountVars => Inv'
  <2> SUFFICES ASSUME Inv, [AccountsNext]_accountVars
               PROVE  Inv'
    OBVIOUS
  <2> USE DEF AccountsTypeOK, RowsBacked, FbState
  <2>1. ASSUME NEW a \in Users, CreateAccount(a) PROVE Inv'
    BY <2>1 DEF CreateAccount
  <2>2. ASSUME NEW a \in Users, VerifyEmail(a) PROVE Inv'
    BY <2>2 DEF VerifyEmail, Row
  <2>3. ASSUME NEW a \in Users, GoogleSignIn(a) PROVE Inv'
    BY <2>3 DEF GoogleSignIn, Row
  <2>4. ASSUME NEW a \in Users, SignIn(a) PROVE Inv'
    BY <2>4 DEF SignIn
  <2>5. ASSUME NEW a \in Users, MarkVerified(a) PROVE Inv'
    <3> DEFINE Marked(r) == IF r.uid = a THEN [r EXCEPT !.verified = TRUE] ELSE r
    <3>1. \A r \in Row : Marked(r) \in Row /\ Marked(r).uid = r.uid
      BY DEF Row
    <3>2. rows' = {Marked(r) : r \in rows}
      BY <2>5 DEF MarkVerified
    <3>3. \A r \in rows : Marked(r).verified => fb[r.uid] = "verified"
      BY <2>5 DEF MarkVerified
    <3> HIDE DEF Marked
    <3>4. rows' \subseteq Row
      BY <3>1, <3>2
    <3>5. \A q \in rows' : \E r \in rows : q = Marked(r) /\ q.uid = r.uid
      BY <3>1, <3>2
    <3> QED
      BY <2>5, <3>3, <3>4, <3>5 DEF MarkVerified
  <2>6. ASSUME SignOut PROVE Inv'
    BY <2>6 DEF SignOut
  <2>7. ASSUME NEW r \in Row, AddRow(r) PROVE Inv'
    BY <2>7 DEF AddRow, HasRow
  <2>8. ASSUME UNCHANGED accountVars PROVE Inv'
    BY <2>8 DEF accountVars
  <2> QED
    BY <2>1, <2>2, <2>3, <2>4, <2>5, <2>6, <2>7, <2>8 DEF AccountsNext
<1> QED
  BY <1>1, <1>2, PTL DEF AccountsSpec

-----------------------------------------------------------------------------
(* The screens and handlers.                                               *)

PCs == Waiting \cup Resuming \cup {"idle"}

(* The handlers cs are typed, and those whose screen is up point at it.    *)
Placed(st, cs) ==
  /\ cs \in [Handlers -> Call]
  /\ \A h \in Handlers : cs[h].life = "shown" => cs[h].scr \in 1 .. Len(st)

(* c is a handler in the middle of the same errand as d, whatever became   *)
(* of its screen; a step of h disturbs the errand of no other handler.     *)
SameErrand(c, d) ==
  /\ c.pc = d.pc /\ c.reply = d.reply
  /\ c.acct = d.acct /\ c.uid = d.uid /\ c.ver = d.ver

SparesOthers(h) == \A g \in Handlers \ {h} : SameErrand(call'[g], call[g])

(* The three parts of TypeOK: what the screens' code moves, what a handler *)
(* knows, and what the services and the preferences hold.                  *)
FlowOK == stack \in Stacks /\ Placed(stack, call) /\ lateUse \subseteq Resuming

DataOK ==
  /\ AccountsTypeOK
  /\ cached \in BOOLEAN
  /\ skip \in {"unset", "cache", "disk"}
  /\ crossed \in BOOLEAN /\ faulted \subseteq Users

LEMMA TypeParts == TypeOK <=> FlowOK /\ HandlersAddressed /\ DataOK
BY DEF TypeOK, FlowOK, DataOK, Placed, Stacks, HandlersPlaced

--------------------------------------------------------------------------------
(* What the building blocks of the handlers keep.                          *)

LEMMA IdleCall == Idle \in Call /\ Idle.life = "none" /\ Idle.pc = "idle"
BY DEF Idle, Call, Waiting, Resuming, Replies

(* A handler replaced by c, on the same stack.                             *)
LEMMA CallUpdated ==
  ASSUME FlowOK, NEW h \in Handlers, NEW c \in Call,
         c.life = "shown" => c.scr \in 1 .. Len(stack)
  PROVE  Placed(stack, [call EXCEPT ![h] = c])
BY DEF FlowOK, Placed

LEMMA FinishKeeps ==
  ASSUME FlowOK, NEW h \in Handlers, Finish(h)
  PROVE  Placed(stack, call') /\ SparesOthers(h) /\ call'[h].pc = "idle"
<1>1. Placed(stack, call')
  BY IdleCall, CallUpdated DEF Finish
<1> QED
  BY <1>1, IdleCall DEF Finish, SparesOthers, SameErrand, FlowOK, Placed

LEMMA AnswerKeeps ==
  ASSUME FlowOK, NEW h \in Handlers, NEW pc \in PCs, NEW reply \in Replies,
         Answer(h, pc, reply)
  PROVE  /\ Placed(stack, call') /\ SparesOthers(h)
         /\ call'[h].pc = pc /\ call'[h].reply = reply
         /\ call'[h].acct = call[h].acct /\ call'[h].uid = call[h].uid
         /\ call'[h].ver = call[h].ver
<1> DEFINE c == [call[h] EXCEPT !.pc = pc, !.reply = reply]
<1>1. call[h] \in Call /\ (call[h].life = "shown" => call[h].scr \in 1 .. Len(stack))
  BY DEF FlowOK, Placed
<1>2. /\ c \in Call /\ c.life = call[h].life /\ c.scr = call[h].scr
      /\ c.pc = pc /\ c.reply = reply /\ c.acct = call[h].acct
      /\ c.uid = call[h].uid /\ c.ver = call[h].ver
  BY <1>1 DEF Call, PCs
<1>3. call' = [call EXCEPT ![h] = c]
  BY DEF Answer
<1> HIDE DEF c
<1>4. Placed(stack, call')
  BY <1>1, <1>2, <1>3, CallUpdated
<1>5. call \in [Handlers -> Call]
  BY DEF FlowOK, Placed
<1> QED
  BY <1>2, <1>3, <1>4, <1>5 DEF SparesOthers, SameErrand

(* LoaderStopped leaves a stack of the same height.                        *)
LEMMA LoaderStoppedShape ==
  ASSUME FlowOK, NEW h \in Handlers
  PROVE  /\ LoaderStopped(call[h]) \in Stacks
         /\ Len(LoaderStopped(call[h])) = Len(stack)
<1>1. CASE call[h].life = "shown"
  <2>1. call[h].scr \in 1 .. Len(stack)
    BY <1>1 DEF FlowOK, Placed
  <2> QED
    BY <1>1, <2>1, WithLoadingShape DEF LoaderStopped, FlowOK
<1>2. CASE call[h].life # "shown"
  BY <1>2 DEF LoaderStopped, FlowOK
<1> QED
  BY <1>1, <1>2

(* Once the top screen leaves, no handler points at it.                    *)
LEMMA TopLeavesKeeps ==
  ASSUME FlowOK, NEW cs, Placed(stack, cs)
  PROVE  /\ TopLeaves(cs) \in [Handlers -> Call]
         /\ \A g \in Handlers : /\ SameErrand(TopLeaves(cs)[g], cs[g])
                                /\ TopLeaves(cs)[g].life = "shown" =>
                                     TopLeaves(cs)[g].scr \in 1 .. Len(stack) - 1
<1>1. Len(stack) \in Nat \ {0}
  BY StackShape DEF FlowOK
<1>2. ASSUME NEW g \in Handlers
      PROVE  /\ [cs[g] EXCEPT !.scr = 0, !.life = "exiting"] \in Call
             /\ [cs[g] EXCEPT !.scr = 0, !.life = "exiting"].life = "exiting"
             /\ SameErrand([cs[g] EXCEPT !.scr = 0, !.life = "exiting"], cs[g])
             /\ cs[g] \in Call
             /\ cs[g].life = "shown" => cs[g].scr \in 1 .. Len(stack)
  BY DEF Placed, Call, SameErrand
<1>3. ASSUME NEW g \in Handlers
      PROVE  /\ TopLeaves(cs)[g] \in Call
             /\ SameErrand(TopLeaves(cs)[g], cs[g])
             /\ TopLeaves(cs)[g].life = "shown" =>
                  TopLeaves(cs)[g].scr \in 1 .. Len(stack) - 1
  <2>1. CASE cs[g].life = "shown" /\ cs[g].scr = Len(stack)
    <3>1. TopLeaves(cs)[g] = [cs[g] EXCEPT !.scr = 0, !.life = "exiting"]
      BY <2>1 DEF TopLeaves
    <3> QED
      BY <1>2, <3>1
  <2>2. CASE ~(cs[g].life = "shown" /\ cs[g].scr = Len(stack))
    <3>1. TopLeaves(cs)[g] = cs[g]
      BY <2>2 DEF TopLeaves
    <3>2. \A n \in Nat \ {0} : \A i \in 1 .. n : i # n => i \in 1 .. n - 1
      OBVIOUS
    <3>3. cs[g].life = "shown" => cs[g].scr \in 1 .. Len(stack) - 1
      BY <1>1, <1>2, <2>2, <3>2
    <3> QED
      BY <1>2, <3>1, <3>3 DEF SameErrand
  <2> QED
    BY <2>1, <2>2
<1>4. TopLeaves(cs) = [g \in Handlers |-> TopLeaves(cs)[g]]
  BY DEF TopLeaves
<1> QED
  BY <1>3, <1>4

LEMMA ReturnKeeps ==
  ASSUME FlowOK, NEW h \in Handlers, Return(h)
  PROVE  FlowOK' /\ SparesOthers(h) /\ call'[h].pc = "idle"
BY FinishKeeps DEF Return, FlowOK, Placed

LEMMA ThrowKeeps ==
  ASSUME FlowOK, NEW h \in Handlers, Throw(h)
  PROVE  FlowOK' /\ SparesOthers(h) /\ call'[h].pc = "idle"
<1>1. stack' \in Stacks /\ Len(stack') = Len(stack)
  <2>1. CASE call[h].life = "shown"
    <3> DEFINE i == call[h].scr
               e == [stack[i] EXCEPT !.threw = TRUE]
    <3>1. i \in 1 .. Len(stack) /\ stack \in Stacks
      BY <2>1 DEF FlowOK, Placed
    <3>2. e \in Screen
      <4>1. stack[i] \in Screen
        BY <3>1, StackShape
      <4> QED
        BY <4>1 DEF Screen
    <3>3. stack' = [stack EXCEPT ![i] = e]
      BY <2>1 DEF Throw
    <3> HIDE DEF i, e
    <3>4. stack' \in Seq(Screen) /\ Len(stack') = Len(stack)
      BY <3>1, <3>2, <3>3, ExceptSeq DEF Stacks
    <3> QED
      BY <3>1, <3>4, StackShape, EmptySeq DEF Stacks
  <2>2. CASE call[h].life # "shown"
    BY <2>2 DEF Throw, FlowOK
  <2> QED
    BY <2>1, <2>2
<1>2. Placed(stack, call') /\ SparesOthers(h) /\ call'[h].pc = "idle"
  BY FinishKeeps DEF Throw
<1> QED
  BY <1>1, <1>2 DEF FlowOK, Placed, Throw

LEMMA StopLoadingKeeps ==
  ASSUME FlowOK, NEW h \in Handlers, call[h].pc \in Resuming, StopLoading(h)
  PROVE  FlowOK' /\ SparesOthers(h) /\ call'[h].pc = "idle"
<1>1. stack' \in Stacks /\ Len(stack') = Len(stack)
  BY LoaderStoppedShape DEF StopLoading
<1>2. Placed(stack, call') /\ SparesOthers(h) /\ call'[h].pc = "idle"
  BY FinishKeeps DEF StopLoading
<1> QED
  BY <1>1, <1>2 DEF FlowOK, Placed, StopLoading, Uses

LEMMA ReplaceTopKeeps ==
  ASSUME FlowOK, NEW h \in Handlers, call[h].pc \in Resuming, NEW p \in Pages,
         NEW c \in Call, c.life = "shown" => c.scr \in 1 .. Len(stack),
         ReplaceTop(h, p, c)
  PROVE  FlowOK' /\ SparesOthers(h) /\ SameErrand(call'[h], c)
<1>1. stack' \in Stacks /\ Len(stack') = Len(stack) /\ Len(stack) \in Nat
  BY LoaderStoppedShape, ReplacedShape, StackShape DEF ReplaceTop, FlowOK
<1>2. Placed(stack, [call EXCEPT ![h] = c])
  BY CallUpdated
<1>3. call' = TopLeaves([call EXCEPT ![h] = c])
  BY DEF ReplaceTop
<1> DEFINE cs == [call EXCEPT ![h] = c]
<1>4. /\ TopLeaves(cs) \in [Handlers -> Call]
      /\ \A g \in Handlers : TopLeaves(cs)[g].life = "shown" =>
                              TopLeaves(cs)[g].scr \in 1 .. Len(stack) - 1
      /\ \A g \in Handlers : SameErrand(TopLeaves(cs)[g], cs[g])
  BY <1>2, TopLeavesKeeps
<1> HIDE DEF cs
<1>5. \A n \in Nat : \A i \in 1 .. n - 1 : i \in 1 .. n
  OBVIOUS
<1>6. Placed(stack', call')
  BY <1>1, <1>3, <1>4, <1>5 DEF Placed, cs
<1>7. SparesOthers(h) /\ SameErrand(call'[h], c)
  BY <1>3, <1>4 DEF SparesOthers, cs, FlowOK, Placed
<1> QED
  BY <1>1, <1>6, <1>7 DEF FlowOK, Placed, ReplaceTop, Uses

LEMMA GoToKeeps ==
  ASSUME FlowOK, NEW h \in Handlers, call[h].pc \in Resuming, NEW p \in Pages,
         GoTo(h, p)
  PROVE  FlowOK' /\ SparesOthers(h) /\ call'[h].pc = "idle"
BY IdleCall, ReplaceTopKeeps DEF GoTo, SameErrand

(* A tap handler starts on the visible screen.                             *)
LEMMA StartKeeps ==
  ASSUME FlowOK, NEW h \in Handlers, NEW pc \in PCs, NEW a \in Users \cup {Nobody},
         Start(h, pc, a)
  PROVE  /\ Placed(stack, call') /\ SparesOthers(h)
         /\ call'[h].pc = pc /\ call'[h].reply = "none" /\ call'[h].acct = a
<1> DEFINE c == [Idle EXCEPT !.pc = pc, !.scr = Len(stack), !.life = "shown", !.acct = a]
<1>1. Len(stack) \in Nat /\ Len(stack) \in 1 .. Len(stack)
  BY StackShape DEF FlowOK
<1>2. /\ c \in Call /\ c.scr = Len(stack)
      /\ c.pc = pc /\ c.reply = "none" /\ c.acct = a
  BY <1>1 DEF Idle, Call, PCs, Replies
<1>3. call' = [call EXCEPT ![h] = c]
  BY DEF Start, Begin
<1> HIDE DEF c
<1>4. Placed(stack, call')
  BY <1>1, <1>2, <1>3, CallUpdated
<1> QED
  BY <1>2, <1>3, <1>4 DEF FlowOK, Placed, SparesOthers, SameErrand

LEMMA StartLoadingKeeps ==
  ASSUME FlowOK, NEW h \in Handlers, NEW pc \in PCs, NEW a \in Users \cup {Nobody},
         StartLoading(h, pc, a)
  PROVE  /\ FlowOK' /\ SparesOthers(h)
         /\ call'[h].pc = pc /\ call'[h].reply = "none" /\ call'[h].acct = a
<1>1. stack' \in Stacks /\ Len(stack') = Len(stack)
  BY WithLoadingShape, StackShape DEF StartLoading, FlowOK
<1>2. /\ Placed(stack, call') /\ SparesOthers(h)
      /\ call'[h].pc = pc /\ call'[h].reply = "none" /\ call'[h].acct = a
  BY StartKeeps DEF StartLoading
<1> QED
  BY <1>1, <1>2 DEF FlowOK, Placed, StartLoading, ghostVars

LEMMA StartPlainKeeps ==
  ASSUME FlowOK, NEW h \in Handlers, NEW pc \in PCs, NEW a \in Users \cup {Nobody},
         StartPlain(h, pc, a)
  PROVE  /\ FlowOK' /\ SparesOthers(h)
         /\ call'[h].pc = pc /\ call'[h].reply = "none" /\ call'[h].acct = a
BY StartKeeps DEF StartPlain, FlowOK, Placed, ghostVars

--------------------------------------------------------------------------------
(* The inductive invariant.  TypeOK is inductive; BeliefsTrue needs the    *)
(* handlers' part of itself, because a row is filed from what a handler    *)
(* remembered (uid, ver) at an earlier step.                               *)

AuthInv == TypeOK /\ BeliefsTrue

(* Firebase forgets no account and takes no verification back.             *)
FbGrows ==
  \A a \in Users : /\ fb[a] # "none" => fb'[a] # "none"
                   /\ fb[a] = "verified" => fb'[a] = "verified"

(* If h's own next errand is in order, so is every handler's.              *)
LEMMA ErrandsKept ==
  ASSUME AuthInv, NEW h \in Handlers, SparesOthers(h), FbGrows,
         Addressed(call[h])', Believed(call[h])'
  PROVE  HandlersAddressed' /\ \A g \in Handlers : Believed(call[g])'
<1>1. ASSUME NEW g \in Handlers, g # h
      PROVE  Addressed(call[g])' /\ Believed(call[g])'
  <2>1. SameErrand(call'[g], call[g])
    BY <1>1 DEF SparesOthers
  <2>2. Addressed(call[g]) /\ Believed(call[g])
    BY <1>1 DEF AuthInv, TypeOK, HandlersAddressed, BeliefsTrue
  <2>3. Addressed(call[g])'
    BY <2>1, <2>2 DEF SameErrand, Addressed
  <2>4. call[g].pc \in {"register", "gRegister", "mark"} => call[g].uid \in Users
    BY <2>2 DEF Addressed
  <2> QED
    BY <2>1, <2>2, <2>3, <2>4 DEF SameErrand, Believed, FbGrows
<1> QED
  BY <1>1 DEF HandlersAddressed

(* A step that leaves the accounts alone.                                  *)
LEMMA QuietStep ==
  ASSUME AuthInv, NEW h \in Handlers, FlowOK', SparesOthers(h),
         UNCHANGED authVars, skip' = skip, faulted' \subseteq Users,
         Addressed(call[h])', Believed(call[h])'
  PROVE  AuthInv' /\ UNCHANGED accountVars
<1>1. DataOK
  BY TypeParts DEF AuthInv
<1>2. DataOK'
  BY <1>1 DEF DataOK, authVars, AccountsTypeOK
<1>3. HandlersAddressed' /\ \A g \in Handlers : Believed(call[g])'
  <2>1. FbGrows
    BY DEF FbGrows, authVars
  <2> QED
    BY <2>1, ErrandsKept
<1>4. TypeOK'
  BY <1>2, <1>3, TypeParts DEF TypeOK, FlowOK, DataOK, Placed, Stacks, HandlersPlaced
<1> QED
  BY <1>3, <1>4 DEF AuthInv, BeliefsTrue, authVars, accountVars

(* A handler that has ended has no errand.                                 *)
LEMMA NoErrand ==
  ASSUME NEW h \in Handlers, call'[h].pc = "idle"
  PROVE  Addressed(call[h])' /\ Believed(call[h])'
BY DEF Addressed, Believed

LEMMA InvParts ==
  ASSUME AuthInv
  PROVE  /\ FlowOK /\ DataOK /\ faulted \subseteq Users
         /\ \A h \in Handlers : /\ call[h] \in Call
                               /\ Addressed(call[h]) /\ Believed(call[h])
BY TypeParts DEF AuthInv, DataOK, FlowOK, Placed, HandlersAddressed, BeliefsTrue

(* Every way a handler has of ending.                                      *)
LEMMA EndKeeps ==
  ASSUME AuthInv, NEW h \in Handlers, call[h].pc \in Resuming,
         \/ Return(h) \/ Throw(h) \/ StopLoading(h)
         \/ \E p \in Pages : GoTo(h, p),
         UNCHANGED authVars, skip' = skip, faulted' \subseteq Users
  PROVE  AuthInv' /\ UNCHANGED accountVars
<1>1. FlowOK
  BY InvParts
<1>2. FlowOK' /\ SparesOthers(h) /\ call'[h].pc = "idle"
  BY <1>1, ReturnKeeps, ThrowKeeps, StopLoadingKeeps, GoToKeeps
<1> QED
  BY <1>2, NoErrand, QuietStep

(* Every way the user has of starting one.                                 *)
LEMMA TapKeeps ==
  ASSUME AuthInv, NEW h \in Handlers, NEW pc \in Waiting, NEW a \in Users \cup {Nobody},
         StartLoading(h, pc, a) \/ StartPlain(h, pc, a),
         pc \notin {"register", "gRegister", "mark"},
         pc \in {"create", "login"} => a \in Users
  PROVE  AuthInv' /\ UNCHANGED accountVars
<1>1. FlowOK /\ faulted \subseteq Users /\ pc \in PCs
  BY InvParts DEF PCs
<1>2. /\ FlowOK' /\ SparesOthers(h)
      /\ call'[h].pc = pc /\ call'[h].reply = "none" /\ call'[h].acct = a
  BY <1>1, StartLoadingKeeps, StartPlainKeeps
<1>3. UNCHANGED authVars /\ skip' = skip /\ faulted' \subseteq Users
  BY <1>1 DEF StartLoading, StartPlain, ghostVars
<1>4. Addressed(call[h])' /\ Believed(call[h])'
  BY <1>2 DEF Addressed, Believed, Waiting
<1> QED
  BY <1>2, <1>3, <1>4, QuietStep

--------------------------------------------------------------------------------
(* The handlers' resumptions.                                              *)

(* A handler that goes on as c, its screen and the accounts untouched.     *)
LEMMA GoesOn ==
  ASSUME AuthInv, NEW h \in Handlers, NEW c \in Call,
         c.life = call[h].life, c.scr = call[h].scr,
         call' = [call EXCEPT ![h] = c],
         UNCHANGED <<stack, lateUse>>, UNCHANGED authVars, skip' = skip,
         faulted' \subseteq Users, Addressed(c), Believed(c)
  PROVE  AuthInv' /\ UNCHANGED accountVars
<1>1. FlowOK
  BY InvParts
<1>2. Placed(stack, call') /\ SparesOthers(h) /\ call'[h] = c
  <2>1. c.life = "shown" => c.scr \in 1 .. Len(stack)
    BY <1>1 DEF FlowOK, Placed
  <2>2. Placed(stack, call')
    BY <1>1, <2>1, CallUpdated
  <2> QED
    BY <1>1, <2>2 DEF FlowOK, Placed, SparesOthers, SameErrand
<1>3. FlowOK'
  BY <1>1, <1>2 DEF FlowOK, Placed
<1>4. Addressed(call[h])' /\ Believed(call[h])'
  BY <1>2 DEF Addressed, Believed, authVars
<1> QED
  BY <1>2, <1>3, <1>4, QuietStep

(* Where a handler's row comes from: whoever is signed in, as the device   *)
(* knows that user.                                                        *)
LEMMA SessionBelieved ==
  ASSUME AuthInv, session # Nobody
  PROVE  /\ session \in Users /\ cached \in BOOLEAN
         /\ fb[session] # "none"
         /\ cached => fb[session] = "verified"
BY InvParts DEF DataOK, AccountsTypeOK, AuthInv, BeliefsTrue

LEMMA SignUpCreatedKeeps ==
  ASSUME AuthInv, NEW h \in Handlers, SignUpCreated(h)
  PROVE  AuthInv' /\ UNCHANGED accountVars
<1>1. call[h] \in Call /\ Addressed(call[h]) /\ call[h].pc = "created"
  BY InvParts DEF SignUpCreated
<1>2. UNCHANGED authVars /\ skip' = skip /\ call[h].pc \in Resuming
  BY <1>1 DEF SignUpCreated, Resuming
<1>3. call[h].acct \in Users
  BY <1>1 DEF Addressed
<1>4. faulted' \subseteq Users
  BY <1>3, InvParts DEF SignUpCreated
<1>5. CASE Return(h) \/ Throw(h) \/ StopLoading(h)
  BY <1>2, <1>4, <1>5, EndKeeps
<1>6. CASE session # Nobody /\ Register(h) /\ UNCHANGED <<stack, lateUse>>
  <2> DEFINE c == [call[h] EXCEPT !.pc = "register", !.reply = "none",
                                  !.uid = session, !.ver = cached]
  <2>1. session \in Users /\ cached \in BOOLEAN /\ fb[session] # "none"
        /\ (cached => fb[session] = "verified")
    BY <1>6, SessionBelieved
  <2>2. /\ c \in Call /\ c.life = call[h].life /\ c.scr = call[h].scr
        /\ c.pc = "register" /\ c.acct = call[h].acct
        /\ c.uid = session /\ c.ver = cached
    BY <1>1, <2>1 DEF Call, Waiting, Replies
  <2>3. call' = [call EXCEPT ![h] = c]
    BY <1>6 DEF Register
  <2> HIDE DEF c
  <2>4. Addressed(c) /\ Believed(c)
    BY <1>3, <2>1, <2>2 DEF Addressed, Believed
  <2> QED
    BY <1>2, <1>4, <1>6, <2>2, <2>3, <2>4, GoesOn
<1> QED
  BY <1>5, <1>6 DEF SignUpCreated

LEMMA SignUpRegisteredKeeps ==
  ASSUME AuthInv, NEW h \in Handlers, SignUpRegistered(h)
  PROVE  AuthInv' /\ UNCHANGED accountVars
<1>1. call[h] \in Call /\ call[h].pc \in Resuming
  BY InvParts DEF SignUpRegistered, Resuming
<1>2. UNCHANGED authVars /\ skip' = skip /\ faulted' \subseteq Users
  BY InvParts DEF SignUpRegistered
<1>3. CASE Return(h) \/ Throw(h) \/ StopLoading(h)
  BY <1>1, <1>2, <1>3, EndKeeps
<1>4. CASE Answer(h, "mail", "none") /\ UNCHANGED <<stack, lateUse>>
  <2> DEFINE c == [call[h] EXCEPT !.pc = "mail", !.reply = "none"]
  <2>1. c \in Call /\ c.life = call[h].life /\ c.scr = call[h].scr /\ c.pc = "mail"
    BY <1>1 DEF Call, Waiting, Replies
  <2>2. call' = [call EXCEPT ![h] = c]
    BY <1>4 DEF Answer
  <2> HIDE DEF c
  <2>3. Addressed(c) /\ Believed(c)
    BY <2>1 DEF Addressed, Believed
  <2> QED
    BY <1>2, <1>4, <2>1, <2>2, <2>3, GoesOn
<1> QED
  BY <1>3, <1>4 DEF SignUpRegistered

LEMMA GoogleSignedKeeps ==
  ASSUME AuthInv, NEW h \in Handlers, GoogleSigned(h)
  PROVE  AuthInv' /\ UNCHANGED accountVars
<1>1. /\ call[h] \in Call /\ Addressed(call[h])
      /\ call[h].pc = "googled" /\ call[h].pc \in Resuming
  BY InvParts DEF GoogleSigned, Resuming
<1>2. UNCHANGED authVars /\ skip' = skip
  BY DEF GoogleSigned
<1>3. call[h].reply = "ok" => call[h].acct \in Users
  BY <1>1 DEF Addressed
<1>4. faulted' \subseteq Users
  BY <1>3, InvParts DEF GoogleSigned
<1>5. CASE Throw(h) \/ StopLoading(h)
  BY <1>1, <1>2, <1>4, <1>5, EndKeeps
<1>6. CASE /\ session # Nobody /\ UNCHANGED <<stack, lateUse>>
           /\ call' = [call EXCEPT ![h].pc = "gRegister", ![h].reply = "none",
                                   ![h].acct = session, ![h].uid = session,
                                   ![h].ver = cached]
  <2> DEFINE c == [call[h] EXCEPT !.pc = "gRegister", !.reply = "none",
                                  !.acct = session, !.uid = session, !.ver = cached]
  <2>1. session \in Users /\ cached \in BOOLEAN /\ fb[session] # "none"
        /\ (cached => fb[session] = "verified")
    BY <1>6, SessionBelieved
  <2>2. /\ c \in Call /\ c.life = call[h].life /\ c.scr = call[h].scr
        /\ c.pc = "gRegister" /\ c.acct = session
        /\ c.uid = session /\ c.ver = cached
    BY <1>1, <2>1 DEF Call, Waiting, Replies
  <2>3. call' = [call EXCEPT ![h] = c]
    BY <1>6
  <2> HIDE DEF c
  <2>4. Addressed(c) /\ Believed(c)
    BY <2>1, <2>2 DEF Addressed, Believed
  <2> QED
    BY <1>2, <1>4, <1>6, <2>2, <2>3, <2>4, GoesOn
<1> QED
  BY <1>5, <1>6 DEF GoogleSigned

LEMMA GoogleRegisteredKeeps ==
  ASSUME AuthInv, NEW h \in Handlers, GoogleRegistered(h)
  PROVE  AuthInv' /\ UNCHANGED accountVars
<1>1. call[h].pc \in Resuming /\ FlowOK
  BY InvParts DEF GoogleRegistered, Resuming
<1>2. UNCHANGED authVars /\ skip' = skip /\ faulted' \subseteq Users
  BY InvParts DEF GoogleRegistered
<1>3. CASE Return(h) \/ Throw(h) \/ StopLoading(h)
  BY <1>1, <1>2, <1>3, EndKeeps
<1>4. CASE /\ Finish(h) /\ Uses(call[h])
           /\ \E p \in {"Main", "Interests"} :
                stack' = Pushed(LoaderStopped(call[h]), p)
  <2>1. stack' \in Stacks /\ Len(stack') = Len(stack) + 1 /\ Len(stack) \in Nat
    <3>1. LoaderStopped(call[h]) \in Stacks /\ Len(LoaderStopped(call[h])) = Len(stack)
      BY <1>1, LoaderStoppedShape
    <3>2. PICK p \in Pages : stack' = Pushed(LoaderStopped(call[h]), p)
      BY <1>4 DEF Pages
    <3> QED
      BY <1>1, <3>1, <3>2, PushedShape, StackShape DEF FlowOK
  <2>2. Placed(stack, call') /\ SparesOthers(h) /\ call'[h].pc = "idle"
    BY <1>1, <1>4, FinishKeeps
  <2>3. FlowOK'
    BY <1>1, <1>4, <2>1, <2>2 DEF FlowOK, Placed, Uses
  <2> QED
    BY <1>2, <2>2, <2>3, NoErrand, QuietStep
<1> QED
  BY <1>3, <1>4 DEF GoogleRegistered

LEMMA CheckEmailVerifiedKeeps ==
  ASSUME AuthInv, NEW h \in Handlers, CheckEmailVerified(h)
  PROVE  AuthInv' /\ UNCHANGED accountVars
<1>1. call[h].pc \in Resuming /\ FlowOK
  BY InvParts DEF CheckEmailVerified, Resuming
<1>2. UNCHANGED authVars /\ skip' = skip /\ faulted' \subseteq Users
  BY InvParts DEF CheckEmailVerified
<1>3. CASE Return(h) \/ Throw(h)
  BY <1>1, <1>2, <1>3, EndKeeps
<1>4. CASE /\ session # Nobody /\ VerifiedNow(call[h])
           /\ ReplaceTop(h, "Interests", [Idle EXCEPT !.pc = "mark", !.uid = session])
  <2> DEFINE c == [Idle EXCEPT !.pc = "mark", !.uid = session]
  <2>1. session \in Users /\ fb[session] = "verified"
    BY <1>4, SessionBelieved DEF VerifiedNow
  <2>2. c \in Call /\ c.life = "none" /\ c.pc = "mark" /\ c.uid = session
    BY <2>1 DEF Idle, Call, Waiting, Replies
  <2>3. ReplaceTop(h, "Interests", c)
    BY <1>4
  <2> HIDE DEF c
  <2>4. FlowOK' /\ SparesOthers(h) /\ SameErrand(call'[h], c)
    BY <1>1, <2>2, <2>3, ReplaceTopKeeps DEF Pages
  <2>5. Addressed(call[h])' /\ Believed(call[h])'
    BY <1>2, <2>1, <2>2, <2>4 DEF SameErrand, Addressed, Believed, authVars
  <2> QED
    BY <1>2, <2>4, <2>5, QuietStep
<1> QED
  BY <1>3, <1>4 DEF CheckEmailVerified

(* logout may end on a context that is gone.                               *)
LEMMA LoggedOutKeeps ==
  ASSUME AuthInv, NEW h \in Handlers, LoggedOut(h)
  PROVE  AuthInv' /\ UNCHANGED accountVars
<1>1. call[h].pc \in Resuming /\ FlowOK
  BY InvParts DEF LoggedOut, Resuming
<1>2. UNCHANGED authVars /\ skip' = skip /\ faulted' \subseteq Users
  BY InvParts DEF LoggedOut
<1>3. CASE Return(h) \/ GoTo(h, "SignIn")
  BY <1>1, <1>2, <1>3, EndKeeps DEF Pages
<1>4. CASE Finish(h) /\ Uses(call[h]) /\ UNCHANGED stack
  <2>1. Placed(stack, call') /\ SparesOthers(h) /\ call'[h].pc = "idle"
    BY <1>1, <1>4, FinishKeeps
  <2>2. FlowOK'
    BY <1>1, <1>4, <2>1 DEF FlowOK, Placed, Uses
  <2> QED
    BY <1>2, <2>1, <2>2, NoErrand, QuietStep
<1> QED
  BY <1>3, <1>4 DEF LoggedOut

LEMMA IntrestAddedKeeps ==
  ASSUME AuthInv, NEW h \in Handlers, IntrestAdded(h)
  PROVE  AuthInv' /\ UNCHANGED accountVars
<1>1. /\ call[h].pc \in Resuming /\ FlowOK /\ call[h] \in Call
      /\ call[h].life = "shown" => call[h].scr \in 1 .. Len(stack)
  BY InvParts DEF IntrestAdded, Resuming, FlowOK, Placed
<1>2. UNCHANGED authVars /\ skip' = skip /\ faulted' \subseteq Users
  BY InvParts DEF IntrestAdded
<1>3. CASE Return(h) \/ Throw(h) \/ GoTo(h, "Main")
  BY <1>1, <1>2, <1>3, EndKeeps DEF Pages
<1>4. CASE ReplaceTop(h, "Main", [call[h] EXCEPT !.pc = "choose", !.reply = "none"])
  <2> DEFINE c == [call[h] EXCEPT !.pc = "choose", !.reply = "none"]
  <2>1. /\ c \in Call /\ c.life = call[h].life /\ c.scr = call[h].scr /\ c.pc = "choose"
    BY <1>1 DEF Call, Waiting, Replies
  <2>2. ReplaceTop(h, "Main", c)
    BY <1>4
  <2> HIDE DEF c
  <2>3. FlowOK' /\ SparesOthers(h) /\ SameErrand(call'[h], c)
    BY <1>1, <2>1, <2>2, ReplaceTopKeeps DEF Pages
  <2>4. Addressed(call[h])' /\ Believed(call[h])'
    BY <2>1, <2>3 DEF SameErrand, Addressed, Believed
  <2> QED
    BY <1>2, <2>3, <2>4, QuietStep
<1> QED
  BY <1>3, <1>4 DEF IntrestAdded

(* The resumptions that only end: at a screen, at the loader or nowhere.   *)
LEMMA OtherResumesKeep ==
  ASSUME AuthInv, NEW h \in Handlers,
         SignUpMailed(h) \/ LoginDone(h) \/ ResetDone(h) \/ SignedOut(h)
  PROVE  AuthInv' /\ UNCHANGED accountVars
<1>1. call[h].pc \in Resuming
  BY DEF SignUpMailed, LoginDone, ResetDone, SignedOut, Resuming
<1>2. UNCHANGED authVars /\ skip' = skip /\ faulted' \subseteq Users
  BY InvParts DEF SignUpMailed, LoginDone, ResetDone, SignedOut
<1>3. HomeOf(cached) \in Pages
  BY DEF HomeOf, Pages
<1>4. \/ Return(h) \/ Throw(h) \/ StopLoading(h)
      \/ \E p \in Pages : GoTo(h, p)
  BY <1>3 DEF SignUpMailed, LoginDone, ResetDone, SignedOut, Pages
<1> QED
  BY <1>1, <1>2, <1>4, EndKeeps

--------------------------------------------------------------------------------
(* The services.                                                           *)

LEMMA ServiceStep ==
  ASSUME AuthInv, NEW h \in Handlers, FlowOK', SparesOthers(h), FbGrows, DataOK',
         session' # Nobody => fb'[session'] # "none",
         cached' => session' # Nobody /\ fb'[session'] = "verified",
         Addressed(call[h])', Believed(call[h])'
  PROVE  AuthInv'
<1>1. HandlersAddressed' /\ \A g \in Handlers : Believed(call[g])'
  BY ErrandsKept
<1>2. TypeOK'
  BY <1>1 DEF TypeOK, FlowOK, DataOK, Placed, Stacks, HandlersPlaced
<1> QED
  BY <1>1, <1>2 DEF AuthInv, BeliefsTrue

(* A service answers a handler, or a handler nobody waits for ends; the    *)
(* screens do not notice.                                                  *)
LEMMA ServiceFlow ==
  ASSUME AuthInv, NEW h \in Handlers, UNCHANGED <<stack, lateUse>>,
         \/ Finish(h)
         \/ \E pc \in Resuming, reply \in Replies : Answer(h, pc, reply)
  PROVE  FlowOK' /\ SparesOthers(h)
<1>1. FlowOK /\ Resuming \subseteq PCs
  BY InvParts DEF PCs
<1>2. Placed(stack, call') /\ SparesOthers(h)
  BY <1>1, FinishKeeps, AnswerKeeps
<1> QED
  BY <1>1, <1>2 DEF FlowOK, Placed

LEMMA AnswerErrand ==
  ASSUME AuthInv, NEW h \in Handlers, NEW pc \in Resuming, NEW reply \in Replies,
         Answer(h, pc, reply),
         (pc = "created" \/ (pc = "googled" /\ reply = "ok")) => call[h].acct \in Users
  PROVE  Addressed(call[h])' /\ Believed(call[h])'
<1>1. call'[h].pc = pc /\ call'[h].reply = reply /\ call'[h].acct = call[h].acct
  BY InvParts, AnswerKeeps DEF PCs
<1> QED
  BY <1>1 DEF Addressed, Believed, Resuming

LEMMA DataParts ==
  ASSUME AuthInv
  PROVE  /\ AccountsTypeOK /\ cached \in BOOLEAN /\ crossed \in BOOLEAN
         /\ skip \in {"unset", "cache", "disk"} /\ faulted \subseteq Users
         /\ session # Nobody => fb[session] # "none"
         /\ cached => session # Nobody /\ fb[session] = "verified"
BY InvParts DEF DataOK, AuthInv, BeliefsTrue

LEMMA FirebaseCreateKeeps ==
  ASSUME AuthInv, NEW h \in Handlers, FirebaseCreate(h)
  PROVE  AuthInv' /\ [AccountsNext]_accountVars
<1> DEFINE a == call[h].acct
<1>1. a \in Users /\ call[h].pc = "create"
  BY InvParts DEF FirebaseCreate, Addressed
<1>2. \E reply \in {"ok", "fail"} : Answer(h, "created", reply)
  BY DEF FirebaseCreate
<1>3. FlowOK' /\ SparesOthers(h)
  BY <1>2, ServiceFlow DEF FirebaseCreate, Resuming, Replies
<1>4. Addressed(call[h])' /\ Believed(call[h])'
  BY <1>1, <1>2, AnswerErrand DEF Resuming, Replies
<1>5. CASE /\ fb[a] = "none" /\ fb' = [fb EXCEPT ![a] = "unverified"]
           /\ \/ ChangeSession(h, a, FALSE) /\ UNCHANGED faulted
              \/ faulted' = faulted \cup {a} /\ UNCHANGED sessionVars
  <2>1. rows' = rows /\ skip' = skip
    BY DEF FirebaseCreate
  <2>2. /\ session' \in {session, a} /\ cached' \in {cached, FALSE}
        /\ crossed' \in BOOLEAN /\ faulted' \subseteq Users
        /\ cached' => cached /\ session' = session
    <3>1. CASE ChangeSession(h, a, FALSE) /\ UNCHANGED faulted
      <4>1. cached' = FALSE /\ session' = a /\ crossed' \in BOOLEAN
        BY <3>1, DataParts DEF ChangeSession
      <4> QED
        BY <3>1, <4>1, DataParts
    <3>2. CASE faulted' = faulted \cup {a} /\ UNCHANGED sessionVars
      BY <1>1, <3>2, DataParts DEF sessionVars
    <3> QED
      BY <1>5, <3>1, <3>2
  <2>3. CreateAccount(a)
    BY <1>5, <2>1, <2>2 DEF CreateAccount
  <2>4. FbGrows /\ DataOK'
    BY <1>1, <1>5, <2>1, <2>2, DataParts DEF FbGrows, DataOK, AccountsTypeOK, FbState
  <2>5. /\ session' # Nobody => fb'[session'] # "none"
        /\ cached' => session' # Nobody /\ fb'[session'] = "verified"
    <3>1. /\ fb' \in [Users -> FbState] /\ fb'[a] = "unverified"
          /\ \A u \in Users \ {a} : fb'[u] = fb[u]
      BY <1>1, <1>5, DataParts DEF AccountsTypeOK, FbState
    <3>2. session \in Users \cup {Nobody} /\ (cached => session # a)
      BY <1>5, DataParts DEF AccountsTypeOK
    <3> QED
      BY <2>2, <3>1, <3>2, DataParts
  <2> QED
    BY <1>1, <1>3, <1>4, <2>3, <2>4, <2>5, ServiceStep DEF AccountsNext
<1>6. CASE UNCHANGED <<fb, sessionVars, faulted>>
  <2>1. UNCHANGED authVars /\ skip' = skip /\ faulted' \subseteq Users
    BY <1>6, DataParts DEF FirebaseCreate, authVars, sessionVars
  <2> QED
    BY <1>3, <1>4, <2>1, QuietStep
<1> QED
  BY <1>5, <1>6 DEF FirebaseCreate

LEMMA BackendRegisterKeeps ==
  ASSUME AuthInv, NEW h \in Handlers, BackendRegister(h)
  PROVE  AuthInv' /\ [AccountsNext]_accountVars
<1> DEFINE c == call[h]
           done == IF c.pc = "register" THEN "registered" ELSE "gRegistered"
<1>1. /\ c \in Call /\ c.acct \in Users /\ c.uid \in Users /\ c.ver \in BOOLEAN
      /\ fb[c.uid] # "none" /\ (c.ver => fb[c.uid] = "verified")
  BY InvParts DEF BackendRegister, Addressed, Believed, Call
<1>2. /\ \E reply \in {"registered", "exists", "error", "threw"} : Answer(h, done, reply)
      /\ done \in {"registered", "gRegistered"}
  BY DEF BackendRegister
<1>3. FlowOK' /\ SparesOthers(h)
  BY <1>2, ServiceFlow DEF BackendRegister, Resuming, Replies
<1>4. Addressed(call[h])' /\ Believed(call[h])'
  BY <1>2, AnswerErrand DEF Resuming, Replies
<1>5. /\ UNCHANGED <<fb, session, cached, crossed, skip>>
      /\ faulted' \subseteq Users
  BY <1>1, DataParts DEF BackendRegister, sessionVars
<1>6. CASE /\ ~HasRow(c.uid)
           /\ rows' = rows \cup {[uid |-> c.uid, email |-> c.acct, verified |-> c.ver]}
  <2> DEFINE r == [uid |-> c.uid, email |-> c.acct, verified |-> c.ver]
  <2>1. r \in Row
    BY <1>1 DEF Row
  <2>2. AddRow(r)
    BY <1>1, <1>5, <1>6 DEF AddRow
  <2>3. FbGrows /\ DataOK'
    BY <1>5, <1>6, <2>1, DataParts DEF FbGrows, DataOK, AccountsTypeOK
  <2> QED
    BY <1>3, <1>4, <1>5, <2>1, <2>2, <2>3, DataParts, ServiceStep DEF AccountsNext
<1>7. CASE UNCHANGED rows
  <2>1. UNCHANGED authVars
    BY <1>5, <1>7 DEF authVars
  <2> QED
    BY <1>3, <1>4, <1>5, <2>1, QuietStep
<1> QED
  BY <1>6, <1>7 DEF BackendRegister

LEMMA FirebaseLoginKeeps ==
  ASSUME AuthInv, NEW h \in Handlers, FirebaseLogin(h)
  PROVE  AuthInv' /\ [AccountsNext]_accountVars
<1> DEFINE a == call[h].acct
<1>1. a \in Users /\ call[h].pc = "login"
  BY InvParts DEF FirebaseLogin, Addressed
<1>2. \E reply \in {"ok", "fail"} : Answer(h, "loggedIn", reply)
  BY DEF FirebaseLogin
<1>3. FlowOK' /\ SparesOthers(h)
  BY <1>2, ServiceFlow DEF FirebaseLogin, Resuming, Replies, ghostVars
<1>4. Addressed(call[h])' /\ Believed(call[h])'
  BY <1>2, AnswerErrand DEF Resuming, Replies
<1>5. UNCHANGED <<fb, rows, skip, faulted>>
  BY DEF FirebaseLogin, ghostVars
<1>6. CASE fb[a] # "none" /\ ChangeSession(h, a, fb[a] = "verified")
  <2>1. SignIn(a)
    BY <1>5, <1>6 DEF SignIn, ChangeSession
  <2>2. /\ session' = a /\ cached' = (fb[a] = "verified") /\ crossed' \in BOOLEAN
    BY <1>6, DataParts DEF ChangeSession
  <2>3. FbGrows /\ DataOK'
    BY <1>1, <1>5, <2>2, DataParts DEF FbGrows, DataOK, AccountsTypeOK
  <2>4. a # Nobody
    BY <1>1, AccountsAssumption
  <2> QED
    BY <1>1, <1>3, <1>4, <1>5, <1>6, <2>1, <2>2, <2>3, <2>4, ServiceStep DEF AccountsNext
<1>7. CASE UNCHANGED sessionVars
  <2>1. UNCHANGED authVars /\ faulted' \subseteq Users
    BY <1>5, <1>7, DataParts DEF authVars, sessionVars
  <2> QED
    BY <1>3, <1>4, <1>5, <2>1, QuietStep
<1> QED
  BY <1>6, <1>7 DEF FirebaseLogin

(* A google handler comes back with an account the user picked.            *)
LEMMA FirebaseGoogleKeeps ==
  ASSUME AuthInv, NEW h \in Handlers, FirebaseGoogle(h)
  PROVE  AuthInv' /\ [AccountsNext]_accountVars
<1>1. UNCHANGED <<stack, lateUse, rows, skip, faulted>>
  BY DEF FirebaseGoogle, ghostVars
<1>2. ASSUME NEW a \in Users, fb' = [fb EXCEPT ![a] = "verified"],
             ChangeSession(h, a, TRUE),
             call' = [call EXCEPT ![h].pc = "googled", ![h].reply = "ok", ![h].acct = a]
      PROVE  AuthInv' /\ [AccountsNext]_accountVars
  <2> DEFINE c == [call[h] EXCEPT !.pc = "googled", !.reply = "ok", !.acct = a]
  <2>1. /\ call[h] \in Call /\ FlowOK
        /\ call[h].life = "shown" => call[h].scr \in 1 .. Len(stack)
    BY InvParts DEF FlowOK, Placed
  <2>2. /\ c \in Call /\ c.life = call[h].life /\ c.scr = call[h].scr
        /\ c.pc = "googled" /\ c.acct = a
    BY <2>1 DEF Call, Resuming, Replies
  <2>3. call' = [call EXCEPT ![h] = c]
    BY <1>2
  <2> HIDE DEF c
  <2>4. Placed(stack, call') /\ call'[h] = c /\ SparesOthers(h)
    <3>1. Placed(stack, call')
      BY <2>1, <2>2, <2>3, CallUpdated
    <3> QED
      BY <2>1, <2>3, <3>1 DEF FlowOK, Placed, SparesOthers, SameErrand
  <2>5. FlowOK' /\ Addressed(call[h])' /\ Believed(call[h])'
    BY <1>1, <2>1, <2>2, <2>4 DEF FlowOK, Placed, Addressed, Believed
  <2>6. /\ session' = a /\ cached' = TRUE /\ crossed' \in BOOLEAN
        /\ fb' \in [Users -> FbState] /\ fb'[a] = "verified" /\ a # Nobody
        /\ \A u \in Users \ {a} : fb'[u] = fb[u]
    BY <1>2, DataParts, AccountsAssumption DEF ChangeSession, AccountsTypeOK, FbState
  <2>7. FbGrows /\ DataOK'
    BY <1>1, <2>6, DataParts DEF FbGrows, DataOK, AccountsTypeOK
  <2>8. GoogleSignIn(a)
    BY <1>1, <1>2, <2>6 DEF GoogleSignIn
  <2> QED
    BY <2>4, <2>5, <2>6, <2>7, <2>8, ServiceStep DEF AccountsNext
<1>3. ASSUME NEW reply \in {"fail", "threw"}, Answer(h, "googled", reply),
             UNCHANGED <<fb, sessionVars>>
      PROVE  AuthInv' /\ [AccountsNext]_accountVars
  <2>1. FlowOK' /\ SparesOthers(h)
    BY <1>1, <1>3, ServiceFlow DEF Resuming, Replies
  <2>2. Addressed(call[h])' /\ Believed(call[h])'
    BY <1>3, AnswerErrand DEF Resuming, Replies
  <2>3. UNCHANGED authVars /\ faulted' \subseteq Users
    BY <1>1, <1>3, DataParts DEF authVars, sessionVars
  <2> QED
    BY <1>1, <2>1, <2>2, <2>3, QuietStep
<1> QED
  BY <1>2, <1>3 DEF FirebaseGoogle

LEMMA FirebaseReloadKeeps ==
  ASSUME AuthInv, NEW h \in Handlers, FirebaseReload(h)
  PROVE  AuthInv' /\ [AccountsNext]_accountVars
<1>1. UNCHANGED <<stack, lateUse, fb, rows, session, crossed, skip, faulted>>
  BY DEF FirebaseReload, ghostVars
<1>2. \E reply \in {"ok", "threw"} : Answer(h, "reloaded", reply)
  BY DEF FirebaseReload
<1>3. FlowOK' /\ SparesOthers(h)
  BY <1>1, <1>2, ServiceFlow DEF Resuming, Replies
<1>4. Addressed(call[h])' /\ Believed(call[h])'
  BY <1>2, AnswerErrand DEF Resuming, Replies
<1>5. cached' = cached \/ (session # Nobody /\ cached' = (fb[session] = "verified"))
  BY DEF FirebaseReload
<1>6. cached' \in BOOLEAN
  BY <1>5, DataParts
<1>7. FbGrows /\ DataOK'
  BY <1>1, <1>6, DataParts DEF FbGrows, DataOK, AccountsTypeOK
<1>8. /\ session' # Nobody => fb'[session'] # "none"
      /\ cached' => session' # Nobody /\ fb'[session'] = "verified"
  BY <1>1, <1>5, DataParts
<1> QED
  BY <1>1, <1>3, <1>4, <1>7, <1>8, ServiceStep DEF accountVars

LEMMA BackendMarkKeeps ==
  ASSUME AuthInv, NEW h \in Handlers, BackendMark(h)
  PROVE  AuthInv' /\ [AccountsNext]_accountVars
<1> DEFINE u == call[h].uid
<1>1. u \in Users /\ fb[u] = "verified"
  BY InvParts DEF BackendMark, Addressed, Believed
<1>2. UNCHANGED <<stack, lateUse, fb, session, cached, crossed, skip, faulted>> /\ Finish(h)
  BY DEF BackendMark, sessionVars, ghostVars
<1>3. FlowOK' /\ SparesOthers(h)
  BY <1>2, ServiceFlow
<1>4. Addressed(call[h])' /\ Believed(call[h])'
  BY <1>2, InvParts, FinishKeeps, NoErrand
<1>5. rows' \subseteq Row
  <2>1. rows \subseteq Row /\ \A r \in Row : [r EXCEPT !.verified = TRUE] \in Row
    BY DataParts DEF AccountsTypeOK, Row
  <2> QED
    BY <2>1 DEF BackendMark
<1>6. FbGrows /\ DataOK'
  BY <1>2, <1>5, DataParts DEF FbGrows, DataOK, AccountsTypeOK
<1>7. MarkVerified(u) \/ UNCHANGED accountVars
  BY <1>1, <1>2 DEF BackendMark, MarkVerified, accountVars
<1> QED
  BY <1>1, <1>2, <1>3, <1>4, <1>6, <1>7, DataParts, ServiceStep DEF AccountsNext

LEMMA FirebaseSignOutKeeps ==
  ASSUME AuthInv, NEW h \in Handlers, FirebaseSignOut(h)
  PROVE  AuthInv' /\ [AccountsNext]_accountVars
<1>1. UNCHANGED <<stack, lateUse, fb, rows, skip, faulted>>
  BY DEF FirebaseSignOut, ghostVars
<1>2. \E pc \in {"signedOut", "loggedOut"} : Answer(h, pc, "ok")
  BY DEF FirebaseSignOut
<1>3. FlowOK' /\ SparesOthers(h)
  BY <1>1, <1>2, ServiceFlow DEF Resuming, Replies
<1>4. Addressed(call[h])' /\ Believed(call[h])'
  BY <1>2, AnswerErrand DEF Resuming, Replies
<1>5. session' = Nobody /\ cached' = FALSE /\ crossed' \in BOOLEAN
  BY DataParts DEF FirebaseSignOut, ChangeSession
<1>6. FbGrows /\ DataOK'
  BY <1>1, <1>5, DataParts DEF FbGrows, DataOK, AccountsTypeOK
<1>7. SignOut
  BY <1>1, <1>5 DEF SignOut
<1> QED
  BY <1>3, <1>4, <1>5, <1>6, <1>7, ServiceStep DEF AccountsNext

(* Services whose answer says nothing about an account.                    *)
LEMMA OtherServicesKeep ==
  ASSUME AuthInv, NEW h \in Handlers,
         FirebaseMail(h) \/ FirebaseReset(h) \/ BackendIntrest(h)
  PROVE  AuthInv' /\ UNCHANGED accountVars
<1>1. UNCHANGED <<stack, lateUse, authVars, skip, faulted>>
  BY DEF FirebaseMail, FirebaseReset, BackendIntrest, ghostVars
<1>2. \/ Finish(h)
      \/ \E pc \in {"mailed", "resetDone", "chosen"}, reply \in {"ok", "fail", "threw"} :
           Answer(h, pc, reply)
  BY DEF FirebaseMail, FirebaseReset, BackendIntrest
<1>3. FlowOK' /\ SparesOthers(h)
  BY <1>1, <1>2, ServiceFlow DEF Resuming, Replies
<1>4. Addressed(call[h])' /\ Believed(call[h])'
  BY <1>2, InvParts, FinishKeeps, NoErrand, AnswerErrand DEF Resuming, Replies
<1> QED
  BY <1>1, <1>3, <1>4, DataParts, QuietStep

--------------------------------------------------------------------------------
(* Everything else.                                                        *)

(* A step of the navigator: the handlers keep their errands.               *)
LEMMA NavigationStep ==
  ASSUME AuthInv, FlowOK', UNCHANGED authVars,
         skip' \in {"unset", "cache", "disk"}, faulted' \subseteq Users,
         \A g \in Handlers : SameErrand(call'[g], call[g]) \/ call'[g].pc = "idle"
  PROVE  AuthInv' /\ UNCHANGED accountVars
<1>1. DataOK'
  BY DataParts DEF DataOK, authVars, AccountsTypeOK
<1>2. ASSUME NEW g \in Handlers
      PROVE  Addressed(call[g])' /\ Believed(call[g])'
  <2>1. Addressed(call[g]) /\ Believed(call[g])
    BY InvParts
  <2>2. CASE SameErrand(call'[g], call[g])
    BY <2>1, <2>2 DEF SameErrand, Addressed, Believed, authVars
  <2>3. CASE call'[g].pc = "idle"
    BY <2>3, NoErrand
  <2> QED
    BY <2>2, <2>3
<1>3. TypeOK'
  BY <1>1, <1>2
  DEF TypeOK, FlowOK, DataOK, Placed, Stacks, HandlersPlaced, HandlersAddressed
<1> QED
  BY <1>2, <1>3, DataParts DEF AuthInv, BeliefsTrue, authVars, accountVars

(* Opening a screen, or replacing the top one from no handler.             *)
LEMMA OpenKeeps ==
  ASSUME AuthInv, stack' \in Stacks, Len(stack') >= Len(stack),
         UNCHANGED <<authVars, call, lateUse, faulted>>,
         skip' \in {"unset", "cache", "disk"}
  PROVE  AuthInv' /\ UNCHANGED accountVars
<1>1. FlowOK /\ Len(stack) \in Nat
  BY InvParts, StackShape DEF FlowOK
<1>2. Len(stack') \in Nat
  BY StackShape
<1>3. FlowOK'
  BY <1>1, <1>2 DEF FlowOK, Placed
<1> QED
  BY <1>3, DataParts, NavigationStep DEF SameErrand

LEMMA NavigateKeeps ==
  ASSUME AuthInv, Navigate \/ SplashTimer \/ PersistSkip
  PROVE  AuthInv' /\ UNCHANGED accountVars
<1>1. stack \in Stacks /\ Len(stack) \in Nat \ {0}
  BY InvParts, StackShape DEF FlowOK
<1>2. ASSUME NEW p \in Pages
      PROVE  /\ Pushed(stack, p) \in Stacks /\ Len(Pushed(stack, p)) >= Len(stack)
             /\ Replaced(stack, p) \in Stacks /\ Len(Replaced(stack, p)) >= Len(stack)
  BY <1>1, PushedShape, ReplacedShape
<1>3. CASE OpenScreen
  <2>1. \E p \in Pages : stack' = Pushed(stack, p)
    BY <1>3 DEF OpenScreen, Open, PushLinks, Pages
  <2> QED
    BY <1>2, <1>3, <2>1, DataParts, OpenKeeps DEF OpenScreen, ghostVars
<1>4. CASE SkipOnboarding
  BY <1>2, <1>4, DataParts, OpenKeeps DEF SkipOnboarding, ghostVars, Pages
<1>5. CASE SkipLogin
  BY <1>2, <1>5, DataParts, OpenKeeps DEF SkipLogin, Open, ghostVars, Pages
<1>6. CASE OpenSheet
  BY <1>2, <1>6, DataParts, OpenKeeps DEF OpenSheet, Open, ghostVars, Pages
<1>7. CASE TapSheetLogin
  <2>1. /\ Pushed(stack, "LoginSheet") \in Stacks
        /\ Len(Pushed(stack, "LoginSheet")) = Len(stack) + 1
    BY <1>1, PushedShape DEF Pages
  <2>2. /\ Pushed(Pushed(stack, "LoginSheet"), "SignIn") \in Stacks
        /\ Len(Pushed(Pushed(stack, "LoginSheet"), "SignIn")) >= Len(stack)
    BY <1>1, <2>1, PushedShape DEF Pages
  <2> QED
    BY <1>7, <2>2, DataParts, OpenKeeps DEF TapSheetLogin, ghostVars
<1>8. CASE SystemBack
  <2>1. FlowOK
    BY InvParts
  <2>2. /\ TopLeaves(call) \in [Handlers -> Call]
        /\ \A g \in Handlers : /\ SameErrand(TopLeaves(call)[g], call[g])
                               /\ TopLeaves(call)[g].life = "shown" =>
                                    TopLeaves(call)[g].scr \in 1 .. Len(stack) - 1
    BY <2>1, TopLeavesKeeps DEF FlowOK
  <2>3. stack' \in Stacks /\ Len(stack') = Len(stack) - 1
    BY <1>1, <1>8, PoppedShape DEF SystemBack
  <2>4. call' = TopLeaves(call) /\ UNCHANGED <<authVars, skip, faulted, lateUse>>
    BY <1>8 DEF SystemBack, ghostVars
  <2>5. FlowOK'
    BY <2>1, <2>2, <2>3, <2>4 DEF FlowOK, Placed
  <2> QED
    BY <2>2, <2>4, <2>5, DataParts, NavigationStep
<1>9. CASE SplashTimer
  <2>1. SplashTarget \in Pages
    BY DEF SplashTarget, HomeOf, Pages
  <2> QED
    BY <1>2, <1>9, <2>1, DataParts, OpenKeeps DEF SplashTimer, ghostVars
<1>10. CASE PersistSkip
  BY <1>1, <1>10, OpenKeeps DEF PersistSkip, ghostVars
<1> QED
  BY <1>3, <1>4, <1>5, <1>6, <1>7, <1>8, <1>9, <1>10 DEF Navigate

LEMMA DisposeKeeps ==
  ASSUME AuthInv, NEW h \in Handlers, Dispose(h)
  PROVE  AuthInv' /\ UNCHANGED accountVars
<1> DEFINE c == [call[h] EXCEPT !.life = "gone"]
<1>1. FlowOK /\ call[h] \in Call
  BY InvParts
<1>2. c \in Call /\ c.life = "gone" /\ SameErrand(c, call[h])
  BY <1>1 DEF Call, SameErrand
<1>3. call' = [call EXCEPT ![h] = c]
  BY DEF Dispose
<1> HIDE DEF c
<1>4. Placed(stack, call')
  BY <1>1, <1>2, <1>3, CallUpdated
<1>5. FlowOK'
  BY <1>1, <1>4 DEF FlowOK, Placed, Dispose, ghostVars
<1>6. \A g \in Handlers : SameErrand(call'[g], call[g])
  BY <1>1, <1>2, <1>3 DEF FlowOK, Placed, SameErrand
<1> QED
  BY <1>5, <1>6, DataParts, NavigationStep DEF Dispose, ghostVars

LEMMA FollowLinkKeeps ==
  ASSUME AuthInv, NEW a \in Users, FollowLink(a)
  PROVE  AuthInv' /\ VerifyEmail(a)
<1>1. /\ VerifyEmail(a)
      /\ UNCHANGED <<stack, rows, session, cached, crossed, call, skip, faulted, lateUse>>
  BY DEF FollowLink, VerifyEmail, ghostVars
<1>2. FbGrows /\ fb' \in [Users -> FbState]
  BY <1>1, DataParts DEF VerifyEmail, FbGrows, AccountsTypeOK, FbState
<1>3. FlowOK' /\ DataOK'
  BY <1>1, <1>2, InvParts DEF FlowOK, Placed, DataOK, AccountsTypeOK
<1>4. ASSUME NEW h \in Handlers
      PROVE  Addressed(call[h])' /\ Believed(call[h])'
  BY <1>1, <1>2, InvParts DEF Addressed, Believed, FbGrows
<1>5. TypeOK'
  BY <1>3, <1>4
  DEF TypeOK, FlowOK, DataOK, Placed, Stacks, HandlersPlaced, HandlersAddressed
<1>6. /\ session' # Nobody => fb'[session'] # "none"
      /\ cached' => session' # Nobody /\ fb'[session'] = "verified"
  BY <1>1, <1>2, DataParts DEF FbGrows, AccountsTypeOK
<1> QED
  BY <1>1, <1>4, <1>5, <1>6 DEF AuthInv, BeliefsTrue

LEMMA RestartKeeps ==
  ASSUME AuthInv, Restart
  PROVE  AuthInv' /\ UNCHANGED accountVars
<1>1. stack' \in Stacks
  BY FreshScreen DEF Restart, Stacks, Pages
<1>2. \A g \in Handlers : call'[g] = Idle
  BY DEF Restart
<1>3. call' \in [Handlers -> Call]
  BY IdleCall DEF Restart
<1>4. FlowOK'
  BY <1>1, <1>2, <1>3, InvParts, IdleCall DEF FlowOK, Placed, Restart
<1>5. faulted' \subseteq Users
  BY InvParts DEF Restart, Call
<1>6. skip' \in {"unset", "cache", "disk"}
  BY DataParts DEF Restart
<1> QED
  BY <1>2, <1>4, <1>5, <1>6, IdleCall, NavigationStep DEF Restart

--------------------------------------------------------------------------------
(* The theorems.                                                           *)

LEMMA InitEstablishes == Init => AuthInv /\ AccountsInit
<1> SUFFICES ASSUME Init PROVE AuthInv /\ AccountsInit
  OBVIOUS
<1>1. stack \in Stacks
  BY FreshScreen DEF Init, Stacks, Pages
<1>2. /\ call \in [Handlers -> Call]
      /\ \A h \in Handlers : call[h].life = "none" /\ call[h].pc = "idle"
  BY IdleCall DEF Init
<1>3. FlowOK /\ HandlersAddressed /\ \A h \in Handlers : Believed(call[h])
  BY <1>1, <1>2 DEF FlowOK, Placed, HandlersAddressed, Addressed, Believed, Init
<1>4. DataOK
  BY DEF Init, AccountsInit, DataOK, AccountsTypeOK, FbState
<1> QED
  BY <1>3, <1>4, TypeParts DEF AuthInv, BeliefsTrue, Init, AccountsInit

(* Every step keeps the invariant and is a step of Accounts, or one that   *)
(* Accounts does not see.                                                  *)
LEMMA StepKeeps == AuthInv /\ [Next]_vars => AuthInv' /\ [AccountsNext]_accountVars
<1> SUFFICES ASSUME AuthInv, [Next]_vars
             PROVE  AuthInv' /\ [AccountsNext]_accountVars
  OBVIOUS
<1>1. ASSUME NEW h \in Handlers, Service(h)
      PROVE  AuthInv' /\ [AccountsNext]_accountVars
  BY <1>1, FirebaseCreateKeeps, BackendRegisterKeeps, FirebaseLoginKeeps,
     FirebaseGoogleKeeps, FirebaseReloadKeeps, BackendMarkKeeps,
     FirebaseSignOutKeeps, OtherServicesKeep
  DEF Service
<1>2. ASSUME NEW h \in Handlers, Resume(h)
      PROVE  AuthInv' /\ [AccountsNext]_accountVars
  BY <1>2, SignUpCreatedKeeps, SignUpRegisteredKeeps, GoogleSignedKeeps,
     GoogleRegisteredKeeps, CheckEmailVerifiedKeeps, LoggedOutKeeps,
     IntrestAddedKeeps, OtherResumesKeep
  DEF Resume
<1>3. ASSUME NEW h \in Handlers, Tap(h)
      PROVE  AuthInv' /\ [AccountsNext]_accountVars
  <2>1. session \in Users \cup {Nobody}
    BY DataParts DEF AccountsTypeOK
  <2>2. \/ \E pc \in {"create", "login"}, a \in Users : StartLoading(h, pc, a)
        \/ \E pc \in {"reset", "google"} : StartLoading(h, pc, Nobody)
        \/ StartPlain(h, "reload", session)
        \/ \E pc \in {"resend", "signOut", "logout", "choose"} : StartPlain(h, pc, Nobody)
    BY <1>3 DEF Tap, TapCreateAccount, TapLogin, TapReset, TapGoogle, TapProceed,
                TapResend, TapVerifyBack, TapLogout, TapChoose
  <2>3. CASE \E pc \in {"create", "login"}, a \in Users : StartLoading(h, pc, a)
    BY <2>3, TapKeeps DEF Waiting
  <2>4. CASE \/ \E pc \in {"reset", "google"} : StartLoading(h, pc, Nobody)
             \/ \E pc \in {"resend", "signOut", "logout", "choose"} : StartPlain(h, pc, Nobody)
    BY <2>4, TapKeeps DEF Waiting
  <2>5. CASE StartPlain(h, "reload", session)
    BY <2>1, <2>5, TapKeeps DEF Waiting
  <2> QED
    BY <2>2, <2>3, <2>4, <2>5
<1>4. ASSUME NEW h \in Handlers, Dispose(h)
      PROVE  AuthInv' /\ [AccountsNext]_accountVars
  BY <1>4, DisposeKeeps
<1>5. ASSUME NEW a \in Users, FollowLink(a)
      PROVE  AuthInv' /\ [AccountsNext]_accountVars
  BY <1>5, FollowLinkKeeps DEF AccountsNext
<1>6. CASE SplashTimer \/ Navigate \/ PersistSkip
  BY <1>6, NavigateKeeps
<1>7. CASE Restart
  BY <1>7, RestartKeeps
<1>8. CASE UNCHANGED vars
  <2>1. FlowOK' /\ UNCHANGED authVars /\ UNCHANGED <<call, skip, faulted>>
    BY <1>8, InvParts DEF vars, authVars, FlowOK, Placed
  <2> QED
    BY <2>1, DataParts, NavigationStep DEF SameErrand
<1> QED
  BY <1>1, <1>2, <1>3, <1>4, <1>5, <1>6, <1>7, <1>8 DEF Next

(* Every reachable state is well typed: in particular a handler whose      *)
(* screen is up points at a position of the stack, and a handler that      *)
(* talks about an account names one.                                       *)
THEOREM TypeCorrect == Spec => []TypeOK
<1>1. AuthInv => TypeOK
  BY DEF AuthInv
<1> QED
  BY <1>1, InitEstablishes, StepKeeps, PTL DEF Spec

(* No handler ever files or marks a row with a verification that Firebase  *)
(* does not have, whatever the other handlers, the user and crashes do.    *)
THEOREM BeliefsStayTrue == Spec => []BeliefsTrue
<1>1. AuthInv => BeliefsTrue
  BY DEF AuthInv
<1> QED
  BY <1>1, InitEstablishes, StepKeeps, PTL DEF Spec

(* The screens, handlers and crashes of the sign-in flow implement the     *)
(* account system.                                                         *)
THEOREM FlowImplementsAccounts == Spec => AccountsSpec
BY InitEstablishes, StepKeeps, PTL DEF Spec, AccountsSpec

(* The backend agrees with Firebase: proved of Accounts, it holds of every *)
(* implementation.                                                         *)
THEOREM FlowRowsBacked == Spec => []RowsBacked
BY FlowImplementsAccounts, AccountsBacked, PTL

--------------------------------------------------------------------------------
(* What one step makes of the handlers, whatever it does to the screens.   *)

(* A tap finds an idle handler and leaves it at its first await.           *)
LEMMA TapMoves ==
  ASSUME AuthInv, NEW h \in Handlers, Tap(h)
  PROVE  /\ SparesOthers(h) /\ UNCHANGED <<authVars, ghostVars>>
         /\ call[h].pc = "idle"
         /\ call'[h].pc \in Waiting \ {"register", "gRegister", "mark"}
<1>1. FlowOK /\ session \in Users \cup {Nobody} /\ Waiting \subseteq PCs
  BY InvParts, DataParts DEF AccountsTypeOK, PCs
<1>2. \E pc \in Waiting \ {"register", "gRegister", "mark"}, a \in Users \cup {Nobody} :
        StartLoading(h, pc, a) \/ StartPlain(h, pc, a)
  BY <1>1 DEF Tap, TapCreateAccount, TapLogin, TapReset, TapGoogle, TapProceed,
              TapResend, TapVerifyBack, TapLogout, TapChoose, Waiting
<1>3. PICK pc \in Waiting \ {"register", "gRegister", "mark"}, a \in Users \cup {Nobody} :
        StartLoading(h, pc, a) \/ StartPlain(h, pc, a)
  BY <1>2
<1>4. SparesOthers(h) /\ call'[h].pc = pc
  BY <1>1, <1>3, StartLoadingKeeps, StartPlainKeeps
<1>5. UNCHANGED <<authVars, ghostVars>> /\ call[h] = Idle
  BY <1>3 DEF StartLoading, StartPlain, Start, Begin
<1> QED
  BY <1>4, <1>5, IdleCall

(* A handler that resumes ends, or goes on to an errand that has nothing   *)
(* to do with a registration, or registers whoever is signed in now; an    *)
(* account it was about to register is registered or noted as faulted.     *)
Resumed(h) ==
  /\ SparesOthers(h) /\ UNCHANGED authVars /\ faulted \subseteq faulted'
  /\ \/ call'[h].pc \in {"idle", "mail", "mark", "choose"}
     \/ /\ call[h].pc = "created" /\ call[h].reply = "ok"
        /\ call'[h].pc = "register"
        /\ call'[h].uid = session /\ call'[h].acct = call[h].acct
     \/ /\ call[h].pc = "googled" /\ call[h].reply = "ok"
        /\ call'[h].pc = "gRegister"
        /\ call'[h].uid = session /\ call'[h].acct = session
  /\ call[h].pc \in {"created", "googled"} /\ call[h].reply = "ok" =>
       \/ call[h].acct \in faulted'
       \/ session = call[h].acct /\ call'[h].pc \in {"register", "gRegister"}

LEMMA ResumeMoves ==
  ASSUME AuthInv, NEW h \in Handlers, Resume(h)
  PROVE  Resumed(h)
<1>1. /\ FlowOK /\ call[h] \in Call /\ Addressed(call[h])
      /\ call \in [Handlers -> Call]
      /\ call[h].life = "shown" => call[h].scr \in 1 .. Len(stack)
  BY InvParts DEF FlowOK, Placed
<1>2. UNCHANGED authVars /\ call[h].pc \in Resuming
  BY DEF Resume, SignUpCreated, SignUpRegistered, SignUpMailed, LoginDone, ResetDone,
         GoogleSigned, GoogleRegistered, CheckEmailVerified, SignedOut, LoggedOut,
         IntrestAdded, Resuming
<1>3. HomeOf(cached) \in Pages
  BY DEF HomeOf, Pages
<1>4. ASSUME Return(h) \/ Throw(h) \/ StopLoading(h) \/ \E p \in Pages : GoTo(h, p)
      PROVE  SparesOthers(h) /\ call'[h].pc = "idle"
  BY <1>1, <1>2, <1>4, ReturnKeeps, ThrowKeeps, StopLoadingKeeps, GoToKeeps
<1>5. ASSUME Finish(h)
      PROVE  SparesOthers(h) /\ call'[h].pc = "idle"
  BY <1>1, <1>5, FinishKeeps
<1>6. CASE SignUpCreated(h)
  <2>1. call[h].pc = "created" /\ call[h].acct \in Users /\ faulted \subseteq faulted'
    BY <1>1, <1>6 DEF SignUpCreated, Addressed
  <2>2. CASE Return(h) \/ Throw(h) \/ StopLoading(h)
    <3>1. SparesOthers(h) /\ call'[h].pc = "idle"
      BY <1>4, <2>2
    <3>2. call[h].reply = "ok" => ~(session # Nobody /\ Register(h))
      BY <3>1, <1>1 DEF Register, Call
    <3>3. call[h].reply = "ok" => call[h].acct \in faulted'
      BY <1>6, <2>1, <3>2, AccountsAssumption DEF SignUpCreated, Succeeded
    <3> QED
      BY <1>2, <2>1, <3>1, <3>3 DEF Resumed
  <2>3. CASE session # Nobody /\ Register(h) /\ call[h].reply = "ok"
             /\ faulted' = IF session = call[h].acct THEN faulted ELSE faulted \cup {call[h].acct}
    <3>1. SparesOthers(h)
      BY <1>1, <2>3 DEF Register, SparesOthers, SameErrand
    <3>2. /\ call'[h].pc = "register" /\ call'[h].uid = session
          /\ call'[h].acct = call[h].acct
      BY <1>1, <2>3 DEF Register, Call
    <3> QED
      BY <1>2, <2>1, <2>3, <3>1, <3>2 DEF Resumed
  <2> QED
    BY <1>6, <2>2, <2>3 DEF SignUpCreated, Succeeded
<1>7. CASE GoogleSigned(h)
  <2>1. call[h].pc = "googled" /\ faulted \subseteq faulted'
        /\ (call[h].reply = "ok" => call[h].acct \in Users)
    BY <1>1, <1>7 DEF GoogleSigned, Addressed
  <2>2. CASE Throw(h) \/ StopLoading(h)
    <3>1. SparesOthers(h) /\ call'[h].pc = "idle"
      BY <1>4, <2>2
    <3>2. call[h].reply = "ok" =>
            /\ faulted' = IF session = call[h].acct THEN faulted ELSE faulted \cup {call[h].acct}
            /\ session = Nobody \/ call'[h].pc = "gRegister"
      BY <1>1, <1>7 DEF GoogleSigned, Call
    <3>3. call[h].reply = "ok" => call[h].acct \in faulted'
      BY <2>1, <3>1, <3>2, AccountsAssumption
    <3> QED
      BY <1>2, <2>1, <3>1, <3>3 DEF Resumed
  <2>3. CASE /\ session # Nobody /\ call[h].reply = "ok"
             /\ faulted' = IF session = call[h].acct THEN faulted ELSE faulted \cup {call[h].acct}
             /\ call' = [call EXCEPT ![h].pc = "gRegister", ![h].reply = "none",
                                     ![h].acct = session, ![h].uid = session,
                                     ![h].ver = cached]
    <3>1. SparesOthers(h)
      BY <1>1, <2>3 DEF SparesOthers, SameErrand
    <3>2. /\ call'[h].pc = "gRegister" /\ call'[h].uid = session /\ call'[h].acct = session
      BY <1>1, <2>3 DEF Call
    <3> QED
      BY <1>2, <2>1, <2>3, <3>1, <3>2 DEF Resumed
  <2> QED
    BY <1>7, <2>2, <2>3 DEF GoogleSigned
<1>8. ASSUME call[h].pc \notin {"created", "googled"}, faulted' = faulted,
             SparesOthers(h), call'[h].pc \in {"idle", "mail", "mark", "choose"}
      PROVE  Resumed(h)
  BY <1>2, <1>8 DEF Resumed
<1>9. CASE SignUpRegistered(h)
  <2>1. CASE Answer(h, "mail", "none")
    <3>1. SparesOthers(h) /\ call'[h].pc = "mail"
      BY <1>1, <2>1, AnswerKeeps DEF PCs, Waiting, Replies
    <3> QED
      BY <1>8, <1>9, <3>1 DEF SignUpRegistered
  <2> QED
    BY <1>4, <1>8, <1>9, <2>1 DEF SignUpRegistered
<1>10. CASE GoogleRegistered(h)
  BY <1>4, <1>5, <1>8, <1>10 DEF GoogleRegistered
<1>11. CASE CheckEmailVerified(h)
  <2>1. CASE /\ session # Nobody
             /\ ReplaceTop(h, "Interests", [Idle EXCEPT !.pc = "mark", !.uid = session])
    <3> DEFINE c == [Idle EXCEPT !.pc = "mark", !.uid = session]
    <3>1. c \in Call /\ c.life = "none" /\ c.pc = "mark"
      BY <2>1, DataParts DEF Idle, Call, Waiting, Replies, AccountsTypeOK
    <3>2. ReplaceTop(h, "Interests", c)
      BY <2>1
    <3> HIDE DEF c
    <3>3. SparesOthers(h) /\ call'[h].pc = "mark"
      BY <1>1, <1>2, <3>1, <3>2, ReplaceTopKeeps DEF Pages, SameErrand
    <3> QED
      BY <1>8, <1>11, <3>3 DEF CheckEmailVerified
  <2> QED
    BY <1>4, <1>8, <1>11, <2>1 DEF CheckEmailVerified
<1>12. CASE LoggedOut(h)
  BY <1>4, <1>5, <1>8, <1>12 DEF LoggedOut, Pages
<1>13. CASE IntrestAdded(h)
  <2>1. CASE ReplaceTop(h, "Main", [call[h] EXCEPT !.pc = "choose", !.reply = "none"])
    <3> DEFINE c == [call[h] EXCEPT !.pc = "choose", !.reply = "none"]
    <3>1. /\ c \in Call /\ c.life = call[h].life /\ c.scr = call[h].scr /\ c.pc = "choose"
      BY <1>1 DEF Call, Waiting, Replies
    <3>2. ReplaceTop(h, "Main", c)
      BY <2>1
    <3> HIDE DEF c
    <3>3. SparesOthers(h) /\ call'[h].pc = "choose"
      BY <1>1, <1>2, <3>1, <3>2, ReplaceTopKeeps DEF Pages, SameErrand
    <3> QED
      BY <1>8, <1>13, <3>3 DEF IntrestAdded
  <2> QED
    BY <1>4, <1>8, <1>13, <2>1 DEF IntrestAdded, Pages
<1>14. CASE SignUpMailed(h) \/ LoginDone(h) \/ ResetDone(h) \/ SignedOut(h)
  BY <1>3, <1>4, <1>8, <1>14 DEF SignUpMailed, LoginDone, ResetDone, SignedOut, Pages
<1> QED
  BY <1>6, <1>7, <1>9, <1>10, <1>11, <1>12, <1>13, <1>14 DEF Resume

(* The navigator, the framework and the mail program disturb no errand.    *)
NobodyMoves == \A g \in Handlers : SameErrand(call'[g], call[g])

LEMMA OthersMove ==
  ASSUME AuthInv,
         \/ SplashTimer \/ Navigate \/ PersistSkip
         \/ \E h \in Handlers : Dispose(h)
         \/ \E a \in Users : FollowLink(a)
         \/ UNCHANGED vars
  PROVE  /\ NobodyMoves /\ UNCHANGED <<rows, session, cached, crossed, ghostVars>>
         /\ \A a \in Users : fb'[a] # "none" => fb[a] # "none"
<1>1. FlowOK /\ call \in [Handlers -> Call]
  BY InvParts DEF FlowOK, Placed
<1>2. CASE SplashTimer \/ OpenScreen \/ SkipOnboarding \/ SkipLogin \/ OpenSheet
           \/ TapSheetLogin \/ PersistSkip \/ UNCHANGED vars
  BY <1>2 DEF SplashTimer, OpenScreen, SkipOnboarding, SkipLogin, OpenSheet,
              TapSheetLogin, PersistSkip, vars, authVars, ghostVars, NobodyMoves, SameErrand
<1>3. CASE SystemBack
  <2>1. NobodyMoves
    BY <1>1, <1>3, TopLeavesKeeps DEF SystemBack, NobodyMoves, FlowOK
  <2> QED
    BY <1>3, <2>1 DEF SystemBack, authVars
<1>4. ASSUME NEW h \in Handlers, Dispose(h)
      PROVE  NobodyMoves /\ UNCHANGED <<authVars, ghostVars>>
  BY <1>1, <1>4 DEF Dispose, NobodyMoves, SameErrand, Call
<1>5. ASSUME NEW a \in Users, FollowLink(a)
      PROVE  /\ NobodyMoves /\ UNCHANGED <<rows, session, cached, crossed, ghostVars>>
             /\ \A u \in Users : fb'[u] # "none" => fb[u] # "none"
  BY <1>5, DataParts DEF FollowLink, VerifyEmail, NobodyMoves, SameErrand, AccountsTypeOK
<1> QED
  BY <1>2, <1>3, <1>4, <1>5 DEF Navigate, authVars

--------------------------------------------------------------------------------
(* A row carries the e-mail of its account.  While no session crossed, an  *)
(* account that has just been created is the one signed in, and a handler  *)
(* registers the account it is about.                                      *)

Straight(c) ==
  /\ c.pc = "created" /\ c.reply = "ok" => session = c.acct
  /\ c.pc \in {"register", "gRegister"} => c.uid = c.acct

CrossInv ==
  ~crossed => /\ \A r \in rows : r.email = r.uid
              /\ \A h \in Handlers : Straight(call[h])

(* Only the handlers that a change of the session finds idle are spared a  *)
(* crossing, and those have nothing to file.                               *)
LEMMA StraightStep ==
  ASSUME AuthInv, CrossInv, NEW h \in Handlers, SparesOthers(h),
         ~crossed' =>
           /\ ~crossed
           /\ \A r \in rows' : r.email = r.uid
           /\ session' = session \/ \A g \in Handlers \ {h} : ~Busy(g)
           /\ Straight(call[h])'
  PROVE  CrossInv'
<1>1. ASSUME NEW g \in Handlers \ {h}, ~crossed'
      PROVE  Straight(call[g])'
  <2>1. Straight(call[g]) /\ SameErrand(call'[g], call[g])
    BY <1>1 DEF CrossInv, SparesOthers
  <2>2. CASE session' = session
    BY <2>1, <2>2 DEF Straight, SameErrand
  <2>3. CASE call[g].pc = "idle"
    BY <2>1, <2>3 DEF Straight, SameErrand
  <2> QED
    BY <1>1, <2>2, <2>3 DEF Busy
<1> QED
  BY <1>1 DEF CrossInv

LEMMA ServiceKeepsStraight ==
  ASSUME AuthInv, CrossInv, NEW h \in Handlers, Service(h)
  PROVE  CrossInv'
<1>1. /\ FlowOK /\ call[h] \in Call /\ Addressed(call[h])
      /\ call \in [Handlers -> Call] /\ rows \subseteq Row
      /\ Resuming \subseteq PCs
  BY InvParts, DataParts DEF FlowOK, Placed, AccountsTypeOK, PCs
<1>2. ASSUME NEW pc \in Resuming, NEW reply \in Replies, Answer(h, pc, reply)
      PROVE  /\ SparesOthers(h) /\ call'[h].pc = pc /\ call'[h].reply = reply
             /\ call'[h].acct = call[h].acct
  BY <1>1, <1>2, AnswerKeeps
<1>3. ASSUME Finish(h)
      PROVE  SparesOthers(h) /\ call'[h].pc = "idle"
  BY <1>1, <1>3, FinishKeeps
<1>4. ASSUME NEW a, NEW v, ChangeSession(h, a, v), ~crossed'
      PROVE  /\ ~crossed /\ session' = a
             /\ session' = session \/ \A g \in Handlers \ {h} : ~Busy(g)
  BY <1>4 DEF ChangeSession
<1>5. CASE FirebaseCreate(h)
  <2>1. PICK reply \in {"ok", "fail"} :
          /\ Answer(h, "created", reply)
          /\ \/ reply = "ok" /\ ChangeSession(h, call[h].acct, FALSE)
             \/ reply = "fail" /\ UNCHANGED sessionVars
    BY <1>5 DEF FirebaseCreate
  <2>2. /\ SparesOthers(h) /\ call'[h].pc = "created" /\ call'[h].reply = reply
        /\ call'[h].acct = call[h].acct
    BY <1>2, <2>1 DEF Resuming, Replies
  <2>3. rows' = rows
    BY <1>5 DEF FirebaseCreate
  <2>4. CASE reply = "ok"
    BY <1>4, <2>1, <2>2, <2>3, <2>4, StraightStep DEF Straight, CrossInv
  <2>5. CASE reply = "fail"
    BY <2>1, <2>2, <2>3, <2>5, StraightStep DEF Straight, CrossInv, sessionVars
  <2> QED
    BY <2>4, <2>5
<1>6. CASE BackendRegister(h)
  <2>1. PICK pc \in {"registered", "gRegistered"}, reply \in {"registered", "exists", "error", "threw"} :
          Answer(h, pc, reply)
    BY <1>6 DEF BackendRegister
  <2>2. SparesOthers(h) /\ call'[h].pc = pc
    BY <1>2, <2>1 DEF Resuming, Replies
  <2>3. UNCHANGED sessionVars
        /\ rows' \subseteq rows \cup
             {[uid |-> call[h].uid, email |-> call[h].acct, verified |-> call[h].ver]}
        /\ call[h].pc \in {"register", "gRegister"}
    BY <1>6 DEF BackendRegister
  <2>4. ~crossed => \A r \in rows' : r.email = r.uid
    BY <2>3 DEF CrossInv, Straight
  <2> QED
    BY <2>2, <2>3, <2>4, StraightStep DEF Straight, sessionVars
<1>7. CASE FirebaseLogin(h)
  <2>1. PICK reply \in {"ok", "fail"} :
          /\ Answer(h, "loggedIn", reply)
          /\ \/ ChangeSession(h, call[h].acct, fb[call[h].acct] = "verified")
             \/ UNCHANGED sessionVars
    BY <1>7 DEF FirebaseLogin
  <2>2. SparesOthers(h) /\ call'[h].pc = "loggedIn" /\ rows' = rows
    BY <1>2, <1>7, <2>1 DEF Resuming, Replies, FirebaseLogin
  <2> QED
    BY <1>4, <2>1, <2>2, StraightStep DEF Straight, CrossInv, sessionVars
<1>8. CASE FirebaseGoogle(h)
  <2>1. CASE \E a \in Users :
               /\ ChangeSession(h, a, TRUE)
               /\ call' = [call EXCEPT ![h].pc = "googled", ![h].reply = "ok", ![h].acct = a]
    <3>1. PICK a \in Users :
            /\ ChangeSession(h, a, TRUE)
            /\ call' = [call EXCEPT ![h].pc = "googled", ![h].reply = "ok", ![h].acct = a]
      BY <2>1
    <3>2. SparesOthers(h) /\ call'[h].pc = "googled"
      BY <1>1, <3>1 DEF SparesOthers, SameErrand, Call
    <3>3. rows' = rows
      BY <1>8 DEF FirebaseGoogle
    <3> QED
      BY <1>4, <3>1, <3>2, <3>3, StraightStep DEF Straight, CrossInv
  <2>2. CASE \E reply \in {"fail", "threw"} : Answer(h, "googled", reply) /\ UNCHANGED sessionVars
    <3>1. SparesOthers(h) /\ call'[h].pc = "googled" /\ rows' = rows
      BY <1>2, <1>8, <2>2 DEF Resuming, Replies, FirebaseGoogle
    <3> QED
      BY <2>2, <3>1, StraightStep DEF Straight, CrossInv, sessionVars
  <2> QED
    BY <1>8, <2>1, <2>2 DEF FirebaseGoogle
<1>9. CASE FirebaseReload(h)
  <2>1. \E reply \in {"ok", "threw"} : Answer(h, "reloaded", reply)
    BY <1>9 DEF FirebaseReload
  <2>2. SparesOthers(h) /\ call'[h].pc = "reloaded"
    BY <1>2, <2>1 DEF Resuming, Replies
  <2> QED
    BY <1>9, <2>2, StraightStep DEF FirebaseReload, Straight, CrossInv
<1>10. CASE BackendMark(h)
  <2>1. SparesOthers(h) /\ call'[h].pc = "idle" /\ UNCHANGED sessionVars
    BY <1>3, <1>10 DEF BackendMark
  <2> DEFINE Marked(r) == IF r.uid = call[h].uid THEN [r EXCEPT !.verified = TRUE] ELSE r
  <2>2. \A r \in Row : Marked(r).email = r.email /\ Marked(r).uid = r.uid
    BY DEF Row
  <2>3. \A q \in rows' : \E r \in rows : q.email = r.email /\ q.uid = r.uid
    <3>1. rows' = {Marked(r) : r \in rows} \/ rows' = rows
      BY <1>10 DEF BackendMark
    <3> HIDE DEF Marked
    <3> QED
      BY <1>1, <2>2, <3>1
  <2> QED
    BY <2>1, <2>3, StraightStep DEF Straight, CrossInv, sessionVars
<1>11. CASE FirebaseSignOut(h)
  <2>1. \E pc \in {"signedOut", "loggedOut"} : Answer(h, pc, "ok")
    BY <1>11 DEF FirebaseSignOut
  <2>2. SparesOthers(h) /\ call'[h].pc \in {"signedOut", "loggedOut"} /\ rows' = rows
    BY <1>2, <1>11, <2>1 DEF Resuming, Replies, FirebaseSignOut
  <2> QED
    BY <1>4, <1>11, <2>2, StraightStep DEF FirebaseSignOut, Straight, CrossInv
<1>12. CASE FirebaseMail(h) \/ FirebaseReset(h) \/ BackendIntrest(h)
  <2>1. \/ Finish(h)
        \/ \E pc \in {"mailed", "resetDone", "chosen"}, reply \in {"ok", "fail", "threw"} :
             Answer(h, pc, reply)
    BY <1>12 DEF FirebaseMail, FirebaseReset, BackendIntrest
  <2>2. SparesOthers(h) /\ call'[h].pc \in {"idle", "mailed", "resetDone", "chosen"}
    BY <1>2, <1>3, <2>1 DEF Resuming, Replies
  <2>3. UNCHANGED authVars
    BY <1>12 DEF FirebaseMail, FirebaseReset, BackendIntrest
  <2> QED
    BY <2>2, <2>3, StraightStep DEF Straight, CrossInv, authVars
<1> QED
  BY <1>5, <1>6, <1>7, <1>8, <1>9, <1>10, <1>11, <1>12 DEF Service

(* A row filed under another account's uid needs a session that changed    *)
(* under a suspended handler, for any number of accounts and handlers.     *)
THEOREM RowsMatchAccounts == Spec => []RowMatchesAccount
<1>1. Init => CrossInv
  BY IdleCall DEF Init, AccountsInit, CrossInv, Straight
<1>2. AuthInv /\ CrossInv /\ [Next]_vars => CrossInv'
  <2> SUFFICES ASSUME AuthInv, CrossInv, [Next]_vars
               PROVE  CrossInv'
    OBVIOUS
  <2>1. ASSUME NEW h \in Handlers, Resume(h) PROVE CrossInv'
    <3>1. Resumed(h)
      BY <2>1, ResumeMoves
    <3>2. SparesOthers(h) /\ UNCHANGED <<rows, session, crossed>>
      BY <3>1 DEF Resumed, authVars
    <3>3. ~crossed => Straight(call[h])'
      BY <3>1, <3>2 DEF Resumed, Straight, CrossInv
    <3> QED
      BY <3>2, <3>3, StraightStep DEF CrossInv
  <2>2. ASSUME NEW h \in Handlers, Tap(h) PROVE CrossInv'
    <3>1. /\ SparesOthers(h) /\ UNCHANGED <<rows, session, crossed>>
          /\ call'[h].pc \in Waiting \ {"register", "gRegister", "mark"}
      BY <2>2, TapMoves DEF authVars
    <3>2. Straight(call[h])'
      BY <3>1 DEF Straight, Waiting
    <3> QED
      BY <3>1, <3>2, StraightStep DEF CrossInv
  <2>3. CASE \/ SplashTimer \/ Navigate \/ PersistSkip
             \/ \E h \in Handlers : Dispose(h)
             \/ \E a \in Users : FollowLink(a)
             \/ UNCHANGED vars
    <3>1. NobodyMoves /\ UNCHANGED <<rows, session, crossed>>
      BY <2>3, OthersMove
    <3> QED
      BY <3>1 DEF NobodyMoves, SameErrand, CrossInv, Straight
  <2>4. CASE Restart
    BY <2>4, IdleCall DEF Restart, authVars, CrossInv, Straight
  <2> QED
    BY <2>1, <2>2, <2>3, <2>4, ServiceKeepsStraight DEF Next
<1>3. CrossInv => RowMatchesAccount
  BY DEF CrossInv, RowMatchesAccount
<1> QED
  BY <1>1, <1>2, <1>3, InitEstablishes, StepKeeps, PTL DEF Spec

--------------------------------------------------------------------------------
(* No account is without a row for a reason that the model does not name.  *)

(* Handler c has account a on its way to the backend.                      *)
Carries(c, a) ==
  /\ c.acct = a
  /\ \/ c.pc \in {"created", "googled"} /\ c.reply = "ok"
     \/ c.pc \in {"register", "gRegister"} /\ c.uid = a

LEMMA OnItsWayCarried == \A a : OnItsWay(a) <=> \E h \in Handlers : Carries(call[h], a)
BY DEF OnItsWay, Carries

(* A step that takes no row and no fault back loses an account only if     *)
(* h did, and knows a new one only if h has it.                            *)
LEMMA OrphanStep ==
  ASSUME NoSilentOrphan, NEW h \in Handlers, SparesOthers(h), faulted \subseteq faulted',
         \A a \in Users : HasRow(a) => HasRow(a)',
         \A a \in Users : (fb'[a] # "none" /\ fb[a] = "none") \/ Carries(call[h], a) =>
           a \in faulted' \/ HasRow(a)' \/ Carries(call[h], a)'
  PROVE  NoSilentOrphan'
<1> SUFFICES ASSUME NEW a \in Users, fb'[a] # "none", ~HasRow(a)', a \notin faulted'
             PROVE  OnItsWay(a)'
  BY DEF NoSilentOrphan
<1>1. CASE fb[a] = "none" \/ Carries(call[h], a)
  BY <1>1 DEF OnItsWay, Carries
<1>2. CASE fb[a] # "none" /\ ~Carries(call[h], a)
  <2>1. PICK g \in Handlers : Carries(call[g], a)
    BY <1>2, OnItsWayCarried DEF NoSilentOrphan
  <2>2. SameErrand(call'[g], call[g])
    BY <1>2, <2>1 DEF SparesOthers
  <2>3. Carries(call'[g], a)
    BY <2>1, <2>2 DEF Carries, SameErrand
  <2> QED
    BY <2>3 DEF OnItsWay, Carries
<1> QED
  BY <1>1, <1>2

(* A service that has no account to lose.                                  *)
LEMMA IdleServiceStep ==
  ASSUME NoSilentOrphan, NEW h \in Handlers, SparesOthers(h), faulted' = faulted,
         rows' = rows, fb' = fb,
         call[h].pc \notin {"created", "googled", "register", "gRegister"}
  PROVE  NoSilentOrphan'
BY OrphanStep DEF Carries, HasRow

LEMMA ServiceKeepsAccounts ==
  ASSUME AuthInv, NoSilentOrphan, NEW h \in Handlers, Service(h)
  PROVE  NoSilentOrphan'
<1>1. /\ FlowOK /\ call[h] \in Call /\ Addressed(call[h])
      /\ call \in [Handlers -> Call] /\ fb \in [Users -> FbState] /\ rows \subseteq Row
  BY InvParts, DataParts DEF FlowOK, Placed, AccountsTypeOK
<1>2. ASSUME NEW pc \in Resuming, NEW reply \in Replies, Answer(h, pc, reply)
      PROVE  /\ SparesOthers(h) /\ call'[h].pc = pc /\ call'[h].reply = reply
             /\ call'[h].acct = call[h].acct
  BY <1>1, <1>2, AnswerKeeps DEF PCs
<1>3. CASE FirebaseCreate(h)
  <2> DEFINE a == call[h].acct
  <2>1. a \in Users /\ call[h].pc = "create" /\ rows' = rows /\ faulted \subseteq faulted'
    BY <1>1, <1>3 DEF FirebaseCreate, Addressed
  <2>2. PICK reply \in {"ok", "fail"} :
          /\ Answer(h, "created", reply)
          /\ fb' = fb \/ (fb' = [fb EXCEPT ![a] = "unverified"] /\ (reply = "ok" \/ a \in faulted'))
    BY <1>3 DEF FirebaseCreate
  <2>3. /\ SparesOthers(h) /\ call'[h].pc = "created" /\ call'[h].reply = reply
        /\ call'[h].acct = a
    BY <1>2, <2>2 DEF Resuming, Replies
  <2>4. \A u \in Users : fb'[u] # "none" /\ fb[u] = "none" => u = a /\ (reply = "ok" \/ a \in faulted')
    BY <1>1, <2>1, <2>2
  <2> HIDE DEF a
  <2>5. \A u \in Users : (fb'[u] # "none" /\ fb[u] = "none") \/ Carries(call[h], u) =>
          u \in faulted' \/ Carries(call[h], u)'
    BY <2>1, <2>3, <2>4 DEF Carries
  <2> QED
    BY <2>1, <2>3, <2>5, OrphanStep DEF HasRow
<1>4. CASE BackendRegister(h)
  <2>1. PICK pc \in {"registered", "gRegistered"}, reply \in {"registered", "exists", "error", "threw"} :
          Answer(h, pc, reply)
    BY <1>4 DEF BackendRegister
  <2>2. SparesOthers(h)
    BY <1>2, <2>1 DEF Resuming, Replies
  <2>3. /\ fb' = fb /\ faulted \subseteq faulted' /\ rows \subseteq rows'
        /\ call[h].pc \in {"register", "gRegister"}
        /\ \/ HasRow(call[h].uid) \/ call[h].acct \in faulted'
           \/ [uid |-> call[h].uid, email |-> call[h].acct, verified |-> call[h].ver] \in rows'
    BY <1>4 DEF BackendRegister
  <2>4. \A u \in Users : HasRow(u) => HasRow(u)'
    BY <2>3 DEF HasRow
  <2>5. \A u \in Users : Carries(call[h], u) => u \in faulted' \/ HasRow(u)'
    <3>1. ASSUME NEW u \in Users, Carries(call[h], u)
          PROVE  call[h].acct = u /\ call[h].uid = u
      BY <2>3, <3>1 DEF Carries
    <3>2. ASSUME NEW u \in Users, call[h].uid = u,
                 [uid |-> call[h].uid, email |-> call[h].acct, verified |-> call[h].ver] \in rows'
          PROVE  HasRow(u)'
      BY <3>2 DEF HasRow
    <3> QED
      BY <2>3, <2>4, <3>1, <3>2
  <2> QED
    BY <2>2, <2>3, <2>4, <2>5, OrphanStep
<1>5. CASE FirebaseLogin(h)
  <2>1. /\ \E reply \in {"ok", "fail"} : Answer(h, "loggedIn", reply)
        /\ UNCHANGED <<fb, rows, faulted>> /\ call[h].pc = "login"
    BY <1>5 DEF FirebaseLogin, ghostVars
  <2> QED
    BY <1>2, <2>1, IdleServiceStep DEF Resuming, Replies
<1>6. CASE FirebaseGoogle(h)
  <2>1. UNCHANGED <<rows, faulted>> /\ call[h].pc = "google"
    BY <1>6 DEF FirebaseGoogle, ghostVars
  <2>2. CASE \E reply \in {"fail", "threw"} : Answer(h, "googled", reply) /\ fb' = fb
    BY <1>2, <2>1, <2>2, IdleServiceStep DEF Resuming, Replies
  <2>3. CASE \E a \in Users :
               /\ fb' = [fb EXCEPT ![a] = "verified"]
               /\ call' = [call EXCEPT ![h].pc = "googled", ![h].reply = "ok", ![h].acct = a]
    <3>1. PICK a \in Users :
            /\ fb' = [fb EXCEPT ![a] = "verified"]
            /\ call' = [call EXCEPT ![h].pc = "googled", ![h].reply = "ok", ![h].acct = a]
      BY <2>3
    <3>2. /\ SparesOthers(h) /\ call'[h].pc = "googled" /\ call'[h].reply = "ok"
          /\ call'[h].acct = a
      BY <1>1, <3>1 DEF SparesOthers, SameErrand, Call
    <3>3. \A u \in Users : fb'[u] # "none" /\ fb[u] = "none" => u = a
      BY <1>1, <3>1
    <3>4. \A u \in Users : (fb'[u] # "none" /\ fb[u] = "none") \/ Carries(call[h], u) =>
            Carries(call[h], u)'
      BY <2>1, <3>2, <3>3 DEF Carries
    <3> QED
      BY <2>1, <3>2, <3>4, OrphanStep DEF HasRow
  <2> QED
    BY <1>6, <2>2, <2>3 DEF FirebaseGoogle
<1>7. CASE FirebaseReload(h)
  <2>1. /\ \E reply \in {"ok", "threw"} : Answer(h, "reloaded", reply)
        /\ UNCHANGED <<fb, rows, faulted>> /\ call[h].pc = "reload"
    BY <1>7 DEF FirebaseReload, ghostVars
  <2> QED
    BY <1>2, <2>1, IdleServiceStep DEF Resuming, Replies
<1>8. CASE BackendMark(h)
  <2>1. /\ SparesOthers(h) /\ UNCHANGED <<fb, faulted>> /\ call[h].pc = "mark"
    BY <1>1, <1>8, FinishKeeps DEF BackendMark, ghostVars
  <2> DEFINE Marked(r) == IF r.uid = call[h].uid THEN [r EXCEPT !.verified = TRUE] ELSE r
  <2>2. \A r \in Row : Marked(r).uid = r.uid
    BY DEF Row
  <2>3. \A r \in rows : \E q \in rows' : q.uid = r.uid
    <3>1. rows' = {Marked(r) : r \in rows} \/ rows' = rows
      BY <1>8 DEF BackendMark
    <3> HIDE DEF Marked
    <3> QED
      BY <1>1, <2>2, <3>1
  <2>4. \A u \in Users : HasRow(u) => HasRow(u)'
    BY <2>3 DEF HasRow
  <2> QED
    BY <2>1, <2>4, OrphanStep DEF Carries
<1>9. CASE FirebaseSignOut(h)
  <2>1. /\ \E pc \in {"signedOut", "loggedOut"} : Answer(h, pc, "ok")
        /\ UNCHANGED <<fb, rows, faulted>> /\ call[h].pc \in {"signOut", "logout"}
    BY <1>9 DEF FirebaseSignOut, ghostVars
  <2> QED
    BY <1>2, <2>1, IdleServiceStep DEF Resuming, Replies
<1>10. CASE FirebaseMail(h) \/ FirebaseReset(h) \/ BackendIntrest(h)
  <2>1. /\ \/ Finish(h)
           \/ \E pc \in {"mailed", "resetDone", "chosen"}, reply \in {"ok", "fail", "threw"} :
                Answer(h, pc, reply)
        /\ UNCHANGED <<fb, rows, faulted>>
        /\ call[h].pc \in {"mail", "resend", "reset", "choose"}
    BY <1>10 DEF FirebaseMail, FirebaseReset, BackendIntrest, authVars, ghostVars
  <2>2. SparesOthers(h)
    BY <1>1, <1>2, <2>1, FinishKeeps DEF Resuming, Replies
  <2> QED
    BY <2>1, <2>2, IdleServiceStep
<1> QED
  BY <1>3, <1>4, <1>5, <1>6, <1>7, <1>8, <1>9, <1>10 DEF Service

(* An account without a row is on its way or was left behind by a failure  *)
(* that has a name, for any number of accounts and handlers; a crash names *)
(* every account that a handler carried.                                   *)
THEOREM NoOrphanIsSilent == Spec => []NoSilentOrphan
<1>1. Init => NoSilentOrphan
  BY DEF Init, AccountsInit, NoSilentOrphan
<1>2. AuthInv /\ NoSilentOrphan /\ [Next]_vars => NoSilentOrphan'
  <2> SUFFICES ASSUME AuthInv, NoSilentOrphan, [Next]_vars
               PROVE  NoSilentOrphan'
    OBVIOUS
  <2>1. ASSUME NEW h \in Handlers, Resume(h) PROVE NoSilentOrphan'
    <3>1. Resumed(h)
      BY <2>1, ResumeMoves
    <3>2. /\ SparesOthers(h) /\ UNCHANGED <<fb, rows>> /\ faulted \subseteq faulted'
          /\ call[h].pc \in Resuming
      BY <2>1, <3>1 DEF Resumed, authVars, Resume, SignUpCreated, SignUpRegistered,
           SignUpMailed, LoginDone, ResetDone, GoogleSigned, GoogleRegistered,
           CheckEmailVerified, SignedOut, LoggedOut, IntrestAdded, Resuming
    <3>3. \A a \in Users : Carries(call[h], a) => a \in faulted' \/ Carries(call[h], a)'
      BY <3>1, <3>2 DEF Resumed, Carries, Resuming
    <3> QED
      BY <3>2, <3>3, OrphanStep DEF HasRow
  <2>2. ASSUME NEW h \in Handlers, Tap(h) PROVE NoSilentOrphan'
    <3>1. SparesOthers(h) /\ UNCHANGED <<fb, rows, faulted>> /\ call[h].pc = "idle"
      BY <2>2, TapMoves DEF authVars, ghostVars
    <3> QED
      BY <3>1, IdleServiceStep
  <2>3. CASE \/ SplashTimer \/ Navigate \/ PersistSkip
             \/ \E h \in Handlers : Dispose(h)
             \/ \E a \in Users : FollowLink(a)
             \/ UNCHANGED vars
    <3>1. /\ NobodyMoves /\ UNCHANGED <<rows, faulted>>
          /\ \A a \in Users : fb'[a] # "none" => fb[a] # "none"
      BY <2>3, OthersMove DEF ghostVars
    <3>2. ASSUME NEW a \in Users, OnItsWay(a) PROVE OnItsWay(a)'
      BY <3>1, <3>2 DEF NobodyMoves, SameErrand, OnItsWay
    <3> QED
      BY <3>1, <3>2 DEF NoSilentOrphan, HasRow
  <2>4. CASE Restart
    <3>1. UNCHANGED <<fb, rows>> /\ faulted' = faulted \cup ({call[h].acct : h \in Handlers} \ {Nobody})
      BY <2>4 DEF Restart, authVars
    <3>2. ASSUME NEW a \in Users, OnItsWay(a) PROVE a \in faulted'
      BY <3>1, <3>2, AccountsAssumption DEF OnItsWay
    <3> QED
      BY <3>1, <3>2 DEF NoSilentOrphan, HasRow
  <2> QED
    BY <2>1, <2>2, <2>3, <2>4, ServiceKeepsAccounts DEF Next
<1> QED
  BY <1>1, <1>2, InitEstablishes, StepKeeps, PTL DEF Spec

--------------------------------------------------------------------------------
(* Only two resumptions use a State that is disposed.                      *)

(* A handler that looked at mounted uses a State that is there.            *)
LEMMA MountedUse ==
  ASSUME NEW c, MountedAfterAwait(c), Uses(c)
  PROVE  lateUse' = lateUse
BY DEF MountedAfterAwait, Uses

LEMMA ResumeUses ==
  ASSUME NEW h \in Handlers, Resume(h)
  PROVE  lateUse' \subseteq lateUse \cup {"googled", "loggedOut"}
<1> USE MountedUse DEF Return, Throw, StopLoading, GoTo, ReplaceTop
<1>1. CASE SignUpCreated(h) \/ SignUpRegistered(h) \/ SignUpMailed(h)
  BY <1>1 DEF SignUpCreated, SignUpRegistered, SignUpMailed
<1>2. CASE LoginDone(h) \/ ResetDone(h) \/ SignedOut(h)
  BY <1>2 DEF LoginDone, ResetDone, SignedOut
<1>3. CASE GoogleRegistered(h) \/ CheckEmailVerified(h) \/ IntrestAdded(h)
  BY <1>3 DEF GoogleRegistered, CheckEmailVerified, IntrestAdded
<1>4. CASE GoogleSigned(h) \/ LoggedOut(h)
  BY <1>4 DEF GoogleSigned, LoggedOut, Uses
<1> QED
  BY <1>1, <1>2, <1>3, <1>4 DEF Resume

(* However screens are left and disposed of around suspended handlers,     *)
(* googleLogin and logout are the only ones to use what is gone.           *)
THEOREM DisposedUseUnguarded == Spec => []DisposedUseOnlyWhereUnguarded
<1>1. Init => DisposedUseOnlyWhereUnguarded
  BY DEF Init, DisposedUseOnlyWhereUnguarded
<1>2. AuthInv /\ DisposedUseOnlyWhereUnguarded /\ [Next]_vars => DisposedUseOnlyWhereUnguarded'
  <2> SUFFICES ASSUME AuthInv, DisposedUseOnlyWhereUnguarded, [Next]_vars
               PROVE  lateUse' \subseteq lateUse \cup {"googled", "loggedOut"}
    BY DEF DisposedUseOnlyWhereUnguarded
  <2>1. ASSUME NEW h \in Handlers, Service(h) PROVE lateUse' = lateUse
    BY <2>1 DEF Service, FirebaseCreate, BackendRegister, FirebaseMail, FirebaseLogin,
                FirebaseReset, FirebaseGoogle, FirebaseReload, BackendMark,
                FirebaseSignOut, BackendIntrest, ghostVars
  <2>2. ASSUME NEW h \in Handlers, Tap(h) PROVE lateUse' = lateUse
    BY <2>2, TapMoves DEF ghostVars
  <2>3. CASE \/ SplashTimer \/ Navigate \/ PersistSkip
             \/ \E h \in Handlers : Dispose(h)
             \/ \E a \in Users : FollowLink(a)
             \/ UNCHANGED vars
    BY <2>3, OthersMove DEF ghostVars
  <2>4. CASE Restart
    BY <2>4 DEF Restart
  <2> QED
    BY <2>1, <2>2, <2>3, <2>4, ResumeUses DEF Next
<1> QED
  BY <1>1, <1>2, InitEstablishes, StepKeeps, PTL DEF Spec

--------------------------------------------------------------------------------
(* A loader that shows has a handler, or lost it to an exception.          *)

Shown(g, i) == call[g].life = "shown" /\ call[g].scr = i

(* The handlers that end without stopping a loader: they run on the        *)
(* verification screen, whose buttons have none.                           *)
PlainPCs == {"reload", "reloaded", "resend", "mark"}

(* SpinnerHasHandler is not inductive: a plain handler that ends would be  *)
(* the last one of a loader, were it not that its screen shows none.       *)
SpinInv ==
  /\ \A i \in 1 .. Len(stack) : stack[i].loading =>
       /\ stack[i].page # "Verify"
       /\ stack[i].threw \/ \E g \in Handlers : Shown(g, i)
  /\ \A g \in Handlers : call[g].life = "shown" /\ call[g].pc \in PlainPCs =>
       stack[call[g].scr].page = "Verify"

(* A step that starts no loader and no plain handler, and takes the        *)
(* handler of a loader away only by an exception.                          *)
Undisturbed ==
  /\ \A i \in 1 .. Len(stack') : stack'[i].loading =>
       /\ i \in 1 .. Len(stack) /\ stack[i].loading /\ stack'[i].page = stack[i].page
       /\ stack[i].threw => stack'[i].threw
       /\ stack'[i].threw \/ \A g \in Handlers : Shown(g, i) => Shown(g, i)'
  /\ \A g \in Handlers : call'[g].life = "shown" /\ call'[g].pc \in PlainPCs =>
       /\ call[g].life = "shown" /\ call[g].pc \in PlainPCs
       /\ call'[g].scr = call[g].scr
       /\ stack'[call[g].scr].page = stack[call[g].scr].page

LEMMA UndisturbedKeeps ==
  ASSUME SpinInv, Undisturbed
  PROVE  SpinInv'
<1>1. ASSUME NEW i \in 1 .. Len(stack'), stack'[i].loading
      PROVE  /\ stack'[i].page # "Verify"
             /\ stack'[i].threw \/ \E g \in Handlers : Shown(g, i)'
  BY <1>1 DEF SpinInv, Undisturbed
<1>2. ASSUME NEW g \in Handlers, call'[g].life = "shown", call'[g].pc \in PlainPCs
      PROVE  stack'[call'[g].scr].page = "Verify"
  BY <1>2 DEF SpinInv, Undisturbed
<1> QED
  BY <1>1, <1>2 DEF SpinInv, Shown

(* The screens stay, and every handler stays where it is.                  *)
LEMMA StayingPut ==
  ASSUME stack' = stack,
         \A g \in Handlers : /\ call'[g].life = call[g].life /\ call'[g].scr = call[g].scr
                             /\ call'[g].pc \in PlainPCs => call[g].pc \in PlainPCs
  PROVE  Undisturbed
BY DEF Undisturbed, Shown

(* A handler that is asked or answered stays where it is.                  *)
LEMMA AnsweredPut ==
  ASSUME FlowOK, NEW h \in Handlers, NEW pc \in PCs, NEW reply \in Replies,
         Answer(h, pc, reply), stack' = stack, pc \in PlainPCs => call[h].pc \in PlainPCs
  PROVE  Undisturbed
<1>1. call \in [Handlers -> Call]
  BY DEF FlowOK, Placed
<1>2. \A g \in Handlers : /\ call'[g].life = call[g].life /\ call'[g].scr = call[g].scr
                          /\ call'[g].pc \in PlainPCs => call[g].pc \in PlainPCs
  BY <1>1 DEF Answer, Call
<1> QED
  BY <1>2, StayingPut

(* A handler ends: one that has no screen, or a plain one.                 *)
LEMMA EndedPlainly ==
  ASSUME FlowOK, SpinInv, NEW h \in Handlers, Finish(h), stack' = stack,
         call[h].life = "shown" => call[h].pc \in PlainPCs
  PROVE  Undisturbed
<1>1. call' = [call EXCEPT ![h] = Idle] /\ call \in [Handlers -> Call]
  BY DEF Finish, FlowOK, Placed
<1>2. \A i \in 1 .. Len(stack) : stack[i].loading => ~Shown(h, i)
  BY DEF SpinInv, Shown
<1>3. \A g \in Handlers \ {h} : call'[g] = call[g]
  BY <1>1
<1>4. call'[h].life = "none"
  BY <1>1, IdleCall
<1> QED
  BY <1>2, <1>3, <1>4 DEF Undisturbed, Shown

(* An uncaught exception marks the screen whose handler it ends.           *)
LEMMA Thrown ==
  ASSUME FlowOK, NEW h \in Handlers, Throw(h)
  PROVE  Undisturbed
<1>1. /\ call' = [call EXCEPT ![h] = Idle] /\ call \in [Handlers -> Call]
      /\ stack \in Stacks
  BY DEF Throw, Finish, FlowOK, Placed
<1>2. call'[h].life = "none" /\ \A g \in Handlers \ {h} : call'[g] = call[g]
  BY <1>1, IdleCall
<1>3. CASE call[h].life = "shown"
  <2> DEFINE i == call[h].scr
             e == [stack[i] EXCEPT !.threw = TRUE]
  <2>1. i \in 1 .. Len(stack) /\ stack[i] \in Screen
    BY <1>1, <1>3, StackShape DEF FlowOK, Placed
  <2>2. e \in Screen /\ e.threw /\ e.page = stack[i].page /\ e.loading = stack[i].loading
    BY <2>1 DEF Screen
  <2>3. stack' = [stack EXCEPT ![i] = e]
    BY <1>3 DEF Throw
  <2>4. \A g \in Handlers : Shown(g, call[h].scr) <=> call[g].life = "shown" /\ call[g].scr = i
    BY DEF Shown
  <2>5. \A j \in 1 .. Len(stack) : j # i => ~Shown(h, j)
    BY DEF Shown
  <2> HIDE DEF i, e
  <2>6. /\ Len(stack') = Len(stack)
        /\ \A j \in 1 .. Len(stack) : stack'[j] = IF j = i THEN e ELSE stack[j]
    BY <1>1, <2>1, <2>2, <2>3, ExceptSeq DEF Stacks
  <2>7. \A g \in Handlers : call[g].life = "shown" => call[g].scr \in 1 .. Len(stack)
    BY DEF FlowOK, Placed
  <2> QED
    BY <1>2, <2>2, <2>5, <2>6, <2>7 DEF Undisturbed, Shown
<1>4. CASE call[h].life # "shown"
  <2>1. stack' = stack
    BY <1>4 DEF Throw
  <2> QED
    BY <1>2, <1>4, <2>1 DEF Undisturbed, Shown
<1> QED
  BY <1>3, <1>4

(* What updateLoading(false) makes of the screens: only the loader of the  *)
(* handler's own screen stops.                                             *)
LEMMA LoaderStoppedScreens ==
  ASSUME FlowOK, NEW h \in Handlers
  PROVE  \A i \in 1 .. Len(stack) :
           /\ LoaderStopped(call[h])[i].page = stack[i].page
           /\ LoaderStopped(call[h])[i].threw = stack[i].threw
           /\ LoaderStopped(call[h])[i].loading =>
                stack[i].loading /\ ~Shown(h, i)
<1>1. CASE call[h].life = "shown"
  <2>1. call[h].scr \in 1 .. Len(stack)
    BY <1>1 DEF FlowOK, Placed
  <2> DEFINE i == call[h].scr
             e == [stack[i] EXCEPT !.loading = FALSE]
  <2>2. stack \in Stacks /\ stack[i] \in Screen
    BY <2>1, StackShape DEF FlowOK
  <2>3. e \in Screen /\ e.page = stack[i].page /\ e.threw = stack[i].threw
    BY <2>2 DEF Screen
  <2>4. ~e.loading
    BY <2>2 DEF Screen
  <2>5. LoaderStopped(call[h]) = [stack EXCEPT ![i] = e]
    BY <1>1 DEF LoaderStopped, WithLoading
  <2>6. \A j \in 1 .. Len(stack) : Shown(h, j) => j = i
    BY DEF Shown
  <2> HIDE DEF i, e
  <2>7. \A j \in 1 .. Len(stack) :
          LoaderStopped(call[h])[j] = IF j = i THEN e ELSE stack[j]
    <3>1. i \in 1 .. Len(stack)
      BY <2>1 DEF i
    <3> QED
      BY <2>2, <2>3, <2>5, <3>1, ExceptSeq DEF Stacks
  <2> QED
    BY <2>3, <2>4, <2>6, <2>7
<1>2. CASE call[h].life # "shown"
  BY <1>2 DEF LoaderStopped, Shown
<1> QED
  BY <1>1, <1>2

(* A handler stops its loader and ends, having perhaps pushed a screen.    *)
LEMMA Stopped ==
  ASSUME FlowOK, NEW h \in Handlers, Finish(h),
         \/ stack' = LoaderStopped(call[h])
         \/ \E p \in Pages : stack' = Pushed(LoaderStopped(call[h]), p)
  PROVE  Undisturbed
<1>1. /\ call' = [call EXCEPT ![h] = Idle] /\ call \in [Handlers -> Call]
      /\ LoaderStopped(call[h]) \in Stacks
      /\ Len(LoaderStopped(call[h])) = Len(stack) /\ Len(stack) \in Nat
  BY LoaderStoppedShape, StackShape DEF Finish, FlowOK, Placed
<1>2. call'[h].life = "none" /\ \A g \in Handlers \ {h} : call'[g] = call[g]
  BY <1>1, IdleCall
<1>3. /\ \A i \in 1 .. Len(stack) : stack'[i] = LoaderStopped(call[h])[i]
      /\ \A i \in 1 .. Len(stack') : stack'[i].loading => i \in 1 .. Len(stack)
  <2>1. CASE stack' = LoaderStopped(call[h])
    BY <1>1, <2>1
  <2>2. CASE \E p \in Pages : stack' = Pushed(LoaderStopped(call[h]), p)
    <3>1. PICK p \in Pages : stack' = Pushed(LoaderStopped(call[h]), p)
      BY <2>2
    <3>2. /\ Len(stack') = Len(stack) + 1
          /\ \A i \in 1 .. Len(stack) : stack'[i] = LoaderStopped(call[h])[i]
          /\ stack'[Len(stack) + 1] = Fresh(p) /\ ~Fresh(p).loading
      BY <1>1, <3>1, PushedShape, FreshScreen
    <3>3. \A n \in Nat : \A i \in 1 .. n + 1 : i = n + 1 \/ i \in 1 .. n
      OBVIOUS
    <3> QED
      BY <1>1, <3>2, <3>3
  <2> QED
    BY <2>1, <2>2
<1>4. \A g \in Handlers : call[g].life = "shown" => call[g].scr \in 1 .. Len(stack)
  BY DEF FlowOK, Placed
<1> QED
  BY <1>2, <1>3, <1>4, LoaderStoppedScreens DEF Undisturbed, Shown

(* The screen on top leaves the stack st, and other screens may take its   *)
(* place; the handlers cs are those of call but for h, whose loader is off.*)
LEMMA TopLeft ==
  ASSUME FlowOK, NEW cs \in [Handlers -> Call], call' = TopLeaves(cs),
         \A i \in 1 .. Len(stack') : stack'[i].loading => i \in 1 .. Len(stack) - 1,
         \A i \in 1 .. Len(stack) - 1 :
           /\ stack'[i].page = stack[i].page /\ stack'[i].threw = stack[i].threw
           /\ stack'[i].loading => stack[i].loading,
         \A g \in Handlers :
           \/ cs[g] = call[g]
           \/ /\ \A i \in 1 .. Len(stack) - 1 : stack'[i].loading => ~Shown(g, i)
              /\ cs[g].life = "shown" => cs[g].pc \notin PlainPCs
  PROVE  Undisturbed
<1>1. Len(stack) \in Nat \ {0}
  BY StackShape DEF FlowOK
<1>2. \A n \in Nat \ {0} : \A i \in 1 .. n - 1 : i \in 1 .. n /\ i # n
  OBVIOUS
<1>3. \A n \in Nat \ {0} : \A i \in 1 .. n : i # n => i \in 1 .. n - 1
  OBVIOUS
<1>4. ASSUME NEW g \in Handlers
      PROVE  /\ ~(cs[g].life = "shown" /\ cs[g].scr = Len(stack)) => call'[g] = cs[g]
             /\ call'[g].life = "shown" => call'[g] = cs[g] /\ cs[g].scr # Len(stack)
  <2>1. cs[g] \in Call
    OBVIOUS
  <2>2. [cs[g] EXCEPT !.scr = 0, !.life = "exiting"].life = "exiting"
    BY <2>1 DEF Call
  <2> QED
    BY <2>2 DEF TopLeaves
<1>5. ASSUME NEW i \in 1 .. Len(stack'), stack'[i].loading, NEW g \in Handlers, Shown(g, i)
      PROVE  Shown(g, i)'
  <2>1. i \in 1 .. Len(stack) - 1 /\ i # Len(stack)
    BY <1>1, <1>2, <1>5
  <2>2. cs[g] = call[g]
    BY <1>5, <2>1
  <2> QED
    BY <1>4, <1>5, <2>1, <2>2 DEF Shown
<1>6. ASSUME NEW g \in Handlers, call'[g].life = "shown", call'[g].pc \in PlainPCs
      PROVE  /\ call'[g] = call[g] /\ call[g].scr \in 1 .. Len(stack) - 1
  <2>1. call'[g] = cs[g] /\ cs[g].scr # Len(stack)
    BY <1>4, <1>6
  <2>2. cs[g] = call[g]
    BY <1>6, <2>1
  <2>3. call[g].scr \in 1 .. Len(stack)
    BY <1>6, <2>1, <2>2 DEF FlowOK, Placed
  <2> QED
    BY <1>1, <1>3, <2>1, <2>2, <2>3
<1> QED
  BY <1>1, <1>2, <1>5, <1>6 DEF Undisturbed

LEMMA TopReplaced ==
  ASSUME FlowOK, NEW h \in Handlers, NEW p \in Pages, NEW c \in Call,
         c.life = "shown" => c.pc \notin PlainPCs, ReplaceTop(h, p, c)
  PROVE  Undisturbed
<1> DEFINE st == LoaderStopped(call[h])
           cs == [call EXCEPT ![h] = c]
<1>1. /\ st \in Stacks /\ Len(st) = Len(stack) /\ Len(stack) \in Nat \ {0}
      /\ call \in [Handlers -> Call]
  BY LoaderStoppedShape, StackShape DEF FlowOK, Placed
<1>2. \A i \in 1 .. Len(stack) :
        /\ st[i].page = stack[i].page /\ st[i].threw = stack[i].threw
        /\ st[i].loading => stack[i].loading /\ ~Shown(h, i)
  BY LoaderStoppedScreens
<1>3. /\ cs \in [Handlers -> Call] /\ cs[h] = c
      /\ \A g \in Handlers \ {h} : cs[g] = call[g]
  BY <1>1
<1>4. stack' = Replaced(st, p) /\ call' = TopLeaves(cs)
  BY DEF ReplaceTop
<1> HIDE DEF st, cs
<1>5. /\ Len(stack') = Len(stack)
      /\ \A i \in 1 .. Len(stack) : stack'[i] = IF i = Len(stack) THEN Fresh(p) ELSE st[i]
  BY <1>1, <1>4, ReplacedShape
<1>6. /\ \A n \in Nat \ {0} : \A i \in 1 .. n : i # n => i \in 1 .. n - 1
      /\ \A n \in Nat \ {0} : \A i \in 1 .. n - 1 : i \in 1 .. n /\ i # n
  OBVIOUS
<1>7. ~Fresh(p).loading
  BY FreshScreen
<1>8. \A i \in 1 .. Len(stack') : stack'[i].loading => i \in 1 .. Len(stack) - 1
  BY <1>1, <1>5, <1>6, <1>7
<1>9. \A i \in 1 .. Len(stack) - 1 :
        /\ stack'[i].page = stack[i].page /\ stack'[i].threw = stack[i].threw
        /\ stack'[i].loading => stack[i].loading /\ ~Shown(h, i)
  BY <1>1, <1>2, <1>5, <1>6
<1> QED
  BY <1>3, <1>4, <1>8, <1>9, TopLeft

LEMMA TopPopped ==
  ASSUME FlowOK, SystemBack
  PROVE  Undisturbed
<1>1. stack \in Stacks /\ call \in [Handlers -> Call]
  BY DEF FlowOK, Placed
<1>2. /\ Len(stack') = Len(stack) - 1
      /\ \A i \in 1 .. Len(stack) - 1 : stack'[i] = stack[i]
  BY <1>1, PoppedShape DEF SystemBack
<1>3. call' = TopLeaves(call)
  BY DEF SystemBack
<1> QED
  BY <1>1, <1>2, <1>3, TopLeft

(* Screens opened above the others disturb nobody.                         *)
LEMMA ScreensAdded ==
  ASSUME FlowOK, call' = call,
         \A i \in 1 .. Len(stack) : stack'[i] = stack[i],
         \A i \in 1 .. Len(stack') : i \in 1 .. Len(stack) \/ ~stack'[i].loading
  PROVE  Undisturbed
<1>1. \A g \in Handlers : call[g].life = "shown" => call[g].scr \in 1 .. Len(stack)
  BY DEF FlowOK, Placed
<1> QED
  BY <1>1 DEF Undisturbed, Shown

(* The onboarding or the splash screen gives way to the next: no plain     *)
(* handler runs on them.                                                   *)
LEMMA ScreenReplaced ==
  ASSUME FlowOK, SpinInv, call' = call, NEW p \in Pages,
         stack' = Replaced(stack, p), Top.page # "Verify"
  PROVE  Undisturbed
<1>1. Len(stack) \in Nat \ {0} /\ stack \in Stacks /\ ~Fresh(p).loading
  BY StackShape, FreshScreen DEF FlowOK
<1>2. \A g \in Handlers : call[g].life = "shown" => call[g].scr \in 1 .. Len(stack)
  BY DEF FlowOK, Placed
<1>3. /\ Len(stack') = Len(stack)
      /\ \A i \in 1 .. Len(stack) : stack'[i] = IF i = Len(stack) THEN Fresh(p) ELSE stack[i]
  BY <1>1, ReplacedShape
<1>4. \A g \in Handlers : call[g].life = "shown" /\ call[g].pc \in PlainPCs =>
        call[g].scr # Len(stack)
  BY DEF SpinInv, Top
<1> QED
  BY <1>1, <1>2, <1>3, <1>4 DEF Undisturbed, Shown

(* The steps that belong to no handler.                                    *)
LEMMA OthersUndisturbing ==
  ASSUME AuthInv, SpinInv,
         \/ SplashTimer \/ Navigate \/ PersistSkip \/ Restart
         \/ \E h \in Handlers : Dispose(h)
         \/ \E a \in Users : FollowLink(a)
         \/ UNCHANGED vars
  PROVE  Undisturbed
<1>1. /\ FlowOK /\ stack \in Stacks /\ Len(stack) \in Nat \ {0}
      /\ call \in [Handlers -> Call]
  BY InvParts, StackShape DEF FlowOK, Placed
<1>2. ASSUME NEW st \in Stacks, NEW p \in Pages
      PROVE  /\ Pushed(st, p) \in Stacks /\ Len(Pushed(st, p)) = Len(st) + 1
             /\ \A i \in 1 .. Len(st) : Pushed(st, p)[i] = st[i]
             /\ \A i \in 1 .. Len(st) + 1 : i \in 1 .. Len(st) \/ ~Pushed(st, p)[i].loading
  <2>1. \A i \in 1 .. Len(st) + 1 : i \in 1 .. Len(st) \/ i = Len(st) + 1
    <3>1. Len(st) \in Nat
      BY StackShape
    <3> QED
      BY <3>1
  <2> QED
    BY <2>1, PushedShape, FreshScreen
<1>3. CASE \E p \in Pages : stack' = Pushed(stack, p) /\ call' = call
  BY <1>1, <1>2, <1>3, ScreensAdded
<1>4. CASE OpenScreen \/ SkipLogin \/ OpenSheet
  BY <1>3, <1>4 DEF OpenScreen, SkipLogin, OpenSheet, Open, PushLinks, Pages
<1>5. CASE TapSheetLogin
  <2> DEFINE st == Pushed(stack, "LoginSheet")
  <2>1. /\ st \in Stacks /\ Len(st) = Len(stack) + 1
        /\ \A i \in 1 .. Len(stack) : st[i] = stack[i]
        /\ \A i \in 1 .. Len(st) : i \in 1 .. Len(stack) \/ ~st[i].loading
    BY <1>1, <1>2 DEF Pages
  <2>2. stack' = Pushed(st, "SignIn") /\ call' = call
    BY <1>5 DEF TapSheetLogin
  <2> HIDE DEF st
  <2>3. /\ Len(stack') = Len(st) + 1
        /\ \A i \in 1 .. Len(st) : stack'[i] = st[i]
        /\ \A i \in 1 .. Len(st) + 1 : i \in 1 .. Len(st) \/ ~stack'[i].loading
    BY <1>2, <2>1, <2>2 DEF Pages
  <2>4. \A i \in 1 .. Len(stack) : i \in 1 .. Len(st)
    BY <1>1, <2>1
  <2> QED
    BY <1>1, <2>1, <2>2, <2>3, <2>4, ScreensAdded
<1>6. CASE SkipOnboarding
  BY <1>1, <1>6, ScreenReplaced DEF SkipOnboarding, OnTop, Pages
<1>7. CASE SplashTimer
  <2>1. SplashTarget \in Pages
    BY DEF SplashTarget, HomeOf, Pages
  <2> QED
    BY <1>1, <1>7, <2>1, ScreenReplaced DEF SplashTimer, OnTop
<1>8. CASE PersistSkip \/ (\E a \in Users : FollowLink(a)) \/ UNCHANGED vars
  <2>1. stack' = stack /\ call' = call
    BY <1>8 DEF PersistSkip, FollowLink, vars
  <2> QED
    BY <2>1, StayingPut
<1>9. ASSUME NEW h \in Handlers, Dispose(h)
      PROVE  Undisturbed
  <2>1. stack' = stack /\ call' = [call EXCEPT ![h].life = "gone"] /\ call[h].life = "exiting"
    BY <1>9 DEF Dispose
  <2>2. call'[h].life = "gone" /\ \A g \in Handlers \ {h} : call'[g] = call[g]
    BY <1>1, <2>1 DEF Call
  <2> QED
    BY <2>1, <2>2 DEF Undisturbed, Shown
<1>10. CASE Restart
  <2>1. /\ Len(stack') = 1 /\ stack'[1] = Fresh("Splash")
        /\ \A g \in Handlers : call'[g] = Idle
    BY <1>10 DEF Restart
  <2>2. ~Fresh("Splash").loading
    BY FreshScreen DEF Pages
  <2> QED
    BY <2>1, <2>2, IdleCall DEF Undisturbed
<1> QED
  BY <1>1, <1>4, <1>5, <1>6, <1>7, <1>8, <1>9, <1>10, TopPopped DEF Navigate

(* A tap starts a loader that has a handler, or a handler on a screen that *)
(* shows no loader.                                                        *)
LEMMA LoaderStarted ==
  ASSUME FlowOK, SpinInv, NEW h \in Handlers, NEW pc \in PCs \ PlainPCs,
         NEW a \in Users \cup {Nobody}, StartLoading(h, pc, a), Top.page # "Verify"
  PROVE  SpinInv'
<1> DEFINE c == [Idle EXCEPT !.pc = pc, !.scr = Len(stack), !.life = "shown", !.acct = a]
<1>1. /\ Len(stack) \in Nat \ {0} /\ Len(stack) \in 1 .. Len(stack) /\ stack \in Stacks
      /\ call \in [Handlers -> Call]
  BY StackShape DEF FlowOK, Placed
<1>2. c.pc = pc /\ c.scr = Len(stack) /\ c.life = "shown"
  BY DEF Idle
<1>3. call' = [call EXCEPT ![h] = c] /\ call[h] = Idle
  BY DEF StartLoading, Start, Begin
<1> HIDE DEF c
<1>5. call'[h] = c /\ \A g \in Handlers \ {h} : call'[g] = call[g]
  BY <1>1, <1>3
<1>6. \A g \in Handlers : call[g].life = "shown" =>
        call'[g] = call[g] /\ call[g].scr \in 1 .. Len(stack)
  BY <1>3, <1>5, IdleCall DEF FlowOK, Placed
<1> DEFINE e == [Top EXCEPT !.loading = TRUE]
<1>7. Top \in Screen
  BY <1>1, StackShape DEF Top
<1>8. /\ Len(stack') = Len(stack)
      /\ stack'[Len(stack)].page = stack[Len(stack)].page
      /\ \A j \in 1 .. Len(stack) : j # Len(stack) => stack'[j] = stack[j]
  <2>1. e \in Screen /\ e.page = Top.page
    BY <1>7 DEF Screen
  <2>2. stack' = [stack EXCEPT ![Len(stack)] = e]
    BY DEF StartLoading, WithLoading, Top
  <2> HIDE DEF e
  <2>3. /\ Len(stack') = Len(stack)
        /\ \A j \in 1 .. Len(stack) : stack'[j] = IF j = Len(stack) THEN e ELSE stack[j]
    BY <1>1, <2>1, <2>2, ExceptSeq DEF Stacks
  <2> QED
    BY <1>1, <2>1, <2>3 DEF Top
<1>9. ASSUME NEW i \in 1 .. Len(stack'), stack'[i].loading
      PROVE  /\ stack'[i].page # "Verify"
             /\ stack'[i].threw \/ \E g \in Handlers : Shown(g, i)'
  <2>1. CASE i = Len(stack)
    BY <1>1, <1>2, <1>5, <1>8, <2>1 DEF Shown, Top
  <2>2. CASE i # Len(stack)
    <3>1. i \in 1 .. Len(stack) /\ stack[i].loading
      BY <1>8, <1>9, <2>2
    <3>2. stack'[i] = stack[i]
      BY <1>8, <2>2, <3>1
    <3> QED
      BY <1>6, <3>1, <3>2 DEF SpinInv, Shown
  <2> QED
    BY <2>1, <2>2
<1>10. ASSUME NEW g \in Handlers, call'[g].life = "shown", call'[g].pc \in PlainPCs
       PROVE  stack'[call'[g].scr].page = "Verify"
  <2>1. call'[g] = call[g]
    BY <1>2, <1>5, <1>10
  <2> QED
    BY <1>6, <1>8, <1>10, <2>1 DEF SpinInv
<1> QED
  BY <1>9, <1>10 DEF SpinInv, Shown

LEMMA PlainStarted ==
  ASSUME FlowOK, SpinInv, NEW h \in Handlers, NEW pc \in PCs,
         NEW a \in Users \cup {Nobody}, StartPlain(h, pc, a),
         pc \in PlainPCs => Top.page = "Verify"
  PROVE  SpinInv'
<1> DEFINE c == [Idle EXCEPT !.pc = pc, !.scr = Len(stack), !.life = "shown", !.acct = a]
<1>1. c.pc = pc /\ c.scr = Len(stack) /\ c.life = "shown"
  BY DEF Idle
<1>2. /\ call' = [call EXCEPT ![h] = c] /\ call[h] = Idle /\ stack' = stack
      /\ call \in [Handlers -> Call]
  BY DEF StartPlain, Start, Begin, FlowOK, Placed
<1> HIDE DEF c
<1>3. call'[h] = c /\ \A g \in Handlers \ {h} : call'[g] = call[g]
  BY <1>2
<1>4. ~\E i \in 1 .. Len(stack) : Shown(h, i)
  BY <1>2, IdleCall DEF Shown
<1>5. ASSUME NEW i \in 1 .. Len(stack'), stack'[i].loading
      PROVE  /\ stack'[i].page # "Verify"
             /\ stack'[i].threw \/ \E g \in Handlers : Shown(g, i)'
  BY <1>2, <1>3, <1>4, <1>5 DEF SpinInv, Shown
<1>6. ASSUME NEW g \in Handlers, call'[g].life = "shown", call'[g].pc \in PlainPCs
      PROVE  stack'[call'[g].scr].page = "Verify"
  BY <1>1, <1>2, <1>3, <1>6 DEF SpinInv, Top
<1> QED
  BY <1>5, <1>6 DEF SpinInv, Shown

LEMMA TapSpins ==
  ASSUME AuthInv, SpinInv, NEW h \in Handlers, Tap(h)
  PROVE  SpinInv'
<1>1. FlowOK /\ session \in Users \cup {Nobody}
  BY InvParts, DataParts DEF AccountsTypeOK
<1>2. CASE \E pc \in {"create", "login", "reset", "google"}, a \in Users \cup {Nobody} :
             StartLoading(h, pc, a) /\ Top.page # "Verify"
  <2>1. {"create", "login", "reset", "google"} \subseteq PCs \ PlainPCs
    BY DEF PCs, Waiting, PlainPCs
  <2> QED
    BY <1>1, <1>2, <2>1, LoaderStarted
<1>3. CASE \E pc \in {"reload", "resend", "signOut", "logout", "choose"}, a \in Users \cup {Nobody} :
             /\ StartPlain(h, pc, a)
             /\ pc \in {"reload", "resend"} => Top.page = "Verify"
  <2>1. /\ {"reload", "resend", "signOut", "logout", "choose"} \subseteq PCs
        /\ PlainPCs \cap {"signOut", "logout", "choose"} = {}
    BY DEF PCs, Waiting, PlainPCs
  <2> QED
    BY <1>1, <1>3, <2>1, PlainStarted
<1> QED
  BY <1>1, <1>2, <1>3 DEF Tap, TapCreateAccount, TapLogin, TapReset, TapGoogle, TapProceed,
     TapResend, TapVerifyBack, TapLogout, TapChoose, OnTop

LEMMA ResumeUndisturbing ==
  ASSUME AuthInv, SpinInv, NEW h \in Handlers, Resume(h)
  PROVE  Undisturbed
<1>1. /\ FlowOK /\ call[h] \in Call /\ call \in [Handlers -> Call]
      /\ cached \in BOOLEAN /\ session \in Users \cup {Nobody}
  BY InvParts, DataParts DEF FlowOK, Placed, AccountsTypeOK
<1>2. Idle \in Call /\ Idle.life # "shown"
  BY IdleCall
<1>3. ASSUME NEW p \in Pages, GoTo(h, p)
      PROVE  Undisturbed
  BY <1>1, <1>2, <1>3, TopReplaced DEF GoTo
<1>4. ASSUME Return(h), ~MountedAfterAwait(call[h])
      PROVE  Undisturbed
  BY <1>1, <1>4, EndedPlainly DEF Return, MountedAfterAwait
<1>5. ASSUME StopLoading(h)
      PROVE  Undisturbed
  BY <1>1, <1>5, Stopped DEF StopLoading
<1>6. ASSUME Throw(h)
      PROVE  Undisturbed
  BY <1>1, <1>6, Thrown
<1>7. CASE SignUpCreated(h)
  <2>1. CASE Register(h) /\ stack' = stack
    <3>1. \A g \in Handlers : /\ call'[g].life = call[g].life /\ call'[g].scr = call[g].scr
                              /\ call'[g].pc \in PlainPCs => call[g].pc \in PlainPCs
      BY <1>1, <2>1 DEF Register, Call, PlainPCs
    <3> QED
      BY <2>1, <3>1, StayingPut
  <2> QED
    BY <1>4, <1>5, <1>6, <1>7, <2>1 DEF SignUpCreated
<1>8. CASE SignUpRegistered(h)
  <2>1. CASE Answer(h, "mail", "none") /\ stack' = stack
    BY <1>1, <2>1, AnsweredPut DEF PCs, Waiting, Replies, PlainPCs
  <2> QED
    BY <1>4, <1>5, <1>6, <1>8, <2>1 DEF SignUpRegistered
<1>9. CASE SignUpMailed(h) \/ LoginDone(h) \/ ResetDone(h) \/ SignedOut(h)
  <2>1. HomeOf(cached) \in Pages /\ {"Verify", "SignIn"} \subseteq Pages
    BY DEF HomeOf, Pages
  <2> QED
    BY <1>3, <1>4, <1>5, <1>6, <1>9, <2>1 DEF SignUpMailed, LoginDone, ResetDone, SignedOut
<1>10. CASE GoogleSigned(h)
  <2>1. CASE /\ stack' = stack
             /\ call' = [call EXCEPT ![h].pc = "gRegister", ![h].reply = "none",
                                     ![h].acct = session, ![h].uid = session,
                                     ![h].ver = cached]
    <3>1. \A g \in Handlers : /\ call'[g].life = call[g].life /\ call'[g].scr = call[g].scr
                              /\ call'[g].pc \in PlainPCs => call[g].pc \in PlainPCs
      BY <1>1, <2>1 DEF Call, PlainPCs
    <3> QED
      BY <2>1, <3>1, StayingPut
  <2> QED
    BY <1>5, <1>6, <1>10, <2>1 DEF GoogleSigned
<1>11. CASE GoogleRegistered(h)
  <2>1. CASE /\ Finish(h)
             /\ \E p \in {"Main", "Interests"} : stack' = Pushed(LoaderStopped(call[h]), p)
    BY <1>1, <2>1, Stopped DEF Pages
  <2> QED
    BY <1>4, <1>5, <1>6, <1>11, <2>1 DEF GoogleRegistered
<1>12. CASE CheckEmailVerified(h)
  <2>1. CASE /\ session # Nobody
             /\ ReplaceTop(h, "Interests", [Idle EXCEPT !.pc = "mark", !.uid = session])
    <3> DEFINE c == [Idle EXCEPT !.pc = "mark", !.uid = session]
    <3>1. c \in Call /\ c.life = "none"
      BY <1>1, <2>1 DEF Idle, Call, Waiting, Replies
    <3>2. ReplaceTop(h, "Interests", c)
      BY <2>1
    <3> HIDE DEF c
    <3> QED
      BY <1>1, <3>1, <3>2, TopReplaced DEF Pages
  <2>2. CASE Return(h)
    <3>1. call[h].pc \in PlainPCs
      BY <1>12 DEF CheckEmailVerified, PlainPCs
    <3> QED
      BY <1>1, <2>2, <3>1, EndedPlainly DEF Return
  <2> QED
    BY <1>6, <1>12, <2>1, <2>2 DEF CheckEmailVerified
<1>13. CASE LoggedOut(h)
  <2>1. CASE Finish(h) /\ call[h].life = "gone" /\ stack' = stack
    BY <1>1, <2>1, EndedPlainly
  <2> QED
    BY <1>3, <1>13, <2>1 DEF LoggedOut, Return, Pages
<1>14. CASE IntrestAdded(h)
  <2>1. CASE ReplaceTop(h, "Main", [call[h] EXCEPT !.pc = "choose", !.reply = "none"])
    <3> DEFINE c == [call[h] EXCEPT !.pc = "choose", !.reply = "none"]
    <3>1. c \in Call /\ c.pc \notin PlainPCs
      BY <1>1 DEF Call, Waiting, Replies, PlainPCs
    <3>2. ReplaceTop(h, "Main", c)
      BY <2>1
    <3> HIDE DEF c
    <3> QED
      BY <1>1, <3>1, <3>2, TopReplaced DEF Pages
  <2> QED
    BY <1>3, <1>4, <1>6, <1>14, <2>1 DEF IntrestAdded, Pages
<1> QED
  BY <1>7, <1>8, <1>9, <1>10, <1>11, <1>12, <1>13, <1>14 DEF Resume

LEMMA ServiceUndisturbing ==
  ASSUME AuthInv, SpinInv, NEW h \in Handlers, Service(h)
  PROVE  Undisturbed
<1>1. FlowOK /\ call[h] \in Call /\ call \in [Handlers -> Call]
  BY InvParts DEF FlowOK, Placed
<1>2. stack' = stack
  BY DEF Service, FirebaseCreate, BackendRegister, FirebaseMail, FirebaseLogin,
         FirebaseReset, FirebaseGoogle, FirebaseReload, BackendMark,
         FirebaseSignOut, BackendIntrest
<1>3. CASE \E pc \in Resuming, reply \in Replies :
             Answer(h, pc, reply) /\ (pc \in PlainPCs => call[h].pc \in PlainPCs)
  BY <1>1, <1>2, <1>3, AnsweredPut DEF PCs
<1>4. CASE \E a \in Users :
             call' = [call EXCEPT ![h].pc = "googled", ![h].reply = "ok", ![h].acct = a]
  <2>1. \A g \in Handlers : /\ call'[g].life = call[g].life /\ call'[g].scr = call[g].scr
                            /\ call'[g].pc \in PlainPCs => call[g].pc \in PlainPCs
    BY <1>1, <1>4 DEF Call, PlainPCs
  <2> QED
    BY <1>2, <2>1, StayingPut
<1>5. CASE Finish(h) /\ call[h].pc \in PlainPCs
  BY <1>1, <1>2, <1>5, EndedPlainly
<1>6. CASE FirebaseCreate(h) \/ BackendRegister(h) \/ FirebaseLogin(h)
  BY <1>3, <1>6 DEF FirebaseCreate, BackendRegister, FirebaseLogin, Resuming, Replies, PlainPCs
<1>7. CASE FirebaseMail(h) \/ FirebaseReset(h) \/ BackendIntrest(h)
  BY <1>3, <1>5, <1>7 DEF FirebaseMail, FirebaseReset, BackendIntrest, Resuming, Replies, PlainPCs
<1>8. CASE FirebaseGoogle(h) \/ FirebaseReload(h)
  BY <1>3, <1>4, <1>8 DEF FirebaseGoogle, FirebaseReload, Resuming, Replies, PlainPCs
<1>9. CASE BackendMark(h) \/ FirebaseSignOut(h)
  BY <1>3, <1>5, <1>9 DEF BackendMark, FirebaseSignOut, Resuming, Replies, PlainPCs
<1> QED
  BY <1>6, <1>7, <1>8, <1>9 DEF Service

(* However taps, answers, exceptions, back gestures and replaced screens   *)
(* interleave, a loader that shows has a handler that will stop it, or     *)
(* lost it to an exception.                                                *)
THEOREM SpinnersHaveHandlers == Spec => []SpinnerHasHandler
<1>1. Init => SpinInv
  <2>1. ASSUME Init
        PROVE  /\ Len(stack) = 1 /\ ~stack[1].loading
               /\ \A g \in Handlers : call[g].life = "none"
    BY <2>1, IdleCall, FreshScreen DEF Init, Pages
  <2>2. \A i \in 1 .. 1 : i = 1
    OBVIOUS
  <2> QED
    BY <2>1, <2>2 DEF SpinInv
<1>2. AuthInv /\ SpinInv /\ [Next]_vars => SpinInv'
  BY TapSpins, ResumeUndisturbing, ServiceUndisturbing, OthersUndisturbing,
     UndisturbedKeeps DEF Next
<1>3. AuthInv /\ SpinInv => SpinnerHasHandler
  <2>1. ASSUME AuthInv
        PROVE  DOMAIN stack = 1 .. Len(stack)
    BY <2>1, InvParts, StackShape DEF FlowOK
  <2> QED
    BY <2>1 DEF SpinInv, SpinnerHasHandler, Shown
<1> QED
  BY <1>1, <1>2, <1>3, InitEstablishes, StepKeeps, PTL DEF Spec

--------------------------------------------------------------------------------
(* Who gets into the app.                                                  *)

(* The splash screen is alone: nothing is open under it or above it, and   *)
(* no handler has begun.                                                   *)
SplashInv ==
  \A i \in 1 .. Len(stack) : stack[i].page = "Splash" =>
    Len(stack) = 1 /\ \A h \in Handlers : call[h] = Idle

(* A screen of the new stack is no splash screen, or was one before.       *)
NoSplashOpened ==
  \A i \in 1 .. Len(stack') :
    \/ stack'[i].page # "Splash"
    \/ i \in 1 .. Len(stack) /\ stack'[i].page = stack[i].page

LEMMA SplashOpensNoMore ==
  ASSUME SplashInv, NoSplashOpened, NEW h \in Handlers, call[h] # Idle
  PROVE  SplashInv'
BY DEF SplashInv, NoSplashOpened

LEMMA ResumeOpensNoSplash ==
  ASSUME AuthInv, NEW h \in Handlers, Resume(h)
  PROVE  NoSplashOpened
<1> DEFINE st == LoaderStopped(call[h])
<1>1. FlowOK /\ stack \in Stacks /\ Len(stack) \in Nat \ {0}
  BY InvParts, StackShape DEF FlowOK
<1>2. /\ st \in Stacks /\ Len(st) = Len(stack)
      /\ \A i \in 1 .. Len(stack) : st[i].page = stack[i].page
  BY <1>1, LoaderStoppedShape, LoaderStoppedScreens
<1>3. \/ stack' = stack \/ Throw(h) \/ stack' = st
      \/ \E p \in Pages \ {"Splash"} : stack' = Pushed(st, p) \/ stack' = Replaced(st, p)
  BY DEF Resume, SignUpCreated, SignUpRegistered, SignUpMailed, LoginDone, ResetDone,
         GoogleSigned, GoogleRegistered, CheckEmailVerified, SignedOut, LoggedOut,
         IntrestAdded, HomeOf, Return, StopLoading, GoTo, ReplaceTop, Pages
<1> HIDE DEF st
<1>4. CASE stack' = stack \/ stack' = st
  BY <1>2, <1>4 DEF NoSplashOpened
<1>5. CASE Throw(h)
  <2>1. CASE call[h].life = "shown"
    <3> DEFINE i == call[h].scr
               e == [stack[i] EXCEPT !.threw = TRUE]
    <3>1. i \in 1 .. Len(stack) /\ stack[i] \in Screen
      BY <1>1, <2>1, StackShape DEF FlowOK, Placed
    <3>2. e \in Screen /\ e.page = stack[i].page
      BY <3>1 DEF Screen
    <3>3. stack' = [stack EXCEPT ![i] = e]
      BY <1>5, <2>1 DEF Throw
    <3> HIDE DEF i, e
    <3>4. /\ Len(stack') = Len(stack)
          /\ \A j \in 1 .. Len(stack) : stack'[j] = IF j = i THEN e ELSE stack[j]
      BY <1>1, <3>1, <3>2, <3>3, ExceptSeq DEF Stacks
    <3> QED
      BY <3>2, <3>4 DEF NoSplashOpened
  <2> QED
    BY <1>5, <2>1 DEF Throw, NoSplashOpened
<1>6. ASSUME NEW p \in Pages \ {"Splash"}, stack' = Pushed(st, p) \/ stack' = Replaced(st, p)
      PROVE  NoSplashOpened
  <2>1. Fresh(p).page # "Splash"
    BY FreshScreen
  <2>2. CASE stack' = Pushed(st, p)
    <3>1. /\ Len(stack') = Len(stack) + 1 /\ stack'[Len(stack) + 1] = Fresh(p)
          /\ \A i \in 1 .. Len(stack) : stack'[i] = st[i]
      BY <1>2, <2>2, PushedShape
    <3>2. \A n \in Nat : \A i \in 1 .. n + 1 : i = n + 1 \/ i \in 1 .. n
      OBVIOUS
    <3> QED
      BY <1>1, <1>2, <2>1, <3>1, <3>2 DEF NoSplashOpened
  <2>3. CASE stack' = Replaced(st, p)
    <3>1. /\ Len(stack') = Len(stack)
          /\ \A i \in 1 .. Len(stack) : stack'[i] = IF i = Len(stack) THEN Fresh(p) ELSE st[i]
      BY <1>2, <2>3, ReplacedShape
    <3> QED
      BY <1>2, <2>1, <3>1 DEF NoSplashOpened
  <2> QED
    BY <1>6, <2>2, <2>3
<1> QED
  BY <1>3, <1>4, <1>5, <1>6

(* The buttons are not on the splash screen, so while one is on top there  *)
(* is no splash screen, and what they do opens none.                       *)
LEMMA ButtonsKeepSplash ==
  ASSUME AuthInv, SplashInv, Top.page # "Splash", NoSplashOpened
  PROVE  SplashInv'
<1>1. Len(stack) \in 1 .. Len(stack)
  BY InvParts, StackShape DEF FlowOK
<1>2. \A i \in 1 .. Len(stack) : stack[i].page # "Splash"
  BY <1>1 DEF SplashInv, Top
<1> QED
  BY <1>2 DEF SplashInv, NoSplashOpened

LEMMA NavigateKeepsSplash ==
  ASSUME AuthInv, SplashInv, Navigate \/ SplashTimer
  PROVE  SplashInv'
<1>1. /\ FlowOK /\ stack \in Stacks /\ Len(stack) \in Nat \ {0}
      /\ Len(stack) \in 1 .. Len(stack)
  BY InvParts, StackShape DEF FlowOK
<1>2. ASSUME NEW st \in Stacks, NEW p \in Pages \ {"Splash"}
      PROVE  /\ Pushed(st, p) \in Stacks /\ Len(Pushed(st, p)) = Len(st) + 1
             /\ \A i \in 1 .. Len(st) : Pushed(st, p)[i] = st[i]
             /\ \A i \in 1 .. Len(st) + 1 :
                  i \in 1 .. Len(st) \/ Pushed(st, p)[i].page # "Splash"
  <2>1. \A i \in 1 .. Len(st) + 1 : i \in 1 .. Len(st) \/ i = Len(st) + 1
    <3>1. Len(st) \in Nat
      BY StackShape
    <3> QED
      BY <3>1
  <2> QED
    BY <2>1, PushedShape, FreshScreen
<1>3. ASSUME NEW p \in Pages \ {"Splash"}, stack' = Pushed(stack, p)
      PROVE  NoSplashOpened
  BY <1>1, <1>2, <1>3 DEF NoSplashOpened
<1>4. CASE OpenScreen \/ SkipLogin \/ OpenSheet
  <2>1. (\E p \in Pages \ {"Splash"} : stack' = Pushed(stack, p)) /\ Top.page # "Splash"
    BY <1>4 DEF OpenScreen, SkipLogin, OpenSheet, Open, OnTop, PushLinks, Pages
  <2> QED
    BY <1>3, <2>1, ButtonsKeepSplash
<1>5. CASE TapSheetLogin
  <2> DEFINE st == Pushed(stack, "LoginSheet")
  <2>1. /\ st \in Stacks /\ Len(st) = Len(stack) + 1
        /\ \A i \in 1 .. Len(stack) : st[i] = stack[i]
        /\ \A i \in 1 .. Len(st) : i \in 1 .. Len(stack) \/ st[i].page # "Splash"
    BY <1>1, <1>2 DEF Pages
  <2>2. stack' = Pushed(st, "SignIn") /\ Top.page # "Splash"
    BY <1>5 DEF TapSheetLogin, OnTop
  <2> HIDE DEF st
  <2>3. /\ Len(stack') = Len(st) + 1
        /\ \A i \in 1 .. Len(st) : stack'[i] = st[i]
        /\ \A i \in 1 .. Len(st) + 1 : i \in 1 .. Len(st) \/ stack'[i].page # "Splash"
    BY <1>2, <2>1, <2>2 DEF Pages
  <2>4. NoSplashOpened
    BY <2>1, <2>3 DEF NoSplashOpened
  <2> QED
    BY <2>2, <2>4, ButtonsKeepSplash
<1>6. CASE SkipOnboarding \/ SplashTimer
  <2>1. PICK p \in Pages \ {"Splash"} : stack' = Replaced(stack, p)
    BY <1>6 DEF SkipOnboarding, SplashTimer, SplashTarget, HomeOf, Pages
  <2>2. Fresh(p).page # "Splash"
    BY FreshScreen
  <2>3. /\ Len(stack') = Len(stack)
        /\ \A i \in 1 .. Len(stack) : stack'[i] = IF i = Len(stack) THEN Fresh(p) ELSE stack[i]
    BY <1>1, <2>1, ReplacedShape
  <2>4. CASE Top.page # "Splash"
    BY <2>2, <2>3, <2>4, ButtonsKeepSplash DEF NoSplashOpened
  <2>5. CASE Top.page = "Splash"
    <3>1. Len(stack) = 1
      BY <1>1, <2>5 DEF SplashInv, Top
    <3> QED
      BY <2>2, <2>3, <3>1 DEF SplashInv
  <2> QED
    BY <2>4, <2>5
<1>7. CASE SystemBack
  <2>0. stack' = Popped(stack) /\ Len(stack) > 1
    BY <1>7 DEF SystemBack
  <2>1. /\ Len(stack') = Len(stack) - 1
        /\ \A i \in 1 .. Len(stack) - 1 : stack'[i] = stack[i]
    BY <1>1, <2>0, PoppedShape
  <2>3. Len(stack) # 1
    <3>1. \A n \in Nat : n > 1 => n # 1
      OBVIOUS
    <3>2. Len(stack) \in Nat /\ Len(stack) > 1
      BY <1>1, <2>0
    <3> QED
      BY <3>1, <3>2
  <2>2. \A n \in Nat \ {0} : \A i \in 1 .. n - 1 : i \in 1 .. n
    OBVIOUS
  <2> QED
    BY <1>1, <2>1, <2>2, <2>3 DEF SplashInv
<1> QED
  BY <1>4, <1>5, <1>6, <1>7 DEF Navigate

(* What the services leave alone.                                          *)
LEMMA ServiceKeepsScreens ==
  ASSUME NEW h \in Handlers, Service(h)
  PROVE  stack' = stack /\ call[h].pc \in Waiting
BY DEF Service, FirebaseCreate, BackendRegister, FirebaseMail, FirebaseLogin,
       FirebaseReset, FirebaseGoogle, FirebaseReload, BackendMark,
       FirebaseSignOut, BackendIntrest, Waiting

LEMMA ServiceSpares ==
  ASSUME AuthInv, NEW h \in Handlers, Service(h)
  PROVE  SparesOthers(h)
<1>1. call \in [Handlers -> Call]
  BY InvParts DEF FlowOK, Placed
<1> QED
  BY <1>1 DEF Service, FirebaseCreate, BackendRegister, FirebaseMail, FirebaseLogin,
     FirebaseReset, FirebaseGoogle, FirebaseReload, BackendMark, FirebaseSignOut,
     BackendIntrest, Answer, Finish, SparesOthers, SameErrand

LEMMA ResumesFrom ==
  ASSUME NEW h \in Handlers, Resume(h)
  PROVE  call[h].pc \in Resuming
BY DEF Resume, SignUpCreated, SignUpRegistered, SignUpMailed, LoginDone, ResetDone,
       GoogleSigned, GoogleRegistered, CheckEmailVerified, SignedOut, LoggedOut,
       IntrestAdded, Resuming

(* No button is tapped on the splash screen.                               *)
LEMMA TapsElsewhere ==
  ASSUME AuthInv, NEW h \in Handlers, Tap(h)
  PROVE  Top.page # "Splash" /\ NoSplashOpened
<1>1. Top.page # "Splash"
  BY DEF Tap, TapCreateAccount, TapLogin, TapReset, TapGoogle, TapProceed, TapResend,
         TapVerifyBack, TapLogout, TapChoose, OnTop
<1>2. \/ stack' = stack
      \/ stack' = [stack EXCEPT ![Len(stack)].loading = TRUE]
  BY DEF Tap, TapCreateAccount, TapLogin, TapReset, TapGoogle, TapProceed, TapResend,
         TapVerifyBack, TapLogout, TapChoose, StartLoading, StartPlain, WithLoading
<1>3. CASE stack' = [stack EXCEPT ![Len(stack)].loading = TRUE]
  <2> DEFINE e == [Top EXCEPT !.loading = TRUE]
  <2>1. stack \in Stacks /\ Len(stack) \in 1 .. Len(stack) /\ Top \in Screen
    BY InvParts, StackShape DEF FlowOK, Top
  <2>2. e \in Screen /\ e.page = Top.page
    BY <2>1 DEF Screen
  <2>3. stack' = [stack EXCEPT ![Len(stack)] = e]
    BY <1>3 DEF Top
  <2> HIDE DEF e
  <2>4. /\ Len(stack') = Len(stack)
        /\ \A j \in 1 .. Len(stack) : stack'[j] = IF j = Len(stack) THEN e ELSE stack[j]
    BY <2>1, <2>2, <2>3, ExceptSeq DEF Stacks
  <2>5. e.page = stack[Len(stack)].page
    BY <2>2 DEF Top
  <2> QED
    BY <1>1, <2>4, <2>5 DEF NoSplashOpened
<1> QED
  BY <1>1, <1>2, <1>3 DEF NoSplashOpened

LEMMA SplashStaysAlone == AuthInv /\ SplashInv /\ [Next]_vars => SplashInv'
<1> SUFFICES ASSUME AuthInv, SplashInv, [Next]_vars
             PROVE  SplashInv'
  OBVIOUS
<1>1. ASSUME NEW h \in Handlers, Service(h) \/ Resume(h)
      PROVE  SplashInv'
  <2>1. call[h] # Idle
    BY <1>1, ServiceKeepsScreens, ResumesFrom, IdleCall DEF Waiting, Resuming
  <2>2. NoSplashOpened
    BY <1>1, ServiceKeepsScreens, ResumeOpensNoSplash DEF NoSplashOpened
  <2> QED
    BY <2>1, <2>2, SplashOpensNoMore
<1>2. ASSUME NEW h \in Handlers, Dispose(h)
      PROVE  SplashInv'
  <2>1. call[h] # Idle /\ stack' = stack
    BY <1>2, IdleCall DEF Dispose
  <2> QED
    BY <2>1, SplashOpensNoMore DEF NoSplashOpened
<1>3. CASE PersistSkip \/ (\E a \in Users : FollowLink(a)) \/ UNCHANGED vars
  BY <1>3 DEF PersistSkip, FollowLink, vars, SplashInv
<1>4. CASE Restart
  <2>1. Len(stack') = 1 /\ \A h \in Handlers : call'[h] = Idle
    BY <1>4 DEF Restart
  <2> QED
    BY <2>1 DEF SplashInv
<1> QED
  BY <1>1, <1>2, <1>3, <1>4, NavigateKeepsSplash, TapsElsewhere, ButtonsKeepSplash DEF Next

(* What AdmitsVerifiedOnly says of a step.                                 *)
Admits ==
  Top'.page = "Main" =>
    /\ OnTop("Splash") => IF session = Nobody THEN skip # "unset"
                          ELSE fb[session] = "verified"
    /\ \A h \in Handlers : LoginEnters(h) => fb[session] = "verified"

(* The splash screen goes on to Main, from a device that knows a verified  *)
(* user or was told to skip.                                               *)
LEMMA SplashAdmits ==
  ASSUME AuthInv, SplashInv, Next, OnTop("Splash"), Top'.page = "Main"
  PROVE  IF session = Nobody THEN skip # "unset" ELSE fb[session] = "verified"
<1>1. /\ FlowOK /\ stack \in Stacks /\ Len(stack) \in Nat
      /\ Len(stack) \in 1 .. Len(stack)
  BY InvParts, StackShape DEF FlowOK
<1>2. Len(stack) = 1 /\ \A h \in Handlers : call[h] = Idle
  BY <1>1 DEF SplashInv, OnTop, Top
<1>3. ASSUME NEW h \in Handlers
      PROVE  ~Service(h) /\ ~Resume(h) /\ ~Tap(h) /\ ~Dispose(h)
  BY <1>2, IdleCall, ServiceKeepsScreens, ResumesFrom, TapsElsewhere
     DEF Waiting, Resuming, OnTop, Dispose
<1>4. ~PersistSkip /\ ~\E a \in Users : FollowLink(a)
  BY DEF PersistSkip, FollowLink, OnTop, Top
<1>5. ~Navigate
  BY <1>2 DEF Navigate, OpenScreen, SkipOnboarding, SkipLogin, OpenSheet, TapSheetLogin,
              SystemBack, OnTop, PushLinks
<1>6. ~Restart
  <2>1. Restart => Len(stack') = 1 /\ stack'[1] = Fresh("Splash")
    BY DEF Restart
  <2> QED
    BY <2>1, FreshScreen DEF Top, Pages
<1>7. SplashTimer
  BY <1>3, <1>4, <1>5, <1>6 DEF Next
<1>8. SplashTarget \in Pages
  BY DEF SplashTarget, HomeOf, Pages
<1>9. Top'.page = SplashTarget
  BY <1>1, <1>7, <1>8, ReplacedShape, FreshScreen DEF SplashTimer, Top
<1> QED
  BY <1>9, DataParts DEF SplashTarget, HomeOf

(* A login goes on to Main for a verified user.                            *)
LEMMA LoginAdmits ==
  ASSUME AuthInv, Next, NEW h \in Handlers, LoginEnters(h), Top'.page = "Main"
  PROVE  fb[session] = "verified"
<1>1. /\ FlowOK /\ stack \in Stacks /\ Len(stack) \in 1 .. Len(stack)
      /\ call[h].pc = "loggedIn" /\ call'[h].pc = "idle"
  BY InvParts, StackShape, IdleCall DEF FlowOK, LoginEnters
<1>2. ASSUME NEW g \in Handlers, SparesOthers(g)
      PROVE  g = h
  BY <1>1, <1>2 DEF SparesOthers, SameErrand
<1>3. ASSUME NEW g \in Handlers
      PROVE  ~Tap(g) /\ ~Service(g) /\ ~Dispose(g)
  <2>1. ~Tap(g)
    BY <1>1, <1>2, TapMoves
  <2>2. ~Service(g)
    BY <1>1, <1>2, ServiceSpares, ServiceKeepsScreens DEF Waiting
  <2>3. ~Dispose(g)
    BY <1>1, OthersMove DEF NobodyMoves, SameErrand
  <2> QED
    BY <2>1, <2>2, <2>3
<1>4. ~SplashTimer /\ ~Navigate /\ ~PersistSkip /\ ~\E a \in Users : FollowLink(a)
  BY <1>1, OthersMove DEF NobodyMoves, SameErrand
<1>5. ~Restart
  <2>1. Restart => Len(stack') = 1 /\ stack'[1] = Fresh("Splash")
    BY DEF Restart
  <2> QED
    BY <2>1, FreshScreen DEF Top, Pages
<1>6. PICK g \in Handlers : Resume(g)
  BY <1>3, <1>4, <1>5 DEF Next
<1>7. g = h
  BY <1>2, <1>6, ResumeMoves DEF Resumed
<1>8. LoginDone(h)
  BY <1>1, <1>6, <1>7 DEF Resume, SignUpCreated, SignUpRegistered, SignUpMailed, ResetDone,
     GoogleSigned, GoogleRegistered, CheckEmailVerified, SignedOut, LoggedOut, IntrestAdded
<1>9. GoTo(h, HomeOf(cached))
  BY <1>8 DEF LoginDone, LoginEnters, MountedAfterAwait
<1>10. HomeOf(cached) \in Pages
  BY DEF HomeOf, Pages
<1>11. stack' = Replaced(LoaderStopped(call[h]), HomeOf(cached))
  BY <1>9 DEF GoTo, ReplaceTop
<1>12. Top'.page = HomeOf(cached)
  BY <1>1, <1>10, <1>11, LoaderStoppedShape, ReplacedShape, FreshScreen DEF Top
<1> QED
  BY <1>12, DataParts DEF HomeOf

(* In no order of events do the splash screen and the login let an         *)
(* unverified address into the app.                                        *)
THEOREM VerifiedOnlyAdmitted == Spec => AdmitsVerifiedOnly
<1>1. Init => SplashInv
  BY DEF Init, SplashInv
<1>2. AuthInv /\ SplashInv /\ [Next]_vars => [Admits]_vars
  BY SplashAdmits, LoginAdmits DEF Admits
<1>3. Spec => [][Admits]_vars
  BY <1>1, <1>2, SplashStaysAlone, InitEstablishes, StepKeeps, PTL DEF Spec
<1> QED
  BY <1>3 DEF AdmitsVerifiedOnly, Admits

================================================================================
