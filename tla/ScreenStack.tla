------------------------------ MODULE ScreenStack ------------------------------
(***************************************************************************)
(* The Flutter Navigator as the screens of src/lib use it: a stack of      *)
(* screens, each with the part of its State object the handlers touch.     *)
(* Routes come and go at the top only, so the position of a screen in the  *)
(* stack is its identity for as long as it is there.                       *)
(***************************************************************************)
EXTENDS Naturals, Sequences

CONSTANTS
  MaxDepth,   \* bound: the user opens no screen on a stack this deep
  Visited     \* bound: the kinds of screen the user opens with a button

(* The kinds of screen; a modal sheet is a route like any other.           *)
Pages == {"Splash", "Onboarding", "SignIn", "SignUp", "Login", "Reset", "Verify",
          "Interests", "Main", "LogoutSheet", "LoginSheet"}

ASSUME ScreenStackAssumption == MaxDepth \in Nat /\ Visited \subseteq Pages

VARIABLE
  stack      \* the Navigator's routes, the visible one last

(* loading is the State's isLoading; threw (history) says that a handler   *)
(* of the screen ended in an uncaught exception.                           *)
Screen == [page: Pages, loading: BOOLEAN, threw: BOOLEAN]
Fresh(p) == [page |-> p, loading |-> FALSE, threw |-> FALSE]

Top == stack[Len(stack)]
OnTop(p) == Top.page = p

(* The user may open a screen of kind p (the bounds MaxDepth and Visited). *)
MayOpen(p) == Len(stack) < MaxDepth /\ p \in Visited

(* Navigator.push, from the screens st.                                    *)
Pushed(st, p) == Append(st, Fresh(p))

(* Navigator.pushReplacement: whatever is VISIBLE leaves the stack, which  *)
(* need not be the screen whose handler makes the call.                    *)
Replaced(st, p) == [st EXCEPT ![Len(st)] = Fresh(p)]

(* Navigator.pop, or the system's back gesture.                            *)
PoppedTwice(st) == SubSeq(st, 1, Len(st) - 2)
Popped(st) == SubSeq(st, 1, Len(st) - 1)

(* setState(() { isLoading = v; }) on the screen at position i.            *)
WithLoading(st, i, v) == [st EXCEPT ![i].loading = v]

================================================================================
