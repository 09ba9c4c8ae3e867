------------------------------- MODULE Winders -------------------------------
(***************************************************************************)
(* call/cc and dynamic-wind (ikarus.control.sls): the list of winders, the *)
(* escape functions that unwind and rewind it, and what happens when the   *)
(* guards themselves capture continuations or escape.                      *)
(*                                                                         *)
(* A winder is a pair of guards that dynamic-wind has consed; lists are    *)
(* sequences with the innermost winder first, and as each winder is pushed *)
(* on one list, equal sequences are lists that are eq?.  The stack has a   *)
(* frame for each call under way that this module is about, with the       *)
(* winders at the call (its history, for the properties); what the program *)
(* does in a body or in a guard is chosen freely.                          *)
(*                                                                         *)
(* UnwindBeforePop and TailIfEqual, which no action uses, are what a       *)
(* plausible bug would make of the definition that follows.                *)
(***************************************************************************)
EXTENDS Integers, Sequences, SequencesExt

CONSTANTS
  Winder,  \* pairs of guards: a bound on how many are consed
  Cont,    \* escape functions, one for each call to call/cc
  MaxDepth \* bound on the frames of the stack

\* What the constants must satisfy.
WindersAssumptions == MaxDepth \in Nat

VARIABLES
  the_winders,
  stack,   \* frames, the innermost first
  saved,   \* escape functions: the winders and the stack they reinstate
  consed,  \* the winders that exist
  entered  \* in-guards returned minus out-guards called

windersVars == <<the_winders, stack, saved, consed, entered>>

NoCont == [winders |-> <<>>, stack |-> <<>>, valid |-> FALSE]

WindersInit ==
  /\ the_winders = <<>>
  /\ stack = <<>>
  /\ saved = [k \in Cont |-> NoCont]
  /\ consed = {}
  /\ entered = [w \in Winder |-> 0]

-----------------------------------------------------------------------------
(* dynamic-wind.                                                           *)

\* The in-guard is called; nothing is pushed before it returns.
dynamic_wind ==
  /\ Len(stack) < MaxDepth
  /\ stack' = <<[call |-> "in-guard", in |-> the_winders]>> \o stack
  /\ UNCHANGED <<the_winders, saved, consed, entered>>

\* A pair is consed each time the in-guard returns, also when the same call
\* returns again because a continuation captured in it was reinstated.
InGuardReturns(w) ==
  /\ stack # <<>> /\ Head(stack).call = "in-guard"
  /\ w \notin consed
  /\ consed' = consed \cup {w}
  /\ the_winders' = <<w>> \o the_winders
  /\ entered' = [entered EXCEPT ![w] = @ + 1]
  /\ stack' = <<[call |-> "body", of |-> w, in |-> the_winders]>> \o Tail(stack)
  /\ UNCHANGED saved

\* The winder is popped before the out-guard is called.
BodyReturns ==
  /\ stack # <<>> /\ Head(stack).call = "body"
  /\ the_winders' = Tail(the_winders)
  /\ entered' = [entered EXCEPT ![Head(stack).of] = @ - 1]
  /\ stack' = <<[call |-> "out-guard", in |-> Head(stack).in]>> \o Tail(stack)
  /\ UNCHANGED <<saved, consed>>

OutGuardReturns ==
  /\ stack # <<>> /\ Head(stack).call = "out-guard"
  /\ stack' = Tail(stack)
  /\ UNCHANGED <<the_winders, saved, consed, entered>>

-----------------------------------------------------------------------------
(* call/cc and the escape functions.                                       *)

call_cc(k) ==
  /\ ~ saved[k].valid
  /\ saved' = [saved EXCEPT ![k] =
                 [winders |-> the_winders, stack |-> stack, valid |-> TRUE]]
  /\ UNCHANGED <<the_winders, stack, consed, entered>>

LastOf(ls, n) == SubSeq(ls, Len(ls) - n + 1, Len(ls))

TailIfEqual(x, y) == IF x = y THEN x ELSE <<>>

\* The longest list that is a tail of x and of y.
winders_common_tail(x, y) ==
  Reverse(LongestCommonPrefix({Reverse(x), Reverse(y)}))

UnwindBeforePop(ls, tail, k, rest) ==
  /\ the_winders' = ls
  /\ entered' = [entered EXCEPT ![Head(ls)] = @ - 1]
  /\ stack' = <<[call |-> "unwind", ls |-> Tail(ls), tail |-> tail, to |-> k]>> \o rest

\* %unwind*: ls is what is left of the winders, down to tail.
Unwind(ls, tail, k, rest) ==
  /\ the_winders' = Tail(ls)
  /\ entered' = [entered EXCEPT ![Head(ls)] = @ - 1]
  /\ stack' = <<[call |-> "unwind", ls |-> Tail(ls), tail |-> tail, to |-> k]>> \o rest

\* What follows in %rewind* once the winders are ls: the in-guard of the
\* next winder of k is called, or the stack of k is reinstated.
RewindFrom(ls, k, rest) ==
  stack' = IF ls = saved[k].winders THEN saved[k].stack
           ELSE <<[call |-> "rewind",
                   ls |-> LastOf(saved[k].winders, Len(ls) + 1),
                   to |-> k]>> \o rest

WindFrom(ls, tail, k, rest) ==
  IF ls # tail THEN Unwind(ls, tail, k, rest)
  ELSE RewindFrom(ls, k, rest) /\ UNCHANGED <<the_winders, entered>>

Escape(k) ==
  /\ saved[k].valid
  /\ Len(stack) < MaxDepth
  /\ WindFrom(the_winders, winders_common_tail(saved[k].winders, the_winders),
              k, stack)
  /\ UNCHANGED <<saved, consed>>

UnwoundGuardReturns ==
  /\ stack # <<>> /\ Head(stack).call = "unwind"
  /\ WindFrom(Head(stack).ls, Head(stack).tail, Head(stack).to, Tail(stack))
  /\ UNCHANGED <<saved, consed>>

\* The winder is pushed again after its in-guard has returned.
RewoundGuardReturns ==
  /\ stack # <<>> /\ Head(stack).call = "rewind"
  /\ the_winders' = Head(stack).ls
  /\ entered' = [entered EXCEPT ![Head(Head(stack).ls)] = @ + 1]
  /\ RewindFrom(Head(stack).ls, Head(stack).to, Tail(stack))
  /\ UNCHANGED <<saved, consed>>

-----------------------------------------------------------------------------

WindersNext ==
  \/ dynamic_wind
  \/ \E w \in Winder : InGuardReturns(w)
  \/ BodyReturns
  \/ OutGuardReturns
  \/ \E k \in Cont : call_cc(k)
  \/ \E k \in Cont : Escape(k)
  \/ UnwoundGuardReturns
  \/ RewoundGuardReturns

WindersSpec == WindersInit /\ [][WindersNext]_windersVars

-----------------------------------------------------------------------------
(* Properties.                                                             *)

\* The frames of the stack and of those that escape functions reinstate.
Frames == ToSet(stack) \cup UNION {ToSet(saved[k].stack) : k \in Cont}

\* Stacks and lists of winders are made of what exists.
WindersTypeOK ==
  /\ the_winders \in Seq(consed) /\ stack \in Seq(Frames)
  /\ consed \subseteq Winder
  /\ entered \in [Winder -> 0 .. 1]
  /\ DOMAIN saved = Cont
  /\ \A k \in Cont :
       /\ saved[k].winders \in Seq(consed) /\ saved[k].stack \in Seq(Frames)
       /\ ~ saved[k].valid => saved[k] = NoCont

\* The guards of each winder alternate, whatever continuations the bodies
\* and the guards capture and wherever they escape: an out-guard is called
\* once for each time its in-guard has returned, and exactly the winders in
\* the list are owed a call of their out-guard.
GuardsAlternate ==
  \A w \in Winder : entered[w] = IF w \in ToSet(the_winders) THEN 1 ELSE 0

\* An escape calls the out-guards of the bodies it leaves and of no other: a
\* winder that is also around the target stays entered.  (A property of steps.)
UncommonLeft ==
  \A w \in Winder :
    /\ entered'[w] < entered[w]
    /\ stack' # <<>> /\ Head(stack').call = "unwind"
    => w \notin ToSet(saved[Head(stack').to].winders)

LeavesOnlyUncommon == [][UncommonLeft]_windersVars

IsEscape(frame) == frame.call \in {"unwind", "rewind"}

\* The winders with which the code of the program that a frame calls runs:
\* those at the call, with its own pair in a body; in a guard that an escape
\* calls, what is left of the one list or is there already of the other.
Environment(frame) ==
  CASE frame.call = "body"   -> <<frame.of>> \o frame.in
    [] frame.call = "unwind" -> frame.ls
    [] frame.call = "rewind" -> Tail(frame.ls)
    [] OTHER                 -> frame.in

\* The winders with which what called the I innermost frames of STK goes on.
Under(stk, i) == IF i = Len(stk) THEN <<>> ELSE Environment(stk[i + 1])

\* What runs on the stack STK has the winders LS, and so have, each its own,
\* the calls that are waiting in it.
RunsIn(ls, stk) ==
  /\ ls = Under(stk, 0)
  /\ \A i \in DOMAIN stk : ~ IsEscape(stk[i]) => stk[i].in = Under(stk, i)

\* A body or a guard always runs in the dynamic environment of the point
\* where it was called, also when it was reached by an escape, and what it
\* returns to finds again the one it had.
DynamicEnvironment == RunsIn(the_winders, stack)

-----------------------------------------------------------------------------
(* The inductive invariant.                                                *)

\* The lists of winders there are; others are tails of these.
Lists ==
  {the_winders} \cup {saved[k].winders : k \in Cont} \cup {Environment(f) : f \in Frames}

IsTail(t, ls) == Len(t) <= Len(ls) /\ t = LastOf(ls, Len(t))

\* The winder at depth D of a list, counted from the outermost.
AtDepth(ls, d) == ls[Len(ls) - d + 1]

\* A winder was pushed on one list: two lists that have it have it at one
\* depth, and are the same from there outwards.
Shared(L) ==
  \A x, y \in L : \A d \in 1 .. Len(x), e \in 1 .. Len(y) :
    AtDepth(x, d) = AtDepth(y, e) =>
      d = e /\ \A c \in 1 .. d : AtDepth(x, c) = AtDepth(y, c)

SharedTails == Shared(Lists)

\* Escape functions reinstate their stack with its own winders.
SavedInv == \A k \in Cont : RunsIn(saved[k].winders, saved[k].stack)

\* What is left to unwind ends in TAIL, the longest list that it shares with
\* the target; what is to be pushed again is of the target.
FrameInv(f) ==
  CASE f.call \in {"in-guard", "out-guard"} -> f.in \in Seq(consed)
    [] f.call = "body" -> f.of \in consed /\ f.in \in Seq(consed)
    [] f.call = "unwind" ->
         /\ f.ls \in Seq(consed) /\ f.tail \in Seq(consed)
         /\ f.to \in Cont /\ saved[f.to].valid
         /\ IsTail(f.tail, f.ls) /\ IsTail(f.tail, saved[f.to].winders)
         /\ \A n \in 0 .. Len(f.ls) :
              IsTail(LastOf(f.ls, n), saved[f.to].winders) => n <= Len(f.tail)
    [] f.call = "rewind" ->
         /\ f.ls \in Seq(consed) /\ f.to \in Cont /\ saved[f.to].valid
         /\ f.ls # <<>> /\ IsTail(f.ls, saved[f.to].winders)
    [] OTHER -> FALSE

FramesInv == \A f \in Frames : FrameInv(f)

\* In- and out-guards alternate, whatever is called runs in the dynamic
\* environment of its call, and what makes both so.
WindersInvariant ==
  /\ WindersTypeOK
  /\ GuardsAlternate /\ DynamicEnvironment
  /\ SavedInv /\ FramesInv /\ SharedTails

=============================================================================
