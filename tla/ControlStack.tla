----------------------------- MODULE ControlStack -----------------------------
(***************************************************************************)
(* What the Scheme stack and the continuation objects promise together: a  *)
(* stack of the frames to return to, that can be captured as a whole and   *)
(* put back as it was captured any number of times.  A mark stands for a C *)
(* function that called back.                                              *)
(***************************************************************************)
EXTENDS Sequences, Naturals

CONSTANTS
  Functions,   \* the functions that make calls, each with frames of one size
  Slots,       \* where the program keeps escape procedures
  NoStack,
  MaxCallouts

VARIABLES
  stack,       \* of the frames to return to, the topmost first
  conts,       \* what each escape procedure puts back
  mode         \* "scheme", "returning", "c" or "done"

controlVars == <<stack, conts, mode>>

Frame(f) == <<f, 0>>
Mark(n) == <<"C", n>>
IsMark(item) == item[1] = "C"

Marks(s) == SelectSeq(s, IsMark)

ControlInit == stack = <<>> /\ conts = [s \in Slots |-> NoStack] /\ mode = "scheme"

PushFrame(f) ==
  /\ mode = "scheme"
  /\ stack' = <<Frame(f)>> \o stack
  /\ UNCHANGED <<conts, mode>>

PopFrame ==
  /\ mode \in {"scheme", "returning"} /\ stack # <<>> /\ ~IsMark(stack[1])
  /\ stack' = Tail(stack) /\ mode' = "scheme" /\ UNCHANGED conts

ReturnToC ==
  /\ mode \in {"scheme", "returning"} /\ stack # <<>> /\ IsMark(stack[1])
  /\ mode' = "c" /\ UNCHANGED <<stack, conts>>

Halt ==
  /\ mode \in {"scheme", "returning"} /\ stack = <<>>
  /\ mode' = "done" /\ UNCHANGED <<stack, conts>>

CaptureStack(s) ==
  /\ mode = "scheme"
  /\ conts' = [conts EXCEPT ![s] = stack]
  /\ UNCHANGED <<stack, mode>>

Forget(s) == conts' = [conts EXCEPT ![s] = NoStack] /\ UNCHANGED <<stack, mode>>

PutBack(s) ==
  /\ mode = "scheme" /\ conts[s] # NoStack
  /\ Marks(conts[s]) = Marks(stack)
  /\ stack' = conts[s] /\ mode' = "returning" /\ UNCHANGED conts

CallC(n) ==
  /\ mode = "scheme"
  /\ stack' = <<Mark(n)>> \o stack
  /\ mode' = "c" /\ UNCHANGED conts

CallBack == mode = "c" /\ mode' = "scheme" /\ UNCHANGED <<stack, conts>>

LeaveC ==
  /\ mode = "c" /\ IsMark(stack[1])
  /\ stack' = Tail(stack) /\ mode' = "returning" /\ UNCHANGED conts

ControlNext ==
  \/ \E f \in Functions : PushFrame(f)
  \/ PopFrame \/ ReturnToC \/ Halt
  \/ \E s \in Slots : CaptureStack(s) \/ Forget(s) \/ PutBack(s)
  \/ \E n \in 1 .. MaxCallouts : CallC(n)
  \/ CallBack \/ LeaveC

ControlSpec == ControlInit /\ [][ControlNext]_controlVars

=============================================================================
