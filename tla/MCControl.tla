------------------------------ MODULE MCControl ------------------------------
(***************************************************************************)
(* Instances for TLC of the modules on control, Coroutines, Winders,       *)
(* UnwindProtection and EventLoop, and of Arithmetic.  A behaviour is one  *)
(* of one of them: PART says which, the variables of the others keep an    *)
(* initial value, and those of EventLoop are 0.                            *)
(* The counter of the monitor goes down by one each time a waiting         *)
(* coroutine is let in, without end: its behaviours are cut below -1.      *)
(* Winders has four frames with one escape function and three with two.    *)
(* EventLoop has two parts: two file descriptors without signals; and one  *)
(* file descriptor with two signals, that have two handlers.               *)
(* In Arithmetic a word has five bits and a fixnum three, from -4 to 3:    *)
(* with two bits less than a word, as on machines with words of 32 bits.   *)
(* The limbs are those at which a carry, a borrow, a complement or the     *)
(* range of fixnums changes what the code does.                            *)
(* The properties are those of the modules.                                *)
(***************************************************************************)
EXTENDS Coroutines, Winders, UnwindProtection, Arithmetic, TLC

CONSTANTS
  x1, x2, x3, \* coroutines; winders
  y1, y2      \* escape functions; uses of with-unwind-protection

VARIABLES
  part,
  break, handlers, count, revHead, tail, tasksRevHead, tasksTail, pc,
  delivered, serving, runs, left, blocked, ready, expired

loopVars == <<break, handlers, count, revHead, tail, tasksRevHead, tasksTail, pc,
              delivered, serving, runs, left, blocked, ready, expired>>
controlVars == <<part, vars, windersVars, unwindVars, loopVars, numberVars>>

Descriptors == INSTANCE EventLoop WITH
  Fds <- {1, 2}, Signals <- {}, Watermark <- 2, EntryIds <- {1, 2}, TaskIds <- {1},
  HandlerIds <- {}, Raises <- {"fd"}, NoHandler <- None,
  running <- runs, pending <- blocked
Signals == INSTANCE EventLoop WITH
  Fds <- {1}, Signals <- {1, 2}, Watermark <- 2, EntryIds <- {1}, TaskIds <- {1},
  HandlerIds <- {1, 2}, Raises <- {"fd", "signal"}, NoHandler <- None,
  running <- runs, pending <- blocked

ASSUME ControlAssumption ==
  /\ Assumptions /\ WindersAssumptions /\ UnwindAssumptions /\ PlainHandlers /\ ArithmeticAssumptions
  /\ Descriptors!Assumptions /\ Signals!Assumptions

NoLoop ==
  /\ break = 0 /\ handlers = 0 /\ count = 0 /\ revHead = 0 /\ tail = 0
  /\ tasksRevHead = 0 /\ tasksTail = 0 /\ pc = 0 /\ delivered = 0
  /\ serving = 0 /\ runs = 0 /\ left = 0 /\ blocked = 0 /\ ready = 0
  /\ expired = 0

\* A collection happens in the last allocation of a square root where the junk
\* is not 0.
WithJunk == NumbersInit /\ collects = (junk # 0)

NoNumbers == x = Zero /\ junk = 0 /\ collects = FALSE /\ call = NoCall

ControlInit ==
  /\ \/ part \in {"coroutines", "winders", "unwind", "numbers"} /\ NoLoop
     \/ part = "descriptors" /\ Descriptors!LoopInit
     \/ part = "signals" /\ Signals!LoopInit
  /\ IF part = "numbers" THEN WithJunk ELSE NoNumbers
  /\ Init /\ WindersInit /\ UnwindInit

CoroutineStep == /\ part = "coroutines" /\ Next /\ counter' >= -1
                 /\ UNCHANGED <<part, windersVars, unwindVars, loopVars, numberVars>>

WinderStep == /\ part = "winders" /\ WindersNext
              /\ Len(stack') + Cardinality({k \in Cont : saved'[k] # NoCont}) <= 5
              /\ UNCHANGED <<part, vars, unwindVars, loopVars, numberVars>>

UnwindStep == /\ part = "unwind" /\ UnwindNext
              /\ UNCHANGED <<part, vars, windersVars, loopVars, numberVars>>

LoopStep == /\ \/ part = "descriptors" /\ Descriptors!LoopNext
               \/ part = "signals" /\ Signals!LoopNext
            /\ UNCHANGED <<part, vars, windersVars, unwindVars, numberVars>>

NumberStep == /\ part = "numbers" /\ NumbersNext
              /\ UNCHANGED <<part, vars, windersVars, unwindVars, loopVars>>

ControlNext == CoroutineStep \/ WinderStep \/ UnwindStep \/ LoopStep \/ NumberStep

ControlSpec == ControlInit /\ [][ControlNext]_controlVars

\* The coroutines but the first, the winders, the escape functions of Winders
\* and the uses of with-unwind-protection are interchangeable.
Symmetry == Permutations({x1, x2, x3}) \cup Permutations({y1, y2})

-----------------------------------------------------------------------------
(* Properties of EventLoop: see the comments there.                        *)

\* "Every handler is called once": what runs is registered nowhere, and what
\* is registered is registered once.
CalledOnce == /\ part = "descriptors" => Descriptors!TypeOK /\ Descriptors!CalledOnce
              /\ part = "signals" => Signals!TypeOK /\ Signals!CalledOnce

\* An entry goes from the queues to its handler, or is forgotten with all the
\* entries of its descriptor.
NoneDropped == /\ part = "descriptors" => Descriptors!NoneDropped
               /\ part = "signals" => Signals!NoneDropped

\* A handler of a signal waits until the signal is served.
SignalHandlersKept == /\ part = "descriptors" => Descriptors!SignalHandlersKept
                      /\ part = "signals" => Signals!SignalHandlersKept

\* Every registered handler is called once, or forgotten with its descriptor,
\* whatever handlers register, forget and raise.
HandlersCalledOnce ==
  [][CalledOnce' /\ NoneDropped /\ SignalHandlersKept]_controlVars

=============================================================================
