--------------------------- MODULE UnwindProtection ---------------------------
(***************************************************************************)
(* with-unwind-protection, unwinding-call/cc and guard: a parameter says   *)
(* to the out-guards on the way why they are called, and so whether they   *)
(* run their unwind handlers (ikarus.unwind-protection.sls, the macros of  *)
(* psyntax.non-core-macro-transformers.sls, ikarus.exceptions.sls).        *)
(*                                                                         *)
(* A winder is on the list of dynamic-wind: a protected thunk, a receiver, *)
(* the body of a guard, or an unwind handler, whose exceptions are         *)
(* discarded.  It holds the stack outside of its call.  The bodies of all  *)
(* of them do what the program likes; each use of a syntax is one          *)
(* identifier.  What has no code of the program in it is one step: the     *)
(* in-guards, and a guard that jumps to its test and back before it takes  *)
(* the exception.  A process without handler for an exception exits.       *)
(*                                                                         *)
(* KeepReason, NormalReason, UncheckedReenter, NoReason, InsideKept and    *)
(* GuardsBelow, which no action uses, are what a plausible bug would make  *)
(* of the definition that follows each.                                    *)
(***************************************************************************)
EXTENDS Integers, Sequences, SequencesExt

CONSTANTS
  Uwp,        \* uses of with-unwind-protection
  Ucc,        \* calls to unwinding-call/cc
  Guard,      \* uses of guard
  Standard,   \* escape procedures of the standard call/cc
  HandlerOps, \* what unwind handlers may do
  MaxFrames   \* bound on the stack

\* What the constants must satisfy.
UnwindAssumptions ==
  /\ HandlerOps \subseteq {"unwinding", "guard", "protect", "plain", "raise"}
  /\ MaxFrames \in Nat
  /\ Uwp \cap Ucc = {} /\ Uwp \cap Guard = {} /\ Ucc \cap Guard = {}

VARIABLES
  winders, \* of the current dynamic environment, the innermost first
  frames,  \* of the stack, the innermost first
  why,     \* run-unwind-protection-cleanup-upon-exit?
  terminated, \* terminated? of each protected thunk
  calls,   \* calls of its unwind handler
  in_receiver, \* inside-dynamic-extent-of-receiver-call? of each receiver
  called,  \* escape-procedure-already-called-once?
  escape,  \* the winders each unwinding escape procedure returns to
  reinstated, \* what the standard escape procedures reinstate
  used     \* uses of the syntaxes so far

unwindVars == <<winders, frames, why, terminated, calls, in_receiver, called, escape,
                reinstated, used>>

NotCaptured == [winders |-> <<>>, frames |-> <<>>, valid |-> FALSE]

UnwindInit ==
  /\ winders = <<>> /\ frames = <<>> /\ why = "no"
  /\ terminated = [u \in Uwp |-> FALSE] /\ calls = [u \in Uwp |-> 0]
  /\ in_receiver = [c \in Ucc |-> FALSE] /\ called = [c \in Ucc |-> FALSE]
  /\ escape = [c \in Ucc |-> <<>>]
  /\ reinstated = [k \in Standard |-> NotCaptured]
  /\ used = {}

Frame(at, id) == [at |-> at, id |-> id]

\* The winders in common between the current and the target environment.
CommonTail(x, y) == Reverse(LongestCommonPrefix({Reverse(x), Reverse(y)}))

InHandler == \E i \in DOMAIN frames : frames[i].at = "handler"

\* The program, and not the machinery, is running; in an unwind handler it
\* keeps to HandlerOps.
Runs(op) ==
  /\ frames # <<>> => Head(frames).at \in {"thunk", "receiver", "guarded", "handler"}
  /\ (InHandler => op \in HandlerOps)
  /\ Len(frames) < MaxFrames

Enter(kind, at, id) ==
  /\ id \notin used /\ used' = used \cup {id}
  /\ winders' = <<[kind |-> kind, id |-> id, outside |-> frames]>> \o winders
  /\ frames' = <<Frame(at, id)>> \o frames

-----------------------------------------------------------------------------
(* with-unwind-protection                                                  *)

Protect(u) ==
  /\ Runs("protect")
  /\ Enter("protect", "thunk", u)
  /\ UNCHANGED <<why, terminated, calls, in_receiver, called, escape, reinstated>>

\* The out-guard calls the unwind handler, for the reason given; the handler
\* runs with an exception handler that leaves it.
CallHandler(u, rest, outer) ==
  /\ terminated' = [terminated EXCEPT ![u] = TRUE]
  /\ calls' = [calls EXCEPT ![u] = @ + 1]
  /\ winders' = <<[kind |-> "handler", id |-> u, outside |-> rest]>> \o outer
  /\ frames' = <<Frame("handler", u)>> \o rest

\* normal-exit? is set, so that the handler is called with the symbol return.
ThunkReturns ==
  /\ frames # <<>> /\ Head(frames).at = "thunk"
  /\ CallHandler(Head(frames).id, Tail(frames), Tail(winders))
  /\ UNCHANGED <<why, in_receiver, called, escape, reinstated, used>>

HandlerReturns ==
  /\ frames # <<>> /\ Head(frames).at = "handler"
  /\ winders' = Tail(winders) /\ frames' = Tail(frames)
  /\ UNCHANGED <<why, terminated, calls, in_receiver, called, escape, reinstated, used>>

-----------------------------------------------------------------------------
(* Escapes.                                                                *)

Protected(ws) == {ws[i].id : i \in {j \in DOMAIN ws : ws[j].kind = "protect"}}

\* A frame that unwinds from the environment FROM to WS and reinstates STK.
WindTo(from, ws, stk, kind, rest) ==
  frames' = <<[at |-> "wind", kind |-> kind, left |-> Protected(from) \ Protected(ws),
              winders |-> ws, to |-> stk]>> \o rest

GuardsBelow(ws) == {i \in DOMAIN ws : ws[i].kind = "guard"}

\* The handlers in force: guards up to the first unwind handler.
Guards(ws) ==
  {i \in DOMAIN ws : /\ ws[i].kind = "guard"
                     /\ \A j \in 1 .. i - 1 : ws[j].kind # "handler"}

Below(ws, i) == SubSeq(ws, i + 1, Len(ws))

NoReason == why

\* run-unwind-protect-cleanups of a guard.
CleanupsAsked == "exception"

\* raise, in the dynamic environment WS: some guard has a clause for it and
\* asks for the cleanups, or the exception leaves an unwind handler.  Each
\* guard that is tried clears the parameter.
Raise(ws, rest) ==
  \/ \E i \in Guards(ws) :
       /\ why' = CleanupsAsked
       /\ WindTo(ws, Below(ws, i), ws[i].outside, "exception", rest)
  \/ \E i \in DOMAIN ws :
       /\ ws[i].kind = "handler" /\ \A j \in 1 .. i - 1 : ws[j].kind # "handler"
       /\ why' = IF Guards(ws) = {} THEN why ELSE "no"
       /\ WindTo(ws, Below(ws, i), ws[i].outside, "discarded", rest)

\* raise called by the program
RaiseException ==
  /\ Runs("raise")
  /\ Raise(winders, frames)
  /\ UNCHANGED <<winders, terminated, calls, in_receiver, called, escape, reinstated,
                 used>>

Unwinding ==
  /\ frames # <<>> /\ Head(frames).at = "wind"
  /\ winders # CommonTail(winders, Head(frames).winders)

\* The out-guard of a thunk that is not run to its end.
UnwindProtected ==
  /\ Unwinding /\ Head(winders).kind = "protect"
  /\ IF why # "no" /\ ~terminated[Head(winders).id]
     THEN CallHandler(Head(winders).id, frames, Tail(winders))
     ELSE winders' = Tail(winders) /\ UNCHANGED <<frames, terminated, calls>>
  /\ UNCHANGED <<why, in_receiver, called, escape, reinstated, used>>

InsideKept(c) == in_receiver

Outside(c) == [in_receiver EXCEPT ![c] = FALSE]

UnwindOther ==
  /\ Unwinding /\ Head(winders).kind # "protect"
  /\ winders' = Tail(winders)
  /\ in_receiver' = IF Head(winders).kind = "receiver" THEN Outside(Head(winders).id)
                                                     ELSE in_receiver
  /\ UNCHANGED <<frames, why, terminated, calls, called, escape, reinstated, used>>

UncheckedReenter(ws) == {}

\* The positions of the in-guards that refuse to reenter their thunk.
Refusing(ws) ==
  {i \in DOMAIN ws : /\ i <= Len(ws) - Len(winders)
                     /\ ws[i].kind = "protect" /\ terminated[ws[i].id]}

KeepReason == why

NormalReason == "return"

\* guard and unwinding-call/cc clear the parameter when they are done.
ReasonAfter == "no"

\* The in-guard at position I refuses, or, if I is 0, none does.
StopsAt(ws, i) ==
  (i = 0 \/ i \in Refusing(ws)) /\ \A j \in Refusing(ws) : j <= i

Has(ws, kind, id) == \E i \in DOMAIN ws : ws[i].kind = kind /\ ws[i].id = id

\* The end of a wind: the winders of the target that are not in force are
\* entered, the outermost first.
Arrive ==
  /\ frames # <<>> /\ Head(frames).at = "wind" /\ ~Unwinding
  /\ LET f == Head(frames)
     IN \E i \in 0 .. Len(f.winders) :
          /\ StopsAt(f.winders, i)
          /\ winders' = Below(f.winders, i)
          /\ in_receiver' = [c \in Ucc |-> in_receiver[c] \/ Has(winders', "receiver", c)]
          /\ IF i = 0
             THEN frames' = f.to /\ why' = IF f.kind = "exception" THEN ReasonAfter ELSE why
             ELSE Raise(winders', Tail(frames))
  /\ UNCHANGED <<terminated, calls, called, escape, reinstated, used>>

-----------------------------------------------------------------------------
(* unwinding-call/cc                                                       *)

UnwindingCallCC(c) ==
  /\ Runs("unwinding")
  /\ Enter("receiver", "receiver", c)
  /\ in_receiver' = [in_receiver EXCEPT ![c] = TRUE]
  /\ escape' = [escape EXCEPT ![c] = winders']
  /\ UNCHANGED <<why, terminated, calls, called, reinstated>>

\* The receiver returns, or the escape arrives where it would return.
ReceiverReturns ==
  /\ frames # <<>> /\ Head(frames).at \in {"receiver", "escaped"}
  /\ why' = ReasonAfter
  /\ winders' = Tail(winders) /\ frames' = Tail(frames)
  /\ in_receiver' = Outside(Head(frames).id)
  /\ UNCHANGED <<terminated, calls, called, escape, reinstated, used>>

\* The stack that an unwinding escape reinstates.
Escaped(c, ws) == <<Frame("escaped", c)>> \o Head(ws).outside

CallEscape(c) ==
  /\ Runs("unwinding") /\ c \in used
  /\ IF in_receiver[c] /\ ~called[c]
     THEN /\ why' = "escape"
          /\ called' = [called EXCEPT ![c] = TRUE]
          /\ WindTo(winders, escape[c], Escaped(c, escape[c]), "escape", frames)
     ELSE Raise(winders, frames) /\ UNCHANGED called
  /\ UNCHANGED <<winders, terminated, calls, in_receiver, escape, reinstated, used>>

-----------------------------------------------------------------------------
(* guard and the standard call/cc.                                         *)

EnterGuard(g) ==
  /\ Runs("guard")
  /\ Enter("guard", "guarded", g)
  /\ UNCHANGED <<why, terminated, calls, in_receiver, called, escape, reinstated>>

GuardReturns ==
  /\ frames # <<>> /\ Head(frames).at = "guarded"
  /\ winders' = Tail(winders) /\ frames' = Tail(frames)
  /\ UNCHANGED <<why, terminated, calls, in_receiver, called, escape, reinstated, used>>

CallStandard(k) ==
  /\ Runs("plain") /\ ~reinstated[k].valid
  /\ reinstated' = [reinstated EXCEPT ![k] =
                      [winders |-> winders, frames |-> frames, valid |-> TRUE]]
  /\ UNCHANGED <<winders, frames, why, terminated, calls, in_receiver, called, escape, used>>

CallReinstated(k) ==
  /\ Runs("plain") /\ reinstated[k].valid
  /\ WindTo(winders, reinstated[k].winders, reinstated[k].frames, "plain", frames)
  /\ UNCHANGED <<winders, why, terminated, calls, in_receiver, called, escape,
                 reinstated, used>>

UnwindNext ==
  \/ \E u \in Uwp : Protect(u)
  \/ ThunkReturns
  \/ HandlerReturns
  \/ RaiseException
  \/ UnwindProtected
  \/ UnwindOther
  \/ Arrive
  \/ \E c \in Ucc : UnwindingCallCC(c) \/ CallEscape(c)
  \/ ReceiverReturns
  \/ \E g \in Guard : EnterGuard(g)
  \/ GuardReturns
  \/ \E k \in Standard : CallStandard(k) \/ CallReinstated(k)

UnwindSpec == UnwindInit /\ [][UnwindNext]_unwindVars

-----------------------------------------------------------------------------
(* Properties.                                                             *)

UnwindTypes ==
  /\ why \in {"no", "escape", "exception"}
  /\ \A i \in DOMAIN winders : winders[i].id \in used
  /\ terminated \in [Uwp -> BOOLEAN] /\ calls \in [Uwp -> Nat]
  /\ in_receiver \in [Ucc -> BOOLEAN] /\ called \in [Ucc -> BOOLEAN]
  /\ DOMAIN escape = Ucc /\ DOMAIN reinstated = Standard
  /\ \A c \in Ucc : called[c] => c \in used

\* The unwind handler of a thunk is called once at most, whatever exits,
\* reenters and exits it again.
HandlerCalledOnce == \A u \in Uwp : calls[u] = IF terminated[u] THEN 1 ELSE 0

\* The dynamic extent of a thunk whose unwind handler was called is not
\* entered again.
TerminatedIsLeft ==
  \A i \in DOMAIN winders : winders[i].kind = "protect" => ~terminated[winders[i].id]

\* The flag of an unwinding escape procedure tells whether the program is in
\* the dynamic extent of its receiver, so that it is not called from outside.
InsideIsTrue == \A c \in Ucc : in_receiver[c] = Has(winders, "receiver", c)

\* A thunk that is left has its handler called once and is not entered again,
\* whatever the handlers do.
UnwindInvariant == UnwindTypes /\ HandlerCalledOnce /\ TerminatedIsLeft /\ InsideIsTrue

\* What is needed for the others: handlers protect and raise.
PlainHandlers == HandlerOps \subseteq {"protect", "raise"}

\* An unwinding escape, or a guard that takes an exception, calls the unwind
\* handlers of all the thunks between it and its target: those it has left
\* behind so far are terminated.
AllHandlersCalled ==
  \A i \in DOMAIN frames :
    frames[i].at = "wind" /\ frames[i].kind \in {"escape", "exception"} =>
      \A u \in frames[i].left : terminated[u] \/ u \in Protected(winders)

\* An escape with the standard call/cc calls no unwind handler: it may come
\* back, and is not told from the switch to another coroutine.
PlainEscapeCallsNone ==
  [][Unwinding /\ Head(frames).kind = "plain" => calls' = calls]_unwindVars

=============================================================================
