---------------------------- MODULE Continuations ----------------------------
(***************************************************************************)
(* The Scheme stack: a segment of words, the continuation objects that     *)
(* refer to the frames frozen in it, and the list of them that execution   *)
(* goes on with (pcb->next_k).  call/cc freezes the frames where they are  *)
(* and puts the frame base below them; a return at the base goes to the    *)
(* underflow handler, and ik_exec_code reinstates one frame, splitting the *)
(* continuation object in place; a function that enters below the redline  *)
(* gets a new segment; a callout freezes the stack under a system          *)
(* continuation, and C code may call back.                                 *)
(*                                                                         *)
(* The positions of a segment are counted from its base down.  A word of a *)
(* frame holds its function; the words below the frame pointer, which      *)
(* nothing reads, are Free.  The frame that ik_stack_overflow is called    *)
(* from is frozen with the others and put back by the same call: it is     *)
(* left out.                                                               *)
(*                                                                         *)
(* No action uses BaseAtHandler, FreezeAlways, LeaveAsFound, NoRedline,    *)
(* NextKept: each is what a plausible bug would make of the definition     *)
(* that follows it.                                                        *)
(***************************************************************************)
EXTENDS Integers, SequencesExt, FiniteSets

CONSTANTS
  Functions, Slots, NoStack,
  FrameWords,  \* the words of a frame of each function
  SegmentSize, Redline,
  MaxDepth,    \* bounds the frames of a continuation
  MaxCallouts, \* bounds the callouts of a behaviour
  KontIds,     \* the continuation objects there is memory for
  NoKont,
  AcrossC      \* a continuation may be reinstated in another callback than
               \* the one it was captured in

\* What the constants must satisfy.  Beyond the redline there is room for a
\* frame and for the handler.
StackAssumptions ==
  /\ SegmentSize \in Nat /\ Redline \in 1 .. SegmentSize - 1
  /\ FrameWords \in [Functions -> Nat \ {0}]
  /\ \A f \in Functions : Redline + 1 + FrameWords[f] <= SegmentSize
  /\ Functions \cap {"free", "handler"} = {}
  /\ NoKont \notin KontIds /\ NoStack \notin KontIds \cup {NoKont}

VARIABLES
  mem, base, fp,  \* the segment, the frame base and the frame pointer
  kont,           \* the continuation objects
  nextK, esc,
  cstack,         \* the callouts whose C function has not returned
  callouts,       \* the callouts so far
  mode            \* "entry", "entered", "running", "returning", "c", "done",
                  \* "aborted"

contVars == <<mem, base, fp, kont, nextK, esc, cstack, callouts, mode>>

Frame(f) == <<f, 0>>
Mark(n) == <<"C", n>>

\* A continuation object: the frozen words, in the segment or moved to the
\* heap, and the next one.  C is the number of the callout of a system
\* continuation.
Unused == [moved |-> <<>>, top |-> 0, size |-> 0, next |-> NoKont, c |-> 0]

Words(k) ==
  IF kont[k].moved # <<>> THEN kont[k].moved
  ELSE SubSeq(mem, kont[k].top - kont[k].size + 1, kont[k].top)

\* The frames of WORDS, the topmost first: a return address tells the size.
FramesOf(words) ==
  LET f[n \in 0 .. Len(words)] ==
        IF n = 0 THEN <<>>
        ELSE IF words[n] \notin Functions \/ FrameWords[words[n]] > n THEN <<Frame(words[n])>>
        ELSE <<Frame(words[n])>> \o f[n - FrameWords[words[n]]]
  IN f[Len(words)]

\* The frames K and the continuations after it return to.
Denoted(k) ==
  LET d[n \in 0 .. Cardinality(KontIds)] ==
        [j \in KontIds \cup {NoKont} |->
           IF n = 0 \/ j = NoKont THEN <<>>
           ELSE (IF kont[j].c > 0 THEN <<Mark(kont[j].c)>> ELSE FramesOf(Words(j)))
                  \o d[n - 1][kont[j].next]]
  IN d[Cardinality(KontIds)][k]

\* The frames on the stack above the underflow handler.
OnStack == FramesOf(SubSeq(mem, base + 2, fp))

ControlList == OnStack \o Denoted(nextK)

\* S has the continuations after each of its own.
Closed(S) == \A j \in S : kont[j].next \in S \cup {NoKont}

\* K and the continuations after it: they are in each closed set that K is in.
Chain(k) ==
  {j \in KontIds : \A S \in SUBSET KontIds : k \in S \cup {NoKont} /\ Closed(S) => j \in S}

Live == Chain(nextK) \cup UNION {Chain(esc[s]) : s \in {t \in Slots : esc[t] # NoStack}}

Konts == {k \in KontIds : kont[k] # Unused}
FreeKonts == KontIds \ Konts
NewKont == CHOOSE k \in FreeKonts : TRUE

NewSegment == [[i \in 1 .. SegmentSize |-> "free"] EXCEPT ![1] = "handler"]

ContInit ==
  /\ mem = NewSegment /\ base = 0 /\ fp = 1
  /\ kont = [k \in KontIds |-> Unused]
  /\ nextK = NoKont /\ esc = [s \in Slots |-> NoStack]
  /\ cstack = <<>> /\ callouts = 0 /\ mode = "running"

-----------------------------------------------------------------------------
(* Calls.                                                                  *)

InBody == mode \in {"entered", "running"}

Cleared(m, from) == [i \in 1 .. SegmentSize |-> IF i > from THEN "free" ELSE m[i]]

\* A function calls another one and leaves its frame.
Call(f) ==
  /\ InBody /\ Len(ControlList) < MaxDepth
  /\ fp' = fp + FrameWords[f]
  /\ mem' = [i \in 1 .. SegmentSize |-> IF i \in fp + 1 .. fp' THEN f ELSE mem[i]]
  /\ mode' = IF fp' > SegmentSize THEN "aborted" ELSE "entry"
  /\ UNCHANGED <<base, kont, nextK, esc, cstack, callouts>>

\* A function is called in tail position.
TailCall ==
  /\ mode = "running" /\ mode' = "entry"
  /\ UNCHANGED <<mem, base, fp, kont, nextK, esc, cstack, callouts>>

NoRedline == FALSE

\* $stack-overflow-check
Overflows == fp > Redline

EnterFunction ==
  /\ mode = "entry" /\ ~Overflows /\ mode' = "entered"
  /\ UNCHANGED <<mem, base, fp, kont, nextK, esc, cstack, callouts>>

FreezeAlways == TRUE

\* At the base there is nothing to freeze.
Freezes == fp > base + 1

Frozen == [moved |-> <<>>, top |-> fp, size |-> fp - base - 1, next |-> nextK, c |-> 0]

\* The object X with its frozen WORDS in the heap.
Moved(x, words) == [x EXCEPT !.moved = words, !.top = 0]

\* The old segment becomes data that nothing writes to any more.
StackOverflow ==
  /\ mode = "entry" /\ Overflows /\ FreeKonts # {}
  /\ kont' = [k \in KontIds |->
                IF k = NewKont /\ Freezes
                  THEN Moved(Frozen, SubSeq(mem, base + 2, fp))
                ELSE IF k \in Konts /\ kont[k].c = 0 THEN Moved(kont[k], Words(k))
                ELSE kont[k]]
  /\ nextK' = IF Freezes THEN NewKont ELSE nextK
  /\ mem' = NewSegment /\ base' = 0 /\ fp' = 1 /\ mode' = "entered"
  /\ UNCHANGED <<esc, cstack, callouts>>

-----------------------------------------------------------------------------
(* Returns.                                                                *)

TopFunction(k) == Words(k)[Len(Words(k))]

TopSize(k) == FrameWords[TopFunction(k)]

\* The topmost frame, of SIZE words, of an object X, and its other frames.
Topmost(x, size) ==
  [x EXCEPT !.size = size,
            !.moved = IF x.moved = <<>> THEN <<>>
                      ELSE SubSeq(x.moved, x.size - size + 1, Len(x.moved))]

Others(x, size) ==
  [x EXCEPT !.top = IF x.moved = <<>> THEN x.top - size ELSE 0, !.size = x.size - size,
            !.moved = SubSeq(x.moved, 1, Len(x.moved) - size)]

NextKept(k, rest) ==
  [kont EXCEPT ![rest] = Others(kont[k], TopSize(k)), ![k] = Topmost(kont[k], TopSize(k))]

\* K keeps its topmost frame, REST gets the others.
Split(k, rest) ==
  [kont EXCEPT ![rest] = Others(kont[k], TopSize(k)),
               ![k] = [Topmost(kont[k], TopSize(k)) EXCEPT !.next = rest]]

\* A return with frames on the stack.
ReturnToFrame ==
  /\ InBody /\ fp > base + 1
  /\ fp' = fp - FrameWords[mem[fp]]
  /\ mem' = Cleared(mem, fp') /\ mode' = "running"
  /\ UNCHANGED <<base, kont, nextK, esc, cstack, callouts>>

AtUnderflow == (InBody \/ mode = "returning") /\ fp = base + 1

\* The loop of ik_exec_code: the topmost frame of the next continuation is
\* copied below the base and returned to.
Underflow ==
  /\ AtUnderflow /\ nextK # NoKont /\ kont[nextK].c = 0
  /\ IF TopSize(nextK) < kont[nextK].size
       THEN /\ FreeKonts # {}
            /\ kont' = Split(nextK, NewKont) /\ nextK' = NewKont
       ELSE /\ nextK' = kont[nextK].next /\ UNCHANGED kont
  /\ mode' = "running"
  /\ UNCHANGED <<mem, base, fp, esc, cstack, callouts>>

\* ik_exec_code returns to the C function that called it.
ExecReturns ==
  /\ AtUnderflow /\ (nextK # NoKont => kont[nextK].c > 0)
  /\ mode' = IF cstack = <<>> THEN "done" ELSE "c"
  /\ UNCHANGED <<mem, base, fp, kont, nextK, esc, cstack, callouts>>

-----------------------------------------------------------------------------
(* Captures.                                                               *)

BaseAtHandler == base + 1

\* Where the base is put when the stack is frozen.
NewBase == fp

\* The stack with its frames frozen in place and an empty one below them.
Seal ==
  IF Freezes
    THEN /\ kont' = [kont EXCEPT ![NewKont] = Frozen]
         /\ nextK' = NewKont
         /\ base' = NewBase /\ fp' = NewBase + 1
         /\ mem' = [mem EXCEPT ![NewBase + 1] = "handler"]
    ELSE UNCHANGED <<kont, nextK, base, fp, mem>>

\* call/cc, a function that is called and checks for overflow first.
CallCC(s) ==
  /\ mode = "entered" /\ FreeKonts # {}
  /\ Seal
  /\ esc' = [esc EXCEPT ![s] = nextK']
  /\ mode' = "running"
  /\ UNCHANGED <<cstack, callouts>>

\* The program drops an escape procedure.
Drop(s) ==
  /\ esc[s] # NoStack
  /\ esc' = [esc EXCEPT ![s] = NoStack]
  /\ UNCHANGED <<mem, base, fp, kont, nextK, cstack, callouts, mode>>

\* The callouts that K returns to.
Systems(k) == {kont[j].c : j \in Chain(k)} \ {0}

\* An escape procedure is called.  The stack is emptied down to its base,
\* never further: above it are frozen frames.
Escape(s) ==
  /\ InBody /\ esc[s] # NoStack
  /\ ~AcrossC => Systems(esc[s]) = ToSet(cstack)
  /\ nextK' = esc[s]
  /\ fp' = base + 1 /\ mem' = Cleared(mem, base + 1)
  /\ mode' = "returning"
  /\ UNCHANGED <<base, kont, esc, cstack, callouts>>

-----------------------------------------------------------------------------
(* C functions that may call back.                                         *)

\* ik_enter_c_function: the system continuation goes on top of the frozen
\* frames.
Callout ==
  /\ mode = "entered" /\ callouts < MaxCallouts
  /\ Cardinality(FreeKonts) >= 2
  /\ callouts' = callouts + 1
  /\ cstack' = Append(cstack, callouts')
  /\ LET sealed == IF Freezes THEN NewKont ELSE nextK
         sk == CHOOSE k \in FreeKonts \ {sealed} : TRUE
     IN /\ kont' = [k \in KontIds |->
                      IF k = sk THEN [Unused EXCEPT !.next = sealed, !.c = callouts']
                      ELSE IF k = NewKont /\ Freezes THEN Frozen ELSE kont[k]]
        /\ nextK' = sk
  /\ IF Freezes
       THEN /\ base' = NewBase /\ fp' = NewBase + 1
            /\ mem' = [mem EXCEPT ![NewBase + 1] = "handler"]
       ELSE UNCHANGED <<base, fp, mem>>
  /\ mode' = "c" /\ UNCHANGED esc

\* generic_callback
Callback ==
  /\ mode = "c" /\ mode' = "running"
  /\ UNCHANGED <<mem, base, fp, kont, nextK, esc, cstack, callouts>>

IsSystem(k) == k # NoKont /\ kont[k].c > 0

LeaveAsFound == nextK

\* What execution goes on with when a C function returns.
Left == kont[nextK].next

\* ik_leave_c_function
LeaveCFunction ==
  /\ mode = "c"
  /\ IF IsSystem(nextK)
       THEN nextK' = Left /\ cstack' = Front(cstack) /\ mode' = "returning"
       ELSE mode' = "aborted" /\ UNCHANGED <<nextK, cstack>>
  /\ UNCHANGED <<mem, base, fp, kont, esc, callouts>>

-----------------------------------------------------------------------------
\* A collection, when memory is short, moves the frozen frames of the live
\* continuations to the heap and frees the others.
CollectKonts ==
  /\ mode # "aborted" /\ Cardinality(FreeKonts) < 2
  /\ kont' = [k \in KontIds |->
                IF k \notin Live THEN Unused
                ELSE IF kont[k].c > 0 THEN kont[k]
                ELSE Moved(kont[k], Words(k))]
  /\ kont' # kont
  /\ UNCHANGED <<mem, base, fp, nextK, esc, cstack, callouts, mode>>

ContNext ==
  \/ \E f \in Functions : Call(f)
  \/ TailCall \/ EnterFunction \/ StackOverflow
  \/ ReturnToFrame \/ Underflow \/ ExecReturns
  \/ \E s \in Slots : CallCC(s) \/ Drop(s) \/ Escape(s)
  \/ Callout \/ Callback \/ LeaveCFunction
  \/ CollectKonts

ContSpec == ContInit /\ [][ContNext]_contVars

-----------------------------------------------------------------------------
(* Properties.                                                             *)

StackTypes ==
  /\ mem \in [1 .. SegmentSize -> Functions \cup {"free", "handler"}]
  /\ base \in 0 .. SegmentSize /\ fp \in 1 .. SegmentSize + 2
  /\ nextK \in KontIds \cup {NoKont}
  /\ esc \in [Slots -> KontIds \cup {NoKont, NoStack}]
  /\ mode \in {"entry", "entered", "running", "returning", "c", "done", "aborted"}

\* "A continuation object can never have the underflow handler as return
\* address of the top stack frame", nor be empty, nor end inside a frame.
SoundKonts ==
  \A k \in Konts : kont[k].c = 0 =>
    /\ Words(k) # <<>> /\ Len(Words(k)) = kont[k].size
    /\ \A w \in ToSet(Words(k)) : w \in Functions
    /\ TopSize(k) <= kont[k].size

\* Below the redline there is room for what is used without a check.
StaysInSegment == fp <= SegmentSize /\ mode # "aborted"

\* ik_leave_c_function expects "the first 'next process continuation' to be
\* the system continuation created by ik_enter_c_function()".
LeavesItsOwn ==
  mode = "c" => IsSystem(nextK) /\ cstack # <<>> /\ kont[nextK].c = Last(cstack)

\* Continuation objects hold whole frames and are not written to, the segment
\* is never left, and C functions nest with callbacks.
StackInvariant == StackTypes /\ SoundKonts /\ StaysInSegment /\ LeavesItsOwn

\* What ControlStack sees of the frames and of the escape procedures.
Captured == [s \in Slots |-> IF esc[s] = NoStack THEN NoStack ELSE Denoted(esc[s])]
AbstractMode == IF mode \in {"entry", "entered", "running"} THEN "scheme" ELSE mode

=============================================================================
