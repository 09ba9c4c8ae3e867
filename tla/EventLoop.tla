------------------------------ MODULE EventLoop ------------------------------
(***************************************************************************)
(* The simple event loop (vicare posix simple-event-loop): interprocess    *)
(* signals, file descriptors and fragments of tasks.  Every registered     *)
(* handler is called once; a handler may register others, forget file      *)
(* descriptors and ask to leave, in any number of steps, and may raise an  *)
(* exception.  The descriptors, the clock and the signals change between   *)
(* any two steps.                                                          *)
(*                                                                         *)
(* The entries of descriptors and of tasks, and the handlers of signals,   *)
(* are numbered, so that one can be told from another.                     *)
(*                                                                         *)
(* No action uses GoesOn, NotAcquired, ClearedAll, SeenDropped,            *)
(* NoWatermark, NotTaken, InFront, NotCounted: each is what a plausible    *)
(* bug would make of the definition that follows it.                       *)
(***************************************************************************)
EXTENDS SequencesExt, FiniteSetsExt

CONSTANTS
  Fds, Signals,
  Watermark,    \* MAX-CONSECUTIVE-FD-EVENTS
  EntryIds, TaskIds, HandlerIds,
  Raises,       \* the kinds of handlers that may raise an exception
  NoHandler

\* What the constants must satisfy.
Assumptions == Watermark \in Nat \ {0}

VARIABLES
  break,           \* break?
  handlers,        \* signal-handlers
  count,           \* fds-count
  revHead, tail,   \* of the entries of descriptors
  tasksRevHead, tasksTail,
  pc,              \* "outside", "top", "signals", "fds", "tasks" or "handler"
  delivered,       \* the signals acquired and not served yet
  serving,         \* the handlers of one of them
  running,         \* the handler that runs
  left,            \* by "leave-asap" or an "exception"
  \* The environment:
  pending,         \* the blocked signals
  ready,           \* the descriptors whose event has happened
  expired          \* the entries whose time is over

sources == <<break, handlers, count, revHead, tail, tasksRevHead, tasksTail>>
control == <<pc, delivered, serving, running, left>>
world == <<pending, ready, expired>>
loopVars == <<sources, control, world>>

Entries == ToSet(revHead) \cup ToSet(tail)

IdsOf(entries) == {e.id : e \in entries}

RunningId(kind) == IF running # NoHandler /\ running.kind = kind THEN {running.id} ELSE {}

FreeEntries ==
  EntryIds \ (IdsOf(Entries) \cup RunningId("fd") \cup RunningId("expiry"))

Tasks == ToSet(tasksRevHead) \cup ToSet(tasksTail)

FreeTasks == TaskIds \ (Tasks \cup RunningId("task"))

Waiting == UNION {ToSet(handlers[s]) : s \in Signals}

FreeHandlers == HandlerIds \ (Waiting \cup ToSet(serving) \cup RunningId("signal"))

LoopInit ==
  /\ break = FALSE /\ handlers = [s \in Signals |-> <<>>] /\ count = 0
  /\ revHead = <<>> /\ tail = <<>> /\ tasksRevHead = <<>> /\ tasksTail = <<>>
  /\ pc = "outside" /\ delivered = <<>> /\ serving = <<>>
  /\ running = NoHandler /\ left = "leave-asap"
  /\ pending = {} /\ ready = {} /\ expired = {}

Runs(kind, id) == pc' = "handler" /\ running' = [kind |-> kind, id |-> id]

-----------------------------------------------------------------------------
(* The loop.                                                               *)

Enter ==
  /\ pc = "outside" /\ pc' = "top"
  /\ UNCHANGED <<sources, world, delivered, serving, running, left>>

GoesOn ==
  /\ pc = "top" /\ break
  /\ break' = FALSE /\ pc' = "signals"
  /\ UNCHANGED <<handlers, count, revHead, tail, tasksRevHead, tasksTail>>
  /\ UNCHANGED <<world, delivered, serving, running, left>>

Leave ==
  /\ pc = "top" /\ break
  /\ break' = FALSE /\ pc' = "outside" /\ left' = "leave-asap"
  /\ UNCHANGED <<handlers, count, revHead, tail, tasksRevHead, tasksTail>>
  /\ UNCHANGED <<world, delivered, serving, running>>

NotAcquired ==
  /\ pc = "top" /\ ~break
  /\ pc' = "signals"
  /\ UNCHANGED <<sources, delivered, serving, running, left, world>>

\* signal-bub-acquire, signal-bub-all-delivered: what was blocked is delivered
\* and blocked again, the flags are read and cleared.
AcquireSignals ==
  /\ pc = "top" /\ ~break
  /\ delivered' = SetToSortSeq(pending, LAMBDA a, b : a < b) /\ pending' = {}
  /\ pc' = "signals"
  /\ UNCHANGED <<sources, serving, running, left, ready, expired>>

ClearedAll(s) == [t \in Signals |-> <<>>]

\* The handlers are forgotten before they are called.
Cleared(s) == [handlers EXCEPT ![s] = <<>>]

ServeSignal ==
  /\ pc = "signals" /\ serving = <<>> /\ delivered # <<>>
  /\ serving' = handlers[Head(delivered)]
  /\ handlers' = Cleared(Head(delivered))
  /\ delivered' = Tail(delivered)
  /\ UNCHANGED <<break, count, revHead, tail, tasksRevHead, tasksTail>>
  /\ UNCHANGED <<pc, running, left, world>>

CallSignalHandler ==
  /\ pc = "signals" /\ serving # <<>>
  /\ Runs("signal", Head(serving)) /\ serving' = Tail(serving)
  /\ UNCHANGED <<sources, delivered, left, world>>

SignalsServed ==
  /\ pc = "signals" /\ serving = <<>> /\ delivered = <<>>
  /\ pc' = "fds"
  /\ UNCHANGED <<sources, delivered, serving, running, left, world>>

\* A run is over: the next one begins with the entries in the order they came.
NewRun(head, rest) == rest = <<>> /\ head # <<>>
Queue(head, rest) == IF NewRun(head, rest) THEN Reverse(head) ELSE rest

SeenDropped(head, rest) == <<>>

\* The entries looked at in this run.
Seen(head, rest) == IF NewRun(head, rest) THEN <<>> ELSE head

NoWatermark == TRUE

BelowWatermark == count < Watermark

NotTaken(queue) == queue

Taken(queue) == Tail(queue)

\* do-one-fd-event, one turn for each entry it looks at.
DoOneFdEvent ==
  LET queue == Queue(revHead, tail)
      seen == Seen(revHead, tail)
      e == Head(queue)
  IN
  /\ pc = "fds"
  /\ IF queue = <<>> \/ ~BelowWatermark
       THEN /\ count' = IF queue = <<>> THEN count ELSE 0
            /\ tail' = queue /\ revHead' = seen
            /\ pc' = "tasks" /\ UNCHANGED running
     ELSE IF e.fd \in ready
       THEN /\ tail' = Taken(queue) /\ revHead' = seen
            /\ Runs("fd", e.id) /\ UNCHANGED count
     ELSE IF e.id \in expired
       THEN /\ tail' = Taken(queue) /\ revHead' = seen
            /\ Runs("expiry", e.id) /\ count' = count + 1
     ELSE /\ tail' = Tail(queue) /\ revHead' = <<e>> \o seen
          /\ count' = IF Tail(queue) = <<>> THEN 0 ELSE count
          /\ pc' = IF Tail(queue) = <<>> THEN "tasks" ELSE "fds"
          /\ UNCHANGED running
  /\ UNCHANGED <<break, handlers, tasksRevHead, tasksTail, delivered, serving, left, world>>

DoOneTaskEvent ==
  LET queue == Queue(tasksRevHead, tasksTail) IN
  /\ pc = "tasks"
  /\ IF queue = <<>>
       THEN /\ pc' = "top" /\ UNCHANGED <<running, tasksTail, tasksRevHead>>
       ELSE /\ tasksTail' = Taken(queue)
            /\ tasksRevHead' = Seen(tasksRevHead, tasksTail)
            /\ Runs("task", Head(queue))
  /\ UNCHANGED <<break, handlers, count, revHead, tail, delivered, serving, left, world>>

-----------------------------------------------------------------------------
(* What handlers, and the program before it enters, do.                    *)

ProgramRuns == pc \in {"outside", "handler"}

InFront(e) == revHead' = revHead /\ tail' = <<e>> \o tail

\* %enqueue-fd-event-source
Enqueue(e) == revHead' = <<e>> \o revHead /\ tail' = tail

\* readable, writable, exception; the entry has an expiration time if TIMED.
Register(fd, timed) ==
  /\ ProgramRuns /\ FreeEntries # {}
  /\ Enqueue([id |-> Min(FreeEntries), fd |-> fd, timed |-> timed])
  /\ expired' = expired \ {Min(FreeEntries)}
  /\ UNCHANGED <<break, handlers, count, tasksRevHead, tasksTail, control, pending, ready>>

ForgetFd(fd) ==
  /\ ProgramRuns
  /\ tail' = SelectSeq(tail, LAMBDA e : e.fd # fd)
  /\ revHead' = SelectSeq(revHead, LAMBDA e : e.fd # fd)
  /\ UNCHANGED <<break, handlers, count, tasksRevHead, tasksTail, control, world>>

TaskFragment ==
  /\ ProgramRuns /\ FreeTasks # {}
  /\ tasksRevHead' = <<Min(FreeTasks)>> \o tasksRevHead
  /\ UNCHANGED <<break, handlers, count, revHead, tail, tasksTail, control, world>>

ReceiveSignal(s) ==
  /\ ProgramRuns /\ FreeHandlers # {}
  /\ handlers' = [handlers EXCEPT ![s] = <<Min(FreeHandlers)>> \o @]
  /\ UNCHANGED <<break, count, revHead, tail, tasksRevHead, tasksTail, control, world>>

LeaveAsap ==
  /\ pc = "handler" /\ break' = TRUE
  /\ UNCHANGED <<handlers, count, revHead, tail, tasksRevHead, tasksTail, control, world>>

NotCounted(kind) == count

Counted(kind) == IF kind = "fd" THEN count + 1 ELSE count

\* The thunk of a task may return the next one.
HandlerReturns ==
  /\ pc = "handler" /\ running' = NoHandler
  /\ count' = Counted(running.kind)
  /\ tasksRevHead' \in
       {tasksRevHead} \cup
       (IF running.kind = "task" THEN {<<running.id>> \o tasksRevHead} ELSE {})
  /\ pc' = IF running.kind = "signal" THEN "signals" ELSE "top"
  /\ UNCHANGED <<break, handlers, revHead, tail, tasksTail, delivered, serving, left, world>>

\* The exceptions of handlers of signals and of descriptors are caught.
HandlerRaises ==
  /\ pc = "handler" /\ running.kind \in Raises /\ running' = NoHandler
  /\ pc' = CASE running.kind = "signal" -> "signals"
             [] running.kind = "fd" -> "tasks"
             [] OTHER -> "outside"
  /\ left' = IF pc' = "outside" THEN "exception" ELSE left
  /\ UNCHANGED <<sources, delivered, serving, world>>

-----------------------------------------------------------------------------
(* The environment.                                                        *)

SignalArrives(s) == pending' = pending \cup {s} /\ UNCHANGED <<ready, expired>>

EventHappens(fd) == ready' = ready \cup {fd} /\ UNCHANGED <<pending, expired>>

EventConsumed(fd) == ready' = ready \ {fd} /\ UNCHANGED <<pending, expired>>

TimeIsOver(e) == e.timed /\ expired' = expired \cup {e.id} /\ UNCHANGED <<pending, ready>>

WorldStep ==
  /\ \/ \E s \in Signals : SignalArrives(s)
     \/ \E fd \in Fds : EventHappens(fd) \/ EventConsumed(fd)
     \/ \E e \in Entries : TimeIsOver(e)
  /\ UNCHANGED <<sources, control>>

LoopStep ==
  \/ Leave \/ AcquireSignals \/ ServeSignal \/ CallSignalHandler \/ SignalsServed
  \/ DoOneFdEvent \/ DoOneTaskEvent

HandlerEnds == HandlerReturns \/ HandlerRaises

LoopNext ==
  \/ Enter \/ LoopStep \/ HandlerEnds
  \/ \E fd \in Fds, timed \in BOOLEAN : Register(fd, timed)
  \/ \E fd \in Fds : ForgetFd(fd)
  \/ TaskFragment \/ LeaveAsap
  \/ \E s \in Signals : ReceiveSignal(s)
  \/ WorldStep

LoopSpec == LoopInit /\ [][LoopNext]_loopVars

\* The loop goes on, and handlers end.
FairLoopSpec == LoopSpec /\ WF_loopVars(LoopStep) /\ WF_loopVars(HandlerEnds)

-----------------------------------------------------------------------------
TypeOK ==
  /\ break \in BOOLEAN /\ count \in 0 .. Watermark + 1
  /\ handlers \in [Signals -> Seq(HandlerIds)] /\ ToSet(serving) \subseteq HandlerIds
  /\ Entries \subseteq [id : EntryIds, fd : Fds, timed : BOOLEAN]
  /\ Tasks \subseteq TaskIds /\ ToSet(delivered) \subseteq Signals
  /\ pc \in {"outside", "top", "signals", "fds", "tasks", "handler"}
  /\ (running # NoHandler) = (pc = "handler")

\* "Every handler is called once": what runs is registered nowhere, and what
\* is registered is registered once.
CalledOnce ==
  LET ids == [i \in 1 .. Len(revHead \o tail) |-> (revHead \o tail)[i].id]
      all == FlattenSeq(SetToSeq({handlers[s] : s \in Signals} \ {<<>>})) \o serving
  IN /\ IsInjective(ids) /\ IsInjective(tasksRevHead \o tasksTail) /\ IsInjective(all)
     /\ RunningId("fd") \cup RunningId("expiry") \subseteq EntryIds \ ToSet(ids)
     /\ RunningId("task") \cap Tasks = {}
     /\ RunningId("signal") \cap ToSet(all) = {}

\* An entry goes from the queues to its handler, or is forgotten with all the
\* entries of its descriptor.  (A property of steps.)
NoneDropped ==
  \A e \in Entries \ Entries' :
    \/ running' # NoHandler /\ running'.kind \in {"fd", "expiry"} /\ running'.id = e.id
    \/ ProgramRuns /\ \A d \in Entries' : d.fd # e.fd

\* A handler of a signal waits until the signal is served.  (A property of
\* steps.)
SignalHandlersKept ==
  \A s \in Signals : handlers'[s] # handlers[s] =>
    \/ IsSuffix(handlers[s], handlers'[s])
    \/ handlers'[s] = <<>> /\ serving' = handlers[s]

Inside == pc # "outside"

\* Tasks get their turn whatever the descriptors do.
TasksAreRun ==
  \A t \in TaskIds :
    t \in Tasks ~> (~Inside \/ RunningId("task") = {t})

\* So do descriptors, whatever the others and the tasks do.
EventsAreServed ==
  \A i \in EntryIds, fd \in Fds :
    (\E e \in Entries : e.id = i /\ e.fd = fd)
      ~> (~Inside \/ fd \notin ready \/ i \notin IdsOf(Entries))

\* A signal for which there are handlers calls them.
SignalsAreServed ==
  \A s \in Signals, h \in HandlerIds :
    (s \in pending /\ h \in ToSet(handlers[s])) ~> (~Inside \/ RunningId("signal") = {h})

\* leave-asap
Leaves == break ~> ~Inside

=============================================================================
