------------------------------ MODULE Coroutines ------------------------------
(***************************************************************************)
(* The coroutines of Vicare (ikarus.coroutines.sls): the queue of escape   *)
(* functions, creating, yielding, suspending and resuming, the loops of    *)
(* finish-coroutines and of the syntax concurrently, and the monitor.      *)
(*                                                                         *)
(* An escape function is named by the coroutine that it reinstates.  The   *)
(* coroutines are cooperative: everything the current coroutine does up to *)
(* the point where it gives up control is one action.  What a coroutine    *)
(* does next is chosen freely, which stands for every program.  An error   *)
(* raised by the library ends the program: handlers are not modelled.      *)
(*                                                                         *)
(* EnqueuedFirst, ResumeStillSuspended, AwaitAllButOne and ReleaseToNobody,*)
(* which no action uses, are what a plausible bug would make of the        *)
(* definition that follows each.                                           *)
(***************************************************************************)
EXTENDS Integers, Sequences, FiniteSets, SequencesExt

CONSTANTS
  Coroutine, Main, \* the coroutines, and the one that is there at the start
  Maximum,         \* concurrent-coroutines-maximum of the monitor
  None

\* What the constants must satisfy.
Assumptions ==
  /\ Main \in Coroutine /\ None \notin Coroutine
  /\ Maximum \in Nat \ {0}

VARIABLES
  current,   \* the coroutine that runs
  status,    \* unborn, reserved by concurrently, started, finished
  mode,      \* where a started coroutine is: body, finish or concurrently
  queue,     \* COROUTINE-CONTINUATIONS-QUEUE
  suspended, \* the coroutines whose state has a reinstate-procedure
  todo,      \* the thunks that concurrently has still to start
  unfinished,\* the counter of concurrently
  owner,     \* the coroutine whose concurrently started this one
  counter,   \* concurrent-coroutines-counter
  pending,   \* pending-continuations
  inside,    \* the coroutines in the body-thunk of do-monitor
  raised     \* an error ended the program

groupVars == <<todo, unfinished, owner>>
semVars   == <<counter, pending, inside>>
vars == <<current, status, mode, queue, suspended, groupVars, semVars, raised>>

TypeOK ==
  /\ current \in Coroutine
  /\ status \in [Coroutine -> {"unborn", "reserved", "started", "finished"}]
  /\ mode \in [Coroutine -> {"body", "finish", "concurrently"}]
  /\ queue \in Seq(Coroutine)
  /\ suspended \subseteq Coroutine
  /\ todo \in [Coroutine -> SUBSET Coroutine]
  /\ unfinished \in [Coroutine -> Nat]
  /\ owner \in [Coroutine -> Coroutine \cup {None}]
  /\ counter \in Int
  /\ pending \in Seq(Coroutine)
  /\ inside \subseteq Coroutine
  /\ raised \in BOOLEAN

Init ==
  /\ current = Main
  /\ status = [c \in Coroutine |-> IF c = Main THEN "started" ELSE "unborn"]
  /\ mode = [c \in Coroutine |-> "body"]
  /\ queue = <<>>
  /\ suspended = {}
  /\ todo = [c \in Coroutine |-> {}]
  /\ unfinished = [c \in Coroutine |-> 0]
  /\ owner = [c \in Coroutine |-> None]
  /\ counter = 0
  /\ pending = <<>>
  /\ inside = {}
  /\ raised = FALSE

-----------------------------------------------------------------------------
(* The queue.                                                              *)

EnqueuedFirst(q, c) == <<c>> \o q

Enqueued(q, c) == Append(q, c)

\* ((dequeue!)) : jump to the first coroutine of q; with none left the
\* error "no more coroutines" is raised.
JumpToNext(q) ==
  IF q = <<>> THEN /\ raised' = TRUE
                   /\ UNCHANGED <<current, queue>>
              ELSE /\ current' = Head(q)
                   /\ queue' = Tail(q)
                   /\ UNCHANGED raised

\* %enqueue-coroutine: enter d, leaving the current coroutine in the queue.
EnterFrom(c, d) ==
  /\ queue' = Enqueued(queue, c)
  /\ current' = d
  /\ UNCHANGED raised

Running(c, m) == current = c /\ mode[c] = m /\ ~ raised

-----------------------------------------------------------------------------
(* Basic operations.                                                       *)

coroutine(c, d) ==
  /\ Running(c, "body")
  /\ status[d] = "unborn"
  /\ status' = [status EXCEPT ![d] = "started"]
  /\ EnterFrom(c, d)
  /\ UNCHANGED <<mode, suspended, groupVars, semVars>>

\* The thunk of a coroutine returns.
Return(c) ==
  /\ Running(c, "body")
  /\ c # Main /\ c \notin inside
  /\ status' = [status EXCEPT ![c] = "finished"]
  /\ unfinished' = IF owner[c] = None THEN unfinished
                   ELSE [unfinished EXCEPT ![owner[c]] = @ - 1]
  /\ JumpToNext(queue)
  /\ UNCHANGED <<mode, suspended, todo, owner, semVars>>

yield(c) ==
  /\ Running(c, "body")
  /\ JumpToNext(Enqueued(queue, c))
  /\ UNCHANGED <<status, mode, suspended, groupVars, semVars>>

\* The loop of finish-coroutines; exit is the value of the thunk exit-loop?,
\* false when the procedure is called without one.
finish_coroutines(c, exit) ==
  /\ Running(c, "body") \/ Running(c, "finish")
  /\ IF queue = <<>> \/ exit
     THEN /\ mode' = [mode EXCEPT ![c] = "body"]
          /\ UNCHANGED <<current, queue, raised>>
     ELSE /\ mode' = [mode EXCEPT ![c] = "finish"]
          /\ JumpToNext(Enqueued(queue, c))
  /\ UNCHANGED <<status, suspended, groupVars, semVars>>

-----------------------------------------------------------------------------
(* Suspending and resuming.                                                *)

\* The main coroutine has no state: suspend-coroutine fails in it, and in a
\* coroutine that is already suspended.
suspend_coroutine(c) ==
  /\ Running(c, "body")
  /\ IF c = Main \/ c \in suspended
     THEN /\ raised' = TRUE
          /\ UNCHANGED <<current, queue, suspended>>
     ELSE /\ suspended' = suspended \cup {c}
          /\ JumpToNext(queue)
  /\ UNCHANGED <<status, mode, groupVars, semVars>>

ResumeStillSuspended(c, d) ==
  /\ Running(c, "body")
  /\ d # Main /\ status[d] \in {"started", "finished"}
  /\ IF d \in suspended
     THEN EnterFrom(c, d)
     ELSE raised' = TRUE /\ UNCHANGED <<current, queue>>
  /\ UNCHANGED <<status, mode, suspended, groupVars, semVars>>

\* The unique identifier of d is known to the program once d exists.
resume_coroutine(c, d) ==
  /\ Running(c, "body")
  /\ d # Main /\ status[d] \in {"started", "finished"}
  /\ IF d \in suspended
     THEN /\ suspended' = suspended \ {d}
          /\ EnterFrom(c, d)
     ELSE /\ raised' = TRUE
          /\ UNCHANGED <<current, queue, suspended>>
  /\ UNCHANGED <<status, mode, groupVars, semVars>>

-----------------------------------------------------------------------------
(* The syntax concurrently: start each thunk in a coroutine of its own,    *)
(* then loop until the counter of the thunks that have not returned is 0.  *)

concurrently(c, thunks) ==
  /\ Running(c, "body")
  /\ thunks # {} /\ \A d \in thunks : status[d] = "unborn"
  /\ status' = [d \in Coroutine |-> IF d \in thunks THEN "reserved" ELSE status[d]]
  /\ mode' = [mode EXCEPT ![c] = "concurrently"]
  /\ todo' = [todo EXCEPT ![c] = thunks]
  /\ owner' = [d \in Coroutine |-> IF d \in thunks THEN c ELSE owner[d]]
  /\ unfinished' = [unfinished EXCEPT ![c] = 0]
  /\ UNCHANGED <<current, queue, suspended, semVars, raised>>

StartThunk(c, d) ==
  /\ Running(c, "concurrently")
  /\ d \in todo[c]
  /\ todo' = [todo EXCEPT ![c] = @ \ {d}]
  /\ unfinished' = [unfinished EXCEPT ![c] = @ + 1]
  /\ status' = [status EXCEPT ![d] = "started"]
  /\ EnterFrom(c, d)
  /\ UNCHANGED <<mode, suspended, owner, semVars>>

AwaitAllButOne(c) ==
  /\ Running(c, "concurrently")
  /\ todo[c] = {}
  /\ IF queue = <<>> \/ unfinished[c] <= 1
     THEN /\ mode' = [mode EXCEPT ![c] = "body"]
          /\ owner' = [d \in Coroutine |-> IF owner[d] = c THEN None ELSE owner[d]]
          /\ unfinished' = [unfinished EXCEPT ![c] = 0]
          /\ UNCHANGED <<current, queue, raised>>
     ELSE /\ JumpToNext(Enqueued(queue, c))
          /\ UNCHANGED <<mode, owner, unfinished>>
  /\ UNCHANGED <<status, suspended, todo, semVars>>

\* Nothing reads the counter once concurrently has returned.
AwaitThunks(c) ==
  /\ Running(c, "concurrently")
  /\ todo[c] = {}
  /\ IF queue = <<>> \/ unfinished[c] = 0
     THEN /\ mode' = [mode EXCEPT ![c] = "body"]
          /\ owner' = [d \in Coroutine |-> IF owner[d] = c THEN None ELSE owner[d]]
          /\ unfinished' = [unfinished EXCEPT ![c] = 0]
          /\ UNCHANGED <<current, queue, raised>>
     ELSE /\ JumpToNext(Enqueued(queue, c))
          /\ UNCHANGED <<mode, owner, unfinished>>
  /\ UNCHANGED <<status, suspended, todo, semVars>>

-----------------------------------------------------------------------------
(* The monitor.  The body-thunk does not enter the same monitor again.     *)

sem_acquire(c) ==
  /\ Running(c, "body")
  /\ c \notin inside
  /\ IF counter < Maximum
     THEN /\ counter' = counter + 1
          /\ inside' = inside \cup {c}
          /\ UNCHANGED <<current, queue, pending, raised>>
     ELSE /\ pending' = Enqueued(pending, c)
          /\ JumpToNext(queue)
          /\ UNCHANGED <<counter, inside>>
  /\ UNCHANGED <<status, mode, suspended, groupVars>>

ReleaseToNobody(c) ==
  /\ Running(c, "body")
  /\ c \in inside
  /\ counter' = counter - 1
  /\ inside' = inside \ {c}
  /\ UNCHANGED <<current, status, mode, queue, suspended, groupVars, pending, raised>>

\* A pending continuation is reinstated in a new coroutine, and goes on with
\* its body-thunk.
sem_release(c) ==
  /\ Running(c, "body")
  /\ c \in inside
  /\ counter' = counter - 1
  /\ IF pending = <<>>
     THEN /\ inside' = inside \ {c}
          /\ UNCHANGED <<current, queue, pending, raised>>
     ELSE /\ pending' = Tail(pending)
          /\ inside' = (inside \ {c}) \cup {Head(pending)}
          /\ EnterFrom(c, Head(pending))
  /\ UNCHANGED <<status, mode, suspended, groupVars>>

-----------------------------------------------------------------------------

Step(c) ==
  \/ \E d \in Coroutine : coroutine(c, d)
  \/ Return(c)
  \/ yield(c)
  \/ \E exit \in BOOLEAN : finish_coroutines(c, exit)
  \/ suspend_coroutine(c)
  \/ \E d \in Coroutine : resume_coroutine(c, d)
  \/ \E thunks \in SUBSET Coroutine : concurrently(c, thunks)
  \/ \E d \in Coroutine : StartThunk(c, d)
  \/ AwaitThunks(c)
  \/ sem_acquire(c)
  \/ sem_release(c)

Next == \E c \in Coroutine : Step(c)

Spec == Init /\ [][Next]_vars

-----------------------------------------------------------------------------
(* Properties.                                                             *)

Count(q, c) == Cardinality({i \in DOMAIN q : q[i] = c})

Waits(c) == Count(queue, c) + Count(pending, c) + (IF c \in suspended THEN 1 ELSE 0)

\* While no error is raised, the continuation of every started coroutine is
\* in one place and one only: it runs, or it waits once in the queue, in the
\* monitor or in its state.  None is lost and none can be reinstated twice.
OneContinuation ==
  ~ raised =>
    \A c \in Coroutine :
      Waits(c) = IF status[c] = "started" /\ c # current THEN 1 ELSE 0

\* A coroutine waits at the monitor only while as many coroutines as the
\* maximum are inside: no permit is lost, whatever the order of releases.
WaitsOnlyWhenFull == pending # <<>> => Cardinality(inside) >= Maximum

\* When concurrently returns, the thunks that are not finished cannot run:
\* each is suspended or waits at the monitor.
LeavesOnlyBlocked ==
  [][\A c \in Coroutine :
       mode[c] = "concurrently" /\ mode'[c] = "body" =>
         \A d \in Coroutine : owner[d] = c /\ status[d] # "finished" =>
           d \in suspended \/ d \in ToSet(pending)]_vars

\* If the program goes on giving up control, every coroutine in the queue
\* gets it: the queue is served in order, so yielding starves nobody.
QueueIsServed ==
  []<><<current' # current>>_vars =>
    \A c \in Coroutine : c \in ToSet(queue) ~> (current = c \/ raised)

\* "Allow only a maximum number of coroutines to concurrently enter the
\* evaluation of thunk" (the documentation of the syntax monitor).
MonitorMaximum == Cardinality(inside) <= Maximum

\* "Return unspecified values when all the coroutines are finished" (the
\* documentation of the syntax concurrently).
ConcurrentlyFinishes ==
  [][\A c \in Coroutine :
       mode[c] = "concurrently" /\ mode'[c] = "body" =>
         \A d \in Coroutine : owner[d] = c => status[d] = "finished"]_vars

-----------------------------------------------------------------------------
(* Why OneContinuation, WaitsOnlyWhenFull and LeavesOnlyBlocked hold.      *)

Distinct(q) == \A i, j \in DOMAIN q : q[i] = q[j] => i = j

InQueue(x)   == x \in ToSet(queue)
InPending(x) == x \in ToSet(pending)

\* Each started coroutine but the current one waits in one place, once.
Placed ==
  /\ Distinct(queue) /\ Distinct(pending)
  /\ status[current] = "started"
  /\ \A x \in Coroutine :
       /\ InQueue(x) \/ InPending(x) \/ x \in suspended
            <=> status[x] = "started" /\ x # current
       /\ ~(InQueue(x) /\ InPending(x))
       /\ ~(InQueue(x) /\ x \in suspended)
       /\ ~(InPending(x) /\ x \in suspended)

PlacedInv == ~ raised => Placed

\* The thunks of a call to concurrently that have been started and have not
\* returned: its counter counts them, and those still to start are reserved.
Children(c) == {d \in Coroutine : owner[d] = c /\ status[d] = "started"}

GroupInv ==
  \A c \in Coroutine :
    /\ IsFiniteSet(Children(c)) /\ unfinished[c] = Cardinality(Children(c))
    /\ \A d \in todo[c] : status[d] = "reserved" /\ owner[d] = c
    /\ \A d \in Coroutine : owner[d] = c =>
         /\ d # c /\ mode[c] = "concurrently" /\ status[d] # "unborn"
         /\ status[d] = "reserved" => d \in todo[c]

\* The counter of the monitor never exceeds the coroutines inside.
MonitorInv ==
  /\ IsFiniteSet(inside) /\ counter <= Cardinality(inside)
  /\ \A x \in inside : ~ InPending(x)
  /\ WaitsOnlyWhenFull

\* The inductive invariant behind the three: nothing is in two places, the
\* counters count, and no permit is lost.
IInv == TypeOK /\ PlacedInv /\ GroupInv /\ MonitorInv

=============================================================================
