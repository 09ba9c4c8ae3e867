------------------------------ MODULE MCLiveness ------------------------------
(***************************************************************************)
(* What must happen, checked by TLC on small instances of the modules that *)
(* state fairness.  A behaviour is one of one of them: PART says which,    *)
(* and the variables of the others never change: they are 0, or what the   *)
(* predicates of the properties need.  Fairness is that of the modules:    *)
(* a weak fairness condition here is, in each part, one of that module.    *)
(***************************************************************************)
EXTENDS Integers, Sequences

CONSTANTS
  Immediate, BWP, Null, \* of Collector
  Main, Nobody,         \* of Coroutines
  NoHandler             \* of EventLoop

VARIABLES
  part,
  segment_vector, dirty_vector, mem, forward, roots, phase, collect_gen,
  dirty_words, root_words, new_words,
  current, status, where, queue, suspended, todo, unfinished, owner,
  counter, waiting, inside, raised,
  nursery, hot_size, allocation_pointer, allocation_redline, forbidden,
  collect_key, unseen, hooks, overflow, request,
  mode, file, fpos, buf, index, pos, dir, open, call, flushing, offset,
  reply, codec, source, eol, rest, ended, text, port, device, put, asked,
  failed,
  break, handlers, count, revHead, tail, tasksRevHead, tasksTail, pc,
  delivered, serving, running, left, pending, ready, expired,
  action, terminated, size, buffer, time, full, answer, outPort, coming,
  inbox, closed, outbox, sent, taken, cut, accepted, sends

collectorVars == <<segment_vector, dirty_vector, mem, forward, roots, phase,
                   collect_gen, dirty_words, root_words, new_words>>
coroutineVars == <<current, status, where, queue, suspended, todo,
                   unfinished, owner, counter, waiting, inside, raised>>
nurseryVars == <<nursery, hot_size, allocation_pointer, allocation_redline,
                 forbidden, hooks, collect_key, unseen, overflow, request>>
portVars == <<mode, file, fpos, buf, index, pos, dir, open, call, flushing,
              offset, reply, codec, source, eol, rest, ended, text, port,
              device, put, asked, failed>>
loopVars == <<break, handlers, count, revHead, tail, tasksRevHead,
              tasksTail, pc, delivered, serving, running, left, pending,
              ready, expired>>
channelVars == <<action, terminated, size, buffer, time, full, answer,
                 outPort, coming, inbox, closed, outbox, sent, taken, cut,
                 accepted, sends>>
vars == <<part, collectorVars, coroutineVars, nurseryVars, portVars,
          loopVars, channelVars>>

-----------------------------------------------------------------------------
(* The instances.                                                          *)

\* Two big objects, which are copied and later retagged, with two pages each:
\* see MCCollector.
TwinPages(X, S) ==
  IF X = Null
  THEN LET free == {p \in S : p <= 2 /\ p + 2 \in S}
       IN  {p \in free : \A q \in free : p <= q}
  ELSE S \cap {X - 2, X + 2}

Collector == INSTANCE Collector WITH
  Page <- 1 .. 4, Root <- {"r1", "r2"}, Slot <- {"car"}, Kind <- {"big"},
  LastGen <- 1, Placement <- TwinPages
\* The counter of the monitor is cut as in MCControl.
Coroutines == INSTANCE Coroutines WITH
  Coroutine <- {Main, "c1", "c2"}, None <- Nobody, Maximum <- 1,
  mode <- where, pending <- waiting
Nursery == INSTANCE Nursery WITH
  NurserySizes <- {8, 12}, Requests <- {1, 2, 3, 13, 15}, CollectRequest <- 2,
  HookAllocations <- 1,
  mode <- overflow, pending <- request, size <- hot_size
File == INSTANCE BinaryPorts WITH
  Octet <- {1}, Gap <- 0, Size <- 3, MaxLen <- 3, Data <- {<<1>>, <<1, 1>>},
  Counts <- {2}, Targets <- {1}, Outcomes <- {"all", "none", "short", "again"}, Seekable <- TRUE,
  Strict <- TRUE, Rewinds <- FALSE, FlushesInput <- FALSE, Resets <- TRUE
\* Octets of UTF-8, some of them bad.  A device that may say EAGAIN, and one
\* that does not.
Octets == [enc \in {"utf-8"} |->
  {<<65, 255, 195, 169>>, <<224, 128, 128, 65>>, <<65, 226, 130>>,
   <<226, 130, 172, 65, 66, 67, 195, 169, 68>>, <<65, 13, 10, 66>>, <<194, 133, 13>>}]
Getters == {"get-char", "lookahead-char", "get-string-n", "get-string-all", "get-line"}
TextAgain == INSTANCE TextPorts WITH
  Size <- 8, Sources <- Octets, EolStyles <- {FALSE}, Modes <- {"replace"},
  Operations <- Getters, Count <- 2, Again <- TRUE
Text == INSTANCE TextPorts WITH
  Size <- 8, Sources <- Octets, EolStyles <- {TRUE, FALSE}, Modes <- {"ignore"},
  Operations <- Getters, Count <- 2, Again <- FALSE
Written == INSTANCE TextOutput WITH
  Size <- 8, Strings <- {<<10>>, <<128169, 233, 10, 66>>},
  Ports <- [codec : {"utf-8"}, style : {"lf", "crnel"}, modes : {{}, {"none"}, {"line"}},
            errors : {"replace"}],
  MaxChars <- 5, SwitchTo <- {}, Again <- TRUE
\* Two entries of one descriptor, which nothing interrupts; one, and signals.
Loop == INSTANCE EventLoop WITH
  Fds <- {1}, Signals <- {}, Watermark <- 1, EntryIds <- {1, 2}, TaskIds <- {1},
  HandlerIds <- {}, Raises <- {"fd"}
Interrupted == INSTANCE EventLoop WITH
  Fds <- {1}, Signals <- {1}, Watermark <- 1, EntryIds <- {1}, TaskIds <- {1},
  HandlerIds <- {1}, Raises <- {"fd", "signal"}
Channel == INSTANCE Channels WITH
  Terminators <- {<<1, 2>>, <<3>>}, Messages <- {<<1, 1, 2>>, <<2, 3>>},
  Portions <- {<<1, 2>>}, MaxSize <- 3, PortionSize <- 2, MaxMessages <- 1,
  Blocking <- FALSE, Patient <- TRUE, reply <- answer, asked <- sent

ASSUME LivenessAssumption ==
  /\ Coroutines!Assumptions /\ Nursery!Assumptions /\ File!PortAssumptions
  /\ Text!Assumptions /\ Written!Assumptions /\ Loop!Assumptions /\ Interrupted!Assumptions

-----------------------------------------------------------------------------
NoCollector ==
  /\ segment_vector = 0 /\ dirty_vector = 0 /\ mem = 0 /\ forward = 0
  /\ roots = 0 /\ phase = "mutator" /\ collect_gen = 0 /\ dirty_words = 0
  /\ root_words = 0 /\ new_words = 0

NoCoroutines ==
  /\ current = Main /\ status = 0 /\ where = 0 /\ queue = <<>>
  /\ suspended = 0 /\ todo = 0 /\ unfinished = 0 /\ owner = 0 /\ counter = 0
  /\ waiting = 0 /\ inside = 0 /\ raised = FALSE

NoNursery ==
  /\ nursery = 0 /\ hot_size = 0 /\ allocation_pointer = 0
  /\ allocation_redline = 0 /\ forbidden = 0 /\ collect_key = 0 /\ unseen = 0
  /\ hooks = FALSE /\ overflow = "program" /\ request = 0

NoPort ==
  /\ mode = 0 /\ file = 0 /\ fpos = 0 /\ buf = 0 /\ index = 0 /\ pos = 0
  /\ dir = 0 /\ open = 0 /\ call = 0 /\ flushing = 0 /\ offset = 0
  /\ reply = 0 /\ codec = 0 /\ source = 0 /\ eol = 0 /\ rest = 0
  /\ ended = 0 /\ text = 0 /\ port = 0 /\ device = 0 /\ put = 0 /\ asked = 0
  /\ failed = 0

NoChannel ==
  /\ action = 0 /\ terminated = 0 /\ size = 0 /\ buffer = 0 /\ time = 0
  /\ full = FALSE /\ answer = 0 /\ outPort = 0 /\ coming = 0 /\ inbox = 0
  /\ closed = 0 /\ outbox = 0 /\ sent = 0 /\ taken = 0 /\ cut = FALSE
  /\ accepted = 0 /\ sends = 0

NoLoop == Loop!LoopInit

NotOfFiles ==
  /\ codec = 0 /\ source = 0 /\ eol = 0 /\ rest = 0 /\ ended = 0
  /\ text = 0 /\ port = 0 /\ device = 0 /\ put = 0 /\ asked = 0
  /\ failed = 0

NotOfTexts ==
  /\ file = 0 /\ fpos = 0 /\ index = 0 /\ pos = 0 /\ dir = 0 /\ open = 0
  /\ flushing = 0 /\ offset = 0 /\ port = 0 /\ device = 0 /\ put = 0
  /\ asked = 0 /\ failed = 0

NotOfOutput ==
  /\ mode = 0 /\ file = 0 /\ fpos = 0 /\ index = 0 /\ pos = 0 /\ dir = 0
  /\ open = 0 /\ flushing = 0 /\ offset = 0 /\ reply = 0 /\ codec = 0
  /\ source = 0 /\ eol = 0 /\ rest = 0 /\ ended = 0 /\ text = 0

Init ==
  /\ part \in {"collector", "coroutines", "nursery", "file", "text", "text again",
               "written", "loop", "interrupted", "channel"}
  /\ IF part = "collector" THEN Collector!Init ELSE NoCollector
  /\ IF part = "coroutines" THEN Coroutines!Init ELSE NoCoroutines
  /\ IF part = "nursery" THEN Nursery!Init ELSE NoNursery
  /\ CASE part = "file" -> File!PortInit /\ NotOfFiles
       [] part = "text" -> Text!TextInit /\ NotOfTexts
       [] part = "text again" -> TextAgain!TextInit /\ NotOfTexts
       [] part = "written" -> Written!OutInit /\ NotOfOutput
       [] OTHER -> NoPort
  /\ IF part = "interrupted" THEN Interrupted!LoopInit ELSE NoLoop
  /\ IF part = "channel" THEN Channel!ChannelInit ELSE NoChannel

-----------------------------------------------------------------------------

LoopParts == {"loop", "interrupted"}

OfCollector ==
  /\ part = "collector"
  /\ UNCHANGED <<part, coroutineVars, nurseryVars, portVars,
                 loopVars, channelVars>>

OfCoroutines ==
  /\ part = "coroutines"
  /\ UNCHANGED <<part, collectorVars, nurseryVars, portVars,
                 loopVars, channelVars>>

OfNursery ==
  /\ part = "nursery"
  /\ UNCHANGED <<part, collectorVars, coroutineVars, portVars,
                 loopVars, channelVars>>

OfPorts ==
  UNCHANGED <<part, collectorVars, coroutineVars, nurseryVars, loopVars,
              channelVars>>

OfFile ==
  /\ part = "file" /\ OfPorts
  /\ UNCHANGED <<codec, source, eol, rest, ended, text, port, device, put,
                 asked, failed>>

OfText ==
  /\ OfPorts
  /\ UNCHANGED <<file, fpos, index, pos, dir, open, flushing, offset, port,
                 device, put, asked, failed>>

OfOutput ==
  /\ part = "written" /\ OfPorts
  /\ UNCHANGED <<mode, file, fpos, index, pos, dir, open, flushing, offset,
                 reply, codec, source, eol, rest, ended, text>>

OfLoop ==
  /\ part \in LoopParts
  /\ UNCHANGED <<part, collectorVars, coroutineVars, nurseryVars,
                 portVars, channelVars>>

OfChannel ==
  /\ part = "channel"
  /\ UNCHANGED <<part, collectorVars, coroutineVars, nurseryVars,
                 portVars, loopVars>>

Next ==
  \/ OfCollector /\ Collector!Next
  \/ OfCoroutines /\ Coroutines!Next /\ counter' >= -1
  \/ OfNursery /\ Nursery!Next
  \/ OfFile /\ File!PortNext
  \/ OfText /\ part = "text" /\ Text!TextNext
  \/ OfText /\ part = "text again" /\ TextAgain!TextNext
  \/ OfOutput /\ Written!OutNext
  \/ OfLoop /\ part = "loop" /\ Loop!LoopNext
  \/ OfLoop /\ part = "interrupted" /\ Interrupted!LoopNext
  \/ OfChannel /\ Channel!ChannelNext

\* What is begun goes on: a collection, what do-overflow began, a call of a
\* port, the event loop, the wait for a full message.
GoesOn ==
  \/ OfCollector /\ Collector!CollectorStep
  \/ OfNursery /\ Nursery!Overflowing
  \/ OfFile /\ File!Works
  \/ OfText /\ part = "text" /\ Text!Works
  \/ OfText /\ part = "text again" /\ TextAgain!Works
  \/ OfOutput /\ Written!Step
  \/ OfLoop /\ part = "loop" /\ Loop!LoopStep
  \/ OfLoop /\ part = "interrupted" /\ Interrupted!LoopStep
  \/ OfChannel /\ full /\ Channel!RecvPortion

\* The handlers that the loop calls return or raise; what a peer has sent
\* arrives.
Outside ==
  \/ OfLoop /\ Loop!HandlerEnds
  \/ OfChannel /\ Channel!SentArrives

\* A peer sends or closes the connection.
PeerActs ==
  \/ OfChannel /\ Channel!PeerActs

Spec ==
  /\ Init /\ [][Next]_vars
  /\ WF_vars(GoesOn) /\ WF_vars(Outside) /\ WF_vars(PeerActs)

\* A call of a port is under way.
InCall ==
  CASE part = "file" -> File!InCall
    [] part = "text" -> Text!InCall
    [] part = "text again" -> TextAgain!InCall
    [] part = "written" -> Written!InCall
    [] OTHER -> FALSE

-----------------------------------------------------------------------------
(* Properties: see the comments in the modules.                            *)

\* A collection that has begun ends.
CollectionEnds == part = "collector" => Collector!CollectionEnds

\* If the program goes on giving up control, every coroutine in the queue
\* gets it.
QueueIsServed == part = "coroutines" => Coroutines!QueueIsServed

\* do-overflow returns: its hooks do not keep it collecting for ever.
OverflowReturns == part = "nursery" => Nursery!OverflowReturns

\* A call of a port returns, whatever part of the octets its device gives, once
\* the device does not refuse for ever.  Writes take all or nothing: after one that
\* took a part the flush does not end (FlushReturns of BinaryPorts).
CallReturns == InCall ~> ~InCall

\* Tasks get their turn whatever the descriptors do.
TasksAreRun == part \in LoopParts => Loop!TasksAreRun

\* So do descriptors, whatever the others and the tasks do.
EventsAreServed == part \in LoopParts => Loop!EventsAreServed

\* A signal for which there are handlers calls them.
SignalsAreServed == part = "interrupted" => Interrupted!SignalsAreServed

\* The loop that is told to leave leaves.
Leaves == part \in LoopParts => Loop!Leaves

\* The wait for a full message ends: with the message, or because the peer
\* closed, the message is too long or the time is over.
FullMessageReturns == part = "channel" => Channel!FullMessageReturns

-----------------------------------------------------------------------------
(* What TLC checks of the event loop.                                      *)

\* No descriptor, signal or task starves another, and leave-asap leaves.
NoSourceStarves == TasksAreRun /\ EventsAreServed /\ SignalsAreServed /\ Leaves

=============================================================================
