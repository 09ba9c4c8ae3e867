------------------------------ MODULE Channels ------------------------------
(***************************************************************************)
(* An input/output channel of (vicare net channels): messages are received *)
(* in portions until one ends in a terminator, and sent in portions that   *)
(* are flushed at the end, within a maximum size and until an expiration   *)
(* time.  A unit is an octet of a binary channel or a character of a       *)
(* textual one; both are written alike.                                    *)
(*                                                                         *)
(* The peer sends messages that end in a terminator and hold no other, in  *)
(* pieces of any length.  A patient peer sends one when the last one was   *)
(* received.  The input port answers with what is there, or waits for the  *)
(* whole portion if it is blocking (see BinaryPorts).                      *)
(*                                                                         *)
(* No action uses FirstOnly, SizeKept, BufferKept, AllThere, OfPortion,    *)
(* NotFlushed: each is what a plausible bug would make of the definition   *)
(* that follows it.                                                        *)
(***************************************************************************)
EXTENDS SequencesExt, Naturals

CONSTANTS
  Terminators,  \* of messages
  Messages,     \* what the peer may send
  Portions,     \* what the program may send
  MaxSize,      \* maximum-message-size
  PortionSize,  \* maximum-message-portion-size
  MaxMessages,  \* bounds the messages of a behaviour, each way
  Blocking,     \* the ports block
  Patient

VARIABLES
  action, terminated, size, buffer,  \* BUFFER holds the portions, last first
  time,         \* the expiration time is "far", "running" or "over"
  full,         \* inside recv-full-message
  reply,        \* of the last call
  outPort,      \* what the output port holds
  \* The peer:
  coming,       \* the rest of the message that it is sending
  inbox, closed,
  outbox,       \* what it was sent
  \* History:
  asked,        \* the messages of the peer so far
  taken,        \* the messages received whole
  cut,          \* a message was abandoned after a part of it had been read
  accepted,     \* the units put since send-begin!
  sends

channel == <<action, terminated, size, buffer, time>>
peer == <<coming, inbox, closed, asked>>
output == <<outPort, outbox, accepted, sends>>
channelVars == <<channel, full, reply, peer, taken, cut, output>>

Answer(kind, value) == reply' = [kind |-> kind, value |-> value]

Received == FlattenSeq(Reverse(buffer))

ChannelInit ==
  /\ action = "none" /\ terminated = FALSE /\ size = 0 /\ buffer = <<>> /\ time = "far"
  /\ full = FALSE /\ reply = [kind |-> "none", value |-> <<>>]
  /\ coming = <<>> /\ inbox = <<>> /\ closed = FALSE /\ asked = <<>>
  /\ taken = 0 /\ cut = FALSE
  /\ outPort = <<>> /\ outbox = <<>> /\ accepted = <<>> /\ sends = 0

-----------------------------------------------------------------------------
(* Terminators.                                                            *)

\* %compare-bytevector-tails: the index in A of the last unit compared, counted
\* from 1, or 0 when they differ.
CompareTails(a, i, b, j) ==
  LET n == IF i < j THEN i ELSE j
  IN IF \A k \in 0 .. n - 1 : a[i - k] = b[j - k] THEN i - n + 1 ELSE 0

FirstOnly(portions, terminator) ==
  /\ portions # <<>>
  /\ CompareTails(terminator, Len(terminator), portions[1], Len(portions[1])) = 1

\* %terminated-octets-stream?, over the portions from the last one back.
TerminatedStream(portions, terminator) ==
  LET at[k \in 0 .. Len(portions)] ==  \* the index reached after K portions, or -1
        IF k = 0 THEN Len(terminator)
        ELSE LET i == at[k - 1] IN
             IF i <= 0 THEN i
             ELSE LET last == CompareTails(terminator, i, portions[k], Len(portions[k]))
                  IN IF last = 0 THEN -1 ELSE last - 1
  IN at[Len(portions)] = 0

ReceivedTerminator(portions) == \E t \in Terminators : TerminatedStream(portions, t)

-----------------------------------------------------------------------------
(* Receiving.                                                              *)

RecvBegin ==
  /\ action = "none" /\ action' = "recv"
  /\ Answer("none", <<>>)
  /\ UNCHANGED <<terminated, size, buffer, time, full, peer, taken, cut, output>>

SizeKept == size

\* What the size of a message that ended or was aborted becomes.
SizeReset == 0

BufferKept == buffer

\* What the buffer becomes.
BufferReset == <<>>

RecvReset ==
  /\ action' = "none" /\ buffer' = BufferReset /\ size' = SizeReset
  /\ terminated' = FALSE /\ time' = "far"

RecvAbort ==
  /\ action = "recv" /\ ~full
  /\ RecvReset /\ Answer("none", <<>>)
  /\ cut' = (cut \/ buffer # <<>>)
  /\ UNCHANGED <<full, peer, taken, output>>

\* recv-end!
RecvEnd ==
  /\ action = "recv" /\ ~full /\ terminated
  /\ RecvReset /\ Answer("message", Received)
  /\ taken' = taken + 1
  /\ UNCHANGED <<full, peer, cut, output>>

\* recv-full-message
RecvFull ==
  /\ action = "none" /\ ~full /\ action' = "recv" /\ full' = TRUE
  /\ Answer("none", <<>>)
  /\ UNCHANGED <<terminated, size, buffer, time, peer, taken, cut, output>>

AllThere(n) == n = Len(inbox)

\* What get-bytevector-n answers with.
MayRead(n) ==
  n = (IF Len(inbox) < PortionSize THEN Len(inbox) ELSE PortionSize)

\* recv-message-portion! in recv-full-message goes on unless it ends.
Continues(kind) == full /\ kind \in {"false", "would-block"}

Ends(kind) ==
  /\ full' = FALSE
  /\ IF full /\ kind = "eof"
       THEN RecvReset /\ cut' = (cut \/ buffer # <<>>)
       ELSE UNCHANGED <<channel, cut>>
  /\ Answer(kind, <<>>)
  /\ UNCHANGED taken

OfPortion(n) == n

Incremented(n) == size + n

SizeExceeded(units) == units > MaxSize

\* A portion has been read; it is pushed before it is checked.
Push(n) ==
  LET pushed == <<SubSeq(inbox, 1, n)>> \o buffer IN
  /\ inbox' = SubSeq(inbox, n + 1, Len(inbox))
  /\ \E late \in {time} \cup (IF time = "running" THEN {"over"} ELSE {}) :
       LET done == ReceivedTerminator(pushed)
           kind == CASE SizeExceeded(Incremented(n)) -> "too-long"
                     [] late = "over" -> "timeout"
                     [] done -> "true"
                     [] OTHER -> "false"
       IN IF full /\ kind = "true"
            THEN /\ RecvReset /\ full' = FALSE
                 /\ Answer("message", FlattenSeq(Reverse(pushed)))
                 /\ taken' = taken + 1 /\ UNCHANGED cut
            ELSE /\ buffer' = pushed /\ size' = Incremented(n) /\ time' = late
                 /\ terminated' = (kind = "true")
                 /\ full' = Continues(kind)
                 /\ Answer(kind, <<>>)
                 /\ UNCHANGED <<action, taken, cut>>
  /\ UNCHANGED <<coming, closed, asked>>

\* recv-message-portion!
RecvPortion ==
  /\ action = "recv"
  /\ IF terminated THEN Ends("true") /\ UNCHANGED peer
     ELSE IF time = "over" THEN Ends("timeout") /\ UNCHANGED peer
     ELSE \/ /\ inbox # <<>> /\ (Blocking => closed \/ Len(inbox) >= PortionSize)
             /\ \E n \in 1 .. Len(inbox) : MayRead(n) /\ Push(n)
          \/ /\ inbox = <<>> /\ closed
             /\ Ends("eof") /\ UNCHANGED peer
          \/ /\ inbox = <<>> /\ ~closed /\ ~Blocking /\ ~full
             /\ Ends("would-block") /\ UNCHANGED peer
  /\ UNCHANGED output

-----------------------------------------------------------------------------
(* Sending.                                                                *)

SendBegin ==
  /\ action = "none" /\ action' = "send" /\ sends < MaxMessages
  /\ Answer("none", <<>>)
  /\ sends' = sends + 1 /\ accepted' = <<>>
  /\ UNCHANGED <<terminated, size, buffer, time, full, peer, taken, cut, outPort, outbox>>

\* put-bytevector of UNITS: F units of what the port then holds were flushed on
\* the way, for want of room in its buffer, and none of the rest.
Put(units, f) ==
  LET held == outPort \o units
  IN /\ f = 0 \/ f >= Len(outPort)
     /\ outbox' = outbox \o SubSeq(held, 1, f)
     /\ outPort' = SubSeq(held, f + 1, Len(held))
     /\ accepted' = accepted \o units

\* The size is incremented before it is checked (and no more, which is a bound,
\* when it is above the maximum).  A flush for want of room may raise EAGAIN: the
\* port then has a part of the portion.
SendPortion(p) ==
  /\ action = "send" /\ size <= MaxSize
  /\ size' = Incremented(Len(p))
  /\ IF time = "over" THEN Answer("timeout", <<>>) /\ UNCHANGED <<outPort, outbox, accepted>>
     ELSE IF SizeExceeded(size')
       THEN Answer("too-long", <<>>) /\ UNCHANGED <<outPort, outbox, accepted>>
     ELSE \/ \E f \in 0 .. Len(outPort) + Len(p) : Put(p, f) /\ Answer("none", <<>>)
          \/ /\ ~Blocking
             /\ \E n \in 0 .. Len(p) : \E f \in 0 .. Len(outPort) + n :
                  Put(SubSeq(p, 1, n), f) /\ Answer("again", <<>>)
  /\ UNCHANGED <<action, terminated, buffer, time, full, peer, taken, cut, sends>>

NotFlushed == outPort

Unflushed == <<>>

\* flush-output-port, all or nothing: see BinaryPorts.
FlushPort ==
  /\ outPort' = Unflushed
  /\ outbox' = outbox \o SubSeq(outPort, 1, Len(outPort) - Len(Unflushed))

\* It raises EAGAIN.
FlushRaises ==
  /\ ~Blocking /\ outPort # <<>>
  /\ Answer("again", <<>>) /\ UNCHANGED <<outPort, outbox>>

\* send-flush
Flush ==
  /\ action = "send" /\ outPort # <<>> /\ time # "over"
  /\ (FlushPort /\ Answer("none", <<>>)) \/ FlushRaises
  /\ UNCHANGED <<channel, full, peer, taken, cut, accepted, sends>>

SendReset ==
  /\ action' = "none" /\ size' = SizeReset
  /\ terminated' = FALSE /\ time' = "far" /\ UNCHANGED buffer

\* send-end!; when the flush raises an exception the channel goes on sending.
SendEnd ==
  /\ action = "send"
  /\ \/ FlushPort /\ SendReset /\ Answer("sent", <<size>>)
     \/ FlushRaises /\ UNCHANGED channel
  /\ UNCHANGED <<full, peer, taken, cut, accepted, sends>>

SendAbort ==
  /\ action = "send"
  /\ SendReset /\ Answer("none", <<>>)
  /\ UNCHANGED <<full, peer, taken, cut, output>>

-----------------------------------------------------------------------------
(* The program sets the expiration time, time passes, the peer sends.      *)

SetExpirationTime ==
  /\ ~full /\ time' = "running"
  /\ UNCHANGED <<action, terminated, size, buffer, full, reply, peer, taken, cut, output>>

TimePasses ==
  /\ time = "running" /\ time' = "over"
  /\ UNCHANGED <<action, terminated, size, buffer, full, reply, peer, taken, cut, output>>

PeerSends(m) ==
  /\ coming = <<>> /\ ~closed /\ Len(asked) < MaxMessages
  /\ Patient => Len(asked) = taken
  /\ coming' = m /\ asked' = Append(asked, m)
  /\ UNCHANGED <<channel, full, reply, inbox, closed, taken, cut, output>>

Arrives(n) ==
  /\ inbox' = inbox \o SubSeq(coming, 1, n) /\ coming' = SubSeq(coming, n + 1, Len(coming))
  /\ UNCHANGED <<channel, full, reply, closed, asked, taken, cut, output>>

PeerCloses ==
  /\ coming = <<>> /\ ~closed /\ closed' = TRUE
  /\ Patient => Len(asked) = taken
  /\ UNCHANGED <<channel, full, reply, coming, inbox, asked, taken, cut, output>>

SentArrives == \E n \in 1 .. Len(coming) : Arrives(n)

PeerActs == (\E m \in Messages : PeerSends(m)) \/ PeerCloses

ChannelNext ==
  \/ RecvBegin \/ RecvAbort \/ RecvEnd \/ RecvFull \/ RecvPortion
  \/ SendBegin \/ Flush \/ SendEnd \/ SendAbort
  \/ \E p \in Portions : SendPortion(p)
  \/ SetExpirationTime \/ TimePasses
  \/ \E m \in Messages : PeerSends(m)
  \/ SentArrives
  \/ PeerCloses

ChannelSpec == ChannelInit /\ [][ChannelNext]_channelVars

\* A full message is waited for, and the peer sends or closes.
FairChannelSpec ==
  /\ ChannelSpec
  /\ WF_channelVars(full /\ RecvPortion)
  /\ WF_channelVars(SentArrives)
  /\ WF_channelVars(PeerActs)

-----------------------------------------------------------------------------
(* Properties.                                                             *)

\* What a portion or a message is made of.
Units == UNION {ToSet(m) : m \in Messages \cup Portions}

TypeOK ==
  /\ action \in {"none", "send", "recv"} /\ terminated \in BOOLEAN
  /\ size \in Nat /\ time \in {"far", "running", "over"}
  /\ \A p \in ToSet(buffer) : p # <<>> /\ p \in Seq(Units) /\ Len(p) <= PortionSize
  /\ full => action = "recv"

EndsInTerminator(units) == \E t \in Terminators : IsSuffix(t, units)

\* "Return true if a configured message terminator is read from the input
\* port", in however many portions it was read, and only then.
Recognises ==
  action = "recv" /\ reply.kind \in {"true", "false"} =>
    ((reply.kind = "true") = EndsInTerminator(Received))

\* The size that is checked and returned is that of the portions.
SizeOfPortions == action = "recv" => size = Len(Received)

\* "The channel itself is reset to inactive": nothing of a message that ended
\* or was aborted is left for the next one, in either direction.
StartsAfresh == action = "none" => size = 0 /\ buffer = <<>> /\ ~terminated

\* A message is received as the peer sent it.
MessageWhole ==
  reply.kind = "message" /\ ~cut => reply.value = asked[taken]

\* "Finish sending a message by flushing the connect port": everything that was
\* accepted is with the peer.
WholeSent ==
  reply.kind = "sent" => outPort = <<>> /\ IsSuffix(accepted, outbox)

\* recv-full-message: "Receive a full message." (Not after a part of one was
\* thrown away: a patient peer then waits for its answer for ever.)
FullMessageReturns == (full /\ ~cut) ~> ~full

=============================================================================
