----------------------------- MODULE BinaryPorts -----------------------------
(***************************************************************************)
(* A binary input/output port on a file descriptor: one buffer, used for   *)
(* output or for input, whose used part is BUF and whose index is INDEX,   *)
(* and the device position POS of the port's cookie beside the offset FPOS *)
(* that the kernel keeps.  A call is made of steps, one for every call of  *)
(* write!, read! and set-position! and for every turn of its loop; an      *)
(* exception of write! ends the call and leaves the buffer as it is.       *)
(*                                                                         *)
(*   ikarus.io.writing.scm          put-u8, put-bytevector, the flush      *)
(*   ikarus.io.reading.scm          get-u8 ... get-bytevector-all, refill  *)
(*   ikarus.io.port-procedures.scm  positions, the switch between input    *)
(*                                  and output, close-port, the resets     *)
(*   ikarus.io.file-descriptor-ports.scm, ikarus-io.c   the device         *)
(*                                                                         *)
(* A socket port cannot be positioned; FILE then stands for what the peer  *)
(* sends and is sent, and only the buffer says something about the code.   *)
(*                                                                         *)
(* No action uses StartsEmptyFlush, NothingWritten, ForgetOffset,          *)
(* NotAdvanced, KeepUnread, SwitchInPlace, DropUnread, EofAfterData: each  *)
(* is what a plausible bug would make of the definition that follows it.   *)
(***************************************************************************)
EXTENDS Octets

CONSTANTS
  Size,         \* of the buffer
  MaxLen,       \* of the file
  Data,         \* the bytevectors that are put
  Counts,       \* the counts of octets asked for
  Targets,      \* the positions set
  Outcomes,     \* what the device does: writes take "all", "some", "none" of what
                \* they are given, reads give a "short" part; both say "again"
  Seekable,     \* FALSE for a socket
  Strict,       \* strict-r6rs
  \* What programs do beside putting, getting and positioning:
  Rewinds,      \* position an output port inside what its buffer holds
  FlushesInput, \* call flush-output-port while the port is used for input
  Resets        \* call reset-output-port!

\* What the constants must satisfy.
PortAssumptions ==
  /\ Assumptions /\ Size \in Nat /\ Size >= 2
  /\ Data \subseteq Seq(Octet) /\ Counts \subseteq Nat /\ Targets \subseteq Nat

\* What programs and devices do not do when a port is as good as its file: each
\* of these makes a port lose its position or what it was given.
PlainUse ==
  /\ Seekable /\ ~Rewinds /\ ~FlushesInput /\ ~Resets
  /\ ~({"some", "again"} \subseteq Outcomes)

\* In place of an octet: there is none, or it would have to be waited for.
EofObject == -1

WouldBlock == -2

VARIABLES
  mode,       \* "none" or "block", the buffer mode
  file, fpos,
  buf, index,
  pos,        \* the device position of the cookie
  dir,        \* "in" or "out": the last operation
  open,
  call,       \* the call under way
  flushing,   \* inside %flush-output-port
  offset,     \* buffer.offset, what the flush has written so far
  reply       \* the answer to the last get

device == <<file, fpos, pos>>
buffer == <<buf, index>>
portVars == <<mode, file, fpos, buf, index, pos, dir, open, call, flushing, offset, reply>>

Gets == {"get-u8", "get-bytevector-n", "get-bytevector-some", "get-bytevector-all"}

Looks == {"lookahead-u8", "lookahead-two-u8"}

Calls == {"put-bytevector", "flush-output-port", "set-port-position!", "close-port"}
           \cup Gets \cup Looks

NoCall == [op |-> "none", data |-> <<>>, count |-> 0, to |-> 0]

InCall == call # NoCall

Used == Len(buf)

\* The buffer begins at device position POS - OFFSET in an output port.
PortPosition ==
  IF dir = "out" THEN pos - offset + index ELSE pos - (Used - index)

PortInit ==
  /\ mode \in {"none", "block"}
  /\ file \in Data /\ fpos = 0 /\ pos = 0
  /\ buf = <<>> /\ index = 0
  /\ dir \in {"in", "out"} /\ open = TRUE
  /\ call = NoCall /\ flushing = FALSE /\ offset = 0
  /\ reply = <<>>

-----------------------------------------------------------------------------
(* Flushing.                                                               *)

StartsEmptyFlush == flushing' = TRUE /\ offset' = 0

\* A flush of an empty buffer does nothing.
StartsFlush == flushing' = (buf # <<>>) /\ offset' = 0

NothingWritten(n) == n = 0

\* The loop of the flush ends with a write of the whole buffer.
WholeBuffer(n) == n = Used

Written(n) ==
  CASE "all" \in Outcomes /\ n = Used - offset -> TRUE
    [] "none" \in Outcomes /\ n = 0 -> TRUE
    [] OTHER -> "some" \in Outcomes /\ n \in 1 .. Used - offset - 1

ForgetOffset(n) == offset

OffsetAfter(n) == offset + n

NotAdvanced(n) == pos

\* port.device.position.incr!
Advanced(n) == pos + n

FlushWrite ==
  /\ flushing
  /\ \E n \in 0 .. Used - offset :
       /\ Written(n)
       /\ file' = Overwritten(file, fpos, SubSeq(buf, offset + 1, offset + n))
       /\ fpos' = fpos + n /\ pos' = Advanced(n)
       /\ IF WholeBuffer(n)
            THEN /\ buf' = <<>> /\ index' = 0 /\ offset' = 0
                 /\ flushing' = FALSE
                 /\ call' = IF call.op = "flush-output-port" THEN NoCall ELSE call
            ELSE /\ offset' = OffsetAfter(n)
                 /\ UNCHANGED <<buffer, flushing, call>>
  /\ UNCHANGED <<mode, dir, open, reply>>

\* write! raises an exception, EAGAIN or another one.
FlushRaises ==
  /\ flushing /\ "again" \in Outcomes
  /\ flushing' = FALSE /\ offset' = 0
  /\ call' = NoCall
  /\ UNCHANGED <<mode, device, buffer, dir, open, reply>>

FlushOutputPort ==
  /\ call = NoCall /\ open
  /\ dir = "out" \/ FlushesInput
  /\ buf # <<>>
  /\ call' = [NoCall EXCEPT !.op = "flush-output-port"]
  /\ StartsFlush
  /\ UNCHANGED <<mode, device, buffer, dir, open, reply>>

-----------------------------------------------------------------------------
(* Putting.                                                                *)

KeepUnread(p) == pos

\* The device position that a port used for input is left at for output.
DeviceAt(p) == p

\* %reconfigure-input-buffer-to-output-buffer when the port was used for input.
PutBytevector ==
  /\ call = NoCall /\ open
  /\ \E bv \in Data :
       /\ PortPosition + Len(bv) <= MaxLen
       /\ call' = [NoCall EXCEPT !.op = "put-bytevector", !.data = bv]
  /\ dir' = "out"
  /\ IF dir = "in"
       THEN /\ buf' = <<>> /\ index' = 0
            /\ IF Seekable
                 THEN fpos' = DeviceAt(PortPosition) /\ pos' = DeviceAt(PortPosition)
                 ELSE UNCHANGED <<fpos, pos>>
       ELSE UNCHANGED <<fpos, pos, buffer>>
  /\ UNCHANGED <<mode, file, open, flushing, offset, reply>>

\* COUNT octets of the argument are copied into the buffer.
Copied(count) ==
  /\ buf' = Overwritten(buf, index, SubSeq(call.data, 1, count))
  /\ index' = index + count

\* The loop of %put-bytevector: what fits is copied; a buffer that is full or
\* cannot hold the rest is flushed.
PutAll ==
  /\ call.op = "put-bytevector" /\ ~flushing
  /\ Len(call.data) <= Size - index
  /\ Copied(Len(call.data))
  /\ IF mode = "none" /\ buf' # <<>>
       THEN flushing' = TRUE /\ call' = [call EXCEPT !.data = <<>>]
       ELSE flushing' = FALSE /\ call' = NoCall
  /\ UNCHANGED <<mode, device, dir, open, offset, reply>>

PutSome ==
  /\ call.op = "put-bytevector" /\ ~flushing
  /\ LET room == Size - index
     IN /\ Len(call.data) > room
        /\ Copied(room)
        /\ call' = [call EXCEPT !.data = SubSeq(@, room + 1, Len(@))]
  /\ flushing' = TRUE
  /\ UNCHANGED <<mode, device, dir, open, offset, reply>>

-----------------------------------------------------------------------------
(* Getting.                                                                *)

Get ==
  /\ call = NoCall /\ open
  /\ \E op \in Gets \cup Looks :
       \E n \in (IF op = "get-bytevector-n" THEN Counts ELSE {0}) :
         call' = [NoCall EXCEPT !.op = op, !.count = n, !.to = PortPosition]
  /\ reply' = <<>>
  /\ UNCHANGED <<mode, device, buffer, dir, open, flushing, offset>>

SwitchInPlace == pos

\* The position a port used for output is left at for input.
PositionKept == call.to

\* %reconfigure-output-buffer-to-input-buffer: the buffer is flushed, then the
\* device is positioned where the port was; on a socket the buffer is reset.
ToInput ==
  /\ call.op \in Gets \cup Looks /\ dir = "out" /\ ~flushing
  /\ IF Seekable /\ buf # <<>>
       THEN /\ StartsFlush
            /\ UNCHANGED <<fpos, pos, buffer, dir>>
       ELSE /\ dir' = "in" /\ buf' = <<>> /\ index' = 0
            /\ IF Seekable THEN fpos' = PositionKept /\ pos' = PositionKept
                           ELSE UNCHANGED <<fpos, pos>>
            /\ UNCHANGED <<flushing, offset>>
  /\ UNCHANGED <<mode, file, open, call, reply>>

Unread == SubSeq(buf, index + 1, Used)

Getting(ops) == call.op \in ops /\ dir = "in"

\* A turn of the loop that finds octets in the buffer.
Consume ==
  /\ Getting(Gets) /\ Unread # <<>>
  /\ LET some  == Len(Unread)
         taken == CASE call.op = "get-u8" -> 1
                    [] call.op = "get-bytevector-n" /\ call.count <= some -> call.count
                    [] OTHER -> some
         done  == CASE call.op = "get-bytevector-n" -> call.count <= some
                    [] OTHER -> call.op # "get-bytevector-all"
     IN /\ reply' = reply \o SubSeq(Unread, 1, taken)
        /\ index' = index + taken
        /\ call' = IF done THEN NoCall
                    ELSE IF call.op = "get-bytevector-n" THEN [call EXCEPT !.count = @ - taken]
                    ELSE call
  /\ UNCHANGED <<mode, device, buf, dir, open, flushing, offset>>

Wanted == IF call.op = "lookahead-two-u8" THEN 2 ELSE 1

Peek ==
  /\ Getting(Looks) /\ Len(Unread) >= Wanted
  /\ reply' = SubSeq(Unread, 1, Wanted)
  /\ call' = NoCall
  /\ UNCHANGED <<mode, device, buffer, dir, open, flushing, offset>>

\* What is missing to the octets that are at hand is MISSING.
Short(octets, missing) ==
  LET n == Wanted - Len(octets)
  IN IF n <= 0 THEN SubSeq(octets, 1, Wanted) ELSE octets \o [i \in 1 .. n |-> missing]

DropUnread == <<>>

\* %shift-data-in-buffer-to-the-beginning!
Shifted == Unread

\* %fill-buffer-with-data-from-device!: N octets are read.  lookahead-two-u8
\* looks once: the second octet would block, or strictly is read again.
Refill(n) ==
  /\ n <= Size - Len(Shifted) /\ fpos + n <= Len(file)
  /\ "short" \notin Outcomes => n = Size - Len(Shifted) \/ fpos + n = Len(file)
  /\ buf' = Shifted \o SubSeq(file, fpos + 1, fpos + n) /\ index' = 0
  /\ fpos' = fpos + n /\ pos' = Advanced(n)
  /\ IF call.op = "lookahead-two-u8" /\ (~Strict \/ Len(buf') >= 2)
       THEN reply' = Short(buf', WouldBlock) /\ call' = NoCall
       ELSE UNCHANGED <<reply, call>>

EofAfterData == fpos >= Len(file) /\ reply # <<>>

AtEof == fpos >= Len(file)

\* read! reads nothing: what was got so far is the answer, or the end of file is.
RefillEof ==
  /\ AtEof
  /\ buf' = Shifted /\ index' = 0
  /\ reply' = IF call.op \in Looks THEN Short(buf', EofObject)
              ELSE IF reply = <<>> THEN <<EofObject>> ELSE reply
  /\ call' = NoCall
  /\ UNCHANGED <<fpos, pos>>

\* read! raises EAGAIN.  get-bytevector-all tries again; so does every getter
\* that has nothing to answer when the port is strict.
RefillWouldBlock ==
  /\ "again" \in Outcomes
  /\ buf' = Shifted /\ index' = 0
  /\ LET again == \/ call.op = "get-bytevector-all"
                  \/ Strict /\ reply = <<>>
     IN IF again THEN UNCHANGED <<reply, call>>
        ELSE /\ reply' = IF call.op \in Looks THEN Short(buf', WouldBlock)
                         ELSE IF reply = <<>> THEN <<WouldBlock>> ELSE reply
             /\ call' = NoCall
  /\ UNCHANGED <<fpos, pos>>

FromDevice ==
  /\ Getting(Gets \cup Looks)
  /\ Len(Unread) < (IF call.op \in Looks THEN Wanted ELSE 1)
  /\ \/ \E n \in 1 .. Size : Refill(n)
     \/ RefillEof
     \/ RefillWouldBlock
  /\ UNCHANGED <<mode, file, dir, open, flushing, offset>>

-----------------------------------------------------------------------------
(* Positioning, closing, resetting.                                        *)

\* A position inside the buffer is reached by moving the index; for any other
\* position an output port is flushed first.
SetPortPosition ==
  /\ call = NoCall /\ open /\ Seekable
  /\ \E to \in Targets :
       LET new    == index + to - PortPosition
           inside == new \in 0 .. Used
       IN /\ to # PortPosition
          /\ inside /\ dir = "out" => Rewinds
          /\ IF inside
               THEN /\ index' = new
                    /\ UNCHANGED <<fpos, pos, buf, call, flushing, offset>>
               ELSE IF dir = "out"
               THEN /\ call' = [NoCall EXCEPT !.op = "set-port-position!", !.to = to]
                    /\ StartsFlush
                    /\ UNCHANGED <<fpos, pos, buffer>>
               ELSE /\ fpos' = to /\ pos' = to /\ buf' = <<>> /\ index' = 0
                    /\ UNCHANGED <<call, flushing, offset>>
  /\ UNCHANGED <<mode, file, dir, open, reply>>

SetDevicePosition ==
  /\ call.op = "set-port-position!" /\ ~flushing
  /\ fpos' = call.to /\ pos' = call.to
  /\ buf' = <<>> /\ index' = 0
  /\ call' = NoCall
  /\ UNCHANGED <<mode, file, dir, open, flushing, offset, reply>>

ClosePort ==
  /\ call = NoCall
  /\ call' = IF open THEN [NoCall EXCEPT !.op = "close-port"] ELSE call
  /\ IF open /\ dir = "out" THEN StartsFlush ELSE UNCHANGED <<flushing, offset>>
  /\ UNCHANGED <<mode, device, buffer, dir, open, reply>>

MarkAsClosed ==
  /\ call.op = "close-port" /\ ~flushing
  /\ open' = FALSE /\ call' = NoCall
  /\ UNCHANGED <<mode, device, buffer, dir, flushing, offset, reply>>

ResetInputPort ==
  /\ call = NoCall /\ open
  /\ index' = Used
  /\ UNCHANGED <<mode, device, buf, dir, open, call, flushing, offset, reply>>

ResetOutputPort ==
  /\ call = NoCall /\ open /\ Resets
  /\ index' = 0
  /\ UNCHANGED <<mode, device, buf, dir, open, call, flushing, offset, reply>>

-----------------------------------------------------------------------------
Works ==
  \/ FlushWrite \/ FlushRaises
  \/ PutAll \/ PutSome
  \/ ToInput \/ Consume \/ Peek \/ FromDevice
  \/ SetDevicePosition \/ MarkAsClosed

PortNext ==
  \/ Works
  \/ FlushOutputPort
  \/ PutBytevector
  \/ Get
  \/ SetPortPosition
  \/ ClosePort
  \/ ResetInputPort
  \/ ResetOutputPort

PortSpec == PortInit /\ [][PortNext]_portVars

\* A call goes on, and a device that is used again and again does something:
\* a write of nothing and a read that would block are no progress.
FairSpec == PortSpec /\ WF_portVars(Works)

-----------------------------------------------------------------------------
TypeOK ==
  /\ mode \in {"none", "block"} /\ dir \in {"in", "out"}
  /\ open \in BOOLEAN /\ flushing \in BOOLEAN
  /\ file \in Seq(Octet \cup {Gap}) /\ buf \in Seq(Octet \cup {Gap})
  /\ Used <= Size /\ index \in 0 .. Used /\ offset \in 0 .. Used
  /\ fpos \in Nat /\ pos \in Nat
  /\ call \in [op : Calls \cup {"none"}, data : Seq(Octet), count : Nat, to : Nat]

\* What the file holds once the buffer is flushed.
Content ==
  IF open /\ dir = "out" THEN Overwritten(file, pos - offset, buf) ELSE file

\* The device position of the cookie is the one the kernel has, also after the
\* calls that were ended by an exception (port.device.position.incr!).
CookieTracksDevice == Seekable => pos = fpos

\* The octets BS are those of F before the position P.
EndsAt(f, p, bs) == bs = SubSeq(f, p - Len(bs) + 1, p)

\* The buffer of a port used for input is the part of the file before the device
\* position: nothing that was put since is missing in it.
BufferIsFile ==
  dir = "in" =>
    /\ Used <= pos
    /\ Seekable => /\ EndsAt(file, pos, buf)
                   /\ buf # <<>> => pos <= Len(file)

\* A flush writes what was put, in a call on an open port, and is the only one
\* to move the beginning of the buffer away from the device position.
FlushIsOutput ==
  /\ flushing => buf # <<>> /\ dir = "out" /\ call.op # "none"
  /\ ~flushing => offset = 0
  /\ offset <= pos
  /\ call.op = "put-bytevector" => dir = "out"
  /\ call.op # "none" => open

\* Between the calls and in them the buffer of a port used for output is put to
\* at its end; a call that flushed it goes on with an empty buffer, and a getter
\* finds the port where it was.
OutputAtEnd ==
  dir = "out" /\ ~Rewinds /\ ~Resets =>
    /\ index = Used
    /\ call.op \in {"set-port-position!", "close-port"} /\ ~flushing => buf = <<>>
    /\ call.op \in Gets \cup Looks => call.to = PortPosition

\* What a port holds between the steps of its calls: the cookie has the position
\* of the kernel, and the buffer is the part of the file that goes there, or is
\* going to be.
BufferInvariant ==
  TypeOK /\ CookieTracksDevice /\ BufferIsFile /\ FlushIsOutput /\ OutputAtEnd

\* A binary port is the file it is opened on, whatever is buffered.
Port == INSTANCE FilePort WITH
  content <- Content, position <- PortPosition, isOpen <- open, answer <- reply

ImplementsFile == Port!Spec

\* The next three are about the steps of a behaviour.

\* A flush changes where the octets are, not the position of the port (the
\* picture in set-port-position!: dev.tmp-pos = dev.old-pos + index).
FlushKeepsPosition == flushing => PortPosition' = PortPosition

\* A flush, completed or not, writes each octet once, where it belongs.
FlushKeepsContent == flushing => Content' = Content

\* A port turned from input to output or back stays where it is ("The device
\* position may change, but the port position is unchanged").
SwitchKeepsPosition == dir' # dir => PortPosition' = PortPosition

\* A flush, completed or not, and a switch between input and output leave the
\* port where it is, and what was put is written once.
FlushKeepsPort ==
  [][FlushKeepsPosition /\ FlushKeepsContent /\ SwitchKeepsPosition]_portVars

\* %flush-output-port: "If PORT.WRITE! returns zero written bytes or cannot absorb
\* all the bytes in the buffer: this function loops retrying until PORT.WRITE!
\* accepts the data".  So a flush to a device that takes something of what it is
\* given comes to its end.  With "some" of the octets taken it does not.
FlushReturns == flushing ~> ~flushing

\* Every call comes to its end when writes take all or nothing ("some" not in
\* Outcomes: see FlushReturns) and the device does not refuse for ever.
CallReturns == InCall ~> ~InCall

=============================================================================
