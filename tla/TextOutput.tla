------------------------------ MODULE TextOutput ------------------------------
(***************************************************************************)
(* A textual output port over a buffer of octets: put-char, put-string,    *)
(* newline and flush-output-port of ikarus.io.writing.scm.  A newline is   *)
(* written as the characters of the port's end-of-line style, a character  *)
(* is encoded into the buffer as a whole, after a flush when there is no   *)
(* room, and the buffer mode says when the buffer is flushed.              *)
(*                                                                         *)
(* TODO holds what the call has still to put, UNITS the characters that    *)
(* stand for the one it is putting.  A flush that raises EAGAIN ends the   *)
(* call; short writes are those of BinaryPorts.                            *)
(*                                                                         *)
(* No action uses FitsOneOctet, FlushNothing, LineNotFlushed,              *)
(* NewlineAsIs, NotReset, OctetWithoutCheck: each is what a plausible bug  *)
(* would make of the definition that follows it.                           *)
(***************************************************************************)
EXTENDS Encodings, SequencesExt

CONSTANTS
  Size,        \* of the buffer
  Strings,     \* what put-string is given; put-char the strings of one
  Ports,       \* of records: codec, style, modes (the buffer mode bits; none of
               \* them is the mode "block") and error mode
  SwitchTo,    \* the buffer modes set-port-buffer-mode! is given
  MaxChars,    \* bounds the characters a behaviour is given
  Again        \* the device may raise EAGAIN

\* What the constants must satisfy.
Assumptions == Size \in Nat /\ Size >= 8

VARIABLES
  port,
  buf, device,
  call,
  put,         \* the characters put into the buffer
  asked,       \* the characters the calls were given and have put
  failed       \* whether a call was ended by an exception

outVars == <<port, buf, device, call, put, asked, failed>>

NoCall == [op |-> "none", todo |-> <<>>, units |-> <<>>, flush |-> FALSE]

InCall == call # NoCall

OutInit ==
  /\ port \in Ports
  /\ buf = <<>> /\ device = <<>> /\ call = NoCall
  /\ put = <<>> /\ asked = <<>> /\ failed = FALSE

PutString ==
  /\ call = NoCall /\ Len(asked) < MaxChars
  /\ \E str \in Strings, op \in {"put-char", "put-string"} :
       /\ op = "put-char" => Len(str) = 1
       /\ call' = [NoCall EXCEPT !.op = op, !.todo = str]
  /\ UNCHANGED <<port, buf, device, put, asked, failed>>

FlushOutputPort ==
  /\ call = NoCall /\ buf # <<>>
  /\ call' = [NoCall EXCEPT !.op = "flush-output-port", !.flush = TRUE]
  /\ UNCHANGED <<port, buf, device, put, asked, failed>>

ModeOf(p) ==
  IF "line" \in p.modes THEN "line" ELSE IF "none" \in p.modes THEN "none" ELSE "block"

\* The bits it clears are those of the end-of-line style.
SetBufferMode ==
  /\ call = NoCall
  /\ \E mode \in SwitchTo :
       port' = [port EXCEPT !.style = "none", !.modes = @ \cup ({mode} \ {"block"})]
  /\ UNCHANGED <<buf, device, call, put, asked, failed>>

NewlineAsIs(c) == <<c>>

\* The characters that stand for C.
UnitsOf(c) == IF c = Linefeed THEN Newline(port.style) ELSE <<c>>

LineNotFlushed(c) == "none" \in port.modes /\ call.op = "put-char"

\* Whether the buffer is flushed when C has been put.
FlushAfter(c) ==
  \/ "none" \in port.modes /\ call.op = "put-char"
  \/ "line" \in port.modes /\ c = Linefeed

\* The next character of the call.  put-char alone asks whether the codec
\* has the characters of the style.
TakeChar ==
  /\ call.todo # <<>> /\ call.units = <<>> /\ ~call.flush
  /\ LET c == Head(call.todo) IN
       IF call.op = "put-char" /\ c = Linefeed /\ ~Supports(port.codec, port.style)
         THEN /\ call' = NoCall /\ failed' = TRUE /\ UNCHANGED asked
         ELSE /\ call' = [call EXCEPT !.todo = Tail(@), !.units = UnitsOf(c),
                                      !.flush = FlushAfter(c)]
              /\ asked' = Append(asked, c) /\ UNCHANGED failed
  /\ UNCHANGED <<port, buf, device, put>>

OctetWithoutCheck(c) == <<c>>

\* The character put for C: Latin-1 cannot encode them all.
Representable(c) ==
  IF Encodable(port.codec, c) THEN <<c>>
  ELSE IF port.errors = "replace" THEN <<63>> ELSE <<>>

FitsOneOctet(octets) == Len(buf) < Size

Fits(octets) == Len(buf) + Len(octets) <= Size

Unit == Head(call.units)

Octets == IF Representable(Unit) = <<>> THEN <<>>
          ELSE Encode(port.codec, Representable(Unit)[1])

PutUnit ==
  /\ call.units # <<>> /\ Fits(Octets)
  /\ IF ~Encodable(port.codec, Unit) /\ port.errors = "raise"
       THEN /\ call' = NoCall /\ failed' = TRUE /\ UNCHANGED <<buf, put>>
       ELSE /\ buf' = buf \o Octets
            /\ put' = put \o Representable(Unit)
            /\ call' = [call EXCEPT !.units = Tail(@)]
            /\ UNCHANGED failed
  /\ UNCHANGED <<port, device, asked>>

FlushNothing == FALSE

\* The character has no room, or the call flushes what it has put.
MustFlush ==
  \/ call.units # <<>> /\ ~Fits(Octets)
  \/ call.units = <<>> /\ call.flush

NotReset == buf

AfterFlush == <<>>

Flush ==
  /\ MustFlush
  /\ device' = device \o buf /\ buf' = AfterFlush
  /\ call' = IF call.units = <<>> THEN [call EXCEPT !.flush = FALSE] ELSE call
  /\ UNCHANGED <<port, put, asked, failed>>

FlushRaises ==
  /\ Again /\ MustFlush /\ buf # <<>>
  /\ call' = NoCall /\ failed' = TRUE
  /\ UNCHANGED <<port, buf, device, put, asked>>

\* put-string flushes an unbuffered port once, when all is put.
End ==
  /\ call # NoCall /\ call.todo = <<>> /\ call.units = <<>> /\ ~call.flush
  /\ call' = IF call.op = "put-string" /\ "none" \in port.modes
               THEN [NoCall EXCEPT !.op = "flush-output-port", !.flush = TRUE]
               ELSE NoCall
  /\ UNCHANGED <<port, buf, device, put, asked, failed>>

Step == TakeChar \/ PutUnit \/ Flush \/ FlushRaises \/ End

OutNext == PutString \/ FlushOutputPort \/ SetBufferMode \/ Step

OutSpec == OutInit /\ [][OutNext]_outVars

\* The one thread goes on with the call it is in.
FairOutSpec == OutSpec /\ WF_outVars(Step)

-----------------------------------------------------------------------------
(* What is read back from what was written.                                *)

RECURSIVE Encoded(_)
Encoded(cs) ==
  IF cs = <<>> THEN <<>> ELSE Encode(port.codec, cs[1]) \o Encoded(Tail(cs))

RECURSIVE Decoded(_)
Decoded(octets) ==
  LET s == Scan(port.codec, octets) IN
    CASE octets = <<>> -> <<>>
      [] octets # <<>> /\ s.kind = "short" -> <<Replacement>>
      [] OTHER -> <<s.char>> \o Decoded(SubSeq(octets, s.size + 1, Len(octets)))

\* What a port with line-ending conversion reads.
RECURSIVE ReadBack(_)
ReadBack(cs) ==
  CASE cs = <<>> -> <<>>
    [] Len(cs) >= 2 /\ cs[1] = CarriageReturn /\ NewlineAfterReturn(cs[2]) ->
         <<Linefeed>> \o ReadBack(Tail(Tail(cs)))
    [] OTHER ->
         <<IF LineEnding(cs[1]) \/ cs[1] = CarriageReturn THEN Linefeed ELSE cs[1]>>
           \o ReadBack(Tail(cs))

-----------------------------------------------------------------------------
(* Properties.                                                             *)

TypeOK ==
  /\ port.modes \subseteq {"none", "line"}
  /\ Len(buf) <= Size
  /\ failed \in BOOLEAN

\* Whatever was flushed when, the device and the buffer hold together the
\* encoding of the characters put: no octet is lost or doubled by a flush in
\* the middle of a string.
NothingLost == device \o buf = Encoded(put)

\* A text that is written and read back is the same text: the styles a port
\* writes are those a port reads.
ReadsBack ==
  (call = NoCall /\ ~failed) => ReadBack(Decoded(device \o buf)) = asked

\* Between calls an unbuffered port holds nothing and a line-buffered one no
\* newline, unless a device was not ready.
FlushedByMode ==
  (call = NoCall /\ ~failed) =>
    /\ "none" \in port.modes => buf = <<>>
    /\ "line" \in port.modes =>
         \A i \in 1 .. Len(buf) : ~LineEnding(Scan(port.codec, SubSeq(buf, i, Len(buf))).char)

\* Latin-1 writes no other octets than those of the characters it has and of
\* the question mark.
LatinReadsBack ==
  (call = NoCall /\ ~failed) =>
    LET shown(c) == IF c <= 255 THEN <<c>> ELSE IF port.errors = "replace" THEN <<63>> ELSE <<>>
    IN ReadBack(Decoded(device \o buf))
         = FlattenSeq([i \in DOMAIN asked |-> shown(asked[i])])

\* A flush never waits for room: every call on a device that is ready returns.
CallReturns == InCall ~> ~InCall

=============================================================================
