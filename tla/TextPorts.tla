------------------------------ MODULE TextPorts ------------------------------
(***************************************************************************)
(* A textual input port over a device of octets: BUF holds the octets read *)
(* from the device and not yet consumed, REST is what the device still has *)
(* (ikarus.io.reading.scm).  A call looks at the characters in the buffer, *)
(* refills it when they are not complete there, and then consumes them.    *)
(*                                                                         *)
(* A call is in one of the phases                                          *)
(*   peek   the next character is looked at, AT octets into the buffer     *)
(*          where bad octets before it are ignored;                        *)
(*   peek2  the character after a carriage return is looked at;            *)
(*   read   READS characters are consumed.                                 *)
(* LEAD is the first octet of a character looked at across a refill, and   *)
(* NoOctet when there is none.                                             *)
(*                                                                         *)
(* No action uses ReadsAsFound, StoresOneBuffer, EofWhenWaiting,           *)
(* OneReadForBoth, SkipsTooFar, RoomWhenEmpty, DropsBuffered, EofAtOnce,   *)
(* WaitAtEnd: each is what a plausible bug would make of the definition    *)
(* that follows it.                                                        *)
(***************************************************************************)
EXTENDS Encodings, SequencesExt

CONSTANTS
  Size,      \* of the buffer, at least BUFFER-SIZE-LOWER-LIMIT
  Sources,   \* by codec, the contents a device may have: sequences of octets
  EolStyles, \* whether line endings are converted: a set of booleans
  Modes,     \* of error handling: "ignore", "replace", "raise"
  Operations,
  Count,     \* the characters get-string-n asks for
  Again      \* the device may say EAGAIN

\* What the constants must satisfy.
Assumptions == Size \in Nat /\ Size >= 8

EofObject == -1

WouldBlock == -2

Raised == -3

NoOctet == -4

VARIABLES
  codec, source, eol, mode, \* as the port was opened
  rest, buf,
  ended,     \* the device has said that it has no more
  call,
  text,      \* the characters the calls have given
  reply      \* the answer to the last call and what it asked

textVars == <<codec, source, eol, mode, rest, buf, ended, call, text, reply>>

config == <<codec, source, eol, mode>>

NoCall == [op |-> "none", phase |-> "none", at |-> 0, lead |-> NoOctet,
           reads |-> 0, char |-> 0, got |-> <<>>]

InCall == call # NoCall

\* The octets the call looks at.
Seen == IF call.lead = NoOctet THEN SubSeq(buf, call.at + 1, Len(buf))
        ELSE <<call.lead>> \o Tail(buf)

Next1 == Scan(codec, Seen)

TextInit ==
  /\ codec \in DOMAIN Sources /\ source \in Sources[codec] /\ rest = source /\ ended = FALSE
  /\ eol \in EolStyles /\ mode \in Modes
  /\ buf = <<>> /\ call = NoCall /\ text = <<>>
  /\ reply = [op |-> "none", value |-> EofObject]

-----------------------------------------------------------------------------
(* The end of a call, and its next phase.                                  *)

\* The call gives the characters GOT, or VALUE when there are none; what an
\* exception says about the text is kept with it.
Returns(got, value) ==
  /\ call' = NoCall
  /\ text' = text \o IF got = <<>> /\ value = Raised /\ call.op # "lookahead-char"
                       THEN <<Raised>> ELSE got
  /\ reply' = [op |-> call.op, value |-> IF got = <<>> THEN value ELSE got[1]]

Looks(phase, at) ==
  /\ call' = [call EXCEPT !.phase = phase, !.at = at, !.lead = NoOctet]
  /\ UNCHANGED <<text, reply>>

ReadsAsFound(n, c) ==
  /\ call' = [call EXCEPT !.phase = "read", !.at = 0, !.lead = NoOctet,
                          !.reads = n, !.char = NoOctet]
  /\ UNCHANGED <<text, reply>>

\* C: the character the call stores, or NoOctet for the one it consumes.
Reads(n, c) ==
  /\ call' = [call EXCEPT !.phase = "read", !.at = 0, !.lead = NoOctet,
                          !.reads = n, !.char = c]
  /\ UNCHANGED <<text, reply>>

\* An exception ends the call, and what it had read goes with it.
Raises == Returns(<<>>, Raised) /\ UNCHANGED buf

StoresOneBuffer(c) ==
  LET got == Append(call.got, c) IN
    IF call.op = "get-char" \/ Len(got) = Count
      THEN Returns(got, c)
      ELSE /\ call' = [call EXCEPT !.phase = "peek", !.at = 0, !.lead = NoOctet, !.got = got]
           /\ UNCHANGED <<text, reply>>

\* A string is complete, or the next character is looked at.
Stores(c) ==
  LET got == Append(call.got, c) IN
    IF call.op = "get-char" \/ (call.op # "get-string-all" /\ Len(got) = Count)
      THEN Returns(got, c)
      ELSE /\ call' = [call EXCEPT !.phase = "peek", !.at = 0, !.lead = NoOctet, !.got = got]
           /\ UNCHANGED <<text, reply>>

EofWhenWaiting(value) == Returns(call.got, EofObject)

\* A getter of strings gives what it has when it would have to wait;
\* get-string-all asks for one buffer of Count characters after the other, and
\* asks again only when the one under way is empty.
Waits(value) ==
  IF Len(call.got) % Count # 0 THEN Returns(call.got, value)
  ELSE IF call.op = "get-string-all" /\ value = WouldBlock THEN Looks("peek", 0)
  ELSE Returns(<<>>, value)

-----------------------------------------------------------------------------
(* What a call does with the character C it has looked at.                 *)

Looked(c) ==
  IF call.op = "lookahead-char"
    THEN /\ UNCHANGED buf
         /\ CASE eol /\ LineEnding(c) -> Returns(<<>>, Linefeed)
              [] eol /\ c = CarriageReturn -> Looks("peek2", Len(Encode(codec, c)))
              [] OTHER -> Returns(<<>>, c)
    ELSE CASE c = EofObject -> buf' = <<>> /\ Returns(call.got, EofObject)
           [] c = WouldBlock -> UNCHANGED buf /\ Waits(c)
           [] c = Raised -> Raises
           [] c >= 0 /\ eol /\ LineEnding(c) -> UNCHANGED buf /\ Reads(1, Linefeed)
           [] c >= 0 /\ eol /\ c = CarriageReturn ->
                UNCHANGED buf /\ Looks("peek2", Len(Encode(codec, c)))
           [] OTHER -> /\ UNCHANGED buf
                       /\ Reads(1, IF call.op = "get-char" THEN NoOctet ELSE c)

OneReadForBoth(c) == 1

\* A newline after the carriage return is consumed with it.
ReadsForReturn(c) == IF NewlineAfterReturn(c) THEN 2 ELSE 1

\* %get-string-n! answers with the carriage return when it would have to
\* wait for the character after it.
ReturnedForReturn == IF call.op = "get-char" THEN WouldBlock ELSE CarriageReturn

\* What lookahead-char answers for a carriage return before C.
ReturnAsSeen(c) ==
  IF c = EofObject \/ NewlineAfterReturn(c) THEN Linefeed
  ELSE IF c \in {WouldBlock, Raised} THEN c ELSE CarriageReturn

\* The character C follows a carriage return.
LookedAfterReturn(c) ==
  IF call.op = "lookahead-char" THEN UNCHANGED buf /\ Returns(<<>>, ReturnAsSeen(c))
  ELSE IF c = Raised THEN Raises
  ELSE IF call.op = "get-line"
    THEN /\ UNCHANGED buf
         /\ IF NewlineAfterReturn(c) THEN Reads(1, Linefeed)
            ELSE Returns(Append(call.got, Linefeed), Linefeed)
    ELSE CASE c = EofObject -> buf' = <<>> /\ Stores(Linefeed)
           [] c = WouldBlock -> UNCHANGED buf /\ Waits(ReturnedForReturn)
           [] OTHER -> UNCHANGED buf /\ Reads(ReadsForReturn(c), Linefeed)

Answer(c) == IF call.phase = "peek" THEN Looked(c) ELSE LookedAfterReturn(c)

\* C is a line ending, or the newline after a carriage return.
EndsLine(c) == c = Linefeed \/ (eol /\ LineEnding(c)) \/ call.char = Linefeed

\* get-line reads a character C and looks whether the line ends.
LineRead(c) ==
  CASE c = EofObject -> Returns(call.got, EofObject)
    [] c = WouldBlock -> UNCHANGED <<call, text, reply>>
    [] c >= 0 /\ EndsLine(c) -> Returns(Append(call.got, Linefeed), Linefeed)
    [] c >= 0 /\ ~EndsLine(c) /\ eol /\ c = CarriageReturn -> Looks("peek2", 0)
    [] OTHER -> /\ call' = [call EXCEPT !.got = Append(@, c)]
                /\ UNCHANGED <<text, reply>>

\* A character C is consumed.
Consumed(c) ==
  CASE c = Raised -> Returns(<<>>, Raised)
    [] c # Raised /\ call.op = "get-line" -> LineRead(c)
    [] c # Raised /\ call.op # "get-line" /\ call.reads = 2 -> Reads(1, call.char)
    [] OTHER ->
         IF call.char # NoOctet THEN Stores(call.char)
         ELSE Returns(IF c >= 0 THEN <<c>> ELSE <<>>, c)

-----------------------------------------------------------------------------
(* The actions.                                                            *)

Start ==
  /\ call = NoCall
  /\ \E op \in Operations :
       call' = [NoCall EXCEPT !.op = op,
                  !.phase = IF op = "get-line" THEN "read" ELSE "peek",
                  !.reads = IF op = "get-line" THEN 1 ELSE 0]
  /\ UNCHANGED <<config, rest, ended, buf, text, reply>>

SkipsTooFar(s) == s.size + 1

\* How far a bad character is skipped: one octet too far by UTF-8 when no
\* character begins with its first octet.
Skips(s) == IF codec = "utf-8" /\ s.size = 1 THEN 2 ELSE s.size

Peek ==
  /\ call.phase \in {"peek", "peek2"}
  /\ Next1.kind # "short"
  /\ IF Next1.kind = "bad" /\ mode = "ignore"
       THEN Looks(call.phase, call.at + Skips(Next1)) /\ UNCHANGED buf
       ELSE Answer(IF Next1.kind = "bad" /\ mode = "raise" THEN Raised ELSE Next1.char)
  /\ UNCHANGED <<config, rest, ended>>

Read ==
  /\ call.phase = "read"
  /\ Next1.kind # "short"
  /\ buf' = SubSeq(buf, Next1.size + 1, Len(buf))
  /\ IF Next1.kind = "bad" /\ mode = "ignore"
       THEN UNCHANGED <<call, text, reply>>
       ELSE Consumed(IF Next1.kind = "bad" /\ mode = "raise" THEN Raised ELSE Next1.char)
  /\ UNCHANGED <<config, rest, ended>>

RoomWhenEmpty == Size

\* The octets there is room for; the buffer is shifted before it is filled.
Room == Size - Len(buf)

DropsBuffered(n) == SubSeq(rest, 1, n)

Filled(n) == buf \o SubSeq(rest, 1, n)

\* After a refill the octets of a UTF-8 character that were not complete are
\* looked for from the buffer's index on, and not from where it was found.
Retried ==
  [call EXCEPT !.lead =
     IF codec = "utf-8" /\ call.phase # "read" /\ call.at > 0 /\ Seen # <<>>
       THEN Seen[1] ELSE @]

Refill ==
  /\ call # NoCall /\ Next1.kind = "short"
  /\ \E n \in 1 .. Room :
       /\ n <= Len(rest)
       /\ buf' = Filled(n)
       /\ rest' = SubSeq(rest, n + 1, Len(rest))
  /\ call' = Retried
  /\ UNCHANGED <<config, ended, text, reply>>

RefillAgain ==
  /\ call # NoCall /\ Next1.kind = "short"
  /\ Again /\ ~ended
  /\ IF call.phase = "read" THEN UNCHANGED buf /\ Consumed(WouldBlock)
     ELSE Answer(WouldBlock)
  /\ UNCHANGED <<config, rest, ended>>

EofAtOnce == EofObject

WaitAtEnd == WouldBlock

\* The device has no more octets, or the buffer no room: the octets of a
\* character that is not complete are handled as a bad one.
AtEnd ==
  IF Seen = <<>> \/ mode = "ignore" THEN EofObject
  ELSE IF mode = "raise" THEN Raised ELSE Replacement

RefillEof ==
  /\ call # NoCall /\ Next1.kind = "short"
  /\ rest = <<>> \/ Room = 0
  /\ ended' = (rest = <<>>)
  /\ IF call.phase = "read"
       THEN /\ buf' = IF mode = "raise" /\ codec = "utf-8" THEN buf ELSE <<>>
            /\ Consumed(AtEnd)
       ELSE Answer(AtEnd)
  /\ UNCHANGED <<config, rest>>

Works == Peek \/ Read \/ Refill \/ RefillEof

TextNext == Start \/ Peek \/ Read \/ Refill \/ RefillAgain \/ RefillEof

TextSpec == TextInit /\ [][TextNext]_textVars

\* A device asked again and again gives octets in the end.
FairTextSpec == TextSpec /\ WF_textVars(Works)

-----------------------------------------------------------------------------
(* What the text of a sequence of octets is.                               *)

RECURSIVE Decoded(_)
Decoded(octets) ==
  LET s == Scan(codec, octets)
      bad == CASE mode = "ignore" -> <<>> [] mode = "raise" -> <<Raised>>
               [] mode = "replace" -> <<Replacement>>
  IN CASE octets = <<>> -> <<>>
       [] s.kind = "char" -> <<s.char>> \o Decoded(SubSeq(octets, s.size + 1, Len(octets)))
       [] s.kind = "bad" -> bad \o Decoded(SubSeq(octets, s.size + 1, Len(octets)))
       [] OTHER -> bad

RECURSIVE Converted(_)
Converted(cs) ==
  CASE cs = <<>> -> <<>>
    [] Len(cs) >= 2 /\ cs[1] = CarriageReturn /\ NewlineAfterReturn(cs[2]) ->
         <<Linefeed>> \o Converted(Tail(Tail(cs)))
    [] OTHER ->
         <<IF LineEnding(cs[1]) \/ cs[1] = CarriageReturn THEN Linefeed ELSE cs[1]>>
           \o Converted(Tail(cs))

Chars(octets) == IF eol THEN Converted(Decoded(octets)) ELSE Decoded(octets)

Unread == buf \o rest

-----------------------------------------------------------------------------
(* Properties.                                                             *)

TypeOK ==
  /\ Len(buf) <= Size
  /\ call.phase \in {"none", "peek", "peek2", "read"}
  /\ call.at \in Nat /\ call.reads \in 0 .. 2
  /\ call = NoCall <=> call.op = "none"

\* However the octets come and whichever calls read them, what was read and
\* what will be is the text of the device: no character is lost, doubled or
\* split, and every line ending is one linefeed.
ReadsTheText == call = NoCall => text \o Chars(Unread) = Chars(source)

\* lookahead-char says what the next get-char gives (iklib.texi).
PeekIsNext ==
  (call = NoCall /\ reply.op = "lookahead-char" /\ reply.value # WouldBlock)
    => reply.value = IF Chars(Unread) = <<>> THEN EofObject ELSE Chars(Unread)[1]

\* get-string-all attempts to read input until the end of file.
AllReadsToEof ==
  (call = NoCall /\ reply.op = "get-string-all") => Unread = <<>>

\* A getter that would have to wait says so, or gives characters: where line
\* endings are converted no carriage return comes out.
NoReturnGiven ==
  (eol /\ reply.op # "lookahead-char") => reply.value # CarriageReturn

\* A getter answers with EOF only when there is nothing more to read.
EofIsTheEnd ==
  (call = NoCall /\ reply.op # "none" /\ reply.value = EofObject) => Chars(Unread) = <<>>

\* Every call returns on a device that gives octets in the end.
CallReturns == InCall ~> ~InCall

=============================================================================
