---------------------------- MODULE MCInputOutput ----------------------------
(***************************************************************************)
(* Instances for TLC of the modules on ports, BinaryPorts, TextPorts,      *)
(* TextOutput and the decoders and encoders of Encodings, and of Channels. *)
(* A behaviour is one of one of them: PART says which; the variables it    *)
(* does not have are 0.                                                    *)
(*   file, partial: a port on a file, whose device gives a part, but takes *)
(*     all or nothing; or gives and takes a part, under strict-r6rs;       *)
(*   codes: every sequence of up to four octets out of a small set, as a   *)
(*     decoder meets them;                                                 *)
(*   mixed, ignored, lines, lines again, others: texts that are read, by   *)
(*     what is in them; bad octets are replaced, but in ignored; the       *)
(*     device of mixed, of ignored and of lines again may say EAGAIN;      *)
(*   written, latin: texts that are written;                               *)
(*   channel: a message channel, two messages both ways together.          *)
(* The variables of BinaryPorts keep an initial value in the other parts.  *)
(***************************************************************************)
EXTENDS BinaryPorts

VARIABLES
  part,
  codec, source, eol, errorMode, rest, octetsRead, ended, getter, text, answer,
  port, octetsPut, written, putter, put, asked, failed,
  octets,
  action, terminated, size, portions, time, full, answered, outPort, coming,
  inbox, closed, outbox, messages, taken, cut, accepted, sends

textVars == <<codec, source, eol, errorMode, rest, octetsRead, ended, getter, text, answer>>
outVars  == <<port, octetsPut, written, putter, put, asked, failed>>
channelVars == <<action, terminated, size, portions, time, full, answered, outPort, coming,
                 inbox, closed, outbox, messages, taken, cut, accepted, sends>>
allVars == <<part, portVars, textVars, outVars, octets, channelVars>>

-----------------------------------------------------------------------------
(* Texts: sequences of octets, by codec.                                   *)

\* Characters of every width, bad octets, a character cut by the end of file.
Mixed == [enc \in {"utf-8"} |->
  {<<65, 195, 169, 66>>, <<226, 130, 172, 65>>, <<240, 159, 146, 169>>,
   <<65, 255, 66, 67>>, <<195, 65, 128, 66>>, <<224, 128, 128, 65>>, <<65, 226, 130>>,
   <<226, 130, 172, 65, 66, 67, 195, 169, 68>>}]

\* Every bad character begins with the first octet of one, and characters of
\* one octet follow it.
BadTails == [enc \in {"utf-8"} |->
  {<<195, 65, 66>>, <<65, 224, 128, 128, 66>>, <<237, 160, 128, 67>>, <<65, 226, 130>>}]

\* No character of more than one octet comes after a carriage return.
Lines == [enc \in {"utf-8"} |->
  {<<65, 13, 10, 66>>, <<13, 13, 10, 10>>, <<65, 13, 66, 10>>, <<194, 133, 65, 13>>,
   <<226, 128, 168, 13, 10>>, <<10, 13>>, <<255, 13, 10, 65>>}]

OtherTexts ==
  [enc \in {"utf-16be", "utf-16le", "latin-1"} |->
     CASE enc = "utf-16be" ->
            {<<0, 65, 32, 172, 0, 66>>, <<216, 0, 220, 0, 0, 65>>, <<220, 0, 0, 65, 216, 0>>,
             <<216, 0, 0, 65, 0, 66, 0>>, <<0, 13, 0, 10, 0, 65>>, <<0, 13, 0, 133, 32, 40>>}
       [] enc = "utf-16le" ->
            {<<65, 0, 172, 32, 66, 0>>, <<0, 216, 0, 220, 65, 0>>, <<0, 216, 65, 0, 66, 0, 1>>,
             <<13, 0, 10, 0, 65, 0>>, <<13, 0, 133, 0, 40, 32, 13, 0>>}
       [] enc = "latin-1" -> {<<65, 13, 10, 66>>, <<233, 133, 13, 133>>, <<13, 13, 10>>}]

Getters == {"get-char", "lookahead-char", "get-string-n", "get-string-all", "get-line"}

\* What is put: characters of one to four octets and newlines.
Strings == {<<10>>, <<65>>, <<8364, 10>>, <<128169, 233, 10, 66>>}

LatinStrings == {<<10>>, <<233>>, <<8364>>, <<65, 8364, 10, 66>>}

PortsWith(codecs, styles, modes, errors) ==
  [codec : codecs, style : styles, modes : modes, errors : errors]

UtfPorts ==
  PortsWith({"utf-8"}, {"lf", "crlf", "nel", "crnel", "ls"}, {{}, {"none"}, {"line"}}, {"replace"})
    \cup PortsWith({"utf-16be", "utf-16le"}, {"crnel", "none"}, {{"line"}}, {"replace"})

LatinPorts ==
  PortsWith({"latin-1"}, {"none", "crlf"}, {{"none"}, {}}, {"ignore", "replace", "raise"})

-----------------------------------------------------------------------------
(* The instances.                                                          *)

\* What is put on files.
FileData == {<<1>>, <<2, 3>>, <<1, 2, 3, 1>>}

Partial == INSTANCE BinaryPorts WITH
  Data <- {<<1>>, <<2, 3>>}, Outcomes <- {"all", "some", "none", "short"}, Strict <- TRUE

Codes == INSTANCE Encodings

\* The octets and the code points at which the coders change what they do.
CodeOctets == {0, 65, 128, 143, 144, 159, 160, 191, 194, 216, 220, 223, 224, 237, 239, 240, 244}

CodePoints == {0, 10, 127, 128, 133, 255, 256, 2047, 2048, 8232, 55295, 57344, 65533,
               65535, 65536, 1114111}

TextMixed == INSTANCE TextPorts WITH
  Size <- 8, Sources <- Mixed, EolStyles <- {FALSE}, Modes <- {"replace"},
  Operations <- Getters, Count <- 2, Again <- TRUE,
  mode <- errorMode, buf <- octetsRead, call <- getter, reply <- answer
TextIgnored == INSTANCE TextPorts WITH
  Size <- 8, Sources <- BadTails, EolStyles <- {TRUE, FALSE}, Modes <- {"ignore"},
  Operations <- Getters, Count <- 2, Again <- TRUE,
  mode <- errorMode, buf <- octetsRead, call <- getter, reply <- answer
TextLines == INSTANCE TextPorts WITH
  Size <- 8, Sources <- Lines, EolStyles <- {TRUE, FALSE}, Modes <- {"replace"},
  Operations <- Getters, Count <- 2, Again <- FALSE,
  mode <- errorMode, buf <- octetsRead, call <- getter, reply <- answer
TextLinesAgain == INSTANCE TextPorts WITH
  Size <- 8, Sources <- Lines, EolStyles <- {TRUE}, Modes <- {"replace"},
  Operations <- {"get-char", "get-string-n"}, Count <- 2, Again <- TRUE,
  mode <- errorMode, buf <- octetsRead, call <- getter, reply <- answer
TextOthers == INSTANCE TextPorts WITH
  Size <- 8, Sources <- OtherTexts, EolStyles <- {TRUE, FALSE}, Modes <- {"replace"},
  Operations <- {"get-char", "get-string-n", "get-line"}, Count <- 2, Again <- FALSE,
  mode <- errorMode, buf <- octetsRead, call <- getter, reply <- answer

TextWritten == INSTANCE TextOutput WITH
  Size <- 8, Strings <- Strings, Ports <- UtfPorts, MaxChars <- 6, SwitchTo <- {},
  Again <- FALSE,
  buf <- octetsPut, device <- written, call <- putter
Latin == INSTANCE TextOutput WITH
  Size <- 8, Strings <- LatinStrings, Ports <- LatinPorts, MaxChars <- 4,
  SwitchTo <- {"line"}, Again <- TRUE,
  buf <- octetsPut, device <- written, call <- putter

\* Messages of two and three units: 1 and 2 end one together, 3 ends one alone.
Channel == INSTANCE Channels WITH
  Terminators <- {<<1, 2>>, <<3>>}, Messages <- {<<1, 1, 2>>, <<2, 3>>},
  Portions <- {<<0>>, <<1, 2>>}, MaxSize <- 3, PortionSize <- 2, MaxMessages <- 2,
  Blocking <- FALSE, Patient <- TRUE,
  buffer <- portions, reply <- answered, asked <- messages

ASSUME InputOutputAssumption ==
  /\ PortAssumptions /\ PlainUse
  /\ Partial!PortAssumptions /\ Partial!PlainUse
  /\ TextMixed!Assumptions /\ TextWritten!Assumptions

FileParts == {"file", "partial"}
TextParts == {"mixed", "ignored", "lines", "lines again", "others"}
OutParts  == {"written", "latin"}

\* The variables that a part does not have.
NoText ==
  /\ codec = 0 /\ source = 0 /\ eol = 0 /\ errorMode = 0 /\ rest = 0 /\ octetsRead = 0
  /\ ended = 0 /\ getter = 0 /\ text = 0 /\ answer = 0

NoOutput ==
  /\ port = 0 /\ octetsPut = 0 /\ written = 0 /\ putter = 0 /\ put = 0
  /\ asked = 0 /\ failed = 0

NoChannel ==
  /\ action = 0 /\ terminated = 0 /\ size = 0 /\ portions = 0 /\ time = 0
  /\ full = 0 /\ answered = 0 /\ outPort = 0 /\ coming = 0 /\ inbox = 0
  /\ closed = 0 /\ outbox = 0 /\ messages = 0 /\ taken = 0 /\ cut = 0
  /\ accepted = 0 /\ sends = 0

NoFile == PortInit /\ mode = "none" /\ file = <<1>> /\ dir = "in"

FileInit == part = "file" /\ PortInit /\ NoText /\ NoOutput /\ octets = 0 /\ NoChannel

CodesInit == part = "codes" /\ octets = <<>> /\ NoFile /\ NoText /\ NoOutput /\ NoChannel

Init ==
  \/ FileInit
  \/ part = "partial" /\ Partial!PortInit /\ NoText /\ NoOutput /\ octets = 0 /\ NoChannel
  \/ CodesInit
  \/ /\ \/ part = "mixed" /\ TextMixed!TextInit
        \/ part = "ignored" /\ TextIgnored!TextInit
        \/ part = "lines" /\ TextLines!TextInit
        \/ part = "lines again" /\ TextLinesAgain!TextInit
        \/ part = "others" /\ TextOthers!TextInit
     /\ NoFile /\ NoOutput /\ octets = 0 /\ NoChannel
  \/ /\ \/ part = "written" /\ TextWritten!OutInit
        \/ part = "latin" /\ Latin!OutInit
     /\ NoFile /\ NoText /\ octets = 0 /\ NoChannel
  \/ part = "channel" /\ Channel!ChannelInit /\ NoFile /\ NoText /\ NoOutput /\ octets = 0

OfFile == UNCHANGED <<part, textVars, outVars, octets, channelVars>>

FileStep ==
  /\ \/ part = "file" /\ PortNext
     \/ part = "partial" /\ Partial!PortNext
  /\ OfFile

TextStep ==
  /\ \/ part = "mixed" /\ TextMixed!TextNext
     \/ part = "ignored" /\ TextIgnored!TextNext
     \/ part = "lines" /\ TextLines!TextNext
     \/ part = "lines again" /\ TextLinesAgain!TextNext
     \/ part = "others" /\ TextOthers!TextNext
  /\ UNCHANGED <<part, portVars, outVars, octets, channelVars>>

OutStep ==
  /\ \/ part = "written" /\ TextWritten!OutNext
     \/ part = "latin" /\ Latin!OutNext
  /\ UNCHANGED <<part, portVars, textVars, octets, channelVars>>

CodeStep ==
  /\ part = "codes" /\ Len(octets) < 4
  /\ \E o \in CodeOctets : octets' = Append(octets, o)
  /\ UNCHANGED <<part, portVars, textVars, outVars, channelVars>>

\* Two messages at most, both ways together.
ChannelStep ==
  /\ part = "channel" /\ Channel!ChannelNext
  /\ Len(messages') + sends' <= 2
  /\ UNCHANGED <<part, portVars, textVars, outVars, octets>>

Next == FileStep \/ TextStep \/ OutStep \/ CodeStep \/ ChannelStep

Spec == Init /\ [][Next]_allVars

\* The parts file and codes by themselves; a call on a file goes on.
FairFileSpec == FileInit /\ [][FileStep]_allVars /\ WF_allVars(part = "file" /\ Works /\ OfFile)

CodesSpec == CodesInit /\ [][CodeStep]_allVars

-----------------------------------------------------------------------------
(* Properties: see the comments in the modules.  Those of binary ports are *)
(* BufferInvariant, ImplementsFile and FlushKeepsPort of BinaryPorts.      *)

\* What stands at the beginning of the octets.
Begins(enc) == Codes!Scan(enc, octets)

\* The octets BS with the bits 10 at the beginning of each but the first.
Continued(bs) == [i \in DOMAIN bs |-> IF i = 1 THEN bs[i] ELSE 128 + (bs[i] % 64)]

\* What is decoded from octets, whatever they are, is encoded by these very octets
\* but for the two leading bits of those after the first: overlong forms, surrogates
\* and code points out of range are rejected (utf-8-valid-code-point-from-*-octets?).
\* That the two bits may differ is what ContinuationsAreValid refutes.
NoSecondForm ==
  part = "codes" =>
    \A enc \in Codes!Codecs :
      LET s  == Begins(enc)
          bs == SubSeq(octets, 1, s.size)
      IN s.kind = "char" =>
           Codes!Encode(enc, s.char) = IF enc = "utf-8" THEN Continued(bs) ELSE bs

\* What is encoded is decoded, whatever octets follow (the encoders of
\* ikarus.io.writing.scm against the decoders of ikarus.io.reading.scm).
DecodesEncoded ==
  part = "codes" =>
    \A enc \in Codes!Codecs, c \in CodePoints :
      LET bs == Codes!Encode(enc, c) IN
        Codes!Encodable(enc, c) => Codes!Scan(enc, bs \o octets) = Codes!Char(c, Len(bs))

\* No octet of an encoded character is taken for the beginning of a character
\* when the octets before it are lost (UTF-8 is self-synchronizing).
Synchronizes ==
  part = "codes" =>
    \A c \in CodePoints :
      LET bs == Codes!Encode("utf-8", c) IN
        \A i \in 2 .. Len(bs) :
          Codes!Scan("utf-8", SubSeq(bs, i, Len(bs)) \o octets) = Codes!Bad(1)

\* "Evaluate to true if OCTET1 and OCTET2 are valid as second and third of 3-octets
\* UTF-8 encoding of a Unicode character" (unicode.vicare.sls:324, and line 356 of
\* four octets): no character is decoded from others.  The code tests the or of the
\* octets, and this is violated.
ContinuationsAreValid ==
  part = "codes" =>
    LET s == Begins("utf-8") IN
      s.kind = "char" => \A i \in 2 .. s.size : octets[i] \in 128 .. 191

\* What was read and what will be is the text of the device, however its
\* octets come.
ReadsTheText == part \in TextParts => TextMixed!ReadsTheText

\* lookahead-char says what the next get-char gives.
PeekIsNext == part \in {"mixed", "ignored"} => TextMixed!PeekIsNext

\* A getter answers with EOF only when there is nothing more to read.
EofIsTheEnd == part \in {"mixed", "ignored", "lines again"} => TextMixed!EofIsTheEnd

\* Where line endings are converted no carriage return comes out.
NoReturnGiven == part = "lines" => TextLines!NoReturnGiven

\* get-string-all reads until the end of file.
AllReadsToEof == part = "lines" => TextLines!AllReadsToEof

\* The device and the buffer hold together the encoding of the characters put.
NothingLost == part \in OutParts => TextWritten!NothingLost

\* A text that is written and read back is the same text.
ReadsBack == part = "written" => TextWritten!ReadsBack

\* Between calls an unbuffered port holds nothing and a line-buffered one no
\* newline.
FlushedByMode == part = "written" => TextWritten!FlushedByMode

\* Latin-1 writes the octets of the characters it has and of the question mark.
LatinReadsBack == part = "latin" => Latin!LatinReadsBack

\* A terminator is recognised in however many portions it was read, and only
\* then.
Recognises == part = "channel" => Channel!Recognises

\* The size that is checked and returned is that of the portions.
SizeOfPortions == part = "channel" => Channel!SizeOfPortions

\* Nothing of a message that ended or was aborted is left for the next one.
StartsAfresh == part = "channel" => Channel!StartsAfresh

\* A message is received as the peer sent it.
MessageWhole == part = "channel" => Channel!MessageWhole

\* When a message is sent everything that was accepted is with the peer.
WholeSent == part = "channel" => Channel!WholeSent

-----------------------------------------------------------------------------
(* What TLC checks, by component.                                          *)

\* Decoders undo encoders whatever follows; encoders undo decoders on every sequence
\* of octets but for the two leading bits of continuation octets, which the code does
\* not test one by one; no octet inside a character begins another.
EncodingInvariant == NoSecondForm /\ DecodesEncoded /\ Synchronizes

\* A text is read whole, with one linefeed for a line ending, by any getters
\* in any order; EOF is answered at the end only.
TextInvariant ==
  part \in TextParts =>
    TextMixed!TypeOK /\ ReadsTheText /\ PeekIsNext /\ EofIsTheEnd /\ NoReturnGiven /\ AllReadsToEof

\* What is written is read back, whatever was flushed in the middle of it.
OutputInvariant ==
  part \in OutParts =>
    TextWritten!TypeOK /\ NothingLost /\ ReadsBack /\ FlushedByMode /\ LatinReadsBack

\* A message is received and sent whole, once, and leaves nothing behind.
ChannelInvariant ==
  part = "channel" =>
    Channel!TypeOK /\ Recognises /\ SizeOfPortions /\ StartsAfresh /\ MessageWhole /\ WholeSent

=============================================================================
