------------------------------ MODULE Encodings ------------------------------
(***************************************************************************)
(* The encodings of textual ports: how the octets of UTF-8, UTF-16 and     *)
(* Latin-1 are decoded and encoded (vicare/unsafe/unicode and the codecs   *)
(* of ikarus.io.reading.scm, ikarus.io.writing.scm), and how a newline is  *)
(* written and the line endings are read.                                  *)
(*                                                                         *)
(* A character is its code point.  Scan says what stands at the beginning  *)
(* of octets: a character, the octets of a bad one, or too few octets.     *)
(*                                                                         *)
(* Nothing uses LaxWidth, Overlong, PairUnshifted: each is what a plausible *)
(* bug would make of the definition that follows it.                       *)
(***************************************************************************)
EXTENDS Integers, Sequences

Codecs == {"utf-8", "utf-16be", "utf-16le", "latin-1"}

Replacement == 65533

Linefeed == 10

CarriageReturn == 13

NextLine == 133

LineSeparator == 8232

-----------------------------------------------------------------------------
(* Decoding.                                                               *)

Char(c, n) == [kind |-> "char", char |-> c, size |-> n]

Bad(n) == [kind |-> "bad", char |-> Replacement, size |-> n]

\* Only octets that were read and more that have to be.
Short == [kind |-> "short", char |-> Replacement, size |-> 0]

LaxWidth(octet) ==
  CASE octet < 128 -> 1
    [] octet < 224 -> 2
    [] octet < 240 -> 3
    [] OTHER -> 4

\* The octets a UTF-8 character has by its first one; 0: none begins so.
Width(octet) ==
  CASE octet < 128 -> 1
    [] octet \in 194 .. 223 -> 2
    [] octet \in 224 .. 239 -> 3
    [] octet \in 240 .. 244 -> 4
    [] OTHER -> 0

\* The two leading bits of the octets after the first, or-ed.
Continues(octets) ==
  /\ \A i \in DOMAIN octets : octets[i] \div 64 \in {0, 2}
  /\ \E i \in DOMAIN octets : octets[i] \div 64 = 2

InvalidOctet(octet) == octet \in {192, 193} \/ octet >= 245

Overlong(c, n) ==
  /\ c \notin 55296 .. 57343
  /\ CASE n = 2 -> c <= 2047 [] n = 3 -> c <= 65535 [] n = 4 -> c <= 1114111

ValidCodePoint(c, n) ==
  CASE n = 2 -> c \in 128 .. 2047
    [] n = 3 -> c \in 2048 .. 65535 /\ c \notin 55296 .. 57343
    [] n = 4 -> c \in 65536 .. 1114111

CodePoint(octets) ==
  LET low(i) == octets[i] % 64
  IN CASE Len(octets) = 2 -> (octets[1] % 32) * 64 + low(2)
       [] Len(octets) = 3 -> (octets[1] % 16) * 4096 + low(2) * 64 + low(3)
       [] Len(octets) = 4 -> (octets[1] % 8) * 262144 + low(2) * 4096 + low(3) * 64 + low(4)

ScanUtf8(octets) ==
  LET n == Width(octets[1])
      tail == SubSeq(octets, 2, n)
      c == CodePoint(SubSeq(octets, 1, n))
  IN CASE n = 0 -> Bad(1)
       [] n = 1 -> Char(octets[1], 1)
       [] n > Len(octets) -> Short
       [] OTHER ->
            IF /\ \A i \in DOMAIN tail : ~InvalidOctet(tail[i])
               /\ Continues(tail) /\ ValidCodePoint(c, n)
              THEN Char(c, n) ELSE Bad(n)

WordAt(codec, octets, i) ==
  IF codec = "utf-16be" THEN 256 * octets[i] + octets[i + 1]
  ELSE 256 * octets[i + 1] + octets[i]

SecondOfTwoWords(word) == word \in 56320 .. 57343

ScanUtf16(codec, octets) ==
  LET word0 == WordAt(codec, octets, 1)
      word1 == WordAt(codec, octets, 3)
  IN CASE Len(octets) < 2 -> Short
       [] word0 \notin 55296 .. 57343 -> Char(word0, 2)
       [] word0 \notin 55296 .. 56319 -> Bad(2)
       [] Len(octets) < 4 -> Short
       [] SecondOfTwoWords(word1) ->
            Char(65536 + (word0 % 1024) * 1024 + (word1 % 1024), 4)
       [] OTHER -> Bad(4)

\* What OCTETS begin with.
Scan(codec, octets) ==
  CASE octets = <<>> -> Short
    [] codec = "utf-8" -> ScanUtf8(octets)
    [] codec = "latin-1" -> Char(octets[1], 1)
    [] OTHER -> ScanUtf16(codec, octets)

-----------------------------------------------------------------------------
(* Encoding.                                                               *)

EncodeUtf8(c) ==
  LET low(n) == 128 + ((c \div n) % 64)
  IN CASE c <= 127 -> <<c>>
       [] c \in 128 .. 2047 -> <<192 + c \div 64, low(1)>>
       [] c \in 2048 .. 65535 -> <<224 + c \div 4096, low(64), low(1)>>
       [] OTHER -> <<240 + c \div 262144, low(4096), low(64), low(1)>>

Word(codec, w) ==
  IF codec = "utf-16be" THEN <<w \div 256, w % 256>> ELSE <<w % 256, w \div 256>>

PairUnshifted(codec, c) ==
  IF c < 65536 THEN Word(codec, c)
  ELSE Word(codec, 55296 + ((c \div 1024) % 1024)) \o Word(codec, 56320 + (c % 1024))

EncodeUtf16(codec, c) ==
  IF c < 65536 THEN Word(codec, c)
  ELSE Word(codec, 55296 + (c - 65536) \div 1024) \o Word(codec, 56320 + ((c - 65536) % 1024))

\* put-char; a character that is none of Latin-1 is left out, replaced by a
\* question mark or raises an exception.
Encode(codec, c) ==
  CASE codec = "utf-8" -> EncodeUtf8(c)
    [] codec = "latin-1" -> <<c>>
    [] OTHER -> EncodeUtf16(codec, c)

Encodable(codec, c) == codec = "latin-1" => c <= 255

-----------------------------------------------------------------------------
(* Line endings.                                                           *)

\* The characters written for a newline.
Newline(style) ==
  CASE style \in {"none", "lf"} -> <<Linefeed>>
    [] style = "cr" -> <<CarriageReturn>>
    [] style = "crlf" -> <<CarriageReturn, Linefeed>>
    [] style = "nel" -> <<NextLine>>
    [] style = "crnel" -> <<CarriageReturn, NextLine>>
    [] style = "ls" -> <<LineSeparator>>

Styles == {"none", "lf", "cr", "crlf", "nel", "crnel", "ls"}

\* Latin-1 knows three of the styles.
Supports(codec, style) ==
  codec = "latin-1" => style \notin {"nel", "crnel", "ls"}

LineEnding(c) == c \in {Linefeed, NextLine, LineSeparator}

NewlineAfterReturn(c) == c \in {Linefeed, NextLine}

=============================================================================
