-------------------------- MODULE BinaryPorts_proofs --------------------------
(***************************************************************************)
(* What holds of binary ports for every size of buffer, every file, all    *)
(* the octets that are put and whatever part of a request the device does. *)
(*                                                                         *)
(*   BufferHolds      BufferInvariant, the inductive invariant, for all    *)
(*                    ports whose programs flush output ports only         *)
(*   PortIsFile       under PlainUse, BinaryPorts implements FilePort      *)
(*   FlushesKeepPort  under PlainUse, the property FlushKeepsPort          *)
(*                                                                         *)
(* The first part is about octets: a buffer that is overwritten, appended  *)
(* to, cut and written to a file piece by piece.  The second shows that    *)
(* each action keeps BufferInvariant.  The third shows what each does to   *)
(* the file and the position that a caller sees.                           *)
(***************************************************************************)
EXTENDS BinaryPorts, SequenceTheorems, TLAPS

-----------------------------------------------------------------------------
(* Bytes.                                                                 *)

\* What Overwritten is, octet by octet.
LEMMA OverwrittenIs ==
  ASSUME NEW S, Gap \in S, NEW f \in Seq(S), NEW at \in Nat, NEW bs \in Seq(S)
  PROVE  /\ Overwritten(f, at, bs) \in Seq(S)
         /\ Len(Overwritten(f, at, bs)) =
              IF bs # <<>> /\ at + Len(bs) > Len(f) THEN at + Len(bs) ELSE Len(f)
         /\ \A i \in 1 .. Len(Overwritten(f, at, bs)) :
              Overwritten(f, at, bs)[i] =
                IF i \in at + 1 .. at + Len(bs) THEN bs[i - at]
                ELSE IF i <= Len(f) THEN f[i] ELSE Gap
<1>1. CASE bs = <<>>
  BY <1>1 DEF Overwritten
<1>2. CASE bs # <<>>
  <2> DEFINE n == IF at + Len(bs) > Len(f) THEN at + Len(bs) ELSE Len(f)
             e(i) == IF i \in at + 1 .. at + Len(bs) THEN bs[i - at]
                     ELSE IF i <= Len(f) THEN f[i] ELSE Gap
  <2>1. n \in Nat
    BY LenProperties
  <2>2. Overwritten(f, at, bs) = [i \in 1 .. n |-> e(i)]
    BY <1>2 DEF Overwritten
  <2>3. \A i \in 1 .. n : e(i) \in S
    <3> TAKE i \in 1 .. n
    <3>1. Len(f) \in Nat /\ Len(bs) \in Nat
      BY LenProperties
    <3>2. CASE i \in at + 1 .. at + Len(bs)
      <4>1. i - at \in 1 .. Len(bs)
        BY <3>1, <3>2
      <4> QED BY <4>1, <3>2, ElementOfSeq
    <3>3. CASE i \notin at + 1 .. at + Len(bs) /\ i <= Len(f)
      <4>1. i \in 1 .. Len(f)
        BY <3>1, <3>3
      <4> QED BY <4>1, <3>3, ElementOfSeq
    <3> QED BY <3>2, <3>3
  <2> HIDE DEF n, e
  <2>4. [i \in 1 .. n |-> e(i)] \in [1 .. n -> S]
    BY <2>3
  <2>5. [i \in 1 .. n |-> e(i)] \in Seq(S)
    BY <2>1, <2>4, SeqDef
  <2>6. Len(Overwritten(f, at, bs)) = n
    <3>1. DOMAIN Overwritten(f, at, bs) = 1 .. n
      BY <2>2
    <3>2. Len(Overwritten(f, at, bs)) \in Nat /\ DOMAIN Overwritten(f, at, bs) = 1 .. Len(Overwritten(f, at, bs))
      BY <2>2, <2>5, LenProperties
    <3> QED BY <3>1, <3>2, <2>1
  <2> QED BY <2>2, <2>5, <2>6, <1>2 DEF n, e
<1> QED BY <1>1, <1>2

\* Bytes written at the end of a buffer are appended.
LEMMA OverwrittenAtEnd ==
  ASSUME NEW S, Gap \in S, NEW f \in Seq(S), NEW bs \in Seq(S)
  PROVE  Overwritten(f, Len(f), bs) = f \o bs
<1> DEFINE w == Overwritten(f, Len(f), bs)
<1>1. Len(f) \in Nat /\ Len(bs) \in Nat /\ (bs = <<>> => Len(bs) = 0)
  BY LenProperties, EmptySeq
<1>2. /\ w \in Seq(S)
      /\ Len(w) = Len(f) + Len(bs)
      /\ \A i \in 1 .. Len(w) :
           w[i] = IF i \in Len(f) + 1 .. Len(f) + Len(bs) THEN bs[i - Len(f)]
                  ELSE IF i <= Len(f) THEN f[i] ELSE Gap
  BY <1>1, OverwrittenIs, EmptySeq
<1>3. /\ f \o bs \in Seq(S)
      /\ Len(f \o bs) = Len(f) + Len(bs)
      /\ \A i \in 1 .. Len(f) + Len(bs) :
           (f \o bs)[i] = IF i <= Len(f) THEN f[i] ELSE bs[i - Len(f)]
  BY ConcatProperties
<1> HIDE DEF w
<1>4. \A i \in 1 .. Len(w) : w[i] = (f \o bs)[i]
  BY <1>1, <1>2, <1>3
<1>5. w = f \o bs
  BY <1>2, <1>3, <1>4, SeqEqual
<1> QED BY <1>5 DEF w

\* What is written before, within what is overwritten, makes no difference.
LEMMA OverwrittenTwice ==
  ASSUME NEW S, Gap \in S, NEW f \in Seq(S), NEW at \in Nat, NEW bs \in Seq(S),
         NEW part \in Seq(S), NEW from \in Nat,
         at <= from, from + Len(part) <= at + Len(bs), bs # <<>>
  PROVE  Overwritten(Overwritten(f, from, part), at, bs) = Overwritten(f, at, bs)
<1> DEFINE once == Overwritten(f, at, bs)
           first == Overwritten(f, from, part)
           twice == Overwritten(first, at, bs)
           n == Len(part)
<1>1. Len(f) \in Nat /\ Len(bs) \in Nat /\ Len(bs) > 0
  BY LenProperties, EmptySeq
<1>2. n \in Nat /\ (part = <<>> => n = 0) /\ from + n <= at + Len(bs)
  BY LenProperties, EmptySeq
<1>3. /\ once \in Seq(S)
      /\ Len(once) = IF at + Len(bs) > Len(f) THEN at + Len(bs) ELSE Len(f)
      /\ \A i \in 1 .. Len(once) :
           once[i] = IF i \in at + 1 .. at + Len(bs) THEN bs[i - at]
                     ELSE IF i <= Len(f) THEN f[i] ELSE Gap
  BY OverwrittenIs
<1> HIDE DEF once
<1>5. /\ first \in Seq(S)
      /\ Len(first) = IF part # <<>> /\ from + n > Len(f) THEN from + n ELSE Len(f)
      /\ \A i \in 1 .. Len(first) :
           first[i] = IF i \in from + 1 .. from + n THEN part[i - from]
                      ELSE IF i <= Len(f) THEN f[i] ELSE Gap
  BY <1>2, OverwrittenIs
<1> HIDE DEF first, n
<1>4. first \in Seq(S)
  BY <1>5
<1>6. /\ twice \in Seq(S)
      /\ Len(twice) = IF at + Len(bs) > Len(first) THEN at + Len(bs) ELSE Len(first)
      /\ \A i \in 1 .. Len(twice) :
           twice[i] = IF i \in at + 1 .. at + Len(bs) THEN bs[i - at]
                      ELSE IF i <= Len(first) THEN first[i] ELSE Gap
  BY <1>4, OverwrittenIs
<1> HIDE DEF twice
<1>7. Len(twice) = Len(once)
  <2>1. /\ Len(once) = IF at + Len(bs) > Len(f) THEN at + Len(bs) ELSE Len(f)
        /\ Len(first) = IF part # <<>> /\ from + n > Len(f) THEN from + n ELSE Len(f)
        /\ Len(twice) = IF at + Len(bs) > Len(first) THEN at + Len(bs) ELSE Len(first)
    BY <1>3, <1>5, <1>6
  <2>2. PICK l, k : l = Len(f) /\ k = at + Len(bs)
    OBVIOUS
  <2>3. l \in Nat /\ k \in Nat /\ n \in Nat /\ from + n <= k /\ (part = <<>> => n = 0)
    BY <1>1, <1>2, <2>2
  <2>4. Len(first) \in {l, from + n} /\ (Len(first) = l \/ from + n > l)
    BY <2>1, <2>2
  <2>5. /\ Len(once) = IF k > l THEN k ELSE l
        /\ Len(twice) = IF k > Len(first) THEN k ELSE Len(first)
    BY <2>1, <2>2
  <2>6. CASE Len(first) = l
    BY <2>5, <2>6
  <2>7. CASE Len(first) = from + n /\ from + n > l
    BY <2>3, <2>5, <2>7
  <2> QED BY <2>4, <2>6, <2>7
<1>8. ASSUME NEW i \in 1 .. Len(twice) PROVE twice[i] = once[i]
  <2>1. i \in 1 .. Len(once) /\ i \in Nat
    BY <1>7
  <2>2. CASE i \in at + 1 .. at + Len(bs)
    BY <1>3, <1>6, <2>1, <2>2
  <2>3. CASE i \notin at + 1 .. at + Len(bs)
    <3>1. /\ once[i] = IF i <= Len(f) THEN f[i] ELSE Gap
          /\ twice[i] = IF i <= Len(first) THEN first[i] ELSE Gap
      BY <1>3, <1>6, <2>1, <2>3
    <3>2. i \notin from + 1 .. from + n
      BY <1>1, <1>2, <2>1, <2>3
    <3>3. i \in 1 .. Len(first) => first[i] = IF i <= Len(f) THEN f[i] ELSE Gap
      BY <1>5, <3>2
    <3>4. i <= Len(f) => i <= Len(first)
      BY <1>1, <1>2, <1>5, <2>1
    <3> QED BY <2>1, <3>1, <3>3, <3>4
  <2> QED BY <2>2, <2>3
<1>9. twice = once
  BY <1>3, <1>6, <1>7, <1>8, SeqEqual
<1> QED BY <1>9 DEF twice, once, first

\* The octets appended to a buffer are written behind it.
LEMMA OverwrittenAppended ==
  ASSUME NEW S, Gap \in S, NEW f \in Seq(S), NEW at \in Nat, NEW b \in Seq(S),
         NEW d \in Seq(S), d # <<>>
  PROVE  Overwritten(f, at, b \o d) = Overwritten(Overwritten(f, at, b), at + Len(b), d)
<1> DEFINE bd == b \o d
           once == Overwritten(f, at, bd)
           first == Overwritten(f, at, b)
           twice == Overwritten(first, at + Len(b), d)
<1>1. Len(f) \in Nat /\ Len(b) \in Nat /\ Len(d) \in Nat /\ Len(d) > 0
  BY LenProperties, EmptySeq
<1>2. /\ bd \in Seq(S) /\ Len(bd) = Len(b) + Len(d) /\ bd # <<>>
      /\ \A i \in 1 .. Len(b) + Len(d) : bd[i] = IF i <= Len(b) THEN b[i] ELSE d[i - Len(b)]
  BY <1>1, ConcatProperties, EmptySeq
<1> HIDE DEF bd
<1>a. bd \in Seq(S) /\ bd # <<>>
  BY <1>2
<1>3. /\ once \in Seq(S)
      /\ Len(once) = IF at + Len(bd) > Len(f) THEN at + Len(bd) ELSE Len(f)
      /\ \A i \in 1 .. Len(once) :
           once[i] = IF i \in at + 1 .. at + Len(bd) THEN bd[i - at]
                     ELSE IF i <= Len(f) THEN f[i] ELSE Gap
  BY <1>a, OverwrittenIs
<1>4. at + Len(b) \in Nat /\ (b = <<>> => Len(b) = 0)
  BY <1>1, EmptySeq
<1>5. /\ first \in Seq(S)
      /\ Len(first) = IF b # <<>> /\ at + Len(b) > Len(f) THEN at + Len(b) ELSE Len(f)
      /\ \A i \in 1 .. Len(first) :
           first[i] = IF i \in at + 1 .. at + Len(b) THEN b[i - at]
                      ELSE IF i <= Len(f) THEN f[i] ELSE Gap
  BY OverwrittenIs
<1> HIDE DEF first, once
<1>6. /\ twice \in Seq(S)
      /\ Len(twice) = IF at + Len(b) + Len(d) > Len(first) THEN at + Len(b) + Len(d)
                      ELSE Len(first)
      /\ \A i \in 1 .. Len(twice) :
           twice[i] = IF i \in at + Len(b) + 1 .. at + Len(b) + Len(d)
                      THEN d[i - (at + Len(b))]
                      ELSE IF i <= Len(first) THEN first[i] ELSE Gap
  BY <1>4, <1>5, OverwrittenIs
<1> HIDE DEF twice
<1>7. Len(twice) = Len(once)
  BY <1>1, <1>2, <1>3, <1>4, <1>5, <1>6
<1>8. ASSUME NEW i \in 1 .. Len(twice) PROVE twice[i] = once[i]
  <2>1. CASE i \in at + Len(b) + 1 .. at + Len(b) + Len(d)
    <3>1. i - at \in 1 .. Len(b) + Len(d) /\ i - at > Len(b)
      BY <1>1, <2>1
    <3>2. i \in at + 1 .. at + Len(bd) /\ i \in 1 .. Len(once)
      BY <1>1, <1>2, <1>3, <1>7, <2>1
    <3>3. once[i] = bd[i - at]
      BY <1>3, <3>2
    <3>4. bd[i - at] = d[(i - at) - Len(b)]
      <4>1. bd[i - at] = IF i - at <= Len(b) THEN b[i - at] ELSE d[(i - at) - Len(b)]
        BY <1>2, <3>1
      <4>2. ~ (i - at <= Len(b))
        BY <1>1, <2>1
      <4> QED BY <4>1, <4>2
    <3>5. (i - at) - Len(b) = i - (at + Len(b))
      BY <1>1, <2>1
    <3>6. twice[i] = d[i - (at + Len(b))]
      BY <1>6, <2>1
    <3> QED BY <3>3, <3>4, <3>5, <3>6
  <2>2. CASE i \in at + 1 .. at + Len(b)
    <3>1. i - at \in 1 .. Len(b) + Len(d) /\ i - at <= Len(b)
      BY <1>1, <2>2
    <3>2. i \in at + 1 .. at + Len(bd) /\ i \in 1 .. Len(once)
      BY <1>1, <1>2, <1>3, <1>7, <2>2
    <3>3. once[i] = bd[i - at]
      BY <1>3, <3>2
    <3>4. bd[i - at] = b[i - at]
      BY <1>2, <3>1
    <3>5. b # <<>>
      BY <1>1, <1>4, <2>2
    <3>6. i \in 1 .. Len(first)
      BY <1>1, <1>5, <2>2, <3>5
    <3>7. i \notin at + Len(b) + 1 .. at + Len(b) + Len(d)
      BY <1>1, <2>2
    <3>8. twice[i] = first[i]
      <4>1. i <= Len(first)
        BY <1>5, <3>6
      <4> QED BY <1>6, <3>7, <4>1
    <3>9. first[i] = b[i - at]
      BY <1>5, <2>2, <3>6
    <3> QED BY <3>3, <3>4, <3>8, <3>9
  <2>3. CASE i \notin at + 1 .. at + Len(b) + Len(d)
    <3>1. once[i] = IF i <= Len(f) THEN f[i] ELSE Gap
      BY <1>1, <1>2, <1>3, <1>7, <2>3
    <3>2. twice[i] = IF i <= Len(first) THEN first[i] ELSE Gap
      <4>1. i \notin at + Len(b) + 1 .. at + Len(b) + Len(d)
        BY <1>1, <2>3
      <4> QED BY <1>6, <4>1
    <3>3. i <= Len(first) => first[i] = IF i <= Len(f) THEN f[i] ELSE Gap
      <4>1. i \notin at + 1 .. at + Len(b)
        BY <1>1, <2>3
      <4> QED BY <1>5, <4>1
    <3>4. i > Len(first) => i > Len(f)
      BY <1>1, <1>5
    <3> QED BY <1>1, <1>5, <3>1, <3>2, <3>3, <3>4
  <2> QED BY <1>1, <2>1, <2>2, <2>3
<1>9. twice = once
  BY <1>3, <1>6, <1>7, <1>8, SeqEqual
<1> QED BY <1>9 DEF twice, once, first, bd

\* What was written can be read.
IsPart(bs, w, at) == bs = SubSeq(w, at + 1, at + Len(bs))

LEMMA OverwrittenPart ==
  ASSUME NEW S, Gap \in S, NEW f \in Seq(S), NEW at \in Nat, NEW bs \in Seq(S), bs # <<>>
  PROVE  /\ at + Len(bs) <= Len(Overwritten(f, at, bs))
         /\ IsPart(bs, Overwritten(f, at, bs), at)
<1> DEFINE w == Overwritten(f, at, bs)
           part == SubSeq(w, at + 1, at + Len(bs))
<1>1. Len(f) \in Nat /\ Len(bs) \in Nat /\ Len(bs) > 0
  BY LenProperties, EmptySeq
<1>2. /\ w \in Seq(S) /\ at + Len(bs) <= Len(w)
      /\ \A i \in at + 1 .. at + Len(bs) : i \in 1 .. Len(w) /\ w[i] = bs[i - at]
  BY <1>1, OverwrittenIs
<1> HIDE DEF w
<1>3. \A i \in at + 1 .. at + Len(bs) : w[i] \in S
  BY <1>2, ElementOfSeq
<1>4. at + 1 \in Int /\ at + Len(bs) \in Int
  BY <1>1
<1>5. /\ part \in Seq(S) /\ Len(part) = Len(bs)
      /\ \A i \in 1 .. Len(bs) : part[i] = w[i + at]
  <2>1. /\ part \in Seq(S)
        /\ Len(part) = IF at + 1 <= at + Len(bs) THEN (at + Len(bs)) - (at + 1) + 1 ELSE 0
        /\ \A i \in 1 .. (at + Len(bs)) - (at + 1) + 1 : part[i] = w[(at + 1) + i - 1]
    BY <1>3, <1>4, SubSeqProperties
  <2> HIDE DEF part
  <2> QED BY <1>1, <2>1
<1> HIDE DEF part
<1>6. ASSUME NEW i \in 1 .. Len(part) PROVE part[i] = bs[i]
  <2>1. i + at \in at + 1 .. at + Len(bs) /\ (i + at) - at = i
    BY <1>1, <1>5
  <2>2. w[i + at] = bs[(i + at) - at]
    BY <1>2, <2>1
  <2> QED BY <1>5, <2>1, <2>2
<1>7. part = bs
  BY <1>5, <1>6, SeqEqual
<1>8. IsPart(bs, w, at)
  BY <1>7, Zenon DEF part, IsPart
<1> QED BY <1>2, <1>8 DEF w

-----------------------------------------------------------------------------
(* The buffer.                                                             *)

Bytes == Octet \cup {Gap}

\* What is copied into the buffer fits, and is appended at its end.
LEMMA CopiedFits ==
  ASSUME TypeOK, NEW count \in 0 .. Len(call.data), index + count <= Size, Copied(count)
  PROVE  /\ buf' \in Seq(Bytes) /\ Len(buf') <= Size
         /\ index' \in 0 .. Len(buf')
         /\ buf' = <<>> => buf = <<>> /\ count = 0
         /\ count = 0 => buf' = buf
         /\ index = Used => /\ index' = Len(buf')
                            /\ buf' = buf \o SubSeq(call.data, 1, count)
         /\ SubSeq(call.data, 1, count) \in Seq(Octet)
         /\ Len(SubSeq(call.data, 1, count)) = count
<1> DEFINE some == SubSeq(call.data, 1, count)
<1>1. /\ buf \in Seq(Bytes) /\ Used \in Nat /\ index \in Nat /\ index <= Used
      /\ Used <= Size /\ call.data \in Seq(Octet) /\ Len(call.data) \in Nat
      /\ Used = Len(buf) /\ index + count <= Size
      /\ (buf = <<>> <=> Used = 0)
  BY LenProperties, EmptySeq DEF TypeOK, Used, Bytes
<1>2. some \in Seq(Octet) /\ Len(some) = count
  <2>1. \A i \in 1 .. count : call.data[i] \in Octet
    BY <1>1, ElementOfSeq
  <2>2. some \in Seq(Octet) /\ Len(some) = IF 1 <= count THEN count - 1 + 1 ELSE 0
    BY <2>1, SubSeqProperties
  <2> HIDE DEF some
  <2> QED BY <2>2
<1>3. some \in Seq(Bytes) /\ (some = <<>> <=> count = 0)
  BY <1>2, SeqMonotonic, EmptySeq DEF Bytes
<1>4. buf' = Overwritten(buf, index, some) /\ index' = index + count
  BY DEF Copied
<1> HIDE DEF some
<1>5. /\ buf' \in Seq(Bytes)
      /\ Len(buf') = IF some # <<>> /\ index + Len(some) > Len(buf) THEN index + Len(some)
                     ELSE Len(buf)
  BY <1>1, <1>3, <1>4, OverwrittenIs DEF Bytes
<1>6. Len(buf') <= Size /\ index' \in 0 .. Len(buf')
  BY <1>1, <1>2, <1>3, <1>4, <1>5
<1>7. buf' = <<>> => buf = <<>> /\ count = 0
  <2>1. buf' = <<>> => Len(buf') = 0
    BY EmptySeq
  <2> QED BY <1>1, <1>2, <1>3, <1>5, <2>1
<1>8. count = 0 => buf' = buf
  BY <1>3, <1>4 DEF Overwritten
<1>9. index = Used => index' = Len(buf') /\ buf' = buf \o some
  <2> SUFFICES ASSUME index = Used PROVE index' = Len(buf') /\ buf' = buf \o some
    OBVIOUS
  <2>1. buf' = buf \o some
    BY <1>1, <1>3, <1>4, OverwrittenAtEnd DEF Bytes
  <2>2. index' = Len(buf')
    BY <1>1, <1>2, <1>3, <1>4, <1>5
  <2> QED BY <2>1, <2>2
<1> QED BY <1>2, <1>5, <1>6, <1>7, <1>8, <1>9 DEF some

\* What is left in the buffer of a port used for input.
LEMMA UnreadIs ==
  ASSUME TypeOK, BufferIsFile, dir = "in"
  PROVE  /\ Unread \in Seq(Bytes)
         /\ Len(Unread) = Used - index
         /\ Seekable => /\ EndsAt(file, pos, Unread)
                        /\ Unread # <<>> => pos <= Len(file)
<1>1. /\ buf \in Seq(Bytes) /\ Used \in Nat /\ index \in Nat /\ index <= Used
      /\ Used = Len(buf) /\ pos \in Nat /\ Used <= pos
      /\ file \in Seq(Bytes) /\ Len(file) \in Nat
  BY LenProperties DEF TypeOK, Used, Bytes, BufferIsFile
<1>2. Unread \in Seq(Bytes) /\ Len(Unread) = Used - index
      /\ \A i \in 1 .. Used - index : Unread[i] = buf[index + i]
  <2>1. \A i \in index + 1 .. Used : buf[i] \in Bytes
    BY <1>1, ElementOfSeq
  <2>2. index + 1 \in Int /\ Used \in Int
    BY <1>1
  <2>3. /\ Unread \in Seq(Bytes)
        /\ Len(Unread) = IF index + 1 <= Used THEN Used - (index + 1) + 1 ELSE 0
        /\ \A i \in 1 .. Used - (index + 1) + 1 : Unread[i] = buf[(index + 1) + i - 1]
    BY <2>1, <2>2, SubSeqProperties DEF Unread
  <2> QED BY <1>1, <2>3
<1>3. ASSUME Seekable PROVE EndsAt(file, pos, Unread)
  <2> DEFINE last == SubSeq(file, pos - (Used - index) + 1, pos)
             all == SubSeq(file, pos - Used + 1, pos)
  <2>1. CASE Unread = <<>>
    <3>1. Len(Unread) = 0
      BY <2>1, EmptySeq
    <3>2. pos - Len(Unread) + 1 \in Int /\ pos \in Int /\ pos < pos - Len(Unread) + 1
      BY <3>1, <1>1
    <3> QED BY <2>1, <3>2, SubSeqEmpty DEF EndsAt
  <2>2. CASE Unread # <<>>
    <3>1. buf # <<>> /\ Used > 0
      <4>1. Len(Unread) \in Nat \ {0}
        BY <1>2, <2>2, EmptySeq
      <4>2. Used > 0
        BY <4>1, <1>1, <1>2
      <4> QED BY <4>2, <1>1, EmptySeq
    <3>2. buf = all /\ pos <= Len(file)
      BY <1>3, <3>1 DEF BufferIsFile, EndsAt, Used
    <3>3. \A i \in pos - Used + 1 .. pos : file[i] \in Bytes
      BY <1>1, <3>2, ElementOfSeq
    <3>4. \A i \in pos - (Used - index) + 1 .. pos : file[i] \in Bytes
      BY <1>1, <3>3
    <3>5. /\ pos - Used + 1 \in Int /\ pos \in Int /\ pos - (Used - index) + 1 \in Int
      BY <1>1
    <3>6. \A i \in 1 .. pos - (pos - Used + 1) + 1 : all[i] = file[(pos - Used + 1) + i - 1]
      BY <3>3, <3>5, SubSeqProperties
    <3>7. /\ last \in Seq(Bytes)
          /\ Len(last) = IF pos - (Used - index) + 1 <= pos
                         THEN pos - (pos - (Used - index) + 1) + 1 ELSE 0
          /\ \A i \in 1 .. pos - (pos - (Used - index) + 1) + 1 :
               last[i] = file[(pos - (Used - index) + 1) + i - 1]
      BY <3>4, <3>5, SubSeqProperties
    <3> HIDE DEF last, all
    <3>8. Len(last) = Used - index
      BY <3>7, <1>1
    <3>9. ASSUME NEW i \in 1 .. Len(Unread) PROVE Unread[i] = last[i]
      <4>1. i \in 1 .. Used - index
        BY <1>1, <1>2
      <4>2. Unread[i] = buf[index + i]
        BY <1>2, <4>1
      <4>3. index + i \in 1 .. pos - (pos - Used + 1) + 1
        BY <1>1, <4>1
      <4>4. buf[index + i] = file[(pos - Used + 1) + (index + i) - 1]
        BY <3>2, <3>6, <4>3
      <4>5. i \in 1 .. pos - (pos - (Used - index) + 1) + 1
        BY <1>1, <4>1
      <4>6. last[i] = file[(pos - (Used - index) + 1) + i - 1]
        BY <3>7, <4>5
      <4>7. (pos - Used + 1) + (index + i) - 1 = (pos - (Used - index) + 1) + i - 1
        BY <1>1, <4>1
      <4> QED BY <4>2, <4>4, <4>6, <4>7
    <3>10. Unread = last
      BY <1>2, <3>7, <3>8, <3>9, SeqEqual
    <3> QED BY <1>2, <3>10 DEF last, EndsAt
  <2> QED BY <2>1, <2>2
<1>4. ASSUME Seekable, Unread # <<>> PROVE pos <= Len(file)
  <2>1. Len(Unread) \in Nat \ {0}
    BY <1>2, <1>4, EmptySeq
  <2>2. Used > 0
    BY <2>1, <1>1, <1>2
  <2>3. buf # <<>>
    BY <2>2, <1>1, EmptySeq
  <2> QED BY <1>4, <2>3 DEF BufferIsFile
<1> QED BY <1>2, <1>3, <1>4

\* A part of a file that goes up to a position ends there.
LEMMA EndsAtFrom ==
  ASSUME NEW f, NEW p, NEW bs, NEW m, m = p - Len(bs) + 1, bs = SubSeq(f, m, p)
  PROVE  EndsAt(f, p, bs)
  BY Zenon DEF EndsAt

\* What is read from the device follows what is left in the buffer.
LEMMA RefilledIs ==
  ASSUME PortAssumptions, TypeOK, BufferIsFile, CookieTracksDevice, dir = "in", NEW n \in Nat,
         fpos + n <= Len(file), n > 0
  PROVE  LET filled == Shifted \o SubSeq(file, fpos + 1, fpos + n)
         IN /\ filled \in Seq(Bytes) /\ Len(filled) = Len(Shifted) + n
            /\ Seekable => EndsAt(file, pos + n, filled)
<1> DEFINE read == SubSeq(file, fpos + 1, fpos + n)
           filled == Shifted \o read
<1>1. /\ Used \in Nat /\ index \in Nat /\ index <= Used /\ pos \in Nat /\ Used <= pos
      /\ file \in Seq(Bytes) /\ Len(file) \in Nat /\ fpos \in Nat
  BY LenProperties DEF TypeOK, Used, Bytes, BufferIsFile
<1>2. /\ Shifted \in Seq(Bytes) /\ Len(Shifted) = Used - index
      /\ Seekable => EndsAt(file, pos, Shifted)
  BY UnreadIs DEF Shifted
<1>3. read \in Seq(Bytes) /\ Len(read) = n
  <2>1. \A i \in fpos + 1 .. fpos + n : file[i] \in Bytes
    BY <1>1, ElementOfSeq
  <2>2. fpos + 1 \in Int /\ fpos + n \in Int
    BY <1>1
  <2>3. /\ read \in Seq(Bytes)
        /\ Len(read) = IF fpos + 1 <= fpos + n THEN (fpos + n) - (fpos + 1) + 1 ELSE 0
    BY <2>1, <2>2, SubSeqProperties
  <2> HIDE DEF read
  <2> QED BY <1>1, <2>3
<1>4. filled \in Seq(Bytes) /\ Len(filled) = Len(Shifted) + n
  <2> HIDE DEF read
  <2> QED BY <1>2, <1>3, ConcatProperties
<1>5. ASSUME Seekable PROVE EndsAt(file, pos + n, filled)
  <2> DEFINE m == pos - Len(Shifted) + 1
  <2>1. pos = fpos
    BY <1>5 DEF CookieTracksDevice
  <2>2. /\ m \in 1 .. Len(file) + 1
        /\ pos \in m - 1 .. Len(file)
        /\ pos + n \in pos .. Len(file)
    BY <1>1, <1>2, <2>1
  <2>3. SubSeq(file, m, pos) \o SubSeq(file, pos + 1, pos + n) = SubSeq(file, m, pos + n)
    <3> HIDE DEF m
    <3> QED BY <1>1, <2>2, ConcatAdjacentSubSeq
  <2>4. m = (pos + n) - Len(filled) + 1
    <3> HIDE DEF filled
    <3> QED BY <1>1, <1>2, <1>4
  <2>5. filled = SubSeq(file, m, pos) \o SubSeq(file, pos + 1, pos + n)
    BY <1>2, <1>5, <2>1 DEF EndsAt
  <2>6. filled = SubSeq(file, m, pos + n)
    BY <2>3, <2>5
  <2> HIDE DEF m, filled
  <2> QED BY <2>4, <2>6, EndsAtFrom, Zenon
<1> QED BY <1>4, <1>5

-----------------------------------------------------------------------------
(* The invariant, one action at a time.                                    *)

\* The types that arithmetic needs.
LEMMA Types ==
  ASSUME TypeOK
  PROVE  /\ buf \in Seq(Bytes) /\ file \in Seq(Bytes)
         /\ Len(file) \in Nat /\ Used \in Nat /\ Len(buf) = Used
         /\ (buf = <<>> <=> Used = 0)
         /\ index \in Nat /\ index <= Used /\ offset \in Nat /\ offset <= Used
         /\ pos \in Nat /\ fpos \in Nat
  BY LenProperties, EmptySeq DEF TypeOK, Used, Bytes

\* The numbers among them, for the steps of arithmetic.
LEMMA Numbers ==
  ASSUME TypeOK
  PROVE  /\ Len(file) \in Nat /\ Used \in Nat /\ index \in Nat /\ index <= Used
         /\ offset \in Nat /\ offset <= Used /\ pos \in Nat /\ fpos \in Nat
  BY Types

\* An empty buffer is the part of any file before any position.
LEMMA EmptyPart ==
  ASSUME NEW f, NEW p \in Nat
  PROVE  EndsAt(f, p, <<>>)
<1>1. Len(<<>>) = 0
  BY EmptySeq
<1>2. p - 0 + 1 \in Int /\ p \in Int /\ p < p - 0 + 1
  OBVIOUS
<1> QED BY <1>1, <1>2, SubSeqEmpty DEF EndsAt

LEMMA InitInvariant ==
  ASSUME PortAssumptions, PortInit
  PROVE  BufferInvariant
<1>1. file \in Seq(Octet \cup {Gap})
  BY SeqMonotonic DEF PortInit, PortAssumptions
<1>2. buf = <<>> /\ Used = 0 /\ buf \in Seq(Octet \cup {Gap})
  BY EmptySeq DEF PortInit, Used
<1>3. call \in [op : Calls \cup {"none"}, data : Seq(Octet), count : Nat, to : Nat]
  BY EmptySeq DEF PortInit, NoCall
<1>4. TypeOK
  <2>1. Used <= Size /\ index \in 0 .. Used /\ offset \in 0 .. Used
    BY <1>2 DEF PortInit, PortAssumptions
  <2> QED BY <1>1, <1>2, <1>3, <2>1 DEF TypeOK, PortInit
<1>5. BufferIsFile
  <2>1. EndsAt(file, 0, <<>>)
    BY EmptyPart
  <2> QED BY <1>2, <2>1 DEF BufferIsFile, PortInit
<1>6. CookieTracksDevice /\ FlushIsOutput
  BY DEF CookieTracksDevice, FlushIsOutput, PortInit, NoCall
<1>7. OutputAtEnd
  BY <1>2 DEF OutputAtEnd, PortInit, NoCall, Gets, Looks
<1> QED BY <1>4, <1>5, <1>6, <1>7 DEF BufferInvariant

LEMMA FlushWriteStep ==
  ASSUME PortAssumptions, BufferInvariant, FlushWrite
  PROVE  BufferInvariant'
<1> USE DEF BufferInvariant
<1>1. PICK n \in 0 .. Used - offset :
        /\ Written(n)
        /\ file' = Overwritten(file, fpos, SubSeq(buf, offset + 1, offset + n))
        /\ fpos' = fpos + n /\ pos' = Advanced(n)
        /\ IF WholeBuffer(n)
             THEN /\ buf' = <<>> /\ index' = 0 /\ offset' = 0
                  /\ flushing' = FALSE
                  /\ call' = IF call.op = "flush-output-port" THEN NoCall ELSE call
             ELSE /\ offset' = OffsetAfter(n)
                  /\ UNCHANGED <<buffer, flushing, call>>
  BY DEF FlushWrite
<1>2. flushing /\ UNCHANGED <<mode, dir, open, reply>>
  BY DEF FlushWrite
<1>3. /\ dir = "out" /\ buf # <<>> /\ call.op # "none" /\ open /\ offset <= pos
      /\ call \in [op : Calls \cup {"none"}, data : Seq(Octet), count : Nat, to : Nat]
      /\ call.op = "put-bytevector" => dir = "out"
  BY <1>2 DEF FlushIsOutput, TypeOK
<1>4. file' \in Seq(Octet \cup {Gap})
  <2> DEFINE some == SubSeq(buf, offset + 1, offset + n)
  <2>1. \A i \in offset + 1 .. offset + n : buf[i] \in Bytes
    BY Types, ElementOfSeq
  <2>2. offset + 1 \in Int /\ offset + n \in Int
    BY Types
  <2>3. some \in Seq(Bytes)
    BY <2>1, <2>2, SubSeqProperties
  <2> HIDE DEF some
  <2>4. Gap \in Bytes /\ fpos \in Nat /\ file \in Seq(Bytes)
    BY Types DEF Bytes
  <2>5. Overwritten(file, fpos, some) \in Seq(Bytes)
    BY <2>3, <2>4, OverwrittenIs
  <2> QED BY <1>1, <2>5 DEF some, Bytes
<1>5. fpos' \in Nat /\ pos' \in Nat /\ pos' = pos + n /\ (Seekable => pos' = fpos')
  <2>1. fpos' = fpos + n /\ pos' = pos + n
    BY <1>1 DEF Advanced
  <2>2. n \in Nat /\ (Seekable => pos = fpos)
    BY <1>1 DEF CookieTracksDevice
  <2> QED BY <2>1, <2>2, Numbers
<1>6. CASE WholeBuffer(n)
  <2>1. /\ buf' = <<>> /\ index' = 0 /\ offset' = 0 /\ flushing' = FALSE
        /\ call' = IF call.op = "flush-output-port" THEN NoCall ELSE call
    BY <1>1, <1>6
  <2>2. n = Used /\ offset = 0
    BY <1>6, Types DEF WholeBuffer
  <2>3. call' \in [op : Calls \cup {"none"}, data : Seq(Octet), count : Nat, to : Nat]
    BY <1>3, <2>1, EmptySeq DEF NoCall
  <2>4. buf' \in Seq(Octet \cup {Gap}) /\ Used' = 0
    BY <2>1, EmptySeq DEF Used
  <2>5. TypeOK'
    <3>1. Used' <= Size /\ index' \in 0 .. Used' /\ offset' \in 0 .. Used'
      BY <2>1, <2>4 DEF PortAssumptions
    <3> QED BY <1>2, <1>4, <1>5, <2>1, <2>3, <2>4, <3>1 DEF TypeOK
  <2>6. CookieTracksDevice' /\ BufferIsFile'
    BY <1>2, <1>3, <1>5 DEF CookieTracksDevice, BufferIsFile
  <2>7. FlushIsOutput'
    BY <1>2, <1>3, <1>5, <2>1 DEF FlushIsOutput, NoCall
  <2>8. OutputAtEnd'
    <3> SUFFICES ASSUME ~Rewinds, ~Resets PROVE OutputAtEnd'
      BY DEF OutputAtEnd
    <3>1. /\ index = Used
          /\ call.op \in Gets \cup Looks => call.to = PortPosition
      BY <1>3 DEF OutputAtEnd
    <3>2. PortPosition' = PortPosition
      BY <1>2, <1>3, <1>5, <2>1, <2>2, <3>1, Types DEF PortPosition
    <3>3. call'.op \in Gets \cup Looks => call' = call
      BY <2>1 DEF NoCall, Gets, Looks
    <3> QED BY <2>1, <2>4, <3>1, <3>2, <3>3 DEF OutputAtEnd
  <2> QED BY <2>5, <2>6, <2>7, <2>8
<1>7. CASE ~WholeBuffer(n)
  <2>1. offset' = offset + n /\ UNCHANGED <<buf, index, flushing, call>>
    BY <1>1, <1>7 DEF OffsetAfter, buffer
  <2>2. Used' = Used /\ offset' \in 0 .. Used
    BY <2>1, Types DEF Used
  <2>3. TypeOK'
    BY <1>2, <1>4, <1>5, <2>1, <2>2 DEF TypeOK
  <2>4. CookieTracksDevice' /\ BufferIsFile'
    BY <1>2, <1>3, <1>5 DEF CookieTracksDevice, BufferIsFile
  <2>5. FlushIsOutput'
    <3>1. offset' <= pos'
      <4>1. offset <= pos /\ offset' = offset + n /\ pos' = pos + n /\ n \in Nat
        BY <1>1, <1>3, <1>5, <2>1
      <4> QED BY <4>1, Numbers
    <3> QED BY <1>2, <1>3, <2>1, <3>1 DEF FlushIsOutput
  <2>6. OutputAtEnd'
    <3>1. PortPosition' = PortPosition
      <4>1. dir = "out" /\ dir' = "out" /\ n \in Nat
        BY <1>1, <1>2, <1>3
      <4>2. pos' = pos + n /\ offset' = offset + n /\ index' = index
        BY <1>5, <2>1
      <4> QED BY <4>1, <4>2, Numbers DEF PortPosition
    <3> QED BY <1>2, <2>1, <2>2, <3>1 DEF OutputAtEnd
  <2> QED BY <2>3, <2>4, <2>5, <2>6
<1> QED BY <1>6, <1>7

LEMMA FlushRaisesStep ==
  ASSUME BufferInvariant, FlushRaises
  PROVE  BufferInvariant'
<1> USE DEF BufferInvariant
<1>1. /\ flushing /\ flushing' = FALSE /\ offset' = 0 /\ call' = NoCall
      /\ UNCHANGED <<mode, file, fpos, pos, buf, index, dir, open, reply>>
  BY DEF FlushRaises, device, buffer
<1>2. dir = "out" /\ open
  BY <1>1 DEF FlushIsOutput
<1>3. Used' = Used
  BY <1>1 DEF Used
<1>4. TypeOK'
  <2>1. call' \in [op : Calls \cup {"none"}, data : Seq(Octet), count : Nat, to : Nat]
    BY <1>1, EmptySeq DEF NoCall
  <2>2. offset' \in 0 .. Used
    BY <1>1, Types
  <2> QED BY <1>1, <1>3, <2>1, <2>2 DEF TypeOK
<1>5. CookieTracksDevice' /\ BufferIsFile'
  BY <1>1, <1>2 DEF CookieTracksDevice, BufferIsFile
<1>6. FlushIsOutput'
  BY <1>1, <1>2, Types DEF FlushIsOutput, NoCall
<1>7. OutputAtEnd'
  BY <1>1, <1>2, <1>3 DEF OutputAtEnd, NoCall, Gets, Looks
<1> QED BY <1>4, <1>5, <1>6, <1>7

\* A call is begun with a flush, or with an empty buffer.
LEMMA FlushStarts ==
  ASSUME BufferInvariant, ~flushing, StartsFlush, open, dir = "out",
         UNCHANGED <<mode, file, fpos, pos, buf, index, dir, open, reply>>,
         call' \in [op : Calls \cup {"none"}, data : Seq(Octet), count : Nat, to : Nat],
         call'.op # "none",
         call'.op \in Gets \cup Looks => call'.to = PortPosition
  PROVE  BufferInvariant'
<1> USE DEF BufferInvariant
<1>1. offset' = 0 /\ flushing' = (buf # <<>>) /\ offset = 0
  BY DEF StartsFlush, FlushIsOutput
<1>2. Used' = Used /\ PortPosition' = PortPosition
  BY <1>1 DEF Used, PortPosition
<1>3. TypeOK'
  <2>1. offset' \in 0 .. Used /\ flushing' \in BOOLEAN
    BY <1>1, Types
  <2> QED BY <1>2, <2>1 DEF TypeOK
<1>4. CookieTracksDevice' /\ BufferIsFile'
  BY DEF CookieTracksDevice, BufferIsFile
<1>5. FlushIsOutput'
  BY <1>1, Types DEF FlushIsOutput
<1>6. OutputAtEnd'
  <2>1. buf' = buf
    OBVIOUS
  <2> QED BY <1>1, <1>2, <2>1 DEF OutputAtEnd
<1> QED BY <1>3, <1>4, <1>5, <1>6

CallType == [op : Calls \cup {"none"}, data : Seq(Octet), count : Nat, to : Nat]

LEMMA NoCallType == NoCall \in CallType /\ NoCall.op = "none"
  BY EmptySeq DEF NoCall, CallType

\* A step that changes the call under way and the answer only.
LEMMA CallMoves ==
  ASSUME BufferInvariant, call' \in CallType,
         UNCHANGED <<mode, file, fpos, pos, buf, index, dir, open, flushing, offset>>,
         call'.op # "none" => open,
         flushing => call'.op # "none",
         call'.op = "put-bytevector" => dir = "out",
         call'.op \in {"set-port-position!", "close-port"} /\ ~flushing /\ dir = "out" =>
           buf = <<>>,
         call'.op \in Gets \cup Looks /\ dir = "out" => call'.to = PortPosition
  PROVE  BufferInvariant'
<1> USE DEF BufferInvariant
<1>1. Used' = Used /\ PortPosition' = PortPosition
  BY DEF Used, PortPosition
<1>2. TypeOK'
  BY <1>1 DEF TypeOK, CallType
<1>3. CookieTracksDevice' /\ BufferIsFile'
  BY <1>1 DEF CookieTracksDevice, BufferIsFile
<1>4. FlushIsOutput'
  BY DEF FlushIsOutput
<1>5. OutputAtEnd'
  BY <1>1 DEF OutputAtEnd
<1> QED BY <1>2, <1>3, <1>4, <1>5

\* A step after which the port is used for input.
LEMMA InputMoves ==
  ASSUME BufferInvariant, ~flushing, dir' = "in",
         UNCHANGED <<mode, file, open, flushing, offset>>,
         buf' \in Seq(Bytes), Len(buf') <= Size, index' \in 0 .. Len(buf'),
         fpos' \in Nat, pos' \in Nat, Len(buf') <= pos', Seekable => pos' = fpos',
         Seekable => EndsAt(file, pos', buf'),
         Seekable /\ buf' # <<>> => pos' <= Len(file),
         call' \in CallType, call'.op # "put-bytevector", call'.op # "none" => open
  PROVE  BufferInvariant'
<1> USE DEF BufferInvariant
<1>1. Used' = Len(buf') /\ Used' \in Nat /\ offset = 0
  BY LenProperties DEF Used, FlushIsOutput
<1>2. TypeOK'
  <2>1. Used' <= Size /\ index' \in 0 .. Used' /\ offset' \in 0 .. Used'
    BY <1>1
  <2> QED BY <2>1 DEF TypeOK, CallType, Bytes
<1>3. CookieTracksDevice'
  BY DEF CookieTracksDevice
<1>4. BufferIsFile'
  BY <1>1 DEF BufferIsFile
<1>5. FlushIsOutput'
  BY <1>1 DEF FlushIsOutput
<1>6. OutputAtEnd'
  BY DEF OutputAtEnd
<1> QED BY <1>2, <1>3, <1>4, <1>5, <1>6

LEMMA FlushOutputPortStep ==
  ASSUME BufferInvariant, ~FlushesInput, FlushOutputPort
  PROVE  BufferInvariant'
<1>1. /\ call = NoCall /\ open /\ dir = "out" /\ StartsFlush
      /\ UNCHANGED <<mode, file, fpos, pos, buf, index, dir, open, reply>>
  BY DEF FlushOutputPort, device, buffer
<1>2. ~flushing
  BY <1>1, NoCallType DEF BufferInvariant, FlushIsOutput
<1>3. call' = [NoCall EXCEPT !.op = "flush-output-port"]
  BY DEF FlushOutputPort
<1>4. /\ call' \in CallType
      /\ call'.op = "flush-output-port"
  BY <1>3, EmptySeq DEF NoCall, CallType, Calls
<1> QED BY <1>1, <1>2, <1>4, FlushStarts DEF CallType, Gets, Looks

LEMMA PortPositionType ==
  ASSUME BufferInvariant
  PROVE  PortPosition \in Nat
<1>1. CASE dir = "out"
  BY <1>1, Types DEF PortPosition, BufferInvariant, FlushIsOutput
<1>2. CASE dir # "out"
  BY <1>2, Types DEF PortPosition, BufferInvariant, BufferIsFile, TypeOK
<1> QED BY <1>1, <1>2

LEMMA PutBytevectorStep ==
  ASSUME PortAssumptions, BufferInvariant, PutBytevector
  PROVE  BufferInvariant'
<1> USE DEF BufferInvariant
<1>1. PICK bv \in Data : call' = [NoCall EXCEPT !.op = "put-bytevector", !.data = bv]
  BY DEF PutBytevector
<1>2. call' = [op |-> "put-bytevector", data |-> bv, count |-> 0, to |-> 0]
  BY <1>1, Zenon DEF NoCall
<1>3. call' \in CallType /\ call'.op = "put-bytevector"
  BY <1>2 DEF CallType, Calls, PortAssumptions
<1>4. /\ call = NoCall /\ open /\ dir' = "out"
      /\ UNCHANGED <<mode, file, open, flushing, offset, reply>>
  BY DEF PutBytevector
<1>5. ~flushing /\ offset = 0
  BY <1>4, NoCallType DEF FlushIsOutput
<1>6. CASE dir = "in"
  <2>1. /\ buf' = <<>> /\ index' = 0
        /\ IF Seekable THEN fpos' = PortPosition /\ pos' = PortPosition
                       ELSE UNCHANGED <<fpos, pos>>
    BY <1>6 DEF PutBytevector, DeviceAt
  <2>2. Used' = 0 /\ buf' \in Seq(Bytes)
    BY <2>1, EmptySeq DEF Used
  <2>3. fpos' \in Nat /\ pos' \in Nat /\ (Seekable => pos' = fpos')
    BY <2>1, PortPositionType, Types
  <2>4. TypeOK'
    <3>1. Used' <= Size /\ index' \in 0 .. Used' /\ offset' \in 0 .. Used'
      BY <1>4, <1>5, <2>1, <2>2 DEF PortAssumptions
    <3> QED BY <1>3, <1>4, <2>2, <2>3, <3>1 DEF TypeOK, CallType, Bytes
  <2>5. CookieTracksDevice' /\ BufferIsFile'
    BY <1>4, <2>3 DEF CookieTracksDevice, BufferIsFile
  <2>6. FlushIsOutput'
    BY <1>3, <1>4, <1>5, <2>3 DEF FlushIsOutput
  <2>7. OutputAtEnd'
    BY <1>3, <2>1, <2>2 DEF OutputAtEnd, Gets, Looks
  <2> QED BY <2>4, <2>5, <2>6, <2>7
<1>7. CASE dir # "in"
  <2>1. dir = "out" /\ UNCHANGED <<fpos, pos, buf, index>>
    BY <1>7 DEF PutBytevector, buffer, TypeOK
  <2> QED BY <1>3, <1>4, <1>5, <2>1, CallMoves DEF Gets, Looks
<1> QED BY <1>6, <1>7

LEMMA PutAllStep ==
  ASSUME PortAssumptions, BufferInvariant, PutAll
  PROVE  BufferInvariant'
<1> USE DEF BufferInvariant
<1>1. /\ call.op = "put-bytevector" /\ ~flushing
      /\ Len(call.data) <= Size - index /\ Copied(Len(call.data))
      /\ UNCHANGED <<mode, file, fpos, pos, dir, open, offset, reply>>
  BY DEF PutAll, device
<1>2. /\ dir = "out" /\ open /\ offset = 0 /\ offset <= pos /\ call \in CallType
      /\ Len(call.data) \in Nat /\ index \in Nat /\ Size \in Nat
  <2>1. call \in CallType
    BY DEF TypeOK, CallType
  <2>2. call.data \in Seq(Octet)
    BY <2>1 DEF CallType
  <2> QED BY <1>1, <2>1, <2>2, LenProperties, Types DEF FlushIsOutput, PortAssumptions
<1>3. /\ buf' \in Seq(Bytes) /\ Len(buf') <= Size
      /\ index' \in 0 .. Len(buf')
      /\ index = Used => index' = Len(buf')
  <2>1. Len(call.data) \in 0 .. Len(call.data) /\ index + Len(call.data) <= Size
    BY <1>1, <1>2
  <2> QED BY <1>1, <2>1, CopiedFits
<1>4. \/ /\ flushing' = TRUE /\ buf' # <<>>
         /\ call' \in CallType /\ call'.op = "put-bytevector"
      \/ flushing' = FALSE /\ call' = NoCall
  <2>1. CASE mode = "none" /\ buf' # <<>>
    <3>1. flushing' = TRUE /\ call' = [call EXCEPT !.data = <<>>]
      BY <2>1 DEF PutAll
    <3>2. call' \in CallType /\ call'.op = "put-bytevector"
      BY <1>1, <1>2, <3>1, EmptySeq DEF CallType
    <3> QED BY <2>1, <3>1, <3>2
  <2>2. CASE ~(mode = "none" /\ buf' # <<>>)
    BY <2>2 DEF PutAll
  <2> QED BY <2>1, <2>2
<1>5. Used' = Len(buf') /\ Used' \in Nat
  BY <1>3, LenProperties DEF Used
<1>6. TypeOK'
  <2>1. Used' <= Size /\ index' \in 0 .. Used' /\ offset' \in 0 .. Used'
    BY <1>1, <1>2, <1>3, <1>5
  <2>2. call' \in CallType /\ flushing' \in BOOLEAN
    BY <1>4, NoCallType
  <2> QED BY <1>1, <1>3, <2>1, <2>2 DEF TypeOK, CallType, Bytes
<1>7. CookieTracksDevice' /\ BufferIsFile'
  BY <1>1, <1>2 DEF CookieTracksDevice, BufferIsFile
<1>8. FlushIsOutput'
  BY <1>1, <1>2, <1>4, NoCallType DEF FlushIsOutput
<1>9. OutputAtEnd'
  <2>1. call'.op \notin {"set-port-position!", "close-port"} \cup Gets \cup Looks
    BY <1>4, NoCallType DEF Gets, Looks
  <2> QED BY <1>1, <1>2, <1>3, <1>5, <2>1 DEF OutputAtEnd
<1> QED BY <1>6, <1>7, <1>8, <1>9

LEMMA PutSomeStep ==
  ASSUME PortAssumptions, BufferInvariant, PutSome
  PROVE  BufferInvariant'
<1> USE DEF BufferInvariant
<1> DEFINE room == Size - index
<1>1. /\ call.op = "put-bytevector" /\ ~flushing
      /\ Len(call.data) > room /\ Copied(room)
      /\ call' = [call EXCEPT !.data = SubSeq(call.data, room + 1, Len(call.data))]
      /\ flushing' = TRUE
      /\ UNCHANGED <<mode, file, fpos, pos, dir, open, offset, reply>>
  BY DEF PutSome, device
<1>2. /\ dir = "out" /\ open /\ offset = 0 /\ offset <= pos /\ call \in CallType
      /\ call.data \in Seq(Octet) /\ Len(call.data) \in Nat
      /\ index \in Nat /\ index <= Used /\ Used <= Size /\ Size \in Nat /\ Size >= 2
  <2>1. call \in CallType
    BY DEF TypeOK, CallType
  <2>2. call.data \in Seq(Octet)
    BY <2>1 DEF CallType
  <2> QED BY <1>1, <2>1, <2>2, LenProperties, Types DEF FlushIsOutput, PortAssumptions, TypeOK
<1>3. room \in 0 .. Len(call.data) /\ index + room <= Size
  <2>1. PICK l \in Nat : l = Len(call.data) /\ l > room
    BY <1>1, <1>2
  <2>2. room \in 0 .. l /\ index + room <= Size
    BY <1>2, <2>1, Numbers
  <2> QED BY <2>1, <2>2
<1>4. /\ buf' \in Seq(Bytes) /\ Len(buf') <= Size
      /\ index' \in 0 .. Len(buf')
      /\ index = Used => index' = Len(buf')
      /\ buf' = <<>> => buf = <<>> /\ room = 0
  BY <1>1, <1>3, CopiedFits
<1>5. buf' # <<>>
  <2>1. buf = <<>> => Used = 0
    BY Types
  <2> QED BY <1>2, <1>4, <2>1, Types
<1>6. call' \in CallType /\ call'.op = "put-bytevector"
  <2>1. \A i \in room + 1 .. Len(call.data) : call.data[i] \in Octet
    BY <1>2, <1>3, ElementOfSeq
  <2>2. room + 1 \in Int /\ Len(call.data) \in Int
    BY <1>2, <1>3
  <2>3. SubSeq(call.data, room + 1, Len(call.data)) \in Seq(Octet)
    BY <2>1, <2>2, SubSeqProperties
  <2> HIDE DEF room
  <2> QED BY <1>1, <1>2, <2>3 DEF CallType
<1>7. Used' = Len(buf') /\ Used' \in Nat
  BY <1>4, LenProperties DEF Used
<1>8. TypeOK'
  <2>1. Used' <= Size /\ index' \in 0 .. Used' /\ offset' \in 0 .. Used'
    BY <1>1, <1>2, <1>4, <1>7
  <2> QED BY <1>1, <1>4, <1>6, <2>1 DEF TypeOK, CallType, Bytes
<1>9. CookieTracksDevice' /\ BufferIsFile'
  BY <1>1, <1>2 DEF CookieTracksDevice, BufferIsFile
<1>10. FlushIsOutput'
  BY <1>1, <1>2, <1>5, <1>6 DEF FlushIsOutput
<1>11. OutputAtEnd'
  BY <1>1, <1>2, <1>4, <1>6, <1>7 DEF OutputAtEnd, Gets, Looks
<1> QED BY <1>8, <1>9, <1>10, <1>11

LEMMA GetStep ==
  ASSUME PortAssumptions, BufferInvariant, Get
  PROVE  BufferInvariant'
<1> USE DEF BufferInvariant
<1>0. PICK op \in Gets \cup Looks :
        \E n \in (IF op = "get-bytevector-n" THEN Counts ELSE {0}) :
          call' = [NoCall EXCEPT !.op = op, !.count = n, !.to = PortPosition]
  BY DEF Get
<1>1. PICK n \in (IF op = "get-bytevector-n" THEN Counts ELSE {0}) :
        call' = [NoCall EXCEPT !.op = op, !.count = n, !.to = PortPosition]
  BY <1>0
<1>2. call' = [op |-> op, data |-> <<>>, count |-> n, to |-> PortPosition]
  BY <1>1, Zenon DEF NoCall
<1>3. call' \in CallType /\ call'.op = op /\ call'.to = PortPosition
  <2>1. op \in Calls \cup {"none"} /\ <<>> \in Seq(Octet) /\ n \in Nat
    BY EmptySeq DEF Calls, PortAssumptions
  <2> QED BY <1>2, <2>1, PortPositionType DEF CallType
<1>4. /\ call = NoCall /\ open
      /\ UNCHANGED <<mode, file, fpos, pos, buf, index, dir, open, flushing, offset>>
  BY DEF Get, device, buffer
<1>5. ~flushing
  BY <1>4, NoCallType DEF FlushIsOutput
<1>6. call'.op \notin {"put-bytevector", "set-port-position!", "close-port"}
  BY <1>3 DEF Gets, Looks
<1> QED BY <1>3, <1>4, <1>5, <1>6, CallMoves

LEMMA ToInputStep ==
  ASSUME PortAssumptions, BufferInvariant, ToInput
  PROVE  BufferInvariant'
<1> USE DEF BufferInvariant
<1>1. /\ call.op \in Gets \cup Looks /\ dir = "out" /\ ~flushing
      /\ UNCHANGED <<mode, file, open, call, reply>>
  BY DEF ToInput
<1>2. call \in CallType /\ call.op # "none" /\ open /\ call.op # "put-bytevector"
  BY <1>1 DEF TypeOK, CallType, FlushIsOutput, Gets, Looks
<1>3. CASE Seekable /\ buf # <<>>
  <2>1. StartsFlush /\ UNCHANGED <<fpos, pos, buf, index, dir>>
    BY <1>3 DEF ToInput, buffer
  <2>2. offset = 0 /\ offset' = 0 /\ flushing' = TRUE
    BY <1>1, <1>3, <2>1 DEF StartsFlush, FlushIsOutput
  <2>3. Used' = Used /\ PortPosition' = PortPosition
    BY <1>1, <2>1, <2>2 DEF Used, PortPosition
  <2>4. TypeOK'
    BY <1>1, <2>1, <2>2, <2>3, Types DEF TypeOK
  <2>5. CookieTracksDevice' /\ BufferIsFile'
    BY <1>1, <2>1, <2>3 DEF CookieTracksDevice, BufferIsFile
  <2>6. FlushIsOutput'
    BY <1>1, <1>2, <1>3, <2>1, <2>2, Types DEF FlushIsOutput
  <2>7. OutputAtEnd'
    BY <1>1, <2>1, <2>2, <2>3 DEF OutputAtEnd
  <2> QED BY <2>4, <2>5, <2>6, <2>7
<1>4. CASE ~(Seekable /\ buf # <<>>)
  <2>1. /\ dir' = "in" /\ buf' = <<>> /\ index' = 0 /\ UNCHANGED <<flushing, offset>>
        /\ IF Seekable THEN fpos' = call.to /\ pos' = call.to ELSE UNCHANGED <<fpos, pos>>
    BY <1>4 DEF ToInput, PositionKept
  <2>2. fpos' \in Nat /\ pos' \in Nat /\ (Seekable => pos' = fpos')
    BY <1>2, <2>1, Types DEF CallType
  <2>3. buf' \in Seq(Bytes) /\ Len(buf') = 0
    BY <2>1, EmptySeq
  <2>4. Seekable => EndsAt(file, pos', buf')
    BY <2>1, <2>2, EmptyPart
  <2>5. Len(buf') <= Size /\ index' \in 0 .. Len(buf') /\ Len(buf') <= pos'
    BY <2>1, <2>2, <2>3 DEF PortAssumptions
  <2> QED BY <1>1, <1>2, <2>1, <2>2, <2>3, <2>4, <2>5, InputMoves
<1> QED BY <1>3, <1>4

\* What a turn of a getter takes from the buffer.
LEMMA ConsumeIs ==
  ASSUME BufferInvariant, Consume
  PROVE  \E taken \in 0 .. Len(Unread) :
           /\ dir = "in" /\ call.op \in Gets
           /\ reply' = reply \o SubSeq(Unread, 1, taken)
           /\ index' = index + taken
           /\ call' \in CallType /\ call'.op \in {"none", call.op}
           /\ UNCHANGED <<mode, file, fpos, pos, buf, dir, open, flushing, offset>>
<1> DEFINE some  == Len(Unread)
           taken == CASE call.op = "get-u8" -> 1
                      [] call.op = "get-bytevector-n" /\ call.count <= some -> call.count
                      [] OTHER -> some
           done  == CASE call.op = "get-bytevector-n" -> call.count <= some
                      [] OTHER -> call.op # "get-bytevector-all"
<1>1. /\ dir = "in" /\ call.op \in Gets /\ Unread # <<>>
      /\ reply' = reply \o SubSeq(Unread, 1, taken) /\ index' = index + taken
      /\ call' = IF done THEN NoCall
                 ELSE IF call.op = "get-bytevector-n" THEN [call EXCEPT !.count = @ - taken]
                 ELSE call
      /\ UNCHANGED <<mode, file, fpos, pos, buf, dir, open, flushing, offset>>
  BY DEF Consume, Getting, device
<1>2. call \in CallType /\ call.count \in Nat
  BY DEF BufferInvariant, TypeOK, CallType
<1>3. some \in Nat /\ some > 0
  <2>1. Unread \in Seq(Bytes)
    BY <1>1, UnreadIs DEF BufferInvariant
  <2> QED BY <1>1, <2>1, EmptySeq
<1> HIDE DEF some
<1>4. taken \in 0 .. some
  BY <1>2, <1>3
<1>5. call' \in CallType /\ call'.op \in {"none", call.op}
  <2>1. CASE done
    BY <1>1, <2>1, NoCallType
  <2>2. CASE ~done /\ call.op = "get-bytevector-n"
    <3>1. taken = some /\ call.count - some \in Nat
      BY <1>2, <1>3, <2>2
    <3>2. call' = [call EXCEPT !.count = call.count - some]
      BY <1>1, <2>2, <3>1
    <3> QED BY <1>2, <3>1, <3>2 DEF CallType
  <2>3. CASE ~done /\ call.op # "get-bytevector-n"
    BY <1>1, <1>2, <2>3
  <2> QED BY <2>1, <2>2, <2>3
<1> HIDE DEF taken, done
<1>6. taken \in 0 .. Len(Unread)
  BY <1>4 DEF some
<1> QED BY <1>1, <1>5, <1>6

LEMMA ConsumeStep ==
  ASSUME BufferInvariant, Consume
  PROVE  BufferInvariant'
<1> USE DEF BufferInvariant
<1>1. PICK taken \in 0 .. Len(Unread) :
        /\ dir = "in" /\ call.op \in Gets
        /\ reply' = reply \o SubSeq(Unread, 1, taken)
        /\ index' = index + taken
        /\ call' \in CallType /\ call'.op \in {"none", call.op}
        /\ UNCHANGED <<mode, file, fpos, pos, buf, dir, open, flushing, offset>>
  BY ConsumeIs
<1>2. ~flushing /\ open /\ call'.op # "put-bytevector"
  BY <1>1 DEF FlushIsOutput, Gets
<1>3. Len(Unread) = Used - index
  BY <1>1, UnreadIs
<1>4. index' \in 0 .. Len(buf') /\ Len(buf') <= Size /\ Len(buf') <= pos'
  BY <1>1, <1>3, Types DEF TypeOK, BufferIsFile, Used
<1>5. /\ Seekable => pos' = fpos'
      /\ Seekable => EndsAt(file, pos', buf')
      /\ Seekable /\ buf' # <<>> => pos' <= Len(file)
  BY <1>1 DEF CookieTracksDevice, BufferIsFile, Used
<1> QED BY <1>1, <1>2, <1>4, <1>5, Types, InputMoves

LEMMA PeekStep ==
  ASSUME BufferInvariant, Peek
  PROVE  BufferInvariant'
<1>1. /\ dir = "in" /\ call' = NoCall
      /\ UNCHANGED <<mode, file, fpos, pos, buf, index, dir, open, flushing, offset>>
  BY DEF Peek, Getting, device, buffer
<1>2. ~flushing
  BY <1>1 DEF BufferInvariant, FlushIsOutput
<1> QED BY <1>1, <1>2, NoCallType, CallMoves DEF Gets, Looks

\* The buffer after a look at the device that gave nothing.
LEMMA ShiftedOnly ==
  ASSUME PortAssumptions, BufferInvariant, Getting(Gets \cup Looks),
         buf' = Shifted, index' = 0, call' \in {call, NoCall},
         UNCHANGED <<mode, file, fpos, pos, dir, open, flushing, offset>>
  PROVE  BufferInvariant'
<1> USE DEF BufferInvariant
<1>1. dir = "in" /\ call.op \in Gets \cup Looks
  BY DEF Getting
<1>2. ~flushing /\ open /\ call \in CallType /\ call.op # "put-bytevector"
  BY <1>1 DEF FlushIsOutput, TypeOK, CallType, Gets, Looks
<1>3. /\ buf' \in Seq(Bytes) /\ Len(buf') = Used - index
      /\ Seekable => /\ EndsAt(file, pos, buf')
                     /\ buf' # <<>> => pos <= Len(file)
  BY <1>1, UnreadIs DEF Shifted
<1>4. Len(buf') <= Size /\ index' \in 0 .. Len(buf') /\ Len(buf') <= pos'
  BY <1>1, <1>3, Types DEF PortAssumptions, TypeOK, BufferIsFile
<1>5. Seekable => pos' = fpos'
  BY DEF CookieTracksDevice
<1>6. call' \in CallType /\ call'.op # "put-bytevector"
  BY <1>2, NoCallType
<1> QED BY <1>1, <1>2, <1>3, <1>4, <1>5, <1>6, Types, InputMoves

LEMMA RefillStep ==
  ASSUME PortAssumptions, BufferInvariant, Getting(Gets \cup Looks),
         NEW n \in 1 .. Size, Refill(n),
         UNCHANGED <<mode, file, dir, open, flushing, offset>>
  PROVE  BufferInvariant'
<1> USE DEF BufferInvariant
<1>0. buf' = Shifted \o SubSeq(file, fpos + 1, fpos + n)
  BY DEF Refill
<1>1. /\ n <= Size - Len(Shifted) /\ fpos + n <= Len(file) /\ index' = 0
      /\ fpos' = fpos + n /\ pos' = pos + n
  BY DEF Refill, Advanced
<1>a. call' \in {call, NoCall}
  BY DEF Refill
<1>2. dir = "in" /\ call.op \in Gets \cup Looks
  BY DEF Getting
<1>3. ~flushing /\ open /\ call \in CallType /\ call.op # "put-bytevector"
  BY <1>2 DEF FlushIsOutput, TypeOK, CallType, Gets, Looks
<1>4. n \in Nat /\ n > 0 /\ Size \in Nat
  BY DEF PortAssumptions
<1>5. Len(Shifted) = Used - index
  BY <1>2, UnreadIs DEF Shifted
<1>6. /\ buf' \in Seq(Bytes) /\ Len(buf') = Len(Shifted) + n
      /\ Seekable => EndsAt(file, pos + n, buf')
  BY <1>0, <1>1, <1>2, <1>4, RefilledIs
<1>7. Len(buf') <= Size /\ index' \in 0 .. Len(buf') /\ Len(buf') <= pos'
  <2>1. Used <= pos
    BY <1>2 DEF BufferIsFile
  <2>2. PICK l \in Nat : l = Len(buf')
    BY <1>6, LenProperties
  <2>3. l = Used - index + n /\ l <= Size
    <3>1. PICK k \in Nat : k = Len(Shifted) /\ k = Used - index
      BY <1>5, Types
    <3>2. l = k + n
      BY <1>6, <2>2, <3>1
    <3>3. n <= Size - k
      BY <1>1, <3>1
    <3> QED BY <1>4, <3>1, <3>2, <3>3, Types
  <2>4. l <= pos + n /\ 0 \in 0 .. l
    BY <1>4, <2>1, <2>2, <2>3, Types
  <2> QED BY <1>1, <2>2, <2>3, <2>4
<1>8. fpos' \in Nat /\ pos' \in Nat /\ (Seekable => pos' = fpos' /\ pos' <= Len(file))
  BY <1>1, <1>4, Numbers DEF CookieTracksDevice
<1>9. call' \in CallType /\ call'.op # "put-bytevector"
  BY <1>a, <1>3, NoCallType
<1>10. Seekable => EndsAt(file, pos', buf')
  BY <1>1, <1>6
<1> QED BY <1>1, <1>2, <1>3, <1>6, <1>7, <1>8, <1>9, <1>10, InputMoves

LEMMA FromDeviceStep ==
  ASSUME PortAssumptions, BufferInvariant, FromDevice
  PROVE  BufferInvariant'
<1>1. /\ Getting(Gets \cup Looks) /\ UNCHANGED <<mode, file, dir, open, flushing, offset>>
  BY DEF FromDevice
<1>2. ASSUME NEW n \in 1 .. Size, Refill(n) PROVE BufferInvariant'
  BY <1>1, <1>2, RefillStep
<1>3. CASE RefillEof
  <2>1. buf' = Shifted /\ index' = 0 /\ call' = NoCall /\ UNCHANGED <<fpos, pos>>
    BY <1>3 DEF RefillEof
  <2> QED BY <1>1, <2>1, ShiftedOnly
<1>4. CASE RefillWouldBlock
  <2>1. buf' = Shifted /\ index' = 0 /\ call' \in {call, NoCall} /\ UNCHANGED <<fpos, pos>>
    BY <1>4 DEF RefillWouldBlock
  <2> QED BY <1>1, <2>1, ShiftedOnly
<1> QED BY <1>2, <1>3, <1>4 DEF FromDevice

LEMMA SetPortPositionStep ==
  ASSUME PortAssumptions, BufferInvariant, SetPortPosition
  PROVE  BufferInvariant'
<1> USE DEF BufferInvariant
<1>1. PICK to \in Targets :
        LET new    == index + to - PortPosition
            inside == new \in 0 .. Used
        IN /\ inside /\ dir = "out" => Rewinds
           /\ IF inside
                THEN /\ index' = new
                     /\ UNCHANGED <<fpos, pos, buf, call, flushing, offset>>
                ELSE IF dir = "out"
                THEN /\ call' = [NoCall EXCEPT !.op = "set-port-position!", !.to = to]
                     /\ StartsFlush
                     /\ UNCHANGED <<fpos, pos, buf, index>>
                ELSE /\ fpos' = to /\ pos' = to /\ buf' = <<>> /\ index' = 0
                     /\ UNCHANGED <<call, flushing, offset>>
  BY DEF SetPortPosition, buffer
<1>2. /\ call = NoCall /\ open /\ Seekable /\ UNCHANGED <<mode, file, dir, open, reply>>
      /\ ~flushing /\ to \in Nat /\ offset = 0
  BY NoCallType DEF SetPortPosition, FlushIsOutput, PortAssumptions
<1>3. CASE index + to - PortPosition \in 0 .. Used
  <2>1. /\ index' \in 0 .. Used /\ UNCHANGED <<fpos, pos, buf, call, flushing, offset>>
        /\ dir = "out" => Rewinds
    BY <1>1, <1>3
  <2>2. Used' = Used
    BY <2>1 DEF Used
  <2>3. TypeOK'
    BY <1>2, <2>1, <2>2 DEF TypeOK
  <2>4. CookieTracksDevice' /\ BufferIsFile'
    BY <1>2, <2>1, <2>2 DEF CookieTracksDevice, BufferIsFile
  <2>5. FlushIsOutput' /\ OutputAtEnd'
    BY <1>2, <2>1 DEF FlushIsOutput, OutputAtEnd
  <2> QED BY <2>3, <2>4, <2>5
<1>4. CASE index + to - PortPosition \notin 0 .. Used /\ dir = "out"
  <2>1. /\ call' = [NoCall EXCEPT !.op = "set-port-position!", !.to = to]
        /\ StartsFlush /\ UNCHANGED <<fpos, pos, buf, index>>
    BY <1>1, <1>4
  <2>2. call' = [op |-> "set-port-position!", data |-> <<>>, count |-> 0, to |-> to]
    BY <2>1, Zenon DEF NoCall
  <2>3. call' \in CallType /\ call'.op = "set-port-position!"
    BY <1>2, <2>2, EmptySeq DEF CallType, Calls
  <2> QED BY <1>2, <1>4, <2>1, <2>3, FlushStarts DEF CallType, Gets, Looks
<1>5. CASE index + to - PortPosition \notin 0 .. Used /\ dir # "out"
  <2>1. /\ fpos' = to /\ pos' = to /\ buf' = <<>> /\ index' = 0
        /\ UNCHANGED <<call, flushing, offset>>
    BY <1>1, <1>5
  <2>2. dir' = "in"
    BY <1>2, <1>5 DEF TypeOK
  <2>3. buf' \in Seq(Bytes) /\ Len(buf') = 0
    BY <2>1, EmptySeq
  <2>4. EndsAt(file, pos', buf')
    BY <1>2, <2>1, EmptyPart
  <2>5. Len(buf') <= Size /\ index' \in 0 .. Len(buf') /\ Len(buf') <= pos'
    BY <1>2, <2>1, <2>3 DEF PortAssumptions
  <2>6. call' \in CallType /\ call'.op = "none"
    BY <1>2, <2>1, NoCallType
  <2> QED BY <1>2, <2>1, <2>2, <2>3, <2>4, <2>5, <2>6, InputMoves
<1> QED BY <1>3, <1>4, <1>5

LEMMA SetDevicePositionStep ==
  ASSUME PortAssumptions, BufferInvariant, SetDevicePosition
  PROVE  BufferInvariant'
<1> USE DEF BufferInvariant
<1>1. /\ call.op = "set-port-position!" /\ ~flushing
      /\ fpos' = call.to /\ pos' = call.to /\ buf' = <<>> /\ index' = 0 /\ call' = NoCall
      /\ UNCHANGED <<mode, file, dir, open, flushing, offset, reply>>
  BY DEF SetDevicePosition
<1>2. call.to \in Nat /\ offset = 0
  BY <1>1 DEF TypeOK, FlushIsOutput
<1>3. Used' = 0 /\ buf' \in Seq(Bytes)
  BY <1>1, EmptySeq DEF Used
<1>4. TypeOK'
  <2>1. Used' <= Size /\ index' \in 0 .. Used' /\ offset' \in 0 .. Used'
    BY <1>1, <1>2, <1>3 DEF PortAssumptions
  <2> QED BY <1>1, <1>2, <1>3, <2>1, NoCallType DEF TypeOK, CallType, Bytes
<1>5. CookieTracksDevice'
  BY <1>1 DEF CookieTracksDevice
<1>6. BufferIsFile'
  <2>2. EndsAt(file', pos', buf')
    BY <1>1, <1>2, EmptyPart
  <2> QED BY <1>1, <1>2, <1>3, <2>2 DEF BufferIsFile
<1>7. FlushIsOutput'
  BY <1>1, <1>2, NoCallType DEF FlushIsOutput
<1>8. OutputAtEnd'
  BY <1>1, <1>3, NoCallType DEF OutputAtEnd, Gets, Looks
<1> QED BY <1>4, <1>5, <1>6, <1>7, <1>8

LEMMA ClosePortStep ==
  ASSUME BufferInvariant, ClosePort
  PROVE  BufferInvariant'
<1>1. /\ call = NoCall
      /\ UNCHANGED <<mode, file, fpos, pos, buf, index, dir, open, reply>>
  BY DEF ClosePort, device, buffer
<1>2. ~flushing
  BY <1>1, NoCallType DEF BufferInvariant, FlushIsOutput
<1>3. CASE ~open
  BY <1>1, <1>2, <1>3, NoCallType, CallMoves DEF ClosePort, Gets, Looks
<1>4. CASE open
  <2>1. call' = [NoCall EXCEPT !.op = "close-port"]
    BY <1>4 DEF ClosePort
  <2>2. call' \in CallType /\ call'.op = "close-port"
    BY <2>1, EmptySeq DEF NoCall, CallType, Calls
  <2>3. CASE dir = "out"
    <3>1. StartsFlush
      BY <1>4, <2>3 DEF ClosePort
    <3> QED BY <1>1, <1>2, <1>4, <2>2, <2>3, <3>1, FlushStarts DEF CallType, Gets, Looks
  <2>4. CASE dir # "out"
    <3>1. UNCHANGED <<flushing, offset>>
      BY <2>4 DEF ClosePort
    <3> QED BY <1>1, <1>2, <1>4, <2>2, <2>4, <3>1, CallMoves DEF Gets, Looks
  <2> QED BY <2>3, <2>4
<1> QED BY <1>3, <1>4

LEMMA MarkAsClosedStep ==
  ASSUME BufferInvariant, MarkAsClosed
  PROVE  BufferInvariant'
<1> USE DEF BufferInvariant
<1>1. /\ call.op = "close-port" /\ ~flushing /\ open' = FALSE /\ call' = NoCall
      /\ UNCHANGED <<mode, file, fpos, pos, buf, index, dir, flushing, offset, reply>>
  BY DEF MarkAsClosed, device, buffer
<1>2. Used' = Used
  BY <1>1 DEF Used
<1>3. TypeOK'
  BY <1>1, <1>2, NoCallType DEF TypeOK, CallType
<1>4. CookieTracksDevice' /\ BufferIsFile'
  BY <1>1, <1>2 DEF CookieTracksDevice, BufferIsFile
<1>5. FlushIsOutput'
  BY <1>1, NoCallType DEF FlushIsOutput
<1>6. OutputAtEnd'
  BY <1>1, <1>2, NoCallType DEF OutputAtEnd, Gets, Looks
<1> QED BY <1>3, <1>4, <1>5, <1>6

LEMMA ResetsStep ==
  ASSUME BufferInvariant, ResetInputPort \/ ResetOutputPort
  PROVE  BufferInvariant'
<1> USE DEF BufferInvariant
<1>1. /\ call = NoCall /\ UNCHANGED <<mode, file, fpos, pos, buf, dir, open, call, flushing,
                                       offset, reply>>
      /\ \/ index' = Used
         \/ index' = 0 /\ Resets
  BY DEF ResetInputPort, ResetOutputPort, device
<1>2. Used' = Used /\ index' \in 0 .. Used
  BY <1>1, Types DEF Used
<1>3. TypeOK'
  BY <1>1, <1>2 DEF TypeOK
<1>4. CookieTracksDevice' /\ BufferIsFile'
  BY <1>1, <1>2 DEF CookieTracksDevice, BufferIsFile
<1>5. FlushIsOutput'
  BY <1>1 DEF FlushIsOutput
<1>6. OutputAtEnd'
  BY <1>1, <1>2, NoCallType DEF OutputAtEnd, Gets, Looks
<1> QED BY <1>3, <1>4, <1>5, <1>6

LEMMA StutterStep ==
  ASSUME BufferInvariant, UNCHANGED portVars
  PROVE  BufferInvariant'
<1>1. /\ UNCHANGED <<mode, file, fpos, pos, buf, index, dir, open, flushing, offset>>
      /\ call' = call
  BY DEF portVars
<1>2. call \in CallType
  BY DEF BufferInvariant, TypeOK, CallType
<1> USE DEF BufferInvariant
<1>3. Used' = Used /\ PortPosition' = PortPosition
  BY <1>1 DEF Used, PortPosition
<1>4. TypeOK' /\ CookieTracksDevice' /\ BufferIsFile'
  BY <1>1, <1>3 DEF TypeOK, CookieTracksDevice, BufferIsFile
<1>5. FlushIsOutput' /\ OutputAtEnd'
  BY <1>1, <1>3 DEF FlushIsOutput, OutputAtEnd
<1> QED BY <1>4, <1>5

\* BufferInvariant is inductive: whatever the device takes and gives, and whether or
\* not it can be positioned, if output ports only are flushed.
LEMMA NextStep ==
  ASSUME PortAssumptions, ~FlushesInput, BufferInvariant, PortNext
  PROVE  BufferInvariant'
<1>1. CASE Works
  BY <1>1, FlushWriteStep, FlushRaisesStep, PutAllStep, PutSomeStep, ToInputStep, ConsumeStep,
     PeekStep, FromDeviceStep, SetDevicePositionStep, MarkAsClosedStep DEF Works
<1>2. CASE ~Works
  BY <1>2, FlushOutputPortStep, PutBytevectorStep, GetStep, SetPortPositionStep,
     ClosePortStep, ResetsStep DEF PortNext
<1> QED BY <1>1, <1>2

\* What is in the buffer of a port used for input is the part of the file before the
\* device position, which is the position of the kernel; and what was put is in the
\* buffer of an output port until a flush has written all of it, for any sizes of
\* buffers and requests and whatever part of it the device takes.
THEOREM BufferHolds ==
  ASSUME PortAssumptions, ~FlushesInput PROVE PortSpec => []BufferInvariant
<1>1. PortInit => BufferInvariant
  BY InitInvariant
<1>2. BufferInvariant /\ [PortNext]_portVars => BufferInvariant'
  BY NextStep, StutterStep
<1> QED BY <1>1, <1>2, PTL DEF PortSpec

-----------------------------------------------------------------------------
(* The refinement: what the port does to the file.                        *)

Answers == Bytes \cup {EofObject, WouldBlock}

\* No flush is ended by an exception after a part of the buffer was written.
Exact ==
  /\ BufferInvariant
  /\ offset > 0 => "again" \notin Outcomes
  /\ reply \in Seq(Answers)

\* Neither the file nor the position changes, as the caller sees them.
Stays == Content' = Content /\ PortPosition' = PortPosition

\* What a caller sees of a port used for output, and of one used for input.
LEMMA Outside ==
  ASSUME PlainUse, Exact
  PROVE  /\ dir = "out" => /\ index = Used /\ PortPosition = pos - offset + Used
                           /\ open => Content = Overwritten(file, pos - offset, buf)
                           /\ buf = <<>> => Content = file
                           /\ pos - offset \in Nat
         /\ dir # "out" => /\ dir = "in" /\ Content = file /\ offset = 0 /\ ~flushing
                           /\ PortPosition = pos - (Used - index)
         /\ pos = fpos /\ PortPosition \in Nat
         /\ call = NoCall => ~flushing
         /\ ~flushing => offset = 0
         /\ flushing => dir = "out" /\ buf # <<>> /\ open
         /\ call # NoCall /\ call.op # "none" => open
<1> USE DEF Exact, BufferInvariant
<1>1. pos = fpos /\ PortPosition \in Nat
  BY PortPositionType DEF CookieTracksDevice, PlainUse
<1>2. /\ flushing => dir = "out" /\ buf # <<>> /\ open
      /\ call = NoCall => ~flushing
      /\ ~flushing => offset = 0
      /\ call.op # "none" => open
      /\ offset <= pos
  BY NoCallType DEF FlushIsOutput
<1>3. CASE dir = "out"
  <2>1. index = Used /\ PortPosition = pos - offset + Used
    BY <1>3 DEF OutputAtEnd, PlainUse, PortPosition
  <2>2. open => Content = Overwritten(file, pos - offset, buf)
    BY <1>3 DEF Content
  <2>3. buf = <<>> => Content = file
    BY <1>3 DEF Content, Overwritten
  <2>4. pos - offset \in Nat
    BY <1>2, Types
  <2> QED BY <1>1, <1>2, <1>3, <2>1, <2>2, <2>3, <2>4
<1>4. CASE dir # "out"
  <2>1. dir = "in" /\ PortPosition = pos - (Used - index)
    BY <1>4 DEF TypeOK, PortPosition
  <2>2. Content = file
    BY <1>4 DEF Content
  <2> QED BY <1>1, <1>2, <1>4, <2>1, <2>2
<1> QED BY <1>3, <1>4

\* A step that leaves what Content and PortPosition are made of alone.
LEMMA SameInside ==
  ASSUME UNCHANGED <<file, pos, buf, index, dir, open, offset>>
  PROVE  Stays
<1>1. Used' = Used
  BY DEF Used
<1> QED BY <1>1 DEF Stays, Content, PortPosition

\* A write of a flush.
LEMMA FlushWriteMaps ==
  ASSUME PortAssumptions, PlainUse, Exact, FlushWrite
  PROVE  /\ Stays /\ UNCHANGED <<dir, open, reply>>
         /\ offset' > 0 => "again" \notin Outcomes
<1> USE DEF Exact, BufferInvariant
<1>1. PICK n \in 0 .. Used - offset :
        /\ Written(n)
        /\ file' = Overwritten(file, fpos, SubSeq(buf, offset + 1, offset + n))
        /\ fpos' = fpos + n /\ pos' = Advanced(n)
        /\ IF WholeBuffer(n)
             THEN /\ buf' = <<>> /\ index' = 0 /\ offset' = 0
                  /\ flushing' = FALSE
                  /\ call' = IF call.op = "flush-output-port" THEN NoCall ELSE call
             ELSE /\ offset' = OffsetAfter(n)
                  /\ UNCHANGED <<buffer, flushing, call>>
  BY DEF FlushWrite
<1>2. flushing /\ UNCHANGED <<mode, dir, open, reply>>
  BY DEF FlushWrite
<1> DEFINE at == pos - offset
           part == SubSeq(buf, offset + 1, offset + n)
<1>3. /\ dir = "out" /\ open /\ buf # <<>> /\ index = Used /\ pos = fpos
      /\ PortPosition = at + Used
      /\ Content = Overwritten(file, at, buf) /\ at \in Nat
  BY <1>2, Outside
<1>a. pos' = pos + n
  BY <1>1 DEF Advanced
<1>4. fpos = at + offset /\ n \in Nat /\ offset + n <= Len(buf)
  <2> HIDE DEF part
  <2>1. pos = fpos /\ pos \in Nat /\ offset \in Nat /\ Used \in Nat /\ Len(buf) = Used
        /\ offset <= Used
    BY <1>3, Types
  <2> QED BY <2>1
<1> HIDE DEF at
<1>5. file' = Overwritten(file, fpos, part)
  BY <1>1
<1>6. Overwritten(file', at, buf) = Overwritten(file, at, buf)
  <2>1. file \in Seq(Bytes) /\ buf \in Seq(Bytes) /\ offset \in Nat /\ Gap \in Bytes
    BY Types DEF Bytes
  <2>2. at \in Nat /\ buf # <<>> /\ n \in Nat /\ offset + n <= Len(buf)
    BY <1>3, <1>4
  <2>3. part \in Seq(Bytes) /\ Len(part) = n
    <3>1. \A i \in offset + 1 .. offset + n : buf[i] \in Bytes
      BY <2>1, <2>2, ElementOfSeq
    <3>2. offset + 1 \in Int /\ offset + n \in Int
      BY <2>1, <2>2
    <3>3. part \in Seq(Bytes) /\ Len(part) = IF offset + 1 <= offset + n
                                          THEN (offset + n) - (offset + 1) + 1 ELSE 0
      BY <3>1, <3>2, SubSeqProperties
    <3> HIDE DEF part
    <3> QED BY <2>1, <2>2, <3>3
  <2> HIDE DEF part
  <2>4. fpos \in Nat /\ at <= fpos /\ fpos + Len(part) <= at + Len(buf)
    BY <1>4, <2>1, <2>2, <2>3, Types
  <2>5. Overwritten(Overwritten(file, fpos, part), at, buf) = Overwritten(file, at, buf)
    BY <2>1, <2>2, <2>3, <2>4, OverwrittenTwice
  <2> QED BY <1>5, <2>5, Zenon
<1>7. CASE WholeBuffer(n)
  <2>1. buf' = <<>> /\ index' = 0 /\ offset' = 0
    BY <1>1, <1>7
  <2>2. n = Used /\ offset = 0 /\ at = pos
    BY <1>3, <1>7, Types DEF WholeBuffer, at
  <2>3. file' = Overwritten(file, at, buf)
    <3>1. SubSeq(buf, 1, Len(buf)) = buf
      BY Types, SubSeqFull
    <3>2. part = SubSeq(buf, 1, Len(buf)) /\ fpos = at
      BY <1>3, <2>2, Types
    <3> QED BY <1>1, <3>1, <3>2
  <2>4. Content' = file'
    BY <2>1 DEF Content, Overwritten
  <2>5. PortPosition' = PortPosition
    <3>1. Used' = 0
      BY <2>1, EmptySeq DEF Used
    <3> QED BY <1>2, <1>3, <1>a, <2>1, <2>2, <3>1, Types DEF PortPosition
  <2> QED BY <1>2, <1>3, <2>1, <2>3, <2>4, <2>5 DEF Stays
<1>8. CASE ~WholeBuffer(n)
  <2>1. offset' = offset + n /\ UNCHANGED <<buf, index>>
    BY <1>1, <1>8 DEF OffsetAfter, buffer
  <2>2. pos' - offset' = at
    BY <1>3, <1>a, <2>1, Numbers DEF at
  <2>3. Content' = Overwritten(file', at, buf)
    BY <1>2, <1>3, <2>1, <2>2 DEF Content
  <2>4. PortPosition' = PortPosition
    BY <1>2, <1>3, <2>1, <2>2 DEF PortPosition
  <2>5. offset' > 0 => "again" \notin Outcomes
    <3>1. n # Used
      BY <1>8 DEF WholeBuffer
    <3>2. CASE offset = 0
      <4>1. n > 0 => "some" \in Outcomes
        BY <1>1, <3>1, <3>2, Types DEF Written
      <4> QED BY <1>4, <2>1, <3>2, <4>1 DEF PlainUse
    <3>3. CASE offset # 0
      BY <3>3, Types
    <3> QED BY <3>2, <3>3
  <2> QED BY <1>2, <1>3, <1>6, <2>3, <2>4, <2>5 DEF Stays
<1> QED BY <1>7, <1>8

LEMMA FlushRaisesMaps ==
  ASSUME PlainUse, Exact, FlushRaises
  PROVE  Stays /\ offset' = 0 /\ UNCHANGED <<dir, open, reply>>
<1>1. /\ "again" \in Outcomes /\ offset' = 0
      /\ UNCHANGED <<file, pos, buf, index, dir, open, reply>>
  BY DEF FlushRaises, device, buffer
<1>2. offset = 0
  BY <1>1, Types DEF Exact, BufferInvariant
<1> QED BY <1>1, <1>2, SameInside

\* Beginning to flush what is put is no change.
LEMMA FlushOutputPortMaps ==
  ASSUME PlainUse, Exact, FlushOutputPort
  PROVE  Stays /\ UNCHANGED <<dir, open, reply, offset>>
<1>1. call = NoCall /\ offset' = 0 /\ UNCHANGED <<file, pos, buf, index, dir, open, reply>>
  BY DEF FlushOutputPort, StartsFlush, device, buffer
<1>2. offset = 0
  BY <1>1, Outside
<1> QED BY <1>1, <1>2, SameInside

\* A port used for input is turned to output where it is.
LEMMA PutBytevectorMaps ==
  ASSUME PlainUse, Exact, PutBytevector
  PROVE  Stays /\ UNCHANGED <<open, reply, flushing, offset>>
<1>1. call = NoCall /\ open /\ dir' = "out" /\ UNCHANGED <<file, open, flushing, offset, reply>>
  BY DEF PutBytevector
<1>2. CASE dir = "in"
  <2>1. buf' = <<>> /\ index' = 0 /\ pos' = PortPosition
    BY <1>2 DEF PutBytevector, DeviceAt, PlainUse
  <2>2. Content = file /\ offset = 0 /\ PortPosition \in Nat
    BY <1>2, Outside
  <2>3. Content' = file'
    BY <2>1 DEF Content, Overwritten
  <2>4. PortPosition' = PortPosition
    BY <1>1, <2>1, <2>2 DEF PortPosition
  <2> QED BY <1>1, <2>2, <2>3, <2>4 DEF Stays
<1>3. CASE dir # "in"
  <2>1. dir = "out"
    BY <1>3 DEF Exact, BufferInvariant, TypeOK
  <2>2. UNCHANGED <<pos, buf, index>>
    BY <1>3 DEF PutBytevector, buffer
  <2> QED BY <1>1, <2>1, <2>2, SameInside
<1> QED BY <1>2, <1>3

LEMMA SameOverwritten ==
  ASSUME NEW f, NEW at, NEW bs
  PROVE  Port!Overwritten(f, at, bs) = Overwritten(f, at, bs)
  BY Zenon DEF Port!Overwritten, Overwritten

\* What is copied into the buffer is in the file, for the caller.
LEMMA CopiedMaps ==
  ASSUME PortAssumptions, PlainUse, Exact, dir = "out", open, offset = 0,
         NEW count \in 0 .. Len(call.data), index + count <= Size, Copied(count),
         UNCHANGED <<file, pos, dir, open, offset, reply>>
  PROVE  Stays \/ \E n \in 1 .. Len(Content') : Port!Put(n)
<1> USE DEF Exact, BufferInvariant
<1> DEFINE d == SubSeq(call.data, 1, count)
<1>1. /\ index = Used /\ Content = Overwritten(file, pos, buf) /\ pos \in Nat
      /\ PortPosition = pos + Used
  <2>1. pos - offset = pos /\ pos \in Nat
    BY Types
  <2> QED BY <2>1, Outside
<1>2. /\ index' = Len(buf') /\ buf' = buf \o d
      /\ d \in Seq(Octet) /\ Len(d) = count
      /\ count = 0 => buf' = buf
      /\ index' = index + count
  BY <1>1, CopiedFits DEF Copied
<1> HIDE DEF d
<1>3. Used' = Used + count
  BY <1>1, <1>2 DEF Used
<1>4. count \in Nat
  BY <1>2, LenProperties
<1>5. PortPosition' = PortPosition + count
  <2>1. PortPosition' = pos' - offset' + index'
    BY DEF PortPosition
  <2>2. pos' = pos /\ offset' = 0 /\ index' = Used + count /\ PortPosition = pos + Used
    BY <1>1, <1>2
  <2> QED BY <1>1, <1>4, <2>1, <2>2, Types
<1>6. CASE count = 0
  <2>1. PortPosition' = PortPosition
    BY <1>1, <1>5, <1>6, Types
  <2>2. Content' = Content
    BY <1>2, <1>6 DEF Content
  <2> QED BY <2>1, <2>2 DEF Stays
<1>7. CASE count # 0
  <2>1. /\ d # <<>> /\ d \in Seq(Bytes) /\ file \in Seq(Bytes) /\ buf \in Seq(Bytes)
        /\ Gap \in Bytes
    <3>1. d # <<>>
      BY <1>2, <1>7, EmptySeq
    <3>2. \A i \in 1 .. Len(d) : d[i] \in Bytes
      BY <1>2, ElementOfSeq DEF Bytes
    <3> QED BY <1>2, <3>1, <3>2, Types, IsASeq DEF Bytes
  <2>2. Content' = Overwritten(file, pos, buf \o d)
    <3>1. pos' - offset' = pos
      BY <1>1
    <3>2. Content' = Overwritten(file, pos' - offset', buf')
      BY DEF Content
    <3> QED BY <1>2, <3>1, <3>2
  <2>3. Content' = Overwritten(Content, PortPosition, d)
    <3>1. Overwritten(file, pos, buf \o d)
            = Overwritten(Overwritten(file, pos, buf), pos + Len(buf), d)
      BY <1>1, <2>1, OverwrittenAppended
    <3> QED BY <1>1, <2>2, <3>1 DEF Used
  <2>4. Content \in Seq(Bytes) /\ Content' \in Seq(Bytes) /\ PortPosition \in Nat
    <3>1. Content \in Seq(Bytes) /\ PortPosition \in Nat
      BY <1>1, <2>1, OverwrittenIs, PortPositionType
    <3> QED BY <2>1, <2>3, <3>1, OverwrittenIs
  <2>5. /\ PortPosition + count <= Len(Content')
        /\ IsPart(d, Content', PortPosition)
    BY <1>2, <2>1, <2>3, <2>4, OverwrittenPart
  <2>6. count \in 1 .. Len(Content')
    BY <1>4, <1>7, <2>4, <2>5, LenProperties
  <2>7. d = SubSeq(Content', PortPosition + 1, PortPosition + count)
    BY <1>2, <2>5, Zenon DEF IsPart
  <2>8. /\ SubSeq(Content', PortPosition + 1, PortPosition + count) \in Seq(Octet)
        /\ Content' = Overwritten(Content, PortPosition,
                         SubSeq(Content', PortPosition + 1, PortPosition + count))
    BY <1>2, <2>3, <2>7, Zenon
  <2>9. /\ open /\ Content' \in Seq(Octet \cup {Gap}) /\ PortPosition + count <= Len(Content')
        /\ UNCHANGED <<open, reply>>
    BY <2>4, <2>5 DEF Bytes
  <2>10. Port!Put(count)
    BY <1>5, <2>8, <2>9, SameOverwritten, Zenon DEF Port!Put
  <2> QED BY <2>6, <2>10
<1> QED BY <1>6, <1>7

LEMMA PutMaps ==
  ASSUME PortAssumptions, PlainUse, Exact, PutAll \/ PutSome
  PROVE  /\ Stays \/ \E n \in 1 .. Len(Content') : Port!Put(n)
         /\ ~flushing /\ UNCHANGED <<dir, open, reply, offset>>
<1> USE DEF Exact, BufferInvariant
<1>1. /\ call.op = "put-bytevector" /\ ~flushing
      /\ UNCHANGED <<file, pos, dir, open, reply, offset>>
  BY DEF PutAll, PutSome, device
<1>2. dir = "out" /\ open /\ offset = 0
  BY <1>1 DEF FlushIsOutput
<1>3. /\ Len(call.data) \in Nat /\ index \in Nat /\ index <= Used /\ Used <= Size
      /\ Size \in Nat /\ Used \in Nat
  <2>1. call.data \in Seq(Octet)
    BY DEF TypeOK
  <2> QED BY <2>1, LenProperties, Types DEF TypeOK, PortAssumptions
<1>4. PICK count \in 0 .. Len(call.data) : index + count <= Size /\ Copied(count)
  <2>1. CASE PutAll
    <3>1. Copied(Len(call.data)) /\ Len(call.data) <= Size - index
      BY <2>1 DEF PutAll
    <3>2. Len(call.data) \in 0 .. Len(call.data) /\ index + Len(call.data) <= Size
      BY <1>3, <3>1
    <3> QED BY <3>1, <3>2
  <2>2. CASE PutSome
    <3>1. Copied(Size - index) /\ Len(call.data) > Size - index
      BY <2>2 DEF PutSome
    <3>2. Size - index \in 0 .. Len(call.data) /\ index + (Size - index) <= Size
      BY <1>3, <3>1
    <3> QED BY <3>1, <3>2
  <2> QED BY <2>1, <2>2
<1> QED BY <1>1, <1>2, <1>4, CopiedMaps

\* A port used for output is turned to input where it is.
LEMMA ToInputMaps ==
  ASSUME PlainUse, Exact, ToInput
  PROVE  Stays /\ UNCHANGED <<open, reply>> /\ ~flushing /\ offset' = 0
<1> USE DEF Exact, BufferInvariant
<1>1. /\ call.op \in Gets \cup Looks /\ dir = "out" /\ ~flushing
      /\ UNCHANGED <<file, open, reply>>
  BY DEF ToInput
<1>2. offset = 0 /\ call.to = PortPosition
  BY <1>1 DEF FlushIsOutput, OutputAtEnd, PlainUse
<1>3. CASE buf # <<>>
  <2>1. offset' = 0 /\ UNCHANGED <<pos, buf, index, dir>>
    BY <1>3 DEF ToInput, StartsFlush, buffer, PlainUse
  <2> QED BY <1>1, <1>2, <2>1, SameInside
<1>4. CASE buf = <<>>
  <2>1. dir' = "in" /\ buf' = <<>> /\ index' = 0 /\ pos' = call.to /\ offset' = offset
    BY <1>4 DEF ToInput, PositionKept, PlainUse
  <2>2. Used' = 0 /\ PortPosition \in Nat
    BY <2>1, EmptySeq, PortPositionType DEF Used
  <2>3. PortPosition' = PortPosition
    BY <1>2, <2>1, <2>2 DEF PortPosition
  <2>4. Content = file /\ Content' = file'
    <3>1. Content = file
      BY <1>1, <1>4, Outside
    <3> QED BY <2>1, <3>1 DEF Content
  <2> QED BY <1>1, <1>2, <2>1, <2>3, <2>4 DEF Stays
<1> QED BY <1>3, <1>4

LEMMA GetMaps ==
  ASSUME Exact, Get
  PROVE  Port!Ask /\ Stays /\ UNCHANGED <<dir, offset>> /\ ~flushing /\ reply' = <<>>
<1>1. /\ call = NoCall /\ open /\ reply' = <<>>
      /\ UNCHANGED <<file, pos, buf, index, dir, open, offset>>
  BY DEF Get, device, buffer
<1>2. Stays
  BY <1>1, SameInside
<1>3. ~flushing
  BY <1>1, NoCallType DEF Exact, BufferInvariant, FlushIsOutput
<1> QED BY <1>1, <1>2, <1>3 DEF Port!Ask, Stays

Begins(bs, k, f, at) == SubSeq(bs, 1, k) = SubSeq(f, at + 1, at + k)

\* Octets that end at a position of a file begin there minus their number.
LEMMA Beginning ==
  ASSUME NEW f \in Seq(Bytes), NEW p \in Nat, NEW bs \in Seq(Bytes), EndsAt(f, p, bs),
         bs # <<>> => p <= Len(f), Len(bs) <= p, NEW k \in 1 .. Len(bs), NEW at,
         at = p - Len(bs)
  PROVE  Begins(bs, k, f, at)
<1>1. Len(bs) \in Nat /\ Len(f) \in Nat /\ bs # <<>> /\ k \in Nat
  BY LenProperties, EmptySeq
<1>2. /\ at \in Nat /\ at + 1 \in 1 .. Len(f) /\ p \in 1 .. Len(f) /\ p - (at + 1) + 1 = Len(bs)
      /\ p - Len(bs) + 1 = at + 1
  BY <1>1
<1>3. bs = SubSeq(f, at + 1, p)
  <2>1. bs = SubSeq(f, p - Len(bs) + 1, p)
    BY Zenon DEF EndsAt
  <2> QED BY <1>2, <2>1, Zenon
<1>4. 1 \in 1 .. p - (at + 1) + 1 /\ k \in 1 .. p - (at + 1) + 1
  BY <1>1, <1>2
<1>5. SubSeq(SubSeq(f, at + 1, p), 1, k) = SubSeq(f, (at + 1) + 1 - 1, (at + 1) + k - 1)
  BY <1>2, <1>4, SubSeqOfSubSeq
<1>6. (at + 1) + 1 - 1 = at + 1 /\ (at + 1) + k - 1 = at + k
  BY <1>1, <1>2
<1> QED BY <1>3, <1>5, <1>6, Zenon DEF Begins

\* Octets of the buffer are taken: they are those of the file at the position.
LEMMA ConsumeMaps ==
  ASSUME PlainUse, Exact, Consume
  PROVE  /\ \/ Stays /\ reply' = reply
            \/ \E n \in 1 .. Len(Content) : Port!Take(n)
         /\ ~flushing /\ UNCHANGED <<dir, open, offset>>
         /\ reply' \in Seq(Answers)
<1> USE DEF Exact, BufferInvariant
<1>1. PICK taken \in 0 .. Len(Unread) :
        /\ dir = "in" /\ call.op \in Gets
        /\ reply' = reply \o SubSeq(Unread, 1, taken)
        /\ index' = index + taken
        /\ call' \in CallType /\ call'.op \in {"none", call.op}
        /\ UNCHANGED <<mode, file, fpos, pos, buf, dir, open, flushing, offset>>
  BY ConsumeIs
<1>2. ~flushing /\ open
  BY <1>1 DEF FlushIsOutput, Gets
<1>3. /\ Unread \in Seq(Bytes) /\ Len(Unread) = Used - index /\ EndsAt(file, pos, Unread)
      /\ Unread # <<>> => pos <= Len(file)
      /\ Used <= pos
  BY <1>1, UnreadIs DEF PlainUse, BufferIsFile
<1> DEFINE got == SubSeq(Unread, 1, taken)
<1>4. got \in Seq(Bytes) /\ Len(got) = taken /\ (taken = 0 => got = <<>>)
  <2>1. Len(Unread) \in Nat /\ 1 \in Int /\ taken \in Int /\ taken <= Len(Unread)
    BY <1>3, LenProperties
  <2>2. \A i \in 1 .. taken : Unread[i] \in Bytes
    BY <1>3, <2>1, ElementOfSeq
  <2>3. got \in Seq(Bytes) /\ Len(got) = IF 1 <= taken THEN taken - 1 + 1 ELSE 0
    BY <2>1, <2>2, SubSeqProperties
  <2> HIDE DEF got
  <2>4. Len(got) = taken
    BY <2>1, <2>3
  <2> QED BY <2>3, <2>4, EmptySeq
<1>5. reply' \in Seq(Answers) /\ (taken = 0 => reply' = reply)
  <2>1. got \in Seq(Answers)
    <3> HIDE DEF got
    <3>1. \A i \in 1 .. Len(got) : got[i] \in Answers
      BY <1>4, ElementOfSeq DEF Answers
    <3> QED BY <1>4, <3>1, IsASeq
  <2>2. reply' = reply \o got
    BY <1>1
  <2> HIDE DEF got
  <2> QED BY <1>4, <2>1, <2>2, ConcatProperties, ConcatEmptySeq
<1> HIDE DEF got
<1>6. /\ Content = file /\ Content' = Content /\ PortPosition = pos - (Used - index)
      /\ PortPosition \in Nat
  BY <1>1, Outside DEF Content
<1>7. PortPosition' = PortPosition + taken
  <2>1. Used' = Used /\ PortPosition' = pos' - (Used' - index')
    BY <1>1 DEF PortPosition, Used
  <2>2. taken \in Nat /\ pos' = pos /\ index' = index + taken
    BY <1>1
  <2>3. PortPosition' = pos - (Used - (index + taken)) /\ PortPosition = pos - (Used - index)
    BY <1>6, <2>1, <2>2, Zenon
  <2>4. pos \in Nat /\ Used \in Nat /\ index \in Nat
    BY Types
  <2>5. taken \in Nat
    BY <2>2
  <2>6. PortPosition' = pos - (Used - (index + taken))
    BY <2>3
  <2>7. PortPosition = pos - (Used - index)
    BY <2>3
  <2>8. pos - (Used - (index + taken)) = (pos - (Used - index)) + taken
    BY <2>4, <2>5
  <2> QED BY <2>6, <2>7, <2>8
<1>8. CASE taken = 0
  BY <1>1, <1>2, <1>5, <1>6, <1>7, <1>8 DEF Stays
<1>9. CASE taken # 0
  <2>1. taken \in 1 .. Len(Unread) /\ Len(Unread) \in Nat /\ taken \in Nat
    BY <1>3, <1>9, LenProperties
  <2>2. Unread # <<>>
    BY <2>1, EmptySeq
  <2>3. PortPosition = pos - Len(Unread) /\ Len(Unread) <= pos /\ pos <= Len(file)
    <3>1. PICK u : u = Len(Unread) /\ u = Used - index
      BY <1>3
    <3>2. PortPosition = pos - u
      BY <1>6, <3>1
    <3>3. u <= pos
      BY <1>3, <3>1, Numbers
    <3>4. pos <= Len(file)
      BY <1>3, <2>2
    <3> QED BY <3>1, <3>2, <3>3, <3>4
  <2>4. got = SubSeq(file, PortPosition + 1, PortPosition + taken)
    <3>1. file \in Seq(Bytes) /\ pos \in Nat
      BY Types
    <3>2. Unread \in Seq(Bytes) /\ EndsAt(file, pos, Unread) /\ taken \in 1 .. Len(Unread)
      BY <1>3, <2>1
    <3>3. /\ Unread # <<>> => pos <= Len(file)
          /\ Len(Unread) <= pos /\ PortPosition = pos - Len(Unread)
      BY <1>3, <2>3
    <3>4. Begins(Unread, taken, file, PortPosition)
      BY <3>1, <3>2, <3>3, Beginning
    <3> QED BY <3>4, Zenon DEF got, Begins
  <2>5. PortPosition + taken <= Len(file) /\ taken \in 1 .. Len(file)
    BY <2>1, <2>3, Numbers
  <2>6. reply' = reply \o SubSeq(Content, PortPosition + 1, PortPosition + taken)
    BY <1>1, <1>6, <2>4, Zenon DEF got
  <2>7. /\ open /\ PortPosition + taken <= Len(Content) /\ PortPosition' = PortPosition + taken
        /\ UNCHANGED <<Content, open>>
    BY <1>1, <1>2, <1>6, <1>7, <2>5
  <2>8. Port!Take(taken)
    BY <2>6, <2>7, Zenon DEF Port!Take
  <2>9. taken \in 1 .. Len(Content)
    BY <1>6, <2>5
  <2> QED BY <1>1, <1>2, <1>5, <2>8, <2>9
<1> QED BY <1>8, <1>9

\* What is answered to a look for N octets when BS are at hand.
Told(bs, n, missing) ==
  IF n - Len(bs) <= 0 THEN SubSeq(bs, 1, n) ELSE bs \o [i \in 1 .. n - Len(bs) |-> missing]

\* TOLD are the N octets of F behind AT as far as they are known.
Tells(f, at, n, missing, told) ==
  \E k \in 0 .. n :
    /\ k = 0 \/ at + k <= Len(f)
    /\ (missing = EofObject /\ k < n) => at + k >= Len(f)
    /\ told = SubSeq(f, at + 1, at + k) \o [i \in 1 .. n - k |-> missing]

\* The octets at hand end at P, and are those at the position of the port.
LEMMA ToldIs ==
  ASSUME NEW f \in Seq(Bytes), NEW p \in Nat, NEW bs \in Seq(Bytes), EndsAt(f, p, bs),
         bs # <<>> => p <= Len(f), Len(bs) <= p, NEW at, at = p - Len(bs),
         NEW n \in {1, 2}, NEW missing \in {EofObject, WouldBlock},
         missing = EofObject => p >= Len(f)
  PROVE  /\ Tells(f, at, n, missing, Told(bs, n, missing))
         /\ Told(bs, n, missing) \in Seq(Answers)
<1> DEFINE k == IF Len(bs) < n THEN Len(bs) ELSE n
           known == SubSeq(f, at + 1, at + k)
           rest == [i \in 1 .. n - k |-> missing]
<1>1. /\ Len(bs) \in Nat /\ Len(f) \in Nat /\ n \in Nat /\ at \in Nat
      /\ k \in 0 .. n /\ k <= Len(bs) /\ n - k \in Nat
  <2>1. Len(bs) \in Nat /\ Len(f) \in Nat
    BY LenProperties
  <2> QED BY <2>1
<1>2. k = 0 \/ at + k <= Len(f)
  <2> SUFFICES ASSUME k # 0 PROVE at + k <= Len(f)
    OBVIOUS
  <2>1. bs # <<>>
    BY <1>1, EmptySeq
  <2> HIDE DEF k
  <2> QED BY <1>1, <2>1
<1>3. (missing = EofObject /\ k < n) => at + k >= Len(f)
  BY <1>1
<1>4. known = SubSeq(bs, 1, k)
  <2>1. CASE k = 0
    <3>1. at + 1 \in Int /\ at + k \in Int /\ at + k < at + 1 /\ 1 \in Int /\ k \in Int /\ k < 1
      BY <1>1, <2>1
    <3> HIDE DEF k
    <3>2. known = <<>> /\ SubSeq(bs, 1, k) = <<>>
      BY <3>1, SubSeqEmpty
    <3> QED BY <3>2
  <2>2. CASE k # 0
    <3>1. k \in 1 .. Len(bs)
      BY <1>1, <2>2
    <3> HIDE DEF k
    <3>2. Begins(bs, k, f, at)
      BY <3>1, Beginning
    <3> QED BY <3>2, Zenon DEF Begins
  <2> QED BY <2>1, <2>2
<1>5. rest \in Seq(Answers) /\ (n = k => rest = <<>>)
  <2>1. missing \in Answers
    BY DEF Answers
  <2>2. \A i \in 1 .. n - k : missing \in Answers
    BY <2>1
  <2>3. rest \in Seq(Answers) /\ Len(rest) = n - k
    <3> HIDE DEF k
    <3> QED BY <1>1, <2>2, IsASeq
  <2> HIDE DEF k, rest
  <2> QED BY <1>1, <2>3, EmptySeq
<1>6. SubSeq(bs, 1, k) \in Seq(Answers) /\ (k = Len(bs) => SubSeq(bs, 1, k) = bs)
  <2>1. \A i \in 1 .. k : bs[i] \in Answers
    BY <1>1, ElementOfSeq DEF Answers
  <2>2. 1 \in Int /\ k \in Int
    BY <1>1
  <2> HIDE DEF k
  <2>3. SubSeq(bs, 1, k) \in Seq(Answers)
    BY <2>1, <2>2, SubSeqProperties
  <2>4. SubSeq(bs, 1, Len(bs)) = bs
    BY SubSeqFull
  <2> QED BY <2>3, <2>4, Zenon
<1>7. Told(bs, n, missing) = known \o rest
  <2>1. CASE Len(bs) < n
    <3>1. k = Len(bs) /\ ~(n - Len(bs) <= 0)
      BY <1>1, <2>1
    <3>2. Told(bs, n, missing) = bs \o [i \in 1 .. n - Len(bs) |-> missing]
      BY <3>1, Zenon DEF Told
    <3> HIDE DEF k
    <3> QED BY <1>4, <1>6, <3>1, <3>2, Zenon
  <2>2. CASE ~(Len(bs) < n)
    <3>1. k = n /\ n - Len(bs) <= 0
      BY <1>1, <2>2
    <3>2. Told(bs, n, missing) = SubSeq(bs, 1, k)
      BY <3>1, Zenon DEF Told
    <3> HIDE DEF k, known, rest
    <3>3. known \o rest = known
      BY <1>4, <1>5, <1>6, <3>1, ConcatEmptySeq
    <3> QED BY <1>4, <3>2, <3>3, Zenon
  <2> QED BY <2>1, <2>2
<1>8. known \o rest \in Seq(Answers)
  <2> HIDE DEF known, rest, k
  <2>1. known \in Seq(Answers)
    BY <1>4, <1>6, Zenon
  <2> QED BY <1>5, <2>1, ConcatProperties
<1> HIDE DEF k
<1>9. Tells(f, at, n, missing, Told(bs, n, missing))
  BY <1>1, <1>2, <1>3, <1>7, Zenon DEF Tells
<1> QED BY <1>7, <1>8, <1>9, Zenon

\* A look for N octets, of which the port has those that end at P.
LEMMA LookMaps ==
  ASSUME PlainUse, Exact, dir = "in", open, UNCHANGED <<file, dir, open>>,
         PortPosition' = PortPosition,
         NEW p \in Nat, NEW bs \in Seq(Bytes), EndsAt(file, p, bs),
         bs # <<>> => p <= Len(file), Len(bs) <= p, PortPosition = p - Len(bs),
         NEW n \in {1, 2}, NEW missing \in {EofObject, WouldBlock},
         missing = EofObject => p >= Len(file),
         reply' = Told(bs, n, missing)
  PROVE  Port!Look(n) /\ Stays /\ reply' \in Seq(Answers)
<1>1. Content = file /\ Content' = Content /\ file \in Seq(Bytes)
  BY Types DEF Content, Exact, BufferInvariant
<1>2. PICK k \in 0 .. n :
        /\ k = 0 \/ PortPosition + k <= Len(file)
        /\ (missing = EofObject /\ k < n) => PortPosition + k >= Len(file)
        /\ Told(bs, n, missing) = SubSeq(file, PortPosition + 1, PortPosition + k)
                                    \o [i \in 1 .. n - k |-> missing]
  <2>1. Tells(file, PortPosition, n, missing, Told(bs, n, missing))
    BY <1>1, ToldIs
  <2> QED BY <2>1, Zenon DEF Tells
<1>3. reply' \in Seq(Answers)
  BY <1>1, ToldIs
<1>4. missing \in {Port!EofObject, Port!WouldBlock} /\ Port!EofObject = EofObject
  BY DEF Port!EofObject, Port!WouldBlock, EofObject, WouldBlock
<1>5. /\ k = 0 \/ PortPosition + k <= Len(Content)
      /\ (missing = Port!EofObject /\ k < n) => PortPosition + k >= Len(Content)
      /\ reply' = SubSeq(Content, PortPosition + 1, PortPosition + k)
                    \o [i \in 1 .. n - k |-> missing]
  BY <1>1, <1>2, <1>4, Zenon
<1>6. open /\ UNCHANGED <<Content, PortPosition, open>>
  BY <1>1
<1>7. Port!Look(n)
  BY <1>4, <1>5, <1>6, Zenon DEF Port!Look
<1> QED BY <1>1, <1>3, <1>7 DEF Stays

LEMMA ShortIs ==
  ASSUME NEW bs, NEW missing
  PROVE  Short(bs, missing) = Told(bs, Wanted, missing) /\ Wanted \in {1, 2}
<1>1. Wanted \in {1, 2}
  BY DEF Wanted
<1>2. Short(bs, missing) = Told(bs, Wanted, missing)
  BY Zenon DEF Short, Told
<1> QED BY <1>1, <1>2

\* The octets of a port used for input.
LEMMA Inside ==
  ASSUME PlainUse, Exact, dir = "in"
  PROVE  /\ Unread \in Seq(Bytes) /\ EndsAt(file, pos, Unread)
         /\ Unread # <<>> => pos <= Len(file)
         /\ Len(Unread) = Used - index /\ Len(Unread) <= pos /\ Len(Unread) \in Nat
         /\ PortPosition = pos - Len(Unread) /\ pos \in Nat /\ pos = fpos
         /\ ~flushing /\ offset = 0
<1> USE DEF Exact, BufferInvariant
<1>1. /\ Unread \in Seq(Bytes) /\ EndsAt(file, pos, Unread) /\ Len(Unread) = Used - index
      /\ Unread # <<>> => pos <= Len(file)
      /\ Used <= pos
  BY UnreadIs DEF BufferIsFile, PlainUse
<1>2. PortPosition = pos - (Used - index) /\ pos = fpos /\ ~flushing /\ offset = 0
  BY Outside
<1>3. Len(Unread) <= pos /\ Len(Unread) \in Nat /\ pos \in Nat
  <2>1. Used - index <= pos /\ Used - index \in Nat /\ pos \in Nat
    BY <1>1, Types
  <2> QED BY <1>1, <2>1
<1> QED BY <1>1, <1>2, <1>3

LEMMA PeekMaps ==
  ASSUME PlainUse, Exact, Peek
  PROVE  /\ Port!Look(1) \/ Port!Look(2)
         /\ Stays /\ reply' \in Seq(Answers) /\ ~flushing /\ UNCHANGED <<dir, offset>>
<1>1. /\ dir = "in" /\ call.op \in Looks /\ Len(Unread) >= Wanted
      /\ reply' = SubSeq(Unread, 1, Wanted)
      /\ UNCHANGED <<file, pos, buf, index, dir, open, offset>>
  BY DEF Peek, Getting, device, buffer
<1>2. open
  BY <1>1 DEF Exact, BufferInvariant, FlushIsOutput, Looks
<1>3. Wanted - Len(Unread) <= 0 /\ Wanted \in {1, 2}
  <2>1. Wanted \in {1, 2}
    BY ShortIs
  <2>2. Wanted - Len(Unread) <= 0
    BY <1>1, <2>1, Inside
  <2> QED BY <2>1, <2>2
<1>4. reply' = Told(Unread, Wanted, WouldBlock)
  BY <1>1, <1>3, Zenon DEF Told
<1>5. Stays
  BY <1>1, SameInside
<1>6. Port!Look(Wanted) /\ reply' \in Seq(Answers)
  <2>1. WouldBlock # EofObject /\ PortPosition' = PortPosition
    BY <1>5 DEF WouldBlock, EofObject, Stays
  <2> QED BY <1>1, <1>2, <1>3, <1>4, <2>1, Inside, LookMaps
<1> QED BY <1>1, <1>3, <1>5, <1>6, Inside

\* Octets are read from the device: the port stays where it is.
LEMMA RefillMaps ==
  ASSUME PortAssumptions, PlainUse, Exact, Getting(Gets \cup Looks), open,
         NEW n \in 1 .. Size, Refill(n), UNCHANGED <<file, dir, open, offset>>
  PROVE  /\ Stays
         /\ reply' = reply \/ Port!Look(2)
         /\ reply' \in Seq(Answers)
<1> USE DEF Exact, BufferInvariant
<1>1. dir = "in" /\ buf' = Shifted \o SubSeq(file, fpos + 1, fpos + n)
  BY DEF Getting, Refill
<1>2. fpos + n <= Len(file) /\ index' = 0 /\ pos' = pos + n /\ n \in Nat /\ n > 0
  BY DEF Refill, Advanced
<1>3. /\ buf' \in Seq(Bytes) /\ Len(buf') = Len(Unread) + n
      /\ EndsAt(file, pos + n, buf')
  BY <1>1, <1>2, RefilledIs DEF Shifted, PlainUse
<1>4. /\ Len(Unread) <= pos /\ Len(Unread) \in Nat /\ PortPosition = pos - Len(Unread)
      /\ pos \in Nat /\ pos = fpos
  BY <1>1, Inside
<1>5. PICK l \in Nat : l = Len(buf') /\ l = Len(Unread) + n
  BY <1>2, <1>3, <1>4
<1>6. /\ PortPosition = (pos + n) - l /\ l <= pos + n /\ pos + n \in Nat
      /\ pos + n <= Len(file)
  BY <1>2, <1>4, <1>5
<1>7. PortPosition' = PortPosition
  <2>1. PortPosition' = pos' - (Used' - index') /\ Used' = l
    BY <1>1, <1>5 DEF PortPosition, Used
  <2>2. PortPosition' = (pos + n) - (l - 0)
    BY <1>2, <2>1
  <2> QED BY <1>5, <1>6, <2>2
<1>8. Content' = Content
  BY <1>1 DEF Content
<1>9. CASE reply' = reply
  BY <1>7, <1>8, <1>9 DEF Stays
<1>10. CASE reply' # reply
  <2>1. reply' = Short(buf', WouldBlock) /\ call.op = "lookahead-two-u8"
    BY <1>10 DEF Refill
  <2>2. Wanted = 2
    BY <2>1 DEF Wanted
  <2>3. reply' = Told(buf', 2, WouldBlock)
    BY <2>1, <2>2, ShortIs, Zenon
  <2>4. WouldBlock # EofObject /\ 2 \in {1, 2} /\ WouldBlock \in {EofObject, WouldBlock}
    BY DEF WouldBlock, EofObject
  <2>5. Len(buf') <= pos + n /\ PortPosition = (pos + n) - Len(buf')
    BY <1>5, <1>6
  <2>6. Port!Look(2) /\ reply' \in Seq(Answers)
    BY <1>1, <1>3, <1>6, <1>7, <2>3, <2>4, <2>5, LookMaps
  <2> QED BY <1>7, <1>8, <2>6 DEF Stays
<1> QED BY <1>9, <1>10

\* The device gives nothing: MISSING says why.
LEMMA NothingRead ==
  ASSUME PlainUse, Exact, Getting(Gets \cup Looks), open,
         UNCHANGED <<file, dir, open, offset, fpos, pos>>, buf' = Shifted, index' = 0,
         call.op \notin Looks => Len(Unread) < 1,
         NEW missing \in {EofObject, WouldBlock}, missing = EofObject => AtEof,
         \/ reply' = reply
         \/ call.op \in Looks /\ reply' = Short(buf', missing)
         \/ call.op \notin Looks /\ reply' = <<missing>>
  PROVE  /\ Stays
         /\ reply' = reply \/ Port!Look(1) \/ Port!Look(2)
         /\ reply' \in Seq(Answers)
<1> USE DEF Exact, BufferInvariant
<1>1. dir = "in" /\ buf' = Unread /\ pos' = pos /\ index' = 0
  BY DEF Getting, Shifted
<1>2. /\ Unread \in Seq(Bytes) /\ EndsAt(file, pos, Unread)
      /\ Unread # <<>> => pos <= Len(file)
      /\ Len(Unread) <= pos /\ Len(Unread) \in Nat /\ PortPosition = pos - Len(Unread)
      /\ pos \in Nat /\ pos = fpos
  BY <1>1, Inside
<1>3. PortPosition' = PortPosition
  <2>1. PortPosition' = pos' - (Used' - index') /\ Used' = Len(Unread)
    BY <1>1 DEF PortPosition, Used
  <2>2. PortPosition' = pos - (Len(Unread) - 0)
    BY <1>1, <2>1
  <2> QED BY <1>2, <2>2
<1>4. Content' = Content
  BY <1>1 DEF Content
<1>5. missing = EofObject => pos >= Len(file)
  BY <1>2 DEF AtEof
<1>6. ASSUME NEW n \in {1, 2}, reply' = Told(Unread, n, missing)
      PROVE  Port!Look(n) /\ reply' \in Seq(Answers)
  BY <1>1, <1>2, <1>3, <1>5, <1>6, LookMaps
<1>7. CASE reply' = reply
  BY <1>3, <1>4, <1>7 DEF Stays
<1>8. CASE call.op \in Looks /\ reply' = Short(buf', missing)
  <2>1. reply' = Told(Unread, Wanted, missing) /\ Wanted \in {1, 2}
    BY <1>1, <1>8, ShortIs, Zenon
  <2>2. Port!Look(Wanted) /\ reply' \in Seq(Answers)
    BY <1>6, <2>1
  <2> QED BY <1>3, <1>4, <2>1, <2>2 DEF Stays
<1>9. CASE call.op \notin Looks /\ reply' = <<missing>>
  <2>1. Unread = <<>> /\ Len(Unread) = 0
    BY <1>2, <1>9, EmptySeq
  <2>2. Told(Unread, 1, missing) = <<>> \o [i \in 1 .. 1 |-> missing]
    <3>1. ~(1 - Len(Unread) <= 0) /\ 1 - Len(Unread) = 1
      BY <2>1
    <3> QED BY <2>1, <3>1, Zenon DEF Told
  <2>3. <<>> \o [i \in 1 .. 1 |-> missing] = <<missing>>
    <3>1. [i \in 1 .. 1 |-> missing] = <<missing>> /\ <<missing>> \in Seq({missing})
      OBVIOUS
    <3> QED BY <3>1, ConcatEmptySeq, Zenon
  <2>4. Port!Look(1) /\ reply' \in Seq(Answers)
    BY <1>6, <1>9, <2>2, <2>3
  <2> QED BY <1>3, <1>4, <2>4 DEF Stays
<1> QED BY <1>7, <1>8, <1>9

LEMMA FromDeviceMaps ==
  ASSUME PortAssumptions, PlainUse, Exact, FromDevice
  PROVE  /\ reply' = reply \/ Port!Look(1) \/ Port!Look(2)
         /\ Stays /\ reply' \in Seq(Answers) /\ ~flushing /\ UNCHANGED <<dir, open, offset>>
<1>1. /\ Getting(Gets \cup Looks) /\ UNCHANGED <<file, dir, open, flushing, offset>>
      /\ Len(Unread) < (IF call.op \in Looks THEN Wanted ELSE 1)
  BY DEF FromDevice
<1>2. open /\ dir = "in" /\ ~flushing
  BY <1>1, Inside DEF Getting, Exact, BufferInvariant, FlushIsOutput, Gets, Looks
<1>3. ASSUME NEW n \in 1 .. Size, Refill(n)
      PROVE  Stays /\ (reply' = reply \/ Port!Look(2)) /\ reply' \in Seq(Answers)
  BY <1>1, <1>2, <1>3, RefillMaps
<1>4. call.op \notin Looks => Len(Unread) < 1
  BY <1>1
<1>5. CASE RefillEof
  <2>1. /\ buf' = Shifted /\ index' = 0 /\ UNCHANGED <<fpos, pos>> /\ AtEof
        /\ \/ reply' = reply
           \/ call.op \in Looks /\ reply' = Short(buf', EofObject)
           \/ call.op \notin Looks /\ reply' = <<EofObject>>
    BY <1>5 DEF RefillEof
  <2> QED BY <1>1, <1>2, <1>4, <2>1, NothingRead
<1>6. CASE RefillWouldBlock
  <2>1. /\ buf' = Shifted /\ index' = 0 /\ UNCHANGED <<fpos, pos>>
        /\ \/ reply' = reply
           \/ call.op \in Looks /\ reply' = Short(buf', WouldBlock)
           \/ call.op \notin Looks /\ reply' = <<WouldBlock>>
    BY <1>6 DEF RefillWouldBlock
  <2>2. WouldBlock # EofObject
    BY DEF WouldBlock, EofObject
  <2> QED BY <1>1, <1>2, <1>4, <2>1, <2>2, NothingRead
<1> QED BY <1>1, <1>2, <1>3, <1>5, <1>6 DEF FromDevice

LEMMA SetPortPositionMaps ==
  ASSUME PortAssumptions, PlainUse, Exact, SetPortPosition
  PROVE  /\ Stays \/ Port!Seek
         /\ ~flushing /\ UNCHANGED <<dir, open, reply>> /\ offset' \in {0, offset}
<1> USE DEF Exact, BufferInvariant
<1>1. PICK to \in Targets :
        LET new    == index + to - PortPosition
            inside == new \in 0 .. Used
        IN /\ inside /\ dir = "out" => Rewinds
           /\ IF inside
                THEN /\ index' = new
                     /\ UNCHANGED <<fpos, pos, buf, call, flushing, offset>>
                ELSE IF dir = "out"
                THEN /\ call' = [NoCall EXCEPT !.op = "set-port-position!", !.to = to]
                     /\ StartsFlush
                     /\ UNCHANGED <<fpos, pos, buf, index>>
                ELSE /\ fpos' = to /\ pos' = to /\ buf' = <<>> /\ index' = 0
                     /\ UNCHANGED <<call, flushing, offset>>
  BY DEF SetPortPosition, buffer
<1>2. call = NoCall /\ open /\ UNCHANGED <<file, dir, open, reply>> /\ to \in Nat
  BY DEF SetPortPosition, PortAssumptions
<1>3. ~flushing /\ offset' \in {0, offset}
  <2>1. ~flushing
    BY <1>2, Outside
  <2> QED BY <1>1, <2>1 DEF StartsFlush
<1>4. CASE index + to - PortPosition \in 0 .. Used
  <2>1. dir # "out" /\ UNCHANGED <<pos, buf>> /\ index' \in 0 .. Used
    BY <1>1, <1>4 DEF PlainUse
  <2>2. Content' = Content /\ PortPosition' = pos - (Used - index')
    BY <1>2, <2>1 DEF Content, PortPosition, Used
  <2>3. Used <= pos
    BY <2>1 DEF BufferIsFile, TypeOK
  <2>4. PortPosition' \in Nat
    BY <2>1, <2>2, <2>3, Types
  <2>5. Port!Seek
    BY <1>2, <2>2, <2>4, Zenon DEF Port!Seek
  <2> QED BY <1>2, <1>3, <2>5
<1>5. CASE index + to - PortPosition \notin 0 .. Used /\ dir = "out"
  <2>1. offset' = 0 /\ UNCHANGED <<pos, buf, index>>
    BY <1>1, <1>5 DEF StartsFlush
  <2>2. offset = 0
    BY <1>2, Outside
  <2> QED BY <1>2, <1>3, <2>1, <2>2, SameInside
<1>6. CASE index + to - PortPosition \notin 0 .. Used /\ dir # "out"
  <2>1. pos' = to /\ buf' = <<>> /\ index' = 0
    BY <1>1, <1>6
  <2>2. Used' = 0
    BY <2>1, EmptySeq DEF Used
  <2>3. Content' = Content /\ PortPosition' = to - (0 - 0)
    BY <1>2, <1>6, <2>1, <2>2 DEF Content, PortPosition
  <2>4. PortPosition' \in Nat
    BY <1>2, <2>3
  <2>5. Port!Seek
    BY <1>2, <2>3, <2>4, Zenon DEF Port!Seek
  <2> QED BY <1>2, <1>3, <2>5
<1> QED BY <1>2, <1>3, <1>4, <1>5, <1>6

\* The buffer is empty when the device is positioned.
LEMMA SetDevicePositionMaps ==
  ASSUME PlainUse, Exact, SetDevicePosition
  PROVE  Port!Seek /\ ~flushing /\ UNCHANGED <<dir, offset, reply>>
<1> USE DEF Exact, BufferInvariant
<1>1. /\ call.op = "set-port-position!" /\ ~flushing
      /\ pos' = call.to /\ buf' = <<>> /\ index' = 0
      /\ UNCHANGED <<file, dir, open, flushing, offset, reply>>
  BY DEF SetDevicePosition
<1>2. call.to \in Nat /\ offset = 0 /\ open
  BY <1>1 DEF TypeOK, FlushIsOutput
<1>3. Used' = 0
  BY <1>1, EmptySeq DEF Used
<1>4. Content = file /\ Content' = file
  <2>1. dir = "out" => buf = <<>>
    BY <1>1 DEF OutputAtEnd, PlainUse
  <2>2. Content = file
    BY <2>1, Outside
  <2>3. Content' = file
    BY <1>1 DEF Content, Overwritten
  <2> QED BY <2>2, <2>3
<1>5. PortPosition' \in Nat
  <2>1. PortPosition' = call.to - 0 + 0 \/ PortPosition' = call.to - (0 - 0)
    BY <1>1, <1>2, <1>3 DEF PortPosition
  <2> QED BY <1>2, <2>1
<1>6. open /\ UNCHANGED <<Content, open, reply>>
  BY <1>1, <1>2, <1>4
<1>7. Port!Seek
  BY <1>5, <1>6, Zenon DEF Port!Seek
<1> QED BY <1>1, <1>7

LEMMA ClosePortMaps ==
  ASSUME PlainUse, Exact, ClosePort
  PROVE  Stays /\ ~flushing /\ offset' = 0 /\ UNCHANGED <<dir, open, reply>>
<1>1. call = NoCall /\ UNCHANGED <<file, pos, buf, index, dir, open, reply>>
  BY DEF ClosePort, device, buffer
<1>2. offset = 0 /\ ~flushing
  BY <1>1, Outside
<1>3. offset' = 0
  BY <1>2 DEF ClosePort, StartsFlush
<1> QED BY <1>1, <1>2, <1>3, SameInside

\* What was put is in the file when the port is closed.
LEMMA MarkAsClosedMaps ==
  ASSUME PlainUse, Exact, MarkAsClosed
  PROVE  Port!Close /\ Stays /\ ~flushing /\ UNCHANGED <<dir, reply, offset>>
<1> USE DEF Exact, BufferInvariant
<1>1. /\ call.op = "close-port" /\ ~flushing /\ open' = FALSE
      /\ UNCHANGED <<file, pos, buf, index, dir, offset, reply>>
  BY DEF MarkAsClosed, device, buffer
<1>2. Content = file /\ Content' = file
  <2>1. dir = "out" => buf = <<>>
    BY <1>1 DEF OutputAtEnd, PlainUse
  <2>2. Content = file
    BY <2>1, Outside
  <2>3. Content' = file
    BY <1>1 DEF Content
  <2> QED BY <2>2, <2>3
<1>3. PortPosition' = PortPosition
  BY <1>1 DEF PortPosition, Used
<1>4. Port!Close
  BY <1>1, <1>2, <1>3 DEF Port!Close
<1> QED BY <1>1, <1>2, <1>3, <1>4 DEF Stays

\* What is in the buffer of a port used for input is skipped.
LEMMA ResetsMaps ==
  ASSUME PlainUse, Exact, ResetInputPort \/ ResetOutputPort
  PROVE  /\ Stays \/ Port!Seek
         /\ ~flushing /\ UNCHANGED <<dir, open, reply, offset>>
<1> USE DEF Exact, BufferInvariant
<1>1. /\ call = NoCall /\ open /\ index' = Used
      /\ UNCHANGED <<file, pos, buf, dir, open, offset, reply>>
  BY DEF ResetInputPort, ResetOutputPort, device, PlainUse
<1>2. ~flushing
  BY <1>1, Outside
<1>3. CASE dir = "out"
  <2>1. index' = index
    BY <1>1, <1>3, Outside
  <2> QED BY <1>1, <1>2, <2>1, SameInside
<1>4. CASE dir # "out"
  <2>1. Content' = Content /\ PortPosition' = pos - (Used - Used)
    BY <1>1, <1>4 DEF Content, PortPosition, Used
  <2>2. PortPosition' \in Nat
    BY <2>1, Types
  <2>3. Port!Seek
    BY <1>1, <2>1, <2>2, Zenon DEF Port!Seek
  <2> QED BY <1>1, <1>2, <2>3
<1> QED BY <1>1, <1>2, <1>3, <1>4

-----------------------------------------------------------------------------
(* Every step, and the theorems.                                          *)

\* A step of the port is one of the file or none, and is right.
Right ==
  /\ [Port!Next]_(Port!vars)
  /\ flushing \/ dir' # dir => Stays
  /\ offset' > 0 => "again" \notin Outcomes
  /\ reply' \in Seq(Answers)

LEMMA StaysRight ==
  ASSUME Exact, Stays, UNCHANGED <<open, reply>>, offset' \in {0, offset}
  PROVE  Right
<1>1. UNCHANGED Port!vars
  BY DEF Stays, Port!vars
<1>2. offset' > 0 => "again" \notin Outcomes
  BY DEF Exact
<1> QED BY <1>1, <1>2 DEF Right, Exact

LEMMA MovesRight ==
  ASSUME Exact, Port!Next, ~flushing, dir' = dir, offset' = offset, reply' \in Seq(Answers)
  PROVE  Right
  BY DEF Right, Exact

LEMMA WorksRight ==
  ASSUME PortAssumptions, PlainUse, Exact, Works
  PROVE  Right
<1>1. CASE FlushWrite
  <2>1. /\ Stays /\ UNCHANGED <<dir, open, reply>>
        /\ offset' > 0 => "again" \notin Outcomes
    BY <1>1, FlushWriteMaps
  <2>2. UNCHANGED Port!vars
    BY <2>1 DEF Stays, Port!vars
  <2> QED BY <2>1, <2>2 DEF Right, Exact
<1>2. CASE FlushRaises
  BY <1>2, FlushRaisesMaps, StaysRight
<1>3. CASE PutAll \/ PutSome
  <2>1. /\ Stays \/ \E n \in 1 .. Len(Content') : Port!Put(n)
        /\ ~flushing /\ UNCHANGED <<dir, open, reply, offset>>
    BY <1>3, PutMaps
  <2>2. CASE Stays
    BY <2>1, <2>2, StaysRight
  <2>3. CASE \E n \in 1 .. Len(Content') : Port!Put(n)
    <3>1. Port!Next
      BY <2>3 DEF Port!Next
    <3> QED BY <2>1, <3>1, MovesRight DEF Exact
  <2> QED BY <2>1, <2>2, <2>3
<1>4. CASE ToInput
  BY <1>4, ToInputMaps, StaysRight
<1>5. CASE Consume
  <2>1. /\ \/ Stays /\ reply' = reply
           \/ \E n \in 1 .. Len(Content) : Port!Take(n)
        /\ ~flushing /\ UNCHANGED <<dir, open, offset>>
        /\ reply' \in Seq(Answers)
    BY <1>5, ConsumeMaps
  <2>2. CASE Stays /\ reply' = reply
    BY <2>1, <2>2, StaysRight
  <2>3. CASE \E n \in 1 .. Len(Content) : Port!Take(n)
    <3>1. Port!Next
      BY <2>3 DEF Port!Next
    <3> QED BY <2>1, <3>1, MovesRight
  <2> QED BY <2>1, <2>2, <2>3
<1>6. CASE Peek
  <2>1. Port!Next
    BY <1>6, PeekMaps DEF Port!Next
  <2> QED BY <1>6, <2>1, PeekMaps, MovesRight
<1>7. CASE FromDevice
  <2>1. CASE reply' = reply
    BY <1>7, <2>1, FromDeviceMaps, StaysRight
  <2>2. CASE Port!Look(1) \/ Port!Look(2)
    <3>1. Port!Next
      BY <2>2 DEF Port!Next
    <3> QED BY <1>7, <3>1, FromDeviceMaps, MovesRight
  <2> QED BY <1>7, <2>1, <2>2, FromDeviceMaps
<1>8. CASE SetDevicePosition
  <2>1. Port!Next
    BY <1>8, SetDevicePositionMaps DEF Port!Next
  <2> QED BY <1>8, <2>1, SetDevicePositionMaps, MovesRight DEF Exact
<1>9. CASE MarkAsClosed
  <2>1. Port!Next
    BY <1>9, MarkAsClosedMaps DEF Port!Next
  <2> QED BY <1>9, <2>1, MarkAsClosedMaps, MovesRight DEF Exact
<1> QED BY <1>1, <1>2, <1>3, <1>4, <1>5, <1>6, <1>7, <1>8, <1>9 DEF Works

LEMMA CallsRight ==
  ASSUME PortAssumptions, PlainUse, Exact, PortNext, ~Works
  PROVE  Right
<1>1. CASE FlushOutputPort
  BY <1>1, FlushOutputPortMaps, StaysRight
<1>2. CASE PutBytevector
  BY <1>2, PutBytevectorMaps, StaysRight
<1>3. CASE Get
  <2>1. Port!Next
    BY <1>3, GetMaps DEF Port!Next
  <2>2. reply' \in Seq(Answers)
    BY <1>3, GetMaps, EmptySeq
  <2> QED BY <1>3, <2>1, <2>2, GetMaps, MovesRight
<1>4. CASE SetPortPosition
  <2>1. /\ Stays \/ Port!Seek
        /\ ~flushing /\ UNCHANGED <<dir, open, reply>> /\ offset' \in {0, offset}
    BY <1>4, SetPortPositionMaps
  <2>2. CASE Stays
    BY <2>1, <2>2, StaysRight
  <2>3. CASE Port!Seek
    <3>1. Port!Next
      BY <2>3 DEF Port!Next
    <3> QED BY <2>1, <3>1 DEF Right, Exact
  <2> QED BY <2>1, <2>2, <2>3
<1>5. CASE ClosePort
  BY <1>5, ClosePortMaps, StaysRight
<1>6. CASE ResetInputPort \/ ResetOutputPort
  <2>1. /\ Stays \/ Port!Seek
        /\ ~flushing /\ UNCHANGED <<dir, open, reply, offset>>
    BY <1>6, ResetsMaps
  <2>2. CASE Stays
    BY <2>1, <2>2, StaysRight
  <2>3. CASE Port!Seek
    <3>1. Port!Next
      BY <2>3 DEF Port!Next
    <3> QED BY <2>1, <3>1, MovesRight DEF Exact
  <2> QED BY <2>1, <2>2, <2>3
<1> QED BY <1>1, <1>2, <1>3, <1>4, <1>5, <1>6 DEF PortNext

LEMMA StepRight ==
  ASSUME PortAssumptions, PlainUse, Exact, [PortNext]_portVars
  PROVE  Right /\ Exact'
<1>1. CASE PortNext
  <2>1. Right
    BY <1>1, WorksRight, CallsRight
  <2>2. BufferInvariant'
    BY <1>1, NextStep DEF PlainUse, Exact
  <2> QED BY <2>1, <2>2 DEF Right, Exact
<1>2. CASE UNCHANGED portVars
  <2>1. UNCHANGED <<file, pos, buf, index, dir, open, offset, reply>>
    BY <1>2 DEF portVars
  <2>2. Stays
    BY <2>1, SameInside
  <2>3. BufferInvariant'
    BY <1>2, StutterStep DEF Exact
  <2>4. Right
    BY <2>1, <2>2, StaysRight
  <2> QED BY <2>3, <2>4 DEF Right, Exact
<1> QED BY <1>1, <1>2

LEMMA InitRight ==
  ASSUME PortAssumptions, PortInit
  PROVE  Exact /\ Port!Init
<1>1. BufferInvariant
  BY InitInvariant
<1>2. /\ file \in Seq(Octet) /\ pos = 0 /\ buf = <<>> /\ index = 0 /\ open = TRUE
      /\ offset = 0 /\ reply = <<>>
  BY DEF PortInit, PortAssumptions
<1>3. Exact
  BY <1>1, <1>2, EmptySeq DEF Exact
<1>4. Content = file
  BY <1>2 DEF Content, Overwritten
<1>5. PortPosition = 0
  <2>1. Used = 0
    BY <1>2, EmptySeq DEF Used
  <2> QED BY <1>2, <2>1 DEF PortPosition
<1>6. Port!Init
  BY <1>2, <1>4, <1>5 DEF Port!Init
<1> QED BY <1>3, <1>6

\* A binary port on a file is the file it is opened on: for any sizes, any device,
\* and any calls but those of PlainUse, every step of it is one that puts octets at
\* its position, takes or looks at those that are there, moves the position or closes
\* the port, or is not seen by its callers.
THEOREM PortIsFile ==
  ASSUME PortAssumptions, PlainUse PROVE PortSpec => ImplementsFile
<1>1. PortInit => Exact /\ Port!Init
  BY InitRight
<1>2. Exact /\ [PortNext]_portVars => Exact' /\ [Port!Next]_(Port!vars)
  BY StepRight DEF Right
<1> QED BY <1>1, <1>2, PTL DEF PortSpec, ImplementsFile, Port!Spec

\* A flush, completed or ended by an exception, and a switch between input and output
\* leave the port where it is, and the octets that were put are written once.
THEOREM FlushesKeepPort ==
  ASSUME PortAssumptions, PlainUse PROVE PortSpec => FlushKeepsPort
<1>1. PortInit => Exact
  BY InitRight
<1>2. Exact /\ [PortNext]_portVars
        => Exact' /\ [FlushKeepsPosition /\ FlushKeepsContent /\ SwitchKeepsPosition]_portVars
  <2>1. ASSUME Exact, [PortNext]_portVars
        PROVE  /\ Exact'
               /\ FlushKeepsPosition /\ FlushKeepsContent /\ SwitchKeepsPosition
    BY <2>1, StepRight
       DEF Right, Stays, FlushKeepsPosition, FlushKeepsContent, SwitchKeepsPosition
  <2> QED BY <2>1
<1> QED BY <1>1, <1>2, PTL DEF PortSpec, FlushKeepsPort

=============================================================================
