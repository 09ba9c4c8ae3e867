---------------------------- MODULE Control_proofs ----------------------------
(***************************************************************************)
(* What holds of call/cc and dynamic-wind for any number of winders, of    *)
(* escape functions and of calls under way; and of with-unwind-protection, *)
(* unwinding-call/cc and guard for any number of uses of them.             *)
(*                                                                         *)
(*   WindersHold        WindersInvariant, the inductive invariant, and     *)
(*                      with it GuardsAlternate and DynamicEnvironment     *)
(*   OnlyUncommonLeft   the property LeavesOnlyUncommon                    *)
(*   UnwindHolds        UnwindInvariant, whatever the unwind handlers do   *)
(*   AllAreCalled       AllHandlersCalled, if they protect and raise only  *)
(*   PlainCallsNone     PlainEscapeCallsNone, if they do                   *)
(*                                                                         *)
(* Lists of winders are compared from the outermost winder inwards: the    *)
(* first part says what pushing, popping and dropping do to the winders at *)
(* each depth.  The second is about all the lists and frames that there    *)
(* are, before and after a step; the third about what runs on a stack.     *)
(*                                                                         *)
(* The others are about UnwindProtection.  Its places are pairs of a stack *)
(* and the winders in force there: what the program reaches, captures and  *)
(* leaves is a set of places that a step adds to (UnwindInv).  The last    *)
(* two theorems need more: what is on the stack outside of the unwind      *)
(* handlers that run, which gives the parameter its value, and what is in  *)
(* them, which leaves it alone (Shape).                                    *)
(***************************************************************************)
EXTENDS Winders, UnwindProtection, FiniteSetTheorems, SequenceTheorems, TLAPS

-----------------------------------------------------------------------------
(* Lists by depth.                                                         *)

\* Two lists are the same if they have the same winder at each depth.
LEMMA SameList ==
  ASSUME NEW S, NEW x \in Seq(S), NEW y \in Seq(S), Len(x) = Len(y),
         \A d \in 1 .. Len(x) : AtDepth(x, d) = AtDepth(y, d)
  PROVE  x = y
<1>1. Len(x) \in Nat
  BY LenProperties
<1>2. ASSUME NEW i \in 1 .. Len(x) PROVE x[i] = y[i]
  <2>1. Len(x) - i + 1 \in 1 .. Len(x) /\ Len(x) - (Len(x) - i + 1) + 1 = i
    BY <1>1
  <2> QED BY <2>1 DEF AtDepth
<1> QED BY <1>2, SeqEqual

\* The last N winders of a list.
LEMMA LastOfIs ==
  ASSUME NEW S, NEW ls \in Seq(S), NEW n \in 0 .. Len(ls)
  PROVE  /\ LastOf(ls, n) \in Seq(S) /\ Len(LastOf(ls, n)) = n
         /\ \A d \in 1 .. n : AtDepth(LastOf(ls, n), d) = AtDepth(ls, d)
<1> DEFINE m == Len(ls) - n + 1
<1>1. Len(ls) \in Nat /\ n \in Nat
  BY LenProperties
<1>2. \A i \in m .. Len(ls) : ls[i] \in S
  BY <1>1, ElementOfSeq
<1>3. /\ SubSeq(ls, m, Len(ls)) \in Seq(S)
      /\ Len(SubSeq(ls, m, Len(ls))) = IF m <= Len(ls) THEN Len(ls) - m + 1 ELSE 0
      /\ \A i \in 1 .. Len(ls) - m + 1 : SubSeq(ls, m, Len(ls))[i] = ls[m + i - 1]
  <2>1. m \in Int /\ Len(ls) \in Int
    BY <1>1
  <2> HIDE DEF m
  <2> QED BY <1>2, <2>1, SubSeqProperties
<1>4. Len(LastOf(ls, n)) = n
  BY <1>1, <1>3 DEF LastOf
<1>5. ASSUME NEW d \in 1 .. n PROVE AtDepth(LastOf(ls, n), d) = AtDepth(ls, d)
  <2>1. n - d + 1 \in 1 .. Len(ls) - m + 1 /\ m + (n - d + 1) - 1 = Len(ls) - d + 1
    BY <1>1
  <2> QED BY <1>3, <1>4, <2>1 DEF AtDepth, LastOf
<1> QED BY <1>3, <1>4, <1>5 DEF LastOf

\* A tail of a list has its winders at the depths that it has.
LEMMA TailByDepth ==
  ASSUME NEW S, NEW t \in Seq(S), NEW ls \in Seq(S)
  PROVE  IsTail(t, ls) <=>
           /\ Len(t) <= Len(ls)
           /\ \A d \in 1 .. Len(t) : AtDepth(t, d) = AtDepth(ls, d)
<1>1. Len(t) \in Nat /\ Len(ls) \in Nat
  BY LenProperties
<1>2. CASE Len(t) <= Len(ls)
  <2>1. Len(t) \in 0 .. Len(ls)
    BY <1>1, <1>2
  <2>2. /\ LastOf(ls, Len(t)) \in Seq(S) /\ Len(LastOf(ls, Len(t))) = Len(t)
        /\ \A d \in 1 .. Len(t) : AtDepth(LastOf(ls, Len(t)), d) = AtDepth(ls, d)
    BY <2>1, LastOfIs
  <2>3. (\A d \in 1 .. Len(t) : AtDepth(t, d) = AtDepth(ls, d)) => t = LastOf(ls, Len(t))
    BY <2>2, SameList
  <2> QED BY <1>2, <2>2, <2>3 DEF IsTail
<1> QED BY <1>2 DEF IsTail

\* A list on which a winder was pushed.
LEMMA ConsIs ==
  ASSUME NEW S, NEW w \in S, NEW ls \in Seq(S)
  PROVE  /\ <<w>> \o ls \in Seq(S) /\ Len(<<w>> \o ls) = Len(ls) + 1
         /\ Head(<<w>> \o ls) = w /\ Tail(<<w>> \o ls) = ls
         /\ <<w>> \o ls # <<>>
         /\ (<<w>> \o ls)[1] = w
         /\ \A i \in 1 .. Len(ls) : (<<w>> \o ls)[i + 1] = ls[i]
         /\ AtDepth(<<w>> \o ls, Len(ls) + 1) = w
         /\ \A d \in 1 .. Len(ls) : AtDepth(<<w>> \o ls, d) = AtDepth(ls, d)
<1> DEFINE c == <<w>> \o ls
<1>1. Len(ls) \in Nat
  BY LenProperties
<1>2. <<w>> \in Seq(S) /\ Len(<<w>>) = 1 /\ <<w>>[1] = w
  OBVIOUS
<1>3. /\ c \in Seq(S) /\ Len(c) = 1 + Len(ls)
      /\ \A i \in 1 .. 1 + Len(ls) : c[i] = IF i <= 1 THEN <<w>>[i] ELSE ls[i - 1]
  BY <1>2, ConcatProperties
<1>4. c[1] = w /\ \A i \in 1 .. Len(ls) : c[i + 1] = ls[i]
  BY <1>1, <1>2, <1>3
<1>5. c # <<>>
  BY <1>1, <1>3
<1>6. Head(c) = w
  BY <1>3, <1>4, <1>5
<1>7. Tail(c) = ls
  <2>1. /\ Tail(c) \in Seq(S) /\ Len(Tail(c)) = Len(c) - 1
        /\ \A i \in 1 .. Len(Tail(c)) : Tail(c)[i] = c[i + 1]
    BY <1>3, <1>5, HeadTailProperties
  <2>2. Len(Tail(c)) = Len(ls) /\ \A i \in 1 .. Len(ls) : Tail(c)[i] = ls[i]
    BY <1>1, <1>3, <1>4, <2>1
  <2> HIDE DEF c
  <2> QED BY <2>1, <2>2, SeqEqual
<1>8. ASSUME NEW d \in 1 .. Len(ls) PROVE AtDepth(c, d) = AtDepth(ls, d)
  <2>1. Len(ls) - d + 1 \in 1 .. Len(ls) /\ Len(c) - d + 1 = (Len(ls) - d + 1) + 1
    BY <1>1, <1>3
  <2> HIDE DEF c
  <2> QED BY <1>4, <2>1 DEF AtDepth
<1>9. AtDepth(c, Len(ls) + 1) = w
  <2>1. Len(c) - (Len(ls) + 1) + 1 = 1
    BY <1>1, <1>3
  <2> HIDE DEF c
  <2> QED BY <1>4, <2>1 DEF AtDepth
<1>10. Len(c) = Len(ls) + 1
  BY <1>1, <1>3
<1> QED BY <1>3, <1>4, <1>5, <1>6, <1>7, <1>8, <1>9, <1>10

\* A list from which the innermost winder was popped.
LEMMA PoppedIs ==
  ASSUME NEW S, NEW ls \in Seq(S), ls # <<>>
  PROVE  /\ Head(ls) \in S /\ Tail(ls) \in Seq(S) /\ Len(Tail(ls)) = Len(ls) - 1
         /\ Len(ls) \in Nat \ {0}
         /\ Head(ls) = ls[1] /\ \A i \in 1 .. Len(ls) - 1 : Tail(ls)[i] = ls[i + 1]
         /\ AtDepth(ls, Len(ls)) = Head(ls)
         /\ \A d \in 1 .. Len(ls) - 1 : AtDepth(Tail(ls), d) = AtDepth(ls, d)
<1>1. Len(ls) \in Nat \ {0}
  BY EmptySeq, LenProperties
<1>2. /\ Head(ls) \in S /\ Tail(ls) \in Seq(S) /\ Len(Tail(ls)) = Len(ls) - 1
      /\ \A i \in 1 .. Len(Tail(ls)) : Tail(ls)[i] = ls[i + 1]
  BY HeadTailProperties
<1>3. Head(ls) = ls[1]
  OBVIOUS
<1>4. AtDepth(ls, Len(ls)) = Head(ls)
  <2>1. Len(ls) - Len(ls) + 1 = 1
    BY <1>1
  <2> QED BY <1>3, <2>1 DEF AtDepth
<1>5. ASSUME NEW d \in 1 .. Len(ls) - 1 PROVE AtDepth(Tail(ls), d) = AtDepth(ls, d)
  <2>1. /\ Len(Tail(ls)) - d + 1 \in 1 .. Len(Tail(ls))
        /\ Len(ls) - d + 1 = (Len(Tail(ls)) - d + 1) + 1
    BY <1>1, <1>2
  <2> QED BY <1>2, <2>1 DEF AtDepth
<1> QED BY <1>1, <1>2, <1>3, <1>4, <1>5

\* Tails of tails.
LEMMA TailTransitive ==
  ASSUME NEW S, NEW x \in Seq(S), NEW y \in Seq(S), NEW z \in Seq(S),
         IsTail(x, y), IsTail(y, z)
  PROVE  IsTail(x, z)
<1>1. Len(x) \in Nat /\ Len(y) \in Nat /\ Len(z) \in Nat
  BY LenProperties
<1>2. /\ Len(x) <= Len(y) /\ \A d \in 1 .. Len(x) : AtDepth(x, d) = AtDepth(y, d)
      /\ Len(y) <= Len(z) /\ \A d \in 1 .. Len(y) : AtDepth(y, d) = AtDepth(z, d)
  BY TailByDepth
<1>3. Len(x) <= Len(z) /\ \A d \in 1 .. Len(x) : AtDepth(x, d) = AtDepth(z, d)
  BY <1>1, <1>2
<1> QED BY <1>3, TailByDepth

LEMMA TailReflexive ==
  ASSUME NEW S, NEW x \in Seq(S)
  PROVE  IsTail(x, x)
<1>1. Len(x) \in Nat
  BY LenProperties
<1> QED BY <1>1, TailByDepth

LEMMA PoppedIsTail ==
  ASSUME NEW S, NEW ls \in Seq(S), ls # <<>>
  PROVE  IsTail(Tail(ls), ls)
<1>1. /\ Tail(ls) \in Seq(S) /\ Len(Tail(ls)) = Len(ls) - 1 /\ Len(ls) \in Nat
      /\ \A d \in 1 .. Len(ls) - 1 : AtDepth(Tail(ls), d) = AtDepth(ls, d)
  BY PoppedIs
<1>2. Len(Tail(ls)) <= Len(ls)
  BY <1>1
<1> QED BY <1>1, <1>2, TailByDepth

LEMMA LastOfIsTail ==
  ASSUME NEW S, NEW ls \in Seq(S), NEW n \in 0 .. Len(ls)
  PROVE  IsTail(LastOf(ls, n), ls)
<1>1. n <= Len(ls)
  BY LenProperties
<1> QED BY <1>1, LastOfIs, TailByDepth

\* What is in a list is at some depth.
LEMMA MemberDepth ==
  ASSUME NEW S, NEW ls \in Seq(S), NEW w
  PROVE  w \in ToSet(ls) <=> \E d \in 1 .. Len(ls) : AtDepth(ls, d) = w
<1>1. Len(ls) \in Nat /\ DOMAIN ls = 1 .. Len(ls)
  BY LenProperties
<1>2. ASSUME NEW i \in 1 .. Len(ls)
      PROVE  Len(ls) - i + 1 \in 1 .. Len(ls) /\ Len(ls) - (Len(ls) - i + 1) + 1 = i
  BY <1>1
<1>3. ASSUME NEW i \in 1 .. Len(ls), ls[i] = w
      PROVE  \E d \in 1 .. Len(ls) : AtDepth(ls, d) = w
  BY <1>2, <1>3 DEF AtDepth
<1>4. ASSUME NEW d \in 1 .. Len(ls), AtDepth(ls, d) = w
      PROVE  \E i \in 1 .. Len(ls) : ls[i] = w
  BY <1>2, <1>4 DEF AtDepth
<1> QED BY <1>1, <1>3, <1>4 DEF ToSet

LEMMA UpToIs ==
  ASSUME NEW n \in Nat
  PROVE  IsFiniteSet(1 .. n) /\ Cardinality(1 .. n) = n
<1>1. 1 \in Int /\ n \in Int
  OBVIOUS
<1>2. IsFiniteSet(1 .. n) /\ Cardinality(1 .. n) = IF 1 > n THEN 0 ELSE n - 1 + 1
  BY <1>1, FS_Interval
<1> QED BY <1>2

\* %winders-common-tail: the longest list that is a tail of both.
LEMMA CommonTailIs ==
  ASSUME NEW S, NEW x \in Seq(S), NEW y \in Seq(S)
  PROVE  LET t == winders_common_tail(x, y)
         IN  /\ t \in Seq(S) /\ IsTail(t, x) /\ IsTail(t, y)
             /\ \A n \in 0 .. Len(y) : IsTail(LastOf(y, n), x) => n <= Len(t)
<1> DEFINE rx == Reverse(x)
           ry == Reverse(y)
           P == CommonPrefixes({rx, ry})
           p == LongestCommonPrefix({rx, ry})
<1>1. Len(x) \in Nat /\ Len(y) \in Nat
  BY LenProperties
<1>2. ASSUME NEW s \in Seq(S)
      PROVE  /\ Reverse(s) \in Seq(S) /\ Len(Reverse(s)) = Len(s)
             /\ \A i \in 1 .. Len(s) : Reverse(s)[i] = s[Len(s) - i + 1]
  <2>1. Len(s) \in Nat
    BY LenProperties
  <2>2. ASSUME NEW i \in 1 .. Len(s) PROVE s[(Len(s) - i) + 1] \in S
    <3>1. (Len(s) - i) + 1 \in 1 .. Len(s)
      BY <2>1
    <3> QED BY <3>1, ElementOfSeq
  <2>3. Reverse(s) \in [1 .. Len(s) -> S]
    BY <2>2 DEF Reverse
  <2>4. Reverse(s) \in Seq(S)
    BY <2>1, <2>3, SeqDef
  <2>5. Len(Reverse(s)) = Len(s)
    BY <2>1, <2>3, <2>4, LenProperties
  <2> QED BY <2>4, <2>5 DEF Reverse
<1>3. /\ rx \in Seq(S) /\ Len(rx) = Len(x)
      /\ ry \in Seq(S) /\ Len(ry) = Len(y)
      /\ \A d \in 1 .. Len(x) : rx[d] = AtDepth(x, d)
      /\ \A d \in 1 .. Len(y) : ry[d] = AtDepth(y, d)
  BY <1>2 DEF AtDepth
<1> HIDE DEF rx, ry
\* Prefixes of sequences, index by index.
<1>4. ASSUME NEW s \in Seq(S), NEW n \in 0 .. Len(s)
      PROVE  /\ SubSeq(s, 1, n) \in Seq(S) /\ Len(SubSeq(s, 1, n)) = n
             /\ \A i \in 1 .. n : SubSeq(s, 1, n)[i] = s[i]
  <2>1. Len(s) \in Nat /\ n \in Nat
    BY LenProperties
  <2>2. \A i \in 1 .. n : s[i] \in S
    BY <2>1, ElementOfSeq
  <2>3. /\ SubSeq(s, 1, n) \in Seq(S)
        /\ Len(SubSeq(s, 1, n)) = IF 1 <= n THEN n - 1 + 1 ELSE 0
        /\ \A i \in 1 .. n - 1 + 1 : SubSeq(s, 1, n)[i] = s[1 + i - 1]
    BY <2>1, <2>2, SubSeqProperties
  <2> QED BY <2>1, <2>3
<1>5. ASSUME NEW s \in Seq(S), NEW q \in Seq(S)
      PROVE  IsPrefix(q, s) <=> Len(q) <= Len(s) /\ \A i \in 1 .. Len(q) : q[i] = s[i]
  <2>1. Len(s) \in Nat /\ Len(q) \in Nat
    BY LenProperties
  <2>2. SubSeq(q, 1, Len(q)) = q
    BY SubSeqFull
  <2>3. CASE Len(q) <= Len(s)
    <3>1. Len(q) \in 0 .. Len(s)
      BY <2>1, <2>3
    <3>2. /\ SubSeq(s, 1, Len(q)) \in Seq(S) /\ Len(SubSeq(s, 1, Len(q))) = Len(q)
          /\ \A i \in 1 .. Len(q) : SubSeq(s, 1, Len(q))[i] = s[i]
      BY <3>1, <1>4
    <3>3. (\A i \in 1 .. Len(q) : q[i] = s[i]) => q = SubSeq(s, 1, Len(q))
      BY <3>2, SeqEqual
    <3> QED BY <2>2, <2>3, <3>2, <3>3 DEF IsPrefix
  <2> QED BY <2>3 DEF IsPrefix
<1>6. ASSUME NEW q \in P PROVE q \in Seq(S) /\ IsPrefix(q, rx) /\ IsPrefix(q, ry)
  <2>1. PICK s \in {rx, ry} : q \in Prefixes(s)
    BY DEF CommonPrefixes
  <2>2. s \in Seq(S)
    BY <1>3
  <2>3. PICK l \in 0 .. Len(s) : q = SubSeq(s, 1, l)
    BY <2>1 DEF Prefixes
  <2>4. q \in Seq(S)
    BY <2>2, <2>3, <1>4
  <2> QED BY <2>4 DEF CommonPrefixes
\* The depths down to which the two lists are the same.
<1> DEFINE D == {d \in 1 .. Len(x) : d <= Len(y) /\ \A e \in 1 .. d : rx[e] = ry[e]}
           m == Cardinality(D)
<1>7. D = 1 .. m /\ m \in 0 .. Len(x) /\ m <= Len(y)
  <2>1. IsFiniteSet(1 .. Len(x)) /\ Cardinality(1 .. Len(x)) = Len(x)
    BY <1>1, UpToIs
  <2>2. IsFiniteSet(D) /\ m \in Nat
    BY <2>1, FS_Subset, FS_CardinalityType
  <2>3. ASSUME NEW d \in D PROVE d <= m
    <3>1. 1 .. d \subseteq D
      BY <1>1
    <3>2. IsFiniteSet(1 .. d) /\ Cardinality(1 .. d) = d
      BY <1>1, UpToIs
    <3>3. Cardinality(1 .. d) <= m
      BY <2>2, <3>1, FS_Subset
    <3> QED BY <3>2, <3>3
  <2>4. D \subseteq 1 .. m
    BY <1>1, <2>2, <2>3
  <2>5. IsFiniteSet(1 .. m) /\ Cardinality(1 .. m) = m
    BY <2>2, UpToIs
  <2>6. D = 1 .. m
    BY <2>4, <2>5, FS_Subset
  <2>7. m = 0 \/ m \in D
    <3> HIDE DEF m, D
    <3>1. m = 0 \/ m \in 1 .. m
      BY <2>2
    <3> QED BY <2>6, <3>1
  <2> QED BY <1>1, <2>2, <2>6, <2>7
<1>8. \A e \in 1 .. m : rx[e] = ry[e]
  <2>1. m = 0 \/ m \in D
    BY <1>7
  <2> QED BY <2>1
<1> HIDE DEF m
<1>9. ASSUME NEW q \in Seq(S), IsPrefix(q, rx), IsPrefix(q, ry) PROVE Len(q) <= m
  <2>1. Len(q) \in Nat
    BY LenProperties
  <2>2. /\ Len(q) <= Len(x) /\ Len(q) <= Len(y)
        /\ \A i \in 1 .. Len(q) : q[i] = rx[i] /\ q[i] = ry[i]
    BY <1>3, <1>5, <1>9
  <2>3. Len(q) = 0 \/ Len(q) \in D
    BY <2>1, <2>2
  <2> QED BY <1>7, <2>1, <2>3
<1>10. PICK g \in P : Len(g) = m
  <2> DEFINE g == SubSeq(rx, 1, m)
  <2>1. g \in Seq(S) /\ Len(g) = m /\ \A i \in 1 .. m : g[i] = rx[i]
    BY <1>3, <1>4, <1>7
  <2>2. IsPrefix(g, rx) /\ IsPrefix(g, ry)
    <3>1. m <= Len(rx) /\ m <= Len(ry)
      BY <1>3, <1>7
    <3>2. \A i \in 1 .. m : g[i] = rx[i] /\ g[i] = ry[i]
      BY <1>8, <2>1
    <3> HIDE DEF g
    <3> QED BY <1>3, <1>5, <2>1, <3>1, <3>2
  <2>3. g \in Prefixes(rx)
    BY <1>3, <1>7 DEF Prefixes
  <2> QED BY <2>1, <2>2, <2>3 DEF CommonPrefixes
<1>11. p \in P /\ Len(p) = m
  <2>1. \A q \in P : Len(q) <= Len(g)
    BY <1>6, <1>9, <1>10
  <2>2. p \in P /\ \A q \in P : Len(q) <= Len(p)
    BY <2>1 DEF LongestCommonPrefix
  <2>3. Len(p) \in Nat /\ Len(p) <= m
    BY <1>6, <1>9, <2>2, LenProperties
  <2>4. m \in Nat
    BY <1>7
  <2>5. Len(g) <= Len(p)
    BY <2>2
  <2> HIDE DEF p, P, D
  <2> QED BY <1>10, <2>2, <2>3, <2>4, <2>5
<1>12. p \in Seq(S) /\ \A i \in 1 .. m : p[i] = rx[i] /\ p[i] = ry[i]
  BY <1>3, <1>5, <1>6, <1>11
<1> DEFINE t == winders_common_tail(x, y)
<1>13. t = Reverse(p)
  BY DEF winders_common_tail, rx, ry
<1> HIDE DEF p, t, P
<1>14. /\ t \in Seq(S) /\ Len(t) = m
       /\ \A i \in 1 .. m : t[i] = p[m - i + 1]
  BY <1>2, <1>11, <1>12, <1>13
<1>15. ASSUME NEW d \in 1 .. m PROVE AtDepth(t, d) = AtDepth(x, d) /\ AtDepth(t, d) = AtDepth(y, d)
  <2>1. m - d + 1 \in 1 .. m /\ m - (m - d + 1) + 1 = d /\ d \in 1 .. Len(x) /\ d \in 1 .. Len(y)
    BY <1>1, <1>7
  <2>2. AtDepth(t, d) = p[d]
    BY <1>14, <2>1 DEF AtDepth
  <2> QED BY <1>3, <1>12, <2>1, <2>2
<1>16. IsTail(t, x) /\ IsTail(t, y)
  BY <1>7, <1>14, <1>15, TailByDepth
<1>17. ASSUME NEW n \in 0 .. Len(y), IsTail(LastOf(y, n), x) PROVE n <= m
  <2>1. /\ LastOf(y, n) \in Seq(S) /\ Len(LastOf(y, n)) = n
        /\ \A d \in 1 .. n : AtDepth(LastOf(y, n), d) = AtDepth(y, d)
    BY LastOfIs
  <2>2. n <= Len(x) /\ \A d \in 1 .. n : AtDepth(LastOf(y, n), d) = AtDepth(x, d)
    BY <1>17, <2>1, TailByDepth
  <2>3. n \in Nat /\ \A d \in 1 .. n : d \in 1 .. Len(x) /\ d \in 1 .. Len(y)
    BY <1>1, <2>2
  <2>4. \A d \in 1 .. n : rx[d] = ry[d]
    BY <1>3, <2>1, <2>2, <2>3
  <2>5. n = 0 \/ n \in D
    BY <1>1, <2>2, <2>3, <2>4
  <2> QED BY <1>7, <2>3, <2>5
<1> QED BY <1>14, <1>16, <1>17 DEF t

-----------------------------------------------------------------------------
(* Lists that share their tails.                                           *)

\* Tails of lists that share their tails do so.
LEMMA SharedByTails ==
  ASSUME NEW S, NEW L \in SUBSET Seq(S), NEW T \in SUBSET Seq(S), Shared(L),
         \A x \in T : \E y \in L : IsTail(x, y)
  PROVE  Shared(T)
<1> SUFFICES ASSUME NEW x \in T, NEW y \in T, NEW d \in 1 .. Len(x), NEW e \in 1 .. Len(y),
                    AtDepth(x, d) = AtDepth(y, e)
             PROVE  d = e /\ \A c \in 1 .. d : AtDepth(x, c) = AtDepth(y, c)
  BY DEF Shared
<1>1. PICK u \in L : IsTail(x, u)
  OBVIOUS
<1>2. PICK v \in L : IsTail(y, v)
  OBVIOUS
<1>3. Len(x) <= Len(u) /\ \A c \in 1 .. Len(x) : AtDepth(x, c) = AtDepth(u, c)
  BY <1>1, TailByDepth
<1>4. Len(y) <= Len(v) /\ \A c \in 1 .. Len(y) : AtDepth(y, c) = AtDepth(v, c)
  BY <1>2, TailByDepth
<1>5. /\ Len(x) \in Nat /\ Len(y) \in Nat /\ Len(u) \in Nat /\ Len(v) \in Nat
  BY LenProperties
<1>6. d \in 1 .. Len(u) /\ e \in 1 .. Len(v) /\ AtDepth(u, d) = AtDepth(v, e)
  BY <1>3, <1>4, <1>5
<1>7. d = e /\ \A c \in 1 .. d : AtDepth(u, c) = AtDepth(v, c)
  BY <1>6 DEF Shared
<1>8. ASSUME NEW c \in 1 .. d PROVE AtDepth(x, c) = AtDepth(y, c)
  <2>1. c \in 1 .. Len(x) /\ c \in 1 .. Len(y)
    BY <1>5, <1>7
  <2> QED BY <1>3, <1>4, <1>7, <2>1
<1> QED BY <1>7, <1>8

\* So do they when a new winder is pushed on one of them.
LEMMA SharedByPush ==
  ASSUME NEW S, NEW L \in SUBSET Seq(S), Shared(L), NEW ls \in L, NEW w, w \notin S,
         NEW T, \A x \in T : x = <<w>> \o ls \/ (x \in Seq(S) /\ \E y \in L : IsTail(x, y))
  PROVE  Shared(T)
<1> DEFINE p == <<w>> \o ls
           R == {x \in Seq(S) : \E y \in L : IsTail(x, y)}
<1>1. Shared(R)
  BY SharedByTails
<1>2. ls \in R
  BY TailReflexive
<1>3. Len(ls) \in Nat /\ ls \in Seq(S)
  BY LenProperties
<1>4. /\ Len(p) = Len(ls) + 1 /\ AtDepth(p, Len(ls) + 1) = w
      /\ \A d \in 1 .. Len(ls) : AtDepth(p, d) = AtDepth(ls, d)
  <2>1. w \in S \cup {w} /\ ls \in Seq(S \cup {w})
    BY <1>3, SeqMonotonic
  <2> QED BY <2>1, ConsIs, SMTT(30)
<1>5. ASSUME NEW x \in R, NEW d \in 1 .. Len(x) PROVE AtDepth(x, d) \in S
  <2>1. Len(x) \in Nat /\ Len(x) - d + 1 \in 1 .. Len(x)
    BY LenProperties
  <2> QED BY <2>1, ElementOfSeq DEF AtDepth
<1> HIDE DEF p, R
<1>6. ASSUME NEW x \in R, NEW d \in 1 .. Len(x), NEW e \in 1 .. Len(p),
             AtDepth(x, d) = AtDepth(p, e)
      PROVE  d = e /\ \A c \in 1 .. d : AtDepth(x, c) = AtDepth(p, c)
  <2>1. e # Len(ls) + 1
    BY <1>4, <1>5, <1>6
  <2>2. e \in 1 .. Len(ls)
    BY <1>3, <1>4, <2>1
  <2>3. AtDepth(x, d) = AtDepth(ls, e)
    BY <1>4, <1>6, <2>2
  <2>4. d = e /\ \A c \in 1 .. d : AtDepth(x, c) = AtDepth(ls, c)
    BY <1>1, <1>2, <2>2, <2>3 DEF Shared
  <2>5. \A c \in 1 .. d : c \in 1 .. Len(ls)
    BY <1>3, <2>2, <2>4
  <2> QED BY <1>4, <2>4, <2>5
<1>7. ASSUME NEW d \in 1 .. Len(p), NEW e \in 1 .. Len(p), AtDepth(p, d) = AtDepth(p, e)
      PROVE  d = e
  <2>1. CASE d \in 1 .. Len(ls)
    <3>1. AtDepth(ls, d) = AtDepth(p, e)
      BY <1>4, <1>7, <2>1
    <3> QED BY <1>2, <1>6, <2>1, <3>1
  <2>2. CASE e \in 1 .. Len(ls)
    <3>1. AtDepth(ls, e) = AtDepth(p, d)
      BY <1>4, <1>7, <2>2
    <3> QED BY <1>2, <1>6, <2>2, <3>1
  <2>3. CASE d \notin 1 .. Len(ls) /\ e \notin 1 .. Len(ls)
    BY <1>3, <1>4, <2>3
  <2> QED BY <2>1, <2>2, <2>3
<1>8. \A x \in T : x = p \/ x \in R
  BY DEF p, R
<1> SUFFICES ASSUME NEW x \in T, NEW y \in T, NEW d \in 1 .. Len(x), NEW e \in 1 .. Len(y),
                    AtDepth(x, d) = AtDepth(y, e)
             PROVE  d = e /\ \A c \in 1 .. d : AtDepth(x, c) = AtDepth(y, c)
  BY DEF Shared
<1>9. CASE x = p /\ y = p
  BY <1>7, <1>9
<1>10. CASE x \in R /\ y = p
  BY <1>6, <1>10
<1>11. CASE x = p /\ y \in R
  <2>1. e = d /\ \A c \in 1 .. e : AtDepth(y, c) = AtDepth(p, c)
    BY <1>6, <1>11
  <2> QED BY <1>11, <2>1
<1>12. CASE x \in R /\ y \in R
  BY <1>1, <1>12 DEF Shared
<1> QED BY <1>8, <1>9, <1>10, <1>11, <1>12

\* A list of them has a winder once.
LEMMA SharedOnce ==
  ASSUME NEW S, NEW L \in SUBSET Seq(S), Shared(L), NEW ls \in Seq(S), ls # <<>>,
         NEW y \in L, IsTail(ls, y)
  PROVE  /\ Head(ls) \notin ToSet(Tail(ls))
         /\ ToSet(ls) = {Head(ls)} \cup ToSet(Tail(ls))
<1>1. /\ Tail(ls) \in Seq(S) /\ Len(Tail(ls)) = Len(ls) - 1 /\ Len(ls) \in Nat \ {0}
      /\ AtDepth(ls, Len(ls)) = Head(ls)
      /\ \A d \in 1 .. Len(ls) - 1 : AtDepth(Tail(ls), d) = AtDepth(ls, d)
  BY PoppedIs
<1>2. Shared({ls})
  BY SharedByTails
<1>3. ASSUME Head(ls) \in ToSet(Tail(ls)) PROVE FALSE
  <2>1. PICK d \in 1 .. Len(Tail(ls)) : AtDepth(Tail(ls), d) = Head(ls)
    BY <1>1, <1>3, MemberDepth
  <2> DEFINE n == Len(ls)
  <2>2. d \in 1 .. n /\ n \in 1 .. n /\ d # n
    <3>1. n \in Nat \ {0} /\ d \in 1 .. n - 1
      BY <1>1
    <3> HIDE DEF n
    <3> QED BY <3>1
  <2>3. AtDepth(ls, d) = AtDepth(ls, Len(ls))
    BY <1>1, <2>1
  <2> QED BY <1>2, <2>2, <2>3 DEF Shared
<1>4. ASSUME NEW w PROVE w \in ToSet(ls) <=> w = Head(ls) \/ w \in ToSet(Tail(ls))
  <2>1. \A d : d \in 1 .. Len(ls) <=> d = Len(ls) \/ d \in 1 .. Len(Tail(ls))
    BY <1>1
  <2>2. w \in ToSet(ls) <=> \E d \in 1 .. Len(ls) : AtDepth(ls, d) = w
    BY MemberDepth
  <2>3. w \in ToSet(Tail(ls)) <=> \E d \in 1 .. Len(Tail(ls)) : AtDepth(Tail(ls), d) = w
    BY <1>1, MemberDepth
  <2> QED BY <1>1, <2>1, <2>2, <2>3
<1> QED BY <1>3, <1>4

-----------------------------------------------------------------------------
(* Stacks.                                                                 *)

LEMMA PushedFrames ==
  ASSUME NEW S, NEW s \in Seq(S), NEW f
  PROVE  <<f>> \o s \in Seq(S \cup {f}) /\ ToSet(<<f>> \o s) = {f} \cup ToSet(s)
<1>1. s \in Seq(S \cup {f}) /\ f \in S \cup {f}
  BY SeqMonotonic
<1>2. /\ <<f>> \o s \in Seq(S \cup {f}) /\ Len(<<f>> \o s) = Len(s) + 1
      /\ (<<f>> \o s)[1] = f
      /\ \A i \in 1 .. Len(s) : (<<f>> \o s)[i + 1] = s[i]
  BY <1>1, ConsIs
<1>3. /\ Len(s) \in Nat /\ DOMAIN s = 1 .. Len(s)
      /\ DOMAIN (<<f>> \o s) = 1 .. Len(s) + 1
  BY <1>2, LenProperties
<1>4. \A i : i \in 1 .. Len(s) + 1 <=> i = 1 \/ (i - 1 \in 1 .. Len(s) /\ (i - 1) + 1 = i)
  BY <1>3
<1>5. ASSUME NEW g \in ToSet(<<f>> \o s) PROVE g = f \/ g \in ToSet(s)
  <2>1. PICK i \in 1 .. Len(s) + 1 : (<<f>> \o s)[i] = g
    BY <1>3 DEF ToSet
  <2>2. CASE i = 1
    BY <1>2, <2>1, <2>2
  <2>3. CASE i # 1
    <3>1. i - 1 \in 1 .. Len(s) /\ (<<f>> \o s)[i] = s[i - 1]
      BY <1>2, <1>3, <2>3
    <3> QED BY <1>3, <2>1, <3>1 DEF ToSet
  <2> QED BY <2>2, <2>3
<1>6. f \in ToSet(<<f>> \o s)
  <2>1. 1 \in 1 .. Len(s) + 1
    BY <1>3
  <2> QED BY <1>2, <1>3, <2>1 DEF ToSet
<1>7. ASSUME NEW g \in ToSet(s) PROVE g \in ToSet(<<f>> \o s)
  <2>1. PICK i \in 1 .. Len(s) : s[i] = g
    BY <1>3 DEF ToSet
  <2>2. i + 1 \in 1 .. Len(s) + 1 /\ (<<f>> \o s)[i + 1] = g
    BY <1>2, <1>3, <2>1
  <2> QED BY <1>3, <2>2 DEF ToSet
<1> QED BY <1>2, <1>5, <1>6, <1>7

\* A call on top of what runs in its environment.
LEMMA RunsOnTop ==
  ASSUME NEW S, NEW s \in Seq(S), NEW f, NEW ls, RunsIn(ls, s), IsEscape(f) \/ f.in = ls
  PROVE  RunsIn(Environment(f), <<f>> \o s)
<1> DEFINE t == <<f>> \o s
<1>1. s \in Seq(S \cup {f}) /\ f \in S \cup {f}
  BY SeqMonotonic
<1>2. /\ t \in Seq(S \cup {f}) /\ Len(t) = Len(s) + 1 /\ t[1] = f
      /\ \A i \in 1 .. Len(s) : t[i + 1] = s[i]
  BY <1>1, ConsIs
<1>3. /\ Len(s) \in Nat /\ DOMAIN s = 1 .. Len(s) /\ DOMAIN t = 1 .. Len(s) + 1
  BY <1>2, LenProperties
<1> HIDE DEF t
<1>4. Under(t, 0) = Environment(f)
  <2>1. 0 # Len(t) /\ 0 + 1 = 1
    BY <1>2, <1>3
  <2> QED BY <1>2, <2>1 DEF Under
<1>5. ASSUME NEW i \in 0 .. Len(s) PROVE Under(t, i + 1) = Under(s, i)
  <2>1. CASE i = Len(s)
    BY <1>2, <2>1 DEF Under
  <2>2. CASE i # Len(s)
    <3>1. i + 1 \in 1 .. Len(s) /\ i + 1 # Len(t)
      BY <1>2, <1>3, <2>2
    <3>2. t[(i + 1) + 1] = s[i + 1]
      BY <1>2, <3>1
    <3> QED BY <2>2, <3>1, <3>2 DEF Under
  <2> QED BY <2>1, <2>2
<1>6. ASSUME NEW i \in 1 .. Len(s) + 1, ~ IsEscape(t[i]) PROVE t[i].in = Under(t, i)
  <2>1. CASE i = 1
    <3>1. 0 \in 0 .. Len(s) /\ 0 + 1 = 1
      BY <1>3
    <3>2. Under(t, 1) = ls
      BY <1>5, <3>1 DEF RunsIn
    <3> QED BY <1>2, <1>6, <2>1, <3>2
  <2>2. CASE i # 1
    <3>1. i - 1 \in 1 .. Len(s) /\ i - 1 \in 0 .. Len(s) /\ (i - 1) + 1 = i
      BY <1>3, <2>2
    <3>2. t[i] = s[i - 1] /\ Under(t, i) = Under(s, i - 1)
      BY <1>2, <1>5, <3>1
    <3> QED BY <1>3, <1>6, <3>1, <3>2 DEF RunsIn
  <2> QED BY <2>1, <2>2
<1> QED BY <1>3, <1>4, <1>6 DEF RunsIn, t

\* What a call returns to runs in the environment of the call.
LEMMA RunsBelow ==
  ASSUME NEW S, NEW s \in Seq(S), s # <<>>, NEW ls, RunsIn(ls, s)
  PROVE  /\ ls = Environment(Head(s))
         /\ RunsIn(Under(s, 1), Tail(s))
         /\ ~ IsEscape(Head(s)) => Head(s).in = Under(s, 1)
<1>1. /\ Tail(s) \in Seq(S) /\ Len(Tail(s)) = Len(s) - 1 /\ Len(s) \in Nat \ {0}
      /\ Head(s) = s[1] /\ \A i \in 1 .. Len(s) - 1 : Tail(s)[i] = s[i + 1]
  BY PoppedIs
<1>2. DOMAIN s = 1 .. Len(s) /\ DOMAIN Tail(s) = 1 .. Len(s) - 1
  BY <1>1, LenProperties
<1>3. ls = Environment(Head(s))
  <2>1. 0 # Len(s) /\ 0 + 1 = 1
    BY <1>1
  <2> QED BY <1>1, <2>1 DEF RunsIn, Under
<1>4. ASSUME NEW i \in 0 .. Len(s) - 1 PROVE Under(Tail(s), i) = Under(s, i + 1)
  <2>1. CASE i = Len(s) - 1
    <3>1. i = Len(Tail(s)) /\ i + 1 = Len(s)
      BY <1>1, <2>1
    <3> QED BY <3>1 DEF Under
  <2>2. CASE i # Len(s) - 1
    <3>1. i # Len(Tail(s)) /\ i + 1 # Len(s) /\ i + 1 \in 1 .. Len(s) - 1
      <4> DEFINE n == Len(s)
      <4>1. n \in Nat \ {0} /\ i \in 0 .. n - 1 /\ i # n - 1 /\ Len(Tail(s)) = n - 1
        BY <1>1, <2>2
      <4> HIDE DEF n
      <4>2. i # n - 1 /\ i + 1 # n /\ i + 1 \in 1 .. n - 1
        BY <4>1
      <4> QED BY <4>1, <4>2 DEF n
    <3>2. Tail(s)[i + 1] = s[(i + 1) + 1]
      BY <1>1, <3>1
    <3> QED BY <3>1, <3>2 DEF Under
  <2> QED BY <2>1, <2>2
<1>5. Under(Tail(s), 0) = Under(s, 1)
  <2>1. 0 \in 0 .. Len(s) - 1 /\ 0 + 1 = 1
    BY <1>1
  <2> QED BY <1>4, <2>1
<1>6. ASSUME NEW i \in 1 .. Len(s) - 1, ~ IsEscape(Tail(s)[i])
      PROVE  Tail(s)[i].in = Under(Tail(s), i)
  <2>1. i \in 0 .. Len(s) - 1 /\ i + 1 \in 1 .. Len(s)
    BY <1>1
  <2>2. Tail(s)[i] = s[i + 1] /\ Under(Tail(s), i) = Under(s, i + 1)
    BY <1>1, <1>4, <2>1
  <2> QED BY <1>2, <1>6, <2>1, <2>2 DEF RunsIn
<1>7. ~ IsEscape(Head(s)) => Head(s).in = Under(s, 1)
  BY <1>1, <1>2 DEF RunsIn
<1> QED BY <1>2, <1>3, <1>5, <1>6, <1>7 DEF RunsIn

-----------------------------------------------------------------------------
(* The lists and the frames that there are, before and after a step.       *)

LEMMA OwnMembers ==
  ASSUME NEW S, NEW s \in Seq(S)
  PROVE  ToSet(s) \subseteq S /\ s \in Seq(ToSet(s))
<1>1. Len(s) \in Nat /\ DOMAIN s = 1 .. Len(s) /\ s \in [1 .. Len(s) -> S]
  BY LenProperties
<1>2. ToSet(s) \subseteq S /\ s \in [1 .. Len(s) -> ToSet(s)]
  BY <1>1 DEF ToSet
<1> QED BY <1>1, <1>2, SeqDef

LEMMA EnvironmentIs ==
  ASSUME NEW f, FrameInv(f)
  PROVE  Environment(f) \in Seq(consed)
<1>1. CASE f.call = "body"
  <2>1. f.of \in consed /\ f.in \in Seq(consed)
    BY <1>1 DEF FrameInv
  <2>2. <<f.of>> \o f.in \in Seq(consed)
    BY <2>1, ConsIs
  <2> QED BY <1>1, <2>2 DEF Environment
<1>2. CASE f.call = "unwind"
  BY <1>2 DEF FrameInv, Environment
<1>3. CASE f.call = "rewind"
  <2>1. f.ls \in Seq(consed) /\ f.ls # <<>>
    BY <1>3 DEF FrameInv
  <2>2. Tail(f.ls) \in Seq(consed)
    BY <2>1, PoppedIs
  <2> QED BY <1>3, <2>2 DEF Environment
<1>4. CASE f.call \in {"in-guard", "out-guard"}
  BY <1>4 DEF FrameInv, Environment
<1> QED BY <1>1, <1>2, <1>3, <1>4 DEF FrameInv

\* What was consed stays so, and so does an escape function.
LEMMA FrameInvKept ==
  ASSUME NEW f, FrameInv(f), consed \subseteq consed',
         \A k \in Cont : saved[k].valid => saved'[k] = saved[k]
  PROVE  FrameInv(f)'
<1>1. \A s \in Seq(consed) : s \in Seq(consed')
  BY SeqMonotonic
<1>2. CASE f.call = "unwind"
  <2>1. FrameInv(f)' =
          (/\ f.ls \in Seq(consed') /\ f.tail \in Seq(consed')
           /\ f.to \in Cont /\ saved'[f.to].valid
           /\ IsTail(f.tail, f.ls) /\ IsTail(f.tail, saved'[f.to].winders)
           /\ \A n \in 0 .. Len(f.ls) :
                IsTail(LastOf(f.ls, n), saved'[f.to].winders) => n <= Len(f.tail))
    BY <1>2 DEF FrameInv
  <2>2. /\ f.ls \in Seq(consed) /\ f.tail \in Seq(consed)
        /\ f.to \in Cont /\ saved[f.to].valid
        /\ IsTail(f.tail, f.ls) /\ IsTail(f.tail, saved[f.to].winders)
        /\ \A n \in 0 .. Len(f.ls) :
             IsTail(LastOf(f.ls, n), saved[f.to].winders) => n <= Len(f.tail)
    BY <1>2 DEF FrameInv
  <2>3. saved'[f.to] = saved[f.to]
    BY <2>2
  <2> QED BY <1>1, <2>1, <2>2, <2>3
<1>3. CASE f.call = "rewind"
  <2>1. saved'[f.to] = saved[f.to]
    BY <1>3 DEF FrameInv
  <2> QED BY <1>1, <1>3, <2>1 DEF FrameInv
<1>4. CASE f.call = "body"
  BY <1>1, <1>4 DEF FrameInv
<1>5. CASE f.call \in {"in-guard", "out-guard"}
  BY <1>1, <1>5 DEF FrameInv
<1> QED BY <1>2, <1>3, <1>4, <1>5 DEF FrameInv

\* The lists are sequences of what was consed.
LEMMA ListsAre ==
  ASSUME WindersInvariant
  PROVE  Lists \in SUBSET Seq(consed)
<1>1. \A f \in Frames : Environment(f) \in Seq(consed)
  BY EnvironmentIs DEF WindersInvariant, FramesInv
<1> QED BY <1>1 DEF WindersInvariant, WindersTypeOK, Lists

\* The innermost frame, and what is under it.
LEMMA InnermostIs ==
  ASSUME WindersInvariant, stack # <<>>
  PROVE  /\ Head(stack) \in Frames /\ FrameInv(Head(stack))
         /\ Tail(stack) \in Seq(Frames)
         /\ the_winders = Environment(Head(stack))
         /\ RunsIn(Under(stack, 1), Tail(stack))
         /\ ~ IsEscape(Head(stack)) => Head(stack).in = Under(stack, 1)
<1>1. stack \in Seq(Frames) /\ RunsIn(the_winders, stack)
  BY DEF WindersInvariant, WindersTypeOK, DynamicEnvironment
<1>2. Head(stack) \in Frames /\ Tail(stack) \in Seq(Frames)
  BY <1>1, PoppedIs
<1>3. FrameInv(Head(stack))
  BY <1>2 DEF WindersInvariant, FramesInv
<1> QED BY <1>1, <1>2, <1>3, RunsBelow

\* What a step that may put a frame F on the stack and makes lists of E
\* leaves to be shown.
LEMMA StepKeeps ==
  ASSUME WindersInvariant, NEW f, NEW E, saved' = saved,
         consed \subseteq consed', consed' \subseteq Winder,
         the_winders' \in Seq(consed'), entered' \in [Winder -> 0 .. 1],
         stack' \in Seq(Frames \cup {f}), FrameInv(f)', Environment(f) \in E,
         the_winders' \in E, Shared(Lists \cup E),
         RunsIn(the_winders', stack'),
         GuardsAlternate'
  PROVE  WindersInvariant'
<1>1. \A k \in Cont : saved[k].winders \in Seq(consed) /\ saved[k].stack \in Seq(Frames)
  BY DEF WindersInvariant, WindersTypeOK
<1>2. ToSet(stack') \subseteq Frames \cup {f} /\ stack' \in Seq(ToSet(stack'))
  BY OwnMembers
<1>3. \A k \in Cont : /\ ToSet(saved[k].stack) \subseteq Frames
                      /\ saved[k].stack \in Seq(ToSet(saved[k].stack))
  BY <1>1, OwnMembers
<1>4. Frames' = ToSet(stack') \cup UNION {ToSet(saved[k].stack) : k \in Cont}
  BY DEF Frames
<1>5. Frames' \subseteq Frames \cup {f}
  BY <1>2, <1>3, <1>4
<1>6. stack' \in Seq(Frames')
  BY <1>2, <1>4, SeqMonotonic
<1>7. ASSUME NEW k \in Cont PROVE saved[k].stack \in Seq(Frames')
  <2>1. ToSet(saved[k].stack) \subseteq Frames'
    BY <1>4
  <2> QED BY <1>3, <2>1, SeqMonotonic
<1>8. \A k \in Cont : saved[k].winders \in Seq(consed')
  BY <1>1, SeqMonotonic
<1>9. WindersTypeOK'
  BY <1>6, <1>7, <1>8 DEF WindersInvariant, WindersTypeOK
<1>10. FramesInv'
  <2>1. ASSUME NEW g \in Frames' PROVE FrameInv(g)'
    <3>1. CASE g = f
      BY <3>1
    <3>2. CASE g \in Frames
      <4>1. FrameInv(g)
        BY <3>2 DEF WindersInvariant, FramesInv
      <4> QED BY <4>1, FrameInvKept
    <3> QED BY <1>5, <3>1, <3>2
  <2> QED BY <2>1 DEF FramesInv
<1>11. SharedTails'
  <2>1. Lists' \subseteq Lists \cup E
    BY <1>5 DEF Lists
  <2> QED BY <2>1 DEF SharedTails, Shared
<1>12. SavedInv' /\ DynamicEnvironment'
  BY DEF WindersInvariant, SavedInv, DynamicEnvironment
<1> QED BY <1>9, <1>10, <1>11, <1>12 DEF WindersInvariant

\* Lists that are tails of those there are can be added.
LEMMA TailsAdded ==
  ASSUME WindersInvariant, NEW T \in SUBSET Seq(consed),
         \A x \in T : \E y \in Lists : IsTail(x, y)
  PROVE  Shared(Lists \cup T)
<1>1. Lists \in SUBSET Seq(consed) /\ Shared(Lists)
  BY ListsAre DEF WindersInvariant, SharedTails
<1>2. \A x \in Lists \cup T : \E y \in Lists : IsTail(x, y)
  BY <1>1, TailReflexive
<1>3. Lists \cup T \in SUBSET Seq(consed)
  BY <1>1
<1> QED BY <1>1, <1>2, <1>3, SharedByTails

-----------------------------------------------------------------------------
(* One lemma for each step.                                                *)

LEMMA InitHolds ==
  ASSUME WindersInit
  PROVE  WindersInvariant
<1>1. /\ the_winders = <<>> /\ stack = <<>> /\ consed = {}
      /\ \A k \in Cont : saved[k] = NoCont /\ saved[k].winders = <<>> /\ saved[k].stack = <<>>
                         /\ saved[k].valid = FALSE
      /\ entered = [w \in Winder |-> 0]
  BY DEF WindersInit, NoCont
<1>2. <<>> \in Seq({}) /\ ToSet(<<>>) = {} /\ Len(<<>>) = 0 /\ DOMAIN <<>> = {}
  BY DEF ToSet
<1>3. Frames = {}
  BY <1>1, <1>2 DEF Frames
<1>4. WindersTypeOK
  <2>1. the_winders \in Seq(consed) /\ stack \in Seq(Frames) /\ consed \subseteq Winder
    BY <1>1, <1>2, <1>3
  <2>2. entered \in [Winder -> 0 .. 1]
    BY <1>1
  <2>3. \A k \in Cont : /\ saved[k].winders \in Seq(consed) /\ saved[k].stack \in Seq(Frames)
                        /\ saved[k] = NoCont
    BY <1>1, <1>2, <1>3
  <2>4. DOMAIN saved = Cont
    BY DEF WindersInit
  <2> QED BY <2>1, <2>2, <2>3, <2>4 DEF WindersTypeOK
<1>5. GuardsAlternate
  BY <1>1, <1>2 DEF GuardsAlternate
<1>6. RunsIn(<<>>, <<>>)
  BY <1>2 DEF RunsIn, Under
<1>7. DynamicEnvironment /\ SavedInv /\ FramesInv
  BY <1>1, <1>3, <1>6 DEF DynamicEnvironment, SavedInv, FramesInv
<1>8. Lists \subseteq {<<>>}
  BY <1>1, <1>3 DEF Lists
<1>9. SharedTails
  BY <1>2, <1>8 DEF SharedTails, Shared
<1> QED BY <1>4, <1>5, <1>7, <1>9 DEF WindersInvariant

LEMMA dynamic_windKeeps ==
  ASSUME WindersInvariant, dynamic_wind
  PROVE  WindersInvariant'
<1>0. PICK f : f = [call |-> "in-guard", in |-> the_winders]
  OBVIOUS
<1>1. /\ stack' = <<f>> \o stack
      /\ the_winders' = the_winders /\ saved' = saved /\ consed' = consed /\ entered' = entered
  BY <1>0 DEF dynamic_wind
<1>2. /\ the_winders \in Seq(consed) /\ consed \subseteq Winder /\ stack \in Seq(Frames)
      /\ entered \in [Winder -> 0 .. 1] /\ GuardsAlternate /\ RunsIn(the_winders, stack)
  BY DEF WindersInvariant, WindersTypeOK, DynamicEnvironment
<1>3. f.call = "in-guard" /\ f.in = the_winders
  BY <1>0
<1>4. FrameInv(f)' /\ Environment(f) = the_winders
  BY <1>1, <1>2, <1>3 DEF FrameInv, Environment
<1>5. stack' \in Seq(Frames \cup {f})
  BY <1>1, <1>2, PushedFrames
<1>6. RunsIn(the_winders', stack')
  BY <1>1, <1>2, <1>3, <1>4, RunsOnTop
<1>7. GuardsAlternate'
  BY <1>1, <1>2 DEF GuardsAlternate
<1>8. PICK E : E = Lists
  OBVIOUS
<1>9. the_winders' \in E /\ Environment(f) \in E /\ Shared(Lists \cup E)
  BY <1>1, <1>4, <1>8 DEF Lists, WindersInvariant, SharedTails
<1>10. consed \subseteq consed' /\ consed' \subseteq Winder /\ saved' = saved
  BY <1>1, <1>2
<1>11. the_winders' \in Seq(consed') /\ entered' \in [Winder -> 0 .. 1]
  BY <1>1, <1>2
<1> QED BY <1>4, <1>5, <1>6, <1>7, <1>9, <1>10, <1>11, StepKeeps

LEMMA InGuardReturnsKeeps ==
  ASSUME WindersInvariant, NEW w \in Winder, InGuardReturns(w)
  PROVE  WindersInvariant'
<1> DEFINE p == <<w>> \o the_winders
<1>0. PICK f : f = [call |-> "body", of |-> w, in |-> the_winders]
  OBVIOUS
<1>1. /\ stack # <<>> /\ Head(stack).call = "in-guard" /\ w \notin consed
      /\ stack' = <<f>> \o Tail(stack) /\ consed' = consed \cup {w}
      /\ the_winders' = p /\ saved' = saved /\ entered' = [entered EXCEPT ![w] = @ + 1]
  BY <1>0 DEF InGuardReturns
<1>2. /\ the_winders \in Seq(consed) /\ consed \subseteq Winder
      /\ entered \in [Winder -> 0 .. 1] /\ GuardsAlternate
  BY DEF WindersInvariant, WindersTypeOK
<1>3. f.call = "body" /\ f.of = w /\ f.in = the_winders
  BY <1>0
<1>4. /\ Tail(stack) \in Seq(Frames) /\ RunsIn(the_winders, Tail(stack))
  <2>1. ~ IsEscape(Head(stack)) /\ Environment(Head(stack)) = Head(stack).in
    BY <1>1 DEF IsEscape, Environment
  <2> QED BY <1>1, <2>1, InnermostIs
<1>5. w \in consed' /\ the_winders \in Seq(consed')
  BY <1>1, <1>2, SeqMonotonic
<1>6. p \in Seq(consed') /\ Head(p) = w /\ Tail(p) = the_winders
  BY <1>5, ConsIs
<1>7. FrameInv(f)' /\ Environment(f) = p
  BY <1>3, <1>5 DEF FrameInv, Environment
<1>8. stack' \in Seq(Frames \cup {f})
  BY <1>1, <1>4, PushedFrames
<1>9. RunsIn(the_winders', stack')
  <2>1. RunsIn(Environment(f), <<f>> \o Tail(stack))
    BY <1>3, <1>4, RunsOnTop
  <2> QED BY <1>1, <1>7, <2>1
<1>10. ToSet(p) = {w} \cup ToSet(the_winders) /\ w \notin ToSet(the_winders)
  <2>1. ToSet(the_winders) \subseteq consed
    BY <1>2, OwnMembers
  <2> QED BY <1>1, <1>2, <2>1, PushedFrames
<1>11. GuardsAlternate' /\ entered' \in [Winder -> 0 .. 1]
  <2>1. entered[w] = 0
    BY <1>2, <1>10 DEF GuardsAlternate
  <2>2. \A v \in Winder : entered'[v] = IF v = w THEN 1 ELSE entered[v]
    BY <1>1, <1>2, <2>1
  <2>3. entered' \in [Winder -> 0 .. 1]
    BY <1>1, <1>2, <2>1
  <2> QED BY <1>1, <1>2, <1>10, <2>2, <2>3 DEF GuardsAlternate
<1>12. Shared(Lists \cup {p})
  <2> DEFINE T == Lists \cup {p}
  <2>1. Lists \in SUBSET Seq(consed) /\ Shared(Lists) /\ the_winders \in Lists
    BY ListsAre DEF WindersInvariant, SharedTails, Lists
  <2>2. \A x \in T : x = <<w>> \o the_winders \/ x \in Lists
    OBVIOUS
  <2>3. \A x \in Lists : x \in Seq(consed) /\ \E y \in Lists : IsTail(x, y)
    BY <2>1, TailReflexive
  <2> HIDE DEF T
  <2>4. Shared(T)
    BY <1>1, <2>1, <2>2, <2>3, SharedByPush
  <2> QED BY <2>4 DEF T
<1>13. consed \subseteq consed' /\ consed' \subseteq Winder
  BY <1>1, <1>2
<1>14. PICK E : E = {p}
  OBVIOUS
<1>15. the_winders' \in E /\ Environment(f) \in E /\ Shared(Lists \cup E)
  BY <1>1, <1>7, <1>12, <1>14
<1>16. the_winders' \in Seq(consed') /\ saved' = saved
  BY <1>1, <1>6
<1> QED BY <1>7, <1>8, <1>9, <1>11, <1>13, <1>15, <1>16, StepKeeps

LEMMA BodyReturnsKeeps ==
  ASSUME WindersInvariant, BodyReturns
  PROVE  WindersInvariant'
<1>0. PICK f : f = [call |-> "out-guard", in |-> Head(stack).in]
  OBVIOUS
<1>1. PICK h : h = Head(stack)
  OBVIOUS
<1>2. /\ stack # <<>> /\ h.call = "body" /\ f.call = "out-guard" /\ f.in = h.in
      /\ the_winders' = Tail(the_winders) /\ saved' = saved /\ consed' = consed
      /\ entered' = [entered EXCEPT ![h.of] = @ - 1] /\ stack' = <<f>> \o Tail(stack)
  BY <1>0, <1>1 DEF BodyReturns
<1>3. /\ the_winders \in Seq(consed) /\ consed \subseteq Winder
      /\ entered \in [Winder -> 0 .. 1] /\ GuardsAlternate
  BY DEF WindersInvariant, WindersTypeOK
<1>4. /\ FrameInv(h) /\ the_winders = Environment(h) /\ h.in = Under(stack, 1)
      /\ Tail(stack) \in Seq(Frames) /\ RunsIn(h.in, Tail(stack))
  <2>1. ~ IsEscape(h)
    BY <1>2 DEF IsEscape
  <2> QED BY <1>1, <1>2, <2>1, InnermostIs
<1>5. h.of \in consed /\ h.in \in Seq(consed) /\ the_winders = <<h.of>> \o h.in
  BY <1>2, <1>4 DEF FrameInv, Environment
<1>6. the_winders # <<>> /\ Head(the_winders) = h.of /\ Tail(the_winders) = h.in
  BY <1>5, ConsIs
<1>7. FrameInv(f)' /\ Environment(f) = h.in
  BY <1>2, <1>5 DEF FrameInv, Environment
<1>8. stack' \in Seq(Frames \cup {f})
  BY <1>2, <1>4, PushedFrames
<1>9. RunsIn(the_winders', stack')
  BY <1>2, <1>4, <1>6, <1>7, RunsOnTop
<1>10. h.of \notin ToSet(h.in) /\ ToSet(the_winders) = {h.of} \cup ToSet(h.in)
  <2>1. Lists \in SUBSET Seq(consed) /\ Shared(Lists) /\ the_winders \in Lists
    BY ListsAre DEF WindersInvariant, SharedTails, Lists
  <2>2. IsTail(the_winders, the_winders)
    BY <1>3, TailReflexive
  <2>3. PICK L : L = Lists
    OBVIOUS
  <2>4. /\ Head(the_winders) \notin ToSet(Tail(the_winders))
        /\ ToSet(the_winders) = {Head(the_winders)} \cup ToSet(Tail(the_winders))
    BY <1>3, <1>6, <2>1, <2>2, <2>3, SharedOnce
  <2> QED BY <1>6, <2>4
<1>11. GuardsAlternate' /\ entered' \in [Winder -> 0 .. 1]
  <2>1. entered[h.of] = 1 /\ h.of \in Winder
    BY <1>3, <1>5, <1>10 DEF GuardsAlternate
  <2>2. \A v \in Winder : entered'[v] = IF v = h.of THEN 0 ELSE entered[v]
    BY <1>2, <1>3, <2>1
  <2>3. entered' \in [Winder -> 0 .. 1]
    BY <1>2, <1>3, <2>1
  <2> QED BY <1>2, <1>3, <1>6, <1>10, <2>2, <2>3 DEF GuardsAlternate
<1>12. PICK E : E = {h.in}
  OBVIOUS
<1>13. the_winders' \in E /\ Environment(f) \in E /\ Shared(Lists \cup E)
  <2>1. IsTail(h.in, the_winders) /\ the_winders \in Lists
    BY <1>3, <1>6, PoppedIsTail DEF Lists
  <2> QED BY <1>2, <1>5, <1>6, <1>7, <1>12, <2>1, TailsAdded
<1>14. /\ saved' = saved /\ consed \subseteq consed' /\ consed' \subseteq Winder
       /\ the_winders' \in Seq(consed')
  BY <1>2, <1>3, <1>5, <1>6
<1> QED BY <1>7, <1>8, <1>9, <1>11, <1>13, <1>14, StepKeeps

LEMMA OutGuardReturnsKeeps ==
  ASSUME WindersInvariant, OutGuardReturns
  PROVE  WindersInvariant'
<1>1. PICK h : h = Head(stack)
  OBVIOUS
<1>2. /\ stack # <<>> /\ h.call = "out-guard" /\ stack' = Tail(stack)
      /\ the_winders' = the_winders /\ saved' = saved /\ consed' = consed /\ entered' = entered
  BY <1>1 DEF OutGuardReturns
<1>3. /\ the_winders \in Seq(consed) /\ consed \subseteq Winder
      /\ entered \in [Winder -> 0 .. 1] /\ GuardsAlternate
  BY DEF WindersInvariant, WindersTypeOK
<1>4. /\ h \in Frames /\ FrameInv(h) /\ the_winders = Environment(h)
      /\ Tail(stack) \in Seq(Frames) /\ RunsIn(Under(stack, 1), Tail(stack))
      /\ ~ IsEscape(h) => h.in = Under(stack, 1)
  BY <1>1, <1>2, InnermostIs
<1>5. RunsIn(the_winders', stack')
  <2>1. ~ IsEscape(h) /\ Environment(h) = h.in
    BY <1>2 DEF IsEscape, Environment
  <2> QED BY <1>2, <1>4, <2>1
<1>6. FrameInv(h)'
  BY <1>2, <1>4, FrameInvKept
<1>7. GuardsAlternate'
  BY <1>2, <1>3 DEF GuardsAlternate
<1>8. PICK E : E = Lists
  OBVIOUS
<1>9. the_winders' \in E /\ Environment(h) \in E /\ Shared(Lists \cup E)
  BY <1>2, <1>4, <1>8 DEF Lists, WindersInvariant, SharedTails
<1>10. stack' \in Seq(Frames \cup {h})
  BY <1>2, <1>4, SeqMonotonic
<1>11. /\ consed \subseteq consed' /\ consed' \subseteq Winder
       /\ the_winders' \in Seq(consed') /\ entered' \in [Winder -> 0 .. 1]
  BY <1>2, <1>3
<1> QED BY <1>2, <1>5, <1>6, <1>7, <1>9, <1>10, <1>11, StepKeeps

\* The escape function is one more that reinstates the winders and the stack
\* there are.
LEMMA call_ccKeeps ==
  ASSUME WindersInvariant, NEW k \in Cont, call_cc(k)
  PROVE  WindersInvariant'
<1>1. PICK c : c = [winders |-> the_winders, stack |-> stack, valid |-> TRUE]
  OBVIOUS
<1>2. /\ ~ saved[k].valid /\ saved' = [saved EXCEPT ![k] = c]
      /\ c.winders = the_winders /\ c.stack = stack /\ c.valid = TRUE
      /\ the_winders' = the_winders /\ stack' = stack /\ consed' = consed /\ entered' = entered
  BY <1>1 DEF call_cc
<1>3. /\ the_winders \in Seq(consed) /\ stack \in Seq(Frames)
      /\ \A j \in Cont : saved[j].winders \in Seq(consed) /\ saved[j].stack \in Seq(Frames)
      /\ RunsIn(the_winders, stack)
      /\ \A j \in Cont : RunsIn(saved[j].winders, saved[j].stack)
  BY DEF WindersInvariant, WindersTypeOK, DynamicEnvironment, SavedInv
<1>4. DOMAIN saved = Cont /\ \A j \in Cont : saved'[j] = IF j = k THEN c ELSE saved[j]
  BY <1>2 DEF WindersInvariant, WindersTypeOK
<1>5. \A j \in Cont : saved[j].valid => saved'[j] = saved[j]
  BY <1>2, <1>4
<1>6. k \in Cont => saved[k] = NoCont
  BY <1>2 DEF WindersInvariant, WindersTypeOK
<1>7. Frames' = Frames
  <2>1. ToSet(saved[k].stack) = {}
    BY <1>6 DEF NoCont, ToSet
  <2>2. ASSUME NEW f \in Frames' PROVE f \in Frames
    BY <1>2, <1>4 DEF Frames
  <2>3. ASSUME NEW f \in Frames PROVE f \in Frames'
    <3>1. CASE f \in ToSet(stack)
      BY <1>2, <3>1 DEF Frames
    <3>2. CASE f \notin ToSet(stack)
      <4>1. PICK j \in Cont : f \in ToSet(saved[j].stack)
        BY <3>2 DEF Frames
      <4>2. j # k
        BY <2>1, <4>1
      <4>3. saved'[j] = saved[j]
        BY <1>4, <4>2
      <4> QED BY <4>1, <4>3 DEF Frames
    <3> QED BY <3>1, <3>2
  <2> QED BY <2>2, <2>3
<1>8. WindersTypeOK'
  <2>1. \A j \in Cont : saved'[j].winders \in Seq(consed') /\ saved'[j].stack \in Seq(Frames')
    BY <1>2, <1>3, <1>4, <1>7
  <2>2. \A j \in Cont : ~ saved'[j].valid => saved'[j] = NoCont
    BY <1>2, <1>4 DEF WindersInvariant, WindersTypeOK
  <2>3. DOMAIN saved' = Cont
    BY <1>2, <1>4
  <2> QED BY <1>2, <1>7, <2>1, <2>2, <2>3 DEF WindersInvariant, WindersTypeOK
<1>9. FramesInv'
  <2>1. ASSUME NEW f \in Frames PROVE FrameInv(f)'
    <3>1. FrameInv(f)
      BY DEF WindersInvariant, FramesInv
    <3> QED BY <1>2, <1>5, <3>1, FrameInvKept
  <2> QED BY <1>7, <2>1 DEF FramesInv
<1>10. SavedInv' /\ DynamicEnvironment'
  BY <1>2, <1>3, <1>4 DEF SavedInv, DynamicEnvironment
<1>11. SharedTails'
  <2>1. Lists' \subseteq Lists
    BY <1>2, <1>4, <1>7 DEF Lists
  <2> QED BY <2>1 DEF WindersInvariant, SharedTails, Shared
<1>12. GuardsAlternate'
  BY <1>2 DEF WindersInvariant, GuardsAlternate
<1> QED BY <1>8, <1>9, <1>10, <1>11, <1>12 DEF WindersInvariant

\* %rewind*: LS, the tail of the winders of K that is in place, is what the
\* in-guard that is called next, or the stack of K, runs with.
LEMMA RewindKeeps ==
  ASSUME WindersInvariant, NEW ls \in Seq(consed), NEW k \in Cont, saved[k].valid,
         IsTail(ls, saved[k].winders),
         NEW rest \in Seq(Frames), NEW l, RunsIn(l, rest),
         RewindFrom(ls, k, rest), the_winders' = ls,
         saved' = saved, consed' = consed,
         entered' \in [Winder -> 0 .. 1], GuardsAlternate'
  PROVE  WindersInvariant'
<1> DEFINE target == saved[k].winders
<1>1. target \in Seq(consed) /\ saved[k].stack \in Seq(Frames) /\ consed \subseteq Winder
  BY DEF WindersInvariant, WindersTypeOK
<1>2. PICK E : E = {ls}
  OBVIOUS
<1>3. the_winders' \in E /\ Shared(Lists \cup E)
  <2>1. target \in Lists
    BY DEF Lists
  <2> QED BY <1>2, <2>1, TailsAdded
<1>4. /\ consed \subseteq consed' /\ consed' \subseteq Winder /\ the_winders' \in Seq(consed')
  BY <1>1
<1>5. CASE ls = target
  <2>1. PICK f : f = [call |-> "in-guard", in |-> ls]
    OBVIOUS
  <2>2. f.call = "in-guard" /\ f.in = ls
    BY <2>1
  <2>3. FrameInv(f)' /\ Environment(f) \in E
    BY <1>2, <2>2 DEF FrameInv, Environment
  <2>4. stack' = saved[k].stack
    BY <1>5 DEF RewindFrom
  <2>5. RunsIn(the_winders', stack')
    BY <1>5, <2>4 DEF WindersInvariant, SavedInv
  <2>6. stack' \in Seq(Frames \cup {f})
    BY <1>1, <2>4, SeqMonotonic
  <2> QED BY <1>3, <1>4, <2>3, <2>5, <2>6, StepKeeps
<1>6. CASE ls # target
  <2>1. PICK next : next = LastOf(target, Len(ls) + 1)
    OBVIOUS
  <2>2. PICK f : f = [call |-> "rewind", ls |-> next, to |-> k]
    OBVIOUS
  <2>3. f.call = "rewind" /\ f.ls = next /\ f.to = k
    BY <2>2
  <2>4. Len(ls) + 1 \in 0 .. Len(target) /\ Len(ls) \in Nat
    <3>1. Len(ls) \in Nat /\ Len(target) \in Nat
      BY <1>1, LenProperties
    <3>2. /\ Len(ls) <= Len(target)
          /\ \A d \in 1 .. Len(ls) : AtDepth(ls, d) = AtDepth(target, d)
      BY <1>1, TailByDepth
    <3>3. Len(ls) # Len(target)
      BY <1>1, <1>6, <3>2, SameList
    <3> QED BY <3>1, <3>2, <3>3
  <2>5. /\ next \in Seq(consed) /\ Len(next) = Len(ls) + 1 /\ IsTail(next, target)
        /\ \A d \in 1 .. Len(ls) + 1 : AtDepth(next, d) = AtDepth(target, d)
    BY <1>1, <2>1, <2>4, LastOfIs, LastOfIsTail
  <2>6. next # <<>>
    BY <2>4, <2>5
  <2>7. Tail(next) = ls
    <3>1. /\ Tail(next) \in Seq(consed) /\ Len(Tail(next)) = Len(ls)
          /\ \A d \in 1 .. Len(ls) : AtDepth(Tail(next), d) = AtDepth(next, d)
      BY <2>4, <2>5, <2>6, PoppedIs
    <3>2. \A d \in 1 .. Len(ls) : AtDepth(ls, d) = AtDepth(target, d)
      BY <1>1, TailByDepth
    <3>3. \A d \in 1 .. Len(ls) : AtDepth(next, d) = AtDepth(target, d)
      BY <2>4, <2>5
    <3> QED BY <3>1, <3>2, <3>3, SameList
  <2>8. FrameInv(f)' /\ Environment(f) = ls /\ IsEscape(f)
    BY <2>3, <2>5, <2>6, <2>7 DEF FrameInv, Environment, IsEscape
  <2>9. stack' = <<f>> \o rest
    BY <1>6, <2>1, <2>2 DEF RewindFrom
  <2>10. stack' \in Seq(Frames \cup {f}) /\ RunsIn(the_winders', stack')
    BY <2>8, <2>9, PushedFrames, RunsOnTop
  <2>11. Environment(f) \in E
    BY <1>2, <2>8
  <2> QED BY <1>3, <1>4, <2>8, <2>10, <2>11, StepKeeps
<1> QED BY <1>5, <1>6

\* %unwind*: the winder on top of LS, which is not of the target, is popped,
\* or what is left is the common tail and rewinding starts.
LEMMA WindKeeps ==
  ASSUME WindersInvariant, NEW ls, ls = the_winders,
         NEW tail \in Seq(consed), NEW k \in Cont, saved[k].valid,
         IsTail(tail, ls), IsTail(tail, saved[k].winders),
         \A n \in 0 .. Len(ls) :
           IsTail(LastOf(ls, n), saved[k].winders) => n <= Len(tail),
         NEW rest \in Seq(Frames), NEW l, RunsIn(l, rest),
         WindFrom(ls, tail, k, rest), saved' = saved, consed' = consed
  PROVE  WindersInvariant' /\ UncommonLeft
<1> DEFINE target == saved[k].winders
<1>1. /\ ls \in Seq(consed) /\ target \in Seq(consed) /\ consed \subseteq Winder
      /\ entered \in [Winder -> 0 .. 1] /\ GuardsAlternate
  BY DEF WindersInvariant, WindersTypeOK
<1>2. CASE ls = tail
  <2>1. RewindFrom(ls, k, rest) /\ the_winders' = ls /\ entered' = entered
    BY <1>2 DEF WindFrom
  <2>2. GuardsAlternate'
    BY <1>1, <2>1 DEF GuardsAlternate
  <2>3. UncommonLeft
    <3>1. \A w \in Winder : entered[w] \in 0 .. 1 /\ ~ entered'[w] < entered[w]
      BY <1>1, <2>1
    <3> QED BY <3>1 DEF UncommonLeft
  <2>4. WindersInvariant'
    BY <1>1, <1>2, <2>1, <2>2, RewindKeeps
  <2> QED BY <2>3, <2>4
<1>3. CASE ls # tail
  <2>1. PICK f : f = [call |-> "unwind", ls |-> Tail(ls), tail |-> tail, to |-> k]
    OBVIOUS
  <2>2. /\ f.call = "unwind" /\ f.ls = Tail(ls) /\ f.tail = tail /\ f.to = k
        /\ the_winders' = Tail(ls) /\ entered' = [entered EXCEPT ![Head(ls)] = @ - 1]
        /\ stack' = <<f>> \o rest
    BY <1>3, <2>1 DEF WindFrom, Unwind
  <2>3. /\ Len(tail) \in Nat /\ Len(ls) \in Nat /\ Len(tail) < Len(ls) /\ ls # <<>>
        /\ \A d \in 1 .. Len(tail) : AtDepth(tail, d) = AtDepth(ls, d)
    <3>1. Len(tail) \in Nat /\ Len(ls) \in Nat
      BY <1>1, LenProperties
    <3>2. Len(tail) <= Len(ls) /\ \A d \in 1 .. Len(tail) : AtDepth(tail, d) = AtDepth(ls, d)
      BY <1>1, TailByDepth
    <3>3. Len(tail) # Len(ls)
      BY <1>1, <1>3, <3>2, SameList
    <3>4. Len(tail) < Len(ls)
      BY <3>1, <3>2, <3>3
    <3>5. ls # <<>>
      BY <3>1, <3>4
    <3> QED BY <3>1, <3>2, <3>4, <3>5
  <2>4. /\ Tail(ls) \in Seq(consed) /\ Len(Tail(ls)) = Len(ls) - 1 /\ Head(ls) \in consed
        /\ AtDepth(ls, Len(ls)) = Head(ls)
        /\ \A d \in 1 .. Len(ls) - 1 : AtDepth(Tail(ls), d) = AtDepth(ls, d)
    BY <1>1, <2>3, PoppedIs
  <2>5. IsTail(tail, Tail(ls))
    <3>1. \A d \in 1 .. Len(tail) : d \in 1 .. Len(ls) - 1
      BY <2>3
    <3>2. Len(tail) <= Len(ls) - 1
      BY <2>3
    <3> QED BY <2>3, <2>4, <3>1, <3>2, TailByDepth
  <2>6. ASSUME NEW n \in 0 .. Len(ls) - 1
        PROVE  n \in 0 .. Len(ls) /\ LastOf(Tail(ls), n) = LastOf(ls, n)
    <3>1. n \in 0 .. Len(ls) /\ \A d \in 1 .. n : d \in 1 .. Len(ls) - 1
      BY <2>3
    <3>2. /\ LastOf(ls, n) \in Seq(consed) /\ Len(LastOf(ls, n)) = n
          /\ \A d \in 1 .. n : AtDepth(LastOf(ls, n), d) = AtDepth(ls, d)
      BY <1>1, <3>1, LastOfIs
    <3>3. /\ LastOf(Tail(ls), n) \in Seq(consed) /\ Len(LastOf(Tail(ls), n)) = n
          /\ \A d \in 1 .. n : AtDepth(LastOf(Tail(ls), n), d) = AtDepth(Tail(ls), d)
      <4>1. PICK t : t = Tail(ls)
        OBVIOUS
      <4>2. t \in Seq(consed) /\ n \in 0 .. Len(t)
        BY <2>4, <4>1
      <4>3. /\ LastOf(t, n) \in Seq(consed) /\ Len(LastOf(t, n)) = n
            /\ \A d \in 1 .. n : AtDepth(LastOf(t, n), d) = AtDepth(t, d)
        BY <4>2, LastOfIs
      <4> QED BY <4>1, <4>3
    <3>4. \A d \in 1 .. n : AtDepth(LastOf(Tail(ls), n), d) = AtDepth(LastOf(ls, n), d)
      BY <2>4, <3>1, <3>2, <3>3
    <3> QED BY <3>1, <3>2, <3>3, <3>4, SameList
  <2>7. FrameInv(f)'
    <3>1. \A n \in 0 .. Len(Tail(ls)) : IsTail(LastOf(Tail(ls), n), target) => n <= Len(tail)
      BY <2>4, <2>6
    <3>2. FrameInv(f)' =
            (/\ f.ls \in Seq(consed') /\ f.tail \in Seq(consed')
             /\ f.to \in Cont /\ saved'[f.to].valid
             /\ IsTail(f.tail, f.ls) /\ IsTail(f.tail, saved'[f.to].winders)
             /\ \A n \in 0 .. Len(f.ls) :
                  IsTail(LastOf(f.ls, n), saved'[f.to].winders) => n <= Len(f.tail))
      BY <2>2 DEF FrameInv
    <3> QED BY <2>2, <2>4, <2>5, <3>1, <3>2
  <2>8. Environment(f) = Tail(ls) /\ IsEscape(f)
    BY <2>2 DEF Environment, IsEscape
  <2>9. stack' \in Seq(Frames \cup {f}) /\ RunsIn(the_winders', stack')
    BY <2>2, <2>8, PushedFrames, RunsOnTop
  <2>10. PICK L : L = Lists
    OBVIOUS
  <2>11. L \in SUBSET Seq(consed) /\ Shared(L) /\ ls \in L /\ target \in L
    BY <2>10, ListsAre DEF WindersInvariant, SharedTails, Lists
  <2>12. Head(ls) \notin ToSet(Tail(ls)) /\ ToSet(ls) = {Head(ls)} \cup ToSet(Tail(ls))
    <3>1. IsTail(ls, ls)
      BY <1>1, TailReflexive
    <3> QED BY <1>1, <2>3, <2>11, <3>1, SharedOnce
  <2>13. PICK h : h = Head(ls)
    OBVIOUS
  <2>14. /\ h \in Winder /\ entered[h] = 1
         /\ \A v \in Winder : entered'[v] = IF v = h THEN 0 ELSE entered[v]
         /\ entered' \in [Winder -> 0 .. 1]
    <3>1. h \in Winder /\ h \in ToSet(ls)
      BY <1>1, <2>4, <2>12, <2>13
    <3>2. entered[h] = 1
      BY <1>1, <3>1 DEF GuardsAlternate
    <3>3. entered' = [entered EXCEPT ![h] = @ - 1]
      BY <2>2, <2>13
    <3> QED BY <1>1, <3>1, <3>2, <3>3
  <2>15. GuardsAlternate'
    BY <1>1, <2>2, <2>12, <2>13, <2>14 DEF GuardsAlternate
  <2>16. PICK E : E = {Tail(ls)}
    OBVIOUS
  <2>17. the_winders' \in E /\ Environment(f) \in E /\ Shared(Lists \cup E)
    <3>1. IsTail(Tail(ls), ls)
      BY <1>1, <2>3, PoppedIsTail
    <3> QED BY <2>2, <2>4, <2>8, <2>10, <2>11, <2>16, <3>1, TailsAdded
  <2>18. /\ consed \subseteq consed' /\ consed' \subseteq Winder
         /\ the_winders' \in Seq(consed')
    BY <1>1, <2>2, <2>4
  <2>19. WindersInvariant'
    BY <2>7, <2>9, <2>14, <2>15, <2>17, <2>18, StepKeeps
  \* The winder that is popped is not of the target, for then all of what is
  \* left to unwind would be.
  <2>20. h \notin ToSet(target)
    <3>1. SUFFICES ASSUME h \in ToSet(target) PROVE FALSE
      OBVIOUS
    <3>2. PICK e \in 1 .. Len(target) : AtDepth(target, e) = h
      BY <1>1, <3>1, MemberDepth
    <3>3. Len(ls) \in 1 .. Len(ls)
      BY <2>3
    <3>4. Len(ls) = e /\ \A c \in 1 .. Len(ls) : AtDepth(ls, c) = AtDepth(target, c)
      <4>1. AtDepth(ls, Len(ls)) = AtDepth(target, e)
        BY <2>4, <2>13, <3>2
      <4>2. \A x, y \in L : \A d \in 1 .. Len(x), b \in 1 .. Len(y) :
              AtDepth(x, d) = AtDepth(y, b) =>
                d = b /\ \A c \in 1 .. d : AtDepth(x, c) = AtDepth(y, c)
        BY <2>11 DEF Shared
      <4> HIDE DEF target
      <4> QED BY <2>11, <3>2, <3>3, <4>1, <4>2
    <3>5. Len(ls) <= Len(target)
      BY <1>1, <3>4, LenProperties
    <3>6. IsTail(ls, target)
      BY <1>1, <3>4, <3>5, TailByDepth
    <3>7. LastOf(ls, Len(ls)) = ls
      <4>1. Len(ls) \in 0 .. Len(ls)
        BY <2>3
      <4>2. /\ LastOf(ls, Len(ls)) \in Seq(consed) /\ Len(LastOf(ls, Len(ls))) = Len(ls)
            /\ \A d \in 1 .. Len(ls) : AtDepth(LastOf(ls, Len(ls)), d) = AtDepth(ls, d)
        BY <1>1, <4>1, LastOfIs
      <4> QED BY <1>1, <4>2, SameList
    <3>8. Len(ls) \in 0 .. Len(ls)
      BY <2>3
    <3>9. Len(ls) <= Len(tail)
      BY <3>6, <3>7, <3>8
    <3> QED BY <2>3, <3>9
  <2>21. UncommonLeft
    <3>1. ASSUME NEW w \in Winder, entered'[w] < entered[w] PROVE w = h
      <4>1. entered[w] \in 0 .. 1
        BY <1>1
      <4> QED BY <2>14, <3>1, <4>1
    <3>2. Head(stack') = f
      BY <2>2, ConsIs
    <3> QED BY <2>2, <2>20, <3>1, <3>2 DEF UncommonLeft
  <2> QED BY <2>19, <2>21
<1> QED BY <1>2, <1>3

LEMMA EscapeKeeps ==
  ASSUME WindersInvariant, NEW k \in Cont, Escape(k)
  PROVE  WindersInvariant' /\ UncommonLeft
<1>1. PICK ls : ls = the_winders
  OBVIOUS
<1>2. PICK tail : tail = winders_common_tail(saved[k].winders, ls)
  OBVIOUS
<1>3. PICK rest : rest = stack
  OBVIOUS
<1>4. /\ saved[k].valid /\ WindFrom(ls, tail, k, rest)
      /\ saved' = saved /\ consed' = consed
  BY <1>1, <1>2, <1>3 DEF Escape
<1>5. /\ ls \in Seq(consed) /\ saved[k].winders \in Seq(consed)
      /\ rest \in Seq(Frames) /\ RunsIn(ls, rest)
  BY <1>1, <1>3 DEF WindersInvariant, WindersTypeOK, DynamicEnvironment
<1>6. /\ tail \in Seq(consed) /\ IsTail(tail, saved[k].winders) /\ IsTail(tail, ls)
      /\ \A n \in 0 .. Len(ls) :
           IsTail(LastOf(ls, n), saved[k].winders) => n <= Len(tail)
  BY <1>2, <1>5, CommonTailIs
<1> QED BY <1>1, <1>4, <1>5, <1>6, WindKeeps

LEMMA UnwoundGuardReturnsKeeps ==
  ASSUME WindersInvariant, UnwoundGuardReturns
  PROVE  WindersInvariant' /\ UncommonLeft
<1>1. PICK h : h = Head(stack)
  OBVIOUS
<1>2. PICK rest : rest = Tail(stack)
  OBVIOUS
<1>3. PICK l : l = Under(stack, 1)
  OBVIOUS
<1>4. /\ stack # <<>> /\ h.call = "unwind" /\ WindFrom(h.ls, h.tail, h.to, rest)
      /\ saved' = saved /\ consed' = consed
  BY <1>1, <1>2 DEF UnwoundGuardReturns
<1>5. /\ FrameInv(h) /\ rest \in Seq(Frames) /\ the_winders = Environment(h)
      /\ RunsIn(l, rest)
  BY <1>1, <1>2, <1>3, <1>4, InnermostIs
<1>6. h.ls = the_winders
  BY <1>4, <1>5 DEF Environment
<1>7. /\ h.tail \in Seq(consed) /\ h.to \in Cont /\ saved[h.to].valid
      /\ IsTail(h.tail, h.ls) /\ IsTail(h.tail, saved[h.to].winders)
      /\ \A n \in 0 .. Len(h.ls) :
           IsTail(LastOf(h.ls, n), saved[h.to].winders) => n <= Len(h.tail)
  BY <1>4, <1>5 DEF FrameInv
<1> QED BY <1>4, <1>5, <1>6, <1>7, WindKeeps

LEMMA RewoundGuardReturnsKeeps ==
  ASSUME WindersInvariant, RewoundGuardReturns
  PROVE  WindersInvariant' /\ UncommonLeft
<1>1. PICK h : h = Head(stack)
  OBVIOUS
<1>2. PICK rest : rest = Tail(stack)
  OBVIOUS
<1>3. PICK l : l = Under(stack, 1)
  OBVIOUS
<1>4. PICK w : w = Head(h.ls)
  OBVIOUS
<1>5. /\ stack # <<>> /\ h.call = "rewind" /\ the_winders' = h.ls
      /\ entered' = [entered EXCEPT ![w] = @ + 1]
      /\ RewindFrom(h.ls, h.to, rest) /\ saved' = saved /\ consed' = consed
  BY <1>1, <1>2, <1>4 DEF RewoundGuardReturns
<1>6. /\ FrameInv(h) /\ rest \in Seq(Frames) /\ the_winders = Environment(h)
      /\ RunsIn(l, rest)
  BY <1>1, <1>2, <1>3, <1>5, InnermostIs
<1>7. /\ h.ls \in Seq(consed) /\ h.ls # <<>> /\ h.to \in Cont /\ saved[h.to].valid
      /\ IsTail(h.ls, saved[h.to].winders) /\ the_winders = Tail(h.ls)
  BY <1>5, <1>6 DEF FrameInv, Environment
<1>8. /\ consed \subseteq Winder /\ entered \in [Winder -> 0 .. 1] /\ GuardsAlternate
  BY DEF WindersInvariant, WindersTypeOK
<1>9. w \in Winder /\ w \notin ToSet(the_winders) /\ ToSet(h.ls) = {w} \cup ToSet(the_winders)
  <2>1. PICK L : L = Lists
    OBVIOUS
  <2>2. L \in SUBSET Seq(consed) /\ Shared(L) /\ saved[h.to].winders \in L
    BY <1>7, <2>1, ListsAre DEF WindersInvariant, SharedTails, Lists
  <2>3. Head(h.ls) \notin ToSet(Tail(h.ls)) /\ ToSet(h.ls) = {Head(h.ls)} \cup ToSet(Tail(h.ls))
    BY <1>7, <2>2, SharedOnce
  <2>4. w \in consed
    BY <1>4, <1>7, PoppedIs
  <2> QED BY <1>4, <1>7, <1>8, <2>3, <2>4
<1>10. /\ entered' \in [Winder -> 0 .. 1]
       /\ \A v \in Winder : entered'[v] = IF v = w THEN 1 ELSE entered[v]
  <2>1. entered[w] = 0
    BY <1>8, <1>9 DEF GuardsAlternate
  <2> QED BY <1>5, <1>8, <1>9, <2>1
<1>11. GuardsAlternate'
  BY <1>5, <1>8, <1>9, <1>10 DEF GuardsAlternate
<1>12. WindersInvariant'
  BY <1>5, <1>6, <1>7, <1>10, <1>11, RewindKeeps
<1>13. UncommonLeft
  <2>1. \A v \in Winder : ~ entered'[v] < entered[v]
    BY <1>8, <1>10
  <2> QED BY <2>1 DEF UncommonLeft
<1> QED BY <1>12, <1>13

-----------------------------------------------------------------------------

LEMMA InvariantKept ==
  ASSUME WindersInvariant, [WindersNext]_windersVars
  PROVE  WindersInvariant'
<1>1. CASE dynamic_wind
  BY <1>1, dynamic_windKeeps
<1>2. CASE \E w \in Winder : InGuardReturns(w)
  BY <1>2, InGuardReturnsKeeps
<1>3. CASE BodyReturns
  BY <1>3, BodyReturnsKeeps
<1>4. CASE OutGuardReturns
  BY <1>4, OutGuardReturnsKeeps
<1>5. CASE \E k \in Cont : call_cc(k)
  BY <1>5, call_ccKeeps
<1>6. CASE \E k \in Cont : Escape(k)
  BY <1>6, EscapeKeeps
<1>7. CASE UnwoundGuardReturns
  BY <1>7, UnwoundGuardReturnsKeeps
<1>8. CASE RewoundGuardReturns
  BY <1>8, RewoundGuardReturnsKeeps
<1>9. CASE UNCHANGED windersVars
  <2>1. /\ the_winders' = the_winders /\ stack' = stack /\ saved' = saved
        /\ consed' = consed /\ entered' = entered
    BY <1>9 DEF windersVars
  <2>2. Frames' = Frames
    BY <2>1 DEF Frames
  <2>3. WindersTypeOK' /\ GuardsAlternate' /\ DynamicEnvironment' /\ SavedInv'
    BY <2>1, <2>2
    DEF WindersInvariant, WindersTypeOK, GuardsAlternate, DynamicEnvironment, SavedInv
  <2>4. FramesInv'
    <3>1. ASSUME NEW f \in Frames PROVE FrameInv(f)'
      <4>1. FrameInv(f)
        BY DEF WindersInvariant, FramesInv
      <4> QED BY <2>1, <4>1, FrameInvKept
    <3> QED BY <2>2, <3>1 DEF FramesInv
  <2>5. SharedTails'
    <3>1. Lists' = Lists
      BY <2>1, <2>2 DEF Lists
    <3> QED BY <3>1 DEF WindersInvariant, SharedTails
  <2> QED BY <2>3, <2>4, <2>5 DEF WindersInvariant
<1> QED BY <1>1, <1>2, <1>3, <1>4, <1>5, <1>6, <1>7, <1>8, <1>9 DEF WindersNext

\* Whatever the bodies and the guards capture and wherever they escape, the
\* in- and out-guards of each winder alternate and what is called runs in the
\* dynamic environment of its call.
THEOREM WindersHold == WindersSpec => []WindersInvariant
<1>1. WindersInit => WindersInvariant
  BY InitHolds
<1>2. WindersInvariant /\ [WindersNext]_windersVars => WindersInvariant'
  BY InvariantKept
<1> QED BY <1>1, <1>2, PTL DEF WindersSpec

\* A step that escapes calls no out-guard of a winder around its target: the
\* out-guards are called by Unwind alone, down to the common tail, and by the
\* body that returns.
THEOREM OnlyUncommonLeft == WindersSpec => LeavesOnlyUncommon
<1>1. ASSUME WindersInvariant, [WindersNext]_windersVars
      PROVE  [UncommonLeft]_windersVars
  <2>1. entered \in [Winder -> 0 .. 1]
    BY <1>1 DEF WindersInvariant, WindersTypeOK
  <2>2. ASSUME \A w \in Winder : ~ entered'[w] < entered[w]
        PROVE  UncommonLeft
    BY <2>2 DEF UncommonLeft
  <2>3. CASE entered' = entered
    <3>1. \A w \in Winder : ~ entered'[w] < entered[w]
      BY <2>1, <2>3
    <3> QED BY <2>2, <3>1
  <2>4. CASE dynamic_wind \/ OutGuardReturns \/ \E k \in Cont : call_cc(k)
    BY <2>3, <2>4 DEF dynamic_wind, OutGuardReturns, call_cc
  <2>5. ASSUME NEW v \in Winder, InGuardReturns(v) PROVE UncommonLeft
    <3>1. entered' = [entered EXCEPT ![v] = @ + 1]
      BY <2>5 DEF InGuardReturns
    <3>2. \A w \in Winder : ~ entered'[w] < entered[w]
      BY <2>1, <3>1
    <3> QED BY <2>2, <3>2
  <2>6. CASE BodyReturns
    <3>1. PICK f : f = [call |-> "out-guard", in |-> Head(stack).in]
      OBVIOUS
    <3>2. PICK s : s = Tail(stack)
      OBVIOUS
    <3>3. stack # <<>> /\ stack' = <<f>> \o s
      BY <2>6, <3>1, <3>2 DEF BodyReturns
    <3>4. s \in Seq(Frames)
      BY <1>1, <3>2, <3>3, InnermostIs
    <3>5. f \in Frames \cup {f} /\ s \in Seq(Frames \cup {f})
      BY <3>4, SeqMonotonic
    <3>6. Head(stack') = f
      BY <3>3, <3>5, ConsIs
    <3>7. Head(stack').call = "out-guard"
      BY <3>1, <3>6
    <3> QED BY <3>7 DEF UncommonLeft
  <2>7. CASE \E k \in Cont : Escape(k)
    BY <1>1, <2>7, EscapeKeeps
  <2>8. CASE UnwoundGuardReturns
    BY <1>1, <2>8, UnwoundGuardReturnsKeeps
  <2>9. CASE RewoundGuardReturns
    BY <1>1, <2>9, RewoundGuardReturnsKeeps
  <2> QED BY <1>1, <2>4, <2>5, <2>6, <2>7, <2>8, <2>9 DEF WindersNext
<1>2. WindersSpec => []WindersInvariant
  BY WindersHold
<1> QED BY <1>1, <1>2, PTL DEF WindersSpec, LeavesOnlyUncommon

-----------------------------------------------------------------------------
(* Lists and what is on them.                                              *)

IsList(s) == s \in Seq(ToSet(s))

LEMMA ListIs ==
  ASSUME NEW S, NEW s \in Seq(S)
  PROVE  IsList(s)
BY OwnMembers DEF IsList

LEMMA NoneIsList == IsList(<<>>)
<1>1. <<>> \in Seq({})
  OBVIOUS
<1> QED BY <1>1, ListIs

\* What was pushed on a list.
LEMMA PushedList ==
  ASSUME NEW s, IsList(s), NEW x
  PROVE  /\ IsList(<<x>> \o s) /\ <<x>> \o s # <<>> /\ Len(<<x>> \o s) = Len(s) + 1
         /\ Head(<<x>> \o s) = x /\ Tail(<<x>> \o s) = s
         /\ (<<x>> \o s)[1] = x /\ \A i \in 1 .. Len(s) : (<<x>> \o s)[i + 1] = s[i]
         /\ AtDepth(<<x>> \o s, Len(s) + 1) = x
         /\ \A d \in 1 .. Len(s) : AtDepth(<<x>> \o s, d) = AtDepth(s, d)
<1> DEFINE S == ToSet(s) \cup {x}
<1>1. s \in Seq(S) /\ x \in S
  BY SeqMonotonic DEF IsList
<1> HIDE DEF S
<1>2. /\ <<x>> \o s \in Seq(S) /\ Len(<<x>> \o s) = Len(s) + 1
      /\ Head(<<x>> \o s) = x /\ Tail(<<x>> \o s) = s
      /\ <<x>> \o s # <<>>
      /\ (<<x>> \o s)[1] = x
      /\ \A i \in 1 .. Len(s) : (<<x>> \o s)[i + 1] = s[i]
      /\ AtDepth(<<x>> \o s, Len(s) + 1) = x
      /\ \A d \in 1 .. Len(s) : AtDepth(<<x>> \o s, d) = AtDepth(s, d)
  BY <1>1, ConsIs, SMTT(30)
<1>3. IsList(<<x>> \o s)
  BY <1>2, ListIs
<1> QED BY <1>2, <1>3, Zenon

LEMMA PoppedList ==
  ASSUME NEW s, IsList(s), s # <<>>
  PROVE  /\ IsList(Tail(s)) /\ Len(s) \in Nat \ {0} /\ Len(Tail(s)) = Len(s) - 1
         /\ Head(s) = s[1] /\ \A i \in 1 .. Len(s) - 1 : Tail(s)[i] = s[i + 1]
         /\ AtDepth(s, Len(s)) = Head(s)
         /\ \A d \in 1 .. Len(s) - 1 : AtDepth(Tail(s), d) = AtDepth(s, d)
<1>1. s \in Seq(ToSet(s))
  BY DEF IsList
<1>2. Tail(s) \in Seq(ToSet(s))
  BY <1>1, PoppedIs
<1> QED BY <1>1, <1>2, PoppedIs, ListIs

LEMMA LastOfList ==
  ASSUME NEW w, IsList(w), NEW n \in 0 .. Len(w)
  PROVE  /\ IsList(LastOf(w, n)) /\ Len(LastOf(w, n)) = n
         /\ \A d \in 1 .. n : AtDepth(LastOf(w, n), d) = AtDepth(w, d)
         /\ \A m \in 0 .. n : LastOf(LastOf(w, n), m) = LastOf(w, m)
<1> DEFINE S == ToSet(w)
<1>1. w \in Seq(S) /\ Len(w) \in Nat
  BY LenProperties DEF IsList
<1>2. /\ LastOf(w, n) \in Seq(S) /\ Len(LastOf(w, n)) = n
      /\ \A d \in 1 .. n : AtDepth(LastOf(w, n), d) = AtDepth(w, d)
  BY <1>1, LastOfIs
<1>3. ASSUME NEW m \in 0 .. n PROVE LastOf(LastOf(w, n), m) = LastOf(w, m)
  <2>1. m \in 0 .. Len(w) /\ m \in 0 .. Len(LastOf(w, n))
    BY <1>1, <1>2
  <2>2. /\ LastOf(w, m) \in Seq(S) /\ Len(LastOf(w, m)) = m
        /\ \A d \in 1 .. m : AtDepth(LastOf(w, m), d) = AtDepth(w, d)
    BY <1>1, <2>1, LastOfIs
  <2>3. /\ LastOf(LastOf(w, n), m) \in Seq(S) /\ Len(LastOf(LastOf(w, n), m)) = m
        /\ \A d \in 1 .. m : AtDepth(LastOf(LastOf(w, n), m), d) = AtDepth(LastOf(w, n), d)
    BY <1>2, <2>1, LastOfIs
  <2>4. \A d \in 1 .. m : d \in 1 .. n
    BY <1>1
  <2>5. \A d \in 1 .. m : AtDepth(LastOf(LastOf(w, n), m), d) = AtDepth(LastOf(w, m), d)
    BY <1>2, <2>2, <2>3, <2>4
  <2> QED BY <2>2, <2>3, <2>5, SameList
<1> QED BY <1>1, <1>2, <1>3, ListIs

\* The tails of a list: the list itself, what was popped, what a position is above.
LEMMA TailsAre ==
  ASSUME NEW w, IsList(w)
  PROVE  /\ LastOf(w, Len(w)) = w
         /\ w # <<>> => Tail(w) = LastOf(w, Len(w) - 1)
         /\ \A n \in 0 .. Len(w) - 1 : w # <<>> => LastOf(Tail(w), n) = LastOf(w, n)
         /\ \A i \in 0 .. Len(w) : Below(w, i) = LastOf(w, Len(w) - i)
<1> DEFINE S == ToSet(w)
<1>1. w \in Seq(S) /\ Len(w) \in Nat /\ Len(w) \in 0 .. Len(w)
  BY LenProperties DEF IsList
<1>2. LastOf(w, Len(w)) = w
  <2>1. /\ LastOf(w, Len(w)) \in Seq(S) /\ Len(LastOf(w, Len(w))) = Len(w)
        /\ \A d \in 1 .. Len(w) : AtDepth(LastOf(w, Len(w)), d) = AtDepth(w, d)
    BY <1>1, LastOfIs
  <2> QED BY <1>1, <2>1, SameList
<1>3. ASSUME w # <<>> PROVE Tail(w) = LastOf(w, Len(w) - 1)
  <2>1. /\ Tail(w) \in Seq(S) /\ Len(Tail(w)) = Len(w) - 1 /\ Len(w) \in Nat \ {0}
        /\ \A d \in 1 .. Len(w) - 1 : AtDepth(Tail(w), d) = AtDepth(w, d)
    BY <1>1, <1>3, PoppedIs
  <2>2. Len(w) - 1 \in 0 .. Len(w)
    BY <2>1
  <2>3. /\ LastOf(w, Len(w) - 1) \in Seq(S) /\ Len(LastOf(w, Len(w) - 1)) = Len(w) - 1
        /\ \A d \in 1 .. Len(w) - 1 : AtDepth(LastOf(w, Len(w) - 1), d) = AtDepth(w, d)
    BY <1>1, <2>2, LastOfIs
  <2>4. \A d \in 1 .. Len(Tail(w)) : AtDepth(Tail(w), d) = AtDepth(LastOf(w, Len(w) - 1), d)
    BY <2>1, <2>3
  <2> QED BY <2>1, <2>3, <2>4, SameList
<1>4. ASSUME NEW n \in 0 .. Len(w) - 1, w # <<>> PROVE LastOf(Tail(w), n) = LastOf(w, n)
  <2>1. Len(w) - 1 \in 0 .. Len(w)
    BY <1>1, <1>4
  <2> QED BY <1>3, <1>4, <2>1, LastOfList
<1>5. ASSUME NEW i \in 0 .. Len(w) PROVE Below(w, i) = LastOf(w, Len(w) - i)
  <2>1. Len(w) - (Len(w) - i) + 1 = i + 1
    BY <1>1
  <2> QED BY <2>1 DEF Below, LastOf
<1> QED BY <1>2, <1>3, <1>4, <1>5

\* What is on a list was pushed on it at some depth.
LEMMA HasDepth ==
  ASSUME NEW w, IsList(w), NEW k, NEW i
  PROVE  Has(w, k, i) <=>
           \E d \in 1 .. Len(w) : AtDepth(w, d).kind = k /\ AtDepth(w, d).id = i
<1>1. w \in Seq(ToSet(w)) /\ Len(w) \in Nat /\ DOMAIN w = 1 .. Len(w)
  BY LenProperties DEF IsList
<1>2. ASSUME NEW j \in 1 .. Len(w)
      PROVE  Len(w) - j + 1 \in 1 .. Len(w) /\ Len(w) - (Len(w) - j + 1) + 1 = j
  BY <1>1
<1>3. ASSUME NEW j \in 1 .. Len(w), w[j].kind = k, w[j].id = i
      PROVE  \E d \in 1 .. Len(w) : AtDepth(w, d).kind = k /\ AtDepth(w, d).id = i
  BY <1>2, <1>3 DEF AtDepth
<1>4. ASSUME NEW d \in 1 .. Len(w), AtDepth(w, d).kind = k, AtDepth(w, d).id = i
      PROVE  \E j \in 1 .. Len(w) : w[j].kind = k /\ w[j].id = i
  BY <1>2, <1>4 DEF AtDepth
<1> QED BY <1>1, <1>3, <1>4 DEF Has

LEMMA HasPushed ==
  ASSUME NEW w, IsList(w), NEW x, NEW k, NEW i
  PROVE  Has(<<x>> \o w, k, i) <=> (x.kind = k /\ x.id = i) \/ Has(w, k, i)
<1> DEFINE p == <<x>> \o w
<1>1. /\ IsList(p) /\ Len(p) = Len(w) + 1 /\ AtDepth(p, Len(w) + 1) = x
      /\ \A d \in 1 .. Len(w) : AtDepth(p, d) = AtDepth(w, d)
  BY PushedList
<1>2. Len(w) \in Nat
  BY LenProperties DEF IsList
<1> HIDE DEF p
<1>3. \A d : d \in 1 .. Len(p) <=> d \in 1 .. Len(w) \/ d = Len(w) + 1
  BY <1>1, <1>2
<1>4. Has(p, k, i) <=> \E d \in 1 .. Len(p) : AtDepth(p, d).kind = k /\ AtDepth(p, d).id = i
  BY <1>1, HasDepth
<1>5. Has(w, k, i) <=> \E d \in 1 .. Len(w) : AtDepth(w, d).kind = k /\ AtDepth(w, d).id = i
  BY HasDepth
<1>6. Has(p, k, i) <=> (x.kind = k /\ x.id = i) \/ Has(w, k, i)
  BY <1>1, <1>3, <1>4, <1>5
<1> QED BY <1>6 DEF p

LEMMA HasPopped ==
  ASSUME NEW w, IsList(w), w # <<>>, NEW k, NEW i
  PROVE  Has(w, k, i) <=> (Head(w).kind = k /\ Head(w).id = i) \/ Has(Tail(w), k, i)
<1>1. /\ IsList(Tail(w)) /\ Len(w) \in Nat \ {0} /\ Len(Tail(w)) = Len(w) - 1
      /\ AtDepth(w, Len(w)) = Head(w)
      /\ \A d \in 1 .. Len(w) - 1 : AtDepth(Tail(w), d) = AtDepth(w, d)
  BY PoppedList
<1>2. \A d : d \in 1 .. Len(w) <=> d \in 1 .. Len(w) - 1 \/ d = Len(w)
  BY <1>1
<1>3. Has(Tail(w), k, i) <=>
        \E d \in 1 .. Len(w) - 1 : AtDepth(Tail(w), d).kind = k /\ AtDepth(Tail(w), d).id = i
  <2>1. PICK t : t = Tail(w)
    OBVIOUS
  <2>2. IsList(t)
    BY <1>1, <2>1
  <2>3. Has(t, k, i) <=> \E d \in 1 .. Len(t) : AtDepth(t, d).kind = k /\ AtDepth(t, d).id = i
    BY <2>2, HasDepth
  <2>4. Len(t) = Len(w) - 1
    BY <1>1, <2>1
  <2> QED BY <2>1, <2>3, <2>4
<1>4. Has(w, k, i) <=> \E d \in 1 .. Len(w) : AtDepth(w, d).kind = k /\ AtDepth(w, d).id = i
  BY HasDepth
<1> QED BY <1>1, <1>2, <1>3, <1>4

-----------------------------------------------------------------------------
(* Places: a stack and the winders that are in force on it.  E is a set of *)
(* them, U the uses of the syntaxes so far.                                *)

\* The winder of the call that a frame is for.
KindOf(at) == CASE at = "thunk" -> "protect"
                [] at = "guarded" -> "guard"
                [] at = "handler" -> "handler"
                [] OTHER -> "receiver"

\* A winder on REST: what is outside of its call is a place, and no other
\* on the list is for the same use.
WinderFits(E, u, x, rest) ==
  /\ <<x.outside, rest>> \in E
  /\ x.id \in u
  /\ x.kind = "receiver" => x.id \in Ucc
  /\ x.kind \in {"protect", "handler"} => x.id \in Uwp
  /\ x.kind # "handler" => ~ Has(rest, x.kind, x.id)

ListFits(E, u, w) ==
  IsList(w) /\ \A d \in 1 .. Len(w) : WinderFits(E, u, AtDepth(w, d), LastOf(w, d - 1))

\* On a stack with a call of the program the innermost winder is that of the
\* call; an escape goes to a place.
PlaceFits(E, u, s, w) ==
  /\ IsList(s) /\ ListFits(E, u, w)
  /\ s # <<>> =>
       IF Head(s).at = "wind" THEN <<Head(s).to, Head(s).winders>> \in E
       ELSE w # <<>> /\ Head(w) = [kind |-> KindOf(Head(s).at), id |-> Head(s).id,
                                   outside |-> Tail(s)]

AllFit(E, u) == \A s, w : <<s, w>> \in E => PlaceFits(E, u, s, w)

LEMMA NoneFits == ASSUME NEW E, NEW u PROVE ListFits(E, u, <<>>)
BY NoneIsList DEF ListFits

LEMMA LastFits ==
  ASSUME NEW E, NEW u, NEW w, ListFits(E, u, w), NEW n \in 0 .. Len(w)
  PROVE  ListFits(E, u, LastOf(w, n))
<1>1. IsList(w) /\ \A d \in 1 .. Len(w) : WinderFits(E, u, AtDepth(w, d), LastOf(w, d - 1))
  BY DEF ListFits
<1>2. Len(w) \in Nat
  BY <1>1, LenProperties DEF IsList
<1>3. /\ IsList(LastOf(w, n)) /\ Len(LastOf(w, n)) = n
      /\ \A d \in 1 .. n : AtDepth(LastOf(w, n), d) = AtDepth(w, d)
      /\ \A m \in 0 .. n : LastOf(LastOf(w, n), m) = LastOf(w, m)
  BY <1>1, LastOfList
<1>4. ASSUME NEW d \in 1 .. n
      PROVE  WinderFits(E, u, AtDepth(LastOf(w, n), d), LastOf(LastOf(w, n), d - 1))
  <2>1. d \in 1 .. Len(w) /\ d - 1 \in 0 .. n
    BY <1>2
  <2>2. AtDepth(LastOf(w, n), d) = AtDepth(w, d) /\ LastOf(LastOf(w, n), d - 1) = LastOf(w, d - 1)
    BY <1>3, <2>1
  <2>3. WinderFits(E, u, AtDepth(w, d), LastOf(w, d - 1))
    BY <1>1, <2>1
  <2> QED BY <2>2, <2>3
<1> QED BY <1>3, <1>4 DEF ListFits

LEMMA PoppedFits ==
  ASSUME NEW E, NEW u, NEW w, ListFits(E, u, w), w # <<>>
  PROVE  /\ WinderFits(E, u, Head(w), Tail(w)) /\ ListFits(E, u, Tail(w))
         /\ IsList(w) /\ IsList(Tail(w))
<1>1. IsList(w) /\ \A d \in 1 .. Len(w) : WinderFits(E, u, AtDepth(w, d), LastOf(w, d - 1))
  BY DEF ListFits
<1>2. Len(w) \in Nat \ {0} /\ AtDepth(w, Len(w)) = Head(w) /\ IsList(Tail(w))
  BY <1>1, PoppedList
<1>3. Tail(w) = LastOf(w, Len(w) - 1)
  BY <1>1, TailsAre
<1>4. Len(w) - 1 \in 0 .. Len(w) /\ Len(w) \in 1 .. Len(w)
  BY <1>2
<1>5. ListFits(E, u, LastOf(w, Len(w) - 1))
  BY <1>4, LastFits
<1>6. WinderFits(E, u, AtDepth(w, Len(w)), LastOf(w, Len(w) - 1))
  BY <1>1, <1>4
<1> QED BY <1>1, <1>2, <1>3, <1>5, <1>6

LEMMA PushedFits ==
  ASSUME NEW E, NEW u, NEW w, ListFits(E, u, w), NEW x, WinderFits(E, u, x, w)
  PROVE  ListFits(E, u, <<x>> \o w)
<1> DEFINE p == <<x>> \o w
<1>1. IsList(w) /\ \A d \in 1 .. Len(w) : WinderFits(E, u, AtDepth(w, d), LastOf(w, d - 1))
  BY DEF ListFits
<1>2. Len(w) \in Nat
  BY <1>1, LenProperties DEF IsList
<1>3. /\ IsList(p) /\ p # <<>> /\ Len(p) = Len(w) + 1 /\ Tail(p) = w
      /\ AtDepth(p, Len(w) + 1) = x
      /\ \A d \in 1 .. Len(w) : AtDepth(p, d) = AtDepth(w, d)
  BY <1>1, PushedList
<1> HIDE DEF p
<1>4. /\ Tail(p) = LastOf(p, Len(p) - 1)
      /\ \A n \in 0 .. Len(p) - 1 : LastOf(Tail(p), n) = LastOf(p, n)
  BY <1>3, TailsAre
<1>5. w = LastOf(p, Len(w)) /\ \A n \in 0 .. Len(w) : LastOf(w, n) = LastOf(p, n)
  <2>1. Len(p) - 1 = Len(w)
    BY <1>2, <1>3
  <2> QED BY <1>3, <1>4, <2>1
<1>6. ASSUME NEW d \in 1 .. Len(p) PROVE WinderFits(E, u, AtDepth(p, d), LastOf(p, d - 1))
  <2>1. CASE d = Len(w) + 1
    <3>1. d - 1 = Len(w)
      BY <1>2, <2>1
    <3> QED BY <1>3, <1>5, <2>1, <3>1
  <2>2. CASE d # Len(w) + 1
    <3>1. d \in 1 .. Len(w) /\ d - 1 \in 0 .. Len(w)
      BY <1>2, <1>3, <2>2
    <3> QED BY <1>1, <1>3, <1>5, <3>1
  <2> QED BY <2>1, <2>2
<1>7. ListFits(E, u, p)
  BY <1>3, <1>6 DEF ListFits
<1> QED BY <1>7 DEF p

\* What is on a list that fits.
LEMMA HadFits ==
  ASSUME NEW E, NEW u, NEW w, ListFits(E, u, w), NEW k, NEW i, Has(w, k, i)
  PROVE  /\ i \in u
         /\ k = "receiver" => i \in Ucc
         /\ k \in {"protect", "handler"} => i \in Uwp
<1>1. IsList(w) /\ \A d \in 1 .. Len(w) : WinderFits(E, u, AtDepth(w, d), LastOf(w, d - 1))
  BY DEF ListFits
<1>2. PICK d \in 1 .. Len(w) : AtDepth(w, d).kind = k /\ AtDepth(w, d).id = i
  BY <1>1, HasDepth
<1>3. WinderFits(E, u, AtDepth(w, d), LastOf(w, d - 1))
  BY <1>1
<1> QED BY <1>2, <1>3 DEF WinderFits

\* The call of a winder at a position is from a place.
LEMMA OutsideIsPlace ==
  ASSUME NEW E, NEW u, NEW w, ListFits(E, u, w), NEW i \in DOMAIN w
  PROVE  <<w[i].outside, Below(w, i)>> \in E
<1>1. IsList(w) /\ \A d \in 1 .. Len(w) : WinderFits(E, u, AtDepth(w, d), LastOf(w, d - 1))
  BY DEF ListFits
<1>2. Len(w) \in Nat /\ DOMAIN w = 1 .. Len(w)
  BY <1>1, LenProperties DEF IsList
<1> DEFINE d == Len(w) - i + 1
<1>3. d \in 1 .. Len(w) /\ d - 1 = Len(w) - i /\ Len(w) - d + 1 = i /\ i \in 0 .. Len(w)
  BY <1>2
<1>4. AtDepth(w, d) = w[i]
  BY <1>3 DEF AtDepth
<1>5. LastOf(w, d - 1) = Below(w, i)
  BY <1>1, <1>3, TailsAre
<1>6. WinderFits(E, u, AtDepth(w, d), LastOf(w, d - 1))
  BY <1>1, <1>3
<1> HIDE DEF d
<1> QED BY <1>4, <1>5, <1>6 DEF WinderFits

\* More places and more uses.
LEMMA FitsMore ==
  ASSUME NEW E, NEW F, E \subseteq F, NEW u, NEW v, u \subseteq v
  PROVE  /\ \A w : ListFits(E, u, w) => ListFits(F, v, w)
         /\ \A s, w : PlaceFits(E, u, s, w) => PlaceFits(F, v, s, w)
<1>1. ASSUME NEW x, NEW rest, WinderFits(E, u, x, rest) PROVE WinderFits(F, v, x, rest)
  BY <1>1 DEF WinderFits
<1>2. ASSUME NEW w, ListFits(E, u, w) PROVE ListFits(F, v, w)
  BY <1>1, <1>2 DEF ListFits
<1>3. ASSUME NEW s, NEW w, PlaceFits(E, u, s, w) PROVE PlaceFits(F, v, s, w)
  BY <1>2, <1>3 DEF PlaceFits
<1> QED BY <1>2, <1>3

LEMMA PlaceAdded ==
  ASSUME NEW E, NEW u, AllFit(E, u), NEW v, u \subseteq v, NEW s, NEW w,
         PlaceFits(E \cup {<<s, w>>}, v, s, w)
  PROVE  AllFit(E \cup {<<s, w>>}, v)
<1> DEFINE F == E \cup {<<s, w>>}
<1>1. ASSUME NEW s2, NEW w2, <<s2, w2>> \in F PROVE PlaceFits(F, v, s2, w2)
  <2>1. CASE <<s2, w2>> \in E
    <3>1. PlaceFits(E, u, s2, w2)
      BY <2>1 DEF AllFit
    <3> QED BY <3>1, FitsMore
  <2>2. CASE s2 = s /\ w2 = w
    BY <2>2
  <2> QED BY <1>1, <2>1, <2>2
<1> QED BY <1>1 DEF AllFit

\* A call is entered: the winder and the frame that Enter and CallHandler push.
LEMMA EnteredFits ==
  ASSUME NEW E, NEW u, NEW s, NEW w, IsList(s), ListFits(E, u, w), <<s, w>> \in E,
         NEW kind, NEW at, NEW id, KindOf(at) = kind, at # "wind",
         NEW x, x = [kind |-> kind, id |-> id, outside |-> s],
         WinderFits(E, u, x, w)
  PROVE  PlaceFits(E, u, <<Frame(at, id)>> \o s, <<x>> \o w)
<1>1. ListFits(E, u, <<x>> \o w)
  BY PushedFits
<1>2. <<x>> \o w # <<>> /\ Head(<<x>> \o w) = x
  BY PushedList DEF ListFits
<1>3. PICK f : f = Frame(at, id)
  OBVIOUS
<1>4. IsList(<<f>> \o s) /\ Head(<<f>> \o s) = f /\ Tail(<<f>> \o s) = s
  BY PushedList
<1>5. f.at = at /\ f.id = id
  BY <1>3 DEF Frame
<1>6. PlaceFits(E, u, <<f>> \o s, <<x>> \o w)
  BY <1>1, <1>2, <1>4, <1>5 DEF PlaceFits
<1> QED BY <1>3, <1>6

\* An escape from the winders W to a place.
LEMMA WindFits ==
  ASSUME NEW E, NEW u, NEW rest, IsList(rest), NEW w, ListFits(E, u, w),
         NEW f, f.at = "wind", <<f.to, f.winders>> \in E
  PROVE  PlaceFits(E, u, <<f>> \o rest, w)
<1>1. IsList(<<f>> \o rest) /\ Head(<<f>> \o rest) = f
  BY PushedList
<1> QED BY <1>1 DEF PlaceFits

-----------------------------------------------------------------------------
(* The invariant.                                                          *)

\* The stack and the winders in force, and what the escape procedures
\* reinstate, are places.
Places(E) ==
  /\ AllFit(E, used)
  /\ <<frames, winders>> \in E
  /\ \A c \in Ucc : c \in used => <<Escaped(c, escape[c]), escape[c]>> \in E
  /\ \A k \in Standard :
       reinstated[k].valid => <<reinstated[k].frames, reinstated[k].winders>> \in E

UnwindInv ==
  /\ UnwindInvariant
  /\ \A u \in Uwp : terminated[u] => u \in used
  /\ \E E : Places(E)

LEMMA HereFits ==
  ASSUME NEW E, Places(E)
  PROVE  /\ PlaceFits(E, used, frames, winders) /\ ListFits(E, used, winders)
         /\ IsList(frames) /\ IsList(winders)
<1>1. PlaceFits(E, used, frames, winders)
  BY DEF Places, AllFit
<1> QED BY <1>1 DEF PlaceFits, ListFits

\* The call of the program on top of the stack, and its winder.
LEMMA CallFits ==
  ASSUME NEW E, Places(E), frames # <<>>, Head(frames).at # "wind"
  PROVE  /\ winders # <<>>
         /\ Head(winders).kind = KindOf(Head(frames).at)
         /\ Head(winders).id = Head(frames).id
         /\ <<Tail(frames), Tail(winders)>> \in E
         /\ PlaceFits(E, used, Tail(frames), Tail(winders))
<1>1. PlaceFits(E, used, frames, winders) /\ ListFits(E, used, winders)
  BY HereFits
<1>2. /\ winders # <<>>
      /\ Head(winders) = [kind |-> KindOf(Head(frames).at), id |-> Head(frames).id,
                          outside |-> Tail(frames)]
  BY <1>1 DEF PlaceFits
<1>3. WinderFits(E, used, Head(winders), Tail(winders))
  BY <1>1, <1>2, PoppedFits
<1>4. PICK x : x = Head(winders)
  OBVIOUS
<1>5. x.kind = KindOf(Head(frames).at) /\ x.id = Head(frames).id /\ x.outside = Tail(frames)
  BY <1>2, <1>4
<1>6. <<x.outside, Tail(winders)>> \in E
  BY <1>3, <1>4 DEF WinderFits
<1>7. <<Tail(frames), Tail(winders)>> \in E
  BY <1>5, <1>6
<1>8. PlaceFits(E, used, Tail(frames), Tail(winders))
  BY <1>7 DEF Places, AllFit
<1> QED BY <1>2, <1>4, <1>5, <1>7, <1>8

\* The winders that are in force when the innermost one is popped.
LEMMA HadWhenPopped ==
  ASSUME NEW E, NEW u, NEW w, ListFits(E, u, w), w # <<>>,
         NEW k, k # "handler", NEW i
  PROVE  Has(Tail(w), k, i) <=> Has(w, k, i) /\ ~ (Head(w).kind = k /\ Head(w).id = i)
<1>1. WinderFits(E, u, Head(w), Tail(w)) /\ IsList(w)
  BY PoppedFits
<1>2. Has(w, k, i) <=> (Head(w).kind = k /\ Head(w).id = i) \/ Has(Tail(w), k, i)
  BY <1>1, HasPopped
<1> QED BY <1>1, <1>2 DEF WinderFits

LEMMA LeftIs == TerminatedIsLeft <=> \A u : Has(winders, "protect", u) => ~ terminated[u]
BY DEF TerminatedIsLeft, Has

\* A step to a place.
LEMMA MovesTo ==
  ASSUME NEW E, Places(E), UNCHANGED <<escape, reinstated, used>>,
         PlaceFits(E, used, frames', winders')
  PROVE  (\E F : Places(F))' /\ \A i \in DOMAIN winders' : winders'[i].id \in used'
<1>1. PICK s, w : s = frames' /\ w = winders'
  OBVIOUS
<1> DEFINE F == E \cup {<<s, w>>}
<1>2. AllFit(E, used) /\ PlaceFits(E, used, s, w)
  BY <1>1 DEF Places
<1>3. PlaceFits(F, used, s, w)
  BY <1>2, FitsMore
<1>4. AllFit(F, used)
  BY <1>2, <1>3, PlaceAdded
<1>5. Places(F)'
  <2>1. \A c \in Ucc : c \in used => <<Escaped(c, escape[c]), escape[c]>> \in F
    BY DEF Places
  <2>2. \A k \in Standard :
          reinstated[k].valid => <<reinstated[k].frames, reinstated[k].winders>> \in F
    BY DEF Places
  <2>3. <<s, w>> \in F
    OBVIOUS
  <2> HIDE DEF F
  <2> QED BY <1>1, <1>4, <2>1, <2>2, <2>3 DEF Places
<1>6. ASSUME NEW i \in DOMAIN w PROVE w[i].id \in used
  <2>1. Has(w, w[i].kind, w[i].id)
    BY DEF Has
  <2> QED BY <1>2, <2>1, HadFits DEF PlaceFits
<1> QED BY <1>1, <1>5, <1>6

\* A step that pops the innermost winder and calls no handler.
LEMMA PopKeeps ==
  ASSUME UnwindInv, NEW E, Places(E), winders # <<>>,
         winders' = Tail(winders), PlaceFits(E, used, frames', Tail(winders)),
         in_receiver' = IF Head(winders).kind = "receiver" THEN Outside(Head(winders).id)
                        ELSE in_receiver,
         why' \in {why, "no"},
         UNCHANGED <<terminated, calls, called, escape, reinstated, used>>
  PROVE  UnwindInv'
<1>1. ListFits(E, used, winders)
  BY HereFits
<1>2. (\E F : Places(F))' /\ \A i \in DOMAIN winders' : winders'[i].id \in used'
  BY MovesTo
<1>3. in_receiver' \in [Ucc -> BOOLEAN]
  BY DEF UnwindInv, UnwindInvariant, UnwindTypes, Outside
<1>4. UnwindTypes' /\ HandlerCalledOnce'
  BY <1>2, <1>3 DEF UnwindInv, UnwindInvariant, UnwindTypes, HandlerCalledOnce
<1>5. TerminatedIsLeft'
  <2>1. \A u : Has(winders', "protect", u) => ~ terminated'[u]
    BY <1>1, HadWhenPopped, LeftIs DEF UnwindInv, UnwindInvariant
  <2> QED BY <2>1 DEF TerminatedIsLeft, Has
<1>6. ASSUME NEW c \in Ucc PROVE in_receiver'[c] = Has(winders', "receiver", c)
  <2>1. in_receiver[c] = Has(winders, "receiver", c)
    BY DEF UnwindInv, UnwindInvariant, InsideIsTrue
  <2>2. Has(winders', "receiver", c) <=>
          Has(winders, "receiver", c) /\ ~ (Head(winders).kind = "receiver" /\ Head(winders).id = c)
    BY <1>1, HadWhenPopped
  <2>3. in_receiver'[c] =
          IF Head(winders).kind = "receiver" /\ Head(winders).id = c THEN FALSE ELSE in_receiver[c]
    BY DEF UnwindInv, UnwindInvariant, UnwindTypes, Outside
  <2>4. in_receiver'[c] \in BOOLEAN
    BY <1>3
  <2>5. Has(winders', "receiver", c) \in BOOLEAN
    BY DEF Has
  <2> QED BY <2>1, <2>2, <2>3, <2>4, <2>5
<1>7. InsideIsTrue'
  BY <1>6 DEF InsideIsTrue, Has
<1>8. \A u \in Uwp : terminated'[u] => u \in used'
  BY DEF UnwindInv
<1> QED BY <1>2, <1>4, <1>5, <1>7, <1>8 DEF UnwindInv, UnwindInvariant

\* A step that leaves the winders alone.
LEMMA StayKeeps ==
  ASSUME UnwindInv, NEW E, Places(E), winders' = winders,
         PlaceFits(E, used, frames', winders),
         why' \in {why, "no", "escape", "exception"},
         called' \in [Ucc -> BOOLEAN], \A c \in Ucc : called'[c] => c \in used,
         UNCHANGED <<terminated, calls, in_receiver, escape, reinstated, used>>
  PROVE  UnwindInv'
<1>1. (\E F : Places(F))' /\ \A i \in DOMAIN winders' : winders'[i].id \in used'
  BY MovesTo
<1>2. UnwindTypes'
  BY <1>1 DEF UnwindInv, UnwindInvariant, UnwindTypes
<1>3. HandlerCalledOnce' /\ TerminatedIsLeft' /\ InsideIsTrue'
  BY DEF UnwindInv, UnwindInvariant, HandlerCalledOnce, TerminatedIsLeft, InsideIsTrue
<1>4. \A u \in Uwp : terminated'[u] => u \in used'
  BY DEF UnwindInv
<1> QED BY <1>1, <1>2, <1>3, <1>4 DEF UnwindInv, UnwindInvariant

\* A syntax is used: its call, with its winder, is on the stack.
LEMMA EnterKeeps ==
  ASSUME UnwindInv, NEW kind \in {"protect", "receiver", "guard"}, NEW at, NEW id,
         Enter(kind, at, id), KindOf(at) = kind, at # "wind",
         kind = "receiver" => id \in Ucc, kind = "protect" => id \in Uwp,
         IF kind = "receiver"
         THEN /\ in_receiver' = [in_receiver EXCEPT ![id] = TRUE]
              /\ escape' = [escape EXCEPT ![id] = winders']
         ELSE UNCHANGED <<in_receiver, escape>> /\ id \notin Ucc,
         UNCHANGED <<why, terminated, calls, called, reinstated>>
  PROVE  UnwindInv'
<1>1. PICK E : Places(E)
  BY DEF UnwindInv
<1>2. PICK s, w, u : s = frames /\ w = winders /\ u = used
  OBVIOUS
<1>3. PICK x : x = [kind |-> kind, id |-> id, outside |-> s]
  OBVIOUS
<1>4. /\ id \notin u /\ used' = u \cup {id}
      /\ winders' = <<x>> \o w /\ frames' = <<Frame(at, id)>> \o s
  BY <1>2, <1>3 DEF Enter
<1>5. x.kind = kind /\ x.id = id /\ x.outside = s
  BY <1>3
<1>6. ListFits(E, u, w) /\ IsList(s) /\ IsList(w) /\ AllFit(E, u) /\ <<s, w>> \in E
  BY <1>1, <1>2, HereFits DEF Places
<1>7. PICK v : v = u \cup {id}
  OBVIOUS
<1>8. u \subseteq v /\ used' = v
  BY <1>4, <1>7
<1>9. ~ Has(w, kind, id)
  BY <1>4, <1>6, HadFits
<1>10. WinderFits(E, v, x, w)
  BY <1>5, <1>6, <1>7, <1>9 DEF WinderFits
<1>11. ListFits(E, v, w)
  BY <1>6, <1>8, FitsMore
<1>12. PICK s2, w2 : s2 = <<Frame(at, id)>> \o s /\ w2 = <<x>> \o w
  OBVIOUS
<1>13. PlaceFits(E, v, s2, w2)
  BY <1>3, <1>6, <1>10, <1>11, <1>12, EnteredFits
<1>14. PICK e2 : e2 = <<Frame("escaped", id)>> \o s
  OBVIOUS
<1>15. PICK F : /\ E \subseteq F /\ AllFit(F, v) /\ <<s2, w2>> \in F
                /\ kind = "receiver" => <<e2, w2>> \in F
  <2> DEFINE G == E \cup {<<s2, w2>>}
             H == G \cup {<<e2, w2>>}
  <2>1. AllFit(G, v)
    <3>1. PlaceFits(G, v, s2, w2)
      BY <1>13, FitsMore
    <3> QED BY <1>6, <1>8, <3>1, PlaceAdded
  <2>2. ASSUME kind = "receiver" PROVE AllFit(H, v)
    <3>1. KindOf("escaped") = kind
      BY <2>2 DEF KindOf
    <3>2. PlaceFits(E, v, e2, w2)
      BY <1>3, <1>6, <1>10, <1>11, <1>12, <1>14, <3>1, EnteredFits
    <3>3. PlaceFits(H, v, e2, w2)
      BY <3>2, FitsMore
    <3> HIDE DEF G
    <3> QED BY <2>1, <3>3, PlaceAdded
  <2>3. E \subseteq G /\ E \subseteq H /\ <<s2, w2>> \in G /\ <<s2, w2>> \in H /\ <<e2, w2>> \in H
    OBVIOUS
  <2> HIDE DEF G, H
  <2> QED BY <2>1, <2>2, <2>3
<1>16. s2 = frames' /\ w2 = winders'
  BY <1>4, <1>12
<1>17. Places(F)'
  <2>1. ASSUME NEW c \in Ucc, c \in v PROVE <<Escaped(c, escape[c])', escape'[c]>> \in F
    <3>1. CASE kind = "receiver" /\ c = id
      <4>1. escape'[c] = w2
        BY <1>16, <3>1 DEF UnwindInv, UnwindInvariant, UnwindTypes
      <4>2. Head(w2) = x
        BY <1>6, <1>12, PushedList
      <4>3. Escaped(c, w2) = e2
        BY <1>5, <1>14, <3>1, <4>2 DEF Escaped
      <4>4. Escaped(c, escape[c])' = e2
        BY <4>1, <4>3 DEF Escaped, Frame
      <4> QED BY <1>15, <3>1, <4>1, <4>4
    <3>2. CASE ~ (kind = "receiver" /\ c = id)
      <4>1. c \in u /\ escape'[c] = escape[c]
        <5>1. CASE kind = "receiver"
          <6>1. c # id
            BY <3>2, <5>1
          <6> QED BY <1>7, <2>1, <5>1, <6>1 DEF UnwindInv, UnwindInvariant, UnwindTypes
        <5>2. CASE kind # "receiver"
          BY <1>7, <2>1, <5>2
        <5> QED BY <5>1, <5>2
      <4>2. <<Escaped(c, escape[c]), escape[c]>> \in E
        BY <1>1, <1>2, <4>1 DEF Places
      <4>3. Escaped(c, escape[c])' = Escaped(c, escape[c])
        BY <4>1 DEF Escaped, Frame
      <4> QED BY <1>15, <4>1, <4>2, <4>3
    <3> QED BY <3>1, <3>2
  <2>2. \A k \in Standard :
          reinstated[k].valid => <<reinstated[k].frames, reinstated[k].winders>> \in F
    BY <1>1, <1>15 DEF Places
  <2> QED BY <1>8, <1>15, <1>16, <2>1, <2>2 DEF Places
<1>18. UnwindTypes' /\ HandlerCalledOnce'
  <2>1. ListFits(F, v, w2)
    BY <1>15 DEF AllFit, PlaceFits
  <2>2. ASSUME NEW i \in DOMAIN w2 PROVE w2[i].id \in v
    <3>1. Has(w2, w2[i].kind, w2[i].id)
      BY DEF Has
    <3> QED BY <2>1, <3>1, HadFits
  <2>3. in_receiver' \in [Ucc -> BOOLEAN] /\ DOMAIN escape' = Ucc
    BY DEF UnwindInv, UnwindInvariant, UnwindTypes
  <2>4. \A c \in Ucc : called'[c] => c \in used'
    BY <1>2, <1>8 DEF UnwindInv, UnwindInvariant, UnwindTypes
  <2> QED BY <1>8, <1>16, <2>2, <2>3, <2>4
      DEF UnwindInv, UnwindInvariant, UnwindTypes, HandlerCalledOnce
<1>19. \A k, i : Has(w2, k, i) <=> (kind = k /\ id = i) \/ Has(w, k, i)
  BY <1>5, <1>6, <1>12, HasPushed
<1>20. TerminatedIsLeft'
  <2>1. ASSUME NEW i, Has(w2, "protect", i) PROVE ~ terminated[i]
    <3>1. CASE Has(w, "protect", i)
      BY <1>2, <3>1, LeftIs DEF UnwindInv, UnwindInvariant
    <3>2. CASE kind = "protect" /\ id = i
      BY <1>2, <1>4, <3>2 DEF UnwindInv
    <3> QED BY <1>19, <2>1, <3>1, <3>2
  <2> QED BY <1>16, <2>1 DEF TerminatedIsLeft, Has
<1>21. ASSUME NEW c \in Ucc PROVE in_receiver'[c] = Has(w2, "receiver", c)
  <2>1. in_receiver[c] = Has(w, "receiver", c)
    BY <1>2 DEF UnwindInv, UnwindInvariant, InsideIsTrue
  <2>2. in_receiver'[c] = IF kind = "receiver" /\ id = c THEN TRUE ELSE in_receiver[c]
    <3>1. CASE kind = "receiver"
      BY <3>1 DEF UnwindInv, UnwindInvariant, UnwindTypes
    <3>2. CASE kind # "receiver"
      BY <3>2
    <3> QED BY <3>1, <3>2
  <2>3. Has(w2, "receiver", c) <=> (kind = "receiver" /\ id = c) \/ Has(w, "receiver", c)
    BY <1>19
  <2>4. Has(w2, "receiver", c) \in BOOLEAN /\ Has(w, "receiver", c) \in BOOLEAN
    BY DEF Has
  <2>5. CASE kind = "receiver" /\ id = c
    BY <2>2, <2>3, <2>4, <2>5
  <2>6. CASE ~ (kind = "receiver" /\ id = c)
    <3>1. Has(w2, "receiver", c) = Has(w, "receiver", c)
      BY <2>3, <2>4, <2>6
    <3> QED BY <2>1, <2>2, <2>6, <3>1
  <2> QED BY <2>5, <2>6
<1>22. InsideIsTrue'
  BY <1>16, <1>21 DEF InsideIsTrue, Has
<1>23. \A t \in Uwp : terminated'[t] => t \in used'
  BY <1>2, <1>8 DEF UnwindInv
<1> QED BY <1>17, <1>18, <1>20, <1>22, <1>23 DEF UnwindInv, UnwindInvariant

\* An out-guard pops the winder of a thunk and calls its unwind handler.
LEMMA CallHandlerKeeps ==
  ASSUME UnwindInv, NEW E, Places(E), winders # <<>>, Head(winders).kind = "protect",
         NEW rest, CallHandler(Head(winders).id, rest, Tail(winders)),
         PlaceFits(E, used, rest, Tail(winders)),
         ~ terminated[Head(winders).id],
         UNCHANGED <<why, in_receiver, called, escape, reinstated, used>>
  PROVE  UnwindInv'
<1>1. PICK id, w : id = Head(winders).id /\ w = Tail(winders)
  OBVIOUS
<1>2. PICK x : x = [kind |-> "handler", id |-> id, outside |-> rest]
  OBVIOUS
<1>3. x.kind = "handler" /\ x.id = id /\ x.outside = rest
  BY <1>2
<1>4. /\ terminated' = [terminated EXCEPT ![id] = TRUE]
      /\ calls' = [calls EXCEPT ![id] = @ + 1]
      /\ winders' = <<x>> \o w /\ frames' = <<Frame("handler", id)>> \o rest
  BY <1>1, <1>2 DEF CallHandler
<1>5. ListFits(E, used, winders)
  BY HereFits
<1>6. /\ Has(winders, "protect", id) /\ ~ Has(w, "protect", id)
      /\ \A k, i : k # "handler" /\ Has(w, k, i) => Has(winders, k, i)
  <2>1. \A k, i : k # "handler" =>
          (Has(w, k, i) <=> /\ Has(winders, k, i)
                            /\ ~ (Head(winders).kind = k /\ Head(winders).id = i))
    BY <1>1, <1>5, HadWhenPopped
  <2>2. Has(winders, "protect", id)
    BY <1>1, <1>5, HasPopped DEF ListFits
  <2> QED BY <1>1, <2>1, <2>2
<1>7. id \in used /\ id \in Uwp
  BY <1>5, <1>6, HadFits
\* The place of the call.
<1>8. PICK u : u = used
  OBVIOUS
<1>9. PlaceFits(E, u, rest, w) /\ ListFits(E, u, w) /\ IsList(rest) /\ IsList(w)
  BY <1>1, <1>8 DEF PlaceFits, ListFits
<1> DEFINE F == E \cup {<<rest, w>>}
<1>10. AllFit(F, u) /\ ListFits(F, u, w) /\ <<rest, w>> \in F /\ E \subseteq F
  <2>1. AllFit(E, u)
    BY <1>8 DEF Places
  <2>2. PlaceFits(F, u, rest, w) /\ ListFits(F, u, w)
    BY <1>9, FitsMore
  <2> QED BY <2>1, <2>2, PlaceAdded
<1> HIDE DEF F
<1>11. Places(F)
  BY <1>8, <1>10 DEF Places
<1>12. WinderFits(F, u, x, w)
  BY <1>3, <1>7, <1>8, <1>10 DEF WinderFits
<1>13. PlaceFits(F, used, frames', winders')
  <2>1. KindOf("handler") = "handler"
    BY DEF KindOf
  <2>2. PlaceFits(F, u, <<Frame("handler", id)>> \o rest, <<x>> \o w)
    BY <1>2, <1>9, <1>10, <1>12, <2>1, EnteredFits
  <2> QED BY <1>4, <1>8, <2>2
<1>14. (\E G : Places(G))' /\ \A i \in DOMAIN winders' : winders'[i].id \in used'
  BY <1>11, <1>13, MovesTo
<1>15. /\ terminated' \in [Uwp -> BOOLEAN] /\ calls' \in [Uwp -> Nat]
       /\ HandlerCalledOnce'
  <2>1. terminated \in [Uwp -> BOOLEAN] /\ calls \in [Uwp -> Nat]
    BY DEF UnwindInv, UnwindInvariant, UnwindTypes
  <2>2. calls[id] = 0
    BY <1>1, <1>7 DEF UnwindInv, UnwindInvariant, HandlerCalledOnce
  <2>3. \A t \in Uwp : calls'[t] = IF t = id THEN 1 ELSE calls[t]
    BY <1>4, <2>1, <2>2
  <2>4. \A t \in Uwp : terminated'[t] = IF t = id THEN TRUE ELSE terminated[t]
    BY <1>4, <2>1
  <2>5. \A t \in Uwp : calls[t] = IF terminated[t] THEN 1 ELSE 0
    BY DEF UnwindInv, UnwindInvariant, HandlerCalledOnce
  <2>6. \A t \in Uwp : calls'[t] = IF terminated'[t] THEN 1 ELSE 0
    BY <2>3, <2>4, <2>5
  <2>7. terminated' \in [Uwp -> BOOLEAN]
    BY <1>4, <2>1
  <2>8. calls' \in [Uwp -> Nat]
    <3>1. calls' = [calls EXCEPT ![id] = 1]
      BY <1>4, <1>7, <2>1, <2>2
    <3> QED BY <2>1, <3>1
  <2>9. HandlerCalledOnce'
    BY <2>6 DEF HandlerCalledOnce
  <2> QED BY <2>7, <2>8, <2>9
<1>16. UnwindTypes'
  BY <1>14, <1>15 DEF UnwindInv, UnwindInvariant, UnwindTypes
<1>17. \A k, i : k # "handler" => (Has(winders', k, i) <=> Has(w, k, i))
  BY <1>3, <1>4, <1>9, HasPushed
<1>18. TerminatedIsLeft'
  <2>1. ASSUME NEW i, Has(winders', "protect", i) PROVE ~ terminated'[i]
    <3>1. Has(w, "protect", i) /\ Has(winders, "protect", i)
      BY <1>6, <1>17, <2>1
    <3>2. ~ terminated[i] /\ i # id
      BY <1>6, <3>1, LeftIs DEF UnwindInv, UnwindInvariant
    <3>3. i \in Uwp
      BY <1>5, <3>1, HadFits
    <3> QED BY <1>4, <3>2, <3>3 DEF UnwindInv, UnwindInvariant, UnwindTypes
  <2> QED BY <2>1 DEF TerminatedIsLeft, Has
<1>19. InsideIsTrue'
  <2>1. ASSUME NEW c \in Ucc PROVE in_receiver'[c] = Has(winders', "receiver", c)
    <3>1. Has(w, "receiver", c) <=> Has(winders, "receiver", c)
      BY <1>1, <1>5, HadWhenPopped
    <3>2. in_receiver[c] = Has(winders, "receiver", c)
      BY DEF UnwindInv, UnwindInvariant, InsideIsTrue
    <3>3. Has(winders', "receiver", c) <=> Has(w, "receiver", c)
      BY <1>17
    <3>4. Has(winders', "receiver", c) \in BOOLEAN /\ Has(winders, "receiver", c) \in BOOLEAN
      BY DEF Has
    <3> QED BY <3>1, <3>2, <3>3, <3>4
  <2> QED BY <2>1 DEF InsideIsTrue, Has
<1>20. \A t \in Uwp : terminated'[t] => t \in used'
  BY <1>4, <1>7 DEF UnwindInv, UnwindInvariant, UnwindTypes
<1> QED BY <1>14, <1>15, <1>16, <1>18, <1>19, <1>20 DEF UnwindInv, UnwindInvariant

\* An escape from W to a place, and raise, which is one.
LEMMA WindToFits ==
  ASSUME NEW E, NEW u, NEW w, ListFits(E, u, w), NEW rest, IsList(rest),
         NEW from, NEW ws, NEW stk, NEW kind, WindTo(from, ws, stk, kind, rest),
         <<stk, ws>> \in E
  PROVE  PlaceFits(E, u, frames', w)
<1>1. PICK f : f = [at |-> "wind", kind |-> kind, left |-> Protected(from) \ Protected(ws),
                    winders |-> ws, to |-> stk]
  OBVIOUS
<1>2. f.at = "wind" /\ f.winders = ws /\ f.to = stk
  BY <1>1
<1>3. PlaceFits(E, u, <<f>> \o rest, w)
  BY <1>2, WindFits
<1> QED BY <1>1, <1>3 DEF WindTo

LEMMA RaiseFits ==
  ASSUME NEW E, NEW u, NEW w, ListFits(E, u, w), NEW rest, IsList(rest), Raise(w, rest)
  PROVE  PlaceFits(E, u, frames', w) /\ why' \in {why, "no", "exception"}
<1>1. \A i \in DOMAIN w : <<w[i].outside, Below(w, i)>> \in E
  BY OutsideIsPlace
<1>2. PICK i \in DOMAIN w, kind \in {"exception", "discarded"} :
        WindTo(w, Below(w, i), w[i].outside, kind, rest) /\ why' \in {why, "no", "exception"}
  BY DEF Raise, Guards, CleanupsAsked
<1> QED BY <1>1, <1>2, WindToFits

-----------------------------------------------------------------------------
(* The steps.                                                              *)

LEMMA ThunkReturnsKeeps == ASSUME UnwindInv, ThunkReturns PROVE UnwindInv'
<1>1. PICK E : Places(E)
  BY DEF UnwindInv
<1>2. frames # <<>> /\ Head(frames).at = "thunk"
  BY DEF ThunkReturns
<1>3. /\ winders # <<>> /\ Head(winders).kind = "protect"
      /\ Head(winders).id = Head(frames).id
      /\ PlaceFits(E, used, Tail(frames), Tail(winders))
  BY <1>1, <1>2, CallFits DEF KindOf
<1>4. ListFits(E, used, winders)
  BY <1>1, HereFits
<1>5. Has(winders, "protect", Head(winders).id)
  BY <1>3, <1>4, HasPopped DEF ListFits
<1>6. ~ terminated[Head(winders).id]
  BY <1>5, LeftIs DEF UnwindInv, UnwindInvariant
<1> QED BY <1>1, <1>3, <1>6, CallHandlerKeeps DEF ThunkReturns

LEMMA ReturnKeeps ==
  ASSUME UnwindInv, HandlerReturns \/ GuardReturns \/ ReceiverReturns
  PROVE  UnwindInv'
<1>1. PICK E : Places(E)
  BY DEF UnwindInv
<1>2. /\ frames # <<>> /\ Head(frames).at \in {"handler", "guarded", "receiver", "escaped"}
      /\ winders' = Tail(winders) /\ frames' = Tail(frames)
      /\ why' \in {why, "no"}
      /\ UNCHANGED <<terminated, calls, called, escape, reinstated, used>>
  BY DEF HandlerReturns, GuardReturns, ReceiverReturns, ReasonAfter
<1>3. /\ winders # <<>> /\ Head(winders).kind = KindOf(Head(frames).at)
      /\ Head(winders).id = Head(frames).id
      /\ PlaceFits(E, used, Tail(frames), Tail(winders))
  BY <1>1, <1>2, CallFits
<1>4. CASE Head(frames).at \in {"handler", "guarded"}
  <2>1. Head(winders).kind # "receiver" /\ in_receiver' = in_receiver
    BY <1>3, <1>4 DEF KindOf, HandlerReturns, GuardReturns, ReceiverReturns
  <2> QED BY <1>1, <1>2, <1>3, <2>1, PopKeeps
<1>5. CASE Head(frames).at \in {"receiver", "escaped"}
  <2>1. Head(winders).kind = "receiver" /\ in_receiver' = Outside(Head(winders).id)
    BY <1>3, <1>5 DEF KindOf, HandlerReturns, GuardReturns, ReceiverReturns
  <2> QED BY <1>1, <1>2, <1>3, <2>1, PopKeeps
<1> QED BY <1>2, <1>4, <1>5

\* With an escape on top of the stack, the winders may be any that fit.
LEMMA StillWinds ==
  ASSUME NEW E, Places(E), frames # <<>>, Head(frames).at = "wind",
         NEW w, ListFits(E, used, w)
  PROVE  PlaceFits(E, used, frames, w)
BY HereFits DEF PlaceFits

\* There are winders left to unwind.
LEMMA UnwindingSome ==
  ASSUME NEW E, Places(E), Unwinding
  PROVE  winders # <<>>
<1>1. /\ PlaceFits(E, used, frames, winders) /\ ListFits(E, used, winders)
      /\ frames # <<>> /\ Head(frames).at = "wind"
      /\ winders # CommonTail(winders, Head(frames).winders)
  BY HereFits DEF Unwinding
<1>2. PICK ws : ws = Head(frames).winders
  OBVIOUS
<1>3. PICK s : <<s, ws>> \in E
  BY <1>1, <1>2 DEF PlaceFits
<1>4. PlaceFits(E, used, s, ws)
  BY <1>3 DEF Places, AllFit
<1>5. IsList(winders) /\ IsList(ws)
  BY <1>1, <1>4 DEF PlaceFits, ListFits
<1> DEFINE S == ToSet(winders) \cup ToSet(ws)
<1>6. PICK w : w = winders
  OBVIOUS
<1>7. w \in Seq(S) /\ ws \in Seq(S)
  BY <1>5, <1>6, SeqMonotonic DEF IsList
<1> HIDE DEF S
<1>8. CommonTail(w, ws) \in Seq(S) /\ IsTail(CommonTail(w, ws), w)
  BY <1>7, CommonTailIs DEF CommonTail, winders_common_tail
<1>9. ASSUME w = <<>> PROVE CommonTail(w, ws) = w
  <2>1. Len(w) = 0
    BY <1>9
  <2>2. Len(CommonTail(w, ws)) <= 0 /\ Len(CommonTail(w, ws)) \in Nat
    BY <1>8, <2>1, LenProperties DEF IsTail
  <2> QED BY <1>8, <1>9, <2>2, EmptySeq
<1> QED BY <1>1, <1>2, <1>6, <1>9

LEMMA UnwindProtectedKeeps == ASSUME UnwindInv, UnwindProtected PROVE UnwindInv'
<1>1. PICK E : Places(E)
  BY DEF UnwindInv
<1>2. frames # <<>> /\ Head(frames).at = "wind" /\ Head(winders).kind = "protect"
  BY DEF UnwindProtected, Unwinding
<1>3. winders # <<>>
  BY <1>1, UnwindingSome DEF UnwindProtected
<1>4. ListFits(E, used, Tail(winders))
  BY <1>1, <1>3, HereFits, PoppedFits
<1>5. PlaceFits(E, used, frames, Tail(winders))
  BY <1>1, <1>2, <1>4, StillWinds
<1>6. CASE why # "no" /\ ~ terminated[Head(winders).id]
  <2>1. CallHandler(Head(winders).id, frames, Tail(winders))
    BY <1>6 DEF UnwindProtected
  <2> QED BY <1>1, <1>2, <1>3, <1>5, <1>6, <2>1, CallHandlerKeeps DEF UnwindProtected
<1>7. CASE ~ (why # "no" /\ ~ terminated[Head(winders).id])
  <2>1. winders' = Tail(winders) /\ UNCHANGED <<frames, terminated, calls>>
    BY <1>7 DEF UnwindProtected
  <2> QED BY <1>1, <1>2, <1>3, <1>5, <2>1, PopKeeps DEF UnwindProtected
<1> QED BY <1>6, <1>7

LEMMA UnwindOtherKeeps == ASSUME UnwindInv, UnwindOther PROVE UnwindInv'
<1>1. PICK E : Places(E)
  BY DEF UnwindInv
<1>2. winders # <<>>
  BY <1>1, UnwindingSome DEF UnwindOther
<1>3. ListFits(E, used, Tail(winders))
  BY <1>1, <1>2, HereFits, PoppedFits
<1>4. PlaceFits(E, used, frames, Tail(winders))
  BY <1>1, <1>3, StillWinds DEF UnwindOther, Unwinding
<1> QED BY <1>1, <1>2, <1>4, PopKeeps DEF UnwindOther

LEMMA RaiseExceptionKeeps == ASSUME UnwindInv, RaiseException PROVE UnwindInv'
<1>1. PICK E : Places(E)
  BY DEF UnwindInv
<1>2. PlaceFits(E, used, frames', winders) /\ why' \in {why, "no", "exception"}
  BY <1>1, HereFits, RaiseFits DEF RaiseException
<1> QED BY <1>1, <1>2, StayKeeps
      DEF RaiseException, UnwindInv, UnwindInvariant, UnwindTypes

LEMMA CallEscapeKeeps ==
  ASSUME UnwindInv, NEW c \in Ucc, CallEscape(c)
  PROVE  UnwindInv'
<1>1. PICK E : Places(E)
  BY DEF UnwindInv
<1>2. ListFits(E, used, winders) /\ IsList(frames)
  BY <1>1, HereFits
<1>3. /\ winders' = winders /\ c \in used
      /\ UNCHANGED <<terminated, calls, in_receiver, escape, reinstated, used>>
  BY DEF CallEscape
<1>4. called \in [Ucc -> BOOLEAN] /\ \A d \in Ucc : called[d] => d \in used
  BY DEF UnwindInv, UnwindInvariant, UnwindTypes
<1>5. CASE in_receiver[c] /\ ~ called[c]
  <2>1. /\ why' = "escape" /\ called' = [called EXCEPT ![c] = TRUE]
        /\ WindTo(winders, escape[c], Escaped(c, escape[c]), "escape", frames)
    BY <1>5 DEF CallEscape
  <2>2. <<Escaped(c, escape[c]), escape[c]>> \in E
    BY <1>1, <1>3 DEF Places
  <2>3. PlaceFits(E, used, frames', winders)
    BY <1>2, <2>1, <2>2, WindToFits
  <2>4. called' \in [Ucc -> BOOLEAN] /\ \A d \in Ucc : called'[d] => d \in used
    BY <1>3, <1>4, <2>1
  <2> QED BY <1>1, <1>3, <2>1, <2>3, <2>4, StayKeeps
<1>6. CASE ~ (in_receiver[c] /\ ~ called[c])
  <2>1. Raise(winders, frames) /\ called' = called
    BY <1>6 DEF CallEscape
  <2>2. PlaceFits(E, used, frames', winders) /\ why' \in {why, "no", "exception"}
    BY <1>2, <2>1, RaiseFits
  <2> QED BY <1>1, <1>3, <1>4, <2>1, <2>2, StayKeeps
<1> QED BY <1>5, <1>6

LEMMA CallReinstatedKeeps ==
  ASSUME UnwindInv, NEW k \in Standard, CallReinstated(k)
  PROVE  UnwindInv'
<1>1. PICK E : Places(E)
  BY DEF UnwindInv
<1>2. <<reinstated[k].frames, reinstated[k].winders>> \in E
  BY <1>1 DEF Places, CallReinstated
<1>3. PlaceFits(E, used, frames', winders)
  BY <1>1, <1>2, HereFits, WindToFits DEF CallReinstated
<1> QED BY <1>1, <1>3, StayKeeps
      DEF CallReinstated, UnwindInv, UnwindInvariant, UnwindTypes

LEMMA CallStandardKeeps ==
  ASSUME UnwindInv, NEW k \in Standard, CallStandard(k)
  PROVE  UnwindInv'
<1>1. PICK E : Places(E)
  BY DEF UnwindInv
<1>2. PICK c : c = [winders |-> winders, frames |-> frames, valid |-> TRUE]
  OBVIOUS
<1>3. /\ reinstated' = [reinstated EXCEPT ![k] = c]
      /\ UNCHANGED <<winders, frames, why, terminated, calls, in_receiver, called, escape, used>>
  BY <1>2 DEF CallStandard
<1>4. DOMAIN reinstated = Standard
  BY DEF UnwindInv, UnwindInvariant, UnwindTypes
<1>5. c.frames = frames /\ c.winders = winders
  BY <1>2
<1>6. ASSUME NEW j \in Standard, reinstated'[j].valid
      PROVE  <<reinstated'[j].frames, reinstated'[j].winders>> \in E
  <2>1. CASE j = k
    <3>1. reinstated'[j] = c
      BY <1>3, <1>4, <2>1
    <3> QED BY <1>1, <1>5, <3>1 DEF Places
  <2>2. CASE j # k
    <3>1. reinstated'[j] = reinstated[j]
      BY <1>3, <1>4, <2>2
    <3> QED BY <1>1, <1>6, <3>1 DEF Places
  <2> QED BY <2>1, <2>2
<1>7. Places(E)'
  BY <1>1, <1>3, <1>6 DEF Places, Escaped, Frame
<1>8. UnwindTypes'
  BY <1>3, <1>4 DEF UnwindInv, UnwindInvariant, UnwindTypes
<1>9. HandlerCalledOnce' /\ TerminatedIsLeft' /\ InsideIsTrue'
  BY <1>3 DEF UnwindInv, UnwindInvariant, HandlerCalledOnce, TerminatedIsLeft, InsideIsTrue
<1> QED BY <1>3, <1>7, <1>8, <1>9 DEF UnwindInv, UnwindInvariant

\* The end of an escape: the winders of its target are entered from the
\* outermost, down to the first thunk that refuses.
LEMMA ArriveKeeps == ASSUME UnwindInv, Arrive PROVE UnwindInv'
<1>1. PICK E : Places(E)
  BY DEF UnwindInv
<1>2. PICK f : f = Head(frames)
  OBVIOUS
<1>3. PICK ws : ws = f.winders
  OBVIOUS
<1>4. PICK i \in 0 .. Len(ws) :
        /\ StopsAt(ws, i)
        /\ winders' = Below(ws, i)
        /\ in_receiver' = [c \in Ucc |-> in_receiver[c] \/ Has(winders', "receiver", c)]
        /\ IF i = 0 THEN frames' = f.to /\ why' = IF f.kind = "exception" THEN ReasonAfter ELSE why
           ELSE Raise(winders', Tail(frames))
  BY <1>2, <1>3 DEF Arrive
<1>5. /\ frames # <<>> /\ f.at = "wind" /\ winders = CommonTail(winders, ws)
      /\ UNCHANGED <<terminated, calls, called, escape, reinstated, used>>
  BY <1>2, <1>3 DEF Arrive, Unwinding
<1>6. PlaceFits(E, used, frames, winders) /\ IsList(winders) /\ IsList(frames)
  BY <1>1, HereFits
<1>7. <<f.to, ws>> \in E
  BY <1>2, <1>3, <1>5, <1>6 DEF PlaceFits
<1>8. PlaceFits(E, used, f.to, ws) /\ ListFits(E, used, ws) /\ IsList(ws)
  BY <1>1, <1>7 DEF Places, AllFit, PlaceFits, ListFits
<1>9. Len(ws) \in Nat /\ Len(winders) \in Nat
  BY <1>6, <1>8, LenProperties DEF IsList
<1>10. PICK n : n = Len(ws) - i
  OBVIOUS
<1>11. n \in 0 .. Len(ws)
  BY <1>9, <1>10
<1>12. PICK w : w = LastOf(ws, n)
  OBVIOUS
<1>13. winders' = w
  BY <1>4, <1>8, <1>10, <1>12, TailsAre
<1>14. /\ ListFits(E, used, w) /\ IsList(w) /\ Len(w) = n
       /\ \A d \in 1 .. n : AtDepth(w, d) = AtDepth(ws, d)
  BY <1>8, <1>11, <1>12, LastFits, LastOfList
\* The winders in force are the outermost of the target.
<1>15. /\ Len(winders) <= Len(ws)
       /\ \A d \in 1 .. Len(winders) : AtDepth(winders, d) = AtDepth(ws, d)
  <2> DEFINE S == ToSet(winders) \cup ToSet(ws)
  <2>1. PICK v : v = winders
    OBVIOUS
  <2>2. v \in Seq(S) /\ ws \in Seq(S)
    BY <1>6, <1>8, <2>1, SeqMonotonic DEF IsList
  <2> HIDE DEF S
  <2>3. IsTail(CommonTail(v, ws), ws)
    BY <2>2, CommonTailIs DEF CommonTail, winders_common_tail
  <2>4. IsTail(v, ws)
    BY <1>5, <2>1, <2>3
  <2> QED BY <2>1, <2>2, <2>4, TailByDepth
<1>16. Len(winders) <= n
  <2>1. i = 0 \/ i \in Refusing(ws)
    BY <1>4 DEF StopsAt
  <2>2. i = 0 \/ i <= Len(ws) - Len(winders)
    BY <2>1 DEF Refusing
  <2> QED BY <1>9, <1>10, <1>15, <2>2
<1>17. TerminatedIsLeft'
  <2>1. ASSUME NEW u, Has(w, "protect", u) PROVE ~ terminated[u]
    <3>1. PICK d \in 1 .. n : AtDepth(w, d).kind = "protect" /\ AtDepth(w, d).id = u
      BY <1>14, <2>1, HasDepth
    <3>2. CASE d <= Len(winders)
      <4>1. d \in 1 .. Len(winders)
        BY <1>9, <3>2
      <4>2. AtDepth(winders, d) = AtDepth(w, d)
        BY <1>14, <1>15, <4>1
      <4>3. Has(winders, "protect", u)
        BY <1>6, <3>1, <4>1, <4>2, HasDepth
      <4> QED BY <4>3, LeftIs DEF UnwindInv, UnwindInvariant
    <3>3. CASE ~ d <= Len(winders)
      <4>1. PICK j : j = Len(ws) - d + 1
        OBVIOUS
      <4>2. j \in 1 .. Len(ws) /\ j <= Len(ws) - Len(winders) /\ ~ j <= i
        BY <1>9, <1>10, <1>11, <3>3, <4>1
      <4>3. j \notin Refusing(ws)
        BY <1>4, <4>2 DEF StopsAt
      <4>4. ws[j] = AtDepth(w, d)
        BY <1>14, <4>1 DEF AtDepth
      <4>5. j \in DOMAIN ws
        BY <1>8, <4>2, LenProperties DEF IsList
      <4> QED BY <3>1, <4>2, <4>3, <4>4, <4>5 DEF Refusing
    <3> QED BY <3>2, <3>3
  <2> QED BY <1>5, <1>13, <2>1 DEF TerminatedIsLeft, Has
<1>18. in_receiver' \in [Ucc -> BOOLEAN] /\ InsideIsTrue'
  <2>1. ASSUME NEW c \in Ucc PROVE in_receiver'[c] = Has(w, "receiver", c)
    <3>1. in_receiver[c] = Has(winders, "receiver", c)
      BY DEF UnwindInv, UnwindInvariant, InsideIsTrue
    <3>2. ASSUME Has(winders, "receiver", c) PROVE Has(w, "receiver", c)
      <4>1. PICK d \in 1 .. Len(winders) :
              AtDepth(winders, d).kind = "receiver" /\ AtDepth(winders, d).id = c
        BY <1>6, <3>2, HasDepth
      <4>2. d \in 1 .. n /\ AtDepth(w, d) = AtDepth(winders, d)
        BY <1>9, <1>11, <1>14, <1>15, <1>16
      <4> QED BY <1>14, <4>1, <4>2, HasDepth
    <3>3. in_receiver'[c] = (in_receiver[c] \/ Has(w, "receiver", c))
      BY <1>4, <1>13
    <3>4. Has(w, "receiver", c) \in BOOLEAN /\ Has(winders, "receiver", c) \in BOOLEAN
      BY DEF Has
    <3> QED BY <3>1, <3>2, <3>3, <3>4
  <2>2. \A c \in Ucc : Has(w, "receiver", c) \in BOOLEAN
    BY DEF Has
  <2>3. in_receiver' \in [Ucc -> BOOLEAN]
    BY <1>4, <1>13, <2>1, <2>2
  <2>4. InsideIsTrue'
    BY <1>13, <2>1 DEF InsideIsTrue, Has
  <2> QED BY <2>3, <2>4
<1>19. PlaceFits(E, used, frames', winders') /\ why' \in {why, "no", "exception"}
  <2>1. CASE i = 0
    <3>1. n = Len(ws)
      BY <1>9, <1>10, <2>1
    <3>2. w = ws
      BY <1>8, <1>12, <3>1, TailsAre
    <3> QED BY <1>4, <1>8, <1>13, <2>1, <3>2 DEF ReasonAfter
  <2>2. CASE i # 0
    <3>1. Raise(w, Tail(frames))
      BY <1>4, <1>13, <2>2
    <3>2. IsList(Tail(frames))
      BY <1>5, <1>6, PoppedList
    <3>3. PlaceFits(E, used, frames', w) /\ why' \in {why, "no", "exception"}
      BY <1>14, <3>1, <3>2, RaiseFits
    <3> QED BY <1>13, <3>3
  <2> QED BY <2>1, <2>2
<1>20. (\E F : Places(F))' /\ \A j \in DOMAIN winders' : winders'[j].id \in used'
  BY <1>1, <1>5, <1>19, MovesTo
<1>21. UnwindTypes' /\ HandlerCalledOnce'
  BY <1>5, <1>18, <1>19, <1>20 DEF UnwindInv, UnwindInvariant, UnwindTypes, HandlerCalledOnce
<1>22. \A u \in Uwp : terminated'[u] => u \in used'
  BY <1>5 DEF UnwindInv
<1> QED BY <1>17, <1>18, <1>20, <1>21, <1>22 DEF UnwindInv, UnwindInvariant

LEMMA UnwindInitHolds == UnwindInit => UnwindInv
<1> SUFFICES ASSUME UnwindInit PROVE UnwindInv
  OBVIOUS
<1>1. UnwindTypes /\ HandlerCalledOnce /\ TerminatedIsLeft /\ InsideIsTrue
  <2>1. \A k, i : ~ Has(winders, k, i)
    BY DEF UnwindInit, Has
  <2>2. UnwindTypes /\ HandlerCalledOnce
    BY DEF UnwindInit, UnwindTypes, HandlerCalledOnce
  <2>3. TerminatedIsLeft
    BY <2>1, LeftIs
  <2>4. InsideIsTrue
    <3>1. ASSUME NEW c \in Ucc PROVE in_receiver[c] = Has(winders, "receiver", c)
      <4>1. Has(winders, "receiver", c) \in BOOLEAN
        BY DEF Has
      <4> QED BY <2>1, <4>1 DEF UnwindInit
    <3> QED BY <3>1 DEF InsideIsTrue
  <2> QED BY <2>2, <2>3, <2>4
<1>2. Places({<<<<>>, <<>>>>})
  <2>1. PICK E : E = {<<<<>>, <<>>>>}
    OBVIOUS
  <2>2. PlaceFits(E, used, <<>>, <<>>)
    BY NoneFits, NoneIsList DEF PlaceFits
  <2>3. AllFit(E, used)
    BY <2>1, <2>2 DEF AllFit
  <2>4. \A k \in Standard : ~ reinstated[k].valid
    BY DEF UnwindInit, NotCaptured
  <2> QED BY <2>1, <2>3, <2>4 DEF Places, UnwindInit
<1> QED BY <1>1, <1>2 DEF UnwindInv, UnwindInvariant, UnwindInit

LEMMA UnwindInvKept ==
  ASSUME UnwindAssumptions, UnwindInv, [UnwindNext]_unwindVars
  PROVE  UnwindInv'
<1>1. ASSUME NEW u \in Uwp, Protect(u) PROVE UnwindInv'
  <2>1. /\ Enter("protect", "thunk", u) /\ u \notin Ucc
        /\ UNCHANGED <<why, terminated, calls, in_receiver, called, escape, reinstated>>
    BY <1>1 DEF Protect, UnwindAssumptions
  <2> QED BY <2>1, EnterKeeps DEF KindOf
<1>2. ASSUME NEW c \in Ucc, UnwindingCallCC(c) PROVE UnwindInv'
  <2>1. /\ Enter("receiver", "receiver", c)
        /\ in_receiver' = [in_receiver EXCEPT ![c] = TRUE]
        /\ escape' = [escape EXCEPT ![c] = winders']
        /\ UNCHANGED <<why, terminated, calls, called, reinstated>>
    BY <1>2 DEF UnwindingCallCC
  <2> QED BY <2>1, EnterKeeps DEF KindOf
<1>3. ASSUME NEW g \in Guard, EnterGuard(g) PROVE UnwindInv'
  <2>1. /\ Enter("guard", "guarded", g) /\ g \notin Ucc
        /\ UNCHANGED <<why, terminated, calls, in_receiver, called, escape, reinstated>>
    BY <1>3 DEF EnterGuard, UnwindAssumptions
  <2> QED BY <2>1, EnterKeeps DEF KindOf
<1>4. CASE ThunkReturns
  BY <1>4, ThunkReturnsKeeps
<1>5. CASE HandlerReturns \/ GuardReturns \/ ReceiverReturns
  BY <1>5, ReturnKeeps
<1>6. CASE RaiseException
  BY <1>6, RaiseExceptionKeeps
<1>7. CASE UnwindProtected
  BY <1>7, UnwindProtectedKeeps
<1>8. CASE UnwindOther
  BY <1>8, UnwindOtherKeeps
<1>9. CASE Arrive
  BY <1>9, ArriveKeeps
<1>10. CASE \E c \in Ucc : CallEscape(c)
  BY <1>10, CallEscapeKeeps
<1>11. CASE \E k \in Standard : CallStandard(k) \/ CallReinstated(k)
  BY <1>11, CallStandardKeeps, CallReinstatedKeeps
<1>12. CASE UNCHANGED unwindVars
  <2>1. PICK E : Places(E)
    BY DEF UnwindInv
  <2>2. PlaceFits(E, used, frames', winders)
    BY <1>12, <2>1, HereFits DEF unwindVars
  <2> QED BY <1>12, <2>1, <2>2, StayKeeps
      DEF unwindVars, UnwindInv, UnwindInvariant, UnwindTypes
<1> QED BY <1>1, <1>2, <1>3, <1>4, <1>5, <1>6, <1>7, <1>8, <1>9, <1>10, <1>11, <1>12
    DEF UnwindNext

\* A thunk that is left has its unwind handler called once at most and is not
\* entered again, and an unwinding escape procedure knows whether the program
\* is inside of its receiver, whatever the program and the handlers do.
THEOREM UnwindHolds == UnwindAssumptions => (UnwindSpec => []UnwindInvariant)
<1> SUFFICES ASSUME UnwindAssumptions PROVE UnwindSpec => []UnwindInvariant
  OBVIOUS
<1>1. UnwindInit => UnwindInv
  BY UnwindInitHolds
<1>2. UnwindInv /\ [UnwindNext]_unwindVars => UnwindInv'
  BY UnwindInvKept
<1>3. UnwindInv => UnwindInvariant
  BY DEF UnwindInv
<1> QED BY <1>1, <1>2, <1>3, PTL DEF UnwindSpec

-----------------------------------------------------------------------------
(* Programs whose unwind handlers protect and raise only.  Outside of the  *)
(* handlers the program is on a place of C, where nobody unwinds, or an    *)
(* escape is on top of the stack and goes to one.  R and O are the stack   *)
(* and the winders there.  When a handler was called on them, it and those *)
(* that it calls are on places of P, on top of R and O, and an exception   *)
(* in them goes to one, at most down to R and O.                           *)

Winds(s) == s # <<>> /\ Head(s).at = "wind"

Decisive(s) == Winds(s) /\ Head(s).kind \in {"escape", "exception"}

ListSettled(C, w) ==
  /\ IsList(w)
  /\ \A d \in 1 .. Len(w) :
       AtDepth(w, d).kind # "handler" /\ <<AtDepth(w, d).outside, LastOf(w, d - 1)>> \in C

StackSettled(s) ==
  IsList(s) /\ \A d \in 1 .. Len(s) : AtDepth(s, d).at \notin {"wind", "handler"}

AllSettled(C) == \A s, w : <<s, w>> \in C => StackSettled(s) /\ ListSettled(C, w)

\* The escape F goes to a place of C.
Leaves(C, f) ==
  /\ f.at = "wind" /\ f.kind \in {"escape", "exception", "plain"}
  /\ <<f.to, f.winders>> \in C
  /\ f.kind = "escape" => f.to # <<>> /\ Head(f.to).at = "escaped"

Outer(C, R, O) ==
  \/ <<R, O>> \in C
  \/ /\ R # <<>> /\ Leaves(C, Head(R))
     /\ IsList(R) /\ StackSettled(Tail(R)) /\ ListSettled(C, O)

StackInner(R, s) ==
  /\ IsList(s) /\ IsTail(R, s) /\ Len(R) < Len(s)
  /\ AtDepth(s, Len(R) + 1).at = "handler"
  /\ \A d \in Len(R) + 1 .. Len(s) : AtDepth(s, d).at = "wind" => AtDepth(s, d).kind = "discarded"

ListInner(P, O, w) ==
  /\ IsList(w) /\ IsTail(O, w)
  /\ Len(O) < Len(w) => AtDepth(w, Len(O) + 1).kind = "handler"
  /\ \A d \in Len(O) + 1 .. Len(w) :
       /\ AtDepth(w, d).kind \in {"protect", "handler"}
       /\ <<AtDepth(w, d).outside, LastOf(w, d - 1)>> \in P

Inner(P, R, O, s, w) ==
  /\ StackInner(R, s) /\ ListInner(P, O, w)
  /\ IF Winds(s) THEN <<Head(s).to, Head(s).winders>> \in P /\ IsTail(Head(s).winders, w)
                 ELSE Len(O) < Len(w)

AllInner(P, R, O) == \A s, w : <<s, w>> \in P => (s = R /\ w = O) \/ Inner(P, R, O, s, w)

LEMMA SettledLast ==
  ASSUME NEW C, NEW w, ListSettled(C, w), NEW n \in 0 .. Len(w)
  PROVE  ListSettled(C, LastOf(w, n))
<1>1. IsList(w) /\ Len(w) \in Nat
  BY LenProperties DEF ListSettled, IsList
<1>2. /\ IsList(LastOf(w, n)) /\ Len(LastOf(w, n)) = n
      /\ \A d \in 1 .. n : AtDepth(LastOf(w, n), d) = AtDepth(w, d)
      /\ \A m \in 0 .. n : LastOf(LastOf(w, n), m) = LastOf(w, m)
  BY <1>1, LastOfList
<1>3. ASSUME NEW d \in 1 .. n
      PROVE  /\ AtDepth(LastOf(w, n), d).kind # "handler"
             /\ <<AtDepth(LastOf(w, n), d).outside, LastOf(LastOf(w, n), d - 1)>> \in C
  <2>1. d \in 1 .. Len(w) /\ d - 1 \in 0 .. n
    BY <1>1
  <2>2. AtDepth(LastOf(w, n), d) = AtDepth(w, d) /\ LastOf(LastOf(w, n), d - 1) = LastOf(w, d - 1)
    BY <1>2, <2>1
  <2> QED BY <2>1, <2>2 DEF ListSettled
<1> QED BY <1>2, <1>3 DEF ListSettled

LEMMA SettledPopped ==
  ASSUME NEW C, NEW w, ListSettled(C, w), w # <<>>
  PROVE  /\ ListSettled(C, Tail(w)) /\ Head(w).kind # "handler"
         /\ <<Head(w).outside, Tail(w)>> \in C
<1>1. /\ Len(w) \in Nat \ {0} /\ AtDepth(w, Len(w)) = Head(w)
      /\ Tail(w) = LastOf(w, Len(w) - 1)
  BY PoppedList, TailsAre DEF ListSettled
<1>2. Len(w) - 1 \in 0 .. Len(w) /\ Len(w) \in 1 .. Len(w)
  BY <1>1
<1>3. ListSettled(C, LastOf(w, Len(w) - 1))
  BY <1>2, SettledLast
<1>4. /\ AtDepth(w, Len(w)).kind # "handler"
      /\ <<AtDepth(w, Len(w)).outside, LastOf(w, Len(w) - 1)>> \in C
  BY <1>2 DEF ListSettled
<1> QED BY <1>1, <1>3, <1>4

\* The depths of a list on which something was pushed, and its tails.
LEMMA PushedTails ==
  ASSUME NEW w, IsList(w), NEW x
  PROVE  /\ LastOf(<<x>> \o w, Len(w)) = w
         /\ \A d \in 1 .. Len(w) : LastOf(<<x>> \o w, d - 1) = LastOf(w, d - 1)
<1> DEFINE p == <<x>> \o w
<1>1. Len(w) \in Nat /\ IsList(p) /\ p # <<>> /\ Len(p) = Len(w) + 1 /\ Tail(p) = w
  BY PushedList, LenProperties DEF IsList
<1> HIDE DEF p
<1>2. /\ Tail(p) = LastOf(p, Len(p) - 1)
      /\ \A n \in 0 .. Len(p) - 1 : LastOf(Tail(p), n) = LastOf(p, n)
  BY <1>1, TailsAre
<1>3. Len(p) - 1 = Len(w) /\ \A d \in 1 .. Len(w) : d - 1 \in 0 .. Len(p) - 1
  BY <1>1
<1>4. LastOf(p, Len(w)) = w /\ \A d \in 1 .. Len(w) : LastOf(p, d - 1) = LastOf(w, d - 1)
  BY <1>1, <1>2, <1>3
<1> QED BY <1>4 DEF p

LEMMA SettledPushed ==
  ASSUME NEW C, NEW w, ListSettled(C, w), NEW x, x.kind # "handler", <<x.outside, w>> \in C
  PROVE  ListSettled(C, <<x>> \o w)
<1> DEFINE p == <<x>> \o w
<1>1. IsList(w) /\ Len(w) \in Nat
  BY LenProperties DEF ListSettled, IsList
<1>2. /\ IsList(p) /\ Len(p) = Len(w) + 1 /\ AtDepth(p, Len(w) + 1) = x
      /\ \A d \in 1 .. Len(w) : AtDepth(p, d) = AtDepth(w, d)
  BY <1>1, PushedList
<1>3. /\ LastOf(p, Len(w)) = w
      /\ \A d \in 1 .. Len(w) : LastOf(p, d - 1) = LastOf(w, d - 1)
  BY <1>1, PushedTails
<1> HIDE DEF p
<1>4. ASSUME NEW d \in 1 .. Len(p)
      PROVE  AtDepth(p, d).kind # "handler" /\ <<AtDepth(p, d).outside, LastOf(p, d - 1)>> \in C
  <2>1. CASE d = Len(w) + 1
    <3>1. d - 1 = Len(w)
      BY <1>1, <2>1
    <3> QED BY <1>2, <1>3, <2>1, <3>1
  <2>2. CASE d # Len(w) + 1
    <3>1. d \in 1 .. Len(w)
      BY <1>1, <1>2, <2>2
    <3> QED BY <1>2, <1>3, <3>1 DEF ListSettled
  <2> QED BY <2>1, <2>2
<1>5. ListSettled(C, p)
  BY <1>2, <1>4 DEF ListSettled
<1> QED BY <1>5 DEF p

LEMMA StackPushed ==
  ASSUME NEW s, StackSettled(s), NEW f, f.at \notin {"wind", "handler"}
  PROVE  StackSettled(<<f>> \o s)
<1> DEFINE p == <<f>> \o s
<1>1. IsList(s) /\ Len(s) \in Nat
  BY LenProperties DEF StackSettled, IsList
<1>2. /\ IsList(p) /\ Len(p) = Len(s) + 1 /\ AtDepth(p, Len(s) + 1) = f
      /\ \A d \in 1 .. Len(s) : AtDepth(p, d) = AtDepth(s, d)
  BY <1>1, PushedList
<1> HIDE DEF p
<1>3. \A d \in 1 .. Len(p) : d \in 1 .. Len(s) \/ d = Len(s) + 1
  BY <1>1, <1>2
<1>4. StackSettled(p)
  BY <1>2, <1>3 DEF StackSettled
<1> QED BY <1>4 DEF p

LEMMA StackPopped ==
  ASSUME NEW s, StackSettled(s), s # <<>>
  PROVE  StackSettled(Tail(s)) /\ Head(s).at \notin {"wind", "handler"}
<1>1. /\ IsList(Tail(s)) /\ Len(s) \in Nat \ {0} /\ Len(Tail(s)) = Len(s) - 1
      /\ AtDepth(s, Len(s)) = Head(s)
      /\ \A d \in 1 .. Len(s) - 1 : AtDepth(Tail(s), d) = AtDepth(s, d)
  BY PoppedList DEF StackSettled
<1>2. Len(s) \in 1 .. Len(s) /\ \A d \in 1 .. Len(s) - 1 : d \in 1 .. Len(s)
  BY <1>1
<1>3. AtDepth(s, Len(s)).at \notin {"wind", "handler"}
  BY <1>2 DEF StackSettled
<1>4. \A d \in 1 .. Len(Tail(s)) : AtDepth(Tail(s), d).at \notin {"wind", "handler"}
  BY <1>1, <1>2 DEF StackSettled
<1> QED BY <1>1, <1>3, <1>4 DEF StackSettled

LEMMA SettledMore ==
  ASSUME NEW C, NEW D, C \subseteq D
  PROVE  /\ \A w : ListSettled(C, w) => ListSettled(D, w)
         /\ \A R, O : Outer(C, R, O) => Outer(D, R, O)
<1>1. ASSUME NEW w, ListSettled(C, w) PROVE ListSettled(D, w)
  BY <1>1 DEF ListSettled
<1>2. ASSUME NEW R, NEW O, Outer(C, R, O) PROVE Outer(D, R, O)
  BY <1>1, <1>2 DEF Outer, Leaves
<1> QED BY <1>1, <1>2

LEMMA SettledAdded ==
  ASSUME NEW C, AllSettled(C), NEW s, NEW w, StackSettled(s), ListSettled(C, w)
  PROVE  AllSettled(C \cup {<<s, w>>})
<1> DEFINE D == C \cup {<<s, w>>}
<1>1. \A v : ListSettled(C, v) => ListSettled(D, v)
  BY SettledMore
<1>2. ASSUME NEW s2, NEW w2, <<s2, w2>> \in D PROVE StackSettled(s2) /\ ListSettled(D, w2)
  <2>1. CASE <<s2, w2>> \in C
    BY <1>1, <2>1 DEF AllSettled
  <2>2. CASE s2 = s /\ w2 = w
    BY <1>1, <2>2
  <2> QED BY <1>2, <2>1, <2>2
<1> HIDE DEF D
<1>3. AllSettled(D)
  BY <1>2 DEF AllSettled
<1> QED BY <1>3 DEF D

\* Inside of a handler.
LEMMA InnerPopped ==
  ASSUME NEW P, NEW O, NEW w, ListInner(P, O, w), Len(O) < Len(w), IsList(O)
  PROVE  /\ w # <<>> /\ ListInner(P, O, Tail(w)) /\ Head(w).kind \in {"protect", "handler"}
         /\ <<Head(w).outside, Tail(w)>> \in P
<1>1. IsList(w) /\ Len(w) \in Nat /\ Len(O) \in Nat
  BY LenProperties DEF ListInner, IsList
<1>2. w # <<>>
  BY <1>1
<1>3. /\ IsList(Tail(w)) /\ Len(Tail(w)) = Len(w) - 1
      /\ AtDepth(w, Len(w)) = Head(w)
      /\ \A d \in 1 .. Len(w) - 1 : AtDepth(Tail(w), d) = AtDepth(w, d)
      /\ Tail(w) = LastOf(w, Len(w) - 1)
      /\ \A n \in 0 .. Len(w) - 1 : LastOf(Tail(w), n) = LastOf(w, n)
  BY <1>1, <1>2, PoppedList, TailsAre
<1>4. Len(w) \in Len(O) + 1 .. Len(w)
  BY <1>1
<1>5. AtDepth(w, Len(w)).kind \in {"protect", "handler"}
      /\ <<AtDepth(w, Len(w)).outside, LastOf(w, Len(w) - 1)>> \in P
  BY <1>4 DEF ListInner
<1>6. ASSUME NEW d \in Len(O) + 1 .. Len(Tail(w))
      PROVE  /\ AtDepth(Tail(w), d).kind \in {"protect", "handler"}
             /\ <<AtDepth(Tail(w), d).outside, LastOf(Tail(w), d - 1)>> \in P
  <2>1. d \in 1 .. Len(w) - 1 /\ d - 1 \in 0 .. Len(w) - 1 /\ d \in Len(O) + 1 .. Len(w)
    BY <1>1, <1>3
  <2>2. AtDepth(Tail(w), d) = AtDepth(w, d) /\ LastOf(Tail(w), d - 1) = LastOf(w, d - 1)
    BY <1>3, <2>1
  <2> QED BY <2>1, <2>2 DEF ListInner
<1>7. IsTail(O, Tail(w))
  <2>1. Len(O) <= Len(w) - 1 /\ Len(O) \in 0 .. Len(w) - 1
    BY <1>1
  <2>2. O = LastOf(w, Len(O))
    BY DEF ListInner, IsTail
  <2> QED BY <1>3, <2>1, <2>2 DEF IsTail
<1>8. ASSUME Len(O) < Len(Tail(w)) PROVE AtDepth(Tail(w), Len(O) + 1).kind = "handler"
  <2>1. Len(O) + 1 \in 1 .. Len(w) - 1
    BY <1>1, <1>3, <1>8
  <2> QED BY <1>3, <2>1 DEF ListInner
<1> QED BY <1>2, <1>3, <1>5, <1>6, <1>7, <1>8 DEF ListInner

LEMMA InnerPushed ==
  ASSUME NEW P, NEW O, IsList(O), NEW w, ListInner(P, O, w),
         NEW x, x.kind \in {"protect", "handler"}, <<x.outside, w>> \in P,
         Len(O) < Len(w) \/ x.kind = "handler"
  PROVE  ListInner(P, O, <<x>> \o w) /\ Len(O) < Len(<<x>> \o w)
<1> DEFINE p == <<x>> \o w
<1>1. IsList(w) /\ Len(w) \in Nat /\ Len(O) \in Nat /\ Len(O) <= Len(w)
  BY LenProperties DEF ListInner, IsList, IsTail
<1>2. /\ IsList(p) /\ Len(p) = Len(w) + 1 /\ AtDepth(p, Len(w) + 1) = x
      /\ \A d \in 1 .. Len(w) : AtDepth(p, d) = AtDepth(w, d)
      /\ LastOf(p, Len(w)) = w
      /\ \A d \in 1 .. Len(w) : LastOf(p, d - 1) = LastOf(w, d - 1)
  BY <1>1, PushedList, PushedTails
<1> HIDE DEF p
<1>3. ASSUME NEW d \in Len(O) + 1 .. Len(p)
      PROVE  /\ AtDepth(p, d).kind \in {"protect", "handler"}
             /\ <<AtDepth(p, d).outside, LastOf(p, d - 1)>> \in P
  <2>1. CASE d = Len(w) + 1
    <3>1. d - 1 = Len(w)
      BY <1>1, <2>1
    <3> QED BY <1>2, <2>1, <3>1
  <2>2. CASE d # Len(w) + 1
    <3>1. d \in 1 .. Len(w) /\ d \in Len(O) + 1 .. Len(w)
      BY <1>1, <1>2, <2>2
    <3> QED BY <1>2, <3>1 DEF ListInner
  <2> QED BY <2>1, <2>2
<1>4. IsTail(O, p)
  <2>1. Len(w) \in 0 .. Len(p) /\ Len(O) \in 0 .. Len(w) /\ Len(O) <= Len(p)
    BY <1>1, <1>2
  <2>2. LastOf(LastOf(p, Len(w)), Len(O)) = LastOf(p, Len(O))
    BY <1>2, <2>1, LastOfList
  <2>3. O = LastOf(w, Len(O))
    BY DEF ListInner, IsTail
  <2> QED BY <1>2, <2>1, <2>2, <2>3 DEF IsTail
<1>5. AtDepth(p, Len(O) + 1).kind = "handler"
  <2>1. CASE Len(O) < Len(w)
    <3>1. Len(O) + 1 \in 1 .. Len(w)
      BY <1>1, <2>1
    <3> QED BY <1>2, <2>1, <3>1 DEF ListInner
  <2>2. CASE ~ Len(O) < Len(w)
    <3>1. Len(O) = Len(w)
      BY <1>1, <2>2
    <3> QED BY <1>2, <2>2, <3>1
  <2> QED BY <2>1, <2>2
<1>6. ListInner(P, O, p) /\ Len(O) < Len(p)
  BY <1>1, <1>2, <1>3, <1>4, <1>5 DEF ListInner
<1> QED BY <1>6 DEF p

\* The winders just outside of a handler.
LEMMA InnerOuter ==
  ASSUME NEW P, NEW O, IsList(O)
  PROVE  ListInner(P, O, O)
<1>1. Len(O) \in Nat
  BY LenProperties DEF IsList
<1>2. IsTail(O, O)
  BY <1>1, TailsAre DEF IsTail
<1> QED BY <1>1, <1>2 DEF ListInner

LEMMA StackInnerPushed ==
  ASSUME NEW R, IsList(R), NEW s, NEW f, f.at = "wind" => f.kind = "discarded",
         StackInner(R, s) \/ (s = R /\ f.at = "handler")
  PROVE  StackInner(R, <<f>> \o s)
<1> DEFINE p == <<f>> \o s
<1>1. IsList(s) /\ Len(s) \in Nat /\ Len(R) \in Nat /\ IsTail(R, s)
  <2>1. CASE StackInner(R, s)
    BY <2>1, LenProperties DEF StackInner, IsList
  <2>2. CASE s = R
    BY <2>2, LenProperties, TailsAre DEF IsList, IsTail
  <2> QED BY <2>1, <2>2
<1>2. /\ IsList(p) /\ Len(p) = Len(s) + 1 /\ AtDepth(p, Len(s) + 1) = f
      /\ \A d \in 1 .. Len(s) : AtDepth(p, d) = AtDepth(s, d)
      /\ LastOf(p, Len(s)) = s
  BY <1>1, PushedList, PushedTails
<1> HIDE DEF p
<1>3. IsTail(R, p) /\ Len(R) < Len(p)
  <2>1. Len(s) \in 0 .. Len(p) /\ Len(R) \in 0 .. Len(s) /\ Len(R) < Len(p) /\ Len(R) <= Len(p)
    BY <1>1, <1>2 DEF IsTail
  <2>2. LastOf(LastOf(p, Len(s)), Len(R)) = LastOf(p, Len(R))
    BY <1>2, <2>1, LastOfList
  <2>3. R = LastOf(s, Len(R))
    BY <1>1 DEF IsTail
  <2> QED BY <1>2, <2>1, <2>2, <2>3 DEF IsTail
<1>4. AtDepth(p, Len(R) + 1).at = "handler"
  <2>1. CASE StackInner(R, s)
    <3>1. Len(R) + 1 \in 1 .. Len(s)
      BY <1>1, <2>1 DEF StackInner
    <3> QED BY <1>2, <2>1, <3>1 DEF StackInner
  <2>2. CASE s = R /\ f.at = "handler"
    BY <1>2, <2>2
  <2> QED BY <2>1, <2>2
<1>5. ASSUME NEW d \in Len(R) + 1 .. Len(p), AtDepth(p, d).at = "wind"
      PROVE  AtDepth(p, d).kind = "discarded"
  <2>1. CASE d = Len(s) + 1
    BY <1>2, <1>5, <2>1
  <2>2. CASE d # Len(s) + 1
    <3>1. d \in 1 .. Len(s) /\ d \in Len(R) + 1 .. Len(s)
      BY <1>1, <1>2, <2>2
    <3>2. StackInner(R, s)
      BY <1>1, <3>1
    <3> QED BY <1>2, <1>5, <3>1, <3>2 DEF StackInner
  <2> QED BY <2>1, <2>2
<1>6. StackInner(R, p)
  BY <1>2, <1>3, <1>4, <1>5 DEF StackInner
<1> QED BY <1>6 DEF p

LEMMA InnerMore ==
  ASSUME NEW P, NEW Q, P \subseteq Q, NEW R, NEW O
  PROVE  \A s, w : Inner(P, R, O, s, w) => Inner(Q, R, O, s, w)
<1>1. ASSUME NEW w, ListInner(P, O, w) PROVE ListInner(Q, O, w)
  BY <1>1 DEF ListInner
<1> QED BY <1>1 DEF Inner

LEMMA InnerAdded ==
  ASSUME NEW P, NEW R, NEW O, AllInner(P, R, O), NEW s, NEW w, Inner(P, R, O, s, w)
  PROVE  AllInner(P \cup {<<s, w>>}, R, O) /\ Inner(P \cup {<<s, w>>}, R, O, s, w)
<1> DEFINE Q == P \cup {<<s, w>>}
<1>1. \A s2, w2 : Inner(P, R, O, s2, w2) => Inner(Q, R, O, s2, w2)
  BY InnerMore
<1>2. ASSUME NEW s2, NEW w2, <<s2, w2>> \in Q
      PROVE  (s2 = R /\ w2 = O) \/ Inner(Q, R, O, s2, w2)
  <2>1. CASE <<s2, w2>> \in P
    BY <1>1, <2>1 DEF AllInner
  <2>2. CASE s2 = s /\ w2 = w
    BY <1>1, <2>2
  <2> QED BY <1>2, <2>1, <2>2
<1>3. Inner(Q, R, O, s, w)
  BY <1>1
<1> HIDE DEF Q
<1>4. AllInner(Q, R, O)
  BY <1>2 DEF AllInner
<1> QED BY <1>3, <1>4 DEF Q

\* A handler was called on what is a place of a handler or just outside.
LEMMA HandlerInner ==
  ASSUME NEW P, NEW R, NEW O, AllInner(P, R, O), IsList(R), IsList(O),
         NEW s, NEW w, <<s, w>> \in P, NEW u
  PROVE  Inner(P, R, O, <<Frame("handler", u)>> \o s,
               <<[kind |-> "handler", id |-> u, outside |-> s]>> \o w)
<1>1. PICK f : f = Frame("handler", u)
  OBVIOUS
<1>2. PICK x : x = [kind |-> "handler", id |-> u, outside |-> s]
  OBVIOUS
<1>3. f.at = "handler" /\ x.kind = "handler" /\ x.outside = s
  BY <1>1, <1>2 DEF Frame
<1>4. (s = R /\ w = O) \/ Inner(P, R, O, s, w)
  BY DEF AllInner
<1>5. ListInner(P, O, w) /\ (s = R \/ StackInner(R, s))
  BY <1>4, InnerOuter DEF Inner
<1>6. StackInner(R, <<f>> \o s)
  BY <1>3, <1>5, StackInnerPushed
<1>7. ListInner(P, O, <<x>> \o w) /\ Len(O) < Len(<<x>> \o w)
  BY <1>3, <1>5, InnerPushed
<1>8. IsList(s)
  BY <1>5 DEF StackInner
<1>9. ~ Winds(<<f>> \o s)
  <2>1. Head(<<f>> \o s) = f
    BY <1>8, PushedList
  <2> QED BY <1>3, <2>1 DEF Winds
<1>10. Inner(P, R, O, <<f>> \o s, <<x>> \o w)
  BY <1>6, <1>7, <1>9 DEF Inner
<1> QED BY <1>1, <1>2, <1>10

\* An exception that leaves a handler was raised.
LEMMA WindInner ==
  ASSUME NEW P, NEW R, NEW O, IsList(R), NEW s, NEW w, Inner(P, R, O, s, w),
         NEW f, f.at = "wind", f.kind = "discarded",
         <<f.to, f.winders>> \in P, IsTail(f.winders, w)
  PROVE  Inner(P, R, O, <<f>> \o s, w)
<1>1. StackInner(R, s) /\ ListInner(P, O, w)
  BY DEF Inner
<1>2. StackInner(R, <<f>> \o s)
  BY <1>1, StackInnerPushed
<1>3. Head(<<f>> \o s) = f /\ <<f>> \o s # <<>>
  BY <1>1, PushedList DEF StackInner
<1> QED BY <1>1, <1>2, <1>3 DEF Inner, Winds

-----------------------------------------------------------------------------
(* The invariant for these programs.                                       *)

\* Handlers are called while an escape that asks for them is under way, and
\* the thunks that it has left have had theirs called.
Reason(R, O) ==
  /\ Decisive(R) =>
       /\ why # "no"
       /\ \A u \in Head(R).left : u \in Uwp /\ (terminated[u] \/ Has(O, "protect", u))
  /\ why # "no" => Decisive(R) \/ (R # <<>> /\ Head(R).at = "escaped" /\ frames = R)

\* What the escape procedures reinstate.
ReturnsTo(s) == s # <<>> /\ Head(s).at = "escaped"

Reinstates(C) ==
  /\ \A c \in Ucc : c \in used =>
       <<Escaped(c, escape[c]), escape[c]>> \in C /\ ReturnsTo(Escaped(c, escape[c]))
  /\ \A k \in Standard :
       reinstated[k].valid => <<reinstated[k].frames, reinstated[k].winders>> \in C

Shape(C, P, R, O) ==
  /\ AllSettled(C) /\ Reinstates(C)
  /\ Outer(C, R, O) /\ Reason(R, O)
  /\ AllInner(P, R, O) /\ <<R, O>> \in P /\ <<frames, winders>> \in P

Shaped == \E C, P, R, O : Shape(C, P, R, O)

PlainInv == UnwindInv /\ Shaped

LEMMA OuterLists ==
  ASSUME NEW C, NEW R, NEW O, AllSettled(C), Outer(C, R, O)
  PROVE  IsList(R) /\ IsList(O)
BY DEF Outer, AllSettled, StackSettled, ListSettled

\* Where no escape is on top, nobody unwinds.
LEMMA OuterSettled ==
  ASSUME NEW C, NEW R, NEW O, AllSettled(C), Outer(C, R, O), ~ Winds(R)
  PROVE  <<R, O>> \in C /\ StackSettled(R) /\ ListSettled(C, O)
BY DEF Outer, Leaves, Winds, AllSettled

LEMMA OuterWinds ==
  ASSUME NEW C, NEW R, NEW O, AllSettled(C), Outer(C, R, O), Winds(R)
  PROVE  /\ Leaves(C, Head(R)) /\ StackSettled(Tail(R)) /\ ListSettled(C, O)
         /\ IsList(R)
<1>1. <<R, O>> \notin C
  BY StackPopped DEF AllSettled, Winds
<1> QED BY <1>1 DEF Outer

\* Steps outside of the handlers, with C settled after the step.
LEMMA OuterKeeps ==
  ASSUME NEW C, AllSettled(C), Reinstates(C)', NEW R, NEW O, R = frames', O = winders',
         Outer(C, R, O), Reason(R, O)'
  PROVE  Shaped'
<1> DEFINE P == {<<R, O>>}
<1>1. AllInner(P, R, O) /\ <<R, O>> \in P
  BY DEF AllInner
<1> HIDE DEF P
<1>2. Shape(C, P, R, O)'
  BY <1>1 DEF Shape
<1> QED BY <1>2 DEF Shaped

\* Steps that call a handler from outside.
LEMMA HandlerStarts ==
  ASSUME NEW C, AllSettled(C), Reinstates(C)', NEW R, NEW O, Outer(C, R, O), Reason(R, O)',
         NEW u, frames' = <<Frame("handler", u)>> \o R,
         winders' = <<[kind |-> "handler", id |-> u, outside |-> R]>> \o O
  PROVE  Shaped'
<1> DEFINE P == {<<R, O>>}
<1>1. AllInner(P, R, O) /\ <<R, O>> \in P
  BY DEF AllInner
<1> HIDE DEF P
<1>2. IsList(R) /\ IsList(O)
  BY OuterLists
<1>3. PICK s, w : s = frames' /\ w = winders'
  OBVIOUS
<1>4. Inner(P, R, O, s, w)
  BY <1>1, <1>2, <1>3, HandlerInner
<1> DEFINE Q == P \cup {<<s, w>>}
<1>5. AllInner(Q, R, O) /\ <<R, O>> \in Q /\ <<s, w>> \in Q
  BY <1>1, <1>4, InnerAdded
<1> HIDE DEF Q
<1>6. Shape(C, Q, R, O)'
  BY <1>3, <1>5 DEF Shape
<1> QED BY <1>6 DEF Shaped

\* Steps inside of the handlers, and those that return from them.
LEMMA InnerKeeps ==
  ASSUME NEW C, NEW P, NEW R, NEW O, Shape(C, P, R, O), Reinstates(C)',
         NEW Q, AllInner(Q, R, O), <<R, O>> \in Q,
         <<frames', winders'>> \in Q \/ Inner(Q, R, O, frames', winders'),
         why' = why, \A u \in Uwp : terminated[u] => terminated'[u], frames # R
  PROVE  Shaped'
<1>1. PICK s, w : s = frames' /\ w = winders'
  OBVIOUS
<1> DEFINE Q2 == Q \cup {<<s, w>>}
<1>2. AllInner(Q2, R, O) /\ <<R, O>> \in Q2 /\ <<s, w>> \in Q2
  <2>1. CASE <<s, w>> \in Q
    <3>1. Q2 = Q
      BY <2>1
    <3> QED BY <2>1, <3>1
  <2>2. CASE Inner(Q, R, O, s, w)
    BY <2>2, InnerAdded
  <2> QED BY <1>1, <2>1, <2>2
<1> HIDE DEF Q2
<1>3. Reason(R, O)'
  <2>1. Reason(R, O)
    BY DEF Shape
  <2> QED BY <2>1 DEF Reason
<1>4. Shape(C, Q2, R, O)'
  BY <1>1, <1>2, <1>3 DEF Shape
<1> QED BY <1>4 DEF Shaped

\* Where the program is.
LEMMA PlaceIs ==
  ASSUME NEW C, NEW P, NEW R, NEW O, Shape(C, P, R, O)
  PROVE  /\ IsList(R) /\ IsList(O)
         /\ \/ frames = R /\ winders = O
            \/ Inner(P, R, O, frames, winders) /\ frames # R
<1>1. IsList(R) /\ IsList(O)
  BY OuterLists DEF Shape
<1>2. ASSUME Inner(P, R, O, frames, winders) PROVE frames # R
  <2>1. Len(R) \in Nat /\ Len(R) < Len(frames)
    BY <1>1, <1>2, LenProperties DEF IsList, Inner, StackInner
  <2> QED BY <2>1
<1> QED BY <1>1, <1>2 DEF Shape, AllInner

\* In a handler the program protects and raises only.
LEMMA InnerRuns ==
  ASSUME PlainHandlers, NEW P, NEW R, NEW O, IsList(R), Inner(P, R, O, frames, winders),
         NEW op, Runs(op)
  PROVE  op \in {"protect", "raise"}
<1>1. /\ IsList(frames) /\ Len(R) \in Nat /\ Len(frames) \in Nat
      /\ Len(R) < Len(frames) /\ AtDepth(frames, Len(R) + 1).at = "handler"
  BY LenProperties DEF Inner, StackInner, IsList
<1>2. PICK i : i = Len(frames) - (Len(R) + 1) + 1
  OBVIOUS
<1>3. i \in 1 .. Len(frames)
  BY <1>1, <1>2
<1>4. i \in DOMAIN frames
  BY <1>1, <1>3, LenProperties DEF IsList
<1>5. frames[i].at = "handler"
  BY <1>1, <1>2 DEF AtDepth
<1>6. InHandler
  BY <1>4, <1>5 DEF InHandler
<1> QED BY <1>6 DEF Runs, PlainHandlers

LEMMA ProtectedIs == ASSUME NEW w, NEW u PROVE u \in Protected(w) <=> Has(w, "protect", u)
BY DEF Protected, Has

\* A position of a list, and its depth.
LEMMA PositionDepth ==
  ASSUME NEW w, IsList(w), NEW i \in DOMAIN w, NEW d, d = Len(w) - i + 1
  PROVE  /\ Len(w) \in Nat /\ i \in 1 .. Len(w) /\ d \in 1 .. Len(w)
         /\ AtDepth(w, d) = w[i] /\ LastOf(w, d - 1) = Below(w, i)
<1>1. Len(w) \in Nat /\ DOMAIN w = 1 .. Len(w)
  BY LenProperties DEF IsList
<1>2. d \in 1 .. Len(w) /\ d - 1 = Len(w) - i /\ Len(w) - d + 1 = i /\ i \in 0 .. Len(w)
  BY <1>1
<1>3. AtDepth(w, d) = w[i]
  BY <1>2 DEF AtDepth
<1>4. LastOf(w, d - 1) = Below(w, i)
  BY <1>2, TailsAre
<1> QED BY <1>1, <1>2, <1>3, <1>4

\* An exception outside of the handlers goes to a guard, and asks it for the
\* cleanups.
LEMMA RaiseOuter ==
  ASSUME NEW C, AllSettled(C), Reinstates(C)', NEW w, ListSettled(C, w), w = winders',
         \A u : Has(w, "protect", u) => u \in Uwp,
         NEW rest, StackSettled(rest), Raise(w, rest)
  PROVE  Shaped'
<1>1. IsList(w)
  BY DEF ListSettled
<1>2. \A i \in DOMAIN w : w[i].kind # "handler" /\ <<w[i].outside, Below(w, i)>> \in C
  <2>1. ASSUME NEW i \in DOMAIN w
        PROVE  w[i].kind # "handler" /\ <<w[i].outside, Below(w, i)>> \in C
    <3>1. PICK d : d = Len(w) - i + 1
      OBVIOUS
    <3>2. d \in 1 .. Len(w) /\ AtDepth(w, d) = w[i] /\ LastOf(w, d - 1) = Below(w, i)
      BY <1>1, <3>1, PositionDepth
    <3> QED BY <3>2 DEF ListSettled
  <2> QED BY <2>1
<1>3. PICK i \in DOMAIN w :
        why' = "exception" /\ WindTo(w, Below(w, i), w[i].outside, "exception", rest)
  BY <1>2 DEF Raise, Guards, CleanupsAsked
<1>4. PICK f : f = [at |-> "wind", kind |-> "exception",
                    left |-> Protected(w) \ Protected(Below(w, i)),
                    winders |-> Below(w, i), to |-> w[i].outside]
  OBVIOUS
<1>5. /\ f.at = "wind" /\ f.kind = "exception" /\ f.winders = Below(w, i) /\ f.to = w[i].outside
      /\ f.left \subseteq Protected(w)
  BY <1>4
<1>6. frames' = <<f>> \o rest
  BY <1>3, <1>4 DEF WindTo
<1>7. PICK R : R = <<f>> \o rest
  OBVIOUS
<1>8. IsList(R) /\ R # <<>> /\ Head(R) = f /\ Tail(R) = rest
  BY <1>7, PushedList DEF StackSettled
<1>9. Leaves(C, f)
  BY <1>2, <1>5 DEF Leaves
<1>10. Outer(C, R, w)
  BY <1>8, <1>9 DEF Outer
<1>11. Reason(R, w)'
  <2>1. Decisive(R)
    BY <1>5, <1>8 DEF Decisive, Winds
  <2>2. \A u \in Head(R).left : u \in Uwp /\ Has(w, "protect", u)
    BY <1>5, <1>8, ProtectedIs
  <2> QED BY <1>3, <2>1, <2>2 DEF Reason
<1> QED BY <1>6, <1>7, <1>10, <1>11, OuterKeeps

\* An exception in a handler leaves the innermost one.
LEMMA RaiseInner ==
  ASSUME NEW P, NEW R, NEW O, IsList(R), IsList(O), NEW s, NEW w,
         Inner(P, R, O, s, w), ~ Winds(s), Raise(w, s)
  PROVE  Inner(P, R, O, frames', w) /\ why' = why
<1>1. /\ StackInner(R, s) /\ ListInner(P, O, w) /\ IsList(w)
      /\ Len(O) \in Nat /\ Len(w) \in Nat /\ Len(O) < Len(w)
  BY LenProperties DEF Inner, ListInner, IsList
<1>2. PICK h : h = Len(w) - (Len(O) + 1) + 1
  OBVIOUS
<1>3. h \in 1 .. Len(w) /\ h \in DOMAIN w /\ w[h].kind = "handler" /\ h = Len(w) - Len(O)
  BY <1>1, <1>2, LenProperties DEF ListInner, AtDepth, IsList
<1>4. ASSUME NEW i \in DOMAIN w, \A j \in 1 .. i - 1 : w[j].kind # "handler"
      PROVE  /\ w[i].kind \in {"protect", "handler"}
             /\ <<w[i].outside, Below(w, i)>> \in P
             /\ IsTail(Below(w, i), w)
  <2>1. PICK d : d = Len(w) - i + 1
    OBVIOUS
  <2>2. /\ i \in 1 .. Len(w) /\ d \in 1 .. Len(w)
        /\ AtDepth(w, d) = w[i] /\ LastOf(w, d - 1) = Below(w, i)
    BY <1>1, <2>1, PositionDepth
  <2>3. ~ h <= i - 1
    BY <1>3, <1>4
  <2>4. d \in Len(O) + 1 .. Len(w)
    BY <1>1, <1>3, <2>1, <2>2, <2>3
  <2>5. d - 1 \in 0 .. Len(w)
    BY <1>1, <2>2
  <2>6. IsTail(LastOf(w, d - 1), w)
    BY <1>1, <2>5, LastOfIsTail DEF IsList
  <2> QED BY <1>1, <2>2, <2>4, <2>6 DEF ListInner
<1>5. Guards(w) = {}
  BY <1>4 DEF Guards
<1>6. PICK i \in DOMAIN w :
        /\ \A j \in 1 .. i - 1 : w[j].kind # "handler"
        /\ why' = why
        /\ WindTo(w, Below(w, i), w[i].outside, "discarded", s)
  BY <1>5 DEF Raise
<1>7. PICK f : f = [at |-> "wind", kind |-> "discarded",
                    left |-> Protected(w) \ Protected(Below(w, i)),
                    winders |-> Below(w, i), to |-> w[i].outside]
  OBVIOUS
<1>8. f.at = "wind" /\ f.kind = "discarded" /\ f.winders = Below(w, i) /\ f.to = w[i].outside
  BY <1>7
<1>9. frames' = <<f>> \o s
  BY <1>6, <1>7 DEF WindTo
<1>10. <<f.to, f.winders>> \in P /\ IsTail(f.winders, w)
  BY <1>4, <1>6, <1>8
<1>11. Inner(P, R, O, <<f>> \o s, w)
  BY <1>8, <1>10, WindInner
<1> QED BY <1>6, <1>9, <1>11

LEMMA ReinstatesKept ==
  ASSUME NEW C, Reinstates(C), UNCHANGED <<escape, reinstated>>,
         used' = used \/ \E u : u \notin Ucc /\ used' = used \cup {u}
  PROVE  Reinstates(C)'
<1>1. \A c \in Ucc : c \in used' => c \in used
  OBVIOUS
<1>2. \A c : Escaped(c, escape[c])' = Escaped(c, escape[c])
  BY DEF Escaped, Frame
<1> QED BY <1>1, <1>2 DEF Reinstates, ReturnsTo

\* Outside of the handlers, when no escape is on top.
LEMMA CalmIs ==
  ASSUME NEW C, NEW P, NEW R, NEW O, Shape(C, P, R, O), frames = R, winders = O,
         ~ Winds(frames)
  PROVE  /\ <<frames, winders>> \in C
         /\ StackSettled(frames) /\ ListSettled(C, winders)
         /\ AllSettled(C) /\ Reinstates(C)
         /\ frames = <<>> \/ Head(frames).at # "escaped" => why = "no"
<1>1. AllSettled(C) /\ Outer(C, R, O) /\ Reason(R, O) /\ Reinstates(C)
  BY DEF Shape
<1>2. <<R, O>> \in C /\ StackSettled(R) /\ ListSettled(C, O)
  BY <1>1, OuterSettled
<1>3. ~ Decisive(R)
  BY DEF Decisive
<1> QED BY <1>1, <1>2, <1>3 DEF Reason

\* The winder of the call on top of the stack.
LEMMA CallOutside ==
  ASSUME UnwindInv, frames # <<>>, Head(frames).at # "wind"
  PROVE  /\ winders # <<>> /\ Head(winders).kind = KindOf(Head(frames).at)
         /\ Head(winders).id = Head(frames).id /\ Head(winders).outside = Tail(frames)
<1>1. PICK E : Places(E)
  BY DEF UnwindInv
<1>2. PICK x : x = Head(winders)
  OBVIOUS
<1>3. winders # <<>> /\ x = [kind |-> KindOf(Head(frames).at), id |-> Head(frames).id,
                             outside |-> Tail(frames)]
  BY <1>1, <1>2, HereFits DEF PlaceFits
<1>4. x.kind = KindOf(Head(frames).at) /\ x.id = Head(frames).id /\ x.outside = Tail(frames)
  BY <1>3
<1> QED BY <1>2, <1>3, <1>4

-----------------------------------------------------------------------------
(* The steps of these programs.                                            *)

\* A syntax is used.
LEMMA EnterShaped ==
  ASSUME PlainInv, NEW kind \in {"protect", "receiver", "guard"}, NEW at, NEW id,
         Enter(kind, at, id), at \notin {"wind", "handler"},
         frames # <<>> => Head(frames).at \notin {"wind", "escaped"},
         InHandler => kind = "protect",
         IF kind = "receiver" THEN id \in Ucc /\ escape' = [escape EXCEPT ![id] = winders']
         ELSE escape' = escape /\ id \notin Ucc,
         UNCHANGED <<why, terminated, reinstated>>
  PROVE  Shaped'
<1>1. PICK C, P, R, O : Shape(C, P, R, O)
  BY DEF PlainInv, Shaped
<1>2. PICK s, w : s = frames /\ w = winders
  OBVIOUS
<1>3. PICK x, f : x = [kind |-> kind, id |-> id, outside |-> s] /\ f = Frame(at, id)
  OBVIOUS
<1>4. /\ id \notin used /\ used' = used \cup {id}
      /\ winders' = <<x>> \o w /\ frames' = <<f>> \o s
  BY <1>2, <1>3 DEF Enter
<1>5. x.kind = kind /\ x.id = id /\ x.outside = s /\ f.at = at
  BY <1>3 DEF Frame
<1>6. ~ Winds(frames)
  BY DEF Winds
<1>7. CASE frames = R /\ winders = O
  <2>1. /\ <<s, w>> \in C /\ StackSettled(s) /\ ListSettled(C, w)
        /\ AllSettled(C) /\ Reinstates(C) /\ why = "no"
    BY <1>1, <1>2, <1>6, <1>7, CalmIs
  <2>2. PICK s2, w2, e2, e : /\ s2 = <<f>> \o s /\ w2 = <<x>> \o w
                             /\ e2 = <<e>> \o s /\ e = Frame("escaped", id)
    OBVIOUS
  <2>3. s2 = frames' /\ w2 = winders'
    BY <1>4, <2>2
  <2>4. e.at = "escaped"
    BY <2>2 DEF Frame
  <2>5. StackSettled(s2) /\ StackSettled(e2) /\ ListSettled(C, w2)
    BY <1>5, <2>1, <2>2, <2>4, StackPushed, SettledPushed
  <2> DEFINE D == C \cup {<<s2, w2>>}
             D2 == D \cup {<<e2, w2>>}
  <2>6. AllSettled(D) /\ C \subseteq D2 /\ <<s2, w2>> \in D2 /\ <<e2, w2>> \in D2
    BY <2>1, <2>5, SettledAdded
  <2>7. AllSettled(D2)
    <3>1. ListSettled(D, w2)
      BY <2>5, SettledMore
    <3> HIDE DEF D
    <3> QED BY <2>5, <2>6, <3>1, SettledAdded
  <2> HIDE DEF D, D2
  <2>8. Reinstates(D2)'
    <3>1. ASSUME NEW c \in Ucc, c \in used'
          PROVE  /\ <<Escaped(c, escape[c])', escape'[c]>> \in D2
                 /\ ReturnsTo(Escaped(c, escape[c])')
      <4>1. CASE kind = "receiver" /\ c = id
        <5>1. escape'[c] = w2
          BY <2>3, <4>1 DEF PlainInv, UnwindInv, UnwindInvariant, UnwindTypes
        <5>2. Head(w2) = x
          BY <2>1, <2>2, PushedList DEF ListSettled
        <5>3. Escaped(c, w2) = e2
          BY <1>5, <2>2, <4>1, <5>2 DEF Escaped
        <5>4. Escaped(c, escape[c])' = e2
          BY <5>1, <5>3 DEF Escaped, Frame
        <5>5. ReturnsTo(e2)
          BY <2>1, <2>2, <2>4, PushedList DEF StackSettled, ReturnsTo
        <5> QED BY <2>6, <5>1, <5>4, <5>5
      <4>2. CASE ~ (kind = "receiver" /\ c = id)
        <5>1. c \in used /\ escape'[c] = escape[c]
          <6>1. CASE kind = "receiver"
            <7>1. c # id
              BY <4>2, <6>1
            <7> QED BY <1>4, <3>1, <6>1, <7>1
                DEF PlainInv, UnwindInv, UnwindInvariant, UnwindTypes
          <6>2. CASE kind # "receiver"
            BY <1>4, <3>1, <6>2
          <6> QED BY <6>1, <6>2
        <5>2. /\ <<Escaped(c, escape[c]), escape[c]>> \in C
              /\ ReturnsTo(Escaped(c, escape[c]))
          BY <2>1, <5>1 DEF Reinstates
        <5>3. Escaped(c, escape[c])' = Escaped(c, escape[c])
          BY <5>1 DEF Escaped, Frame
        <5> QED BY <2>6, <5>1, <5>2, <5>3
      <4> QED BY <4>1, <4>2
    <3>2. \A k \in Standard :
            reinstated[k].valid => <<reinstated[k].frames, reinstated[k].winders>> \in D2
      BY <2>1, <2>6 DEF Reinstates
    <3> QED BY <3>1, <3>2 DEF Reinstates, ReturnsTo
  <2>9. Reason(s2, w2)'
    <3>1. Head(s2) = f
      BY <2>1, <2>2, PushedList DEF StackSettled
    <3>2. ~ Decisive(s2)
      BY <1>5, <3>1 DEF Decisive, Winds
    <3> QED BY <2>1, <3>2 DEF Reason
  <2>10. Outer(D2, s2, w2)
    BY <2>6 DEF Outer
  <2> QED BY <2>3, <2>7, <2>8, <2>9, <2>10, OuterKeeps
<1>8. CASE Inner(P, R, O, frames, winders) /\ frames # R
  <2>1. IsList(R) /\ IsList(O)
    BY <1>1, PlaceIs
  <2>2. StackInner(R, s) /\ ListInner(P, O, w) /\ Len(O) < Len(w) /\ <<s, w>> \in P
    BY <1>1, <1>2, <1>6, <1>8 DEF Inner, Shape
  <2>3. kind = "protect" /\ id \notin Ucc /\ escape' = escape
    <3>1. InHandler
      <4>1. /\ IsList(s) /\ Len(R) \in Nat /\ Len(s) \in Nat
            /\ Len(R) < Len(s) /\ AtDepth(s, Len(R) + 1).at = "handler"
        BY <2>1, <2>2, LenProperties DEF StackInner, IsList
      <4>2. PICK i : i = Len(s) - (Len(R) + 1) + 1
        OBVIOUS
      <4>3. i \in 1 .. Len(s)
        BY <4>1, <4>2
      <4>4. i \in DOMAIN s /\ s[i].at = "handler"
        BY <4>1, <4>2, <4>3, LenProperties DEF IsList, AtDepth
      <4> QED BY <1>2, <4>4 DEF InHandler
    <3> QED BY <3>1
  <2>4. StackInner(R, <<f>> \o s)
    BY <1>5, <2>1, <2>2, StackInnerPushed
  <2>5. ListInner(P, O, <<x>> \o w) /\ Len(O) < Len(<<x>> \o w)
    BY <1>5, <2>1, <2>2, <2>3, InnerPushed
  <2>6. ~ Winds(<<f>> \o s)
    <3>1. Head(<<f>> \o s) = f
      BY <2>2, PushedList DEF StackInner
    <3> QED BY <1>5, <3>1 DEF Winds
  <2>7. Inner(P, R, O, frames', winders')
    BY <1>4, <2>4, <2>5, <2>6 DEF Inner
  <2>8. Reinstates(C)'
    <3>1. Reinstates(C)
      BY <1>1 DEF Shape
    <3> QED BY <1>4, <2>3, <3>1, ReinstatesKept
  <2>9. AllInner(P, R, O) /\ <<R, O>> \in P
    BY <1>1 DEF Shape
  <2> QED BY <1>1, <1>8, <2>7, <2>8, <2>9, InnerKeeps
<1> QED BY <1>1, <1>7, <1>8, PlaceIs

LEMMA ThunkReturnsShaped == ASSUME PlainInv, ThunkReturns PROVE Shaped'
<1>1. PICK C, P, R, O : Shape(C, P, R, O)
  BY DEF PlainInv, Shaped
<1>2. PICK s, w, u : s = Tail(frames) /\ w = Tail(winders) /\ u = Head(frames).id
  OBVIOUS
<1>3. /\ frames # <<>> /\ Head(frames).at = "thunk"
      /\ CallHandler(u, s, w)
      /\ UNCHANGED <<why, escape, reinstated, used>>
  BY <1>2 DEF ThunkReturns
<1>4. /\ frames' = <<Frame("handler", u)>> \o s
      /\ winders' = <<[kind |-> "handler", id |-> u, outside |-> s]>> \o w
  BY <1>3 DEF CallHandler
<1>5. winders # <<>> /\ Head(winders).outside = s
  BY <1>2, <1>3, CallOutside DEF PlainInv
<1>6. ~ Winds(frames)
  BY <1>3 DEF Winds
<1>7. Reinstates(C)'
  <2>1. Reinstates(C)
    BY <1>1 DEF Shape
  <2> QED BY <1>3, <2>1, ReinstatesKept
<1>8. CASE frames = R /\ winders = O
  <2>1. /\ <<frames, winders>> \in C
        /\ ListSettled(C, winders) /\ AllSettled(C) /\ why = "no"
    BY <1>1, <1>3, <1>6, <1>8, CalmIs
  <2>2. <<s, w>> \in C
    BY <1>2, <1>5, <2>1, SettledPopped
  <2>3. StackSettled(s)
    BY <2>1, <2>2 DEF AllSettled
  <2>4. ~ Decisive(s)
    BY <2>3, StackPopped DEF Decisive, Winds
  <2>5. Reason(s, w)'
    BY <1>3, <2>1, <2>4 DEF Reason
  <2>6. Outer(C, s, w)
    BY <2>2 DEF Outer
  <2> QED BY <1>4, <1>7, <2>1, <2>5, <2>6, HandlerStarts
<1>9. CASE Inner(P, R, O, frames, winders) /\ frames # R
  <2>1. IsList(R) /\ IsList(O)
    BY <1>1, PlaceIs
  <2>2. ListInner(P, O, winders) /\ Len(O) < Len(winders)
    BY <1>6, <1>9 DEF Inner
  <2>3. <<s, w>> \in P
    BY <1>2, <1>5, <2>1, <2>2, InnerPopped
  <2>4. AllInner(P, R, O) /\ <<R, O>> \in P
    BY <1>1 DEF Shape
  <2>5. Inner(P, R, O, frames', winders')
    BY <1>4, <2>1, <2>3, <2>4, HandlerInner
  <2>6. \A t \in Uwp : terminated[t] => terminated'[t]
    BY <1>3 DEF CallHandler, PlainInv, UnwindInv, UnwindInvariant, UnwindTypes
  <2> QED BY <1>1, <1>3, <1>7, <1>9, <2>4, <2>5, <2>6, InnerKeeps
<1> QED BY <1>1, <1>8, <1>9, PlaceIs

LEMMA ReturnShaped ==
  ASSUME PlainInv, HandlerReturns \/ GuardReturns \/ ReceiverReturns
  PROVE  Shaped'
<1>1. PICK C, P, R, O : Shape(C, P, R, O)
  BY DEF PlainInv, Shaped
<1>2. PICK s, w : s = Tail(frames) /\ w = Tail(winders)
  OBVIOUS
<1>3. /\ frames # <<>> /\ Head(frames).at \in {"handler", "guarded", "receiver", "escaped"}
      /\ winders' = w /\ frames' = s
      /\ Head(frames).at = "handler" => why' = why
      /\ Head(frames).at \in {"receiver", "escaped"} => why' = "no"
      /\ Head(frames).at = "guarded" => why' = why
      /\ UNCHANGED <<terminated, escape, reinstated, used>>
  BY <1>2 DEF HandlerReturns, GuardReturns, ReceiverReturns, ReasonAfter
<1>4. winders # <<>> /\ Head(winders).outside = s /\ Head(winders).kind = KindOf(Head(frames).at)
  BY <1>2, <1>3, CallOutside DEF PlainInv
<1>5. ~ Winds(frames)
  BY <1>3 DEF Winds
<1>6. Reinstates(C)'
  <2>1. Reinstates(C)
    BY <1>1 DEF Shape
  <2> QED BY <1>3, <2>1, ReinstatesKept
<1>7. CASE frames = R /\ winders = O
  <2>1. /\ StackSettled(frames) /\ ListSettled(C, winders) /\ AllSettled(C)
        /\ Head(frames).at # "escaped" => why = "no"
    BY <1>1, <1>3, <1>5, <1>7, CalmIs
  <2>2. Head(frames).at # "handler"
    BY <1>3, <2>1, StackPopped
  <2>3. why' = "no"
    BY <1>3, <2>1, <2>2
  <2>4. <<s, w>> \in C
    BY <1>2, <1>4, <2>1, SettledPopped
  <2>5. ~ Decisive(s)
    <3>1. StackSettled(s)
      BY <2>1, <2>4 DEF AllSettled
    <3> QED BY <3>1, StackPopped DEF Decisive, Winds
  <2>6. Reason(s, w)'
    BY <2>3, <2>5 DEF Reason
  <2>7. Outer(C, s, w)
    BY <2>4 DEF Outer
  <2> QED BY <1>3, <1>6, <2>1, <2>6, <2>7, OuterKeeps
<1>8. CASE Inner(P, R, O, frames, winders) /\ frames # R
  <2>1. IsList(R) /\ IsList(O)
    BY <1>1, PlaceIs
  <2>2. ListInner(P, O, winders) /\ Len(O) < Len(winders)
    BY <1>5, <1>8 DEF Inner
  <2>3. <<s, w>> \in P /\ Head(winders).kind \in {"protect", "handler"}
    BY <1>2, <1>4, <2>1, <2>2, InnerPopped
  <2>4. Head(frames).at = "handler"
    BY <1>3, <1>4, <2>3 DEF KindOf
  <2>5. AllInner(P, R, O) /\ <<R, O>> \in P
    BY <1>1 DEF Shape
  <2> QED BY <1>1, <1>3, <1>6, <1>8, <2>3, <2>4, <2>5, InnerKeeps
<1> QED BY <1>1, <1>7, <1>8, PlaceIs

LEMMA ProtectedAreUses ==
  ASSUME UnwindInv, NEW u, Has(winders, "protect", u)
  PROVE  u \in Uwp
<1>1. PICK E : Places(E)
  BY DEF UnwindInv
<1>2. ListFits(E, used, winders)
  BY <1>1, HereFits
<1> QED BY <1>2, HadFits

LEMMA RaiseExceptionShaped == ASSUME PlainInv, RaiseException PROVE Shaped'
<1>1. PICK C, P, R, O : Shape(C, P, R, O)
  BY DEF PlainInv, Shaped
<1>2. PICK s, w : s = frames /\ w = winders
  OBVIOUS
<1>3. /\ Raise(w, s) /\ w = winders' /\ ~ Winds(s)
      /\ UNCHANGED <<terminated, escape, reinstated, used>>
  BY <1>2 DEF RaiseException, Runs, Winds
<1>4. Reinstates(C)'
  <2>1. Reinstates(C)
    BY <1>1 DEF Shape
  <2> QED BY <1>3, <2>1, ReinstatesKept
<1>5. CASE frames = R /\ winders = O
  <2>1. StackSettled(s) /\ ListSettled(C, w) /\ AllSettled(C)
    BY <1>1, <1>2, <1>3, <1>5, CalmIs
  <2>2. \A u : Has(w, "protect", u) => u \in Uwp
    BY <1>2, ProtectedAreUses DEF PlainInv
  <2> QED BY <1>3, <1>4, <2>1, <2>2, RaiseOuter
<1>6. CASE Inner(P, R, O, frames, winders) /\ frames # R
  <2>1. IsList(R) /\ IsList(O)
    BY <1>1, PlaceIs
  <2>2. Inner(P, R, O, frames', w) /\ why' = why
    BY <1>2, <1>3, <1>6, <2>1, RaiseInner
  <2>3. AllInner(P, R, O) /\ <<R, O>> \in P
    BY <1>1 DEF Shape
  <2> QED BY <1>1, <1>3, <1>4, <1>6, <2>2, <2>3, InnerKeeps
<1> QED BY <1>1, <1>5, <1>6, PlaceIs

\* An escape outside of the handlers starts.
LEMMA WindOuter ==
  ASSUME NEW C, AllSettled(C), Reinstates(C)', NEW w, ListSettled(C, w), w = winders',
         NEW s, StackSettled(s), NEW f, Leaves(C, f), frames' = <<f>> \o s,
         IF f.kind = "plain" THEN why' = "no"
         ELSE why' # "no" /\ \A u \in f.left : u \in Uwp /\ Has(w, "protect", u)
  PROVE  Shaped'
<1>1. PICK R : R = <<f>> \o s
  OBVIOUS
<1>2. IsList(R) /\ R # <<>> /\ Head(R) = f /\ Tail(R) = s
  BY <1>1, PushedList DEF StackSettled
<1>3. Outer(C, R, w)
  BY <1>2 DEF Outer
<1>4. f.at = "wind" /\ f.kind \in {"escape", "exception", "plain"}
  BY DEF Leaves
<1>5. Decisive(R) <=> f.kind # "plain"
  BY <1>2, <1>4 DEF Decisive, Winds
<1>6. Reason(R, w)'
  BY <1>2, <1>5 DEF Reason
<1> QED BY <1>1, <1>3, <1>6, OuterKeeps

LEMMA CallEscapeShaped ==
  ASSUME PlainHandlers, PlainInv, NEW c \in Ucc, CallEscape(c)
  PROVE  Shaped'
<1>1. PICK C, P, R, O : Shape(C, P, R, O)
  BY DEF PlainInv, Shaped
<1>2. PICK s, w : s = frames /\ w = winders
  OBVIOUS
<1>3. /\ Runs("unwinding") /\ c \in used /\ w = winders' /\ ~ Winds(frames)
      /\ UNCHANGED <<terminated, escape, reinstated, used>>
  BY <1>2 DEF CallEscape, Runs, Winds
<1>4. Reinstates(C) /\ Reinstates(C)'
  <2>1. Reinstates(C)
    BY <1>1 DEF Shape
  <2> QED BY <1>3, <2>1, ReinstatesKept
<1>5. frames = R /\ winders = O
  BY <1>1, <1>3, PlaceIs, InnerRuns
<1>6. StackSettled(s) /\ ListSettled(C, w) /\ AllSettled(C)
  BY <1>1, <1>2, <1>3, <1>5, CalmIs
<1>7. \A u : Has(w, "protect", u) => u \in Uwp
  BY <1>2, ProtectedAreUses DEF PlainInv
<1>8. CASE in_receiver[c] /\ ~ called[c]
  <2>1. /\ why' = "escape"
        /\ WindTo(w, escape[c], Escaped(c, escape[c]), "escape", s)
    BY <1>2, <1>8 DEF CallEscape
  <2>2. PICK t, ws : ws = escape[c] /\ t = Escaped(c, ws)
    OBVIOUS
  <2>3. PICK f : f = [at |-> "wind", kind |-> "escape", left |-> Protected(w) \ Protected(ws),
                      winders |-> ws, to |-> t]
    OBVIOUS
  <2>4. /\ f.at = "wind" /\ f.kind = "escape" /\ f.winders = ws /\ f.to = t
        /\ f.left \subseteq Protected(w)
    BY <2>3
  <2>5. frames' = <<f>> \o s
    BY <2>1, <2>2, <2>3 DEF WindTo
  <2>6. <<t, ws>> \in C /\ ReturnsTo(t)
    BY <1>3, <1>4, <2>2 DEF Reinstates
  <2>7. Leaves(C, f)
    BY <2>4, <2>6 DEF Leaves, ReturnsTo
  <2>8. \A u \in f.left : u \in Uwp /\ Has(w, "protect", u)
    BY <1>7, <2>4, ProtectedIs
  <2> QED BY <1>3, <1>4, <1>6, <2>1, <2>4, <2>5, <2>7, <2>8, WindOuter
<1>9. CASE ~ (in_receiver[c] /\ ~ called[c])
  <2>1. Raise(w, s)
    BY <1>2, <1>9 DEF CallEscape
  <2> QED BY <1>3, <1>4, <1>6, <1>7, <2>1, RaiseOuter
<1> QED BY <1>8, <1>9

LEMMA CallReinstatedShaped ==
  ASSUME PlainHandlers, PlainInv, NEW k \in Standard, CallReinstated(k)
  PROVE  Shaped'
<1>1. PICK C, P, R, O : Shape(C, P, R, O)
  BY DEF PlainInv, Shaped
<1>2. PICK s, w, t, ws : /\ s = frames /\ w = winders
                         /\ t = reinstated[k].frames /\ ws = reinstated[k].winders
  OBVIOUS
<1>3. /\ Runs("plain") /\ w = winders' /\ ~ Winds(frames)
      /\ frames # <<>> => Head(frames).at # "escaped"
      /\ WindTo(w, ws, t, "plain", s)
      /\ UNCHANGED <<why, terminated, escape, reinstated, used>>
  BY <1>2 DEF CallReinstated, Runs, Winds
<1>4. Reinstates(C) /\ Reinstates(C)'
  <2>1. Reinstates(C)
    BY <1>1 DEF Shape
  <2> QED BY <1>3, <2>1, ReinstatesKept
<1>5. frames = R /\ winders = O
  BY <1>1, <1>3, PlaceIs, InnerRuns
<1>6. StackSettled(s) /\ ListSettled(C, w) /\ AllSettled(C) /\ why = "no"
  BY <1>1, <1>2, <1>3, <1>5, CalmIs
<1>7. <<t, ws>> \in C
  BY <1>2, <1>4 DEF Reinstates, CallReinstated
<1>8. PICK f : f = [at |-> "wind", kind |-> "plain", left |-> Protected(w) \ Protected(ws),
                    winders |-> ws, to |-> t]
  OBVIOUS
<1>9. f.at = "wind" /\ f.kind = "plain" /\ f.winders = ws /\ f.to = t
  BY <1>8
<1>10. frames' = <<f>> \o s
  BY <1>3, <1>8 DEF WindTo
<1>11. Leaves(C, f)
  BY <1>7, <1>9 DEF Leaves
<1> QED BY <1>3, <1>4, <1>6, <1>9, <1>10, <1>11, WindOuter

LEMMA CallStandardShaped ==
  ASSUME PlainHandlers, PlainInv, NEW k \in Standard, CallStandard(k)
  PROVE  Shaped'
<1>1. PICK C, P, R, O : Shape(C, P, R, O)
  BY DEF PlainInv, Shaped
<1>2. PICK c : c = [winders |-> winders, frames |-> frames, valid |-> TRUE]
  OBVIOUS
<1>3. /\ Runs("plain") /\ ~ Winds(frames)
      /\ reinstated' = [reinstated EXCEPT ![k] = c]
      /\ UNCHANGED <<winders, frames, why, terminated, escape, used>>
  BY <1>2 DEF CallStandard, Runs, Winds
<1>4. c.frames = frames /\ c.winders = winders
  BY <1>2
<1>5. frames = R /\ winders = O
  BY <1>1, <1>3, PlaceIs, InnerRuns
<1>6. <<frames, winders>> \in C /\ Reinstates(C)
  BY <1>1, <1>3, <1>5, CalmIs
<1>7. ASSUME NEW j \in Standard, reinstated'[j].valid
      PROVE  <<reinstated'[j].frames, reinstated'[j].winders>> \in C
  <2>1. DOMAIN reinstated = Standard
    BY DEF PlainInv, UnwindInv, UnwindInvariant, UnwindTypes
  <2>2. CASE j = k
    <3>1. reinstated'[j] = c
      BY <1>3, <2>1, <2>2
    <3> QED BY <1>4, <1>6, <3>1
  <2>3. CASE j # k
    <3>1. reinstated'[j] = reinstated[j]
      BY <1>3, <2>1, <2>3
    <3> QED BY <1>6, <1>7, <3>1 DEF Reinstates
  <2> QED BY <2>2, <2>3
<1>8. Reinstates(C)'
  <2>1. \A d : Escaped(d, escape[d])' = Escaped(d, escape[d])
    BY <1>3 DEF Escaped, Frame
  <2> QED BY <1>3, <1>6, <1>7, <2>1 DEF Reinstates, ReturnsTo
<1>9. Shape(C, P, R, O)'
  BY <1>1, <1>3, <1>8 DEF Shape, Reason
<1> QED BY <1>9 DEF Shaped

\* A list that is a tail of another and is not the same is a tail of what
\* is below the innermost winder.
LEMMA ProperTail ==
  ASSUME NEW x, NEW w, IsList(x), IsList(w), IsTail(x, w), x # w
  PROVE  w # <<>> /\ Len(x) < Len(w) /\ IsTail(x, Tail(w))
<1>1. Len(x) \in Nat /\ Len(w) \in Nat /\ Len(x) <= Len(w) /\ x = LastOf(w, Len(x))
  BY LenProperties DEF IsList, IsTail
<1>2. Len(x) # Len(w)
  BY <1>1, TailsAre
<1>3. w # <<>> /\ Len(x) < Len(w)
  BY <1>1, <1>2
<1>4. Len(Tail(w)) = Len(w) - 1 /\ \A n \in 0 .. Len(w) - 1 : LastOf(Tail(w), n) = LastOf(w, n)
  BY <1>3, PoppedList, TailsAre
<1>5. Len(x) \in 0 .. Len(w) - 1 /\ Len(x) <= Len(Tail(w))
  BY <1>1, <1>3, <1>4
<1> QED BY <1>1, <1>3, <1>4, <1>5 DEF IsTail

\* The common tail of a list and of a tail of it.
LEMMA CommonTailOf ==
  ASSUME NEW w, NEW ws, IsList(w), IsList(ws)
  PROVE  /\ IsTail(CommonTail(w, ws), w) /\ IsTail(CommonTail(w, ws), ws)
         /\ ws = w => CommonTail(w, ws) = w
<1> DEFINE S == ToSet(w) \cup ToSet(ws)
<1>1. w \in Seq(S) /\ ws \in Seq(S) /\ Len(w) \in Nat
  BY SeqMonotonic, LenProperties DEF IsList
<1> HIDE DEF S
<1>2. PICK t : t = CommonTail(w, ws)
  OBVIOUS
<1>3. /\ t \in Seq(S) /\ IsTail(t, w) /\ IsTail(t, ws)
      /\ \A n \in 0 .. Len(ws) : IsTail(LastOf(ws, n), w) => n <= Len(t)
  BY <1>1, <1>2, CommonTailIs DEF CommonTail, winders_common_tail
<1>4. ASSUME ws = w PROVE t = w
  <2>1. LastOf(w, Len(w)) = w /\ IsTail(w, w)
    BY <1>1, TailsAre DEF IsTail
  <2>2. Len(w) \in 0 .. Len(ws)
    BY <1>1, <1>4
  <2>3. Len(w) <= Len(t)
    BY <1>3, <1>4, <2>1, <2>2
  <2>4. IsList(t) /\ Len(t) \in Nat
    BY <1>3, ListIs, LenProperties
  <2> QED BY <1>1, <1>3, <2>3, <2>4, ProperTail
<1> QED BY <1>2, <1>3, <1>4

LEMMA UnwindingShaped == ASSUME PlainInv, UnwindProtected \/ UnwindOther PROVE Shaped'
<1>1. PICK C, P, R, O : Shape(C, P, R, O)
  BY DEF PlainInv, Shaped
<1>2. PICK s, w, w2, u : s = frames /\ w = winders /\ w2 = Tail(winders) /\ u = Head(winders).id
  OBVIOUS
<1>3. /\ s # <<>> /\ Head(s).at = "wind" /\ w # CommonTail(w, Head(s).winders)
      /\ Winds(s) /\ Winds(frames)
      /\ UNCHANGED <<why, escape, reinstated, used>>
  BY <1>2 DEF UnwindProtected, UnwindOther, Unwinding, Winds
<1>4. \/ /\ Head(w).kind = "protect" /\ why # "no" /\ ~ terminated[u]
         /\ CallHandler(u, s, w2)
      \/ /\ winders' = w2 /\ frames' = s /\ terminated' = terminated
         /\ Head(w).kind = "protect" /\ why # "no" => terminated[u]
  BY <1>2 DEF UnwindProtected, UnwindOther
<1>5. Reinstates(C)'
  <2>1. Reinstates(C)
    BY <1>1 DEF Shape
  <2> QED BY <1>3, <2>1, ReinstatesKept
<1>6. PICK E : Places(E)
  BY DEF PlainInv, UnwindInv
<1>7. w # <<>> /\ IsList(w)
  BY <1>2, <1>6, UnwindingSome, HereFits DEF UnwindProtected, UnwindOther
<1>8. \A t : Has(w, "protect", t) <=>
               (Head(w).kind = "protect" /\ Head(w).id = t) \/ Has(w2, "protect", t)
  BY <1>2, <1>7, HasPopped
<1>9. terminated \in [Uwp -> BOOLEAN]
  BY DEF PlainInv, UnwindInv, UnwindInvariant, UnwindTypes
<1>10. CASE frames = R /\ winders = O
  <2>1. /\ Leaves(C, Head(s)) /\ StackSettled(Tail(s)) /\ ListSettled(C, w) /\ IsList(s)
        /\ AllSettled(C) /\ Reason(R, O)
    BY <1>1, <1>2, <1>3, <1>10, OuterWinds DEF Shape
  <2>2. ListSettled(C, w2)
    BY <1>2, <1>7, <2>1, SettledPopped
  <2>3. Outer(C, s, w2)
    BY <1>3, <2>1, <2>2 DEF Outer
  <2>4. ASSUME CallHandler(u, s, w2), Head(w).kind = "protect", why # "no" PROVE Shaped'
    <3>1. /\ terminated' = [terminated EXCEPT ![u] = TRUE]
          /\ frames' = <<Frame("handler", u)>> \o s
          /\ winders' = <<[kind |-> "handler", id |-> u, outside |-> s]>> \o w2
      BY <2>4 DEF CallHandler
    <3>2. Decisive(s)
      BY <1>2, <1>3, <1>10, <2>1, <2>4 DEF Reason
    <3>3. \A t \in Head(s).left : t \in Uwp /\ (terminated'[t] \/ Has(w2, "protect", t))
      BY <1>2, <1>8, <1>9, <1>10, <2>1, <3>1, <3>2 DEF Reason
    <3>4. Reason(s, w2)'
      BY <1>3, <2>4, <3>2, <3>3 DEF Reason
    <3> QED BY <1>5, <2>1, <2>3, <3>1, <3>4, HandlerStarts
  <2>5. ASSUME winders' = w2, frames' = s, terminated' = terminated,
               Head(w).kind = "protect" /\ why # "no" => terminated[u]
        PROVE  Shaped'
    <3>1. Decisive(s) =>
            /\ why # "no"
            /\ \A t \in Head(s).left : t \in Uwp /\ (terminated[t] \/ Has(w2, "protect", t))
      BY <1>2, <1>8, <1>10, <2>1, <2>5 DEF Reason
    <3>2. why # "no" => Decisive(s)
      BY <1>2, <1>3, <1>10, <2>1 DEF Reason
    <3>3. Reason(s, w2)'
      BY <1>3, <2>5, <3>1, <3>2 DEF Reason
    <3> QED BY <1>5, <2>1, <2>3, <2>5, <3>3, OuterKeeps
  <2> QED BY <1>4, <2>4, <2>5
<1>11. CASE Inner(P, R, O, frames, winders) /\ frames # R
  <2>1. IsList(R) /\ IsList(O) /\ AllInner(P, R, O) /\ <<R, O>> \in P
    BY <1>1, PlaceIs DEF Shape
  <2>2. PICK ws : ws = Head(s).winders
    OBVIOUS
  <2>3. /\ StackInner(R, s) /\ ListInner(P, O, w)
        /\ <<Head(s).to, ws>> \in P /\ IsTail(ws, w)
    BY <1>2, <1>3, <1>11, <2>2 DEF Inner
  <2>4. IsList(ws) /\ IsTail(O, ws) /\ Len(O) <= Len(ws)
    <3>1. ListInner(P, O, ws)
      BY <2>1, <2>3, InnerOuter DEF AllInner, Inner
    <3> QED BY <3>1 DEF ListInner, IsTail
  <2>5. ws # w
    BY <1>3, <1>7, <2>2, <2>4, CommonTailOf
  <2>6. IsTail(ws, w2) /\ Len(ws) < Len(w)
    BY <1>2, <1>7, <2>3, <2>4, <2>5, ProperTail
  <2>7. Len(O) < Len(w)
    <3>1. Len(O) \in Nat /\ Len(ws) \in Nat /\ Len(w) \in Nat
      BY <1>7, <2>1, <2>4, LenProperties DEF IsList
    <3> QED BY <2>4, <2>6, <3>1
  <2>8. ListInner(P, O, w2)
    BY <1>2, <2>1, <2>3, <2>7, InnerPopped
  <2>9. Inner(P, R, O, s, w2)
    BY <1>3, <2>2, <2>3, <2>6, <2>8 DEF Inner
  <2>10. ASSUME CallHandler(u, s, w2) PROVE Shaped'
    <3>1. /\ terminated' = [terminated EXCEPT ![u] = TRUE]
          /\ frames' = <<Frame("handler", u)>> \o s
          /\ winders' = <<[kind |-> "handler", id |-> u, outside |-> s]>> \o w2
      BY <2>10 DEF CallHandler
    <3> DEFINE Q == P \cup {<<s, w2>>}
    <3>2. AllInner(Q, R, O) /\ <<R, O>> \in Q /\ <<s, w2>> \in Q
      BY <2>1, <2>9, InnerAdded
    <3> HIDE DEF Q
    <3>3. Inner(Q, R, O, frames', winders')
      BY <2>1, <3>1, <3>2, HandlerInner
    <3>4. \A t \in Uwp : terminated[t] => terminated'[t]
      BY <1>9, <3>1
    <3> QED BY <1>1, <1>3, <1>5, <1>11, <3>2, <3>3, <3>4, InnerKeeps
  <2>11. ASSUME winders' = w2, frames' = s, terminated' = terminated PROVE Shaped'
    <3>1. Inner(P, R, O, frames', winders')
      BY <2>9, <2>11
    <3> QED BY <1>1, <1>3, <1>5, <1>11, <2>1, <2>11, <3>1, InnerKeeps
  <2> QED BY <1>4, <2>10, <2>11
<1> QED BY <1>1, <1>10, <1>11, PlaceIs

LEMMA ArriveShaped == ASSUME PlainInv, UnwindInv', Arrive PROVE Shaped'
<1>1. PICK C, P, R, O : Shape(C, P, R, O)
  BY DEF PlainInv, Shaped
<1>2. PICK f, s, w : f = Head(frames) /\ s = frames /\ w = winders
  OBVIOUS
<1>3. PICK ws : ws = f.winders
  OBVIOUS
<1>4. PICK i \in 0 .. Len(ws) :
        /\ StopsAt(ws, i)
        /\ winders' = Below(ws, i)
        /\ IF i = 0 THEN frames' = f.to /\ why' = IF f.kind = "exception" THEN ReasonAfter ELSE why
           ELSE Raise(winders', Tail(frames))
  BY <1>2, <1>3 DEF Arrive
<1>5. /\ frames # <<>> /\ f.at = "wind" /\ Winds(s) /\ Winds(frames)
      /\ w = CommonTail(w, ws)
      /\ UNCHANGED <<terminated, escape, reinstated, used>>
  BY <1>2, <1>3 DEF Arrive, Unwinding, Winds
<1>6. Reinstates(C)'
  <2>1. Reinstates(C)
    BY <1>1 DEF Shape
  <2> QED BY <1>5, <2>1, ReinstatesKept
<1>7. CASE frames = R /\ winders = O
  <2>1. /\ Leaves(C, f) /\ StackSettled(Tail(s)) /\ AllSettled(C) /\ Reason(R, O)
    BY <1>1, <1>2, <1>5, <1>7, OuterWinds DEF Shape
  <2>2. <<f.to, ws>> \in C /\ StackSettled(f.to) /\ ListSettled(C, ws)
    BY <1>3, <2>1 DEF Leaves, AllSettled
  <2>3. IsList(ws) /\ Len(ws) \in Nat
    BY <2>2, LenProperties DEF ListSettled, IsList
  <2>4. Below(ws, i) = LastOf(ws, Len(ws) - i) /\ Len(ws) - i \in 0 .. Len(ws)
    BY <2>3, TailsAre
  <2>5. CASE i = 0
    <3>1. Below(ws, i) = ws
      BY <2>3, <2>4, <2>5, TailsAre
    <3>2. PICK t : t = f.to
      OBVIOUS
    <3>3. frames' = t /\ winders' = ws /\ why' = IF f.kind = "exception" THEN "no" ELSE why
      BY <1>4, <2>5, <3>1, <3>2 DEF ReasonAfter
    <3>4. ~ Decisive(t)
      BY <2>2, <3>2, StackPopped DEF Decisive, Winds
    <3>5. f.kind = "plain" => why = "no"
      BY <1>2, <1>5, <1>7, <2>1 DEF Reason, Decisive
    <3>6. f.kind \in {"escape", "exception", "plain"}
      BY <2>1 DEF Leaves
    <3>7. f.kind = "escape" => t # <<>> /\ Head(t).at = "escaped"
      BY <2>1, <3>2 DEF Leaves
    <3>8. Reason(t, ws)'
      BY <3>3, <3>4, <3>5, <3>6, <3>7 DEF Reason
    <3>9. Outer(C, t, ws)
      BY <2>2, <3>2 DEF Outer
    <3> QED BY <1>6, <2>1, <3>3, <3>8, <3>9, OuterKeeps
  <2>6. CASE i # 0
    <3>1. PICK v : v = Below(ws, i)
      OBVIOUS
    <3>2. v = winders' /\ Raise(v, Tail(s))
      BY <1>2, <1>4, <2>6, <3>1
    <3>3. ListSettled(C, v)
      BY <2>2, <2>4, <3>1, SettledLast
    <3>4. \A u : Has(v, "protect", u) => u \in Uwp
      <4>1. ASSUME NEW u, Has(v, "protect", u) PROVE u \in Uwp
        <5>1. PICK E : Places(E)'
          BY DEF UnwindInv
        <5>2. PlaceFits(E, used, frames', v)
          BY <1>5, <3>2, <5>1 DEF Places, AllFit
        <5> QED BY <4>1, <5>2, HadFits DEF PlaceFits
      <4> QED BY <4>1
    <3> QED BY <1>6, <2>1, <3>2, <3>3, <3>4, RaiseOuter
  <2> QED BY <2>5, <2>6
<1>8. CASE Inner(P, R, O, frames, winders) /\ frames # R
  <2>1. IsList(R) /\ IsList(O) /\ AllInner(P, R, O) /\ <<R, O>> \in P
    BY <1>1, PlaceIs DEF Shape
  <2>2. /\ StackInner(R, s) /\ ListInner(P, O, w)
        /\ <<f.to, ws>> \in P /\ IsTail(ws, w)
    BY <1>2, <1>3, <1>5, <1>8 DEF Inner
  <2>3. IsList(ws) /\ IsList(w)
    <3>1. ListInner(P, O, ws)
      BY <2>1, <2>2, InnerOuter DEF AllInner, Inner
    <3> QED BY <2>2, <3>1 DEF ListInner
  <2>4. IsTail(w, ws)
    BY <1>5, <2>3, CommonTailOf
  <2>5. Len(w) \in Nat /\ Len(ws) \in Nat /\ Len(w) = Len(ws)
    BY <2>2, <2>3, <2>4, LenProperties DEF IsList, IsTail
  <2>6. i = 0
    <3>1. i = 0 \/ i <= Len(ws) - Len(winders)
      BY <1>4 DEF StopsAt, Refusing
    <3> QED BY <1>2, <2>5, <3>1
  <2>7. winders' = ws
    BY <1>4, <2>3, <2>5, <2>6, TailsAre
  <2>8. f.kind = "discarded"
    <3>1. /\ IsList(s) /\ s # <<>> /\ Len(R) \in Nat /\ Len(s) \in Nat /\ Len(R) < Len(s)
      BY <1>2, <1>5, <2>1, <2>2, LenProperties DEF StackInner, IsList
    <3>2. Len(s) \in Len(R) + 1 .. Len(s) /\ AtDepth(s, Len(s)) = f
      BY <1>2, <3>1, PoppedList
    <3> QED BY <1>5, <2>2, <3>2 DEF StackInner
  <2>9. frames' = f.to /\ why' = why
    BY <1>4, <2>6, <2>8
  <2>10. <<frames', winders'>> \in P
    BY <2>2, <2>7, <2>9
  <2> QED BY <1>1, <1>5, <1>6, <1>8, <2>1, <2>9, <2>10, InnerKeeps
<1> QED BY <1>1, <1>7, <1>8, PlaceIs

LEMMA InitShaped == UnwindInit => PlainInv
<1> SUFFICES ASSUME UnwindInit PROVE Shaped
  BY UnwindInitHolds DEF PlainInv
<1>1. PICK C : C = {<<<<>>, <<>>>>}
  OBVIOUS
<1>2. AllSettled(C)
  <2>1. StackSettled(<<>>) /\ ListSettled(C, <<>>)
    BY NoneIsList DEF StackSettled, ListSettled
  <2> QED BY <1>1, <2>1 DEF AllSettled
<1>3. Reinstates(C)
  BY DEF UnwindInit, Reinstates, NotCaptured
<1>4. AllInner(C, <<>>, <<>>)
  BY <1>1 DEF AllInner
<1>5. Outer(C, <<>>, <<>>) /\ Reason(<<>>, <<>>)
  BY <1>1 DEF Outer, Reason, Decisive, Winds, UnwindInit
<1>6. Shape(C, C, <<>>, <<>>)
  BY <1>1, <1>2, <1>3, <1>4, <1>5 DEF Shape, UnwindInit
<1> QED BY <1>6 DEF Shaped

LEMMA PlainInvKept ==
  ASSUME UnwindAssumptions, PlainHandlers, PlainInv, [UnwindNext]_unwindVars
  PROVE  PlainInv'
<1>1. UnwindInv'
  BY UnwindInvKept DEF PlainInv
<1> SUFFICES Shaped'
  BY <1>1 DEF PlainInv
<1>2. ASSUME NEW u \in Uwp, Protect(u) PROVE Shaped'
  <2>1. /\ Enter("protect", "thunk", u) /\ u \notin Ucc
        /\ frames # <<>> => Head(frames).at \notin {"wind", "escaped"}
        /\ UNCHANGED <<why, terminated, escape, reinstated>>
    BY <1>2 DEF Protect, Runs, UnwindAssumptions
  <2> QED BY <2>1, EnterShaped
<1>3. ASSUME NEW c \in Ucc, UnwindingCallCC(c) PROVE Shaped'
  <2>1. /\ Enter("receiver", "receiver", c)
        /\ frames # <<>> => Head(frames).at \notin {"wind", "escaped"}
        /\ escape' = [escape EXCEPT ![c] = winders']
        /\ ~ InHandler
        /\ UNCHANGED <<why, terminated, reinstated>>
    BY <1>3 DEF UnwindingCallCC, Runs, PlainHandlers
  <2> QED BY <2>1, EnterShaped
<1>4. ASSUME NEW g \in Guard, EnterGuard(g) PROVE Shaped'
  <2>1. /\ Enter("guard", "guarded", g) /\ g \notin Ucc
        /\ frames # <<>> => Head(frames).at \notin {"wind", "escaped"}
        /\ ~ InHandler
        /\ UNCHANGED <<why, terminated, escape, reinstated>>
    BY <1>4 DEF EnterGuard, Runs, UnwindAssumptions, PlainHandlers
  <2> QED BY <2>1, EnterShaped
<1>5. CASE ThunkReturns
  BY <1>5, ThunkReturnsShaped
<1>6. CASE HandlerReturns \/ GuardReturns \/ ReceiverReturns
  BY <1>6, ReturnShaped
<1>7. CASE RaiseException
  BY <1>7, RaiseExceptionShaped
<1>8. CASE UnwindProtected \/ UnwindOther
  BY <1>8, UnwindingShaped
<1>9. CASE Arrive
  BY <1>1, <1>9, ArriveShaped
<1>10. CASE \E c \in Ucc : CallEscape(c)
  BY <1>10, CallEscapeShaped
<1>11. CASE \E k \in Standard : CallStandard(k) \/ CallReinstated(k)
  BY <1>11, CallStandardShaped, CallReinstatedShaped
<1>12. CASE UNCHANGED unwindVars
  <2>1. PICK C, P, R, O : Shape(C, P, R, O)
    BY DEF PlainInv, Shaped
  <2>2. Reinstates(C) /\ UNCHANGED <<winders, frames, why, terminated, escape, reinstated, used>>
    BY <1>12, <2>1 DEF Shape, unwindVars
  <2>3. Reinstates(C)'
    BY <2>2, ReinstatesKept
  <2>4. Shape(C, P, R, O)'
    BY <2>1, <2>2, <2>3 DEF Shape, Reason
  <2> QED BY <2>4 DEF Shaped
<1> QED
  BY <1>2, <1>3, <1>4, <1>5, <1>6, <1>7, <1>8, <1>9, <1>10, <1>11, <1>12 DEF UnwindNext, PlainInv

LEMMA PlainHolds == ASSUME UnwindAssumptions, PlainHandlers PROVE UnwindSpec => []PlainInv
<1>1. UnwindInit => PlainInv
  BY InitShaped
<1>2. PlainInv /\ [UnwindNext]_unwindVars => PlainInv'
  BY PlainInvKept
<1> QED BY <1>1, <1>2, PTL DEF UnwindSpec

\* An escape that is under way and asks for the cleanups is on top of what is
\* outside of the handlers, if it is not the exception in one of them.
LEMMA EscapeIsOuter ==
  ASSUME NEW C, NEW P, NEW R, NEW O, Shape(C, P, R, O), NEW i \in DOMAIN frames,
         frames[i].at = "wind", frames[i].kind # "discarded"
  PROVE  Winds(R) /\ frames[i] = Head(R) /\ (frames # R => i # 1)
<1>1. PICK s : s = frames
  OBVIOUS
<1>2. IsList(R) /\ IsList(s) /\ (frames = R \/ StackInner(R, s))
  BY <1>1, PlaceIs DEF Inner, StackInner
<1>3. Len(R) \in Nat /\ Len(s) \in Nat /\ i \in 1 .. Len(s)
  BY <1>1, <1>2, LenProperties DEF IsList
<1>4. PICK d : d = Len(s) - i + 1
  OBVIOUS
<1>5. d \in 1 .. Len(s) /\ AtDepth(s, d) = s[i]
  BY <1>1, <1>2, <1>4, PositionDepth
<1>6. d \in 1 .. Len(R) /\ AtDepth(R, d) = s[i] /\ (frames # R => i # 1)
  <2>1. CASE frames = R
    BY <1>1, <1>5, <2>1
  <2>2. CASE frames # R
    <3>1. StackInner(R, s)
      BY <1>2, <2>2
    <3>2. ~ d \in Len(R) + 1 .. Len(s)
      BY <1>1, <1>5, <3>1 DEF StackInner
    <3>3. d \in 1 .. Len(R) /\ Len(R) < Len(s) /\ Len(R) \in 0 .. Len(s)
      BY <1>3, <1>5, <3>1, <3>2 DEF StackInner
    <3>4. AtDepth(R, d) = AtDepth(s, d)
      BY <1>2, <3>1, <3>3, LastOfList DEF StackInner, IsTail
    <3> QED BY <1>3, <1>4, <1>5, <3>3, <3>4
  <2> QED BY <2>1, <2>2
<1>7. AllSettled(C) /\ Outer(C, R, O)
  BY DEF Shape
<1>8. Winds(R)
  <2>1. ASSUME ~ Winds(R) PROVE FALSE
    <3>1. StackSettled(R)
      BY <1>7, <2>1, OuterSettled
    <3> QED BY <1>1, <1>6, <3>1 DEF StackSettled
  <2> QED BY <2>1
<1>9. StackSettled(Tail(R)) /\ R # <<>>
  BY <1>7, <1>8, OuterWinds DEF Winds
<1>10. /\ Len(Tail(R)) = Len(R) - 1 /\ AtDepth(R, Len(R)) = Head(R)
       /\ \A e \in 1 .. Len(R) - 1 : AtDepth(Tail(R), e) = AtDepth(R, e)
  BY <1>2, <1>9, PoppedList
<1>11. d = Len(R)
  <2>1. ASSUME d # Len(R) PROVE FALSE
    <3>1. d \in 1 .. Len(R) - 1
      BY <1>3, <1>6, <2>1
    <3>2. AtDepth(Tail(R), d).at # "wind"
      BY <1>9, <1>10, <3>1 DEF StackSettled
    <3> QED BY <1>1, <1>6, <1>10, <3>1, <3>2
  <2> QED BY <2>1
<1> QED BY <1>1, <1>6, <1>8, <1>10, <1>11

\* An unwinding escape, or a guard that takes an exception, has called the
\* unwind handlers of the thunks that it has left so far.
THEOREM AllAreCalled ==
  UnwindAssumptions /\ PlainHandlers => (UnwindSpec => []AllHandlersCalled)
<1> SUFFICES ASSUME UnwindAssumptions, PlainHandlers PROVE UnwindSpec => []AllHandlersCalled
  OBVIOUS
<1>1. UnwindSpec => []PlainInv
  BY PlainHolds
<1>2. ASSUME PlainInv PROVE AllHandlersCalled
  <2>1. PICK C, P, R, O : Shape(C, P, R, O)
    BY <1>2 DEF PlainInv, Shaped
  <2>2. ASSUME NEW i \in DOMAIN frames, frames[i].at = "wind",
               frames[i].kind \in {"escape", "exception"}, NEW u \in frames[i].left
        PROVE  terminated[u] \/ u \in Protected(winders)
    <3>1. frames[i].kind # "discarded"
      BY <2>2
    <3>2. Winds(R) /\ frames[i] = Head(R)
      BY <2>1, <2>2, <3>1, EscapeIsOuter
    <3>3. Decisive(R)
      BY <2>2, <3>2 DEF Decisive
    <3>4. terminated[u] \/ Has(O, "protect", u)
      BY <2>1, <2>2, <3>2, <3>3 DEF Shape, Reason
    <3>5. Has(O, "protect", u) => Has(winders, "protect", u)
      <4>1. PICK w : w = winders
        OBVIOUS
      <4>2. ASSUME ListInner(P, O, w), IsList(O), Has(O, "protect", u) PROVE Has(w, "protect", u)
        <5>1. /\ IsList(w) /\ Len(O) \in Nat /\ Len(w) \in Nat
              /\ Len(O) <= Len(w) /\ O = LastOf(w, Len(O))
          BY <4>2, LenProperties DEF ListInner, IsTail, IsList
        <5>2. PICK d \in 1 .. Len(O) : AtDepth(O, d).kind = "protect" /\ AtDepth(O, d).id = u
          BY <4>2, HasDepth
        <5>3. Len(O) \in 0 .. Len(w) /\ d \in 1 .. Len(w)
          BY <5>1
        <5>4. AtDepth(O, d) = AtDepth(w, d)
          BY <5>1, <5>3, LastOfList
        <5> QED BY <5>1, <5>2, <5>3, <5>4, HasDepth
      <4> QED BY <2>1, <4>1, <4>2, PlaceIs DEF Inner
    <3> QED BY <3>4, <3>5, ProtectedIs
  <2> QED BY <2>2 DEF AllHandlersCalled
<1> QED BY <1>1, <1>2, PTL

\* An escape with the standard call/cc calls no unwind handler.
THEOREM PlainCallsNone ==
  UnwindAssumptions /\ PlainHandlers => (UnwindSpec => PlainEscapeCallsNone)
<1> SUFFICES ASSUME UnwindAssumptions, PlainHandlers PROVE UnwindSpec => PlainEscapeCallsNone
  OBVIOUS
<1>1. UnwindSpec => []PlainInv
  BY PlainHolds
<1>2. ASSUME PlainInv, [UnwindNext]_unwindVars, Unwinding, Head(frames).kind = "plain"
      PROVE  calls' = calls
  <2>1. PICK C, P, R, O : Shape(C, P, R, O)
    BY <1>2 DEF PlainInv, Shaped
  <2>2. PICK s : s = frames
    OBVIOUS
  <2>3. s # <<>> /\ Head(s).at = "wind" /\ Head(s).kind = "plain"
    BY <1>2, <2>2 DEF Unwinding
  <2>4. IsList(s)
    BY <2>1, <2>2, PlaceIs DEF Inner, StackInner
  <2>5. 1 \in DOMAIN s /\ s[1] = Head(s)
    BY <2>3, <2>4, PoppedList, LenProperties DEF IsList
  <2>6. Winds(R) /\ s[1] = Head(R) /\ frames = R
    BY <2>1, <2>2, <2>3, <2>5, EscapeIsOuter
  <2>7. ~ Decisive(R) /\ Head(R).at # "escaped"
    BY <2>3, <2>5, <2>6 DEF Decisive
  <2>8. why = "no"
    BY <2>1, <2>7 DEF Shape, Reason
  <2>9. CASE ThunkReturns
    BY <2>2, <2>3, <2>9 DEF ThunkReturns
  <2>10. CASE UnwindProtected
    BY <2>8, <2>10 DEF UnwindProtected
  <2> QED BY <1>2, <2>9, <2>10
      DEF UnwindNext, unwindVars, Protect, HandlerReturns, RaiseException, UnwindOther, Arrive,
          UnwindingCallCC, CallEscape, ReceiverReturns, EnterGuard, GuardReturns,
          CallStandard, CallReinstated
<1> QED BY <1>1, <1>2, PTL DEF UnwindSpec, PlainEscapeCallsNone

=============================================================================
