------------------------- MODULE Continuations_proofs -------------------------
(***************************************************************************)
(* What holds of the Scheme stack for any segment, functions, continuation *)
(* objects and callouts.                                                   *)
(*                                                                         *)
(*   ContinuationsHold   StackInvariant                                    *)
(***************************************************************************)
EXTENDS Continuations, SequenceTheorems, FiniteSetTheorems, TLAPS

-----------------------------------------------------------------------------
(* The inductive invariant.                                                *)

\* The words of M after LO and up to HI are those of whole frames: B are the
\* positions where one ends.
Whole(m, lo, hi) ==
  /\ lo <= hi
  /\ \A p \in lo + 1 .. hi : m[p] \in Functions
  /\ \E B \in SUBSET (lo .. hi) :
       hi \in B /\ \A b \in B : b # lo => b - FrameWords[m[b]] \in B

KontTypes ==
  kont \in [KontIds -> [moved : Seq(Functions), top : Nat, size : Nat,
                        next : KontIds \cup {NoKont}, c : Nat]]

\* The object X has whole frames, in the heap or above the base of the segment M.
KontHolds(m, b, x) ==
  x.c = 0 =>
    /\ x.size > 0
    /\ IF x.moved = <<>> THEN /\ x.size <= x.top /\ x.top <= b
                              /\ Whole(m, x.top - x.size, x.top)
                         ELSE Len(x.moved) = x.size /\ Whole(x.moved, 0, x.size)

\* What is referred to is in use.
Refers(k) == k \in Konts \cup {NoKont}

KontInv ==
  /\ KontTypes
  /\ \A k \in Konts : Refers(kont[k].next) /\ KontHolds(mem, base, kont[k])
  /\ Refers(nextK)
  /\ esc \in [Slots -> KontIds \cup {NoKont, NoStack}]
  /\ \A s \in Slots : esc[s] # NoStack => Refers(esc[s])

SegmentInv ==
  /\ mem \in [1 .. SegmentSize -> Functions \cup {"free", "handler"}]
  /\ base \in Nat /\ fp \in Nat /\ base + 1 <= fp /\ fp <= SegmentSize
  /\ Whole(mem, base + 1, fp)
  /\ mode \in {"entry", "entered", "running", "returning", "c", "done"}
  /\ mode # "entry" => fp <= Redline + 1
  /\ mode = "entered" => fp <= Redline
  /\ mode \in {"returning", "c", "done"} => fp = base + 1

\* The callouts are numbered in the order in which they were made; execution
\* returns to those that have not returned, to the last one first.
CalloutInv ==
  /\ callouts \in Nat /\ cstack \in Seq(Nat \ {0})
  /\ \A i, j \in 1 .. Len(cstack) : i < j => cstack[i] < cstack[j]
  /\ \A i \in 1 .. Len(cstack) : cstack[i] <= callouts
  /\ \A k \in KontIds : kont[k].c <= callouts
  /\ \A k \in KontIds : kont[k].c > 0 => \A n \in Systems(kont[k].next) : n < kont[k].c
  /\ Systems(nextK) = ToSet(cstack)
  /\ mode = "c" => cstack # <<>> /\ IsSystem(nextK)

ContInv == KontInv /\ SegmentInv /\ CalloutInv

-----------------------------------------------------------------------------
(* Whole frames.                                                           *)

FrameSizes == FrameWords \in [Functions -> Nat \ {0}]

LEMMA WholeFrom ==
  ASSUME NEW m, NEW lo \in Nat, NEW hi \in Nat, lo <= hi,
         \A p \in lo + 1 .. hi : m[p] \in Functions,
         NEW B, \A b \in B : b \in lo .. hi, hi \in B,
         \A b \in B : b # lo => b - FrameWords[m[b]] \in B
  PROVE  Whole(m, lo, hi)
<1>1. B \in SUBSET (lo .. hi)
  OBVIOUS
<1>2. \E C \in SUBSET (lo .. hi) :
        hi \in C /\ \A b \in C : b # lo => b - FrameWords[m[b]] \in C
  BY <1>1
<1> QED BY <1>2 DEF Whole

LEMMA WholeKept ==
  ASSUME NEW m, NEW n, NEW lo \in Nat, NEW hi \in Nat, Whole(m, lo, hi),
         \A p \in lo + 1 .. hi : n[p] = m[p]
  PROVE  Whole(n, lo, hi)
<1>1. PICK B \in SUBSET (lo .. hi) :
        hi \in B /\ \A b \in B : b # lo => b - FrameWords[m[b]] \in B
  BY DEF Whole
<1>2. \A b \in B : b # lo => b \in lo + 1 .. hi
  OBVIOUS
<1>3. \A b \in B : b # lo => b - FrameWords[n[b]] \in B
  BY <1>1, <1>2
<1>4. lo <= hi /\ \A p \in lo + 1 .. hi : n[p] \in Functions
  BY DEF Whole
<1> QED BY <1>1, <1>3, <1>4, WholeFrom

\* A copy of whole frames.
LEMMA CopiedWhole ==
  ASSUME NEW m, NEW lo \in Nat, NEW hi \in Nat, Whole(m, lo, hi), FrameSizes
  PROVE  /\ SubSeq(m, lo + 1, hi) \in Seq(Functions)
         /\ Len(SubSeq(m, lo + 1, hi)) = hi - lo
         /\ \A i \in 1 .. hi - lo : SubSeq(m, lo + 1, hi)[i] = m[lo + i]
         /\ Whole(SubSeq(m, lo + 1, hi), 0, hi - lo)
<1> DEFINE n == SubSeq(m, lo + 1, hi)
<1>1. lo <= hi /\ \A p \in lo + 1 .. hi : m[p] \in Functions
  BY DEF Whole
<1>2. /\ n \in Seq(Functions)
      /\ Len(n) = IF lo + 1 <= hi THEN hi - (lo + 1) + 1 ELSE 0
      /\ \A i \in 1 .. hi - (lo + 1) + 1 : n[i] = m[lo + 1 + i - 1]
  BY <1>1, SubSeqProperties
<1> HIDE DEF n
<1>3. Len(n) = hi - lo /\ hi - lo \in Nat /\ \A i \in 1 .. hi - lo : n[i] = m[lo + i]
  BY <1>1, <1>2
<1>4. PICK B \in SUBSET (lo .. hi) :
        hi \in B /\ \A b \in B : b # lo => b - FrameWords[m[b]] \in B
  BY DEF Whole
<1>5. PICK C : C = {b - lo : b \in B}
  OBVIOUS
<1>6. C \in SUBSET (0 .. hi - lo) /\ hi - lo \in C
  BY <1>1, <1>4, <1>5
<1>7. ASSUME NEW c \in C, c # 0 PROVE c - FrameWords[n[c]] \in C
  <2>1. PICK b \in B : c = b - lo
    BY <1>5
  <2>2. b # lo /\ b \in lo + 1 .. hi /\ c \in 1 .. hi - lo /\ lo + c = b
    BY <1>7, <2>1
  <2>3. n[c] = m[b] /\ b - FrameWords[m[b]] \in B /\ m[b] \in Functions
    BY <1>1, <1>3, <1>4, <2>2
  <2>4. PICK d \in B : d = b - FrameWords[m[b]]
    BY <2>3
  <2>5. FrameWords[m[b]] \in Nat
    BY <2>3 DEF FrameSizes
  <2>6. c - FrameWords[n[c]] = d - lo
    BY <2>1, <2>2, <2>3, <2>4, <2>5
  <2> QED BY <1>5, <2>4, <2>6
<1>8. \A p \in 0 + 1 .. hi - lo : n[p] \in Functions
  <2>1. ASSUME NEW p \in 0 + 1 .. hi - lo PROVE n[p] \in Functions
    <3>1. p \in 1 .. hi - lo /\ lo + p \in lo + 1 .. hi
      OBVIOUS
    <3> QED BY <1>1, <1>3, <3>1
  <2> QED BY <2>1
<1>9. Whole(n, 0, hi - lo)
  <2>1. PICK q : q = hi - lo
    OBVIOUS
  <2>2. q \in Nat /\ 0 <= q /\ q \in C /\ \A c \in C : c \in 0 .. q
    BY <1>3, <1>6, <2>1
  <2>3. \A p \in 0 + 1 .. q : n[p] \in Functions
    BY <1>8, <2>1
  <2> QED BY <1>7, <2>1, <2>2, <2>3, WholeFrom
<1> QED BY <1>2, <1>3, <1>9 DEF n

\* The topmost frame and those below it.
LEMMA TopWhole ==
  ASSUME NEW m, NEW lo \in Nat, NEW hi \in Nat, Whole(m, lo, hi), lo < hi, FrameSizes
  PROVE  /\ m[hi] \in Functions /\ FrameWords[m[hi]] \in 1 .. hi - lo
         /\ hi - FrameWords[m[hi]] \in lo .. hi - 1
         /\ Whole(m, lo, hi - FrameWords[m[hi]])
         /\ Whole(m, hi - FrameWords[m[hi]], hi)
<1>1. m[hi] \in Functions
  BY DEF Whole
<1>2. PICK B \in SUBSET (lo .. hi) :
        hi \in B /\ \A b \in B : b # lo => b - FrameWords[m[b]] \in B
  BY DEF Whole
<1>3. PICK h : h = hi - FrameWords[m[hi]]
  OBVIOUS
<1>4. FrameWords[m[hi]] \in Nat \ {0}
  BY <1>1 DEF FrameSizes
<1>5. h \in B
  BY <1>2, <1>3
<1>6. h \in lo .. hi - 1 /\ h \in Nat
  BY <1>3, <1>4, <1>5
<1>7. Whole(m, lo, h)
  <2>1. PICK C : C = {b \in B : b <= h}
    OBVIOUS
  <2>2. (\A b \in C : b \in lo .. h) /\ h \in C
    BY <1>5, <1>6, <2>1
  <2>3. ASSUME NEW b \in C, b # lo PROVE b - FrameWords[m[b]] \in C
    <3>1. b - FrameWords[m[b]] \in B /\ b \in lo + 1 .. hi /\ b <= h
      BY <1>2, <1>6, <2>1, <2>3
    <3>2. m[b] \in Functions
      BY <3>1 DEF Whole
    <3>3. FrameWords[m[b]] \in Nat
      BY <3>2 DEF FrameSizes
    <3> QED BY <1>6, <2>1, <3>1, <3>3
  <2>4. \A p \in lo + 1 .. h : m[p] \in Functions
    BY <1>6 DEF Whole
  <2>5. lo <= h
    BY <1>6
  <2> QED BY <1>6, <2>2, <2>3, <2>4, <2>5, WholeFrom
<1>8. Whole(m, h, hi)
  <2>1. (\A b \in {h, hi} : b \in h .. hi) /\ hi \in {h, hi}
    BY <1>6
  <2>2. \A b \in {h, hi} : b # h => b - FrameWords[m[b]] \in {h, hi}
    BY <1>3
  <2>3. \A p \in h + 1 .. hi : m[p] \in Functions
    BY <1>6 DEF Whole
  <2>4. h <= hi
    BY <1>6
  <2> QED BY <1>6, <2>1, <2>2, <2>3, <2>4, WholeFrom
<1> QED BY <1>1, <1>3, <1>4, <1>6, <1>7, <1>8

\* A frame of F on top.
LEMMA PushedWhole ==
  ASSUME NEW m, NEW lo \in Nat, NEW hi \in Nat, Whole(m, lo, hi), FrameSizes,
         NEW f \in Functions, NEW n, NEW top, top = hi + FrameWords[f],
         \A p \in lo + 1 .. hi : n[p] = m[p], \A p \in hi + 1 .. top : n[p] = f
  PROVE  Whole(n, lo, top)
<1>1. FrameWords[f] \in Nat \ {0}
  BY DEF FrameSizes
<1>2. top \in Nat /\ hi < top /\ lo <= hi
  BY <1>1 DEF Whole
<1>3. PICK B \in SUBSET (lo .. hi) :
        hi \in B /\ \A b \in B : b # lo => b - FrameWords[m[b]] \in B
  BY DEF Whole
<1>4. (\A b \in B \cup {top} : b \in lo .. top) /\ top \in B \cup {top} /\ lo <= top
  BY <1>2
<1>5. ASSUME NEW b \in B \cup {top}, b # lo PROVE b - FrameWords[n[b]] \in B \cup {top}
  <2>1. CASE b \in B
    <3>1. b \in lo + 1 .. hi
      BY <1>5, <2>1
    <3> QED BY <1>3, <1>5, <2>1, <3>1
  <2>2. CASE b \notin B
    <3>1. b = top /\ top \in hi + 1 .. top
      BY <1>2, <1>5, <2>2
    <3>2. b - FrameWords[n[b]] = hi
      BY <1>1, <3>1
    <3> QED BY <1>3, <3>2
  <2> QED BY <2>1, <2>2
<1>6. ASSUME NEW p \in lo + 1 .. top PROVE n[p] \in Functions
  <2>1. p \in lo + 1 .. hi \/ p \in hi + 1 .. top
    BY <1>2
  <2> QED BY <2>1 DEF Whole
<1> QED BY <1>2, <1>4, <1>5, <1>6, WholeFrom

\* No frame.
LEMMA NoneWhole == ASSUME NEW m, NEW lo \in Nat PROVE Whole(m, lo, lo)
<1>1. lo <= lo /\ lo \in {lo} /\ \A b \in {lo} : b \in lo .. lo
  OBVIOUS
<1>2. \A b \in {lo} : b # lo => b - FrameWords[m[b]] \in {lo}
  OBVIOUS
<1>3. \A p \in lo + 1 .. lo : m[p] \in Functions
  OBVIOUS
<1> QED BY <1>1, <1>2, <1>3, WholeFrom

-----------------------------------------------------------------------------
(* What continuations lead to; T and U are tables of continuation objects. *)

ClosedIn(t, S) == \A j \in S : t[j].next \in S \cup {NoKont}

ChainIn(t, k) ==
  {j \in KontIds : \A S \in SUBSET KontIds :
                     k \in S \cup {NoKont} /\ ClosedIn(t, S) => j \in S}

SystemsIn(t, k) == {t[j].c : j \in ChainIn(t, k)} \ {0}

NextsIn(t) == \A j \in KontIds : t[j].next \in KontIds \cup {NoKont}

LEMMA ChainsAre ==
  ASSUME NEW k
  PROVE  Chain(k) = ChainIn(kont, k) /\ Systems(k) = SystemsIn(kont, k)
BY DEF Chain, ChainIn, Closed, ClosedIn, Systems, SystemsIn

LEMMA ChainLeast ==
  ASSUME NEW t, NEW k, NEW S, S \subseteq KontIds, k \in S \cup {NoKont}, ClosedIn(t, S)
  PROVE  ChainIn(t, k) \subseteq S
<1>1. S \in SUBSET KontIds
  OBVIOUS
<1> QED BY <1>1 DEF ChainIn

LEMMA ChainHas ==
  ASSUME NEW t, NextsIn(t), NEW k \in KontIds \cup {NoKont}
  PROVE  /\ ChainIn(t, k) \subseteq KontIds /\ ClosedIn(t, ChainIn(t, k))
         /\ k # NoKont => k \in ChainIn(t, k)
<1>1. ASSUME NEW j \in ChainIn(t, k), t[j].next # NoKont PROVE t[j].next \in ChainIn(t, k)
  <2>1. j \in KontIds /\ t[j].next \in KontIds
    BY <1>1 DEF ChainIn, NextsIn
  <2>2. ASSUME NEW S \in SUBSET KontIds, k \in S \cup {NoKont}, ClosedIn(t, S)
        PROVE  t[j].next \in S
    <3>1. j \in S
      BY <2>2 DEF ChainIn
    <3> QED BY <1>1, <2>2, <3>1 DEF ClosedIn
  <2> QED BY <2>1, <2>2 DEF ChainIn
<1> QED BY <1>1 DEF ChainIn, ClosedIn

LEMMA ChainNext ==
  ASSUME NEW t, NextsIn(t), NEW k \in KontIds, NoKont \notin KontIds
  PROVE  /\ ChainIn(t, k) = {k} \cup ChainIn(t, t[k].next)
         /\ SystemsIn(t, k) = ({t[k].c} \ {0}) \cup SystemsIn(t, t[k].next)
         /\ ChainIn(t, NoKont) = {} /\ SystemsIn(t, NoKont) = {}
<1>1. PICK n : n = t[k].next
  OBVIOUS
<1>2. n \in KontIds \cup {NoKont}
  BY <1>1 DEF NextsIn
<1>3. /\ ChainIn(t, n) \subseteq KontIds /\ ClosedIn(t, ChainIn(t, n))
      /\ n # NoKont => n \in ChainIn(t, n)
      /\ ChainIn(t, k) \subseteq KontIds /\ ClosedIn(t, ChainIn(t, k)) /\ k \in ChainIn(t, k)
  BY <1>2, ChainHas
<1>4. ChainIn(t, k) \subseteq {k} \cup ChainIn(t, n)
  <2>1. ClosedIn(t, {k} \cup ChainIn(t, n))
    BY <1>1, <1>3 DEF ClosedIn
  <2> QED BY <1>3, <2>1, ChainLeast
<1>5. ChainIn(t, n) \subseteq ChainIn(t, k)
  <2>1. n \in ChainIn(t, k) \cup {NoKont}
    BY <1>1, <1>3 DEF ClosedIn
  <2> QED BY <1>3, <2>1, ChainLeast
<1>6. ChainIn(t, k) = {k} \cup ChainIn(t, n)
  BY <1>3, <1>4, <1>5
<1>7. SystemsIn(t, k) = ({t[k].c} \ {0}) \cup SystemsIn(t, n)
  BY <1>6 DEF SystemsIn
<1>8. ChainIn(t, NoKont) = {}
  <2>1. ClosedIn(t, {})
    BY DEF ClosedIn
  <2> QED BY <2>1, ChainLeast
<1> QED BY <1>1, <1>6, <1>7, <1>8 DEF SystemsIn

\* A is closed, and what is after its members stays.
LEMMA ChainKept ==
  ASSUME NEW t, NEW u, NextsIn(t), NextsIn(u), NEW A, A \subseteq KontIds, ClosedIn(t, A),
         \A j \in A : u[j].next = t[j].next /\ u[j].c = t[j].c,
         NEW k \in A \cup {NoKont}
  PROVE  ChainIn(u, k) = ChainIn(t, k) /\ SystemsIn(u, k) = SystemsIn(t, k)
<1>1. k \in KontIds \cup {NoKont} /\ ClosedIn(u, A)
  BY DEF ClosedIn
<1>2. ChainIn(t, k) \subseteq A /\ ChainIn(u, k) \subseteq A
  BY <1>1, ChainLeast
<1>3. /\ ClosedIn(t, ChainIn(t, k)) /\ (k # NoKont => k \in ChainIn(t, k))
      /\ ClosedIn(u, ChainIn(u, k)) /\ (k # NoKont => k \in ChainIn(u, k))
      /\ ChainIn(t, k) \subseteq KontIds /\ ChainIn(u, k) \subseteq KontIds
  BY <1>1, ChainHas
<1>4. ClosedIn(u, ChainIn(t, k)) /\ ClosedIn(t, ChainIn(u, k))
  BY <1>2, <1>3 DEF ClosedIn
<1>5. ChainIn(u, k) \subseteq ChainIn(t, k) /\ ChainIn(t, k) \subseteq ChainIn(u, k)
  <2>1. k \in ChainIn(t, k) \cup {NoKont} /\ k \in ChainIn(u, k) \cup {NoKont}
    BY <1>3
  <2> QED BY <1>3, <1>4, <2>1, ChainLeast
<1>6. ChainIn(u, k) = ChainIn(t, k)
  BY <1>5
<1>7. \A j \in ChainIn(t, k) : u[j].c = t[j].c
  BY <1>2
<1>8. {u[j].c : j \in ChainIn(u, k)} = {t[j].c : j \in ChainIn(t, k)}
  BY <1>6, <1>7
<1> QED BY <1>6, <1>8 DEF SystemsIn

\* K of A is followed by REST, which is followed by what K was.
LEMMA SystemsWhenSplit ==
  ASSUME NEW t, NEW u, NextsIn(t), NextsIn(u), NEW A, A \subseteq KontIds, ClosedIn(t, A),
         NEW k \in A, NEW rest \in KontIds \ A, NoKont \notin KontIds,
         u[k].next = rest, u[rest].next = t[k].next, u[rest].c = 0,
         \A j \in A : u[j].c = t[j].c /\ (j # k => u[j].next = t[j].next),
         NEW i \in A \cup {NoKont}
  PROVE  SystemsIn(u, i) = SystemsIn(t, i)
<1>1. i \in KontIds \cup {NoKont}
  OBVIOUS
<1>2. PICK T, V : T = ChainIn(t, i) /\ V = ChainIn(u, i)
  OBVIOUS
<1>3. /\ T \subseteq KontIds /\ ClosedIn(t, T) /\ (i # NoKont => i \in T)
      /\ V \subseteq KontIds /\ ClosedIn(u, V) /\ (i # NoKont => i \in V)
  BY <1>1, <1>2, ChainHas
<1>4. T \subseteq A
  BY <1>2, ChainLeast
<1>5. V \subseteq T \cup {rest}
  <2>1. CASE k \in T
    <3>1. ClosedIn(u, T \cup {rest})
      BY <1>3, <1>4, <2>1 DEF ClosedIn
    <3> QED BY <1>2, <1>3, <3>1, ChainLeast
  <2>2. CASE k \notin T
    <3>1. ClosedIn(u, T)
      BY <1>3, <1>4, <2>2 DEF ClosedIn
    <3> QED BY <1>2, <1>3, <3>1, ChainLeast
  <2> QED BY <2>1, <2>2
<1>6. T \subseteq V
  <2>1. ClosedIn(t, V \cap A)
    <3>1. ASSUME NEW j \in V \cap A PROVE t[j].next \in (V \cap A) \cup {NoKont}
      <4>1. t[j].next \in A \cup {NoKont}
        BY DEF ClosedIn
      <4>2. t[j].next \in V \cup {NoKont}
        <5>1. CASE j = k
          <6>1. rest \in V
            BY <1>3, <5>1 DEF ClosedIn
          <6> QED BY <1>3, <5>1, <6>1 DEF ClosedIn
        <5>2. CASE j # k
          BY <1>3, <5>2 DEF ClosedIn
        <5> QED BY <5>1, <5>2
      <4> QED BY <4>1, <4>2
    <3> QED BY <3>1 DEF ClosedIn
  <2>2. i \in (V \cap A) \cup {NoKont} /\ V \cap A \subseteq KontIds
    BY <1>3
  <2>3. T \subseteq V \cap A
    BY <1>2, <2>1, <2>2, ChainLeast
  <2> QED BY <2>3
<1>7. \A j \in T : u[j].c = t[j].c
  BY <1>4
<1>8. {u[j].c : j \in V} \ {0} = {t[j].c : j \in T} \ {0}
  BY <1>5, <1>6, <1>7
<1> QED BY <1>2, <1>8 DEF SystemsIn

-----------------------------------------------------------------------------
(* Continuation objects.                                                   *)

KontRecord ==
  [moved : Seq(Functions), top : Nat, size : Nat, next : KontIds \cup {NoKont}, c : Nat]

LEMMA KontsAre ==
  ASSUME KontTypes
  PROVE  /\ kont \in [KontIds -> KontRecord] /\ NextsIn(kont)
         /\ Konts \subseteq KontIds /\ Unused \in KontRecord
         /\ \A k \in KontIds : k \notin Konts => kont[k] = Unused
<1>1. <<>> \in Seq(Functions)
  OBVIOUS
<1> QED BY <1>1 DEF KontTypes, KontRecord, NextsIn, Konts, Unused

\* What is in use.
LEMMA UsedIs ==
  ASSUME NEW x \in KontRecord, x.size > 0 \/ x.c > 0
  PROVE  x # Unused
BY DEF KontRecord, Unused

\* The frozen words of X.
WordsOf(m, x) ==
  IF x.moved # <<>> THEN x.moved ELSE SubSeq(m, x.top - x.size + 1, x.top)

LEMMA WordsHold ==
  ASSUME NEW m, NEW b \in Nat, NEW x \in KontRecord, KontHolds(m, b, x), x.c = 0, FrameSizes,
         NEW w, w = WordsOf(m, x)
  PROVE  /\ w \in Seq(Functions) /\ w # <<>> /\ Len(w) = x.size /\ x.size > 0
         /\ Whole(w, 0, x.size)
         /\ FrameWords[w[Len(w)]] \in 1 .. x.size
         /\ x.moved = <<>> => w[Len(w)] = m[x.top]
<1>1. x.moved \in Seq(Functions) /\ x.top \in Nat /\ x.size \in Nat /\ x.size > 0
  BY DEF KontRecord, KontHolds
<1>2. /\ w \in Seq(Functions) /\ Len(w) = x.size /\ Whole(w, 0, x.size)
      /\ x.moved = <<>> => w[Len(w)] = m[x.top]
  <2>1. CASE x.moved # <<>>
    BY <1>1, <2>1 DEF WordsOf, KontHolds
  <2>2. CASE x.moved = <<>>
    <3>1. PICK lo : lo = x.top - x.size
      OBVIOUS
    <3>2. lo \in Nat /\ Whole(m, lo, x.top) /\ x.top - lo = x.size /\ w = SubSeq(m, lo + 1, x.top)
      BY <1>1, <2>2, <3>1 DEF KontHolds, WordsOf
    <3>3. /\ w \in Seq(Functions) /\ Len(w) = x.size /\ Whole(w, 0, x.size)
          /\ \A i \in 1 .. x.size : w[i] = m[lo + i]
      BY <1>1, <3>2, CopiedWhole
    <3>4. x.size \in 1 .. x.size /\ lo + x.size = x.top
      BY <1>1, <3>1
    <3> QED BY <3>3, <3>4
  <2> QED BY <2>1, <2>2
<1>3. w # <<>>
  BY <1>1, <1>2
<1>4. FrameWords[w[Len(w)]] \in 1 .. x.size
  <2>1. FrameWords[w[x.size]] \in 1 .. x.size - 0
    BY <1>1, <1>2, TopWhole
  <2> QED BY <1>1, <1>2, <2>1
<1> QED BY <1>1, <1>2, <1>3, <1>4

\* X moved to the heap.
LEMMA MovedHolds ==
  ASSUME NEW m, NEW b \in Nat, NEW x \in KontRecord, KontHolds(m, b, x), x.c = 0, FrameSizes,
         NEW n, NEW d \in Nat, NEW y, y = Moved(x, WordsOf(m, x))
  PROVE  /\ y \in KontRecord /\ KontHolds(n, d, y) /\ y # Unused
         /\ y.next = x.next /\ y.c = 0
<1>1. PICK w : w = WordsOf(m, x)
  OBVIOUS
<1>2. /\ w \in Seq(Functions) /\ w # <<>> /\ Len(w) = x.size /\ x.size > 0
      /\ Whole(w, 0, x.size)
  BY <1>1, WordsHold
<1>3. /\ y \in KontRecord /\ y.moved = w /\ y.size = x.size /\ y.next = x.next /\ y.c = 0
  BY <1>1, <1>2 DEF KontRecord, Moved
<1>4. KontHolds(n, d, y)
  BY <1>2, <1>3 DEF KontHolds
<1> QED BY <1>2, <1>3, <1>4, UsedIs

\* X is where the base B was; it is not written to if nothing above is.
LEMMA HoldsKept ==
  ASSUME NEW m, NEW b \in Nat, NEW x \in KontRecord, KontHolds(m, b, x),
         NEW n, NEW d \in Nat, b <= d, \A p \in 1 .. b : n[p] = m[p]
  PROVE  KontHolds(n, d, x)
<1>1. CASE x.c = 0 /\ x.moved = <<>>
  <2>1. PICK lo, hi : lo = x.top - x.size /\ hi = x.top
    OBVIOUS
  <2>2. /\ x.size > 0 /\ x.size <= x.top /\ x.top <= b
        /\ lo \in Nat /\ hi \in Nat /\ hi <= b /\ Whole(m, lo, hi)
    BY <1>1, <2>1 DEF KontRecord, KontHolds
  <2>3. \A p \in lo + 1 .. hi : n[p] = m[p]
    BY <2>2
  <2>4. Whole(n, lo, hi)
    BY <2>2, <2>3, WholeKept
  <2>5. x.top <= d
    BY <2>2 DEF KontRecord
  <2> QED BY <1>1, <2>1, <2>2, <2>4, <2>5 DEF KontHolds
<1> QED BY <1>1 DEF KontHolds

-----------------------------------------------------------------------------
(* What a step leaves of continuation objects.                             *)

LEMMA SystemsAre ==
  ASSUME NEW k
  PROVE  Systems(k) = SystemsIn(kont, k) /\ Systems(k)' = SystemsIn(kont', k)
BY DEF Chain, ChainIn, Closed, ClosedIn, Systems, SystemsIn

LEMMA InUseClosed == ASSUME KontInv PROVE ClosedIn(kont, Konts)
BY DEF KontInv, Refers, ClosedIn

\* A are the new objects.
LEMMA KontStep ==
  ASSUME KontInv, SegmentInv, KontTypes', base' \in Nat, base <= base',
         \A p \in 1 .. base : mem'[p] = mem[p],
         NEW A, A \subseteq KontIds, A \cap Konts = {},
         \A k \in KontIds : k \notin A => kont'[k] = kont[k],
         \A k \in A : /\ kont'[k] # Unused /\ kont'[k].next \in Konts \cup A \cup {NoKont}
                      /\ KontHolds(mem', base', kont'[k]),
         nextK' \in Konts \cup A \cup {NoKont},
         esc' \in [Slots -> KontIds \cup {NoKont, NoStack}],
         \A s \in Slots : esc'[s] # NoStack => esc'[s] \in Konts \cup A \cup {NoKont}
  PROVE  KontInv' /\ Konts' = Konts \cup A
<1>1. Konts \subseteq KontIds /\ kont \in [KontIds -> KontRecord]
  BY KontsAre DEF KontInv
<1>2. Konts' = Konts \cup A
  BY <1>1 DEF Konts
<1>3. ASSUME NEW k \in Konts'
      PROVE  kont'[k].next \in Konts' \cup {NoKont} /\ KontHolds(mem', base', kont'[k])
  <2>1. CASE k \in A
    BY <1>2, <2>1
  <2>2. CASE k \notin A
    <3>1. k \in Konts /\ kont'[k] = kont[k]
      BY <1>1, <1>2, <2>2
    <3>2. kont[k].next \in Konts \cup {NoKont} /\ KontHolds(mem, base, kont[k])
      BY <3>1 DEF KontInv, Refers
    <3>3. PICK x, m, n, b, d : x = kont[k] /\ m = mem /\ n = mem' /\ b = base /\ d = base'
      OBVIOUS
    <3>4. /\ x \in KontRecord /\ b \in Nat /\ d \in Nat /\ b <= d
          /\ \A p \in 1 .. b : n[p] = m[p]
      BY <1>1, <3>1, <3>3 DEF SegmentInv
    <3>5. KontHolds(n, d, x)
      BY <3>2, <3>3, <3>4, HoldsKept
    <3> QED BY <1>2, <3>1, <3>2, <3>3, <3>5
  <2> QED BY <2>1, <2>2
<1>4. \A k \in Konts' : Refers(kont[k].next)' /\ KontHolds(mem, base, kont[k])'
  BY <1>3 DEF Refers, KontHolds, Whole
<1> QED BY <1>2, <1>4 DEF KontInv, Refers

\* Nothing becomes a continuation object.
LEMMA KontSame ==
  ASSUME KontInv, SegmentInv, kont' = kont, base' = base,
         \A p \in 1 .. base : mem'[p] = mem[p],
         nextK' \in Konts \cup {NoKont},
         esc' \in [Slots -> KontIds \cup {NoKont, NoStack}],
         \A s \in Slots : esc'[s] # NoStack => esc'[s] \in Konts \cup {NoKont}
  PROVE  KontInv' /\ Konts' = Konts
<1>1. KontTypes' /\ base' \in Nat /\ base <= base'
  BY DEF KontInv, KontTypes, SegmentInv
<1>2. KontInv' /\ Konts' = Konts \cup {}
  BY <1>1, KontStep
<1> QED BY <1>2

\* The frames of the stack when they are frozen.
LEMMA FrozenHolds ==
  ASSUME KontInv, SegmentInv, Freezes, FrameSizes, NEW m, \A p \in 1 .. fp : m[p] = mem[p]
  PROVE  /\ Frozen \in KontRecord /\ KontHolds(m, fp, Frozen) /\ Frozen # Unused
         /\ Frozen.c = 0 /\ Frozen.next = nextK
<1>1. PICK x, b, f : x = Frozen /\ b = base /\ f = fp
  OBVIOUS
<1>2. b \in Nat /\ f \in Nat /\ b + 1 < f /\ nextK \in KontIds \cup {NoKont}
  BY <1>1, KontsAre DEF SegmentInv, KontInv, Refers, Freezes
<1>3. /\ <<>> \in Seq(Functions)
      /\ Frozen = [moved |-> <<>>, top |-> fp, size |-> fp - base - 1, next |-> nextK, c |-> 0]
  BY DEF Frozen
<1>4. /\ x \in KontRecord /\ x.moved = <<>> /\ x.top = f /\ x.size = f - b - 1 /\ x.c = 0
      /\ x.next = nextK /\ x.size > 0 /\ x.size <= x.top /\ x.top - x.size = b + 1
  <2>1. x = [moved |-> <<>>, top |-> f, size |-> f - b - 1, next |-> nextK, c |-> 0]
    BY <1>1, <1>3
  <2>2. f - b - 1 \in Nat /\ f - b - 1 > 0 /\ f - b - 1 <= f /\ f - (f - b - 1) = b + 1
    BY <1>2
  <2>3. /\ x.moved = <<>> /\ x.top = f /\ x.size = f - b - 1 /\ x.c = 0 /\ x.next = nextK
    BY <2>1
  <2>4. x \in KontRecord
    BY <1>2, <1>3, <2>1, <2>2 DEF KontRecord
  <2> QED BY <2>2, <2>3, <2>4
<1>5. b + 1 \in Nat /\ Whole(mem, b + 1, f) /\ \A p \in b + 1 + 1 .. f : m[p] = mem[p]
  BY <1>1, <1>2 DEF SegmentInv
<1>6. PICK n : n = mem
  OBVIOUS
<1>7. Whole(m, b + 1, f)
  BY <1>2, <1>5, <1>6, WholeKept
<1>8. KontHolds(m, f, x)
  BY <1>2, <1>4, <1>7 DEF KontHolds
<1> QED BY <1>1, <1>4, <1>8, UsedIs

-----------------------------------------------------------------------------
(* The segment.                                                            *)

LEMMA SizesAre ==
  ASSUME StackAssumptions
  PROVE  /\ FrameSizes /\ SegmentSize \in Nat /\ Redline \in Nat
         /\ 1 <= Redline /\ Redline < SegmentSize
         /\ \A f \in Functions : FrameWords[f] \in Nat /\ FrameWords[f] > 0
                                 /\ Redline + 1 + FrameWords[f] <= SegmentSize
         /\ NoKont \notin KontIds /\ NoStack \notin KontIds \cup {NoKont}
BY DEF StackAssumptions, FrameSizes

SegmentWords == [1 .. SegmentSize -> Functions \cup {"free", "handler"}]

Modes == {"entry", "entered", "running", "returning", "c", "done"}

\* The frame pointer is where MODE lets it be.
PointerIn(b, f, m) ==
  /\ b \in Nat /\ f \in Nat /\ b + 1 <= f /\ f <= SegmentSize
  /\ m \in Modes
  /\ m # "entry" => f <= Redline + 1
  /\ m = "entered" => f <= Redline
  /\ m \in {"returning", "c", "done"} => f = b + 1

LEMMA SegmentIs ==
  /\ SegmentInv <=> /\ mem \in SegmentWords /\ PointerIn(base, fp, mode)
                    /\ Whole(mem, base + 1, fp)
  /\ SegmentInv' <=> /\ mem' \in SegmentWords /\ PointerIn(base', fp', mode')
                     /\ Whole(mem', base' + 1, fp')
BY DEF SegmentInv, SegmentWords, PointerIn, Modes, Whole

LEMMA NewSegmentIs ==
  ASSUME StackAssumptions
  PROVE  /\ NewSegment \in SegmentWords /\ Whole(NewSegment, 0 + 1, 1)
         /\ PointerIn(0, 1, "entered") /\ PointerIn(0, 1, "running")
<1>1. NewSegment \in SegmentWords
  BY DEF NewSegment, SegmentWords
<1>2. Whole(NewSegment, 1, 1)
  BY NoneWhole
<1>3. PointerIn(0, 1, "entered") /\ PointerIn(0, 1, "running")
  BY SizesAre DEF PointerIn, Modes
<1> QED BY <1>1, <1>2, <1>3

LEMMA SegmentInit == ASSUME StackAssumptions, ContInit PROVE SegmentInv
BY NewSegmentIs, SegmentIs DEF ContInit

LEMMA SegmentCall ==
  ASSUME StackAssumptions, SegmentInv, NEW f \in Functions, Call(f)
  PROVE  SegmentInv'
<1>1. PICK m, b, h, t : m = mem /\ b = base /\ h = fp /\ t = fp'
  OBVIOUS
<1>2. m \in SegmentWords /\ PointerIn(b, h, mode) /\ Whole(m, b + 1, h)
  BY <1>1, SegmentIs
<1>3. t = h + FrameWords[f] /\ h <= Redline + 1
  BY <1>1, <1>2 DEF Call, InBody, PointerIn
<1>4. t \in Nat /\ h <= t /\ t <= SegmentSize
  BY <1>2, <1>3, SizesAre DEF PointerIn
<1>5. mem' = [i \in 1 .. SegmentSize |-> IF i \in h + 1 .. t THEN f ELSE m[i]]
  BY <1>1 DEF Call
<1>6. mem' \in SegmentWords
  BY <1>2, <1>5 DEF SegmentWords
<1>7. PointerIn(b, t, "entry")
  BY <1>2, <1>4 DEF PointerIn, Modes
<1>8. Whole(mem', b + 1, t)
  <2>1. PICK n : n = mem'
    OBVIOUS
  <2>2. \A p \in b + 1 + 1 .. h : n[p] = m[p]
    BY <1>2, <1>4, <1>5, <2>1, SizesAre DEF PointerIn
  <2>3. \A p \in h + 1 .. t : n[p] = f
    BY <1>2, <1>4, <1>5, <2>1, SizesAre DEF PointerIn
  <2>4. b + 1 \in Nat /\ h \in Nat /\ FrameSizes
    BY <1>2, SizesAre DEF PointerIn
  <2>5. Whole(n, b + 1, t)
    BY <1>2, <1>3, <2>2, <2>3, <2>4, PushedWhole
  <2> QED BY <2>1, <2>5
<1>9. base' = b /\ fp' = t /\ mode' = "entry"
  BY <1>1, <1>4, SizesAre DEF Call
<1> QED BY <1>6, <1>7, <1>8, <1>9, SegmentIs

\* Frames are removed.
LEMMA ClearedWhole ==
  ASSUME NEW m \in SegmentWords, NEW b \in Nat, NEW h \in Nat, NEW t \in Nat,
         b + 1 <= t, t <= h, h <= SegmentSize, SegmentSize \in Nat, Whole(m, b + 1, t)
  PROVE  /\ Cleared(m, t) \in SegmentWords /\ Whole(Cleared(m, t), b + 1, t)
         /\ \A p \in 1 .. t : Cleared(m, t)[p] = m[p]
<1>1. PICK n : n = Cleared(m, t)
  OBVIOUS
<1>2. n \in SegmentWords /\ \A p \in 1 .. t : n[p] = m[p]
  BY <1>1 DEF Cleared, SegmentWords
<1>3. b + 1 \in Nat /\ \A p \in b + 1 + 1 .. t : n[p] = m[p]
  BY <1>2
<1>4. Whole(n, b + 1, t)
  BY <1>3, WholeKept
<1> QED BY <1>1, <1>2, <1>4

LEMMA SegmentReturn ==
  ASSUME StackAssumptions, SegmentInv, ReturnToFrame
  PROVE  SegmentInv' /\ \A p \in 1 .. base : mem'[p] = mem[p]
<1>1. PICK m, b, h, t : m = mem /\ b = base /\ h = fp /\ t = fp'
  OBVIOUS
<1>2. m \in SegmentWords /\ PointerIn(b, h, mode) /\ Whole(m, b + 1, h)
  BY <1>1, SegmentIs
<1>3. /\ b + 1 < h /\ t = h - FrameWords[m[h]] /\ mem' = Cleared(m, t) /\ base' = b
      /\ mode # "entry" /\ mode' = "running"
  BY <1>1, <1>2 DEF ReturnToFrame, InBody, PointerIn
<1>4. b + 1 \in Nat /\ h \in Nat /\ FrameSizes /\ SegmentSize \in Nat
  BY <1>2, SizesAre DEF PointerIn
<1>5. t \in b + 1 .. h - 1 /\ Whole(m, b + 1, t)
  BY <1>2, <1>3, <1>4, TopWhole
<1>6. b \in Nat /\ t \in Nat /\ b + 1 <= t /\ t <= h /\ h <= SegmentSize
  BY <1>2, <1>4, <1>5 DEF PointerIn
<1>7. /\ mem' \in SegmentWords /\ Whole(mem', b + 1, t)
      /\ \A p \in 1 .. t : mem'[p] = m[p]
  BY <1>2, <1>3, <1>4, <1>5, <1>6, ClearedWhole
<1>8. PointerIn(b, t, "running")
  BY <1>2, <1>3, <1>5, <1>6, SizesAre DEF PointerIn, Modes
<1>9. SegmentInv'
  BY <1>1, <1>3, <1>7, <1>8, SegmentIs
<1> QED BY <1>1, <1>6, <1>7, <1>9

LEMMA SegmentEscape ==
  ASSUME StackAssumptions, SegmentInv, NEW s, Escape(s)
  PROVE  SegmentInv' /\ \A p \in 1 .. base : mem'[p] = mem[p]
<1>1. PICK m, b, h, t : m = mem /\ b = base /\ h = fp /\ t = b + 1
  OBVIOUS
<1>2. m \in SegmentWords /\ PointerIn(b, h, mode) /\ Whole(m, b + 1, h)
  BY <1>1, SegmentIs
<1>3. /\ t = fp' /\ mem' = Cleared(m, t) /\ base' = b
      /\ mode # "entry" /\ mode' = "returning"
  BY <1>1, <1>2 DEF Escape, InBody, PointerIn
<1>4. SegmentSize \in Nat /\ b \in Nat /\ h \in Nat /\ t \in Nat /\ b + 1 <= t /\ t <= h
      /\ h <= SegmentSize
  BY <1>1, <1>2, SizesAre DEF PointerIn
<1>5. Whole(m, b + 1, t)
  BY <1>1, <1>4, NoneWhole
<1>6. /\ mem' \in SegmentWords /\ Whole(mem', b + 1, t)
      /\ \A p \in 1 .. t : mem'[p] = m[p]
  BY <1>2, <1>3, <1>4, <1>5, ClearedWhole
<1>7. PointerIn(b, t, "returning")
  BY <1>1, <1>2, <1>3, <1>4, SizesAre DEF PointerIn, Modes
<1>8. SegmentInv'
  BY <1>3, <1>6, <1>7, SegmentIs
<1> QED BY <1>1, <1>4, <1>6, <1>8

\* The segment is left as it is.
LEMMA SegmentSame ==
  ASSUME SegmentInv, UNCHANGED <<mem, base, fp>>, PointerIn(base, fp, mode')
  PROVE  SegmentInv'
BY SegmentIs

\* The frames are frozen and the base is put below them.
LEMMA SegmentFrozen ==
  ASSUME StackAssumptions, SegmentInv, mode = "entered",
         IF Freezes THEN /\ base' = NewBase /\ fp' = NewBase + 1
                         /\ mem' = [mem EXCEPT ![NewBase + 1] = "handler"]
                    ELSE UNCHANGED <<base, fp, mem>>,
         mode' = "running" \/ mode' = "c"
  PROVE  /\ SegmentInv' /\ base' \in Nat /\ base <= base'
         /\ \A p \in 1 .. base : mem'[p] = mem[p]
         /\ Freezes => base' = fp /\ \A p \in 1 .. fp : mem'[p] = mem[p]
<1>1. PICK m, b, h : m = mem /\ b = base /\ h = fp
  OBVIOUS
<1>2. /\ m \in SegmentWords /\ PointerIn(b, h, mode) /\ Whole(m, b + 1, h)
      /\ b \in Nat /\ h \in Nat /\ b + 1 <= h /\ h <= Redline /\ h + 1 <= SegmentSize
      /\ Redline \in Nat /\ SegmentSize \in Nat
  BY <1>1, SegmentIs, SizesAre DEF PointerIn
<1>3. CASE Freezes
  <2>1. base' = h /\ fp' = h + 1 /\ mem' = [m EXCEPT ![h + 1] = "handler"]
    BY <1>1, <1>3 DEF NewBase
  <2>2. mem' \in SegmentWords /\ \A p \in 1 .. h : mem'[p] = m[p]
    BY <1>2, <2>1 DEF SegmentWords
  <2>3. Whole(mem', h + 1, h + 1)
    BY <1>2, NoneWhole
  <2>4. PointerIn(h, h + 1, mode')
    BY <1>2 DEF PointerIn, Modes
  <2>5. SegmentInv'
    BY <2>1, <2>2, <2>3, <2>4, SegmentIs
  <2> QED BY <1>1, <1>2, <2>1, <2>2, <2>5
<1>4. CASE ~Freezes
  <2>1. base' = b /\ fp' = h /\ mem' = m /\ h = b + 1
    BY <1>1, <1>2, <1>4 DEF Freezes
  <2>2. PointerIn(b, h, mode')
    BY <1>2, <2>1 DEF PointerIn, Modes
  <2>3. SegmentInv'
    BY <1>2, <2>1, <2>2, SegmentIs
  <2> QED BY <1>1, <1>2, <1>4, <2>1, <2>3
<1> QED BY <1>3, <1>4
-----------------------------------------------------------------------------
(* Callouts: of the table T, of the continuation N that execution goes on  *)
(* with and of the callouts CS, at most C, that have not returned.         *)

InC(t, n, cs, m) == m = "c" => cs # <<>> /\ n # NoKont /\ t[n].c > 0

CalloutIn(t, n, cs, c, m) ==
  /\ c \in Nat /\ cs \in Seq(Nat \ {0})
  /\ \A i, j \in 1 .. Len(cs) : i < j => cs[i] < cs[j]
  /\ \A i \in 1 .. Len(cs) : cs[i] <= c
  /\ \A k \in KontIds : t[k].c <= c
  /\ \A k \in KontIds : t[k].c > 0 => \A x \in SystemsIn(t, t[k].next) : x < t[k].c
  /\ SystemsIn(t, n) = ToSet(cs)
  /\ InC(t, n, cs, m)

CountsIn(t) == \A k \in KontIds : t[k].c \in Nat

LEMMA CalloutsAre ==
  /\ CalloutInv <=> CalloutIn(kont, nextK, cstack, callouts, mode)
  /\ CalloutInv' <=> CalloutIn(kont', nextK', cstack', callouts', mode')
<1>1. /\ \A k : Systems(k) = SystemsIn(kont, k)
      /\ Systems(nextK)' = SystemsIn(kont', nextK')
      /\ \A k \in KontIds : Systems(kont[k].next)' = SystemsIn(kont', kont'[k].next)
  BY DEF Chain, ChainIn, Closed, ClosedIn, Systems, SystemsIn
<1> QED BY <1>1 DEF CalloutInv, CalloutIn, InC, IsSystem

\* What is gone on with returns to the same callouts.
LEMMA CalloutsSame ==
  ASSUME NEW t, NEW n, NEW cs, NEW c, NEW m, CalloutIn(t, n, cs, c, m),
         NEW i, NEW l, l # "c", SystemsIn(t, i) = SystemsIn(t, n)
  PROVE  CalloutIn(t, i, cs, c, l)
BY DEF CalloutIn, InC

\* The table is changed, but not the system continuations in it.
LEMMA CalloutsKept ==
  ASSUME NEW t, NEW n, NEW cs, NEW c, NEW m, CalloutIn(t, n, cs, c, m),
         NEW u, NEW A, A \subseteq KontIds, \A k \in KontIds : k \notin A => u[k].c = 0,
         \A k \in A : u[k].c = t[k].c,
         \A k \in A : u[k].c > 0 => SystemsIn(u, u[k].next) = SystemsIn(t, t[k].next),
         NEW i, NEW l, InC(u, i, cs, l), SystemsIn(u, i) = SystemsIn(t, n)
  PROVE  CalloutIn(u, i, cs, c, l)
<1>1. ASSUME NEW k \in KontIds PROVE u[k].c <= c
  BY <1>1 DEF CalloutIn, InC
<1>2. ASSUME NEW k \in KontIds, u[k].c > 0, NEW x \in SystemsIn(u, u[k].next) PROVE x < u[k].c
  <2>1. k \in A
    BY <1>2
  <2>2. u[k].c = t[k].c /\ x \in SystemsIn(t, t[k].next)
    BY <1>2, <2>1
  <2> QED BY <1>2, <2>2 DEF CalloutIn, InC
<1> QED BY <1>1, <1>2 DEF CalloutIn, InC

\* C code is called: K is the system continuation.
LEMMA CalloutPushed ==
  ASSUME NEW t, NEW n, NEW cs, NEW c, NEW m, CalloutIn(t, n, cs, c, m), CountsIn(t),
         NEW u, NEW A, A \subseteq KontIds, NextsIn(u), NoKont \notin KontIds,
         \A k \in A : u[k].c = t[k].c,
         \A k \in A : u[k].c > 0 => SystemsIn(u, u[k].next) = SystemsIn(t, t[k].next),
         NEW sk \in KontIds, sk \notin A, u[sk].c = c + 1,
         \A k \in KontIds : k \notin A /\ k # sk => u[k].c = 0,
         SystemsIn(u, u[sk].next) = SystemsIn(t, n)
  PROVE  CalloutIn(u, sk, Append(cs, c + 1), c + 1, "c")
<1>1. c \in Nat /\ cs \in Seq(Nat \ {0}) /\ SystemsIn(t, n) = ToSet(cs)
  BY DEF CalloutIn, InC
<1>2. PICK d : d = Append(cs, c + 1)
  OBVIOUS
<1>3. /\ d \in Seq(Nat \ {0}) /\ Len(d) = Len(cs) + 1 /\ d # <<>>
      /\ \A i \in 1 .. Len(cs) : d[i] = cs[i]
      /\ d[Len(cs) + 1] = c + 1
  BY <1>1, <1>2
<1>4. \A i \in 1 .. Len(d) : i \in 1 .. Len(cs) \/ i = Len(cs) + 1
  BY <1>1, <1>3
<1>5. \A i \in 1 .. Len(d) : d[i] <= c + 1
  <2>1. ASSUME NEW i \in 1 .. Len(cs) PROVE d[i] <= c + 1
    <3>1. d[i] = cs[i] /\ cs[i] <= c /\ cs[i] \in Nat
      BY <1>1, <1>3 DEF CalloutIn, InC
    <3> QED BY <1>1, <3>1
  <2>2. c + 1 <= c + 1
    BY <1>1
  <2> QED BY <1>3, <1>4, <2>1, <2>2
<1>6. ASSUME NEW i \in 1 .. Len(d), NEW j \in 1 .. Len(d), i < j PROVE d[i] < d[j]
  <2>1. i \in 1 .. Len(cs) /\ d[i] = cs[i] /\ cs[i] <= c /\ cs[i] \in Nat
    BY <1>1, <1>3, <1>4, <1>6 DEF CalloutIn, InC
  <2>2. CASE j \in 1 .. Len(cs)
    BY <1>3, <1>6, <2>1, <2>2 DEF CalloutIn, InC
  <2>3. CASE j = Len(cs) + 1
    BY <1>1, <1>3, <2>1, <2>3
  <2> QED BY <1>4, <2>2, <2>3
<1>7. ToSet(d) = ToSet(cs) \cup {c + 1}
  <2>1. ASSUME NEW x \in ToSet(d) PROVE x \in ToSet(cs) \cup {c + 1}
    <3>1. PICK i \in 1 .. Len(d) : x = d[i]
      BY <1>3, <2>1 DEF ToSet
    <3>2. CASE i \in 1 .. Len(cs)
      BY <1>1, <1>3, <3>1, <3>2 DEF ToSet
    <3>3. CASE i = Len(cs) + 1
      BY <1>3, <3>1, <3>3
    <3> QED BY <1>4, <3>2, <3>3
  <2>2. ASSUME NEW x \in ToSet(cs) PROVE x \in ToSet(d)
    <3>1. PICK i \in 1 .. Len(cs) : x = cs[i]
      BY <1>1, <2>2 DEF ToSet
    <3>2. i \in 1 .. Len(d) /\ d[i] = x
      BY <1>1, <1>3, <3>1
    <3> QED BY <1>3, <3>2 DEF ToSet
  <2>3. c + 1 \in ToSet(d)
    <3>1. Len(d) \in 1 .. Len(d) /\ d[Len(d)] = c + 1
      BY <1>1, <1>3
    <3> QED BY <1>3, <3>1 DEF ToSet
  <2> QED BY <2>1, <2>2, <2>3
<1>8. SystemsIn(u, sk) = ToSet(d)
  <2>1. SystemsIn(u, sk) = ({u[sk].c} \ {0}) \cup SystemsIn(u, u[sk].next)
    BY ChainNext
  <2>2. {u[sk].c} \ {0} = {c + 1}
    BY <1>1
  <2> QED BY <1>1, <1>7, <2>1, <2>2
<1>9. ASSUME NEW k \in KontIds PROVE u[k].c <= c + 1
  <2>1. CASE k \in A
    <3>1. u[k].c \in Nat /\ u[k].c <= c
      BY <2>1 DEF CalloutIn, CountsIn
    <3> QED BY <1>1, <3>1
  <2>2. CASE k \notin A
    BY <1>1, <2>2
  <2> QED BY <2>1, <2>2
<1>10. ASSUME NEW k \in KontIds, u[k].c > 0, NEW x \in SystemsIn(u, u[k].next)
       PROVE  x < u[k].c
  <2>1. CASE k \in A
    <3>1. u[k].c = t[k].c /\ x \in SystemsIn(t, t[k].next)
      BY <1>10, <2>1
    <3> QED BY <1>10, <3>1 DEF CalloutIn, InC
  <2>2. CASE k = sk
    <3>1. x \in ToSet(cs)
      BY <1>1, <1>10, <2>2
    <3>2. PICK i \in 1 .. Len(cs) : x = cs[i]
      BY <1>1, <3>1 DEF ToSet
    <3>3. x \in Nat /\ x <= c
      BY <1>1, <3>2 DEF CalloutIn, InC
    <3> QED BY <1>1, <2>2, <3>3
  <2>3. CASE k \notin A /\ k # sk
    BY <1>10, <2>3
  <2> QED BY <2>1, <2>2, <2>3
<1>11. c + 1 \in Nat /\ sk # NoKont /\ u[sk].c > 0
  BY <1>1
<1> QED BY <1>2, <1>3, <1>5, <1>6, <1>8, <1>9, <1>10, <1>11 DEF CalloutIn, InC

\* A system continuation that execution goes on with is that of the last callout.
LEMMA LastCallout ==
  ASSUME NEW t, NEW n \in KontIds, NEW cs, NEW c, NEW m, CalloutIn(t, n, cs, c, m),
         CountsIn(t), NextsIn(t), NoKont \notin KontIds, t[n].c > 0
  PROVE  /\ cs # <<>> /\ Len(cs) \in Nat /\ Len(cs) > 0 /\ cs[Len(cs)] = t[n].c
         /\ SystemsIn(t, n) = {t[n].c} \cup SystemsIn(t, t[n].next)
         /\ \A x \in SystemsIn(t, t[n].next) : x < t[n].c
<1>1. c \in Nat /\ cs \in Seq(Nat \ {0}) /\ SystemsIn(t, n) = ToSet(cs) /\ Len(cs) \in Nat
  BY DEF CalloutIn, InC
<1>2. t[n].c \in Nat
  BY DEF CountsIn
<1>3. SystemsIn(t, n) = {t[n].c} \cup SystemsIn(t, t[n].next)
  <2>1. SystemsIn(t, n) = ({t[n].c} \ {0}) \cup SystemsIn(t, t[n].next)
    BY ChainNext
  <2> QED BY <1>2, <2>1
<1>4. \A x \in SystemsIn(t, t[n].next) : x < t[n].c
  BY DEF CalloutIn, InC
<1>5. PICK i \in 1 .. Len(cs) : cs[i] = t[n].c
  <2>1. t[n].c \in ToSet(cs)
    BY <1>1, <1>3
  <2> QED BY <1>1, <2>1 DEF ToSet
<1>6. cs # <<>> /\ Len(cs) > 0
  BY <1>1, <1>5
<1>7. cs[Len(cs)] = t[n].c
  <2>1. Len(cs) \in 1 .. Len(cs)
    BY <1>1, <1>6
  <2>2. cs[Len(cs)] \in SystemsIn(t, n)
    BY <1>1, <2>1 DEF ToSet
  <2>3. cs[Len(cs)] <= t[n].c
    <3>1. cs[Len(cs)] = t[n].c \/ cs[Len(cs)] < t[n].c
      BY <1>3, <1>4, <2>2
    <3> QED BY <1>1, <1>2, <2>1, <3>1
  <2>4. i = Len(cs)
    <3>1. SUFFICES ASSUME i # Len(cs) PROVE FALSE
      OBVIOUS
    <3>2. i < Len(cs)
      BY <1>1, <3>1
    <3>3. cs[i] < cs[Len(cs)]
      BY <2>1, <3>2 DEF CalloutIn, InC
    <3>4. cs[Len(cs)] \in Nat
      BY <1>1, <2>1
    <3> QED BY <1>2, <1>5, <2>3, <3>3, <3>4
  <2> QED BY <1>5, <2>4
<1> QED BY <1>1, <1>3, <1>4, <1>6, <1>7

\* C code returns.
LEMMA CalloutPopped ==
  ASSUME NEW t, NEW n \in KontIds, NEW cs, NEW c, NEW m, CalloutIn(t, n, cs, c, m),
         CountsIn(t), NextsIn(t), NoKont \notin KontIds, t[n].c > 0, NEW l, l # "c"
  PROVE  CalloutIn(t, t[n].next, Front(cs), c, l)
<1>1. /\ c \in Nat /\ cs \in Seq(Nat \ {0}) /\ SystemsIn(t, n) = ToSet(cs)
      /\ \A i, j \in 1 .. Len(cs) : i < j => cs[i] < cs[j]
      /\ \A i \in 1 .. Len(cs) : cs[i] <= c
  BY DEF CalloutIn, InC
<1>2. PICK q : q = Len(cs)
  OBVIOUS
<1>3. /\ q \in Nat /\ q > 0 /\ q = Len(cs) /\ cs[q] = t[n].c
      /\ SystemsIn(t, n) = {t[n].c} \cup SystemsIn(t, t[n].next)
      /\ \A x \in SystemsIn(t, t[n].next) : x < t[n].c
  BY <1>2, LastCallout
<1>4. PICK d : d = Front(cs)
  OBVIOUS
<1>5. /\ d \in Seq(Nat \ {0}) /\ Len(d) = q - 1
      /\ \A i \in 1 .. Len(d) : d[i] = cs[i]
  <2>1. d = SubSeq(cs, 1, q - 1) /\ q - 1 \in Nat
    BY <1>3, <1>4 DEF Front
  <2>2. ASSUME NEW p \in 1 .. q - 1 PROVE cs[p] \in Nat \ {0}
    BY <1>1, <1>3
  <2>3. /\ d \in Seq(Nat \ {0})
        /\ Len(d) = IF 1 <= q - 1 THEN q - 1 - 1 + 1 ELSE 0
        /\ \A i \in 1 .. q - 1 - 1 + 1 : d[i] = cs[1 + i - 1]
    BY <2>1, <2>2, SubSeqProperties
  <2>4. Len(d) = q - 1
    BY <1>3, <2>3
  <2>5. \A i \in 1 .. Len(d) : i \in 1 .. q - 1 - 1 + 1 /\ 1 + i - 1 = i
    BY <1>3, <2>4
  <2> QED BY <2>3, <2>4, <2>5
<1>6. \A i \in 1 .. Len(d) : i \in 1 .. Len(cs)
  BY <1>3, <1>5
<1>7. /\ \A i, j \in 1 .. Len(d) : i < j => d[i] < d[j]
      /\ \A i \in 1 .. Len(d) : d[i] <= c
  BY <1>1, <1>5, <1>6
<1>8. t[n].c \in Nat
  BY DEF CountsIn
<1>9. SystemsIn(t, t[n].next) = ToSet(d)
  <2>1. ASSUME NEW x \in SystemsIn(t, t[n].next) PROVE x \in ToSet(d)
    <3>1. x \in ToSet(cs) /\ x < t[n].c
      BY <1>1, <1>3, <2>1
    <3>2. PICK i \in 1 .. Len(cs) : x = cs[i]
      BY <1>1, <3>1 DEF ToSet
    <3>3. i # q
      BY <1>3, <1>8, <3>1, <3>2
    <3>4. i \in 1 .. Len(d) /\ d[i] = x
      BY <1>3, <1>5, <3>2, <3>3
    <3> QED BY <1>5, <3>4 DEF ToSet
  <2>2. ASSUME NEW x \in ToSet(d) PROVE x \in SystemsIn(t, t[n].next)
    <3>1. PICK i \in 1 .. Len(d) : x = d[i]
      BY <1>5, <2>2 DEF ToSet
    <3>2. i \in 1 .. Len(cs) /\ q \in 1 .. Len(cs) /\ i < q /\ x = cs[i]
      BY <1>3, <1>5, <1>6, <3>1
    <3>3. x < t[n].c
      BY <1>1, <1>3, <3>2
    <3>4. x \in ToSet(cs) /\ x \in Nat
      BY <1>1, <3>2 DEF ToSet
    <3>5. x # t[n].c
      BY <1>8, <3>3, <3>4
    <3> QED BY <1>1, <1>3, <3>4, <3>5
  <2> QED BY <2>1, <2>2
<1> QED BY <1>1, <1>4, <1>5, <1>7, <1>9 DEF CalloutIn, InC
-----------------------------------------------------------------------------
(* One lemma for each action.                                              *)

LEMMA KontFacts ==
  ASSUME StackAssumptions, KontInv
  PROVE  /\ kont \in [KontIds -> KontRecord] /\ NextsIn(kont) /\ CountsIn(kont)
         /\ Konts \subseteq KontIds /\ ClosedIn(kont, Konts)
         /\ \A k \in KontIds : k \notin Konts => kont[k] = Unused /\ kont[k].c = 0
         /\ nextK \in Konts \cup {NoKont} /\ NoKont \notin KontIds
         /\ \A k \in Konts : /\ kont[k].next \in Konts \cup {NoKont}
                             /\ KontHolds(mem, base, kont[k])
<1>1. /\ kont \in [KontIds -> KontRecord] /\ NextsIn(kont)
      /\ Konts \subseteq KontIds
      /\ \A k \in KontIds : k \notin Konts => kont[k] = Unused
  BY KontsAre DEF KontInv
<1>2. CountsIn(kont)
  BY <1>1 DEF KontRecord, CountsIn
<1>3. Unused.c = 0
  BY DEF Unused
<1> QED BY <1>1, <1>2, <1>3, InUseClosed, SizesAre DEF KontInv, Refers

\* The continuation objects are left as they are.
LEMMA PlainStep ==
  ASSUME StackAssumptions, ContInv, SegmentInv', UNCHANGED <<base, kont, cstack, callouts>>,
         \A p \in 1 .. base : mem'[p] = mem[p],
         esc' \in [Slots -> KontIds \cup {NoKont, NoStack}],
         \A s \in Slots : esc'[s] # NoStack => esc'[s] \in Konts \cup {NoKont},
         nextK' \in Konts \cup {NoKont}, Systems(nextK') = Systems(nextK),
         mode' = "c" => cstack # <<>> /\ nextK' = nextK /\ IsSystem(nextK)
  PROVE  ContInv'
<1>2. KontInv'
  BY KontSame DEF ContInv
<1>3. CalloutIn(kont, nextK, cstack, callouts, mode)
  BY CalloutsAre DEF ContInv
<1>4. SystemsIn(kont, nextK') = SystemsIn(kont, nextK)
  BY ChainsAre
<1>5. CalloutIn(kont, nextK', cstack, callouts, mode')
  BY <1>3, <1>4 DEF CalloutIn, InC, IsSystem
<1>6. CalloutInv'
  BY <1>5, CalloutsAre
<1> QED BY <1>2, <1>6 DEF ContInv

LEMMA EscapesAre ==
  ASSUME ContInv
  PROVE  /\ esc \in [Slots -> KontIds \cup {NoKont, NoStack}]
         /\ \A s \in Slots : esc[s] # NoStack => esc[s] \in Konts \cup {NoKont}
         /\ nextK \in Konts \cup {NoKont}
         /\ mode = "c" => cstack # <<>> /\ IsSystem(nextK)
         /\ PointerIn(base, fp, mode)
BY SegmentIs DEF ContInv, KontInv, Refers, CalloutInv

LEMMA StepCall ==
  ASSUME StackAssumptions, ContInv, NEW f \in Functions, Call(f)
  PROVE  ContInv'
<1>1. SegmentInv'
  BY SegmentCall DEF ContInv
<1>2. \A p \in 1 .. base : mem'[p] = mem[p]
  <2>1. base \in Nat /\ fp \in Nat /\ base < fp /\ fp <= SegmentSize /\ SegmentSize \in Nat
    BY EscapesAre, SizesAre DEF PointerIn
  <2>2. PICK b, h, t : b = base /\ h = fp /\ t = fp'
    OBVIOUS
  <2>3. mem' = [i \in 1 .. SegmentSize |-> IF i \in h + 1 .. t THEN f ELSE mem[i]]
    BY <2>2 DEF Call
  <2>4. ASSUME NEW p \in 1 .. b PROVE mem'[p] = mem[p]
    <3>1. p \in 1 .. SegmentSize /\ p \notin h + 1 .. t
      BY <2>1, <2>2
    <3> QED BY <2>3, <3>1
  <2> QED BY <2>2, <2>4
<1>3. mode' # "c" /\ UNCHANGED <<base, kont, nextK, esc, cstack, callouts>>
  BY DEF Call
<1> QED BY <1>1, <1>2, <1>3, EscapesAre, PlainStep

\* Nothing but the mode is changed.
LEMMA StepMode ==
  ASSUME StackAssumptions, ContInv, PointerIn(base, fp, mode'),
         UNCHANGED <<mem, base, fp, kont, nextK, esc, cstack, callouts>>,
         mode' = "c" => cstack # <<>> /\ IsSystem(nextK)
  PROVE  ContInv'
<1>1. SegmentInv'
  BY SegmentSame DEF ContInv
<1> QED BY <1>1, EscapesAre, PlainStep

LEMMA StepTailCall == ASSUME StackAssumptions, ContInv, TailCall PROVE ContInv'
<1>1. PointerIn(base, fp, mode') /\ mode' # "c"
  BY EscapesAre DEF TailCall, PointerIn, Modes
<1> QED BY <1>1, StepMode DEF TailCall

LEMMA StepEnterFunction == ASSUME StackAssumptions, ContInv, EnterFunction PROVE ContInv'
<1>1. PointerIn(base, fp, mode') /\ mode' # "c"
  BY EscapesAre, SizesAre DEF EnterFunction, Overflows, PointerIn, Modes
<1> QED BY <1>1, StepMode DEF EnterFunction

LEMMA StepCallback == ASSUME StackAssumptions, ContInv, Callback PROVE ContInv'
<1>1. PointerIn(base, fp, mode') /\ mode' # "c"
  BY EscapesAre DEF Callback, PointerIn, Modes
<1> QED BY <1>1, StepMode DEF Callback

LEMMA StepReturnToFrame == ASSUME StackAssumptions, ContInv, ReturnToFrame PROVE ContInv'
<1>1. SegmentInv' /\ \A p \in 1 .. base : mem'[p] = mem[p]
  BY SegmentReturn DEF ContInv
<1>2. mode' # "c" /\ UNCHANGED <<base, kont, nextK, esc, cstack, callouts>>
  BY DEF ReturnToFrame
<1> QED BY <1>1, <1>2, EscapesAre, PlainStep

LEMMA StepExecReturns == ASSUME StackAssumptions, ContInv, ExecReturns PROVE ContInv'
<1>1. PointerIn(base, fp, mode')
  BY EscapesAre DEF ExecReturns, AtUnderflow, InBody, PointerIn, Modes
<1>2. ASSUME mode' = "c" PROVE cstack # <<>> /\ IsSystem(nextK)
  <2>1. cstack # <<>> /\ (nextK # NoKont => kont[nextK].c > 0)
    BY <1>2 DEF ExecReturns
  <2>2. /\ cstack \in Seq(Nat \ {0})
        /\ SystemsIn(kont, nextK) = ToSet(cstack)
    BY CalloutsAre DEF ContInv, CalloutIn
  <2>3. cstack[1] \in ToSet(cstack)
    BY <2>1, <2>2 DEF ToSet
  <2>4. nextK # NoKont
    <3>1. ClosedIn(kont, {})
      BY DEF ClosedIn
    <3>2. ChainIn(kont, NoKont) = {}
      BY <3>1, ChainLeast
    <3>3. SystemsIn(kont, NoKont) = {}
      BY <3>2 DEF SystemsIn
    <3> QED BY <2>2, <2>3, <3>3
  <2> QED BY <2>1, <2>4 DEF IsSystem
<1> QED BY <1>1, <1>2, StepMode DEF ExecReturns

LEMMA StepDrop == ASSUME StackAssumptions, ContInv, NEW s \in Slots, Drop(s) PROVE ContInv'
<1>1. SegmentInv'
  BY EscapesAre, SegmentSame DEF ContInv, Drop
<1>2. /\ esc' \in [Slots -> KontIds \cup {NoKont, NoStack}]
      /\ \A i \in Slots : esc'[i] # NoStack => esc'[i] \in Konts \cup {NoKont}
  BY EscapesAre DEF Drop
<1> QED BY <1>1, <1>2, EscapesAre, PlainStep DEF Drop

LEMMA StepEscape ==
  ASSUME StackAssumptions, ~AcrossC, ContInv, NEW s \in Slots, Escape(s)
  PROVE  ContInv'
<1>1. SegmentInv' /\ \A p \in 1 .. base : mem'[p] = mem[p]
  BY SegmentEscape DEF ContInv
<1>2. /\ nextK' \in Konts \cup {NoKont} /\ mode' # "c"
      /\ UNCHANGED <<base, kont, esc, cstack, callouts>>
  BY EscapesAre DEF Escape
<1>3. Systems(nextK') = Systems(nextK)
  <2>1. Systems(esc[s]) = ToSet(cstack) /\ nextK' = esc[s]
    BY DEF Escape
  <2>2. Systems(nextK) = ToSet(cstack)
    BY DEF ContInv, CalloutInv
  <2> QED BY <2>1, <2>2
<1> QED BY <1>1, <1>2, <1>3, EscapesAre, PlainStep

LEMMA StepLeaveCFunction ==
  ASSUME StackAssumptions, ContInv, LeaveCFunction
  PROVE  ContInv'
<1>1. /\ nextK \in Konts /\ nextK \in KontIds /\ kont[nextK].c > 0
      /\ nextK' = kont[nextK].next /\ cstack' = Front(cstack) /\ mode' = "returning"
      /\ UNCHANGED <<mem, base, fp, kont, esc, callouts>>
  BY EscapesAre, KontFacts DEF LeaveCFunction, IsSystem, Left, ContInv
<1>2. SegmentInv'
  <2>1. PointerIn(base, fp, "returning")
    BY EscapesAre DEF LeaveCFunction, PointerIn, Modes
  <2> QED BY <1>1, <2>1, SegmentSame DEF ContInv
<1>3. KontInv'
  BY <1>1, EscapesAre, KontFacts, KontSame DEF ContInv
<1>4. CalloutInv'
  <2>1. CalloutIn(kont, nextK, cstack, callouts, mode)
    BY CalloutsAre DEF ContInv
  <2>2. PICK t, n, cs, c, m :
          t = kont /\ n = nextK /\ cs = cstack /\ c = callouts /\ m = mode
    OBVIOUS
  <2>3. CountsIn(t) /\ NextsIn(t) /\ NoKont \notin KontIds
    BY <2>2, KontFacts DEF ContInv
  <2>4. CalloutIn(t, t[n].next, Front(cs), c, "returning")
    BY <1>1, <2>1, <2>2, <2>3, CalloutPopped
  <2> QED BY <1>1, <2>2, <2>4, CalloutsAre
<1> QED BY <1>2, <1>3, <1>4 DEF ContInv
Followed(x, size, rest) == [Topmost(x, size) EXCEPT !.next = rest]

\* X keeps its topmost frame (Y), REST gets the others (R).
LEMMA SplitHolds ==
  ASSUME FrameSizes, NEW m, NEW b \in Nat, NEW x \in KontRecord, KontHolds(m, b, x), x.c = 0,
         NEW w, w = WordsOf(m, x), NEW size, size = FrameWords[w[Len(w)]], size < x.size,
         NEW rest \in KontIds, NEW r, r = Others(x, size),
         NEW y, y = Followed(x, size, rest)
  PROVE  /\ r \in KontRecord /\ KontHolds(m, b, r) /\ r.c = 0 /\ r.next = x.next /\ r # Unused
         /\ y \in KontRecord /\ KontHolds(m, b, y) /\ y.c = 0 /\ y.next = rest /\ y # Unused
<1>0. PICK below : below = x.size - size
  OBVIOUS
<1>1. /\ size \in 1 .. x.size /\ (x.moved = <<>> => w[Len(w)] = m[x.top])
      /\ (x.moved # <<>> => w = x.moved)
  BY WordsHold DEF WordsOf
<1>2. /\ x.moved \in Seq(Functions) /\ x.top \in Nat /\ x.size \in Nat /\ x.size > 0
      /\ size \in Nat /\ size > 0 /\ below \in Nat /\ below > 0 /\ below + size = x.size
  BY <1>0, <1>1 DEF KontRecord
<1>3. /\ r.c = 0 /\ r.next = x.next /\ r.size = below
      /\ r.top = IF x.moved = <<>> THEN x.top - size ELSE 0
      /\ r.moved = SubSeq(x.moved, 1, Len(x.moved) - size)
      /\ y.c = 0 /\ y.next = rest /\ y.size = size /\ y.top = x.top
      /\ y.moved = IF x.moved = <<>> THEN <<>> ELSE SubSeq(x.moved, below + 1, Len(x.moved))
      /\ r = [moved |-> r.moved, top |-> r.top, size |-> r.size, next |-> r.next, c |-> r.c]
      /\ y = [moved |-> y.moved, top |-> y.top, size |-> y.size, next |-> y.next, c |-> y.c]
      /\ x.next \in KontIds \cup {NoKont}
  BY <1>0 DEF KontRecord, Others, Topmost, Followed
<1>4. CASE x.moved = <<>>
  <2>1. PICK lo, hi, h : lo = x.top - x.size /\ hi = x.top /\ h = hi - size
    OBVIOUS
  <2>2. /\ lo \in Nat /\ hi \in Nat /\ lo < hi /\ hi <= b /\ Whole(m, lo, hi)
        /\ size = FrameWords[m[hi]]
    <3>1. w[Len(w)] = m[hi]
      BY <1>1, <1>4, <2>1
    <3>2. x.size <= x.top /\ x.top <= b /\ Whole(m, x.top - x.size, x.top)
      BY <1>4 DEF KontHolds
    <3>3. lo \in Nat /\ lo < hi
      <4>1. x.size <= x.top /\ x.top \in Nat /\ x.size \in Nat /\ x.size > 0
        BY <1>2, <3>2
      <4> QED BY <2>1, <4>1
    <3> QED BY <1>2, <2>1, <3>1, <3>2, <3>3
  <2>3. Whole(m, lo, h) /\ Whole(m, h, hi)
    BY <2>1, <2>2, TopWhole
  <2>4. r.moved = <<>>
    <3>1. Len(x.moved) - size < 1 /\ Len(x.moved) - size \in Int
      BY <1>2, <1>4
    <3>2. \A i \in 1 .. Len(x.moved) - size : x.moved[i] \in Functions
      BY <3>1
    <3>3. PICK q : q = Len(x.moved) - size
      OBVIOUS
    <3>4. SubSeq(x.moved, 1, q) = <<>>
      BY <3>1, <3>3, SubSeqEmpty
    <3> QED BY <1>3, <3>3, <3>4
  <2>5. r.top = h /\ h \in Nat /\ h <= b /\ below <= h /\ h - below = lo
    BY <1>2, <1>3, <1>4, <2>1, <2>2
  <2>6. KontHolds(m, b, r)
    BY <1>2, <1>3, <2>3, <2>4, <2>5 DEF KontHolds
  <2>7. y.moved = <<>> /\ y.top = hi /\ size <= hi /\ hi - size = h
    BY <1>2, <1>3, <1>4, <2>1, <2>2
  <2>8. KontHolds(m, b, y)
    BY <1>2, <1>3, <2>2, <2>3, <2>7 DEF KontHolds
  <2>9. <<>> \in Seq(Functions)
    OBVIOUS
  <2>10. r \in KontRecord
    BY <1>2, <1>3, <2>4, <2>5, <2>9 DEF KontRecord
  <2>11. y \in KontRecord
    BY <1>2, <1>3, <2>7, <2>9 DEF KontRecord
  <2> QED BY <1>2, <1>3, <2>6, <2>8, <2>10, <2>11, UsedIs
<1>5. CASE x.moved # <<>>
  <2>1. PICK s, q : s = x.moved /\ q = x.size
    OBVIOUS
  <2>2. /\ s \in Seq(Functions) /\ Len(s) = q /\ q \in Nat /\ q > 0 /\ Whole(s, 0, q)
        /\ size = FrameWords[s[q]] /\ 0 \in Nat
    BY <1>1, <1>2, <1>5, <2>1 DEF KontHolds
  <2>3. below = q - size
    BY <1>0, <2>1
  <2>4. Whole(s, 0, below) /\ Whole(s, below, q)
    BY <2>2, <2>3, TopWhole
  <2>5. PICK z, v, g : z = 0 /\ v = r.moved /\ g = y.moved
    OBVIOUS
  <2>6. r.moved \in Seq(Functions) /\ Len(r.moved) = below /\ Whole(r.moved, 0, below)
    <3>1. Len(s) - size = below /\ z + 1 = 1 /\ below - z = below /\ z \in Nat
      BY <1>2, <2>2, <2>3, <2>5
    <3>2. v = SubSeq(s, z + 1, below) /\ Whole(s, z, below)
      BY <1>3, <2>1, <2>4, <2>5, <3>1
    <3>3. v \in Seq(Functions) /\ Len(v) = below - z /\ Whole(v, 0, below - z)
      BY <1>2, <3>1, <3>2, CopiedWhole
    <3> QED BY <2>5, <3>1, <3>3
  <2>8. y.moved \in Seq(Functions) /\ Len(y.moved) = size /\ Whole(y.moved, 0, size)
    <3>1. y.moved = SubSeq(x.moved, below + 1, Len(x.moved))
      BY <1>3, <1>5
    <3>2. g = SubSeq(s, below + 1, q)
      BY <2>1, <2>2, <2>5, <3>1
    <3>3. g \in Seq(Functions) /\ Len(g) = q - below /\ Whole(g, 0, q - below)
      <4>1. Whole(s, below, q) /\ below \in Nat /\ q \in Nat
        BY <1>2, <2>2, <2>4
      <4> QED BY <3>2, <4>1, CopiedWhole
    <3>4. q - below = size
      BY <1>2, <2>1
    <3> QED BY <2>5, <3>3, <3>4
  <2>9. r.moved # <<>> /\ y.moved # <<>>
    BY <1>2, <2>6, <2>8
  <2>10. KontHolds(m, b, r) /\ KontHolds(m, b, y)
    BY <1>2, <1>3, <2>6, <2>8, <2>9 DEF KontHolds
  <2>11. r.top = 0
    BY <1>3, <1>5
  <2>12. r \in KontRecord
    BY <1>2, <1>3, <2>6, <2>11 DEF KontRecord
  <2>13. y \in KontRecord
    BY <1>2, <1>3, <2>8 DEF KontRecord
  <2> QED BY <1>2, <1>3, <2>10, <2>12, <2>13, UsedIs
<1> QED BY <1>4, <1>5

\* What the next continuation is split into.
LEMMA SplitIs ==
  ASSUME StackAssumptions, ContInv, NEW k \in Konts, kont[k].c = 0,
         NEW rest \in KontIds, rest \notin Konts, TopSize(k) < kont[k].size
  PROVE  LET u == Split(k, rest)
         IN /\ u \in [KontIds -> KontRecord]
            /\ \A j \in KontIds : j # k /\ j # rest => u[j] = kont[j]
            /\ \A j \in {k, rest} : /\ u[j] # Unused /\ u[j].c = 0
                                    /\ KontHolds(mem, base, u[j])
            /\ u[k].next = rest /\ u[rest].next = kont[k].next
<1>1. PICK m, b, x, w, size :
        m = mem /\ b = base /\ x = kont[k] /\ w = WordsOf(m, x) /\ size = FrameWords[w[Len(w)]]
  OBVIOUS
<1>2. PICK r, y : r = Others(x, size) /\ y = Followed(x, size, rest)
  OBVIOUS
<1>3. Words(k) = w
  BY <1>1 DEF Words, WordsOf
<1>4. TopSize(k) = size
  BY <1>1, <1>3 DEF TopFunction, TopSize
<1>5. /\ k \in KontIds /\ kont \in [KontIds -> KontRecord] /\ x \in KontRecord /\ b \in Nat
      /\ KontHolds(m, b, x) /\ x.c = 0 /\ FrameSizes /\ size < x.size /\ rest # k
  BY <1>1, <1>4, KontFacts, SizesAre, EscapesAre DEF ContInv, PointerIn
<1>6. /\ r \in KontRecord /\ KontHolds(m, b, r) /\ r.c = 0 /\ r.next = x.next /\ r # Unused
      /\ y \in KontRecord /\ KontHolds(m, b, y) /\ y.c = 0 /\ y.next = rest /\ y # Unused
  BY <1>1, <1>2, <1>5, SplitHolds
<1>7. PICK u : u = Split(k, rest)
  OBVIOUS
<1>8. u = [kont EXCEPT ![rest] = r, ![k] = y]
  BY <1>1, <1>2, <1>4, <1>5, <1>7 DEF Split, Followed
<1>9. /\ u \in [KontIds -> KontRecord] /\ u[rest] = r /\ u[k] = y
      /\ \A j \in KontIds : j # k /\ j # rest => u[j] = kont[j]
  BY <1>5, <1>6, <1>8
<1> QED BY <1>1, <1>6, <1>7, <1>9

LEMMA StepUnderflow == ASSUME StackAssumptions, ContInv, Underflow PROVE ContInv'
<1>1. /\ nextK \in Konts /\ nextK \in KontIds /\ kont[nextK].c = 0
      /\ mode' = "running" /\ UNCHANGED <<mem, base, fp, esc, cstack, callouts>>
      /\ kont \in [KontIds -> KontRecord] /\ NextsIn(kont) /\ NoKont \notin KontIds
      /\ ClosedIn(kont, Konts) /\ Konts \subseteq KontIds
  BY EscapesAre, KontFacts DEF Underflow, ContInv
<1>2. SegmentInv'
  <2>1. PointerIn(base, fp, "running")
    BY EscapesAre DEF Underflow, AtUnderflow, InBody, PointerIn, Modes
  <2> QED BY <1>1, <2>1, SegmentSame DEF ContInv
<1>3. SystemsIn(kont, nextK) = SystemsIn(kont, kont[nextK].next)
  <2>1. PICK t, k : t = kont /\ k = nextK
    OBVIOUS
  <2>2. SystemsIn(t, k) = ({t[k].c} \ {0}) \cup SystemsIn(t, t[k].next)
    BY <1>1, <2>1, ChainNext
  <2> QED BY <1>1, <2>1, <2>2
<1>4. CASE ~(TopSize(nextK) < kont[nextK].size)
  <2>1. nextK' = kont[nextK].next /\ kont' = kont
    BY <1>4 DEF Underflow
  <2>2. nextK' \in Konts \cup {NoKont} /\ Systems(nextK') = Systems(nextK)
    BY <1>1, <1>3, <2>1, KontFacts, ChainsAre DEF ContInv
  <2> QED BY <1>1, <1>2, <2>1, <2>2, EscapesAre, PlainStep
<1>5. CASE TopSize(nextK) < kont[nextK].size
  <2>1. FreeKonts # {} /\ kont' = Split(nextK, NewKont) /\ nextK' = NewKont
    BY <1>5 DEF Underflow
  <2>2. PICK t, u, k, rest : t = kont /\ u = kont' /\ k = nextK /\ rest = NewKont
    OBVIOUS
  <2>3. rest \in KontIds /\ rest \notin Konts
    BY <2>1, <2>2 DEF NewKont, FreeKonts
  <2>4. /\ u \in [KontIds -> KontRecord]
        /\ \A j \in KontIds : j # k /\ j # rest => u[j] = t[j]
        /\ \A j \in {k, rest} : u[j] # Unused /\ u[j].c = 0 /\ KontHolds(mem, base, u[j])
        /\ u[k].next = rest /\ u[rest].next = t[k].next
    BY <1>1, <1>5, <2>1, <2>2, <2>3, SplitIs
  <2>5. Konts' = Konts \cup {rest}
    BY <1>1, <2>2, <2>3, <2>4 DEF Konts
  <2>6. KontInv'
    <3>1. KontTypes'
      BY <2>2, <2>4 DEF KontTypes, KontRecord
    <3>2. ASSUME NEW j \in Konts'
          PROVE  kont'[j].next \in Konts' \cup {NoKont} /\ KontHolds(mem', base', kont'[j])
      <4>1. CASE j = rest
        <5>1. t[k].next \in Konts \cup {NoKont}
          BY <1>1, <2>2, KontFacts DEF ContInv
        <5> QED BY <1>1, <2>2, <2>4, <2>5, <4>1, <5>1
      <4>2. CASE j = k
        BY <1>1, <2>2, <2>4, <2>5, <4>2
      <4>3. CASE j # rest /\ j # k
        <5>1. j \in Konts /\ kont'[j] = kont[j]
          BY <1>1, <2>2, <2>4, <2>5, <3>2, <4>3
        <5>2. kont[j].next \in Konts \cup {NoKont} /\ KontHolds(mem, base, kont[j])
          BY <5>1, KontFacts DEF ContInv
        <5> QED BY <1>1, <2>5, <5>1, <5>2
      <4> QED BY <4>1, <4>2, <4>3
    <3>3. \A j \in Konts' : Refers(kont[j].next)' /\ KontHolds(mem, base, kont[j])'
      BY <3>2 DEF Refers, KontHolds, Whole
    <3>4. /\ nextK' \in Konts' \cup {NoKont}
          /\ \A s \in Slots : esc'[s] # NoStack => esc'[s] \in Konts' \cup {NoKont}
          /\ esc' \in [Slots -> KontIds \cup {NoKont, NoStack}]
      BY <1>1, <2>1, <2>2, <2>5, EscapesAre
    <3> QED BY <3>1, <3>3, <3>4 DEF KontInv, Refers
  <2>7. CalloutInv'
    <3>1. PICK A, n, cs, c, m : A = Konts /\ n = nextK /\ cs = cstack /\ c = callouts /\ m = mode
      OBVIOUS
    <3>2. NextsIn(t) /\ NextsIn(u) /\ A \subseteq KontIds /\ ClosedIn(t, A) /\ k \in A
          /\ rest \in KontIds \ A
      BY <1>1, <2>2, <2>3, <2>4, <3>1 DEF NextsIn, KontRecord
    <3>3. /\ u[rest].c = 0
          /\ \A j \in A : u[j].c = t[j].c /\ (j # k => u[j].next = t[j].next)
      BY <1>1, <2>2, <2>3, <2>4, <3>1
    <3>4. ASSUME NEW i \in A \cup {NoKont} PROVE SystemsIn(u, i) = SystemsIn(t, i)
      BY <1>1, <2>4, <3>2, <3>3, SystemsWhenSplit
    <3>5. ASSUME NEW j \in A, u[j].c > 0 PROVE SystemsIn(u, u[j].next) = SystemsIn(t, t[j].next)
      <4>1. j # k
        BY <2>4, <3>5
      <4>2. u[j].next = t[j].next /\ t[j].next \in A \cup {NoKont}
        BY <3>2, <3>3, <4>1 DEF ClosedIn
      <4> QED BY <3>4, <4>2
    <3>6. SystemsIn(u, rest) = SystemsIn(t, n)
      <4>1. SystemsIn(u, rest) = ({u[rest].c} \ {0}) \cup SystemsIn(u, t[k].next)
        BY <1>1, <2>3, <2>4, <3>2, ChainNext
      <4>2. t[k].next \in A \cup {NoKont}
        BY <3>2 DEF ClosedIn
      <4>3. SystemsIn(u, t[k].next) = SystemsIn(t, t[k].next)
        BY <3>4, <4>2
      <4> QED BY <1>3, <2>2, <3>1, <3>3, <4>1, <4>3
    <3>7. \A j \in KontIds : j \notin A => u[j].c = 0
      BY <2>2, <2>3, <2>4, <3>1, <3>2, KontFacts DEF ContInv
    <3>8. CalloutIn(t, n, cs, c, m)
      BY <2>2, <3>1, CalloutsAre DEF ContInv
    <3>9. CalloutIn(u, rest, cs, c, "running")
      <4>1. (\A j \in A : u[j].c = t[j].c) /\ InC(u, rest, cs, "running")
        BY <3>3 DEF InC
      <4> QED BY <3>2, <3>5, <3>6, <3>7, <3>8, <4>1, CalloutsKept
    <3> QED BY <1>1, <2>1, <2>2, <3>1, <3>9, CalloutsAre
  <2> QED BY <1>2, <2>6, <2>7 DEF ContInv
<1> QED BY <1>4, <1>5
\* The table of continuation objects becomes U, in which those of L are in use.
LEMMA KontsFrom ==
  ASSUME NEW u, kont' = u, u \in [KontIds -> KontRecord], NEW L, L \subseteq KontIds,
         \A k \in KontIds : k \in L <=> u[k] # Unused,
         \A k \in L : u[k].next \in L \cup {NoKont} /\ KontHolds(mem', base', u[k]),
         nextK' \in L \cup {NoKont}, esc' \in [Slots -> KontIds \cup {NoKont, NoStack}],
         \A s \in Slots : esc'[s] # NoStack => esc'[s] \in L \cup {NoKont}
  PROVE  KontInv'
<1>1. Konts' = L
  BY DEF Konts
<1>2. \A k \in Konts' : Refers(kont[k].next)' /\ KontHolds(mem, base, kont[k])'
  BY <1>1 DEF Refers, KontHolds, Whole
<1>3. KontTypes'
  BY DEF KontTypes, KontRecord
<1> QED BY <1>1, <1>2, <1>3 DEF KontInv, Refers

\* Objects in A stay what they were for those that they lead to, and REST leads to N.
LEMMA TableGrown ==
  ASSUME NEW t, NEW u, NextsIn(t), NextsIn(u), NEW A, A \subseteq KontIds, ClosedIn(t, A),
         NoKont \notin KontIds, \A j \in A : u[j].next = t[j].next /\ u[j].c = t[j].c
  PROVE  /\ \A i \in A \cup {NoKont} : SystemsIn(u, i) = SystemsIn(t, i)
         /\ \A k \in A : SystemsIn(u, u[k].next) = SystemsIn(t, t[k].next)
         /\ \A rest \in KontIds, n \in A \cup {NoKont} :
              u[rest].c = 0 /\ u[rest].next = n => SystemsIn(u, rest) = SystemsIn(t, n)
<1>1. ASSUME NEW i \in A \cup {NoKont} PROVE SystemsIn(u, i) = SystemsIn(t, i)
  BY ChainKept
<1>2. ASSUME NEW k \in A PROVE SystemsIn(u, u[k].next) = SystemsIn(t, t[k].next)
  <2>1. u[k].next = t[k].next /\ t[k].next \in A \cup {NoKont}
    BY DEF ClosedIn
  <2> QED BY <1>1, <2>1
<1>3. ASSUME NEW rest \in KontIds, NEW n \in A \cup {NoKont}, u[rest].c = 0, u[rest].next = n
      PROVE  SystemsIn(u, rest) = SystemsIn(t, n)
  <2>1. SystemsIn(u, rest) = ({u[rest].c} \ {0}) \cup SystemsIn(u, u[rest].next)
    BY ChainNext
  <2>2. {u[rest].c} \ {0} = {}
    BY <1>3
  <2>3. SystemsIn(u, u[rest].next) = SystemsIn(t, n)
    BY <1>1, <1>3
  <2> QED BY <2>1, <2>2, <2>3
<1> QED BY <1>1, <1>2, <1>3

\* Those of L stay; what is gone on with is what was, or a new object before it.
LEMMA CalloutsGrown ==
  ASSUME NEW t, NEW n, NEW cs, NEW c, NEW m, CalloutIn(t, n, cs, c, m),
         NEW u, NEW L, L \subseteq KontIds, ClosedIn(t, L), NextsIn(t), NextsIn(u),
         NoKont \notin KontIds, n \in L \cup {NoKont},
         \A j \in L : u[j].next = t[j].next /\ u[j].c = t[j].c,
         \A k \in KontIds : k \notin L => u[k].c = 0,
         NEW i, NEW l, l = "c" => m = "c",
         i = n \/ (i \in KontIds /\ i \notin L /\ u[i].next = n /\ l # "c")
  PROVE  CalloutIn(u, i, cs, c, l)
<1>1. /\ \A j \in L \cup {NoKont} : SystemsIn(u, j) = SystemsIn(t, j)
      /\ \A k \in L : SystemsIn(u, u[k].next) = SystemsIn(t, t[k].next)
      /\ \A rest \in KontIds, j \in L \cup {NoKont} :
           u[rest].c = 0 /\ u[rest].next = j => SystemsIn(u, rest) = SystemsIn(t, j)
  BY TableGrown
<1>2. SystemsIn(u, i) = SystemsIn(t, n)
  <2>1. CASE i = n
    BY <1>1, <2>1
  <2>2. CASE i # n
    <3>1. i \in KontIds /\ u[i].c = 0 /\ u[i].next = n
      BY <2>2
    <3> QED BY <1>1, <3>1
  <2> QED BY <2>1, <2>2
<1>3. InC(u, i, cs, l)
  <2>1. SUFFICES ASSUME l = "c" PROVE cs # <<>> /\ i # NoKont /\ u[i].c > 0
    BY DEF InC
  <2>2. i = n /\ cs # <<>> /\ n # NoKont /\ t[n].c > 0
    BY <2>1 DEF CalloutIn, InC
  <2> QED BY <2>2
<1>4. \A k \in L : u[k].c = t[k].c
  OBVIOUS
<1>5. \A k \in L : u[k].c > 0 => SystemsIn(u, u[k].next) = SystemsIn(t, t[k].next)
  BY <1>1
<1> QED BY <1>2, <1>3, <1>4, <1>5, CalloutsKept

\* The system continuations, but those that are freed, stay.
LEMMA CalloutsStay ==
  ASSUME StackAssumptions, ContInv, NEW u, kont' = u, u \in [KontIds -> KontRecord],
         NEW L, L \subseteq Konts, ClosedIn(kont, L), nextK \in L \cup {NoKont},
         \A k \in L : u[k].next = kont[k].next /\ u[k].c = kont[k].c,
         \A k \in KontIds : k \notin L => u[k].c = 0,
         UNCHANGED <<cstack, callouts>>,
         \/ nextK' = nextK
         \/ nextK' \in KontIds \ L /\ u[nextK'].next = nextK /\ mode' # "c",
         mode' = "c" => mode = "c"
  PROVE  CalloutInv'
<1>1. PICK t, n, cs, c, m, i, l :
        /\ t = kont /\ n = nextK /\ cs = cstack /\ c = callouts /\ m = mode
        /\ i = nextK' /\ l = mode'
  OBVIOUS
<1>2. CalloutIn(t, n, cs, c, m)
  BY <1>1, CalloutsAre DEF ContInv
<1>3. /\ NextsIn(t) /\ NextsIn(u) /\ L \subseteq KontIds /\ ClosedIn(t, L) /\ NoKont \notin KontIds
      /\ n \in L \cup {NoKont}
  BY <1>1, KontFacts DEF ContInv, NextsIn, KontRecord
<1>4. \A j \in L : u[j].next = t[j].next /\ u[j].c = t[j].c
  BY <1>1
<1>5. /\ l = "c" => m = "c"
      /\ i = n \/ (i \in KontIds /\ i \notin L /\ u[i].next = n /\ l # "c")
  BY <1>1
<1>6. CalloutIn(u, i, cs, c, l)
  BY <1>2, <1>3, <1>4, <1>5, CalloutsGrown
<1> QED BY <1>1, <1>6, CalloutsAre

LEMMA NewKontIs ==
  ASSUME FreeKonts # {}
  PROVE  NewKont \in KontIds /\ NewKont \notin Konts
BY DEF NewKont, FreeKonts

LEMMA StepCallCC ==
  ASSUME StackAssumptions, ContInv, NEW s \in Slots, CallCC(s)
  PROVE  ContInv'
<1>1. /\ mode = "entered" /\ mode' = "running" /\ UNCHANGED <<cstack, callouts>>
      /\ NewKont \in KontIds /\ NewKont \notin Konts
      /\ IF Freezes THEN /\ base' = NewBase /\ fp' = NewBase + 1
                         /\ mem' = [mem EXCEPT ![NewBase + 1] = "handler"]
                    ELSE UNCHANGED <<base, fp, mem>>
      /\ IF Freezes THEN kont' = [kont EXCEPT ![NewKont] = Frozen] /\ nextK' = NewKont
                    ELSE UNCHANGED <<kont, nextK>>
      /\ esc' = [esc EXCEPT ![s] = nextK']
  BY NewKontIs DEF CallCC, Seal
<1>2. /\ SegmentInv' /\ base' \in Nat /\ base <= base'
      /\ \A p \in 1 .. base : mem'[p] = mem[p]
      /\ Freezes => base' = fp /\ \A p \in 1 .. fp : mem'[p] = mem[p]
  BY <1>1, SegmentFrozen DEF ContInv
<1>3. CASE ~Freezes
  <2>1. UNCHANGED <<base, kont, nextK>>
    BY <1>1, <1>3
  <2>2. /\ esc' \in [Slots -> KontIds \cup {NoKont, NoStack}]
        /\ \A i \in Slots : esc'[i] # NoStack => esc'[i] \in Konts \cup {NoKont}
    BY <1>1, <2>1, EscapesAre, KontFacts DEF ContInv
  <2> QED BY <1>1, <1>2, <2>1, <2>2, EscapesAre, PlainStep
<1>4. CASE Freezes
  <2>1. PICK m, b, x, new : m = mem' /\ b = fp /\ x = Frozen /\ new = NewKont
    OBVIOUS
  <2>2. /\ x \in KontRecord /\ KontHolds(m, b, x) /\ x # Unused /\ x.c = 0 /\ x.next = nextK
    BY <1>2, <1>4, <2>1, FrozenHolds, SizesAre DEF ContInv
  <2>3. PICK u, L : u = kont' /\ L = Konts \cup {new}
    OBVIOUS
  <2>4. /\ u = [kont EXCEPT ![new] = x] /\ kont \in [KontIds -> KontRecord]
        /\ new \in KontIds /\ new \notin Konts /\ Konts \subseteq KontIds
        /\ nextK \in Konts \cup {NoKont} /\ NoKont \notin KontIds
    BY <1>1, <1>4, <2>1, <2>3, KontFacts DEF ContInv
  <2>5. /\ u \in [KontIds -> KontRecord] /\ u[new] = x
        /\ \A k \in KontIds : k # new => u[k] = kont[k]
    BY <2>2, <2>4
  <2>6. KontInv'
    <3>1. KontTypes'
      BY <2>3, <2>5 DEF KontTypes, KontRecord
    <3>2. /\ {new} \subseteq KontIds /\ {new} \cap Konts = {}
          /\ \A k \in KontIds : k \notin {new} => kont'[k] = kont[k]
      BY <2>3, <2>4, <2>5
    <3>3. \A k \in {new} : /\ kont'[k] # Unused /\ kont'[k].next \in Konts \cup {new} \cup {NoKont}
                           /\ KontHolds(mem', base', kont'[k])
      BY <1>2, <1>4, <2>1, <2>2, <2>3, <2>4, <2>5
    <3>4. /\ nextK' = new
          /\ nextK' \in Konts \cup {new} \cup {NoKont}
          /\ esc' \in [Slots -> KontIds \cup {NoKont, NoStack}]
          /\ \A i \in Slots : esc'[i] # NoStack => esc'[i] \in Konts \cup {new} \cup {NoKont}
      BY <1>1, <1>4, <2>1, <2>4, EscapesAre
    <3> QED BY <1>2, <3>1, <3>2, <3>3, <3>4, KontStep DEF ContInv
  <2>7. CalloutInv'
    <3>1. /\ ClosedIn(kont, Konts)
          /\ \A k \in Konts : u[k].next = kont[k].next /\ u[k].c = kont[k].c
          /\ \A k \in KontIds : k \notin Konts => u[k].c = 0
      BY <2>2, <2>4, <2>5, KontFacts DEF ContInv
    <3>2. nextK' \in KontIds \ Konts /\ u[nextK'].next = nextK /\ mode' # "c"
      BY <1>1, <1>4, <2>1, <2>2, <2>4, <2>5
    <3> QED BY <1>1, <2>3, <2>4, <2>5, <3>1, <3>2, CalloutsStay
  <2> QED BY <1>2, <2>6, <2>7 DEF ContInv
<1> QED BY <1>3, <1>4
\* An object that is moved to the heap.
LEMMA MovedIs ==
  ASSUME StackAssumptions, ContInv, NEW k \in Konts, kont[k].c = 0, NEW y,
         y = Moved(kont[k], Words(k)), NEW n, NEW d \in Nat
  PROVE  /\ y \in KontRecord /\ KontHolds(n, d, y) /\ y # Unused
         /\ y.next = kont[k].next /\ y.c = 0
<1>1. PICK m, b, x : m = mem /\ b = base /\ x = kont[k]
  OBVIOUS
<1>2. x \in KontRecord /\ KontHolds(m, b, x) /\ b \in Nat /\ FrameSizes /\ x.c = 0
  BY <1>1, KontFacts, EscapesAre, SizesAre DEF ContInv, PointerIn
<1>3. Words(k) = WordsOf(m, x)
  BY <1>1 DEF Words, WordsOf
<1>4. y = Moved(x, WordsOf(m, x))
  BY <1>1, <1>3
<1>5. /\ y \in KontRecord /\ KontHolds(n, d, y) /\ y # Unused
      /\ y.next = x.next /\ y.c = 0
  BY <1>2, <1>4, MovedHolds
<1> QED BY <1>1, <1>5

\* The frames of the stack that are moved to the heap.
LEMMA FrozenMoved ==
  ASSUME StackAssumptions, ContInv, Freezes, NEW y,
         y = Moved(Frozen, SubSeq(mem, base + 2, fp)),
         NEW n, NEW d \in Nat
  PROVE  /\ y \in KontRecord /\ KontHolds(n, d, y) /\ y # Unused
         /\ y.next = nextK /\ y.c = 0
<1>1. PICK m, b, x, h : m = mem /\ b = base /\ x = Frozen /\ h = fp
  OBVIOUS
<1>2. b \in Nat /\ h \in Nat /\ FrameSizes
  BY <1>1, EscapesAre, SizesAre DEF PointerIn
<1>3. /\ x \in KontRecord /\ KontHolds(m, h, x) /\ x.c = 0 /\ x.next = nextK
  BY <1>1, <1>2, FrozenHolds DEF ContInv
<1>4. WordsOf(m, x) = SubSeq(m, b + 2, h)
  <2>1. x.moved = <<>> /\ x.top = h /\ x.size = h - b - 1
    BY <1>1 DEF Frozen
  <2>2. h - (h - b - 1) + 1 = b + 2
    BY <1>2
  <2> QED BY <2>1, <2>2 DEF WordsOf
<1>5. y = Moved(x, WordsOf(m, x))
  BY <1>1, <1>4
<1>6. /\ y \in KontRecord /\ KontHolds(n, d, y) /\ y # Unused
      /\ y.next = x.next /\ y.c = 0
  <2>1. x \in KontRecord /\ KontHolds(m, h, x) /\ h \in Nat /\ FrameSizes /\ x.c = 0
    BY <1>2, <1>3
  <2> QED BY <1>5, <2>1, MovedHolds
<1> QED BY <1>3, <1>6

LEMMA StepStackOverflow ==
  ASSUME StackAssumptions, ContInv, StackOverflow
  PROVE  ContInv'
<1>1. PICK u, new, L : u = kont' /\ new = NewKont /\ L = Konts \cup (IF Freezes THEN {new} ELSE {})
  OBVIOUS
<1>2. /\ new \in KontIds /\ new \notin Konts /\ L \subseteq KontIds
      /\ kont \in [KontIds -> KontRecord] /\ NextsIn(kont) /\ Konts \subseteq KontIds
      /\ \A k \in KontIds : k \notin Konts => kont[k] = Unused /\ kont[k].c = 0
      /\ ClosedIn(kont, Konts) /\ nextK \in Konts \cup {NoKont} /\ NoKont \notin KontIds
      /\ Unused \in KontRecord
  BY <1>1, NewKontIs, KontFacts, KontsAre DEF StackOverflow, ContInv, KontInv
<1>3. /\ mem' = NewSegment /\ base' = 0 /\ fp' = 1 /\ mode' = "entered"
      /\ UNCHANGED <<esc, cstack, callouts>>
      /\ nextK' = IF Freezes THEN new ELSE nextK
      /\ base' \in Nat
  BY <1>1 DEF StackOverflow
<1>4. SegmentInv'
  BY <1>3, NewSegmentIs, SegmentIs
<1>5. /\ \A k \in KontIds :
           u[k] = IF k = new /\ Freezes
                    THEN Moved(Frozen, SubSeq(mem, base + 2, fp))
                  ELSE IF k \in Konts /\ kont[k].c = 0
                    THEN Moved(kont[k], Words(k))
                  ELSE kont[k]
      /\ DOMAIN u = KontIds /\ u = [k \in KontIds |-> u[k]]
  BY <1>1 DEF StackOverflow
<1>6. ASSUME NEW k \in Konts
      PROVE  /\ u[k] \in KontRecord /\ KontHolds(mem', base', u[k]) /\ u[k] # Unused
             /\ u[k].next = kont[k].next /\ u[k].c = kont[k].c
  <2>1. k # new /\ k \in KontIds
    BY <1>2
  <2>2. CASE kont[k].c = 0
    <3>1. u[k] = Moved(kont[k], Words(k))
      BY <1>5, <2>1, <2>2
    <3> QED BY <1>3, <2>2, <3>1, MovedIs
  <2>3. CASE kont[k].c # 0
    <3>1. u[k] = kont[k]
      BY <1>5, <2>1, <2>3
    <3> QED BY <1>2, <2>1, <2>3, <3>1 DEF Konts, KontHolds
  <2> QED BY <2>2, <2>3
<1>7. ASSUME Freezes
      PROVE  /\ u[new] \in KontRecord /\ KontHolds(mem', base', u[new]) /\ u[new] # Unused
             /\ u[new].next = nextK /\ u[new].c = 0
  <2>1. u[new] = Moved(Frozen, SubSeq(mem, base + 2, fp))
    BY <1>2, <1>5, <1>7
  <2> QED BY <1>3, <1>7, <2>1, FrozenMoved
<1>8. ASSUME NEW k \in KontIds, k \notin L PROVE u[k] = Unused /\ u[k].c = 0
  BY <1>1, <1>2, <1>5, <1>8
<1>9. u \in [KontIds -> KontRecord]
  <2>1. ASSUME NEW k \in KontIds PROVE u[k] \in KontRecord
    BY <1>1, <1>2, <1>6, <1>7, <1>8
  <2> QED BY <1>5, <2>1
<1>10. KontInv'
  <2>1. \A k \in KontIds : k \in L <=> u[k] # Unused
    BY <1>1, <1>6, <1>7, <1>8
  <2>2. ASSUME NEW k \in L PROVE u[k].next \in L \cup {NoKont} /\ KontHolds(mem', base', u[k])
    <3>1. CASE k \in Konts
      BY <1>1, <1>2, <1>6, <3>1 DEF ClosedIn
    <3>2. CASE k \notin Konts
      BY <1>1, <1>2, <1>7, <3>2
    <3> QED BY <3>1, <3>2
  <2>3. /\ nextK' \in L \cup {NoKont} /\ esc' \in [Slots -> KontIds \cup {NoKont, NoStack}]
        /\ \A s \in Slots : esc'[s] # NoStack => esc'[s] \in L \cup {NoKont}
    BY <1>1, <1>2, <1>3, EscapesAre
  <2> QED BY <1>1, <1>2, <1>9, <2>1, <2>2, <2>3, KontsFrom
<1>11. CalloutInv'
  <2>1. \A k \in Konts : u[k].next = kont[k].next /\ u[k].c = kont[k].c
    BY <1>6
  <2>2. \A k \in KontIds : k \notin Konts => u[k].c = 0
    BY <1>1, <1>7, <1>8
  <2>3. \/ nextK' = nextK
        \/ nextK' \in KontIds \ Konts /\ u[nextK'].next = nextK /\ mode' # "c"
    BY <1>2, <1>3, <1>7
  <2> QED BY <1>1, <1>2, <1>3, <1>9, <2>1, <2>2, <2>3, CalloutsStay
<1> QED BY <1>4, <1>10, <1>11 DEF ContInv

\* What is referred to, and what it leads to, is in use.
LEMMA LiveIs ==
  ASSUME StackAssumptions, ContInv
  PROVE  /\ Live \subseteq Konts /\ ClosedIn(kont, Live) /\ nextK \in Live \cup {NoKont}
         /\ \A s \in Slots : esc[s] # NoStack => esc[s] \in Live \cup {NoKont}
<1>1. /\ NextsIn(kont) /\ Konts \subseteq KontIds /\ ClosedIn(kont, Konts)
      /\ nextK \in Konts \cup {NoKont}
      /\ \A s \in Slots : esc[s] # NoStack => esc[s] \in Konts \cup {NoKont}
  BY KontFacts, EscapesAre DEF ContInv
<1>2. ASSUME NEW k \in Konts \cup {NoKont}
      PROVE  /\ Chain(k) \subseteq Konts /\ ClosedIn(kont, Chain(k))
             /\ k # NoKont => k \in Chain(k)
  <2>1. PICK t, A, c : t = kont /\ A = Konts /\ c = Chain(k)
    OBVIOUS
  <2>2. c = ChainIn(t, k)
    BY <2>1, ChainsAre
  <2>3. k \in KontIds \cup {NoKont} /\ k \in A \cup {NoKont} /\ NextsIn(t)
        /\ A \subseteq KontIds /\ ClosedIn(t, A)
    BY <1>1, <2>1
  <2>4. ClosedIn(t, ChainIn(t, k)) /\ (k # NoKont => k \in ChainIn(t, k))
    BY <2>3, ChainHas
  <2>5. ChainIn(t, k) \subseteq A
    BY <2>3, ChainLeast
  <2> QED BY <2>1, <2>2, <2>4, <2>5
<1>3. Live \subseteq Konts
  BY <1>1, <1>2 DEF Live
<1>4. ClosedIn(kont, Live)
  <2>1. ASSUME NEW j \in Live PROVE kont[j].next \in Live \cup {NoKont}
    <3>1. CASE j \in Chain(nextK)
      BY <1>1, <1>2, <3>1 DEF Live, ClosedIn
    <3>2. CASE j \notin Chain(nextK)
      <4>1. PICK s \in Slots : esc[s] # NoStack /\ j \in Chain(esc[s])
        BY <3>2 DEF Live
      <4>2. kont[j].next \in Chain(esc[s]) \cup {NoKont}
        BY <1>1, <1>2, <4>1 DEF ClosedIn
      <4> QED BY <4>1, <4>2 DEF Live
    <3> QED BY <3>1, <3>2
  <2> QED BY <2>1 DEF ClosedIn
<1>5. nextK \in Live \cup {NoKont}
  BY <1>1, <1>2 DEF Live
<1>6. ASSUME NEW s \in Slots, esc[s] # NoStack PROVE esc[s] \in Live \cup {NoKont}
  BY <1>1, <1>2, <1>6 DEF Live
<1> QED BY <1>3, <1>4, <1>5, <1>6

LEMMA StepCollectKonts ==
  ASSUME StackAssumptions, ContInv, CollectKonts
  PROVE  ContInv'
<1>1. PICK u, L : u = kont' /\ L = Live
  OBVIOUS
<1>2. UNCHANGED <<mem, base, fp, nextK, esc, cstack, callouts, mode>>
  BY DEF CollectKonts
<1>3. /\ L \subseteq Konts /\ ClosedIn(kont, L) /\ nextK \in L \cup {NoKont}
      /\ \A s \in Slots : esc[s] # NoStack => esc[s] \in L \cup {NoKont}
      /\ esc \in [Slots -> KontIds \cup {NoKont, NoStack}]
      /\ Konts \subseteq KontIds /\ kont \in [KontIds -> KontRecord] /\ Unused \in KontRecord
      /\ base' \in Nat
  BY <1>1, <1>2, LiveIs, EscapesAre, KontFacts, KontsAre DEF ContInv, KontInv, PointerIn
<1>4. /\ \A k \in KontIds :
           u[k] = IF k \notin L THEN Unused
                  ELSE IF kont[k].c > 0 THEN kont[k]
                  ELSE Moved(kont[k], Words(k))
      /\ DOMAIN u = KontIds /\ u = [k \in KontIds |-> u[k]]
  BY <1>1 DEF CollectKonts
<1>5. ASSUME NEW k \in L
      PROVE  /\ u[k] \in KontRecord /\ KontHolds(mem', base', u[k]) /\ u[k] # Unused
             /\ u[k].next = kont[k].next /\ u[k].c = kont[k].c
  <2>1. k \in KontIds /\ k \in Konts /\ kont[k].c \in Nat
    BY <1>3 DEF KontRecord
  <2>2. CASE kont[k].c = 0
    <3>1. u[k] = Moved(kont[k], Words(k))
      BY <1>4, <2>1, <2>2
    <3> QED BY <1>3, <2>1, <2>2, <3>1, MovedIs
  <2>3. CASE kont[k].c > 0
    <3>1. u[k] = kont[k]
      BY <1>4, <2>1, <2>3
    <3> QED BY <1>3, <2>1, <2>3, <3>1 DEF Konts, KontHolds
  <2> QED BY <2>1, <2>2, <2>3
<1>6. ASSUME NEW k \in KontIds, k \notin L PROVE u[k] = Unused /\ u[k].c = 0
  <2>1. u[k] = Unused
    BY <1>4, <1>6
  <2> QED BY <2>1 DEF Unused
<1>7. u \in [KontIds -> KontRecord]
  <2>1. ASSUME NEW k \in KontIds PROVE u[k] \in KontRecord
    BY <1>3, <1>5, <1>6
  <2> QED BY <1>4, <2>1
<1>8. KontInv'
  <2>1. \A k \in KontIds : k \in L <=> u[k] # Unused
    BY <1>5, <1>6
  <2>2. \A k \in L : u[k].next \in L \cup {NoKont} /\ KontHolds(mem', base', u[k])
    BY <1>3, <1>5 DEF ClosedIn
  <2> QED BY <1>1, <1>2, <1>3, <1>7, <2>1, <2>2, KontsFrom
<1>9. CalloutInv'
  <2>1. \A k \in L : u[k].next = kont[k].next /\ u[k].c = kont[k].c
    BY <1>5
  <2>2. \A k \in KontIds : k \notin L => u[k].c = 0
    BY <1>6
  <2> QED BY <1>1, <1>2, <1>3, <1>7, <2>1, <2>2, CalloutsStay
<1>10. SegmentInv'
  BY <1>2, EscapesAre, SegmentSame DEF ContInv
<1> QED BY <1>8, <1>9, <1>10 DEF ContInv
LEMMA TwoFree ==
  ASSUME Cardinality(FreeKonts) >= 2, NEW x
  PROVE  FreeKonts # {} /\ FreeKonts \ {x} # {}
<1>1. Cardinality({}) = 0
  BY FS_EmptySet
<1>2. Cardinality({x}) = 1
  BY FS_Singleton
<1>3. FreeKonts # {} /\ FreeKonts # {x}
  BY <1>1, <1>2
<1> QED BY <1>3

LEMMA StepCallout == ASSUME StackAssumptions, ContInv, Callout PROVE ContInv'
<1>1. PICK new, sealed, sk :
        /\ new = NewKont /\ sealed = IF Freezes THEN new ELSE nextK
        /\ sk = CHOOSE k \in FreeKonts \ {sealed} : TRUE
  OBVIOUS
<1>2. /\ new \in KontIds /\ new \notin Konts /\ sk \in KontIds /\ sk \notin Konts /\ sk # sealed
  <2>1. FreeKonts # {} /\ FreeKonts \ {sealed} # {}
    BY TwoFree DEF Callout
  <2>2. sk \in FreeKonts \ {sealed}
    BY <1>1, <2>1
  <2> QED BY <1>1, <2>1, <2>2, NewKontIs DEF FreeKonts
<1>3. /\ mode = "entered" /\ mode' = "c" /\ callouts' = callouts + 1
      /\ cstack' = Append(cstack, callouts') /\ esc' = esc /\ nextK' = sk
      /\ IF Freezes THEN /\ base' = NewBase /\ fp' = NewBase + 1
                         /\ mem' = [mem EXCEPT ![NewBase + 1] = "handler"]
                    ELSE UNCHANGED <<base, fp, mem>>
  BY <1>1 DEF Callout
<1>4. PICK u, x, y, L :
        /\ u = kont' /\ x = Frozen /\ y = [Unused EXCEPT !.next = sealed, !.c = callouts']
        /\ L = Konts \cup {sk} \cup (IF Freezes THEN {new} ELSE {})
  OBVIOUS
<1>5. u = [k \in KontIds |-> IF k = sk THEN y ELSE IF k = new /\ Freezes THEN x ELSE kont[k]]
  BY <1>1, <1>4 DEF Callout
<1>6. /\ kont \in [KontIds -> KontRecord] /\ Konts \subseteq KontIds
      /\ NextsIn(kont) /\ CountsIn(kont) /\ ClosedIn(kont, Konts)
      /\ nextK \in Konts \cup {NoKont} /\ NoKont \notin KontIds
      /\ \A k \in KontIds : k \notin Konts => kont[k] = Unused /\ kont[k].c = 0
      /\ \A k \in Konts : kont[k].next \in Konts \cup {NoKont} /\ KontHolds(mem, base, kont[k])
      /\ callouts \in Nat /\ FrameSizes
  BY KontFacts, SizesAre DEF ContInv, CalloutInv
<1>7. /\ SegmentInv' /\ base' \in Nat /\ base <= base'
      /\ \A p \in 1 .. base : mem'[p] = mem[p]
      /\ Freezes => base' = fp /\ \A p \in 1 .. fp : mem'[p] = mem[p]
  BY <1>3, SegmentFrozen DEF ContInv
<1>8. ASSUME Freezes
      PROVE  x \in KontRecord /\ KontHolds(mem', base', x) /\ x # Unused /\ x.c = 0 /\ x.next = nextK
  <2>1. PICK m, b : m = mem' /\ b = fp
    OBVIOUS
  <2>2. \A p \in 1 .. fp : m[p] = mem[p]
    BY <1>7, <1>8, <2>1
  <2>3. KontHolds(m, fp, Frozen)
    BY <1>6, <1>8, <2>2, FrozenHolds DEF ContInv
  <2>4. Frozen \in KontRecord /\ Frozen # Unused /\ Frozen.c = 0 /\ Frozen.next = nextK
    BY <1>6, <1>8, <2>2, FrozenHolds DEF ContInv
  <2> QED BY <1>4, <1>7, <1>8, <2>1, <2>3, <2>4
<1>9. y \in KontRecord /\ y.c = callouts + 1 /\ y.next = sealed /\ y.c > 0 /\ y # Unused
  <2>1. y = [moved |-> <<>>, top |-> 0, size |-> 0, next |-> sealed, c |-> callouts + 1]
    BY <1>3, <1>4 DEF Unused
  <2>2. sealed \in KontIds \cup {NoKont} /\ callouts + 1 \in Nat /\ callouts + 1 > 0
    BY <1>1, <1>2, <1>6
  <2>3. <<>> \in Seq(Functions)
    OBVIOUS
  <2>4. y \in KontRecord
    BY <2>1, <2>2, <2>3 DEF KontRecord
  <2> QED BY <2>1, <2>2, <2>4, UsedIs
<1>10. /\ u[sk] = y /\ (Freezes => u[new] = x)
       /\ \A k \in KontIds : k # sk /\ ~(k = new /\ Freezes) => u[k] = kont[k]
       /\ u \in [KontIds -> KontRecord]
  BY <1>1, <1>2, <1>5, <1>6, <1>8, <1>9
<1>11. \A k \in Konts : u[k] = kont[k]
  BY <1>2, <1>6, <1>10
<1>12. KontInv'
  <2>1. /\ KontTypes' /\ {sk} \subseteq KontIds
    BY <1>2, <1>4, <1>10 DEF KontTypes, KontRecord
  <2>2. PICK A : A = {sk} \cup (IF Freezes THEN {new} ELSE {})
    OBVIOUS
  <2>3. /\ A \subseteq KontIds /\ A \cap Konts = {}
        /\ \A k \in KontIds : k \notin A => kont'[k] = kont[k]
    BY <1>2, <1>4, <1>10, <2>2
  <2>4. sealed \in Konts \cup A \cup {NoKont} /\ KontHolds(mem', base', y)
    BY <1>1, <1>6, <1>9, <2>2 DEF KontHolds
  <2>5. \A k \in A : /\ kont'[k] # Unused /\ kont'[k].next \in Konts \cup A \cup {NoKont}
                     /\ KontHolds(mem', base', kont'[k])
    BY <1>1, <1>4, <1>6, <1>8, <1>9, <1>10, <2>2, <2>4
  <2>6. /\ nextK' \in Konts \cup A \cup {NoKont}
        /\ esc' \in [Slots -> KontIds \cup {NoKont, NoStack}]
        /\ \A s \in Slots : esc'[s] # NoStack => esc'[s] \in Konts \cup A \cup {NoKont}
    BY <1>3, <2>2, EscapesAre
  <2> QED BY <1>7, <2>1, <2>3, <2>5, <2>6, KontStep DEF ContInv
<1>13. CalloutInv'
  <2>1. PICK t, n, cs, c, m, A :
          t = kont /\ n = nextK /\ cs = cstack /\ c = callouts /\ m = mode /\ A = Konts
    OBVIOUS
  <2>2. CalloutIn(t, n, cs, c, m)
    BY <2>1, CalloutsAre DEF ContInv
  <2>3. /\ CountsIn(t) /\ NextsIn(t) /\ NextsIn(u) /\ A \subseteq KontIds /\ NoKont \notin KontIds
        /\ ClosedIn(t, A) /\ n \in A \cup {NoKont}
    BY <1>6, <1>10, <2>1 DEF NextsIn, KontRecord
  <2>4. \A k \in A : u[k].next = t[k].next /\ u[k].c = t[k].c
    BY <1>11, <2>1
  <2>5. /\ \A j \in A \cup {NoKont} : SystemsIn(u, j) = SystemsIn(t, j)
        /\ \A k \in A : SystemsIn(u, u[k].next) = SystemsIn(t, t[k].next)
        /\ \A rest \in KontIds, j \in A \cup {NoKont} :
             u[rest].c = 0 /\ u[rest].next = j => SystemsIn(u, rest) = SystemsIn(t, j)
    BY <2>3, <2>4, TableGrown
  <2>6. u[sk].next = sealed /\ u[sk].c = c + 1
    BY <1>9, <1>10, <2>1
  <2>7. SystemsIn(u, sealed) = SystemsIn(t, n)
    <3>1. CASE Freezes
      <4>1. sealed = new /\ new \in KontIds /\ u[new].c = 0 /\ u[new].next = n
        BY <1>1, <1>2, <1>8, <1>10, <2>1, <3>1
      <4> QED BY <2>3, <2>5, <4>1
    <3>2. CASE ~Freezes
      BY <1>1, <2>1, <2>3, <2>5, <3>2
    <3> QED BY <3>1, <3>2
  <2>8. /\ \A k \in A : u[k].c = t[k].c
        /\ \A k \in A : u[k].c > 0 => SystemsIn(u, u[k].next) = SystemsIn(t, t[k].next)
    BY <2>4, <2>5
  <2>9. ASSUME NEW k \in KontIds, k \notin A, k # sk PROVE u[k].c = 0
    <3>1. CASE k = new /\ Freezes
      BY <1>8, <1>10, <3>1
    <3>2. CASE ~(k = new /\ Freezes)
      BY <1>6, <1>10, <2>1, <2>9, <3>2
    <3> QED BY <3>1, <3>2
  <2>10. sk \in KontIds /\ sk \notin A /\ SystemsIn(u, u[sk].next) = SystemsIn(t, n)
    BY <1>2, <2>1, <2>6, <2>7
  <2>11. CalloutIn(u, sk, Append(cs, c + 1), c + 1, "c")
    BY <2>2, <2>3, <2>6, <2>8, <2>9, <2>10, CalloutPushed
  <2> QED BY <1>3, <1>4, <2>1, <2>11, CalloutsAre
<1> QED BY <1>7, <1>12, <1>13 DEF ContInv

-----------------------------------------------------------------------------
(* The invariant and what it implies.                                      *)

LEMMA ContStart == ASSUME StackAssumptions, ContInit PROVE ContInv
<1>1. SegmentInv
  BY SegmentInit
<1>2. /\ kont = [k \in KontIds |-> Unused] /\ nextK = NoKont /\ esc = [s \in Slots |-> NoStack]
      /\ cstack = <<>> /\ callouts = 0 /\ mode = "running"
  BY DEF ContInit
<1>3. Konts = {} /\ Unused.c = 0 /\ Unused.next = NoKont /\ <<>> \in Seq(Functions)
  BY <1>2 DEF Konts, Unused
<1>4. KontTypes
  <2>1. Unused \in [moved : Seq(Functions), top : Nat, size : Nat,
                    next : KontIds \cup {NoKont}, c : Nat]
    BY <1>3 DEF Unused
  <2> QED BY <1>2, <2>1 DEF KontTypes
<1>5. KontInv
  BY <1>2, <1>3, <1>4 DEF KontInv, Refers
<1>6. SystemsIn(kont, NoKont) = {}
  <2>1. ClosedIn(kont, {})
    BY DEF ClosedIn
  <2>2. ChainIn(kont, NoKont) = {}
    BY <2>1, ChainLeast
  <2> QED BY <2>2 DEF SystemsIn
<1>7. ToSet(<<>>) = {} /\ Len(<<>>) = 0 /\ <<>> \in Seq(Nat \ {0})
  BY DEF ToSet
<1>8. \A k \in KontIds : kont[k].c = 0
  BY <1>2, <1>3
<1>9. CalloutIn(kont, nextK, cstack, callouts, mode)
  <2>1. /\ \A k \in KontIds : kont[k].c <= 0
        /\ \A k \in KontIds : kont[k].c > 0 =>
             \A x \in SystemsIn(kont, kont[k].next) : x < kont[k].c
    BY <1>8
  <2>2. /\ \A i, j \in 1 .. Len(<<>>) : i < j => <<>>[i] < <<>>[j]
        /\ \A i \in 1 .. Len(<<>>) : <<>>[i] <= 0
    BY <1>7
  <2>3. InC(kont, NoKont, <<>>, "running") /\ 0 \in Nat
    BY DEF InC
  <2> QED BY <1>2, <1>6, <1>7, <2>1, <2>2, <2>3 DEF CalloutIn
<1> QED BY <1>1, <1>5, <1>9, CalloutsAre DEF ContInv

LEMMA ContStep ==
  ASSUME StackAssumptions, ~AcrossC, ContInv, [ContNext]_contVars
  PROVE  ContInv'
<1>1. CASE \E f \in Functions : Call(f)
  BY <1>1, StepCall
<1>2. CASE TailCall
  BY <1>2, StepTailCall
<1>3. CASE EnterFunction
  BY <1>3, StepEnterFunction
<1>4. CASE StackOverflow
  BY <1>4, StepStackOverflow
<1>5. CASE ReturnToFrame
  BY <1>5, StepReturnToFrame
<1>6. CASE Underflow
  BY <1>6, StepUnderflow
<1>7. CASE ExecReturns
  BY <1>7, StepExecReturns
<1>8. CASE \E s \in Slots : CallCC(s) \/ Drop(s) \/ Escape(s)
  BY <1>8, StepCallCC, StepDrop, StepEscape
<1>9. CASE Callout
  BY <1>9, StepCallout
<1>10. CASE Callback
  BY <1>10, StepCallback
<1>11. CASE LeaveCFunction
  BY <1>11, StepLeaveCFunction
<1>12. CASE CollectKonts
  BY <1>12, StepCollectKonts
<1>13. CASE UNCHANGED contVars
  <2>1. PointerIn(base, fp, mode') /\ (mode' = "c" => cstack # <<>> /\ IsSystem(nextK))
    BY <1>13, EscapesAre DEF contVars
  <2> QED BY <1>13, <2>1, StepMode DEF contVars
<1> QED BY <1>1, <1>2, <1>3, <1>4, <1>5, <1>6, <1>7, <1>8, <1>9, <1>10, <1>11, <1>12, <1>13
        DEF ContNext

LEMMA ContImplies == ASSUME StackAssumptions, ContInv PROVE StackInvariant
<1>1. StackTypes
  BY EscapesAre, KontFacts, SizesAre DEF StackTypes, ContInv, SegmentInv
<1>2. StaysInSegment
  BY DEF StaysInSegment, ContInv, SegmentInv
<1>3. SoundKonts
  <2>1. ASSUME NEW k \in Konts, kont[k].c = 0
        PROVE  /\ Words(k) # <<>> /\ Len(Words(k)) = kont[k].size
               /\ \A w \in ToSet(Words(k)) : w \in Functions
               /\ TopSize(k) <= kont[k].size
    <3>1. PICK m, b, x, w : m = mem /\ b = base /\ x = kont[k] /\ w = WordsOf(m, x)
      OBVIOUS
    <3>2. x \in KontRecord /\ KontHolds(m, b, x) /\ b \in Nat /\ FrameSizes /\ x.c = 0
      BY <2>1, <3>1, KontFacts, EscapesAre, SizesAre DEF ContInv, PointerIn
    <3>3. /\ w \in Seq(Functions) /\ w # <<>> /\ Len(w) = x.size /\ x.size > 0
          /\ FrameWords[w[Len(w)]] \in 1 .. x.size
      BY <3>1, <3>2, WordsHold
    <3>4. Words(k) = w
      BY <3>1 DEF Words, WordsOf
    <3>5. \A v \in ToSet(w) : v \in Functions
      BY <3>3 DEF ToSet
    <3>6. TopSize(k) <= x.size
      <4>1. TopSize(k) = FrameWords[w[Len(w)]]
        BY <3>4 DEF TopSize, TopFunction
      <4> QED BY <3>2, <3>3, <4>1 DEF KontRecord
    <3> QED BY <3>1, <3>3, <3>4, <3>5, <3>6
  <2> QED BY <2>1 DEF SoundKonts
<1>4. LeavesItsOwn
  <2>1. SUFFICES ASSUME mode = "c"
                 PROVE  IsSystem(nextK) /\ cstack # <<>> /\ kont[nextK].c = Last(cstack)
    BY DEF LeavesItsOwn
  <2>2. IsSystem(nextK) /\ cstack # <<>> /\ nextK \in KontIds
    BY <2>1, EscapesAre, KontFacts DEF IsSystem, ContInv
  <2>3. PICK t, n, cs, c, m :
          t = kont /\ n = nextK /\ cs = cstack /\ c = callouts /\ m = mode
    OBVIOUS
  <2>4. /\ CalloutIn(t, n, cs, c, m) /\ CountsIn(t) /\ NextsIn(t) /\ NoKont \notin KontIds
        /\ n \in KontIds /\ t[n].c > 0
    BY <2>2, <2>3, CalloutsAre, KontFacts DEF ContInv, IsSystem
  <2>5. cs[Len(cs)] = t[n].c
    BY <2>4, LastCallout
  <2> QED BY <2>2, <2>3, <2>5 DEF Last
<1> QED BY <1>1, <1>2, <1>3, <1>4 DEF StackInvariant

\* Whatever the sizes of the frames and of the segment: continuation objects hold whole
\* frames that nothing writes to, the segment is never left, and a C function that
\* returns finds the system continuation of its own callout
\* (ik_enter_c_function, ik_leave_c_function), if no escape procedure is called in
\* another callback than the one that made it.
THEOREM ContinuationsHold ==
  ASSUME StackAssumptions, ~AcrossC
  PROVE  ContSpec => []StackInvariant
<1>1. ContInit => ContInv
  BY ContStart
<1>2. ContInv /\ [ContNext]_contVars => ContInv'
  BY ContStep
<1>3. ContInv => StackInvariant
  BY ContImplies
<1> QED BY <1>1, <1>2, <1>3, PTL DEF ContSpec
=============================================================================
