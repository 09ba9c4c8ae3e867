------------------------------- MODULE Bignums --------------------------------
(***************************************************************************)
(* Exact integers as ikarus-numerics.c represents and computes them: a     *)
(* fixnum, or a bignum with a sign and a magnitude in limbs, least         *)
(* significant first.  An operator has the name of the C function it       *)
(* models; an integer argument named n is a fixnum's value, b and c are    *)
(* bignums.                                                                *)
(*                                                                         *)
(* Allocation is left out, as is the tagging of words, but for two things: *)
(* `junk` is what a limb holds that was allocated and not written, and     *)
(* `collects` tells whether the last allocation of a function collects,    *)
(* which moves the operands that are not in root0 or root1.                *)
(***************************************************************************)
EXTENDS Integers, Sequences, FiniteSets, FiniteSetsExt, Bitwise

CONSTANTS
  mp_bits_per_limb,  \* The bits of a limb, and of a machine word.
  fx_shift,          \* The bits of a word that a fixnum does not have.
  dropped_bits       \* The bits of a full significand that a flonum lacks.

VARIABLES junk, collects

BignumAssumptions ==
  /\ fx_shift \in Nat \ {0} /\ mp_bits_per_limb \in Nat /\ mp_bits_per_limb > fx_shift + 2
  /\ dropped_bits \in 1..(mp_bits_per_limb - 1)

RADIX == 2^mp_bits_per_limb
Limb  == 0..(RADIX - 1)
Ones  == RADIX - 1

most_positive_fixnum == 2^(mp_bits_per_limb - fx_shift - 1) - 1
most_negative_fixnum == most_positive_fixnum + 1   \* A magnitude.

Abs(n) == IF n < 0 THEN -n ELSE n

-----------------------------------------------------------------------------
(* Representations.                                                        *)

Fixnum(n) == [fixnum |-> n]
Bignum(negative, limbs) == [negative |-> negative, limbs |-> limbs]
IsFixnum(x) == "fixnum" \in DOMAIN x

\* IK_FIX: the bits that do not fit a fixnum are shifted out of the word.
IK_FIX(n) ==
  LET size == 2 * most_negative_fixnum
  IN Fixnum(((n + most_negative_fixnum) % size) - most_negative_fixnum)

\* A function that finds itself wrong ends the process.
ik_abort == [aborted |-> TRUE]

Natural(l) ==
  LET v[i \in 0..Len(l)] == IF i = 0 THEN 0 ELSE v[i - 1] + l[i] * RADIX^(i - 1)
  IN v[Len(l)]

ValueOf(x) == IF IsFixnum(x) THEN x.fixnum
            ELSE IF x.negative THEN -Natural(x.limbs) ELSE Natural(x.limbs)

\* DEBUG_VERIFY_BIGNUM, and that a fixnum is in its range.
IsCanonical(x) ==
  IF IsFixnum(x) THEN x = IK_FIX(x.fixnum)
  ELSE /\ x # ik_abort
       /\ Len(x.limbs) > 0
       /\ x.limbs[Len(x.limbs)] # 0
       /\ Len(x.limbs) = 1 =>
            x.limbs[1] > IF x.negative THEN most_negative_fixnum ELSE most_positive_fixnum

Greatest(negative) == IF negative THEN most_negative_fixnum ELSE most_positive_fixnum

Signed(negative, n) == IF negative THEN -n ELSE n

\* The limbs up to the highest that is not zero.
Significant(l) == Max({0} \cup {i \in DOMAIN l : l[i] # 0})

\* A value of one limb goes into a fixnum only if it is below the greatest.
NormalizedBelow(negative, l) ==
  LET n == Significant(l)
  IN IF n = 0 THEN Fixnum(0)
     ELSE IF n = 1 /\ l[1] < Greatest(negative) THEN IK_FIX(Signed(negative, l[1]))
     ELSE Bignum(negative, SubSeq(l, 1, n))

ik_normalize_bignum(negative, l) ==
  LET n == Significant(l)
  IN IF n = 0 THEN Fixnum(0)
     ELSE IF n = 1 /\ l[1] <= Greatest(negative) THEN IK_FIX(Signed(negative, l[1]))
     ELSE Bignum(negative, SubSeq(l, 1, n))

-----------------------------------------------------------------------------
(* The functions of GMP that the code calls, by what they return.          *)

Limbs(n, k) == [i \in 1..k |-> (n \div RADIX^(i - 1)) % RADIX]

mpn_add(s, t) ==
  LET n == Natural(s) + Natural(t)
  IN [limbs |-> Limbs(n, Len(s)), carry |-> n \div RADIX^Len(s)]

mpn_sub(s, t) ==
  LET n == Natural(s) - Natural(t)
  IN [limbs |-> Limbs(n, Len(s)), borrow |-> n < 0]

mpn_mul(s, t) == Limbs(Natural(s) * Natural(t), Len(s) + Len(t))

mpn_tdiv_qr(s, t) ==
  [quotient  |-> Limbs(Natural(s) \div Natural(t), Len(s) - Len(t) + 1),
   remainder |-> Limbs(Natural(s) % Natural(t), Len(t))]

\* The root and the remainder, with as many limbs as they need.
mpn_sqrtrem(s) ==
  LET n    == Natural(s)
      root == CHOOSE r \in 0..n : r * r <= n /\ n < (r + 1) * (r + 1)
  IN [root |-> Limbs(root, (Len(s) + 1) \div 2),
      remainder |-> SubSeq(Limbs(n - root * root, Len(s)), 1,
                           Significant(Limbs(n - root * root, Len(s))))]

\* The decimal digits, most significant first; there may be a zero before.
mpn_get_str(s) ==
  LET n    == Natural(s)
      size == CHOOSE k \in 1..10 : 10^(k - 1) <= n /\ (k = 10 \/ n < 10^k)
  IN <<0>> \o [i \in 1..size |-> (n \div 10^(size - i)) % 10]

-----------------------------------------------------------------------------
(* Addition and subtraction.                                               *)

\* A sum or difference of fixnums that is out of their range has one limb.
FixnumOrLimb(n) ==
  IF IK_FIX(n) = Fixnum(n) THEN Fixnum(n) ELSE Bignum(n < 0, <<Abs(n)>>)

ikrt_fxfxplus(n, m)  == FixnumOrLimb(n + m)
ikrt_fxfxminus(n, m) == FixnumOrLimb(n - m)

\* A magnitude and that of a fixnum are added: there may be one more limb.
Larger(negative, l, n) ==
  LET sum == mpn_add(l, <<Abs(n)>>)
  IN Bignum(negative, IF sum.carry = 0 THEN sum.limbs ELSE Append(sum.limbs, 1))

\* The magnitude of a fixnum is subtracted: the last limb may become zero.
Smaller(negative, l, n) ==
  LET diff == mpn_sub(l, <<Abs(n)>>)
      size == IF diff.limbs[Len(l)] # 0 THEN Len(l) ELSE Len(l) - 1
  IN IF diff.borrow THEN ik_abort
     ELSE IF size = 0 THEN Fixnum(0)
     ELSE IF size = 1 /\ diff.limbs[1] <= Greatest(negative)
          THEN IK_FIX(Signed(negative, diff.limbs[1]))
     ELSE Bignum(negative, SubSeq(diff.limbs, 1, size))

ikrt_fxbnplus(n, b) ==
  IF n = 0 THEN b
  ELSE IF (n > 0) # b.negative THEN Larger(b.negative, b.limbs, n)
  ELSE Smaller(b.negative, b.limbs, n)

\* Only the greatest positive fixnum plus one becomes a fixnum.
ikrt_bnnegate(b) ==
  IF b = Bignum(FALSE, <<most_positive_fixnum + 1>>) THEN IK_FIX(-b.limbs[1])
  ELSE Bignum(~b.negative, b.limbs)

ikrt_fxbnminus(n, b) ==
  IF n = 0 THEN ikrt_bnnegate(b)
  ELSE IF (n > 0) = b.negative THEN Larger(~b.negative, b.limbs, n)
  ELSE Smaller(~b.negative, b.limbs, n)

ikrt_bnfxminus(b, n) ==
  IF n = 0 THEN b
  ELSE IF (n > 0) = b.negative THEN Larger(b.negative, b.limbs, n)
  ELSE Smaller(b.negative, b.limbs, n)

\* The magnitudes are added.  A carry is written at the number of limbs of
\* the first operand, not of the longer one.
SumOf(negative, first, second) ==
  LET long  == IF Len(first) > Len(second) THEN first ELSE second
      short == IF Len(first) > Len(second) THEN second ELSE first
      sum   == mpn_add(long, short)
  IN Bignum(negative,
            IF sum.carry = 0 THEN sum.limbs
            ELSE [Append(sum.limbs, junk) EXCEPT ![Len(first) + 1] = 1])

\* The limbs that are left when equal ones are dropped from the top.
Differing(s, t) ==
  IF Len(s) = Len(t) THEN Max({0} \cup {i \in DOMAIN s : s[i] # t[i]}) ELSE Len(s)

\* The smaller magnitude is subtracted from the greater; the result has the
\* sign that goes with the greater.
DifferenceOf(negative, negative_if_less, s, t) ==
  LET n    == Differing(s, t)
      less == IF Len(s) = Len(t) THEN t[n] > s[n] ELSE Len(s) < Len(t)
      diff == IF less THEN mpn_sub(IF Len(s) = Len(t) THEN SubSeq(t, 1, n) ELSE t,
                                   IF Len(s) = Len(t) THEN SubSeq(s, 1, n) ELSE s)
              ELSE mpn_sub(s, t)
  IN IF n = 0 THEN Fixnum(0)
     ELSE IF diff.borrow THEN ik_abort
     ELSE ik_normalize_bignum(IF less THEN negative_if_less ELSE negative, diff.limbs)

ikrt_bnbnplus(b, c) ==
  IF b.negative = c.negative THEN SumOf(b.negative, b.limbs, c.limbs)
  ELSE DifferenceOf(b.negative, c.negative, b.limbs, c.limbs)

ikrt_bnbnminus(b, c) ==
  IF b.negative # c.negative THEN SumOf(b.negative, b.limbs, c.limbs)
  ELSE DifferenceOf(b.negative, ~c.negative, b.limbs, c.limbs)

-----------------------------------------------------------------------------
(* Multiplication, division, comparison.                                   *)

ikrt_fxfxmult(n, m) ==
  ik_normalize_bignum((n < 0) # (m < 0), mpn_mul(<<Abs(n)>>, <<Abs(m)>>))

ikrt_fxbnmult(n, b) ==
  IF n = 0 THEN Fixnum(0)
  ELSE ik_normalize_bignum((n < 0) # b.negative, mpn_mul(b.limbs, <<Abs(n)>>))

ikrt_bnbnmult(b, c) ==
  ik_normalize_bignum(b.negative # c.negative, mpn_mul(b.limbs, c.limbs))

\* Pairs of a quotient, rounded towards zero, and a remainder with the sign
\* of the dividend.
ikrt_bnbndivrem(b, c) ==
  IF Len(b.limbs) < Len(c.limbs) THEN <<Fixnum(0), b>>
  ELSE LET division == mpn_tdiv_qr(b.limbs, c.limbs)
       IN <<ik_normalize_bignum(b.negative # c.negative, division.quotient),
            ik_normalize_bignum(b.negative, division.remainder)>>

ikrt_bnfxdivrem(b, n) ==
  LET division == mpn_tdiv_qr(b.limbs, <<Abs(n)>>)
  IN <<ik_normalize_bignum(b.negative # (n < 0), division.quotient),
       IK_FIX(Signed(b.negative, division.remainder[1]))>>

\* The result has the sign of the fixnum.
ikrt_bnfx_modulo(b, n) ==
  LET m == mpn_tdiv_qr(b.limbs, <<Abs(n)>>).remainder[1]
  IN IF n \in {1, -1} THEN IK_FIX(0)
     ELSE IF b.negative = (n < 0) THEN IK_FIX(Signed(n < 0, m))
     ELSE IF m = 0 THEN IK_FIX(0)
     ELSE IK_FIX(IF n < 0 THEN n + m ELSE n - m)

\* -1, 0 or 1: magnitudes have their numbers of limbs compared, then the
\* limbs from the top.
Compared(s, t) ==
  LET n == Differing(s, t)
  IN IF Len(s) # Len(t) THEN IF Len(s) < Len(t) THEN -1 ELSE 1
     ELSE IF n = 0 THEN 0
     ELSE IF s[n] < t[n] THEN -1 ELSE 1

ikrt_bnbncomp(b, c) ==
  IF b.negative # c.negative THEN IF b.negative THEN -1 ELSE 1
  ELSE Signed(b.negative, Compared(b.limbs, c.limbs))

-----------------------------------------------------------------------------
(* Bitwise operations, on the two's complement of negative numbers.        *)

\* The carry is not taken from a limb to the next.
CarryToFirst(l, carry) ==
  [i \in DOMAIN l |-> (Ones - l[i] + IF carry /\ i = 1 THEN 1 ELSE 0) % RADIX]

\* The limbs of minus the magnitude, and for carry FALSE one less: a limb has
\* a carry if all below are zero.  The carry out of the last one is lost.
Complement(l, carry) ==
  [i \in DOMAIN l |->
     (Ones - l[i] + IF carry /\ \A j \in 1..(i - 1) : l[j] = 0 THEN 1 ELSE 0) % RADIX]

bits_complement(l) == Complement(l, TRUE)

Padded(l, n) == l \o [i \in 1..(n - Len(l)) |-> 0]

LowWord(n) == n % RADIX

\* A word as a signed integer.
AsSigned(w) == IF 2 * w < RADIX THEN w ELSE w - RADIX

LimbsAnd(s, t) == [i \in DOMAIN s |-> s[i] & t[i]]
LimbsOr(s, t)  == [i \in DOMAIN s |-> s[i] | t[i]]

\* x + 1 with the other sign, or x - 1.
ikrt_bnlognot(b) ==
  LET l     == b.limbs
      all   == IF b.negative THEN 0 ELSE Ones
      first == CHOOSE i \in 1..(Len(l) + 1) :
                 /\ \A j \in 1..(i - 1) : l[j] = all
                 /\ i \in DOMAIN l => l[i] # all
  IN IF b.negative
     THEN ik_normalize_bignum(FALSE,
            [i \in DOMAIN l |-> IF i < first THEN Ones
                                ELSE IF i = first THEN l[i] - 1 ELSE l[i]])
     ELSE Bignum(TRUE,
            [i \in 1..Max({first, Len(l)}) |->
               IF i < first THEN 0
               ELSE IF i \notin DOMAIN l THEN 1
               ELSE IF i = first THEN l[i] + 1 ELSE l[i]])

\* A bignum with another first limb, from its two's complement if it is
\* negative.
FirstLimbSet(b, w) ==
  LET s == bits_complement(Padded(b.limbs, Len(b.limbs) + 1))
  IN IF b.negative THEN ik_normalize_bignum(TRUE, bits_complement([s EXCEPT ![1] = w]))
     ELSE Bignum(FALSE, [b.limbs EXCEPT ![1] = w])

\* The first limb, of the two's complement if the number is negative.
FirstWord(b) == IF b.negative THEN LowWord(-b.limbs[1]) ELSE b.limbs[1]

ikrt_fxbnlogand(n, b) ==
  IF n >= 0 THEN IK_FIX(n & FirstWord(b))
  ELSE IF n = -1 THEN b
  ELSE FirstLimbSet(b, LowWord(n) & FirstWord(b))

ikrt_fxbnlogor(n, b) ==
  IF n < 0 THEN IK_FIX(AsSigned(LowWord(n) | FirstWord(b)))
  ELSE IF n = 0 THEN b
  ELSE FirstLimbSet(b, n | FirstWord(b))

\* Both are positive: the result has the limbs up to the highest that is not
\* zero, and is a fixnum only if it is less than the greatest.
AndOfPositive(s, t) ==
  LET n == Min({Len(s), Len(t)})
  IN NormalizedBelow(FALSE, LimbsAnd(SubSeq(s, 1, n), t))

\* s is that of a positive number.
AndWithNegative(s, t) ==
  LET n == Min({Len(s), Len(t)})
      c == bits_complement(t)
  IN ik_normalize_bignum(FALSE, [i \in DOMAIN s |-> IF i <= n THEN s[i] & c[i] ELSE s[i]])

\* s is not the shorter.
AndOfNegative(s, t) ==
  LET c == bits_complement(Padded(s, Len(s) + 1))
      d == bits_complement(t)
  IN ik_normalize_bignum(TRUE,
       bits_complement([i \in DOMAIN c |-> IF i <= Len(t) THEN c[i] & d[i] ELSE c[i]]))

ikrt_bnbnlogand(b, c) ==
  IF b.negative /\ c.negative
  THEN IF Len(b.limbs) >= Len(c.limbs) THEN AndOfNegative(b.limbs, c.limbs)
                                       ELSE AndOfNegative(c.limbs, b.limbs)
  ELSE IF b.negative THEN AndWithNegative(c.limbs, b.limbs)
  ELSE IF c.negative THEN AndWithNegative(b.limbs, c.limbs)
  ELSE AndOfPositive(b.limbs, c.limbs)

OrOfPositive(s, t) ==
  LET n == Max({Len(s), Len(t)})
  IN ik_normalize_bignum(FALSE, LimbsOr(Padded(s, n), Padded(t, n)))

\* s is that of a positive number; the result has the limbs of t.
OrWithNegative(s, t) ==
  LET c == bits_complement(t)
  IN ik_normalize_bignum(TRUE,
       bits_complement([i \in DOMAIN c |-> IF i <= Len(s) THEN c[i] | s[i] ELSE c[i]]))

\* s is not the shorter.
OrOfNegative(s, t) ==
  ik_normalize_bignum(TRUE,
    bits_complement(LimbsOr(bits_complement(s), bits_complement(Padded(t, Len(s))))))

ikrt_bnbnlogor(b, c) ==
  IF b.negative /\ c.negative
  THEN IF Len(b.limbs) >= Len(c.limbs) THEN OrOfNegative(b.limbs, c.limbs)
                                       ELSE OrOfNegative(c.limbs, b.limbs)
  ELSE IF b.negative THEN OrWithNegative(c.limbs, b.limbs)
  ELSE IF c.negative THEN OrWithNegative(b.limbs, c.limbs)
  ELSE OrOfPositive(b.limbs, c.limbs)

-----------------------------------------------------------------------------
(* Shifts by a number of bits: whole limbs, and the bits that are left.    *)

copy_bits_shifting_right(l, m) ==
  [i \in DOMAIN l |->
     (l[i] \div 2^m) + IF i < Len(l) THEN (l[i + 1] % 2^m) * 2^(mp_bits_per_limb - m) ELSE 0]

copy_bits_shifting_left(l, m) ==
  [i \in 1..(Len(l) + 1) |->
     (IF i <= Len(l) THEN (l[i] * 2^m) % RADIX ELSE 0)
     + IF i > 1 THEN l[i - 1] \div 2^(mp_bits_per_limb - m) ELSE 0]

\* The ones that come into the last limb of a negative number.
SignExtended(l, m) ==
  [l EXCEPT ![Len(l)] = @ | (RADIX - 2^(mp_bits_per_limb - m))]

\* A negative number is complemented, shifted, and complemented again in the
\* limbs it is left with.
ShiftedNegative(l, whole, m) ==
  LET carry == \A i \in 1..whole : l[i] = 0
      c     == Complement(SubSeq(l, whole + 1, Len(l)), carry)
  IN ik_normalize_bignum(TRUE,
       bits_complement(IF m = 0 THEN c ELSE SignExtended(copy_bits_shifting_right(c, m), m)))

ikrt_bignum_shift_right(b, offset) ==
  LET whole == offset \div mp_bits_per_limb
      m     == offset % mp_bits_per_limb
      rest  == SubSeq(b.limbs, whole + 1, Len(b.limbs))
  IN IF Len(b.limbs) <= whole THEN IK_FIX(IF b.negative THEN -1 ELSE 0)
     ELSE IF b.negative THEN ShiftedNegative(b.limbs, whole, m)
     ELSE ik_normalize_bignum(FALSE, copy_bits_shifting_right(rest, m))

ikrt_fixnum_shift_left(n, offset) ==
  LET whole == offset \div mp_bits_per_limb
      m     == offset % mp_bits_per_limb
      high  == IF m = 0 THEN 0 ELSE Abs(n) \div 2^(mp_bits_per_limb - m)
  IN ik_normalize_bignum(n < 0, [i \in 1..whole |-> 0] \o <<LowWord(Abs(n) * 2^m), high>>)

ikrt_bignum_shift_left(b, offset) ==
  LET whole == offset \div mp_bits_per_limb
      m     == offset % mp_bits_per_limb
  IN ik_normalize_bignum(b.negative,
       [i \in 1..whole |-> 0]
       \o IF m = 0 THEN b.limbs ELSE copy_bits_shifting_left(b.limbs, m))

-----------------------------------------------------------------------------
(* Lengths, conversions, roots and hashes.                                 *)

\* The bits of a number up to its highest one.
limb_length(n) == Min({i \in 0..30 : n < 2^i})

\* The bits of a negative number are those of its magnitude less one.
ikrt_bignum_length(b) ==
  LET l    == b.limbs
      last == l[Len(l)]
      size == limb_length(last)
      power == last = 2^(size - 1) /\ \A i \in 1..(Len(l) - 1) : l[i] = 0
  IN (Len(l) - 1) * mp_bits_per_limb + size - IF b.negative /\ power THEN 1 ELSE 0

\* The string has no zeros that mpn_get_str puts before the digits.
ikrt_bignum_to_bytevector(b) ==
  LET digits == mpn_get_str(b.limbs)
      start  == Min({i \in DOMAIN digits : digits[i] # 0})
  IN [negative |-> b.negative, digits |-> SubSeq(digits, start, Len(digits))]

\* What the processor makes of an integer of size bits: the bits that a
\* flonum lacks are rounded, to an even number in the middle.
Rounded(n, size) ==
  LET unit == 2^Max({0, limb_length(n) - size})
      low  == n % unit
      q    == n \div unit
  IN unit * IF 2 * low > unit \/ (2 * low = unit /\ q % 2 = 1) THEN q + 1 ELSE q

\* The value of the flonum; `full` is the number of limbs, 1 or 2, whose bits
\* are converted when the number has more.  The bits that would be rounded
\* are all set where the number, with the limbs that are dropped, has to be
\* rounded up, and is not in the middle.
ikrt_bignum_to_flonum(b, full) ==
  LET l    == b.limbs
      size == full * mp_bits_per_limb - dropped_bits
      bc   == limb_length(l[Len(l)])
      hi   == Natural(SubSeq(l, Len(l) - full, Len(l))) \div 2^bc
      mask == 2^dropped_bits - 1
      half == 2^(dropped_bits - 1)
      zero == /\ l[Len(l) - full] % 2^bc = 0
              /\ \A i \in 1..(Len(l) - full - 1) : l[i] = 0
      odd  == (hi \div 2^dropped_bits) % 2 = 1
      up   == hi % (mask + 1) > half \/ (hi % (mask + 1) = half /\ (~zero \/ odd))
      used == IF up THEN hi | mask ELSE hi
      exponent == bc + mp_bits_per_limb * (Len(l) - 1 - full)
  IN Signed(b.negative, IF Len(l) <= full THEN Rounded(Natural(l), size)
                        ELSE Rounded(used, size) * 2^exponent)

\* The words of an object that has moved are not those of the object.
Stale(l) == [i \in DOMAIN l |-> junk]

\* The operand is in root0 for two allocations, but not for the third.
ikrt_exact_bignum_sqrt(b) ==
  LET parts == mpn_sqrtrem(IF collects THEN Stale(b.limbs) ELSE b.limbs)
  IN <<ik_normalize_bignum(FALSE, parts.root),
       IF parts.remainder = <<>> THEN Fixnum(0)
       ELSE ik_normalize_bignum(FALSE, parts.remainder)>>

ikrt_exact_fixnum_sqrt(n) == mpn_sqrtrem(<<n>>).root[1]

\* The first word has the sign, the number of limbs and a tag.
ikrt_bignum_hash(b) ==
  LET first == (Len(b.limbs) * 16 + (IF b.negative THEN 8 ELSE 0) + 3) % RADIX
      h[i \in 0..Len(b.limbs)] ==
        IF i = 0 THEN first ELSE ((h[i - 1] ^^ b.limbs[i]) * 8) % RADIX
  IN IK_FIX(((h[Len(b.limbs)] * 16) % RADIX) \div 16)

\* What random() gives is cut by the smallest mask that has n in it; what is
\* not below n is thrown again.
ikrt_fxrandom(n) ==
  LET mask == Min({2^i - 1 : i \in {j \in 1..mp_bits_per_limb : 2^j - 1 >= n}})
  IN {IK_FIX(r) : r \in {q \in 0..mask : q < n}}

=============================================================================
