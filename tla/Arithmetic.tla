------------------------------ MODULE Arithmetic ------------------------------
(***************************************************************************)
(* The exact integer arithmetic of Scheme programs, as the procedures of   *)
(* ikarus.numerics.generic-arithmetic.sls select among the functions of    *)
(* Bignums by the representation of their operands.  A behaviour is one    *)
(* call, with x as an operand: its result is to be that of the integers,   *)
(* and represented in the one way that the next call relies on.            *)
(*                                                                         *)
(* Flonums, rational and complex numbers are left out.  An offset is an    *)
(* integer and not a fixnum of the model's few bits: offsets of all sizes  *)
(* are fixnums of the program.                                             *)
(***************************************************************************)
EXTENDS Bignums

CONSTANTS
  OneLimb,      \* The limbs of operands that have one limb,
  LowLimbs,     \* and of those with two or three.
  MiddleLimbs,
  HighLimbs,
  Offsets,      \* Offsets of shifts: small natural numbers.
  Junk,         \* Values of limbs that were not written.
  FlonumLimbs   \* Limbs that fill a flonum: 1 where they have 64 bits, else 2.

VARIABLES x, call

numberVars == <<junk, collects, x, call>>

ArithmeticAssumptions ==
  /\ BignumAssumptions
  /\ OneLimb \cup LowLimbs \cup MiddleLimbs \cup HighLimbs \subseteq Limb
  /\ Offsets \subseteq 0..(2 * mp_bits_per_limb + 1)
  /\ Junk \subseteq Limb /\ FlonumLimbs \subseteq {1, 2}

OperandLimbs ==
  {<<l>> : l \in OneLimb}
  \cup {<<l, h>> : l \in LowLimbs, h \in HighLimbs}
  \cup {<<l, m, h>> : l \in LowLimbs, m \in MiddleLimbs, h \in HighLimbs}

\* The fixnums, and bignums of one to three limbs.
Operands ==
  {Fixnum(n) : n \in -most_negative_fixnum..most_positive_fixnum}
  \cup {b \in {Bignum(negative, l) : negative \in BOOLEAN, l \in OperandLimbs} : IsCanonical(b)}

greatest_fixnum == Fixnum(most_positive_fixnum)
least_fixnum    == Fixnum(-most_negative_fixnum)
minus_least     == Bignum(FALSE, <<most_negative_fixnum>>)   \* (- (least-fixnum))

-----------------------------------------------------------------------------
(* The procedures, by the representation of their operands.                *)

add_number_number(a, b) ==
  IF IsFixnum(a) THEN IF IsFixnum(b) THEN ikrt_fxfxplus(a.fixnum, b.fixnum)
                                     ELSE ikrt_fxbnplus(a.fixnum, b)
  ELSE IF IsFixnum(b) THEN ikrt_fxbnplus(b.fixnum, a)
  ELSE ikrt_bnbnplus(a, b)

sub_number_number(a, b) ==
  IF IsFixnum(a) THEN IF IsFixnum(b) THEN ikrt_fxfxminus(a.fixnum, b.fixnum)
                                     ELSE ikrt_fxbnminus(a.fixnum, b)
  ELSE IF IsFixnum(b) THEN ikrt_bnfxminus(a, b.fixnum)
  ELSE ikrt_bnbnminus(a, b)

\* A factor 1 is not multiplied with: a bignum times 1 is the same object.
mul_number_number(a, b) ==
  IF a = Fixnum(1) THEN b
  ELSE IF IsFixnum(a) THEN IF IsFixnum(b) THEN IF b = Fixnum(1) THEN a
                                               ELSE ikrt_fxfxmult(a.fixnum, b.fixnum)
                           ELSE ikrt_fxbnmult(a.fixnum, b)
  ELSE IF IsFixnum(b) THEN ikrt_fxbnmult(b.fixnum, a)
  ELSE ikrt_bnbnmult(a, b)

neg_number(a) ==
  IF a = least_fixnum THEN minus_least
  ELSE IF IsFixnum(a) THEN Fixnum(-a.fixnum)
  ELSE ikrt_fxbnminus(0, a)

\* $fxquotient and $fxremainder, for operands whose quotient is a fixnum.
FixnumQuotient(n, m)  == Signed((n < 0) # (m < 0), Abs(n) \div Abs(m))
FixnumRemainder(n, m) == Signed(n < 0, Abs(n) % Abs(m))

Negated(pair) == <<neg_number(pair[1]), neg_number(pair[2])>>

\* The least fixnum is divided as the bignum that is its opposite.
quotient_and_remainder(a, b) ==
  IF IsFixnum(a)
  THEN IF b = Fixnum(-1) THEN <<neg_number(a), Fixnum(0)>>
       ELSE IF a = least_fixnum
       THEN Negated(IF IsFixnum(b) THEN ikrt_bnfxdivrem(minus_least, b.fixnum)
                                   ELSE ikrt_bnbndivrem(minus_least, b))
       ELSE IF IsFixnum(b)
       THEN <<IK_FIX(FixnumQuotient(a.fixnum, b.fixnum)),
              IK_FIX(FixnumRemainder(a.fixnum, b.fixnum))>>
       ELSE <<Fixnum(0), a>>
  ELSE IF IsFixnum(b) THEN ikrt_bnfxdivrem(a, b.fixnum)
  ELSE ikrt_bnbndivrem(a, b)

\* The remainder, or its sum with the divisor if their signs differ.
modulo_bignum_bignum(a, b) ==
  LET rem == ikrt_bnbndivrem(a, b)[2]
  IN IF a.negative = b.negative \/ rem = Fixnum(0) THEN rem ELSE add_number_number(b, rem)

modulo(a, b) ==
  IF IsFixnum(a)
  THEN IF IsFixnum(b) THEN IK_FIX(Signed(b.fixnum < 0,
                                         Signed(b.fixnum < 0, a.fixnum) % Abs(b.fixnum)))
       ELSE IF a.fixnum = 0 \/ (a.fixnum < 0) = b.negative THEN a
       ELSE ikrt_fxbnplus(a.fixnum, b)
  ELSE IF IsFixnum(b) THEN ikrt_bnfx_modulo(a, b.fixnum)
  ELSE modulo_bignum_bignum(a, b)

\* -1, 0 or 1, as the comparisons order two numbers: a bignum is greater or
\* less than every fixnum by its sign.
comparison(a, b) ==
  IF IsFixnum(a) /\ IsFixnum(b)
  THEN IF a.fixnum < b.fixnum THEN -1 ELSE IF a.fixnum > b.fixnum THEN 1 ELSE 0
  ELSE IF IsFixnum(a) THEN IF b.negative THEN 1 ELSE -1
  ELSE IF IsFixnum(b) THEN IF a.negative THEN -1 ELSE 1
  ELSE ikrt_bnbncomp(a, b)

bitwise_not(a) == IF IsFixnum(a) THEN IK_FIX(-1 - a.fixnum) ELSE ikrt_bnlognot(a)

\* Fixnums are operated on as words.
FxAnd(n, m) == IK_FIX(AsSigned(LowWord(n) & LowWord(m)))
FxIor(n, m) == IK_FIX(AsSigned(LowWord(n) | LowWord(m)))
FxXor(n, m) == IK_FIX(AsSigned(LowWord(n) ^^ LowWord(m)))

binary_bitwise_and(a, b) ==
  IF IsFixnum(a) THEN IF IsFixnum(b) THEN FxAnd(a.fixnum, b.fixnum)
                                     ELSE ikrt_fxbnlogand(a.fixnum, b)
  ELSE IF IsFixnum(b) THEN ikrt_fxbnlogand(b.fixnum, a)
  ELSE ikrt_bnbnlogand(a, b)

binary_bitwise_ior(a, b) ==
  IF IsFixnum(a) THEN IF IsFixnum(b) THEN FxIor(a.fixnum, b.fixnum)
                                     ELSE ikrt_fxbnlogor(a.fixnum, b)
  ELSE IF IsFixnum(b) THEN ikrt_fxbnlogor(b.fixnum, a)
  ELSE ikrt_bnbnlogor(a, b)

\* $fxsra shifts by at most the bits of a word less one.
bitwise_arithmetic_shift_right(a, offset) ==
  IF IsFixnum(a)
  THEN Fixnum(a.fixnum \div 2^Min({offset, mp_bits_per_limb - 1}))
  ELSE IF offset = 0 THEN a ELSE ikrt_bignum_shift_right(a, offset)

bitwise_arithmetic_shift_left(a, offset) ==
  IF offset = 0 THEN a
  ELSE IF IsFixnum(a) THEN ikrt_fixnum_shift_left(a.fixnum, offset)
  ELSE ikrt_bignum_shift_left(a, offset)

\* The bits of a fixnum but its sign; those above are combined after a shift.
D == mp_bits_per_limb - fx_shift - 1

LowXor(a, b) ==
  LET low(c) == binary_bitwise_and(c, greatest_fixnum)
  IN FxAnd(FxXor(low(a).fixnum, low(b).fixnum).fixnum, most_positive_fixnum)

bitwise_xor_fixnum_bignum(n, b) ==
  binary_bitwise_ior(
    LowXor(Fixnum(n), b),
    bitwise_arithmetic_shift_left(
      bitwise_arithmetic_shift_right(IF n >= 0 THEN b ELSE bitwise_not(b), D), D))

RECURSIVE binary_bitwise_xor(_, _)
binary_bitwise_xor(a, b) ==
  IF IsFixnum(a) THEN IF IsFixnum(b) THEN FxXor(a.fixnum, b.fixnum)
                                     ELSE bitwise_xor_fixnum_bignum(a.fixnum, b)
  ELSE IF IsFixnum(b) THEN bitwise_xor_fixnum_bignum(b.fixnum, a)
  ELSE binary_bitwise_ior(
         LowXor(a, b),
         bitwise_arithmetic_shift_left(
           binary_bitwise_xor(bitwise_arithmetic_shift_right(a, D),
                              bitwise_arithmetic_shift_right(b, D)), D))

exact_integer_sqrt(a) ==
  IF IsFixnum(a)
  THEN LET s == IF a.fixnum > 0 THEN ikrt_exact_fixnum_sqrt(a.fixnum) ELSE 0
       IN <<IK_FIX(s), IK_FIX(a.fixnum - s * s)>>
  ELSE ikrt_exact_bignum_sqrt(a)

IsNegative(a) == IF IsFixnum(a) THEN a.fixnum < 0 ELSE a.negative

-----------------------------------------------------------------------------
(* One call.                                                               *)

NoCall == [name |-> "none", arg |-> 0, result |-> <<>>]

\* The results are numbers, but for the string, the flonum and the integers
\* that the comparison and the length return.
Answer(name, arg, result) ==
  /\ call.name = "none"
  /\ call' = [name |-> name, arg |-> arg, result |-> result]
  /\ UNCHANGED <<junk, collects, x>>

\* A call that raises a condition returns no values.
Violation == <<>>

Zero == Fixnum(0)

NumbersInit ==
  /\ x \in Operands
  /\ junk \in Junk /\ collects \in BOOLEAN
  /\ call = NoCall

Plus(y)  == Answer("+", y, <<add_number_number(x, y)>>)
Minus(y) == Answer("-", y, <<sub_number_number(x, y)>>)
Times(y) == Answer("*", y, <<mul_number_number(x, y)>>)
Negate   == Answer("negate", 0, <<neg_number(x)>>)

QuotientAndRemainder(y) ==
  Answer("quotient+remainder", y, IF y = Zero THEN Violation ELSE quotient_and_remainder(x, y))
Modulo(y) == Answer("modulo", y, IF y = Zero THEN Violation ELSE <<modulo(x, y)>>)

Compare(y) == Answer("compare", y, comparison(x, y))

BitwiseNot    == Answer("bitwise-not", 0, <<bitwise_not(x)>>)
BitwiseAnd(y) == Answer("bitwise-and", y, <<binary_bitwise_and(x, y)>>)
BitwiseIor(y) == Answer("bitwise-ior", y, <<binary_bitwise_ior(x, y)>>)
BitwiseXor(y) == Answer("bitwise-xor", y, <<binary_bitwise_xor(x, y)>>)

\* bitwise-arithmetic-shift, by a positive or a negative offset.
ShiftLeft(offset)  == Answer("shift-left", offset, <<bitwise_arithmetic_shift_left(x, offset)>>)
ShiftRight(offset) == Answer("shift-right", offset, <<bitwise_arithmetic_shift_right(x, offset)>>)

BitwiseLength == /\ ~IsFixnum(x)
                 /\ Answer("bitwise-length", 0, ikrt_bignum_length(x))

ExactIntegerSqrt ==
  Answer("exact-integer-sqrt", 0, IF IsNegative(x) THEN Violation ELSE exact_integer_sqrt(x))

NumberToString == /\ ~IsFixnum(x)
                  /\ Answer("number->string", 0, ikrt_bignum_to_bytevector(x))

ToFlonum(full) == /\ ~IsFixnum(x)
                  /\ Answer("->flonum", full, ikrt_bignum_to_flonum(x, full))

BignumHash == /\ ~IsFixnum(x)
              /\ Answer("hash", 0, <<ikrt_bignum_hash(x)>>)

\* (random n), for a fixnum greater than 1.
Random == /\ IsFixnum(x) /\ x.fixnum > 1
          /\ \E r \in ikrt_fxrandom(x.fixnum) : Answer("random", 0, <<r>>)

NumbersNext ==
  \/ \E y \in Operands : \/ Plus(y) \/ Minus(y) \/ Times(y)
                         \/ QuotientAndRemainder(y) \/ Modulo(y) \/ Compare(y)
                         \/ BitwiseAnd(y) \/ BitwiseIor(y) \/ BitwiseXor(y)
  \/ Negate \/ BitwiseNot \/ BitwiseLength
  \/ \E offset \in Offsets : ShiftLeft(offset) \/ ShiftRight(offset)
  \/ ExactIntegerSqrt \/ NumberToString \/ BignumHash \/ Random
  \/ \E full \in FlonumLimbs : ToFlonum(full)

NumbersSpec == NumbersInit /\ [][NumbersNext]_numberVars

-----------------------------------------------------------------------------
(* Properties.                                                             *)

\* The results of the calls that return numbers.
Numbers == IF call.name \in {"none", "compare", "bitwise-length", "number->string", "->flonum"}
           THEN {} ELSE {call.result[i] : i \in DOMAIN call.result}

\* Bit i of an integer, in two's complement.
Bit(n, i) == (n \div 2^i) % 2

\* The value of a string of digits.
Horner(digits) ==
  LET v[i \in 0..Len(digits)] == IF i = 0 THEN 0 ELSE 10 * v[i - 1] + digits[i]
  IN v[Len(digits)]

Sign(n) == IF n < 0 THEN -1 ELSE IF n > 0 THEN 1 ELSE 0

\* What the integers say of the result of a call.
Exact ==
  LET a    == ValueOf(x)
      b    == ValueOf(call.arg)
      r    == call.result
      v    == ValueOf(r[1])
      w    == ValueOf(r[2])
      bits == 0..(4 * mp_bits_per_limb)
  IN /\ ik_abort \notin Numbers
     /\ CASE call.name = "none" -> TRUE
          [] call.name = "+" -> v = a + b
          [] call.name = "-" -> v = a - b
          [] call.name = "*" -> v = a * b
          [] call.name = "negate" -> v = -a
          [] call.name = "quotient+remainder" ->
               IF b = 0 THEN r = Violation
               ELSE /\ r # Violation
                    /\ a = v * b + w
                    /\ Abs(w) < Abs(b)
                    /\ Sign(w) \in {0, Sign(a)}
          [] call.name = "modulo" ->
               IF b = 0 THEN r = Violation
               ELSE /\ r # Violation
                    /\ (a - v) % Abs(b) = 0
                    /\ Abs(v) < Abs(b)
                    /\ Sign(v) \in {0, Sign(b)}
          [] call.name = "compare" -> r = Sign(a - b)
          [] call.name = "bitwise-not" -> v = -1 - a
          [] call.name = "bitwise-and" -> \A i \in bits : Bit(v, i) = Bit(a, i) * Bit(b, i)
          [] call.name = "bitwise-ior" -> \A i \in bits : Bit(v, i) = Max({Bit(a, i), Bit(b, i)})
          [] call.name = "bitwise-xor" -> \A i \in bits : Bit(v, i) = (Bit(a, i) + Bit(b, i)) % 2
          [] call.name = "bitwise-length" ->
               LET n == IF a < 0 THEN -1 - a ELSE a IN n < 2^r /\ 2^(r - 1) <= n
          [] call.name = "shift-left" -> v = a * 2^call.arg
          [] call.name = "shift-right" -> v = a \div 2^call.arg
          [] call.name = "exact-integer-sqrt" ->
               IF a < 0 THEN r = Violation
               ELSE /\ r # Violation
                    /\ a = v * v + w
                    /\ 0 <= v /\ 0 <= w /\ w <= 2 * v
          [] call.name = "number->string" ->
               /\ Horner(r.digits) = Abs(a) /\ r.digits[1] # 0
               /\ r.negative = (a < 0)
          [] call.name = "->flonum" ->
               r = Signed(a < 0, Rounded(Abs(a), call.arg * mp_bits_per_limb - dropped_bits))
          [] call.name = "hash" -> v >= 0
          [] call.name = "random" -> v \in 0..(a - 1)

-----------------------------------------------------------------------------
(* Where the code is known to do something else.                           *)

BothBignums ==
  call.name \in {"+", "-", "bitwise-and"} /\ ~IsFixnum(x) /\ ~IsFixnum(call.arg)

\* A sum of magnitudes has a carry, and its second operand has more limbs.
CarryMisplaced ==
  /\ BothBignums
  /\ call.name \in {"+", "-"}
  /\ (x.negative = call.arg.negative) = (call.name = "+")
  /\ Len(x.limbs) < Len(call.arg.limbs)
  /\ mpn_add(call.arg.limbs, x.limbs).carry # 0

\* A negative number is shifted by whole limbs, loses bits that are not zero,
\* and is left with limbs of ones: their complement overflows.
ComplementOverflows ==
  /\ call.name = "shift-right" /\ ~IsFixnum(x) /\ x.negative
  /\ call.arg % mp_bits_per_limb = 0
  /\ LET whole == call.arg \div mp_bits_per_limb
     IN /\ whole < Len(x.limbs)
        /\ \A i \in DOMAIN x.limbs : i > whole => x.limbs[i] = Ones
        /\ \E i \in 1..whole : x.limbs[i] # 0

\* The operand moved while the root was allocated.
OperandMoved == call.name = "exact-integer-sqrt" /\ ~IsFixnum(x) /\ collects

\* Positive bignums have the greatest fixnum in common.
GreatestInCommon ==
  /\ BothBignums /\ call.name = "bitwise-and"
  /\ ValueOf(call.result[1]) = most_positive_fixnum

-----------------------------------------------------------------------------
(* What TLC checks.                                                        *)

\* The sum and the difference of exact integers are those of the integers,
\* whatever their signs and their numbers of limbs.
SumsAreExact == call.name \in {"+", "-"} => Exact

\* Every operation on exact integers returns what the integers do: at the
\* greatest and least fixnum, when limbs are carried into, borrowed from,
\* complemented, shifted out or shifted in, in all combinations of signs;
\* but where a carry is misplaced, a complement overflows or an operand moves.
ResultsAreExact == CarryMisplaced \/ ComplementOverflows \/ OperandMoved \/ Exact

\* Every number that is returned is represented in the one way there is, so
\* that comparisons and hashes may rely on it: no bignum has a value of the
\* fixnums, or zero limbs at its top; but for the greatest fixnum as the
\* common bits of two bignums.  No function has found itself wrong.
ResultsAreCanonical ==
  CarryMisplaced \/ OperandMoved \/ GreatestInCommon \/ \A r \in Numbers : IsCanonical(r)

=============================================================================
