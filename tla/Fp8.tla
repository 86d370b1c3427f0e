--------------------------------- MODULE Fp8 ---------------------------------
(***************************************************************************)
(* The host-side FP8 conversions of include/fp8.hpp.                       *)
(*                                                                         *)
(* A positive finite float is <<x, n>>, the number (n / Fine) * 2^(x - 5)  *)
(* with n in 32 * Fine .. 64 * Fine - 1: frexp's exponent is x + 1 and its *)
(* fraction n / (64 * Fine).  Fine is 2^18 for the 24 bits of a float; the *)
(* six bits of Fine = 1 tell apart what rounding to three or two bits can: *)
(* a code's value, the middle between two codes, and both sides of each.   *)
(* NaN, infinity and zero are the other floats.  A code is a number of 7   *)
(* bits; sign is the eighth, copied by both directions except that         *)
(* -0.0 < 0.0 is false, which loses the sign of -0.                        *)
(***************************************************************************)
EXTENDS Integers, FiniteSets

CONSTANT Fine

Significands == 32 * Fine .. 64 * Fine - 1

Zero == <<0, 0>>
Inf  == <<0, 1>>
NaN  == <<0, 2>>
Finite(v) == v[2] >= 32 * Fine

Less(v, w) == v[1] < w[1] \/ (v[1] = w[1] /\ v[2] < w[2])

(* 2^n *)
Exp2(n) ==
    LET power[i \in 0 .. n] == IF i = 0 THEN 1 ELSE 2 * power[i - 1]
    IN  power[n]

(* ldexp(k, e) for 0 < k < 64, and std::round(n / d). *)
Ldexp(k, e) ==
    LET p == CHOOSE i \in 0 .. 5 : Exp2(i) <= k /\ k < Exp2(i + 1)
    IN  <<e + p, k * Exp2(5 - p) * Fine>>
RoundDiv(n, d) == (2 * n + d) \div (2 * d)

-----------------------------------------------------------------------------
(* E4M3 *)

e4m3_to_f32(c) ==
    LET exp == c \div 8
        mant == c % 8
    IN  CASE exp = 0 /\ mant = 0  -> Zero
          [] exp = 15 /\ mant = 7 -> NaN
          [] exp = 0 /\ mant > 0  -> Ldexp(mant, -9)
          [] OTHER                -> Ldexp(8 + mant, exp - 10)

Clamp(v, max) == IF Less(max, v) THEN max ELSE v

(* Mutant: biased exponent 15 counts as overflow, as the comment in        *)
(* include/fp8.hpp:14 has it.                                              *)
E4M3Early(v0) ==
    LET v == Clamp(v0, <<8, 56 * Fine>>)
        biased == v[1] + 7
        m == RoundDiv((v[2] - 32 * Fine) * 8, 32 * Fine)
    IN  IF ~Finite(v0) THEN (IF v0 = NaN THEN 127 ELSE IF v0 = Zero THEN 0 ELSE 126)
        ELSE IF biased <= 0 THEN LET r == RoundDiv(v[2], Exp2(-4 - v[1]) * Fine) IN IF r > 7 THEN 7 ELSE r
        ELSE IF biased >= 15 THEN 126 ELSE biased * 8 + m

f32_to_e4m3(v0) ==
    LET v == Clamp(v0, <<8, 56 * Fine>>)   \* 448
        biased == v[1] + 7
        m == RoundDiv((v[2] - 32 * Fine) * 8, 32 * Fine)
        e == IF m >= 8 THEN biased + 1 ELSE biased
    IN  CASE v0 = NaN  -> 127
          [] v0 = Zero -> 0
          [] v0 = Inf  -> 126       \* clamped like any number above 448
          [] Finite(v0) /\ biased <= 0 ->
                LET mant == RoundDiv(v[2], Exp2(-4 - v[1]) * Fine) IN IF mant > 7 THEN 7 ELSE mant
          [] Finite(v0) /\ biased > 0 ->
                IF e > 15 \/ (e = 15 /\ m % 8 >= 7) THEN 126 ELSE e * 8 + (m % 8)

-----------------------------------------------------------------------------
(* E5M2 *)

e5m2_to_f32(c) ==
    LET exp == c \div 4
        mant == c % 4
    IN  CASE exp = 31 -> IF mant = 0 THEN Inf ELSE NaN
          [] exp = 0 /\ mant = 0 -> Zero
          [] exp = 0 /\ mant > 0 -> Ldexp(mant, -16)
          [] OTHER -> Ldexp(4 + mant, exp - 17)

f32_to_e5m2(v0) ==
    LET v == Clamp(v0, <<15, 56 * Fine>>)   \* 57344
        biased == v[1] + 15
        m == RoundDiv((v[2] - 32 * Fine) * 4, 32 * Fine)
        e == IF m >= 4 THEN biased + 1 ELSE biased
    IN  CASE v0 = NaN  -> 127
          [] v0 = Inf  -> 124
          [] v0 = Zero -> 0
          [] Finite(v0) /\ biased <= 0 ->
                LET mant == RoundDiv(v[2], Exp2(-11 - v[1]) * Fine) IN IF mant > 3 THEN 3 ELSE mant
          [] Finite(v0) /\ biased > 0 -> IF e >= 31 THEN 124 ELSE e * 4 + (m % 4)

-----------------------------------------------------------------------------
(* Reference *)

(* The formats: mantissa bits, bias and the largest finite code. *)
E4M3 == [bits |-> 3, bias |-> 7, max |-> 126]
E5M2 == [bits |-> 2, bias |-> 15, max |-> 123]

(* The number code c stands for when the mantissa has b bits.  Codes grow  *)
(* with their numbers, so the middle between c and c + 1 is code 2 * c + 1 *)
(* of the format with one bit more.                                        *)
Number(c, b, bias) ==
    LET B == Exp2(b)
    IN  IF c < B THEN Ldexp(c, 1 - bias - b)
                 ELSE Ldexp(B + (c % B), (c \div B) - bias - b)
Middle(f, c) == Number(2 * c + 1, f.bits + 1, f.bias)

(* The nearest code, ties away from zero, the largest above everything. *)
Nearest(f, v) == Cardinality({c \in 0 .. f.max - 1 : ~Less(v, Middle(f, c))})

=============================================================================
