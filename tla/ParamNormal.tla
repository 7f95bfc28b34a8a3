---------------------------- MODULE ParamNormal ----------------------------
(***************************************************************************)
(* normalizeParamValue (internal/lineage/run.go): the canonical spelling a *)
(* parameter's value is hashed under.                                      *)
(*                                                                         *)
(* A value is a string.  One made of a numeral's parts is the record of    *)
(* them, any other is Opaque.  float64 is a decimal format here, with      *)
(* Precision digits and a range of exponents, all small; its denormal      *)
(* numbers are left out.                                                   *)
(***************************************************************************)
EXTENDS Integers, Sequences

CONSTANTS
    Opaque,         \* strings that are not even made of a numeral's parts
    Precision,      \* significant digits of a float
    MinExp, MaxExp, \* the exponents of its first digit
    NoExp           \* a numeral without an exponent part

ASSUME FloatAssumption ==
    /\ Precision \in Nat \ {0}
    /\ MinExp \in Int /\ MaxExp \in Int /\ MinExp < -4 /\ MaxExp >= 6

\* Sign, digits before and after the point, and the exponent as a number (its
\* own spelling, 1e6 or 1e+06, is left out).  1. and 1_000 are Opaque.
Numeral(neg, int, frac, exp) == [neg |-> neg, int |-> int, frac |-> frac, exp |-> exp]

\* numericParamPattern: no leading zeros, and a digit after a point.
MatchesPattern(v) ==
    /\ v \notin Opaque
    /\ \/ v.int # <<>> /\ (v.int = <<0>> \/ v.int[1] # 0)
       \/ v.int = <<>> /\ v.frac # <<>>

-----------------------------------------------------------------------------
(* strconv.ParseFloat and FormatFloat (external).                          *)

\* The number a sequence of digits spells.
Number(digits) ==
    LET upTo[i \in 0..Len(digits)] == IF i = 0 THEN 0 ELSE upTo[i - 1] * 10 + digits[i]
    IN  upTo[Len(digits)]

\* How many digits n has, and the sequence of them.
Size(n) == IF n = 0 THEN 1 ELSE CHOOSE k \in 1..10 : 10^(k - 1) <= n /\ n \div 10 < 10^(k - 1)

DigitsOf(n) == [i \in 1..Size(n) |-> (n \div 10^(Size(n) - i)) % 10]

Zeros(k) == [i \in 1..k |-> 0]

\* m * 10^exp without the zeros at the end of m.
Stripped(m, exp) ==
    LET k == CHOOSE i \in 0..Size(m) : m % 10^i = 0 /\ m % 10^(i + 1) # 0
    IN  [m |-> m \div 10^k, exp |-> exp + k]

\* m * 10^exp rounded to Precision digits.
Rounded(m, exp) ==
    LET cut == Size(m) - Precision
    IN  IF cut <= 0 THEN Stripped(m, exp)
        ELSE Stripped((m + 5 * 10^(cut - 1)) \div 10^cut, exp + cut)

Exponent(f) == f.exp + Size(f.m) - 1

\* The float nearest to a numeral: out of range if it is too large, zero if it
\* is too small.
ParseFloat(v) ==
    LET m   == Number(v.int \o v.frac)
        exp == (IF v.exp = NoExp THEN 0 ELSE v.exp) - Len(v.frac)
        f   == IF m = 0 THEN [m |-> 0, exp |-> 0] ELSE Rounded(m, exp)
    IN  [neg |-> v.neg,
         err |-> m # 0 /\ Exponent(f) > MaxExp,
         m   |-> IF m # 0 /\ Exponent(f) < MinExp THEN 0 ELSE f.m,
         exp |-> f.exp]

\* The shortest spelling that parses back, verb 'g': positional for exponents
\* from -4 to 5, otherwise one digit before the point and an exponent.
FormatFloat(f) ==
    LET d == DigitsOf(f.m)
        x == Exponent(f)
    IN  IF f.m = 0 THEN Numeral(f.neg, <<0>>, <<>>, NoExp)
        ELSE IF x < -4 \/ x >= 6 THEN Numeral(f.neg, <<d[1]>>, Tail(d), x)
        ELSE IF f.exp >= 0 THEN Numeral(f.neg, d \o Zeros(f.exp), <<>>, NoExp)
        ELSE IF x < 0 THEN Numeral(f.neg, <<0>>, Zeros(-x - 1) \o d, NoExp)
        ELSE Numeral(f.neg, SubSeq(d, 1, x + 1), SubSeq(d, x + 2, Len(d)), NoExp)

-----------------------------------------------------------------------------

\* isZeroLiteral: no digit but zeros before the exponent.
IsZeroLiteral(v) == \A i \in 1..Len(v.int \o v.frac) : (v.int \o v.frac)[i] = 0

\* Fault: what underflows to zero is written as zero.
NormalizeUnderflowing(v) ==
    IF ~MatchesPattern(v) \/ ParseFloat(v).err THEN v
    ELSE LET f == ParseFloat(v)
         IN  FormatFloat(IF f.m = 0 THEN [f EXCEPT !.neg = FALSE] ELSE f)

\* normalizeParamValue.
Normalize(v) ==
    IF ~MatchesPattern(v) THEN v
    ELSE LET f == ParseFloat(v)
         IN  IF f.err \/ (f.m = 0 /\ ~IsZeroLiteral(v)) THEN v
             ELSE FormatFloat(IF f.m = 0 THEN [f EXCEPT !.neg = FALSE] ELSE f)

-----------------------------------------------------------------------------
(* The reference: what number a spelling denotes, exactly.                 *)

\* The digits of v as an integer, and the power of ten of the last one.
Mantissa(v) == Number(v.int \o v.frac)
Scale(v)    == (IF v.exp = NoExp THEN 0 ELSE v.exp) - Len(v.frac)

\* No more digits than a float has, and a magnitude it reaches.
FewDigits(v) ==
    \E k \in 0..6 : Mantissa(v) % 10^k = 0 /\ Mantissa(v) < 10^(k + Precision)

InRange(v) ==
    Mantissa(v) = 0 \/ Scale(v) + Size(Mantissa(v)) - 1 \in MinExp..MaxExp

\* w is v written with k zeros less.
Shifted(v, w, k) ==
    /\ Mantissa(v) % 10^k = 0
    /\ Mantissa(w) = Mantissa(v) \div 10^k
    /\ Scale(w) = Scale(v) + k

\* The two spell one and the same number.
SameNumber(v, w) ==
    \/ Mantissa(v) = 0 /\ Mantissa(w) = 0
    \/ /\ v.neg = w.neg
       /\ \/ \E k \in 0..6 : Shifted(v, w, k)
          \/ \E k \in 0..6 : Shifted(w, v, k)

=============================================================================
